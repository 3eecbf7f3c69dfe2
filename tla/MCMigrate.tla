----------------------------- MODULE MCMigrate -----------------------------
EXTENDS Cleanup

\* The user has nothing on tpu2 yet.
MCLacking == {2} \X Places
=============================================================================
