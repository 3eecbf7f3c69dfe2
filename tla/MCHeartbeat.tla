---------------------------- MODULE MCHeartbeat ----------------------------
EXTENDS Heartbeat, TLC

CONSTANTS p, alice

OneUser == p :> alice
=============================================================================
