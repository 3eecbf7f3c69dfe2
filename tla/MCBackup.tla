------------------------------ MODULE MCBackup ------------------------------
(***************************************************************************)
(* Backup on small tiers.  The code's tiers nest the same way: an hour, a  *)
(* day of 24 hours, a week of 7 days.                                      *)
(***************************************************************************)
EXTENDS Backup, TLC

\* One tick per "hour", two "hours" per "day", two "days" per "week".  By tick
\* 10 slots of every tier have expired, and a backup is held by its week alone.
MCSlots == << [n |-> 2, w |-> 1], [n |-> 2, w |-> 2], [n |-> 2, w |-> 4] >>

\* For the overlapping runs: two ticks per "hour", so that an hour can hold two
\* backups, and two tiers whose boundaries coincide at tick 4.
MCTwoTiers == << [n |-> 2, w |-> 2], [n |-> 2, w |-> 4] >>

RunSymmetry == Permutations(Runs)
=============================================================================
