------------------------------ MODULE Retention ------------------------------
(***************************************************************************)
(* What the backup store promises, with no runs, listings or failures: an  *)
(* append-only archive of the backups ever taken, and a store that may     *)
(* forget a backup only if no slot of the policy wants it, judged against  *)
(* the whole archive at the present time.  The retained set is therefore   *)
(* independent of when the prunes happened and of how many of them failed. *)
(* A backup may be excused from the promise; nothing says which ones: an   *)
(* implementation that excuses none substitutes the empty set.             *)
(***************************************************************************)
EXTENDS RetentionSlots

VARIABLES clock,      \* the present instant
          archive,    \* every backup ever stored
          stored,     \* the backups still in the store
          excused     \* backups the promise does not cover

rvars == <<clock, archive, stored, excused>>

Wanted == SelectKeep(archive, clock)

RInit == clock = 0 /\ archive = {} /\ stored = {} /\ excused = {}

RTick == /\ clock' = clock + 1
         /\ UNCHANGED <<archive, stored, excused>>

RStore(t) == /\ archive' = archive \union {t}
             /\ stored'  = stored \union {t}
             /\ UNCHANGED <<clock, excused>>

RExcuse == /\ excused \subseteq excused' /\ excused' \subseteq archive
           /\ UNCHANGED <<clock, archive, stored>>

RForget(t) == /\ t \in stored
              /\ t \notin Wanted \ excused
              /\ stored' = stored \ {t}
              /\ UNCHANGED <<clock, archive, excused>>

RNext == \/ RTick
         \/ RExcuse
         \/ \E t \in 0..clock : RStore(t)
         \/ \E t \in stored : RForget(t)

RSpec == RInit /\ [][RNext]_rvars
=============================================================================
