------------------------------- MODULE Backup -------------------------------
(***************************************************************************)
(* admin-scripts/juicefs-backup.py as a set of runs over one remote store. *)
(* The hourly timer is one run identity (systemd never starts a oneshot    *)
(* unit twice at once); every further identity is a run "by hand".  A run  *)
(* dumps, uploads, reads the clock again, lists the store, computes what   *)
(* to delete, and deletes file by file; any of its subprocesses may fail,  *)
(* and it may be killed at any point (TimeoutStartSec, reboot).            *)
(***************************************************************************)
EXTENDS RetentionSlots

CONSTANTS Runs,      \* identities of the runs that may overlap
          MaxTime    \* bound on the clock

ASSUME MaxTimeAssumption == MaxTime \in Nat

VARIABLES
    clock,      \* UTC time
    stored,     \* backups present under REMOTE
    pc,         \* pc[r]: where run r is
    taken,      \* taken[r]: the instant in the name of the backup r is making
    now,        \* now[r]: the argument of prune
    delete,     \* delete[r]: backups r still has to delete
    archive,    \* history: every backup ever uploaded
    ahead       \* history: backups listed by a run whose clock reading lies
                \* in an earlier bucket of some tier than the backup itself

vars == <<clock, stored, pc, taken, now, delete, archive, ahead>>

PC == {"idle", "dumping", "uploaded", "listing", "pruning"}

Init ==
    /\ clock = 0
    /\ stored = {} /\ archive = {} /\ ahead = {}
    /\ pc     = [r \in Runs |-> "idle"]
    /\ taken  = [r \in Runs |-> 0]
    /\ now    = [r \in Runs |-> 0]
    /\ delete = [r \in Runs |-> {}]

Tick ==
    /\ clock < MaxTime
    /\ clock' = clock + 1
    /\ UNCHANGED <<stored, pc, taken, now, delete, archive, ahead>>

\* main: the first clock reading names the backup, and the dump starts.
Start(r) ==
    /\ pc[r] = "idle"
    /\ pc'    = [pc EXCEPT ![r] = "dumping"]
    /\ taken' = [taken EXCEPT ![r] = clock]
    /\ UNCHANGED <<clock, stored, now, delete, archive, ahead>>

\* dump and gzip both returned 0 and rclone copy put the file in the store.
\* Two runs that started in the same second write the same name.
Upload(r) ==
    /\ pc[r] = "dumping"
    /\ stored'  = stored \union {taken[r]}
    /\ archive' = archive \union {taken[r]}
    /\ pc' = [pc EXCEPT ![r] = "uploaded"]
    /\ UNCHANGED <<clock, taken, now, delete, ahead>>

\* The second clock reading, which becomes the argument of prune.
ReadClock(r) ==
    /\ pc[r] = "uploaded"
    /\ now' = [now EXCEPT ![r] = clock]
    /\ pc'  = [pc EXCEPT ![r] = "listing"]
    /\ UNCHANGED <<clock, stored, taken, delete, archive, ahead>>

ListFromTaken(r) ==      \* mutant: select against the time of the dump
    /\ pc[r] = "listing"
    /\ delete' = [delete EXCEPT ![r] = stored \ SelectKeep(stored, taken[r])]
    /\ pc' = [pc EXCEPT ![r] = "pruning"]
    /\ UNCHANGED <<clock, stored, taken, now, archive, ahead>>

ListOldestFirst(r) ==    \* mutant: the listing sorted without reverse=True
    /\ pc[r] = "listing"
    /\ delete' = [delete EXCEPT ![r] =
           {t \in stored : \A i \in Tiers : InSlots(t, i, now[r]) =>
                \E u \in stored : Bucket(u, i) = Bucket(t, i) /\ u < t}]
    /\ pc' = [pc EXCEPT ![r] = "pruning"]
    /\ UNCHANGED <<clock, stored, taken, now, archive, ahead>>

\* list_remote, select_keep and the delete list; the listing is a snapshot
\* that the deletions below act on however old it has become.
List(r) ==
    /\ pc[r] = "listing"
    /\ delete' = [delete EXCEPT ![r] = stored \ SelectKeep(stored, now[r])]
    /\ ahead'  = ahead \union
           {t \in stored : \E i \in Tiers : Bucket(t, i) > Bucket(now[r], i)}
    /\ pc' = [pc EXCEPT ![r] = "pruning"]
    /\ UNCHANGED <<clock, stored, taken, now, archive>>

\* rclone deletefile on the next name, newest first.  It fails on a name
\* that another run has deleted already: see Abort.
Delete(r) ==
    /\ pc[r] = "pruning"
    /\ \E t \in delete[r] :
          /\ \A u \in delete[r] : u <= t
          /\ t \in stored
          /\ stored' = stored \ {t}
          /\ delete' = [delete EXCEPT ![r] = @ \ {t}]
    /\ UNCHANGED <<clock, pc, taken, now, archive, ahead>>

Finish(r) ==
    /\ pc[r] = "pruning"
    /\ delete[r] = {}
    /\ pc' = [pc EXCEPT ![r] = "idle"]
    /\ UNCHANGED <<clock, stored, taken, now, delete, archive, ahead>>

AbortKeepsList(r) ==     \* mutant: the next run inherits the delete list
    /\ pc[r] # "idle"
    /\ pc' = [pc EXCEPT ![r] = "idle"]
    /\ UNCHANGED <<clock, stored, taken, now, delete, archive, ahead>>

\* A failing dump or gzip (sys.exit), a failing rclone (check=True raises)
\* or a kill: the run ends where it stands and nothing is undone.
Abort(r) ==
    /\ pc[r] # "idle"
    /\ pc'     = [pc EXCEPT ![r] = "idle"]
    /\ delete' = [delete EXCEPT ![r] = {}]
    /\ UNCHANGED <<clock, stored, taken, now, archive, ahead>>

Next ==
    \/ Tick
    \/ \E r \in Runs : \/ Start(r) \/ Upload(r) \/ ReadClock(r) \/ List(r)
                       \/ Delete(r) \/ Finish(r) \/ Abort(r)

Spec == Init /\ [][Next]_vars

-----------------------------------------------------------------------------
TypeOK ==
    /\ clock \in Instant
    /\ archive \in SUBSET Instant
    /\ stored \in SUBSET archive
    /\ ahead \in SUBSET archive
    /\ pc \in [Runs -> PC]
    /\ taken \in [Runs -> Instant]
    /\ now \in [Runs -> Instant]
    /\ delete \in [Runs -> SUBSET archive]
    /\ \A r \in Runs : pc[r] # "pruning" => delete[r] = {}

\* Whatever runs overlap and wherever they fail, the newest backup ever
\* uploaded in each bucket that a slot of the present still covers is in the
\* store, unless a run listed it with a clock reading from before its bucket
\* (prune's now against list_remote).  Failed prunes, stale delete lists and
\* late uploads never cost a slot its backup.
SlotsKeepNewest ==
    \A t \in archive, i \in Tiers :
        InSlots(t, i, clock) /\ NewestOfBucket(t, i, archive)
            => t \in stored \union ahead

\* The docstring's "also safe to run by hand": the same promise with no
\* exception for overlapping runs.
SafeByHand == SelectKeep(archive, clock) \subseteq stored

\* A run that has nobody beside it ends with exactly the set the policy
\* selects from the whole archive, however many earlier prunes were cut
\* short: "a backup survives pruning iff it is the newest backup in any
\* slot's bucket".
SoloPruneExact ==
    \A r \in Runs : Runs = {r} /\ pc[r] = "pruning"
        => stored \ delete[r] = SelectKeep(archive, now[r])

\* What justifies each pending deletion for as long as it is pending, however
\* stale the listing: in every tier the backup is out of the window, newer
\* than the run's clock, or superseded within its bucket.
DeleteJustified ==
    \A r \in Runs : \A t \in delete[r] : \A i \in Tiers :
        \/ t \in ahead
        \/ Expired(t, i, now[r])
        \/ ~ NewestOfBucket(t, i, archive)

\* No run's clock reading or backup name is later than the present.
ReadingsArePast ==
    /\ \A t \in archive : t <= clock
    /\ \A r \in Runs : taken[r] <= clock /\ now[r] <= clock

\* With one run at a time the store keeps the abstract promise without an
\* exception: no step, failure or restart makes it forget a wanted backup.
Solo == INSTANCE Retention WITH excused <- {}
RetentionSpec == Solo!RSpec

\* With overlapping runs it keeps the same promise for every backup but those
\* a run listed with a clock reading from before their bucket.
Shared == INSTANCE Retention WITH excused <- ahead
SharedRetentionSpec == Shared!RSpec
=============================================================================
