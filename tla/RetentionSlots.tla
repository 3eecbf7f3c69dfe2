--------------------------- MODULE RetentionSlots ---------------------------
(***************************************************************************)
(* The tiered retention policy of admin-scripts/juicefs-backup.py: which   *)
(* of a set of backups a prune at a given time keeps.  A backup is         *)
(* identified with the instant in its name (dump-<UTC time>.json.gz), an   *)
(* instant is a natural number of clock ticks since the UTC epoch.         *)
(***************************************************************************)
EXTENDS Integers, Sequences, FiniteSets

CONSTANT SLOTS    \* the tiers: a sequence of [n: slot count, w: slot width]

Instant == Nat

Tiers == DOMAIN SLOTS

ASSUME SlotsAssumption ==
    \A i \in Tiers : SLOTS[i].n \in Nat \ {0} /\ SLOTS[i].w \in Nat \ {0}

\* Calendar-aligned bucket index of instant t in tier i.
Bucket(t, i) == t \div SLOTS[i].w

\* The bucket of t in tier i is older than the n slots that end with the
\* bucket of now.
Expired(t, i, now) == Bucket(t, i) <= Bucket(now, i) - SLOTS[i].n

\* t lies in one of those slots.
InSlots(t, i, now) ==
    /\ Bucket(t, i) <= Bucket(now, i)
    /\ ~ Expired(t, i, now)

\* No member of backups is newer than t within t's bucket of tier i: the
\* element the newest-first scan of select_keep meets first.
NewestOfBucket(t, i, backups) ==
    \A u \in backups : Bucket(u, i) = Bucket(t, i) => u <= t

\* select_keep: every slot of every tier keeps the newest backup in its bucket.
SelectKeep(backups, now) ==
    {t \in backups : \E i \in Tiers : InSlots(t, i, now)
                                      /\ NewestOfBucket(t, i, backups)}
=============================================================================
