---------------------------- MODULE Backup_proofs ----------------------------
(***************************************************************************)
(* Proofs about Backup: for every sequence of tiers, every set of runs and *)
(* every bound on the clock.                                               *)
(***************************************************************************)
EXTENDS Backup, WellFoundedInduction, TLAPS

USE SlotsAssumption, MaxTimeAssumption DEF Instant, Tiers

\* The bucket index _bucket computes is an integer and never decreases with
\* time.
LEMMA BucketMonotone ==
    ASSUME NEW i \in Tiers, NEW a \in Instant, NEW b \in Instant
    PROVE  /\ Bucket(a, i) \in Nat
           /\ a <= b => Bucket(a, i) <= Bucket(b, i)
<1>1. SLOTS[i].w \in Nat \ {0}
  OBVIOUS
<1>2. \A w \in Nat \ {0} : a \div w \in Nat /\ (a <= b => a \div w <= b \div w)
  OBVIOUS
<1> QED
  BY <1>1, <1>2 DEF Bucket

\* A slot that expired for an earlier clock reading stays expired.
LEMMA ExpiredForever ==
    ASSUME NEW i \in Tiers, NEW t \in Instant,
           NEW a \in Instant, NEW b \in Instant,
           a <= b, Expired(t, i, a)
    PROVE  Expired(t, i, b)
<1>1. SLOTS[i].n \in Nat
  OBVIOUS
<1> QED
  BY <1>1, BucketMonotone DEF Expired

-----------------------------------------------------------------------------
\* Every run and the store stay within their types; pending deletions and
\* stored files are always files that were uploaded.
THEOREM TypeCorrect == Spec => []TypeOK
<1>1. Init => TypeOK
  BY DEF Init, TypeOK, PC
<1>2. TypeOK /\ [Next]_vars => TypeOK'
  <2> SUFFICES ASSUME TypeOK, [Next]_vars PROVE TypeOK'
    OBVIOUS
  <2> USE DEF TypeOK, PC
  <2>1. CASE Tick
    BY <2>1 DEF Tick
  <2>2. ASSUME NEW r \in Runs, Start(r) PROVE TypeOK'
    BY <2>2 DEF Start
  <2>3. ASSUME NEW r \in Runs, Upload(r) PROVE TypeOK'
    BY <2>3 DEF Upload
  <2>4. ASSUME NEW r \in Runs, ReadClock(r) PROVE TypeOK'
    BY <2>4 DEF ReadClock
  <2>5. ASSUME NEW r \in Runs, List(r) PROVE TypeOK'
    BY <2>5 DEF List
  <2>6. ASSUME NEW r \in Runs, Delete(r) PROVE TypeOK'
    BY <2>6 DEF Delete
  <2>7. ASSUME NEW r \in Runs, Finish(r) PROVE TypeOK'
    BY <2>7 DEF Finish
  <2>8. ASSUME NEW r \in Runs, Abort(r) PROVE TypeOK'
    BY <2>8 DEF Abort
  <2>9. CASE UNCHANGED vars
    BY <2>9 DEF vars
  <2> QED
    BY <2>1, <2>2, <2>3, <2>4, <2>5, <2>6, <2>7, <2>8, <2>9 DEF Next
<1> QED
  BY <1>1, <1>2, PTL DEF Spec

\* Backup names and clock readings are never in the future: the clock only
\* advances and every reading is of the clock.
LEMMA PastCorrect == Spec => []ReadingsArePast
<1>1. Init => ReadingsArePast
  BY DEF Init, ReadingsArePast
<1>2. TypeOK /\ ReadingsArePast /\ [Next]_vars => ReadingsArePast'
  <2> SUFFICES ASSUME TypeOK, ReadingsArePast, [Next]_vars
               PROVE  ReadingsArePast'
    OBVIOUS
  <2> USE DEF TypeOK, ReadingsArePast
  <2>1. CASE Tick
    BY <2>1 DEF Tick
  <2>2. ASSUME NEW r \in Runs, Start(r) PROVE ReadingsArePast'
    BY <2>2 DEF Start
  <2>3. ASSUME NEW r \in Runs, Upload(r) PROVE ReadingsArePast'
    BY <2>3 DEF Upload
  <2>4. ASSUME NEW r \in Runs, ReadClock(r) PROVE ReadingsArePast'
    BY <2>4 DEF ReadClock
  <2>5. ASSUME NEW r \in Runs, List(r) \/ Delete(r) \/ Finish(r) \/ Abort(r)
        PROVE  ReadingsArePast'
    <3>1. UNCHANGED <<clock, taken, now, archive>>
      BY <2>5 DEF List, Delete, Finish, Abort
    <3> QED
      BY <3>1
  <2>6. CASE UNCHANGED vars
    BY <2>6 DEF vars
  <2> QED
    BY <2>1, <2>2, <2>3, <2>4, <2>5, <2>6 DEF Next
<1> QED
  BY <1>1, <1>2, TypeCorrect, PTL DEF Spec

-----------------------------------------------------------------------------
\* A pending deletion never loses its justification: the archive only grows,
\* so a superseded backup stays superseded, and a run keeps its reading.
THEOREM DeleteJustifiedCorrect == Spec => []DeleteJustified
<1> DEFINE Justified(r, t, i) == \/ t \in ahead
                                 \/ Expired(t, i, now[r])
                                 \/ ~ NewestOfBucket(t, i, archive)
<1>1. Init => DeleteJustified
  BY DEF Init, DeleteJustified
<1>2. TypeOK /\ DeleteJustified /\ [Next]_vars => DeleteJustified'
  <2> SUFFICES ASSUME TypeOK, DeleteJustified, [Next]_vars,
                      NEW q \in Runs, NEW t \in delete'[q], NEW i \in Tiers
               PROVE  Justified(q, t, i)'
    BY DEF DeleteJustified
  <2>1. ASSUME t \in delete[q], ahead \subseteq ahead', now'[q] = now[q],
               archive \subseteq archive'
        PROVE  Justified(q, t, i)'
    BY <2>1 DEF DeleteJustified, Expired, Bucket, NewestOfBucket
  <2>2. CASE Tick \/ UNCHANGED vars
    BY <2>1, <2>2 DEF Tick, vars
  <2>3. ASSUME NEW r \in Runs, Start(r) \/ Upload(r) \/ Delete(r)
                                 \/ Finish(r) \/ Abort(r)
        PROVE  Justified(q, t, i)'
    BY <2>1, <2>3 DEF Start, Upload, Delete, Finish, Abort, TypeOK
  <2>4. ASSUME NEW r \in Runs, ReadClock(r) PROVE Justified(q, t, i)'
    \* r has nothing to delete before it lists.
    BY <2>1, <2>4 DEF ReadClock, TypeOK
  <2>5. ASSUME NEW r \in Runs, List(r) PROVE Justified(q, t, i)'
    <3>1. CASE q # r
      BY <2>1, <2>5, <3>1 DEF List, TypeOK
    <3>2. CASE q = r
      <4>1. t \in stored /\ t \in archive /\ t \notin SelectKeep(stored, now[r])
        BY <2>5, <3>2 DEF List, TypeOK
      <4>2. ~ InSlots(t, i, now[r]) \/ ~ NewestOfBucket(t, i, stored)
        BY <4>1 DEF SelectKeep
      <4>3. ~ NewestOfBucket(t, i, stored) => ~ NewestOfBucket(t, i, archive)
        BY DEF NewestOfBucket, TypeOK
      <4>4. Bucket(t, i) > Bucket(now[r], i) => t \in ahead'
        BY <2>5, <4>1 DEF List
      <4>5. Bucket(t, i) \in Nat /\ Bucket(now[r], i) \in Nat
        BY <4>1, BucketMonotone DEF TypeOK
      <4>6. t \in ahead' \/ Expired(t, i, now[r]) \/ ~ NewestOfBucket(t, i, archive)
        BY <4>2, <4>3, <4>4, <4>5 DEF InSlots
      <4> QED
        BY <2>5, <3>2, <4>6 DEF List, Expired, Bucket, NewestOfBucket
    <3> QED
      BY <3>1, <3>2
  <2> QED
    BY <2>2, <2>3, <2>4, <2>5 DEF Next
<1> QED
  BY <1>1, <1>2, TypeCorrect, PTL DEF Spec
-----------------------------------------------------------------------------
\* A backup a run may still delete is not wanted by any slot of the present,
\* because the present is no earlier than the run's clock reading.
LEMMA PendingNotWanted ==
    ASSUME TypeOK, ReadingsArePast, DeleteJustified,
           NEW r \in Runs, NEW t \in delete[r], t \notin ahead, NEW i \in Tiers
    PROVE  ~ (InSlots(t, i, clock) /\ NewestOfBucket(t, i, archive))
<1>1. Expired(t, i, now[r]) \/ ~ NewestOfBucket(t, i, archive)
  BY DEF DeleteJustified
<1>2. t \in Instant /\ now[r] \in Instant /\ clock \in Instant /\ now[r] <= clock
  BY DEF TypeOK, ReadingsArePast
<1>3. Expired(t, i, now[r]) => Expired(t, i, clock)
  BY <1>2, ExpiredForever
<1> QED
  BY <1>1, <1>3 DEF InSlots

\* The store's central promise, with any number of overlapping runs: no
\* covered bucket loses its newest backup, except to a run whose clock reading
\* was already out of date for that backup when it listed the store.
THEOREM SlotsKeepNewestCorrect == Spec => []SlotsKeepNewest
<1> DEFINE Pre == TypeOK /\ ReadingsArePast /\ DeleteJustified
<1>1. Init => SlotsKeepNewest
  BY DEF Init, SlotsKeepNewest
<1>2. Pre /\ SlotsKeepNewest /\ [Next]_vars => SlotsKeepNewest'
  <2> SUFFICES ASSUME Pre, SlotsKeepNewest, [Next]_vars,
                      NEW t \in archive', NEW i \in Tiers,
                      InSlots(t, i, clock'), NewestOfBucket(t, i, archive')
               PROVE  t \in (stored \union ahead)'
    BY DEF SlotsKeepNewest, InSlots, Expired, NewestOfBucket, Bucket
  <2>1. ASSUME t \in archive, archive \subseteq archive', clock' = clock
        PROVE  t \in stored \union ahead
    BY <2>1 DEF SlotsKeepNewest, NewestOfBucket
  <2>2. CASE Tick
    <3>1. t \in Instant /\ t <= clock /\ clock \in Instant /\ clock' \in Instant
          /\ clock <= clock' /\ t \in archive
      BY <2>2 DEF Tick, TypeOK, ReadingsArePast
    <3>2. InSlots(t, i, clock)
      BY <3>1, BucketMonotone, ExpiredForever DEF InSlots
    <3> QED
      BY <2>2, <3>1, <3>2 DEF Tick, SlotsKeepNewest
  <2>3. ASSUME NEW r \in Runs, Upload(r) PROVE t \in (stored \union ahead)'
    BY <2>1, <2>3 DEF Upload
  <2>4. ASSUME NEW r \in Runs, Delete(r) PROVE t \in (stored \union ahead)'
    <3>1. PICK u \in delete[r] : stored' = stored \ {u}
      BY <2>4 DEF Delete
    <3>2. UNCHANGED <<clock, archive, ahead>>
      BY <2>4 DEF Delete
    <3>3. t = u => t \in ahead
      BY <3>2, PendingNotWanted
    <3> QED
      BY <2>1, <3>1, <3>2, <3>3
  <2>5. ASSUME NEW r \in Runs,
               Start(r) \/ ReadClock(r) \/ List(r) \/ Finish(r) \/ Abort(r)
        PROVE  t \in (stored \union ahead)'
    BY <2>1, <2>5 DEF Start, ReadClock, List, Finish, Abort
  <2>6. CASE UNCHANGED vars
    BY <2>1, <2>6 DEF vars
  <2> QED
    BY <2>2, <2>3, <2>4, <2>5, <2>6 DEF Next
<1> QED
  BY <1>1, <1>2, TypeCorrect, PastCorrect, DeleteJustifiedCorrect, PTL DEF Spec

-----------------------------------------------------------------------------
\* The timer alone: one run identity.  Its listing is then never newer than
\* its clock reading, so the exception of SlotsKeepNewest does not arise.
OneRun == \A r, q \in Runs : r = q

SoloInv ==
    /\ ahead = {}
    /\ \A r \in Runs : pc[r] \in {"listing", "pruning"}
                        => \A t \in archive : t <= now[r]

LEMMA SoloInvCorrect == ASSUME OneRun PROVE Spec => []SoloInv
<1>1. Init => SoloInv
  BY DEF Init, SoloInv
<1>2. TypeOK /\ ReadingsArePast /\ SoloInv /\ [Next]_vars => SoloInv'
  <2> SUFFICES ASSUME TypeOK, ReadingsArePast, SoloInv, [Next]_vars
               PROVE  SoloInv'
    OBVIOUS
  <2> USE DEF SoloInv, TypeOK
  <2>1. CASE Tick \/ UNCHANGED vars
    BY <2>1 DEF Tick, vars
  <2>2. ASSUME NEW r \in Runs, Start(r) \/ Upload(r) PROVE SoloInv'
    BY <2>2 DEF Start, Upload, OneRun, PC
  <2>3. ASSUME NEW r \in Runs, ReadClock(r) PROVE SoloInv'
    BY <2>3 DEF ReadClock, ReadingsArePast
  <2>4. ASSUME NEW r \in Runs, List(r) PROVE SoloInv'
    <3>1. \A t \in stored, i \in Tiers : Bucket(t, i) <= Bucket(now[r], i)
      BY <2>4, BucketMonotone DEF List
    <3>2. \A t \in stored, i \in Tiers :
              Bucket(t, i) \in Nat /\ Bucket(now[r], i) \in Nat
      BY BucketMonotone
    <3>3. \A t \in stored, i \in Tiers : ~ (Bucket(t, i) > Bucket(now[r], i))
      BY <3>1, <3>2
    <3>4. ahead' = {}
      BY <2>4, <3>3 DEF List
    <3> QED
      BY <2>4, <3>4 DEF List
  <2>5. ASSUME NEW r \in Runs, Delete(r) \/ Finish(r) \/ Abort(r) PROVE SoloInv'
    BY <2>5 DEF Delete, Finish, Abort
  <2> QED
    BY <2>1, <2>2, <2>3, <2>4, <2>5 DEF Next
<1> QED
  BY <1>1, <1>2, TypeCorrect, PastCorrect, PTL DEF Spec

\* A deletion by any of the runs is one the abstract store may make, except of
\* a backup that was listed ahead of the run's clock.
LEMMA DeleteForgets ==
    ASSUME TypeOK, ReadingsArePast, DeleteJustified, NEW r \in Runs, Delete(r)
    PROVE  \E t \in stored : /\ t \notin SelectKeep(archive, clock) \ ahead
                             /\ stored' = stored \ {t}
                             /\ UNCHANGED <<clock, archive, ahead>>
<1>1. PICK t \in delete[r] : t \in stored /\ stored' = stored \ {t}
  BY DEF Delete
<1>2. t \notin SelectKeep(archive, clock) \ ahead
  BY PendingNotWanted DEF SelectKeep
<1>3. UNCHANGED <<clock, archive, ahead>>
  BY DEF Delete
<1> QED
  BY <1>1, <1>2, <1>3

\* The name of an uploaded backup is no instant of the future.
LEMMA UploadStores ==
    ASSUME TypeOK, ReadingsArePast, NEW r \in Runs, Upload(r)
    PROVE  \E t \in 0..clock : /\ archive' = archive \union {t}
                               /\ stored' = stored \union {t}
                               /\ UNCHANGED <<clock, ahead>>
<1>1. taken[r] \in 0..clock
  BY DEF TypeOK, ReadingsArePast
<1> QED
  BY <1>1 DEF Upload

\* With the timer alone, every step of the program is a step of the abstract
\* store or leaves it unchanged: nothing the policy still wants is ever
\* forgotten, whatever fails.
THEOREM SoloImplementsRetention == ASSUME OneRun PROVE Spec => RetentionSpec
<1> USE DEF Solo!SelectKeep, Solo!InSlots, Solo!Expired, Solo!Bucket, Solo!Tiers,
            Solo!NewestOfBucket, SelectKeep, InSlots, Expired, Bucket, NewestOfBucket
<1>1. Init => Solo!RInit
  BY DEF Init, Solo!RInit
<1>2. /\ TypeOK /\ ReadingsArePast /\ DeleteJustified /\ SoloInv /\ [Next]_vars
      => [Solo!RNext]_(Solo!rvars)
  <2> SUFFICES ASSUME TypeOK, ReadingsArePast, DeleteJustified, SoloInv, [Next]_vars
               PROVE  Solo!RNext \/ UNCHANGED Solo!rvars
    OBVIOUS
  <2>1. CASE Tick
    BY <2>1 DEF Tick, Solo!RNext, Solo!RTick
  <2>2. ASSUME NEW r \in Runs, Upload(r) PROVE Solo!RNext
    BY <2>2, UploadStores DEF Solo!RNext, Solo!RStore
  <2>3. ASSUME NEW r \in Runs, Delete(r) PROVE Solo!RNext
    BY <2>3, DeleteForgets DEF SoloInv, Solo!RNext, Solo!RForget, Solo!Wanted
  <2>4. ASSUME NEW r \in Runs,
               Start(r) \/ ReadClock(r) \/ List(r) \/ Finish(r) \/ Abort(r)
        PROVE  UNCHANGED Solo!rvars
    BY <2>4 DEF Start, ReadClock, List, Finish, Abort, Solo!rvars
  <2>5. CASE UNCHANGED vars
    BY <2>5 DEF vars, Solo!rvars
  <2> QED
    BY <2>1, <2>2, <2>3, <2>4, <2>5 DEF Next
<1> QED
  BY <1>1, <1>2, TypeCorrect, PastCorrect, DeleteJustifiedCorrect,
     SoloInvCorrect, PTL DEF Spec, RetentionSpec, Solo!RSpec

\* With any number of overlapping runs, every step is a step of the abstract
\* store too, once the backups listed ahead of a run's clock are excused.
THEOREM SharedImplementsRetention == Spec => SharedRetentionSpec
<1> USE DEF Shared!SelectKeep, Shared!InSlots, Shared!Expired, Shared!Bucket,
            Shared!Tiers, Shared!NewestOfBucket, SelectKeep, InSlots, Expired,
            Bucket, NewestOfBucket
<1>1. Init => Shared!RInit
  BY DEF Init, Shared!RInit
<1>2. /\ TypeOK /\ TypeOK' /\ ReadingsArePast /\ DeleteJustified /\ [Next]_vars
      => [Shared!RNext]_(Shared!rvars)
  <2> SUFFICES ASSUME TypeOK, TypeOK', ReadingsArePast, DeleteJustified, [Next]_vars
               PROVE  Shared!RNext \/ UNCHANGED Shared!rvars
    OBVIOUS
  <2>1. CASE Tick
    BY <2>1 DEF Tick, Shared!RNext, Shared!RTick
  <2>2. ASSUME NEW r \in Runs, Upload(r) PROVE Shared!RNext
    BY <2>2, UploadStores DEF Shared!RNext, Shared!RStore
  <2>3. ASSUME NEW r \in Runs, List(r) PROVE Shared!RNext
    <3>1. ahead \subseteq ahead' /\ ahead' \subseteq archive
      BY <2>3 DEF List, TypeOK
    <3> QED
      BY <2>3, <3>1 DEF List, Shared!RNext, Shared!RExcuse
  <2>4. ASSUME NEW r \in Runs, Delete(r) PROVE Shared!RNext
    BY <2>4, DeleteForgets DEF Shared!RNext, Shared!RForget, Shared!Wanted
  <2>5. ASSUME NEW r \in Runs, Start(r) \/ ReadClock(r) \/ Finish(r) \/ Abort(r)
        PROVE  UNCHANGED Shared!rvars
    BY <2>5 DEF Start, ReadClock, Finish, Abort, Shared!rvars
  <2>6. CASE UNCHANGED vars
    BY <2>6 DEF vars, Shared!rvars
  <2> QED
    BY <2>1, <2>2, <2>3, <2>4, <2>5, <2>6 DEF Next
<1> QED
  BY <1>1, <1>2, TypeCorrect, PastCorrect, DeleteJustifiedCorrect, PTL
     DEF Spec, SharedRetentionSpec, Shared!RSpec
-----------------------------------------------------------------------------
\* Among the archived backups that share t's bucket there is a newest one:
\* the archive is bounded by the clock.
LEMMA NewestExists ==
    ASSUME NEW i \in Tiers, NEW A \in SUBSET Instant, NEW t \in A,
           NEW c \in Instant, \A u \in A : u <= c
    PROVE  \E m \in A : Bucket(m, i) = Bucket(t, i) /\ t <= m
                        /\ NewestOfBucket(m, i, A)
<1> DEFINE Peers == {u \in A : Bucket(u, i) = Bucket(t, i)}
           Ages  == {c - u : u \in Peers}
<1>1. \A u \in Peers : c - u \in Nat /\ u \in Nat
  <2>1. \A u \in A : u \in Nat /\ u <= c /\ c \in Nat
    OBVIOUS
  <2>2. \A u \in A : c - u \in Nat
    BY <2>1
  <2> QED
    BY <2>1, <2>2
<1>2. Ages \subseteq Nat /\ t \in Peers /\ Ages # {}
  BY <1>1
<1>3. PICK a \in Ages : \A b \in Ages : <<b, a>> \notin OpToRel(<, Nat)
  BY <1>2, NatLessThanWellFounded, WFMin, Zenon
<1>4. \A b \in Ages : ~ (b < a)
  BY <1>2, <1>3, Zenon DEF OpToRel
<1>5. PICK m \in Peers : a = c - m
  BY <1>3
<1>6. \A u \in Peers : u <= m
  <2> SUFFICES ASSUME NEW u \in Peers PROVE u <= m
    OBVIOUS
  <2>1. ~ (c - u < c - m)
    BY <1>4, <1>5
  <2> QED
    BY <1>1, <1>5, <2>1
<1> QED
  BY <1>2, <1>5, <1>6 DEF NewestOfBucket

\* The part of SoloPruneExact that is true from the clock reading on: every
\* backup the archive-wide policy selects at now[r] is in the store and is
\* not to be deleted.
SoloKept ==
    \A r \in Runs : pc[r] \in {"listing", "pruning"}
        => SelectKeep(archive, now[r]) \subseteq stored \ delete[r]

LEMMA SoloKeptCorrect == ASSUME OneRun PROVE Spec => []SoloKept
<1>1. Init => SoloKept
  BY DEF Init, SoloKept
<1>2. TypeOK /\ SlotsKeepNewest /\ SoloInv /\ SoloKept /\ [Next]_vars => SoloKept'
  <2> SUFFICES ASSUME TypeOK, SlotsKeepNewest, SoloInv, SoloKept, [Next]_vars
               PROVE  SoloKept'
    OBVIOUS
  <2> USE DEF TypeOK
  <2>1. CASE Tick \/ UNCHANGED vars
    BY <2>1 DEF Tick, vars, SoloKept
  <2>2. ASSUME NEW r \in Runs, Start(r) \/ Upload(r) \/ Finish(r) \/ Abort(r)
        PROVE  SoloKept'
    BY <2>2 DEF Start, Upload, Finish, Abort, SoloKept, OneRun
  <2>3. ASSUME NEW r \in Runs, ReadClock(r) PROVE SoloKept'
    <3>1. SelectKeep(archive, clock) \subseteq stored
      BY DEF SlotsKeepNewest, SoloInv, SelectKeep
    <3>2. now'[r] = clock /\ delete'[r] = {}
      BY <2>3 DEF ReadClock
    <3>3. SelectKeep(archive', now'[r]) \subseteq stored' \ delete'[r]
      BY <2>3, <3>1, <3>2 DEF ReadClock
    <3> QED
      BY <3>3 DEF SoloKept, OneRun
  <2>4. ASSUME NEW r \in Runs, List(r) PROVE SoloKept'
    <3>1. SelectKeep(archive, now[r]) \subseteq stored
      BY <2>4 DEF List, SoloKept
    <3>2. SelectKeep(archive, now[r]) \subseteq SelectKeep(stored, now[r])
      BY <3>1 DEF SelectKeep, NewestOfBucket
    <3>3. SelectKeep(archive, now[r]) \subseteq stored' \ delete'[r]
      BY <2>4, <3>1, <3>2 DEF List
    <3> QED
      BY <2>4, <3>3 DEF List, SoloKept, OneRun
  <2>5. ASSUME NEW r \in Runs, Delete(r) PROVE SoloKept'
    <3>1. stored' \ delete'[r] = stored \ delete[r]
      BY <2>5 DEF Delete
    <3> QED
      BY <2>5, <3>1 DEF Delete, SoloKept, OneRun
  <2> QED
    BY <2>1, <2>2, <2>3, <2>4, <2>5 DEF Next
<1> QED
  BY <1>1, <1>2, TypeCorrect, SlotsKeepNewestCorrect, SoloInvCorrect, PTL
     DEF Spec

\* "A backup survives pruning iff it is the newest backup in any slot's
\* bucket", judged against every backup ever taken: a solo prune leaves
\* exactly the policy's selection from the archive, whatever earlier prunes
\* left behind or deleted.
THEOREM SoloPruneExactCorrect == ASSUME OneRun PROVE Spec => []SoloPruneExact
<1>1. Init => SoloPruneExact
  BY DEF Init, SoloPruneExact
<1>2. /\ TypeOK /\ ReadingsArePast /\ SoloInv /\ SoloKept
      /\ SoloPruneExact /\ [Next]_vars
      => SoloPruneExact'
  <2> SUFFICES ASSUME TypeOK, ReadingsArePast, SoloInv, SoloKept,
                      SoloPruneExact, [Next]_vars
               PROVE  SoloPruneExact'
    OBVIOUS
  <2> USE DEF TypeOK
  <2>1. CASE Tick \/ UNCHANGED vars
    BY <2>1 DEF Tick, vars, SoloPruneExact
  <2>2. ASSUME NEW r \in Runs, \/ Start(r) \/ Upload(r) \/ ReadClock(r)
                                \/ Finish(r) \/ Abort(r)
        PROVE  SoloPruneExact'
    <3>1. pc'[r] # "pruning"
      BY <2>2 DEF Start, Upload, ReadClock, Finish, Abort
    <3> QED
      BY <3>1 DEF SoloPruneExact, OneRun
  <2>3. ASSUME NEW r \in Runs, List(r) PROVE SoloPruneExact'
    <3>1. SelectKeep(archive, now[r]) \subseteq stored
      BY <2>3 DEF List, SoloKept
    <3>2. ASSUME NEW t \in SelectKeep(stored, now[r])
          PROVE  t \in SelectKeep(archive, now[r])
      <4>1. PICK i \in Tiers : InSlots(t, i, now[r]) /\ NewestOfBucket(t, i, stored)
        BY DEF SelectKeep
      <4>2. t \in archive /\ clock \in Instant /\ \A u \in archive : u <= clock
        BY DEF SelectKeep, ReadingsArePast
      <4>3. PICK m \in archive : Bucket(m, i) = Bucket(t, i) /\ t <= m
                                /\ NewestOfBucket(m, i, archive)
        BY <4>2, NewestExists
      <4>4. m \in SelectKeep(archive, now[r])
        BY <4>1, <4>3 DEF SelectKeep, InSlots, Expired
      <4>5. m <= t
        BY <3>1, <4>1, <4>3, <4>4 DEF NewestOfBucket
      <4>6. m = t
        BY <4>2, <4>3, <4>5
      <4> QED
        BY <4>4, <4>6
    <3>3. SelectKeep(archive, now[r]) \subseteq SelectKeep(stored, now[r])
      BY <3>1 DEF SelectKeep, NewestOfBucket
    <3>4. stored' \ delete'[r] = SelectKeep(archive', now'[r])
      <4>1. stored' \ delete'[r] = SelectKeep(stored, now[r])
        BY <2>3 DEF List, SelectKeep
      <4>2. SelectKeep(archive', now'[r]) = SelectKeep(archive, now[r])
        BY <2>3 DEF List
      <4> QED
        BY <3>2, <3>3, <4>1, <4>2
    <3> QED
      BY <3>4 DEF SoloPruneExact, OneRun
  <2>4. ASSUME NEW r \in Runs, Delete(r) PROVE SoloPruneExact'
    <3>1. stored' \ delete'[r] = stored \ delete[r]
      BY <2>4 DEF Delete
    <3> QED
      BY <2>4, <3>1 DEF Delete, SoloPruneExact, OneRun
  <2> QED
    BY <2>1, <2>2, <2>3, <2>4 DEF Next
<1> QED
  BY <1>1, <1>2, TypeCorrect, PastCorrect, SoloInvCorrect, SoloKeptCorrect, PTL
     DEF Spec
=============================================================================
