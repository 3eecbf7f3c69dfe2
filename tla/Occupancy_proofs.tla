--------------------------- MODULE Occupancy_proofs ---------------------------
(***************************************************************************)
(* Proofs about Occupancy, for any jobs, staleness limit and ps delay.     *)
(***************************************************************************)
EXTENDS Occupancy, TLAPS

JobOrNone == Jobs \union {NoJob}
Statuses  == [user : JobOrNone, last : Nat]
Utils     == [util : JobOrNone, last : Nat]
Fetches   == [pc : {"fetch"}, kind : {"dashboard", "tpups"}, ts : Nat,
              got : SUBSET {"status", "metrics"},
              status : SUBSET Statuses, metrics : SUBSET Utils]

Types ==
    /\ clock \in Nat
    /\ job \in [Jobs -> [phase : {"new", "running", "gone"}, died : Nat]]
    /\ status \in SUBSET Statuses
    /\ metrics \in SUBSET Utils
    /\ reader \in {Asleep} \union Fetches
    /\ table \in [row : [user : JobOrNone, util : JobOrNone], ts : Nat, last : SUBSET Nat]

\* Every user and every figure of a payload is of a job alive around its stamp.
HonestStatus(s) ==
    \A p \in s : /\ p.last <= clock
                 /\ p.user # NoJob => AliveSince(p.user, p.last - PsLag)
HonestMetrics(m) ==
    \A p \in m : /\ p.last <= clock
                 /\ p.util # NoJob => AliveSince(p.util, p.last)

HonestReader ==
    reader.pc = "fetch" => /\ reader.ts <= clock
                           /\ HonestStatus(reader.status)
                           /\ HonestMetrics(reader.metrics)

HonestTable ==
    /\ table.ts <= clock
    /\ \A t \in table.last : t <= clock
    /\ table.row.user # NoJob =>
          /\ AliveSince(table.row.user, table.ts - Stale - PsLag)
          /\ \A t \in table.last : AliveSince(table.row.user, t - PsLag)
    /\ table.row.util # NoJob => AliveSince(table.row.util, table.ts - Stale)

\* One job has the chip, and a node has one age.
Single ==
    /\ clock <= MaxTime
    /\ \A j, k \in Running : j = k
    /\ \A t, u \in table.last : t = u

Inv == Types /\ Single /\ HonestStatus(status) /\ HonestMetrics(metrics) /\ HonestReader /\ HonestTable

-----------------------------------------------------------------------------
\* Who was alive since t was alive since any earlier time.
LEMMA AliveEarlier ==
    ASSUME Types, NEW j \in Jobs, NEW t \in Int, NEW u \in Int, u <= t, AliveSince(j, t)
    PROVE  AliveSince(j, u)
BY DEF Types, AliveSince

\* Jobs run once: no step makes a job that was alive at a time up to now one
\* that was not, and the clock does not go back.
LEMMA AliveKept ==
    ASSUME Types, [Next]_vars
    PROVE  /\ clock' \in Nat /\ clock <= clock'
           /\ \A j \in Jobs, t \in Int :
                 t <= clock /\ AliveSince(j, t) => AliveSince(j, t)'
<1>1. ASSUME NEW k \in Jobs, StartJob(k) \/ ExitJob(k)
      PROVE  /\ clock' = clock
             /\ \A j \in Jobs : \/ job'[j] = job[j]
                                \/ job'[j].phase = "running"
                                \/ job[j].phase = "running" /\ job'[j].phase = "gone"
                                                            /\ job'[j].died = clock
  BY <1>1 DEF Types, StartJob, ExitJob
<1>2. CASE \E k \in Jobs : StartJob(k) \/ ExitJob(k)
  BY <1>1, <1>2 DEF Types, AliveSince
<1>3. CASE Tick
  BY <1>3 DEF Types, Tick, AliveSince
<1>4. CASE UNCHANGED <<clock, job>>
  BY <1>4 DEF Types, AliveSince
<1>5. [Next]_vars => \/ \E k \in Jobs : StartJob(k) \/ ExitJob(k)
                     \/ Tick
                     \/ UNCHANGED <<clock, job>>
  BY Zenon DEF Next, vars, WriteStatus, WriteMetrics, Begin, FetchStatus, FetchMetrics,
               Ingest, Render
<1>. QED
  BY <1>2, <1>3, <1>4, <1>5

\* So what is honest of a payload stays so, whoever holds it.
LEMMA HonestKept ==
    ASSUME Types, [Next]_vars
    PROVE  /\ \A s \in SUBSET Statuses : HonestStatus(s) => HonestStatus(s)'
           /\ \A m \in SUBSET Utils : HonestMetrics(m) => HonestMetrics(m)'
<1>. PsLag \in Nat
  BY OccupancyAssumption
<1>1. ASSUME NEW s \in SUBSET Statuses, HonestStatus(s)
      PROVE  \A p \in s : /\ p.last <= clock'
                          /\ p.user # NoJob => AliveSince(p.user, p.last - PsLag)'
  <2>. TAKE p \in s
  <2>1. p.last \in Nat /\ p.user \in Jobs \union {NoJob}
    BY DEF Statuses, JobOrNone
  <2>2. /\ p.last <= clock
        /\ p.user # NoJob => AliveSince(p.user, p.last - PsLag)
    BY <1>1 DEF HonestStatus
  <2>. QED
    BY <2>1, <2>2, AliveKept DEF Types
<1>2. ASSUME NEW m \in SUBSET Utils, HonestMetrics(m)
      PROVE  \A p \in m : /\ p.last <= clock'
                          /\ p.util # NoJob => AliveSince(p.util, p.last)'
  <2>. TAKE p \in m
  <2>1. p.last \in Nat /\ p.util \in Jobs \union {NoJob}
    BY DEF Utils, JobOrNone
  <2>2. /\ p.last <= clock
        /\ p.util # NoJob => AliveSince(p.util, p.last)
    BY <1>2 DEF HonestMetrics
  <2>. QED
    BY <2>1, <2>2, AliveKept DEF Types
<1>. QED
  BY <1>1, <1>2 DEF HonestStatus, HonestMetrics

LEMMA InitInv == Init => Inv
BY OccupancyAssumption, SMTT(30)
   DEF Init, Inv, Types, Single, Running, HonestStatus, HonestMetrics, HonestReader, HonestTable,
       Asleep, Unknown, JobOrNone, AliveSince, Fetches

-----------------------------------------------------------------------------
\* What a fetch leaves in the reader.
LEMMA ReaderFetching ==
    ASSUME Types, reader.pc = "fetch"
    PROVE  reader \in Fetches
BY DEF Types, Asleep

LEMMA AfterFetchStatus ==
    ASSUME Types, FetchStatus
    PROVE  /\ reader' \in Fetches /\ reader'.ts = reader.ts
           /\ reader'.metrics = reader.metrics
           /\ reader'.status = {} \/ reader'.status = status
<1>1. reader \in Fetches
  BY ReaderFetching DEF FetchStatus
<1>2. PICK answer \in {{}, status} :
         reader' = [reader EXCEPT !.got = @ \union {"status"}, !.status = answer]
  BY Zenon DEF FetchStatus
<1>3. reader' = [pc |-> reader.pc, kind |-> reader.kind, ts |-> reader.ts,
                 got |-> reader.got \union {"status"}, status |-> answer,
                 metrics |-> reader.metrics]
  BY <1>1, <1>2, Zenon DEF Fetches
<1>. QED
  BY <1>1, <1>3 DEF Types, Fetches

LEMMA AfterFetchMetrics ==
    ASSUME Types, FetchMetrics
    PROVE  /\ reader' \in Fetches /\ reader'.ts = reader.ts
           /\ reader'.status = reader.status
           /\ reader'.metrics = {} \/ reader'.metrics = metrics
<1>1. reader \in Fetches
  BY ReaderFetching DEF FetchMetrics
<1>2. PICK answer \in {{}, metrics} :
         reader' = [reader EXCEPT !.got = @ \union {"metrics"}, !.metrics = answer]
  BY Zenon DEF FetchMetrics
<1>3. reader' = [pc |-> reader.pc, kind |-> reader.kind, ts |-> reader.ts,
                 got |-> reader.got \union {"metrics"}, status |-> reader.status,
                 metrics |-> answer]
  BY <1>1, <1>2, Zenon DEF Fetches
<1>. QED
  BY <1>1, <1>3 DEF Types, Fetches

\* A row names a user, or a job's numbers, only if an answer that counts does.
LEMMA RowFromAnswers ==
    ASSUME NEW s \in SUBSET Statuses, NEW m \in SUBSET Utils
    PROVE  /\ Joined(s, m) \in [user : JobOrNone, util : JobOrNone]
           /\ Joined(s, m).user # NoJob => \E p \in s : p.user = Joined(s, m).user
           /\ Joined(s, m).util # NoJob => \E p \in m : p.util = Joined(s, m).util
<1>1. CASE s = {}
  BY <1>1 DEF Joined, Unknown, JobOrNone
<1>2. CASE s # {}
  <2>1. (CHOOSE p \in s : TRUE) \in s
    BY <1>2
  <2>2. PICK p \in s : p = CHOOSE q \in s : TRUE
    BY <2>1
  <2>3. /\ Util(m) \in JobOrNone
        /\ Util(m) # NoJob => \E q \in m : q.util = Util(m)
    <3>1. CASE m = {}
      BY <3>1 DEF Util, JobOrNone
    <3>2. CASE m # {}
      <4>1. (CHOOSE q \in m : TRUE) \in m
        BY <3>2
      <4>. QED
        BY <3>2, <4>1 DEF Util, Utils
    <3>. QED
      BY <3>1, <3>2
  <2>4. Joined(s, m) = [user |-> p.user, util |-> IF p.user = NoJob THEN NoJob ELSE Util(m)]
    BY <1>2, <2>2, Zenon DEF Joined
  <2>5. p.user \in JobOrNone /\ NoJob \in JobOrNone
    BY DEF Statuses, JobOrNone
  <2>6. /\ Joined(s, m).user = p.user
        /\ Joined(s, m).util = NoJob \/ Joined(s, m).util = Util(m)
        /\ Joined(s, m) \in [user : JobOrNone, util : JobOrNone]
    BY <2>3, <2>4, <2>5
  <2>. QED
    BY <2>3, <2>6
<1>. QED
  BY <1>1, <1>2

\* The age of a node: no answer of the cycle is older.
LEMMA OldestIsOldest ==
    ASSUME Types, reader \in Fetches, HonestReader, HonestTable
    PROVE  /\ OldestLast(table.last) \in SUBSET Nat
           /\ \A t \in OldestLast(table.last) :
                 /\ t <= clock
                 /\ \A p \in reader.status : t <= p.last
           /\ (\A t, u \in table.last : t = u) =>
                 \A t, u \in OldestLast(table.last) : t = u
<1>. DEFINE lasts == {p.last : p \in reader.status \union reader.metrics}
<1>1. /\ lasts \in SUBSET Nat
      /\ \A t \in lasts : t <= clock
  BY DEF Types, Fetches, Statuses, Utils, HonestReader, HonestStatus, HonestMetrics
<1>2. \A p \in reader.status : p.last \in lasts
  OBVIOUS
<1>3. OldestLast(table.last) =
         IF lasts = {} THEN table.last ELSE {t \in lasts : \A u \in lasts : t <= u}
  BY DEF OldestLast
<1>4. table.last \in SUBSET Nat /\ \A t \in table.last : t <= clock
  BY DEF Types, HonestTable
<1>. HIDE DEF lasts
<1>5. CASE lasts = {}
  BY <1>2, <1>3, <1>4, <1>5
<1>6. CASE lasts # {}
  <2>1. OldestLast(table.last) = {t \in lasts : \A u \in lasts : t <= u}
    BY <1>3, <1>6
  <2>2. /\ OldestLast(table.last) \subseteq lasts
        /\ \A t \in OldestLast(table.last) : \A u \in lasts : t <= u
    BY <2>1
  <2>3. ASSUME NEW t \in OldestLast(table.last), NEW u \in OldestLast(table.last)
        PROVE  t = u
    <3>1. t \in Nat /\ u \in Nat /\ t <= u /\ u <= t
      BY <1>1, <2>2
    <3>. QED
      BY <3>1
  <2>. QED
    BY <1>1, <1>2, <2>2, <2>3
<1>. QED
  BY <1>5, <1>6

-----------------------------------------------------------------------------
\* One cycle of the dashboard: the row it makes is as recent as HonestTable says.
LEMMA IngestInv ==
    ASSUME Inv, Ingest
    PROVE  /\ table' \in [row : [user : JobOrNone, util : JobOrNone], ts : Nat,
                          last : SUBSET Nat]
           /\ HonestTable'
<1>. /\ Stale \in Nat /\ PsLag \in Nat /\ clock \in Nat
     /\ Types /\ HonestReader /\ HonestTable
  BY OccupancyAssumption DEF Inv, Types
<1>1. reader \in Fetches
  BY ReaderFetching DEF Ingest, Fetched
<1>2. /\ reader.ts \in Nat /\ reader.ts <= clock
      /\ reader.status \in SUBSET Statuses /\ HonestStatus(reader.status)
      /\ reader.metrics \in SUBSET Utils /\ HonestMetrics(reader.metrics)
  BY <1>1 DEF Fetches, HonestReader
<1>. DEFINE s == Fresh(reader.status, reader.ts)
            m == Fresh(reader.metrics, reader.ts)
            row == DashboardRow
            old == OldestLast(table.last)
<1>3. /\ s \in SUBSET reader.status /\ \A p \in s : reader.ts - p.last <= Stale
      /\ m \in SUBSET reader.metrics /\ \A p \in m : reader.ts - p.last <= Stale
  BY DEF Fresh
<1>4. /\ row \in [user : JobOrNone, util : JobOrNone]
      /\ row.user # NoJob => \E p \in s : p.user = row.user
      /\ row.util # NoJob => \E p \in m : p.util = row.util
  <2>1. s \in SUBSET Statuses /\ m \in SUBSET Utils
    BY <1>2, <1>3
  <2>2. row = Joined(s, m)
    BY DEF DashboardRow
  <2>. QED
    BY <2>1, <2>2, RowFromAnswers
<1>5. /\ old \in SUBSET Nat
      /\ \A t \in old : t <= clock /\ \A p \in reader.status : t <= p.last
  BY <1>1, OldestIsOldest
<1>6. /\ table' = [row |-> row, ts |-> reader.ts, last |-> old]
      /\ clock' = clock /\ job' = job
  BY DEF Ingest
<1>. HIDE DEF s, m, row, old
<1>7. ASSUME row.user # NoJob
      PROVE  /\ AliveSince(row.user, reader.ts - Stale - PsLag)
             /\ \A t \in old : AliveSince(row.user, t - PsLag)
  <2>1. PICK p \in s : p.user = row.user
    BY <1>4, <1>7
  <2>2. /\ p.user \in Jobs /\ p.last \in Nat
        /\ reader.ts - p.last <= Stale
        /\ AliveSince(p.user, p.last - PsLag)
        /\ \A t \in old : t \in Nat /\ t <= p.last
    BY <1>2, <1>3, <1>5, <1>7, <2>1 DEF Statuses, JobOrNone, HonestStatus
  <2>3. /\ reader.ts - Stale - PsLag <= p.last - PsLag
        /\ \A t \in old : t - PsLag <= p.last - PsLag /\ t - PsLag \in Int
    BY <1>2, <2>2
  <2>. QED
    BY <1>2, <2>1, <2>2, <2>3, AliveEarlier
<1>8. ASSUME row.util # NoJob
      PROVE  AliveSince(row.util, reader.ts - Stale)
  <2>1. PICK p \in m : p.util = row.util
    BY <1>4, <1>8
  <2>2. /\ p.util \in Jobs /\ p.last \in Nat
        /\ reader.ts - p.last <= Stale
        /\ AliveSince(p.util, p.last)
    BY <1>2, <1>3, <1>8, <2>1 DEF Utils, JobOrNone, HonestMetrics
  <2>. QED
    BY <1>2, <2>1, <2>2, AliveEarlier
<1>9. /\ table'.row = row /\ table'.ts = reader.ts /\ table'.last = old
      /\ table' \in [row : [user : JobOrNone, util : JobOrNone], ts : Nat, last : SUBSET Nat]
  BY <1>2, <1>4, <1>5, <1>6
<1>. QED
  BY <1>2, <1>5, <1>6, <1>7, <1>8, <1>9 DEF HonestTable, AliveSince

\* A table that no step of a cycle writes keeps its promise.
LEMMA TableKept ==
    ASSUME Types, HonestTable, [Next]_vars, UNCHANGED table
    PROVE  HonestTable'
<1>. /\ Stale \in Nat /\ PsLag \in Nat /\ clock \in Nat
     /\ table.ts \in Nat /\ table.last \in SUBSET Nat
     /\ table.row.user \in Jobs \union {NoJob} /\ table.row.util \in Jobs \union {NoJob}
  BY OccupancyAssumption DEF Types, JobOrNone
<1>1. /\ table.ts <= clock' /\ \A t \in table.last : t <= clock'
  BY AliveKept DEF HonestTable
<1>2. ASSUME table.row.user # NoJob
      PROVE  /\ AliveSince(table.row.user, table.ts - Stale - PsLag)'
             /\ \A t \in table.last : AliveSince(table.row.user, t - PsLag)'
  <2>1. /\ AliveSince(table.row.user, table.ts - Stale - PsLag)
        /\ \A t \in table.last : AliveSince(table.row.user, t - PsLag)
    BY <1>2 DEF HonestTable
  <2>2. /\ table.ts - Stale - PsLag <= clock
        /\ \A t \in table.last : t - PsLag <= clock
    BY DEF HonestTable
  <2>. QED
    BY <1>2, <2>1, <2>2, AliveKept DEF AliveSince
<1>3. ASSUME table.row.util # NoJob
      PROVE  AliveSince(table.row.util, table.ts - Stale)'
  <2>1. AliveSince(table.row.util, table.ts - Stale) /\ table.ts - Stale <= clock
    BY <1>3 DEF HonestTable
  <2>. QED
    BY <1>3, <2>1, AliveKept DEF AliveSince
<1>. QED
  BY <1>1, <1>2, <1>3 DEF HonestTable, AliveSince

\* Likewise a reader that fetches nothing in the step.
LEMMA ReaderKept ==
    ASSUME Types, HonestReader, [Next]_vars, UNCHANGED reader
    PROVE  HonestReader'
<1>. SUFFICES ASSUME reader.pc = "fetch"
              PROVE  /\ reader.ts <= clock'
                     /\ HonestStatus(reader.status)' /\ HonestMetrics(reader.metrics)'
  BY DEF HonestReader
<1>1. /\ reader.ts \in Nat /\ reader.status \in SUBSET Statuses
      /\ reader.metrics \in SUBSET Utils
  BY ReaderFetching DEF Fetches
<1>. QED
  BY <1>1, HonestKept, AliveKept DEF HonestReader, HonestStatus, HonestMetrics, Types

-----------------------------------------------------------------------------
\* What each daemon writes is honest when it is written.
LEMMA WriteStatusInv ==
    ASSUME Types, WriteStatus
    PROVE  status' \in SUBSET Statuses /\ HonestStatus(status)'
<1>1. PICK user \in {NoJob} \union {j \in Jobs : AliveSince(j, clock - PsLag)} :
         status' = {[user |-> user, last |-> clock]}
  BY DEF WriteStatus
<1>2. clock \in Nat /\ clock' = clock /\ job' = job
  BY DEF Types, WriteStatus
<1>3. user \in JobOrNone /\ (user # NoJob => AliveSince(user, clock - PsLag))
  BY DEF JobOrNone
<1>. QED
  BY <1>1, <1>2, <1>3 DEF Statuses, HonestStatus, AliveSince

LEMMA WriteMetricsInv ==
    ASSUME Types, WriteMetrics
    PROVE  metrics' \in SUBSET Utils /\ HonestMetrics(metrics)'
<1>1. PICK start \in Starts :
         \E k \in {NoJob} \union {j \in Jobs : AliveSince(j, start)} :
            metrics' = {[util |-> k, last |-> start]}
  BY DEF WriteMetrics
<1>2. PICK k \in {NoJob} \union {j \in Jobs : AliveSince(j, start)} :
         metrics' = {[util |-> k, last |-> start]}
  BY <1>1
<1>3. clock \in Nat /\ clock' = clock /\ job' = job /\ start \in Nat /\ start <= clock
  BY DEF Types, WriteMetrics, Starts
<1>4. k \in JobOrNone /\ (k # NoJob => AliveSince(k, start))
  BY DEF JobOrNone
<1>. QED
  BY <1>2, <1>3, <1>4 DEF Utils, HonestMetrics, AliveSince

THEOREM InvInductive == ASSUME Inv, [Next]_vars PROVE Inv'
<1>. Types /\ HonestStatus(status) /\ HonestMetrics(metrics) /\ HonestReader /\ HonestTable
  BY DEF Inv
<1>1. clock' \in Nat
  BY AliveKept
<1>2. job' \in [Jobs -> [phase : {"new", "running", "gone"}, died : Nat]]
  <2>1. CASE \E j \in Jobs : StartJob(j)
    BY <2>1 DEF Types, StartJob
  <2>2. CASE \E j \in Jobs : ExitJob(j)
    BY <2>2 DEF Types, ExitJob
  <2>3. CASE UNCHANGED job
    BY <2>3 DEF Types
  <2>4. \/ \E j \in Jobs : StartJob(j)
        \/ \E j \in Jobs : ExitJob(j)
        \/ UNCHANGED job
    BY Zenon DEF Next, vars, Tick, WriteStatus, WriteMetrics, Begin, FetchStatus,
                 FetchMetrics, Ingest, Render
  <2>. QED
    BY <2>1, <2>2, <2>3, <2>4
<1>3. status' \in SUBSET Statuses /\ HonestStatus(status)'
  <2>1. CASE WriteStatus
    BY <2>1, WriteStatusInv
  <2>2. CASE UNCHANGED status
    <3>1. status \in SUBSET Statuses
      BY DEF Types
    <3>. QED
      BY <2>2, <3>1, HonestKept DEF HonestStatus
  <2>3. WriteStatus \/ UNCHANGED status
    BY Zenon DEF Next, vars, files, Tick, StartJob, ExitJob, WriteMetrics, Begin,
                 FetchStatus, FetchMetrics, Ingest, Render
  <2>. QED
    BY <2>1, <2>2, <2>3
<1>4. metrics' \in SUBSET Utils /\ HonestMetrics(metrics)'
  <2>1. CASE WriteMetrics
    BY <2>1, WriteMetricsInv
  <2>2. CASE UNCHANGED metrics
    <3>1. metrics \in SUBSET Utils
      BY DEF Types
    <3>. QED
      BY <2>2, <3>1, HonestKept DEF HonestMetrics
  <2>3. WriteMetrics \/ UNCHANGED metrics
    BY Zenon DEF Next, vars, files, Tick, StartJob, ExitJob, WriteStatus, Begin,
                 FetchStatus, FetchMetrics, Ingest, Render
  <2>. QED
    BY <2>1, <2>2, <2>3
<1>5. reader' \in {Asleep} \union Fetches /\ HonestReader'
  <2>1. ASSUME NEW kind \in {"dashboard", "tpups"}, Begin(kind)
        PROVE  reader' \in Fetches /\ HonestReader'
    BY <2>1 DEF Types, Begin, Fetches, HonestReader, HonestStatus, HonestMetrics
  <2>2. CASE FetchStatus
    <3>1. /\ reader' \in Fetches /\ reader'.ts = reader.ts
          /\ reader'.metrics = reader.metrics
          /\ reader'.status = {} \/ reader'.status = status
      BY <2>2, AfterFetchStatus
    <3>2. reader \in Fetches /\ clock' = clock /\ job' = job /\ status' = status
      BY <2>2, ReaderFetching, Zenon DEF FetchStatus, files
    <3>. QED
      BY <3>1, <3>2, <1>3 DEF Fetches, HonestReader, HonestStatus, HonestMetrics, AliveSince
  <2>3. CASE FetchMetrics
    <3>1. /\ reader' \in Fetches /\ reader'.ts = reader.ts
          /\ reader'.status = reader.status
          /\ reader'.metrics = {} \/ reader'.metrics = metrics
      BY <2>3, AfterFetchMetrics
    <3>2. reader \in Fetches /\ clock' = clock /\ job' = job /\ metrics' = metrics
      BY <2>3, ReaderFetching, Zenon DEF FetchMetrics, files
    <3>. QED
      BY <3>1, <3>2, <1>4 DEF Fetches, HonestReader, HonestStatus, HonestMetrics, AliveSince
  <2>4. CASE Ingest \/ Render
    BY <2>4 DEF Ingest, Render, Asleep, HonestReader
  <2>5. CASE UNCHANGED reader
    BY <2>5, ReaderKept DEF Types
  <2>6. \/ \E kind \in {"dashboard", "tpups"} : Begin(kind)
        \/ FetchStatus \/ FetchMetrics \/ Ingest \/ Render
        \/ UNCHANGED reader
    BY Zenon DEF Next, vars, readers, Tick, StartJob, ExitJob, WriteStatus, WriteMetrics
  <2>. QED
    BY <2>1, <2>2, <2>3, <2>4, <2>5, <2>6
<1>6. /\ table' \in [row : [user : JobOrNone, util : JobOrNone], ts : Nat, last : SUBSET Nat]
      /\ HonestTable'
  <2>1. CASE Ingest
    BY <2>1, IngestInv
  <2>2. CASE UNCHANGED table
    BY <2>2, TableKept DEF Types
  <2>3. Ingest \/ UNCHANGED table
    BY Zenon DEF Next, vars, readers, Tick, StartJob, ExitJob, WriteStatus, WriteMetrics,
                 Begin, FetchStatus, FetchMetrics, Render
  <2>. QED
    BY <2>1, <2>2, <2>3
<1>7. Single'
  <2>1. clock' <= MaxTime
    <3>1. Tick \/ UNCHANGED clock
      BY Zenon DEF Next, vars, StartJob, ExitJob, WriteStatus, WriteMetrics, Begin,
                   FetchStatus, FetchMetrics, Ingest, Render
    <3>. QED
      BY <3>1, OccupancyAssumption DEF Inv, Single, Types, Tick
  <2>2. \A j, k \in Running' : j = k
    <3>1. ASSUME NEW j \in Jobs, StartJob(j) PROVE Running' = {j}
      BY <3>1 DEF Types, StartJob, Running
    <3>2. ASSUME NEW j \in Jobs, ExitJob(j) PROVE Running' \subseteq Running
      BY <3>2 DEF Types, ExitJob, Running
    <3>3. CASE UNCHANGED job
      BY <3>3 DEF Inv, Single, Running
    <3>4. \/ \E j \in Jobs : StartJob(j) \/ ExitJob(j)
          \/ UNCHANGED job
      BY Zenon DEF Next, vars, Tick, WriteStatus, WriteMetrics, Begin, FetchStatus,
                   FetchMetrics, Ingest, Render
    <3>. QED
      BY <3>1, <3>2, <3>3, <3>4 DEF Inv, Single
  <2>3. \A t, u \in table'.last : t = u
    <3>1. CASE Ingest
      <4>1. reader \in Fetches
        BY <3>1, ReaderFetching DEF Ingest, Fetched
      <4>2. table'.last = OldestLast(table.last)
        BY <3>1 DEF Ingest
      <4>. QED
        BY <4>1, <4>2, OldestIsOldest DEF Inv, Single
    <3>2. CASE UNCHANGED table
      BY <3>2 DEF Inv, Single
    <3>3. Ingest \/ UNCHANGED table
      BY Zenon DEF Next, vars, readers, Tick, StartJob, ExitJob, WriteStatus, WriteMetrics,
                   Begin, FetchStatus, FetchMetrics, Render
    <3>. QED
      BY <3>1, <3>2, <3>3
  <2>. QED
    BY <2>1, <2>2, <2>3 DEF Single
<1>. QED
  BY <1>1, <1>2, <1>3, <1>4, <1>5, <1>6, <1>7 DEF Inv, Types, HonestStatus, HonestMetrics

\* Payloads stay honest for ever: the invariant of the whole module.
THEOREM InvCorrect == Spec => []Inv
BY InitInv, InvInductive, PTL DEF Spec

-----------------------------------------------------------------------------
\* Type correctness, for any jobs and limits.
THEOREM TypeCorrect == Spec => []TypeOK
<1>1. Inv => TypeOK
  BY OccupancyAssumption
     DEF Inv, Types, Single, HonestStatus, HonestMetrics, HonestTable, Statuses, Utils,
         JobOrNone, TypeOK
<1>. QED
  BY <1>1, InvCorrect, PTL

\* The dashboard never names a user who left the chip longer before the cycle
\* than the staleness limit and ps allow, whatever daemon or fetch failed
\* (History.ingest in tpu-dashboard.py).
THEOREM DashboardUserRecentCorrect == Spec => []DashboardUserRecent
<1>1. Inv => DashboardUserRecent
  BY DEF Inv, HonestTable, DashboardUserRecent
<1>. QED
  BY <1>1, InvCorrect, PTL

\* Nor, at the time a tab asks, longer ago than that, unless it flags the node
\* (History.snapshot in tpu-dashboard.py).
THEOREM UnflaggedIsRecentCorrect == Spec => []UnflaggedIsRecent
<1>1. ASSUME Inv, ~ Snapshot.stale, table.row.user # NoJob
      PROVE  AliveSince(table.row.user, clock - Stale - PsLag)
  <2>. /\ Stale \in Nat /\ PsLag \in Nat /\ clock \in Nat /\ table.last \in SUBSET Nat
       /\ table.row.user \in Jobs
    BY <1>1, OccupancyAssumption DEF Inv, Types, JobOrNone
  <2>1. PICK t \in table.last : ~ (clock - t > Stale)
    BY <1>1 DEF Snapshot
  <2>2. AliveSince(table.row.user, t - PsLag) /\ clock - Stale - PsLag <= t - PsLag
    BY <1>1, <2>1 DEF Inv, HonestTable
  <2>. QED
    BY <1>1, <2>2, AliveEarlier DEF Inv
<1>2. Inv => UnflaggedIsRecent
  BY <1>1 DEF UnflaggedIsRecent
<1>. QED
  BY <1>2, InvCorrect, PTL

\* Numbers beside a chip, in the dashboard and in tpups, are of a job that was
\* alive within the staleness limit (util_cells in tpups.py).
THEOREM NumbersRecentCorrect == Spec => []NumbersRecent
<1>1. ASSUME Inv, Fetched("tpups"), TpupsRow.util # NoJob
      PROVE  AliveSince(TpupsRow.util, clock - Stale)
  <2>. DEFINE m == Fresh(reader.metrics, clock)
              row == TpupsRow
  <2>1. /\ Stale \in Nat /\ clock \in Nat /\ Types
        /\ reader.status \in SUBSET Statuses
        /\ reader.metrics \in SUBSET Utils /\ HonestMetrics(reader.metrics)
    BY <1>1, OccupancyAssumption, ReaderFetching DEF Inv, Types, Fetches, Fetched, HonestReader
  <2>2. m \in SUBSET reader.metrics /\ \A p \in m : clock - p.last <= Stale
    BY DEF Fresh
  <2>3. PICK p \in m : p.util = row.util
    <3>1. m \in SUBSET Utils /\ row = Joined(reader.status, m)
      BY <2>1, <2>2 DEF TpupsRow
    <3>. QED
      BY <1>1, <2>1, <3>1, RowFromAnswers
  <2>. HIDE DEF m
  <2>4. /\ p.util \in Jobs /\ p.last \in Nat /\ clock - p.last <= Stale
        /\ AliveSince(p.util, p.last)
    BY <1>1, <2>1, <2>2, <2>3 DEF Utils, JobOrNone, HonestMetrics
  <2>. QED
    BY <2>1, <2>3, <2>4, AliveEarlier
<1>2. Inv => NumbersRecent
  BY <1>1 DEF Inv, HonestTable, NumbersRecent
<1>. QED
  BY <1>2, InvCorrect, PTL

\* The age tpups prints for a node covers the user it shows there, however long
\* ago the heartbeat stopped (collect in tpups.py).
THEOREM PrintedAgeTellsCorrect == Spec => []PrintedAgeTells
<1>1. ASSUME Inv, Fetched("tpups"), TpupsRow.user # NoJob
      PROVE  \E age \in TpupsAge : AliveSince(TpupsRow.user, clock - age - PsLag)
  <2>. DEFINE row == TpupsRow
              m == Fresh(reader.metrics, clock)
  <2>1. /\ PsLag \in Nat /\ clock \in Nat
        /\ reader.status \in SUBSET Statuses /\ HonestStatus(reader.status)
        /\ reader.metrics \in SUBSET Utils
    BY <1>1, OccupancyAssumption, ReaderFetching DEF Inv, Types, Fetches, Fetched, HonestReader
  <2>2. m \in SUBSET Utils /\ row = Joined(reader.status, m)
    BY <2>1 DEF Fresh, TpupsRow
  <2>. HIDE DEF m
  <2>3. PICK p \in reader.status : p.user = row.user
    BY <1>1, <2>1, <2>2, RowFromAnswers
  <2>4. p.last \in Nat /\ AliveSince(p.user, p.last - PsLag)
    BY <1>1, <2>1, <2>3 DEF Statuses, HonestStatus
  <2>5. clock - p.last \in TpupsAge /\ clock - (clock - p.last) - PsLag = p.last - PsLag
    BY <2>1, <2>3, <2>4 DEF TpupsAge
  <2>. QED
    BY <2>3, <2>4, <2>5
<1>2. Inv => PrintedAgeTells
  BY <1>1 DEF PrintedAgeTells
<1>. QED
  BY <1>2, InvCorrect, PTL
=============================================================================
