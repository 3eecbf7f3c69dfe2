------------------------------ MODULE Occupancy ------------------------------
(***************************************************************************)
(* Who is shown on a chip, and with whose numbers.  One chip of one VM: two *)
(* daemons describe it in files of their own, shared-scripts/tpu-heartbeat *)
(* .py in status.json and shared-scripts/tpu-metrics.py in metrics.json,   *)
(* and two readers join the files into a row, shared-scripts/tpups.py and  *)
(* shared-scripts/dashboard/tpu-dashboard.py.  The steps inside a daemon's *)
(* poll are in Heartbeat and Metrics; here a poll is the write it ends     *)
(* with, and what counts is how old the contents and their stamp are then. *)
(* Either daemon may fail, hang or stay away for any time.                 *)
(***************************************************************************)
EXTENDS Integers

CONSTANTS Jobs,          \* processes that use the chip, one after the other
          NoJob,
          Stale,         \* STALE_AFTER
          PsLag,         \* most time between ps and the heartbeat's time.time()
          MaxTime        \* bound on the clock

ASSUME OccupancyAssumption ==
    /\ NoJob \notin Jobs
    /\ Stale \in Nat /\ PsLag \in Nat /\ MaxTime \in Nat

VARIABLES
    clock,
    job,         \* job[j]: its phase, and the time it died
    status,      \* status.json ({} before the first)
    metrics,     \* metrics.json
    reader,      \* the fetch under way, by one of the readers
    table        \* the dashboard's latest row, its time, and the node's age

vars == <<clock, job, status, metrics, reader, table>>

\* Of a chip only its user matters: NoJob stands for FREE, EXIT and "?", and for
\* a metrics entry without numbers (idle, warming, error).
Asleep  == [pc |-> "sleep"]
Unknown == [user |-> NoJob, util |-> NoJob]

Init ==
    /\ clock = 0
    /\ job = [j \in Jobs |-> [phase |-> "new", died |-> 0]]
    /\ status = {} /\ metrics = {}
    /\ reader = Asleep
    /\ table = [row |-> Unknown, ts |-> 0, last |-> {}]

files   == <<status, metrics>>
readers == <<reader, table>>

-----------------------------------------------------------------------------
(* Time, and the jobs, which take the chip one after the other. *)

Tick ==
    /\ clock < MaxTime
    /\ clock' = clock + 1
    /\ UNCHANGED <<job, files, readers>>

Running == {j \in Jobs : job[j].phase = "running"}

StartJob(j) ==
    /\ job[j].phase = "new" /\ Running = {}
    /\ job' = [job EXCEPT ![j] = [phase |-> "running", died |-> 0]]
    /\ UNCHANGED <<clock, files, readers>>

ExitJob(j) ==
    /\ job[j].phase = "running"
    /\ job' = [job EXCEPT ![j] = [phase |-> "gone", died |-> clock]]
    /\ UNCHANGED <<clock, files, readers>>

\* j was alive at time t or later.
AliveSince(j, t) ==
    \/ job[j].phase = "running"
    \/ job[j].phase = "gone" /\ job[j].died >= t

-----------------------------------------------------------------------------
(* The daemons. *)

WriteStatusLate ==      \* mutant: the time is taken after the pause of the poll
    /\ \E user \in {NoJob} \union {j \in Jobs : AliveSince(j, clock - PsLag - 1)} :
          status' = {[user |-> user, last |-> clock]}
    /\ UNCHANGED <<clock, job, metrics, readers>>

\* The heartbeat scans first and takes the time last: a user it names was seen
\* alive by ps no more than PsLag before the stamp.
WriteStatus ==
    /\ \E user \in {NoJob} \union {j \in Jobs : AliveSince(j, clock - PsLag)} :
          status' = {[user |-> user, last |-> clock]}
    /\ UNCHANGED <<clock, job, metrics, readers>>

\* The polls of the sidecar follow each other.
Starts == {t \in 0..clock : \A m \in metrics : m.last <= t}

WriteMetricsLate ==    \* mutant: last_updated is the time of the write
    /\ \E start \in Starts :
          \E k \in {NoJob} \union {j \in Jobs : AliveSince(j, start)} :
             metrics' = {[util |-> k, last |-> clock]}
    /\ UNCHANGED <<clock, job, status, readers>>

\* The sidecar takes the time first and measures afterwards, for as long as its
\* queries take: a job it reports of was alive after the stamp.
WriteMetrics ==
    /\ \E start \in Starts :
          \E k \in {NoJob} \union {j \in Jobs : AliveSince(j, start)} :
             metrics' = {[util |-> k, last |-> start]}
    /\ UNCHANGED <<clock, job, status, readers>>

-----------------------------------------------------------------------------
(* The readers.  They write nothing a daemon or another reader reads, so one *)
(* fetch under way at a time stands for any number of them.  An answer is a  *)
(* set: {} when the fetch failed, or the schema is not the expected one.     *)

Begin(kind) ==
    /\ reader.pc = "sleep"
    /\ reader' = [pc |-> "fetch", kind |-> kind,
                  ts |-> IF kind = "dashboard" THEN clock ELSE 0, got |-> {},
                  status |-> {}, metrics |-> {}]
    /\ UNCHANGED <<clock, job, files, table>>

FetchStatus ==
    /\ reader.pc = "fetch" /\ "status" \notin reader.got
    /\ \E answer \in {{}, status} :
          reader' = [reader EXCEPT !.got = @ \union {"status"}, !.status = answer]
    /\ UNCHANGED <<clock, job, files, table>>

FetchMetrics ==
    /\ reader.pc = "fetch" /\ "metrics" \notin reader.got
    /\ \E answer \in {{}, metrics} :
          reader' = [reader EXCEPT !.got = @ \union {"metrics"}, !.metrics = answer]
    /\ UNCHANGED <<clock, job, files, table>>

Fetched(kind) ==
    /\ reader.pc = "fetch" /\ reader.kind = kind
    /\ reader.got = {"status", "metrics"}

\* mutant: no payload is too old
FreshAlways(payload, now) == payload

Fresh(payload, now) == {p \in payload : now - p.last <= Stale}

\* The numbers of an answer, NoJob if there are none.
Util(answer) == IF answer = {} THEN NoJob ELSE (CHOOSE m \in answer : TRUE).util

\* A status and a metrics answer side by side.
Joined(s, m) ==
    IF s = {} THEN Unknown
    ELSE LET user == (CHOOSE p \in s : TRUE).user
         IN  [user |-> user, util |-> IF user = NoJob THEN NoJob ELSE Util(m)]

\* History.ingest: both answers count only while fresh at the cycle's ts.
DashboardRow == Joined(Fresh(reader.status, reader.ts), Fresh(reader.metrics, reader.ts))

\* tpups.collect: the metrics count only while fresh, the status always.
TpupsRow == Joined(reader.status, Fresh(reader.metrics, clock))

\* The age tpups prints below the table for a node whose status it has.
TpupsAge == {clock - p.last : p \in reader.status}

BothLasts(previous) ==   \* mutant: the two files' times are not compared
    LET lasts == {p.last : p \in reader.status \union reader.metrics}
    IN  IF lasts = {} THEN previous ELSE lasts

NewestLast(previous) ==  \* mutant: the newer of the two files' times
    LET lasts == {p.last : p \in reader.status \union reader.metrics}
    IN  IF lasts = {} THEN previous ELSE {t \in lasts : \A u \in lasts : u <= t}

\* The age of the node: the older of the two files' times, kept if both failed.
OldestLast(previous) ==
    LET lasts == {p.last : p \in reader.status \union reader.metrics}
    IN  IF lasts = {} THEN previous ELSE {t \in lasts : \A u \in lasts : t <= u}

Ingest ==
    /\ Fetched("dashboard")
    /\ table' = [row |-> DashboardRow, ts |-> reader.ts, last |-> OldestLast(table.last)]
    /\ reader' = Asleep
    /\ UNCHANGED <<clock, job, files>>

\* What a browser tab gets now, however long ago the last cycle was.
Snapshot == [row |-> table.row, stale |-> \A t \in table.last : clock - t > Stale]

\* tpups prints TpupsRow and forgets it.
Render ==
    /\ Fetched("tpups")
    /\ reader' = Asleep
    /\ UNCHANGED <<clock, job, files, table>>

Next ==
    \/ Tick
    \/ \E j \in Jobs : StartJob(j) \/ ExitJob(j)
    \/ WriteStatus \/ WriteMetrics
    \/ Begin("dashboard") \/ Begin("tpups")
    \/ FetchStatus \/ FetchMetrics \/ Ingest \/ Render

Spec == Init /\ [][Next]_vars

-----------------------------------------------------------------------------
TypeOK ==
    /\ clock \in 0..MaxTime
    /\ \A j, k \in Running : j = k
    /\ \A p \in status  : p.last <= clock /\ p.user \in Jobs \union {NoJob}
    /\ \A p \in metrics : p.last <= clock /\ p.util \in Jobs \union {NoJob}
    /\ table.ts <= clock /\ \A t, u \in table.last : t = u
    /\ {table.row.user, table.row.util} \subseteq Jobs \union {NoJob}

\* The dashboard's row: a user it names had the chip no longer than the
\* staleness limit (and the time ps may take) before the poll cycle, however
\* long ago either daemon stopped.
DashboardUserRecent ==
    table.row.user # NoJob => AliveSince(table.row.user, table.ts - Stale - PsLag)

\* The same against the time a tab asks, unless the answer flags the node as
\* stale: also when it is the poll thread that stopped.
UnflaggedIsRecent ==
    ~ Snapshot.stale /\ table.row.user # NoJob =>
        AliveSince(table.row.user, clock - Stale - PsLag)

\* Numbers are of a job that was alive within the staleness limit: in tpups when
\* it prints, in the dashboard at the poll cycle.
NumbersRecent ==
    /\ table.row.util # NoJob => AliveSince(table.row.util, table.ts - Stale)
    /\ Fetched("tpups") /\ TpupsRow.util # NoJob => AliveSince(TpupsRow.util, clock - Stale)

\* tpups shows a status of any age, also beside fresh numbers of another job.
\* What it prints below the table tells: where it names a user it prints an age,
\* and that user had the chip no longer ago than this (and the time ps may take, and
\* the second that int() cuts off).
PrintedAgeTells ==
    Fetched("tpups") /\ TpupsRow.user # NoJob =>
        \E age \in TpupsAge : AliveSince(TpupsRow.user, clock - age - PsLag)
=============================================================================
