------------------------------ MODULE Dashboard ------------------------------
(***************************************************************************)
(* shared-scripts/dashboard: the poll thread and the HTTP threads of       *)
(* tpu-dashboard.py over one History, and one browser tab running          *)
(* index.html.  A poll cycle ingests the hosts one after the other, taking *)
(* the lock once per host; a snapshot may run between two of them.  The    *)
(* tab polls on a timer that does not wait for the previous answer.        *)
(*                                                                         *)
(* The chips of a host are appended to under one hold of the lock, so one  *)
(* series per host stands for its four.  A sample is its timestamp: the    *)
(* value it carries plays no part in how samples travel.                   *)
(***************************************************************************)
EXTENDS Integers, Sequences, SequencesExt, FiniteSets

CONSTANTS
    NHosts,      \* TPU_HOSTS, in the order they are ingested
    Polls,       \* polls the tab may have under way at once
    MaxLen,      \* DEQUE_MAXLEN
    Retain,      \* RETAIN_SEC of the tab, in poll cycles
    MaxTime      \* bound on the number of poll cycles

ASSUME DashboardAssumption ==
    /\ NHosts \in Nat \ {0} /\ MaxLen \in Nat \ {0} /\ Retain \in Nat
    /\ MaxTime \in Nat

Hosts == 1..NHosts

VARIABLES
    clock,       \* wall clock, in poll cycles: the ts of the latest cycle
    series,      \* series[h]: History._series, oldest first
    next,        \* the host the current cycle ingests next; 0 between cycles
    poll,        \* poll[p]: the tab's poll p and what it carries
    buf,         \* buf[h]: the tab's series
    maxTsSeen,   \* the tab's cursor
    torn,        \* history: cycles a snapshot saw on some hosts only
    overlapped   \* history: since the page was loaded two polls were under way at once

server  == <<clock, series, next>>
tab     == <<buf, maxTsSeen>>
history == <<torn, overlapped>>
vars    == <<server, tab, poll, history>>

NoSeries == [h \in Hosts |-> <<>>]
NoPoll   == [at |-> "none"]

Init ==
    /\ clock = 0 /\ next = 0
    /\ series = NoSeries /\ buf = NoSeries
    /\ maxTsSeen = 0
    /\ poll = [p \in Polls |-> NoPoll]
    /\ torn = {} /\ overlapped = FALSE

-----------------------------------------------------------------------------
(* The poll thread. *)

\* poll_once reads the clock for the whole cycle; fetches run in parallel and
\* their outcome, good or bad, becomes one sample per chip.
StartCycle ==
    /\ next = 0 /\ clock < MaxTime
    /\ clock' = clock + 1
    /\ next' = 1
    /\ UNCHANGED <<series, tab, poll, history>>

PushForever(q, x) == Append(q, x)     \* mutant: a deque without maxlen

\* deque(maxlen): an append to a full deque drops the oldest entry.
Push(q, x) == IF Len(q) < MaxLen THEN Append(q, x) ELSE Append(Tail(q), x)

\* History.ingest for the next host, under the lock.
IngestOwnTime ==         \* mutant: stamp the sidecar's last_updated, not ts
    /\ next > 0
    /\ \E ts \in {clock - 1, clock} : series' = [series EXCEPT ![next] = Push(@, ts)]
    /\ next' = IF next = NHosts THEN 0 ELSE next + 1
    /\ UNCHANGED <<clock, tab, poll, history>>

Ingest ==
    /\ next > 0
    /\ series' = [series EXCEPT ![next] = Push(@, clock)]
    /\ next' = IF next = NHosts THEN 0 ELSE next + 1
    /\ UNCHANGED <<clock, tab, poll, history>>

\* "History is in-memory, so a service restart wipes it"; the connections of
\* unanswered polls break.
Restart ==
    /\ series' = NoSeries
    /\ next' = 0
    /\ poll' = [p \in Polls |-> IF poll[p].at = "sent" THEN NoPoll ELSE poll[p]]
    /\ UNCHANGED <<clock, tab, history>>

-----------------------------------------------------------------------------
(* The HTTP threads. *)

After(q, old) == SubSeq(q, Max(old \union {0}) + 1, Len(q))

NewerOrEqual(q, since) == After(q, {i \in DOMAIN q : q[i] < since})   \* mutant

\* What snapshot(since) returns of a series: the scan from the right stops at
\* the first entry that is not newer.
Newer(q, since) == After(q, {i \in DOMAIN q : q[i] <= since})

Answer(p) ==
    /\ poll[p].at = "sent"
    /\ poll' = [poll EXCEPT ![p] =
           [at |-> "answered", now |-> clock,
            rows |-> [h \in Hosts |-> Newer(series[h], poll[p].since)]]]
    /\ torn' = IF next > 1 THEN torn \union {clock} ELSE torn
    /\ UNCHANGED <<server, tab, overlapped>>

-----------------------------------------------------------------------------
(* The tab. *)

\* poll(): the cursor is read when the request is sent.
SendPoll(p) ==
    /\ poll[p].at = "none"
    /\ poll' = [poll EXCEPT ![p] = [at |-> "sent", since |-> maxTsSeen]]
    /\ overlapped' = (overlapped \/ \E o \in Polls : poll[o].at # "none")
    /\ UNCHANGED <<server, tab, torn>>

\* fetch rejects, or the response is not ok, or the body is lost.
PollFails(p) ==
    /\ poll[p].at # "none"
    /\ poll' = [poll EXCEPT ![p] = NoPoll]
    /\ UNCHANGED <<server, tab, history>>

\* The leading entries older than the retention window go.
Trim(q, now) ==
    LET young == {i \in DOMAIN q : q[i] >= now - Retain}
    IN  SubSeq(q, Min(young \union {Len(q) + 1}), Len(q))

Seen(rows) == {maxTsSeen} \union (UNION {Range(rows[h]) : h \in Hosts})

\* The continuation of poll() after await: every row is pushed unconditionally
\* and the cursor moves to the newest of them.
MergeCursorNow(p) ==     \* mutant: the cursor is the server's now, not a row's ts
    /\ poll[p].at = "answered"
    /\ buf' = [h \in Hosts |-> Trim(buf[h] \o poll[p].rows[h], poll[p].now)]
    /\ maxTsSeen' = poll[p].now
    /\ poll' = [poll EXCEPT ![p] = NoPoll]
    /\ UNCHANGED <<server, history>>

Merge(p) ==
    /\ poll[p].at = "answered"
    /\ buf' = [h \in Hosts |-> Trim(buf[h] \o poll[p].rows[h], poll[p].now)]
    /\ maxTsSeen' = Max(Seen(poll[p].rows))
    /\ poll' = [poll EXCEPT ![p] = NoPoll]
    /\ UNCHANGED <<server, history>>

Reload ==
    /\ buf' = NoSeries
    /\ maxTsSeen' = 0
    /\ poll' = [p \in Polls |-> NoPoll]
    /\ overlapped' = FALSE
    /\ UNCHANGED <<server, torn>>

Next ==
    \/ StartCycle \/ Ingest \/ Restart \/ Reload
    \/ \E p \in Polls : SendPoll(p) \/ Answer(p) \/ PollFails(p) \/ Merge(p)

Spec == Init /\ [][Next]_vars

\* The poll thread goes on ingesting the cycle it has begun, setInterval keeps
\* firing, and not every poll fails or gets lost for ever.
Fairness == /\ WF_vars(Ingest)
            /\ WF_vars(\E p \in Polls : SendPoll(p))
            /\ SF_vars(\E p \in Polls : Answer(p))
            /\ SF_vars(\E p \in Polls : Merge(p))

FairSpec == Spec /\ Fairness

-----------------------------------------------------------------------------
Increasing(q) == \A i, j \in DOMAIN q : i < j => q[i] < q[j]

TypeOK ==
    /\ clock \in 0..MaxTime /\ next \in 0..NHosts
    /\ \A h \in Hosts : series[h] \in Seq(1..clock) /\ Len(series[h]) <= MaxLen
    /\ \A h \in Hosts : buf[h] \in Seq(1..clock)
    /\ maxTsSeen \in 0..clock
    /\ \A p \in Polls : poll[p].at \in {"none", "sent", "answered"}
    /\ torn \subseteq 1..clock /\ overlapped \in BOOLEAN

\* History's docstring: one x-axis grid.  At any instant two chips' series
\* agree from their oldest to their newest entry, except that the chips the
\* current cycle has reached are one push ahead; each is strictly increasing,
\* which is what lets snapshot stop at the first old entry.
SharedGrid ==
    \A g, h \in Hosts :
        /\ Increasing(series[h])
        /\ (g < next) = (h < next) => series[g] = series[h]
        /\ g < next /\ next <= h => series[g] = Push(series[h], clock)

\* Delta polling loses nothing of the reference chip (HOSTS[0]/0, the one
\* rebuild takes its x axis from): whatever polls overlap, fail or are answered
\* out of order and however often the service restarts, each sample of it that
\* the server has and the cursor has passed is in the tab or is too old for it.
ReferenceComplete ==
    \A ts \in Range(series[1]) :
        ts <= maxTsSeen /\ ts >= clock - Retain => ts \in Range(buf[1])

\* For the other hosts the one way to lose a sample behind the cursor is an
\* answer computed while its cycle was between two hosts.
OnlyTornCyclesLost ==
    \A h \in Hosts : \A ts \in Range(series[h]) :
        ts <= maxTsSeen /\ ts >= clock - Retain /\ ts \notin torn
            => ts \in Range(buf[h])

\* Every sample of the reference chip reaches the tab sooner or later, unless
\* the server loses it first or it gets too old to plot.
EventuallyPlotted ==
    \A ts \in 1..MaxTime :
        ts \in Range(series[1]) ~> \/ ts \in Range(buf[1])
                                   \/ ts \notin Range(series[1])
                                   \/ ts < clock - Retain

\* While its polls have not overlapped, a tab holds each sample once, in time
\* order, as lowerBound's binary search needs, across restarts and failures.
BuffersSorted == ~ overlapped => \A h \in Hosts : Increasing(buf[h])

\* index.html 236-239: "All 16 chips share the same timestamp sequence", so
\* rebuild plots row startIdx + i of every chip at the reference chip's i-th
\* timestamp.  A plotted value belongs to the time it is plotted at.
PlottedAtItsTime ==
    \A h \in Hosts : \A i \in DOMAIN buf[1] \intersect DOMAIN buf[h] :
        buf[h][i] = buf[1][i]
=============================================================================
