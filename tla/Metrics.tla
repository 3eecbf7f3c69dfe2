------------------------------- MODULE Metrics -------------------------------
(***************************************************************************)
(* shared-scripts/tpu-metrics.py on one VM, against jobs that start, bind  *)
(* their metrics port, and exit while a poll is under way.  Which chips a  *)
(* job takes and which port it binds follow from the environment it was    *)
(* launched with (TpuEnv).  Libtpu and the kernel are external: a chip has *)
(* one owner, and a port several jobs bound (SO_REUSEPORT) is answered by  *)
(* any one of them.                                                        *)
(***************************************************************************)
EXTENDS TpuEnv, FiniteSets

CONSTANTS Jobs,          \* processes; a pid is not reused
          Launches       \* the chains of shells and wrappers jobs run under

ASSUME MetricsAssumption == Launches \subseteq Seq(Commands)

\* The condition under which chips are measured rightly (MeasuredOnThisChip).
Convention == \A chain \in Launches : Executes(chain) => Conventional(chain)

VARIABLES
    job,         \* job[j]: phase, chips, metrics port
    poll,        \* the sidecar: idle, or the poll under way
    file         \* file[c]: the entry of chip c in metrics.json

vars == <<job, poll, file>>

Entry(is) == [is |-> is]
\* A measurement: what job j reported of its chip k.
Sample(j, k) == [is |-> "available", job |-> j, chip |-> k]
Available(entry) == entry.is = "available"

NoJob  == [phase |-> "new", chips |-> {}, port |-> 0]
NoPoll == [pc |-> "sleep"]

Init ==
    /\ job  = [j \in Jobs |-> NoJob]
    /\ poll = NoPoll
    /\ file = [c \in Chips |-> Entry("idle")]

-----------------------------------------------------------------------------
(* The jobs. *)

Holding(j)   == job[j].phase \in {"warming", "serving"}
Free         == {c \in Chips : \A j \in Jobs : Holding(j) => c \notin job[j].chips}
Serving(port) == {j \in Jobs : job[j].phase = "serving" /\ job[j].port = port}

\* The environments in which a job finds chips: the others run on the CPU.
LaunchEnvs == {env \in {EnvAfter(chain) : chain \in {ch \in Launches : Executes(ch)}} :
                  OnTpu(env)}

Start(j) ==
    /\ job[j].phase = "new"
    /\ \E env \in LaunchEnvs :
          /\ OwnedChips(env) \subseteq Free
          /\ job' = [job EXCEPT ![j] = [phase |-> "warming",
                                        chips |-> OwnedChips(env),
                                        port  |-> MetricsPort(env)]]
    /\ UNCHANGED <<poll, file>>

Bind(j) ==
    /\ job[j].phase = "warming"
    /\ job' = [job EXCEPT ![j].phase = "serving"]
    /\ UNCHANGED <<poll, file>>

Exit(j) ==
    /\ Holding(j)
    /\ job' = [job EXCEPT ![j].phase = "gone"]
    /\ UNCHANGED <<poll, file>>

-----------------------------------------------------------------------------
(* The sidecar. *)

\* chips_by_pid[pid].sort()
Ascending(S) ==
    CHOOSE q \in [1..Cardinality(S) -> S] : \A i, j \in DOMAIN q : i < j => q[i] < q[j]

ReadOwnersBare ==        \* mutant: the device list is not filled in beforehand
    /\ poll.pc = "sleep"
    /\ LET owning == {j \in Jobs : Holding(j)}
       IN  poll' = [pc |-> "query",
                    chips |-> [j \in owning |-> Ascending(job[j].chips)],
                    todo  |-> owning,
                    devices |-> [c \in Chips \ Free |-> Entry("idle")]]
    /\ UNCHANGED <<job, file>>

\* get_chip_owners and the grouping by pid; every chip starts as idle.
ReadOwners ==
    /\ poll.pc = "sleep"
    /\ LET owning == {j \in Jobs : Holding(j)}
       IN  poll' = [pc |-> "query",
                    chips |-> [j \in owning |-> Ascending(job[j].chips)],
                    todo  |-> owning,
                    devices |-> [c \in Chips |-> Entry("idle")]]
    /\ UNCHANGED <<job, file>>

\* collect_devices gives all chips of pid j the entries e[1], e[2], ...
Assign(j, e) ==
    poll' = [poll EXCEPT
        !.todo = @ \ {j},
        !.devices = [c \in Chips |->
            IF \E i \in DOMAIN e : poll.chips[j][i] = c
            THEN e[CHOOSE i \in DOMAIN e : poll.chips[j][i] = c] ELSE @[c]]]

QueryPortLast(j) ==      \* mutant: the last owned chip instead of the first
    BasePort + poll.chips[j][Len(poll.chips[j])]

\* The port tried for pid j: BASE_PORT + the first of its chips.
QueryPort(j) == BasePort + poll.chips[j][1]

\* The query of pid j fails: the port is not bound (warming), libtpu's lists
\* disagree in length (AssertionError, warming), or any other error.
QueryFails(j) ==
    /\ poll.pc = "query" /\ j \in poll.todo
    /\ \E reason \in {"warming", "error"} :
          Assign(j, [i \in DOMAIN poll.chips[j] |-> Entry(reason)])
    /\ UNCHANGED <<job, file>>

\* Some job that bound the port answers with one usage per chip of its own, in
\* the order of its chips; a count that differs from the pid's is warming.
QueryAnswered(j) ==
    /\ poll.pc = "query" /\ j \in poll.todo
    /\ \E k \in Serving(QueryPort(j)) :
          LET usages == Ascending(job[k].chips)
          IN  Assign(j, [i \in DOMAIN poll.chips[j] |->
                  IF Len(usages) = Len(poll.chips[j]) THEN Sample(k, usages[i])
                  ELSE Entry("warming")])
    /\ UNCHANGED <<job, file>>

\* write_atomic: metrics.json changes as a whole.
Publish ==
    /\ poll.pc = "query" /\ poll.todo = {}
    /\ file' = poll.devices
    /\ poll' = NoPoll
    /\ UNCHANGED job

\* An exception in main's loop, or a crash of the sidecar: nothing is written.
Abandon ==
    /\ poll.pc = "query"
    /\ poll' = NoPoll
    /\ UNCHANGED <<job, file>>

Next ==
    \/ ReadOwners \/ Publish \/ Abandon
    \/ \E j \in Jobs : \/ Start(j) \/ Bind(j) \/ Exit(j)
                       \/ QueryFails(j) \/ QueryAnswered(j)

SidecarStep == ReadOwners \/ Publish \/ \E j \in Jobs : QueryFails(j) \/ QueryAnswered(j)

\* A query fails although a job that bound its port could have answered.
Spurious == Abandon \/ \E j \in Jobs : QueryFails(j) /\ Serving(QueryPort(j)) # {}

\* The loop runs for ever (while True, Restart=always), and from some time on it
\* neither crashes nor has a query fail that a serving job could answer.
Fairness == WF_vars(SidecarStep) /\ <>[][~ Spurious]_vars

Spec     == Init /\ [][Next]_vars
FairSpec == Spec /\ Fairness

-----------------------------------------------------------------------------
Entries == [is : {"idle", "warming", "error"}]
           \union [is : {"available"}, job : Jobs, chip : Chips]

TypeOK ==
    /\ \A j \in Jobs : /\ job[j].phase \in {"new", "warming", "serving", "gone"}
                       /\ job[j].chips \subseteq Chips
    /\ poll.pc \in {"sleep", "query"}
    /\ file \in [Chips -> Entries]

\* A chip's published numbers were measured on that chip, however jobs come and
\* go between the ownership scan, the queries and the write.
MeasuredOnThisChip == \A c \in Chips : Available(file[c]) => file[c].chip = c

\* tpu-metrics.py 89-91: a job whose chips diverge "from the tpu-device
\* convention" is to "surface as warming rather than mis-attribute".
NeverMisattributed == MeasuredOnThisChip

\* A job that serves and keeps running has its chips' numbers published at some
\* point: its port is the one the sidecar tries.
EventuallyMeasured ==
    \A j \in Jobs :
        job[j].phase = "serving" ~>
            \/ job[j].phase = "gone"
            \/ \A c \in job[j].chips : Available(file[c]) /\ file[c].job = j
=============================================================================
