------------------------------ MODULE Heartbeat ------------------------------
(***************************************************************************)
(* shared-scripts/tpu-heartbeat.py on one VM: the two-pass device scan,    *)
(* the atomic status.json, and history.csv, which gets a row only when     *)
(* the users change or MAX_LOG_WAIT has passed.  The service may crash     *)
(* anywhere and is restarted (Restart=always); what it remembers of its    *)
(* last row is lost.                                                       *)
(***************************************************************************)
EXTENDS Usage

CONSTANTS Procs,        \* user processes
          UserOf,       \* UserOf[p]: who runs p
          MaxLogWait,   \* MAX_LOG_WAIT, in polls
          MaxTime,      \* bound on the clock, in polls
          MaxFaults     \* bound on crashes and short writes

Chips == Columns

ASSUME HeartbeatAssumption ==
    /\ MaxLogWait \in Nat /\ MaxTime \in Nat /\ MaxFaults \in Nat
    /\ DOMAIN UserOf = Procs
    /\ \A p \in Procs : UserOf[p] \notin {NoUser, Stranger}

VARIABLES
    clock,      \* time, in INTERVALs
    pc,         \* where the daemon is
    devices,    \* the devices list of the poll under way
    lastLog,    \* last_log_time and last_log_users; {} until a row is written
    tmp,        \* status.json.tmp: "absent", "partial" or "whole"
    status,     \* status.json, likewise
    log,        \* history.csv: header, lines, and a last line without newline
    faults,     \* crashes and short writes so far
    polled,     \* history: polls that got as far as their row, oldest first
    torn        \* history: the torn rows, as [ts, cut]

memory  == <<pc, devices, lastLog>>
disk    == <<tmp, status, log>>
history == <<polled, torn>>
vars    == <<clock, memory, disk, faults, history>>

\* devices holds nothing between two polls.
Unread == [c \in Chips |-> [state |-> "FREE"]]
Forget == devices' = Unread

Init ==
    /\ clock = 1
    /\ pc = "start" /\ devices = Unread /\ lastLog = {}
    /\ tmp = "absent" /\ status = "absent"
    /\ log = [header |-> "absent", lines |-> <<>>, tail |-> {}]
    /\ faults = 0 /\ polled = <<>> /\ torn = {}

-----------------------------------------------------------------------------
(* The daemon: main up to the loop. *)

MakeFileAnew ==          \* mutant: no test whether history.csv exists
    /\ pc = "start"
    /\ log' = [header |-> "empty", lines |-> <<>>, tail |-> {}]
    /\ pc' = "header"
    /\ UNCHANGED <<clock, devices, lastLog, tmp, status, faults, history>>

\* An existing history.csv is left alone; open(log_file, 'w') makes a new one.
MakeFile ==
    /\ pc = "start"
    /\ IF log.header = "absent"
       THEN log' = [log EXCEPT !.header = "empty"] /\ pc' = "header"
       ELSE UNCHANGED log /\ pc' = "sleep"
    /\ UNCHANGED <<clock, devices, lastLog, tmp, status, faults, history>>

\* The header reaches the file when it is closed.
WriteHeader ==
    /\ pc = "header"
    /\ log' = [log EXCEPT !.header = "whole"]
    /\ pc' = "sleep"
    /\ UNCHANGED <<clock, devices, lastLog, tmp, status, faults, history>>

-----------------------------------------------------------------------------
(* The daemon's loop. *)

\* First pass of get_device_status: is_device_owned and device_owner.  Between
\* two polls processes may have come, gone and changed chips in any way.
ReadSysfs ==
    /\ pc = "sleep"
    /\ pc' = "ps"
    /\ devices' \in [Chips -> {[state |-> "FREE"]} \union [state : {"BUSY"}, pid : Procs]]
    /\ UNCHANGED <<clock, lastLog, disk, faults, history>>

ExitedDropsPid(dev) == [state |-> "EXIT"]        \* mutant: the pid is lost

Exited(dev) == [dev EXCEPT !.state = "EXIT"]

\* Second pass: one ps for all owning pids; a process that went meanwhile is not
\* listed and its chips are EXIT.  current_time, read next, is the clock: a poll
\* takes no tick.
RunPs ==
    /\ pc = "ps"
    /\ pc' = "write"
    /\ \E gone \in SUBSET {devices[c].pid : c \in {d \in Chips : devices[d].state = "BUSY"}} :
          devices' = [c \in Chips |->
              IF devices[c].state = "BUSY" /\ devices[c].pid \in gone
              THEN Exited(devices[c]) ELSE devices[c]]
    /\ UNCHANGED <<clock, lastLog, disk, faults, history>>

Users(devs) == [c \in Chips |-> IF devs[c].state = "BUSY"
                                THEN UserOf[devs[c].pid] ELSE NoUser]

OpenStatus ==            \* mutant: status.json itself is opened for writing
    /\ pc = "write"
    /\ pc' = "dump"
    /\ tmp' = "partial" /\ status' = "partial"
    /\ UNCHANGED <<clock, devices, lastLog, log, faults, history>>

\* open(temp_file, 'w') truncates what an interrupted poll may have left.
OpenTemp ==
    /\ pc = "write"
    /\ pc' = "dump"
    /\ tmp' = "partial"
    /\ UNCHANGED <<clock, devices, lastLog, status, log, faults, history>>

Dump ==
    /\ pc = "dump"
    /\ pc' = "rename"
    /\ tmp' = "whole"
    /\ UNCHANGED <<clock, devices, lastLog, status, log, faults, history>>

Rename ==
    /\ pc = "rename"
    /\ pc' = "log"
    /\ status' = tmp
    /\ tmp' = "absent"
    /\ UNCHANGED <<clock, devices, lastLog, log, faults, history>>

LogDueOnChange ==        \* mutant: no forced row after MAX_LOG_WAIT
    \A last \in lastLog : last.users # Users(devices)

\* The condition for a row; None differs from every list of users.
LogDue ==
    \A last \in lastLog : \/ last.users # Users(devices)
                         \/ clock - last.ts > MaxLogWait

Row == [ts |-> clock, users |-> Users(devices)]

\* The loop sleeps for INTERVAL.
Sleep ==
    /\ pc' = "sleep"
    /\ clock < MaxTime /\ clock' = clock + 1
    /\ Forget

\* The line the row becomes: one of its own, or the rest of a torn one.
LineOf(row) == IF log.tail = {} THEN row ELSE Glue(CHOOSE t \in log.tail : TRUE, row)

AppendRow ==
    /\ pc = "log" /\ LogDue
    /\ log' = [log EXCEPT !.lines = Append(@, LineOf(Row)), !.tail = {}]
    /\ lastLog' = {Row}
    /\ polled' = Append(polled, Row)
    /\ Sleep
    /\ UNCHANGED <<tmp, status, faults, torn>>

\* The disk fills up inside the row: a part of it stays, close() raises, and the
\* rest of the poll is skipped.  A full disk takes nothing more behind a torn
\* line, so no second row is torn before a row has ended that line.
TearRow(k) ==
    /\ pc = "log" /\ LogDue /\ log.tail = {} /\ faults < MaxFaults
    /\ log' = [log EXCEPT !.tail = {[ts |-> clock, users |-> Users(devices), cut |-> k]}]
    /\ torn' = torn \union {[ts |-> clock, cut |-> k]}
    /\ polled' = Append(polled, Row)
    /\ faults' = faults + 1
    /\ Sleep
    /\ UNCHANGED <<lastLog, tmp, status>>

SkipRow ==
    /\ pc = "log" /\ ~ LogDue
    /\ polled' = Append(polled, Row)
    /\ Sleep
    /\ UNCHANGED <<lastLog, disk, faults, torn>>

InTry == {"ps", "write", "dump", "rename", "log"}

FailRemembered ==        \* mutant: last_log_* assigned before the write
    /\ pc \in InTry
    /\ lastLog' = IF pc = "log" THEN {Row} ELSE lastLog
    /\ Sleep
    /\ UNCHANGED <<disk, faults, history>>

\* An exception anywhere in the try block (sysfs, a full disk): the rest of the
\* poll is skipped.
Fail ==
    /\ pc \in InTry
    /\ Sleep
    /\ UNCHANGED <<lastLog, disk, faults, history>>

\* The process dies, of itself (an exception before the loop) or with the VM.
Crash ==
    /\ pc # "down" /\ faults < MaxFaults
    /\ pc' = "down"
    /\ faults' = faults + 1
    /\ lastLog' = {}
    /\ Forget
    /\ UNCHANGED <<clock, disk, history>>

\* Restart=always after RestartSec, which is an INTERVAL, or when the VM is back.
Restart ==
    /\ pc = "down"
    /\ pc' = "start"
    /\ clock' \in (clock + 1)..MaxTime
    /\ UNCHANGED <<devices, lastLog, disk, faults, history>>

Next ==
    \/ MakeFile \/ WriteHeader \/ ReadSysfs \/ RunPs \/ OpenTemp \/ Dump \/ Rename
    \/ AppendRow \/ SkipRow \/ (\E k \in 0..NChips : TearRow(k))
    \/ Fail \/ Crash \/ Restart

Spec == Init /\ [][Next]_vars

-----------------------------------------------------------------------------
Device == [state : {"FREE"}] \union [state : {"BUSY", "EXIT"}, pid : Procs]

TypeOK ==
    /\ pc \in InTry \union {"start", "header", "sleep", "down"}
    /\ \A c \in Chips : devices[c] \in Device
    /\ {tmp, status} \subseteq {"absent", "partial", "whole"}
    /\ status = "absent" => log.lines = <<>> /\ log.tail = {}

\* "Write statuses (atomic)": once there is a status.json, a reader never finds
\* a partial one, wherever the daemon is interrupted.
StatusWhole == status # "partial"

\* The last of a list of rows that is from t or before.
LastUpTo(rows, t) == SelectLastInSeq(rows, LAMBDA row : row.ts \in 1..t)

RowAt(t) == LastUpTo(log.lines, t)

\* A row was torn between the row in force at t and t.
TornBefore(t) == \E x \in torn : /\ x.ts <= t
                                 /\ RowAt(t) = 0 \/ log.lines[RowAt(t)].ts <= x.ts

\* history.csv loses nothing by being written only on change: at the time of
\* every poll the row in force names exactly the users that poll saw, across
\* failed appends, crashes and restarts; a torn row costs no more than the time
\* up to the next row of its own line.
LogFaithful ==
    \A i \in DOMAIN polled :
        \/ TornBefore(polled[i].ts)
        \/ /\ RowAt(polled[i].ts) > 0
           /\ log.lines[RowAt(polled[i].ts)].users = polled[i].users

\* MAX_LOG_WAIT: "Force log event even if nothing changed".  At a poll the row
\* in force is no older than that.
LogNeverSilent ==
    \A i \in DOMAIN polled :
        \/ TornBefore(polled[i].ts)
        \/ polled[i].ts - log.lines[RowAt(polled[i].ts)].ts <= MaxLogWait

\* The file is as good as whole to its readers.
Whole == log.header = "whole" /\ \A x \in torn : x.cut > 0

Listed == Range(UserOf) \union {NoUser}

\* The polls up to the last of the rows: had each of them a row of its own ...
Covered(rows) == SubSeq(polled, 1, LastUpTo(polled, Last(rows).ts))

\* The time between a torn row and the next.
TornTime(rows) ==
    Total([i \in Intervals(rows) |->
        IF \E x \in torn : x.ts = rows[i].ts THEN Delta(rows, i) ELSE 0])

\* Accounting from the log equals accounting from every poll: tpu-usage charges
\* each user what it would if each poll had its own row, except for the chips'
\* time between a torn row and the next.
UsageFromLogExact ==
    LET rows    == Rows(log)
        covered == Covered(rows)
        slack   == NChips * TornTime(rows)
    IN  Whole /\ Len(rows) > 1 => \A u \in Listed :
            Forever(rows, u) - Forever(covered, u) \in -slack..slack

\* The longest time between two polls.
Gap == Max({0} \union {Delta(polled, i) : i \in Intervals(polled)})

\* What tpu-usage charges u for the days up to day.
Through(rows, day, u) == Total([d \in 1..(day + 1) |-> Daily(rows, d - 1, u)])

\* An interval across midnight is charged to the day it starts in.  That moves
\* at most the time until the first row of the new day, which MAX_LOG_WAIT and
\* the longest gap between two polls bound, however long nothing changes.
DayOffByOneRow ==
    LET rows    == Rows(log)
        covered == Covered(rows)
    IN  Whole /\ torn = {} /\ Len(rows) > 1 => \A u \in Listed, day \in 0..DayOf(clock) :
            Through(rows, day, u) - Through(covered, day, u) \in 0..(NChips * (MaxLogWait + Gap))

\* The two tools agree: they show the same days, on each the heatmap's used
\* chip-time is the sum over tpu-usage's leaderboard, and what is left is its idle
\* time, also where a torn line names somebody who does not exist.
HeatmapIsUsage ==
    LET rows == Rows(log)
    IN  Whole =>
          /\ HeatDays(rows, DayOf(clock)) = UsageDays(rows)
          /\ \A day \in UsageDays(rows) :
                /\ HeatUsed(rows, day)
                      = TotalOver(Names(rows), [u \in Names(rows) |-> Daily(rows, day, u)])
                /\ HeatTotal(rows, day) = HeatUsed(rows, day) + Daily(rows, day, NoUser)

\* What the tools could charge they can charge for ever: no crash, restart, full
\* disk or later row makes the log unreadable or takes anything off an account.
\* Two things do: a crash before a new file got its header, and a row cut in its
\* timestamp.
AccountsNeverShrink ==
    [][log.header = "whole" /\ (\A x \in torn' : x.cut > 0) =>
          /\ Readable(log) => Readable(log')
          /\ \A u \in Listed : Forever(Rows(log'), u) >= Forever(Rows(log), u)]_log
=============================================================================
