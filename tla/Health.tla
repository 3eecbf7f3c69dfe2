-------------------------------- MODULE Health --------------------------------
(***************************************************************************)
(* shared-scripts/tpu-health.py: the checks of one node, which run one     *)
(* after the other and ask other services with a timeout for each call,    *)
(* inside fetch_remote, which gives the node 15 seconds in all.  During an *)
(* outage every call that needs the service may hang, fail or still be     *)
(* answered.  A call that hangs is killed at its timeout, but the check    *)
(* then waits for the killed child: a child of sudo may not be killed by   *)
(* the admin's process, and one stuck below /storage may not die.  A call  *)
(* that does not hang takes no time.  A verdict that only depends on what  *)
(* was read (the thresholds) is "level".                                   *)
(***************************************************************************)
EXTENDS Integers, Sequences, FiniteSets, SequencesExt

CONSTANTS SshTimeout,    \* fetch_remote's timeout
          Waits          \* how long a child may go on after its timeout
ASSUME HealthAssumption == SshTimeout \in Nat \ {0} /\ Waits \subseteq Nat

VARIABLES
    backupNode,  \* are the backup and gc timers deployed on this node
    outage,      \* the service that is down, or "none"
    todo,        \* the checks still to run; the first is under way
    calls,       \* the calls it has still to make
    verdict,     \* what it would return now
    elapsed,     \* seconds since fetch_remote started
    rows,        \* the verdicts of the checks that are over
    faulty,      \* history: the checks in which a call failed, hung or outlived its kill
    column       \* what the cluster table gets: "open", "whole" or "ssh"

vars == <<backupNode, outage, todo, calls, verdict, elapsed, rows, faulty, column>>

-----------------------------------------------------------------------------
(* The checks.  A call names the service it needs, its timeout, the verdict  *)
(* if it fails, and whether its child can be killed.  A check has its calls, *)
(* its verdict if one hangs, and the ends of a call after which it makes no  *)
(* further one.                                                              *)

MakeCall(needs, secs, failed, child) ==
    [needs |-> needs, secs |-> secs, failed |-> failed, child |-> child]

\* A child of the admin's own (or no child), one that touches /storage, and sudo.
Call(needs, secs, failed) == MakeCall(needs, secs, failed, "own")
Fuse(secs, failed)        == MakeCall("storage", secs, failed, "fuse")
Sudo(needs, secs, failed) == MakeCall(needs, secs, failed, "sudo")

Check(name, itsCalls, hung, endsOn) ==
    [name |-> name, calls |-> itsCalls, hung |-> hung, endsOn |-> endsOn]
Reading(name)           == Check(name, <<>>, "level", {})
Asking(name, its, hung) == Check(name, its, hung, {"hang", "fail", "outlive"})

\* Not rows themselves.  Without metrics three checks are skipped; without the
\* cap, two fall back to a verdict that leaves it out.
scrape_metrics == Asking("metrics", <<Call("storage", 2, "SKIP")>>, "SKIP")
get_cache_cap  == Asking("cap", <<Call("systemd", 3, "level")>>, "level")

check_uptime     == Reading("uptime")
check_boot_disk  == Reading("non-cache")
check_heartbeat  == Reading("heartbeat")
MetricsChecks    == {"cache", "rawstaging", "GCS errors"}

check_needrestart   == Asking("stale libs", <<Sudo("sudo", 10, "SKIP")>>, "WARN")
check_storage_mount == Asking("storage",  <<Fuse(2, "CRIT")>>, "CRIT")
check_capacity      == Asking("capacity", <<Fuse(2, "CRIT")>>, "CRIT")
check_redis_ping    == Asking("redis", <<Sudo("sudo", 3, "SKIP"), Call("redis", 3, "CRIT")>>,
                              "CRIT")

check_services_patient ==    \* mutant: a longer timeout for each of the two units
    Check("services", [i \in 1..2 |-> Call("systemd", 10, "CRIT")], "CRIT", {})

\* A unit that does not answer counts as down, and the other is asked all the same.
check_services ==
    Check("services", [i \in 1..2 |-> Call("systemd", 5, "CRIT")], "CRIT", {})

\* docker, and only if that fails docker with sudo.
check_healthagent ==
    Check("healthAgent", <<Call("docker", 5, "SKIP"), Sudo("docker", 5, "SKIP")>>, "SKIP",
          {"hang", "answer", "outlive"})

timer_check_lenient(name) == \* mutant: an exception counts as nothing to report
    Asking(name, <<Call("systemd", 3, "CRIT"), Call("systemd", 3, "level")>>, "level")

\* check_backup_timer and check_gc_timer: is-active, then show, whose exit status
\* is not looked at.
timer_check(name) ==
    Asking(name, <<Call("systemd", 3, "CRIT"), Call("systemd", 3, "level")>>, "CRIT")

check_backup_freshness == Asking("bk fresh", <<Sudo("gcs", 15, "CRIT")>>, "CRIT")
check_gc_freshness     == Asking("gc fresh", <<Call("systemd", 3, "CRIT")>>, "CRIT")

\* run_local and _build_check_list; on other nodes the four are skipped at once.
CheckList(onBackupNode) ==
    <<scrape_metrics, get_cache_cap, check_uptime, check_needrestart, check_boot_disk,
      Reading("cache"), check_storage_mount, check_capacity,
      Reading("rawstaging"), Reading("GCS errors")>>
    \o (IF onBackupNode
        THEN <<timer_check("bk timer"), check_backup_freshness,
               timer_check("gc timer"), check_gc_freshness>>
        ELSE <<>>)
    \o <<check_heartbeat, check_services, check_healthagent, check_redis_ping>>

-----------------------------------------------------------------------------
Services == {"storage", "systemd", "docker", "redis", "gcs", "sudo"}

\* What lies below /storage needs Redis and GCS.
Affected(call) ==
    \/ call.needs = outage
    \/ call.needs = "storage" /\ outage \in {"redis", "gcs"}
    \/ call.child = "sudo" /\ outage = "sudo"

\* The admin may have no access to docker without sudo.
NoAccess(call) == call.needs = "docker" /\ call.child = "own"

Init ==
    /\ backupNode \in BOOLEAN
    /\ outage \in Services \union {"none"}
    /\ todo = CheckList(backupNode)
    /\ calls = Head(todo).calls /\ verdict = "level"
    /\ elapsed = 0
    /\ rows = {} /\ faulty = {}
    /\ column = "open"

Open == column = "open" /\ elapsed < SshTimeout

\* The check under way returns v, and the next one begins.
Return(v) ==
    /\ rows' = rows \union {[name |-> Head(todo).name, verdict |-> v]}
    /\ todo' = Tail(todo)
    /\ calls' = IF Len(todo) > 1 THEN todo[2].calls ELSE <<>>
    /\ verdict' = "level"

\* A call has ended so, with v as the check's verdict for now.
AfterCall(end, v) ==
    IF end \in Head(todo).endsOn \/ Len(calls) = 1 THEN Return(v)
    ELSE calls' = Tail(calls) /\ verdict' = v /\ UNCHANGED <<rows, todo>>

NoMetrics == [name |-> "metrics", verdict |-> "SKIP"] \in rows

Read ==
    /\ Open /\ todo # <<>> /\ calls = <<>>
    /\ Return(IF Head(todo).name \in MetricsChecks /\ NoMetrics THEN "SKIP" ELSE "level")
    /\ UNCHANGED <<backupNode, outage, elapsed, faulty, column>>

Answered ==
    /\ Open /\ calls # <<>>
    /\ AfterCall("answer", IF "answer" \in Head(todo).endsOn THEN "level" ELSE verdict)
    /\ UNCHANGED <<backupNode, outage, elapsed, faulty, column>>

Failed ==
    /\ Open /\ calls # <<>>
    /\ Affected(Head(calls)) \/ NoAccess(Head(calls))
    /\ AfterCall("fail", Head(calls).failed)
    /\ faulty' = faulty \union {[name |-> Head(todo).name, end |-> "fail"]}
    /\ UNCHANGED <<backupNode, outage, elapsed, column>>

\* subprocess.run's kill ends the child at once, and urlopen gives up by itself.
Hung ==
    /\ Open /\ calls # <<>> /\ Affected(Head(calls)) /\ Head(calls).child # "sudo"
    /\ elapsed' = elapsed + Head(calls).secs
    /\ AfterCall("hang", Head(todo).hung)
    /\ faulty' = faulty \union {[name |-> Head(todo).name, end |-> "hang"]}
    /\ UNCHANGED <<backupNode, outage, column>>

\* The kill has failed (sudo) or not yet ended the child (a read below /storage), and
\* subprocess.run returns when the child ends, whenever that is.
Outlives(wait) ==
    /\ Open /\ calls # <<>> /\ Affected(Head(calls)) /\ Head(calls).child # "own"
    /\ elapsed' = elapsed + Head(calls).secs + wait
    /\ faulty' = faulty \union {[name |-> Head(todo).name, end |-> "outlive"]}

\* What check_needrestart does not catch: a PermissionError from that kill.
Uncaught == Head(todo).name = "stale libs"

Outlived(wait) ==
    /\ Outlives(wait) /\ ~ Uncaught
    /\ AfterCall("outlive", Head(calls).failed)
    /\ UNCHANGED <<backupNode, outage, column>>

\* run_local dies with it, and fetch_remote sees the exit status.
Escaped(wait) ==
    /\ Outlives(wait) /\ Uncaught
    /\ column' = "ssh"
    /\ UNCHANGED <<backupNode, outage, todo, calls, verdict, rows>>

\* The JSON arrives as a whole.
Deliver ==
    /\ Open /\ todo = <<>>
    /\ column' = "whole"
    /\ UNCHANGED <<backupNode, outage, todo, calls, verdict, elapsed, rows, faulty>>

DeliverPartial ==      \* mutant: on a timeout the rows printed so far are used
    /\ column = "open" /\ elapsed >= SshTimeout
    /\ column' = "whole"
    /\ UNCHANGED <<backupNode, outage, todo, calls, verdict, elapsed, rows, faulty>>

\* fetch_remote's own timeout: one row "ssh", CRIT, instead of the node's.
Timeout ==
    /\ column = "open" /\ elapsed >= SshTimeout
    /\ column' = "ssh"
    /\ UNCHANGED <<backupNode, outage, todo, calls, verdict, elapsed, rows, faulty>>

Next ==
    \/ Read \/ Answered \/ Failed \/ Hung \/ Deliver \/ Timeout
    \/ \E wait \in Waits : Outlived(wait) \/ Escaped(wait)

Spec == Init /\ [][Next]_vars

-----------------------------------------------------------------------------
Names == {c.name : c \in ToSet(CheckList(backupNode))}

TypeOK ==
    /\ \A r \in rows : r.name \in Names /\ r.verdict \in {"level", "WARN", "CRIT", "SKIP"}
    /\ column = "whole" => {r.name : r \in rows} = Names

\* A call that hangs, and one that fails except a timer's show and docker without
\* sudo, keeps its check from returning what a healthy service would have made it
\* return; the cache cap is no row.
FaultShown ==
    column = "whole" =>
        \A f \in faulty, r \in rows :
            f.name = r.name /\ r.name # "cap" /\ r.verdict = "level" =>
                f.end = "fail" /\ r.name \in {"bk timer", "gc timer", "healthAgent"}

\* A node's rows are lost, and with them the reason, only if a child outlived its
\* kill, or on the backup node while systemd does not answer: the timeouts of all
\* other calls that one outage can block fit into fetch_remote's.
LostOnlyIfOutlived ==
    column = "ssh" \/ elapsed >= SshTimeout =>
        \/ \E f \in faulty : f.end = "outlive"
        \/ backupNode /\ outage = "systemd"
=============================================================================
