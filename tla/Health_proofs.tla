---------------------------- MODULE Health_proofs ----------------------------
(***************************************************************************)
(* Proofs about Health, for every outage and both kinds of node.  Only the *)
(* last theorem needs a lower bound on fetch_remote's timeout.             *)
(***************************************************************************)
EXTENDS Health, SequenceTheorems, TLAPS

USE HealthAssumption

-----------------------------------------------------------------------------
(* The list of checks. *)

\* The checks of both kinds of node.
All ==
    {scrape_metrics, get_cache_cap, check_uptime, check_needrestart, check_boot_disk,
     Reading("cache"), check_storage_mount, check_capacity, Reading("rawstaging"),
     Reading("GCS errors"), timer_check("bk timer"), check_backup_freshness,
     timer_check("gc timer"), check_gc_freshness, check_heartbeat, check_services,
     check_healthagent, check_redis_ping}

Verdicts == {"level", "WARN", "CRIT", "SKIP"}
Children == {"own", "fuse", "sudo"}
Calls    == [needs : Services, secs : Nat, failed : Verdicts, child : Children]

First == <<scrape_metrics, get_cache_cap, check_uptime, check_needrestart, check_boot_disk,
           Reading("cache"), check_storage_mount, check_capacity,
           Reading("rawstaging"), Reading("GCS errors")>>
Timers == <<timer_check("bk timer"), check_backup_freshness,
            timer_check("gc timer"), check_gc_freshness>>
Final == <<check_heartbeat, check_services, check_healthagent, check_redis_ping>>

\* The names of the checks.
LEMMA NameFacts ==
    /\ scrape_metrics.name = "metrics" /\ get_cache_cap.name = "cap"
    /\ check_uptime.name = "uptime" /\ check_needrestart.name = "stale libs"
    /\ check_boot_disk.name = "non-cache" /\ Reading("cache").name = "cache"
    /\ check_storage_mount.name = "storage" /\ check_capacity.name = "capacity"
    /\ Reading("rawstaging").name = "rawstaging" /\ Reading("GCS errors").name = "GCS errors"
    /\ timer_check("bk timer").name = "bk timer" /\ check_backup_freshness.name = "bk fresh"
    /\ timer_check("gc timer").name = "gc timer" /\ check_gc_freshness.name = "gc fresh"
    /\ check_heartbeat.name = "heartbeat" /\ check_services.name = "services"
    /\ check_healthagent.name = "healthAgent" /\ check_redis_ping.name = "redis"
BY DEF scrape_metrics, get_cache_cap, check_uptime, check_needrestart, check_boot_disk,
       check_storage_mount, check_capacity, timer_check, check_backup_freshness,
       check_gc_freshness, check_heartbeat, check_services, check_healthagent,
       check_redis_ping, Asking, Reading, Check

\* The order of the rows.
Rank(name) ==
    CASE name = "metrics" -> 1 [] name = "cap" -> 2 [] name = "uptime" -> 3
      [] name = "stale libs" -> 4 [] name = "non-cache" -> 5 [] name = "cache" -> 6
      [] name = "storage" -> 7 [] name = "capacity" -> 8 [] name = "rawstaging" -> 9
      [] name = "GCS errors" -> 10 [] name = "bk timer" -> 11 [] name = "bk fresh" -> 12
      [] name = "gc timer" -> 13 [] name = "gc fresh" -> 14 [] name = "heartbeat" -> 15
      [] name = "services" -> 16 [] name = "healthAgent" -> 17 [] name = "redis" -> 18

\* st is s and then t.
Joined(s, t, st) ==
    /\ st \in Seq(All) /\ Len(st) = Len(s) + Len(t)
    /\ \A i \in 1..Len(s) : st[i] = s[i]
    /\ \A i \in 1..Len(t) : st[Len(s) + i] = t[i]

\* What a concatenation has where.
LEMMA ConcatFacts ==
    ASSUME NEW s \in Seq(All), NEW t \in Seq(All)
    PROVE  Joined(s, t, s \o t)
<1>1. PICK m \in Nat, n \in Nat : m = Len(s) /\ n = Len(t)
  BY LenProperties
<1>2. /\ s \o t \in Seq(All) /\ Len(s \o t) = m + n
      /\ \A i \in 1..(m + n) : (s \o t)[i] = IF i <= m THEN s[i] ELSE t[i - m]
  BY <1>1, ConcatProperties
<1>3. ASSUME NEW i \in 1..m PROVE (s \o t)[i] = s[i]
  <2>1. i \in 1..(m + n) /\ i <= m
    OBVIOUS
  <2>. QED
    BY <1>2, <2>1
<1>4. ASSUME NEW i \in 1..n PROVE (s \o t)[m + i] = t[i]
  <2>1. m + i \in 1..(m + n) /\ ~ (m + i <= m) /\ (m + i) - m = i
    OBVIOUS
  <2>. QED
    BY <1>2, <2>1
<1>. QED
  BY <1>1, <1>2, <1>3, <1>4 DEF Joined

\* The parts of the list, and their order.
LEMMA FirstFacts ==
    /\ First \in Seq(All) /\ Len(First) = 10
    /\ \A i \in 1..10 : Rank(First[i].name) = i
<1>1. First \in Seq(All) /\ Len(First) = 10
  BY DEF First, All
<1>2. /\ First[1].name = "metrics" /\ First[2].name = "cap" /\ First[3].name = "uptime"
      /\ First[4].name = "stale libs" /\ First[5].name = "non-cache"
      /\ First[6].name = "cache" /\ First[7].name = "storage"
      /\ First[8].name = "capacity" /\ First[9].name = "rawstaging"
      /\ First[10].name = "GCS errors"
  BY NameFacts DEF First
<1>3. /\ Rank("metrics") = 1 /\ Rank("cap") = 2 /\ Rank("uptime") = 3
      /\ Rank("stale libs") = 4 /\ Rank("non-cache") = 5 /\ Rank("cache") = 6
      /\ Rank("storage") = 7 /\ Rank("capacity") = 8 /\ Rank("rawstaging") = 9
      /\ Rank("GCS errors") = 10
  BY DEF Rank
<1>4. \A i \in 1..10 : i \in {1, 2, 3, 4, 5, 6, 7, 8, 9, 10}
  OBVIOUS
<1>. QED
  BY <1>1, <1>2, <1>3, <1>4

\* The four checks of the backup node.
LEMMA TimersFacts ==
    /\ Timers \in Seq(All) /\ Len(Timers) = 4
    /\ \A i \in 1..4 : Rank(Timers[i].name) = 10 + i
<1>1. Timers \in Seq(All) /\ Len(Timers) = 4
  BY DEF Timers, All
<1>2. /\ Timers[1].name = "bk timer" /\ Timers[2].name = "bk fresh"
      /\ Timers[3].name = "gc timer" /\ Timers[4].name = "gc fresh"
  BY NameFacts DEF Timers
<1>3. /\ Rank("bk timer") = 11 /\ Rank("bk fresh") = 12
      /\ Rank("gc timer") = 13 /\ Rank("gc fresh") = 14
  BY DEF Rank
<1>4. /\ Rank(Timers[1].name) = 11 /\ Rank(Timers[2].name) = 12
      /\ Rank(Timers[3].name) = 13 /\ Rank(Timers[4].name) = 14
  BY <1>2, <1>3, Zenon
<1>5. \A i \in 1..4 : i \in {1, 2, 3, 4}
  OBVIOUS
<1>. QED
  BY <1>1, <1>4, <1>5

\* The checks that end the list on every node.
LEMMA FinalFacts ==
    /\ Final \in Seq(All) /\ Len(Final) = 4
    /\ \A i \in 1..4 : Rank(Final[i].name) = 14 + i
<1>1. Final \in Seq(All) /\ Len(Final) = 4
  BY DEF Final, All
<1>2. /\ Final[1].name = "heartbeat" /\ Final[2].name = "services"
      /\ Final[3].name = "healthAgent" /\ Final[4].name = "redis"
  BY NameFacts DEF Final
<1>3. /\ Rank("heartbeat") = 15 /\ Rank("services") = 16
      /\ Rank("healthAgent") = 17 /\ Rank("redis") = 18
  BY DEF Rank
<1>4. \A i \in 1..4 : i \in {1, 2, 3, 4}
  OBVIOUS
<1>. QED
  BY <1>1, <1>2, <1>3, <1>4

OnBackupNode == {"bk timer", "bk fresh", "gc timer", "gc fresh"}

\* No two rows have the same name.  Only the backup node has those of the timers.
LEMMA ListFacts ==
    ASSUME NEW b \in BOOLEAN
    PROVE  /\ CheckList(b) \in Seq(All) /\ CheckList(b) # <<>>
           /\ \A i, j \in 1..Len(CheckList(b)) :
                 CheckList(b)[i].name = CheckList(b)[j].name => i = j
           /\ ~ b => \A i \in 1..Len(CheckList(b)) :
                 CheckList(b)[i].name \notin OnBackupNode
<1>. DEFINE L == CheckList(b)
<1>. DEFINE M == IF b THEN Timers ELSE <<>>
<1>1. L = (First \o M) \o Final
  BY DEF CheckList, First, Timers, Final
<1>2. PICK F : F = First \o M
  OBVIOUS
<1>. HIDE DEF L
<1>3. CASE b
  <2>1. M = Timers
    BY <1>3
  <2>2. /\ F \in Seq(All) /\ Len(F) = 14
        /\ \A i \in 1..10 : F[i] = First[i]
        /\ \A i \in 1..4 : F[10 + i] = Timers[i]
    <3>1. F = First \o Timers
      BY <1>2, <2>1
    <3>2. Joined(First, Timers, F)
      BY <3>1, FirstFacts, TimersFacts, ConcatFacts, Zenon
    <3>. QED
      BY <3>2, FirstFacts, TimersFacts DEF Joined
  <2>3. \A i \in 1..14 : Rank(F[i].name) = i
    <3>1. ASSUME NEW i \in 1..14 PROVE Rank(F[i].name) = i
      <4>1. CASE i \in 1..10
        BY <2>2, <4>1, FirstFacts
      <4>2. CASE ~ (i \in 1..10)
        <5>1. i - 10 \in 1..4 /\ 10 + (i - 10) = i
          BY <4>2
        <5>. QED
          BY <2>2, <5>1, TimersFacts
      <4>. QED
        BY <4>1, <4>2
    <3>. QED
      BY <3>1
  <2>4. /\ L \in Seq(All) /\ Len(L) = 18
        /\ \A i \in 1..14 : L[i] = F[i]
        /\ \A i \in 1..4 : L[14 + i] = Final[i]
    <3>0. L = F \o Final
      BY <1>1, <1>2
    <3>1. Joined(F, Final, L)
      BY <2>2, <3>0, FinalFacts, ConcatFacts, Zenon
    <3>. QED
      BY <2>2, <3>1, FinalFacts DEF Joined
  <2>5. ASSUME NEW i \in 1..18 PROVE Rank(L[i].name) = i
    <3>1. CASE i \in 1..14
      BY <2>3, <2>4, <3>1
    <3>2. CASE ~ (i \in 1..14)
      <4>1. i - 14 \in 1..4 /\ 14 + (i - 14) = i
        BY <3>2
      <4>. QED
        BY <2>4, <4>1, FinalFacts
    <3>. QED
      BY <3>1, <3>2
  <2>6. ASSUME L = <<>> PROVE FALSE
    <3>1. Len(L) = 0
      BY <2>6, EmptySeq, Zenon
    <3>. QED
      BY <2>4, <3>1
  <2>. QED
    BY <1>3, <2>4, <2>5, <2>6 DEF L
<1>4. CASE ~ b
  <2>1. M = <<>> /\ <<>> \in Seq(All) /\ Len(<<>>) = 0
    BY <1>4, EmptySeq
  <2>2. /\ F \in Seq(All) /\ Len(F) = 10
        /\ \A i \in 1..10 : F[i] = First[i]
    <3>1. F = First
      BY <1>2, <2>1, FirstFacts, ConcatEmptySeq
    <3>. QED
      BY <3>1, FirstFacts
  <2>3. /\ L \in Seq(All) /\ Len(L) = 14
        /\ \A i \in 1..10 : L[i] = F[i]
        /\ \A i \in 1..4 : L[10 + i] = Final[i]
    <3>0. L = F \o Final
      BY <1>1, <1>2
    <3>1. Joined(F, Final, L)
      BY <2>2, <3>0, FinalFacts, ConcatFacts, Zenon
    <3>. QED
      BY <2>2, <3>1, FinalFacts DEF Joined
  <2>4. ASSUME NEW i \in 1..14
        PROVE  Rank(L[i].name) = IF i <= 10 THEN i ELSE i + 4
    <3>1. CASE i \in 1..10
      BY <2>2, <2>3, <3>1, FirstFacts
    <3>2. CASE ~ (i \in 1..10)
      <4>1. i - 10 \in 1..4 /\ 10 + (i - 10) = i /\ ~ (i <= 10)
        BY <3>2
      <4>2. Rank(L[i].name) = 14 + (i - 10)
        BY <2>3, <4>1, FinalFacts
      <4>. QED
        BY <4>1, <4>2
    <3>. QED
      BY <3>1, <3>2
  <2>5. \A i, j \in 1..14 : L[i].name = L[j].name => i = j
    BY <2>4
  <2>6. ASSUME NEW i \in 1..14
        PROVE  L[i].name \notin OnBackupNode
    <3>1. Rank(L[i].name) \notin {11, 12, 13, 14}
      BY <2>4
    <3>. QED
      BY <3>1 DEF Rank, OnBackupNode
  <2>7. ASSUME L = <<>> PROVE FALSE
    <3>1. Len(L) = 0
      BY <2>7, EmptySeq, Zenon
    <3>. QED
      BY <2>3, <3>1
  <2>. QED
    BY <1>4, <2>3, <2>5, <2>6, <2>7 DEF L
<1>. QED
  BY <1>3, <1>4

-----------------------------------------------------------------------------
(* What a check may return. *)

\* What the calls of the checks need, and their timeouts.
Asked(name, needs, secs, child) ==
    \/ name \in {"metrics", "storage", "capacity"} /\ needs = "storage" /\ secs = 2
    \/ name = "cap" /\ needs = "systemd" /\ secs = 3
    \/ name = "services" /\ needs = "systemd" /\ secs = 5 /\ child = "own"
    \/ name = "healthAgent" /\ needs = "docker" /\ secs = 5
    \/ name = "redis" /\ needs = "redis" /\ secs = 3
    \/ name \in OnBackupNode /\ needs = "systemd"
    \/ child = "sudo"

\* The verdict of a check that a call failed or hung in is not that of a healthy
\* service, but for the cache cap, the show of a timer and docker without sudo.
\* Only two checks go on after a fault, and none after a child that outlived its kill.
Sound(c) ==
    /\ c.calls \in Seq(Calls) /\ Len(c.calls) <= 2 /\ c.hung \in Verdicts
    /\ c.calls # <<>> /\ c.hung = "level" => c.name = "cap"
    /\ \A i \in 1..Len(c.calls) : c.calls[i].failed = "level" =>
          c.name \in {"cap", "bk timer", "gc timer"} /\ c.calls[i].child = "own"
    /\ c.calls # <<>> /\ c.name \notin {"services", "healthAgent"} =>
          c.endsOn = {"hang", "fail", "outlive"}
    /\ c.name = "services" => /\ c.endsOn = {} /\ c.hung # "level" /\ Len(c.calls) = 2
                              /\ \A i \in 1..2 : /\ c.calls[i].failed # "level"
                                                 /\ c.calls[i].child = "own"
    /\ c.name = "healthAgent" =>
          c.endsOn = {"hang", "answer", "outlive"} /\ Len(c.calls) = 2
    /\ \A i \in 1..Len(c.calls) :
          Asked(c.name, c.calls[i].needs, c.calls[i].secs, c.calls[i].child)

\* The parts of a check.
LEMMA CheckFields ==
    ASSUME NEW name, NEW calls1, NEW hung, NEW ends
    PROVE  /\ Check(name, calls1, hung, ends).name = name
           /\ Check(name, calls1, hung, ends).calls = calls1
           /\ Check(name, calls1, hung, ends).hung = hung
           /\ Check(name, calls1, hung, ends).endsOn = ends
BY DEF Check

\* Lists of no call, one, two, and twice the same.
LEMMA CallSeqs ==
    ASSUME NEW a \in Calls, NEW b \in Calls
    PROVE  /\ <<>> \in Seq(Calls) /\ Len(<<>>) = 0
           /\ <<a>> \in Seq(Calls) /\ Len(<<a>>) = 1 /\ <<a>>[1] = a /\ <<a>> # <<>>
           /\ <<a, b>> \in Seq(Calls) /\ Len(<<a, b>>) = 2 /\ <<a, b>> # <<>>
           /\ <<a, b>>[1] = a /\ <<a, b>>[2] = b
           /\ [i \in 1..2 |-> a] \in Seq(Calls) /\ Len([i \in 1..2 |-> a]) = 2
           /\ [i \in 1..2 |-> a] # <<>>
OBVIOUS

\* A call with the four parts, each of its kind.
CallOf(needs, secs, failed, child) ==
    needs \in Services /\ secs \in Nat /\ failed \in Verdicts /\ child \in Children

Made(call, needs, secs, failed, child) ==
    /\ call \in Calls /\ call.needs = needs /\ call.secs = secs
    /\ call.failed = failed /\ call.child = child

\* The parts of a call.
LEMMA CallFacts ==
    ASSUME NEW needs, NEW secs, NEW failed, NEW child, CallOf(needs, secs, failed, child)
    PROVE  Made(MakeCall(needs, secs, failed, child), needs, secs, failed, child)
BY DEF CallOf, Made, MakeCall, Calls

\* A check that makes no call is sound.
LEMMA ReadingSound == ASSUME NEW name, name \notin {"services", "healthAgent"}
                      PROVE  Sound(Reading(name))
<1>1. PICK c : c = Reading(name)
  OBVIOUS
<1>2. c.name = name /\ c.calls = <<>> /\ c.hung = "level"
  BY <1>1, CheckFields DEF Reading
<1>3. <<>> \in Seq(Calls) /\ Len(<<>>) = 0
  BY EmptySeq
<1>. QED
  BY <1>1, <1>2, <1>3 DEF Sound, Verdicts

\* A check of one or two calls, the first that does not answer its last.
Asks(c, name, hung, a, b) ==
    /\ c.name = name /\ c.hung = hung /\ c.endsOn = {"hang", "fail", "outlive"}
    /\ c.calls \in Seq(Calls) /\ Len(c.calls) <= 2
    /\ \A i \in 1..Len(c.calls) : c.calls[i] = a \/ c.calls[i] = b

\* With one call or two, it is a check made by Asking.
LEMMA AskingAsks ==
    ASSUME NEW name, NEW hung, NEW a \in Calls, NEW b \in Calls
    PROVE  /\ Asks(Asking(name, <<a>>, hung), name, hung, a, b)
           /\ Asks(Asking(name, <<a, b>>, hung), name, hung, a, b)
<1>1. PICK s, c : s = <<a>> /\ c = Asking(name, s, hung)
  OBVIOUS
<1>2. PICK t, d : t = <<a, b>> /\ d = Asking(name, t, hung)
  OBVIOUS
<1>3. /\ s \in Seq(Calls) /\ Len(s) = 1 /\ s[1] = a
      /\ t \in Seq(Calls) /\ Len(t) = 2 /\ t[1] = a /\ t[2] = b
  BY <1>1, <1>2, CallSeqs, Zenon
<1>4. /\ c.name = name /\ c.hung = hung /\ c.endsOn = {"hang", "fail", "outlive"} /\ c.calls = s
      /\ d.name = name /\ d.hung = hung /\ d.endsOn = {"hang", "fail", "outlive"} /\ d.calls = t
  BY <1>1, <1>2 DEF Asking, Check
<1>5. Asks(c, name, hung, a, b)
  <2>1. \A i \in 1..1 : i = 1
    OBVIOUS
  <2>2. \A i \in 1..Len(s) : s[i] = a \/ s[i] = b
    BY <1>3, <2>1, Zenon
  <2>3. Len(s) <= 2
    BY <1>3
  <2>. QED
    BY <1>3, <1>4, <2>2, <2>3, Zenon DEF Asks
<1>6. Asks(d, name, hung, a, b)
  <2>1. \A i \in 1..2 : i = 1 \/ i = 2
    OBVIOUS
  <2>2. \A i \in 1..Len(t) : t[i] = a \/ t[i] = b
    BY <1>3, <2>1, Zenon
  <2>3. Len(t) <= 2
    BY <1>3
  <2>. QED
    BY <1>3, <1>4, <2>2, <2>3, Zenon DEF Asks
<1>. QED
  BY <1>1, <1>2, <1>5, <1>6, Zenon

\* What a check of that name may return when a call hangs, and what it may ask.
MayReturn(name, hung) ==
    /\ hung \in Verdicts /\ name \notin {"services", "healthAgent"}
    /\ hung = "level" => name = "cap"

MayAsk(name, needs, secs, failed, child) ==
    /\ CallOf(needs, secs, failed, child)
    /\ failed = "level" => name \in {"cap", "bk timer", "gc timer"} /\ child = "own"
    /\ Asked(name, needs, secs, child)

\* A call of a check that asks.
MayCall(name, a) == \E needs, secs, failed, child :
    a = MakeCall(needs, secs, failed, child) /\ MayAsk(name, needs, secs, failed, child)

\* The calls that are made, by kind.
LEMMA MayCallFacts ==
    ASSUME NEW name, NEW needs, NEW secs, NEW failed
    PROVE  /\ MayAsk(name, needs, secs, failed, "own") => MayCall(name, Call(needs, secs, failed))
           /\ MayAsk(name, "storage", secs, failed, "fuse") => MayCall(name, Fuse(secs, failed))
           /\ MayAsk(name, needs, secs, failed, "sudo") => MayCall(name, Sudo(needs, secs, failed))
BY Zenon DEF MayCall, Call, Fuse, Sudo

\* A check made by Asking is sound if its parts are.
LEMMA AskingSound ==
    ASSUME NEW name, NEW hung, MayReturn(name, hung),
           NEW a, MayCall(name, a), NEW b, MayCall(name, b)
    PROVE  Sound(Asking(name, <<a>>, hung)) /\ Sound(Asking(name, <<a, b>>, hung))
<1>1. PICK needs1, secs1, failed1, child1 :
        /\ a = MakeCall(needs1, secs1, failed1, child1)
        /\ MayAsk(name, needs1, secs1, failed1, child1)
  BY Zenon DEF MayCall
<1>2. PICK needs2, secs2, failed2, child2 :
        /\ b = MakeCall(needs2, secs2, failed2, child2)
        /\ MayAsk(name, needs2, secs2, failed2, child2)
  BY Zenon DEF MayCall
<1>3. Made(a, needs1, secs1, failed1, child1) /\ Made(b, needs2, secs2, failed2, child2)
  <2>1. CallOf(needs1, secs1, failed1, child1) /\ CallOf(needs2, secs2, failed2, child2)
    BY <1>1, <1>2, Zenon DEF MayAsk
  <2>. QED
    BY <1>1, <1>2, <2>1, CallFacts, Zenon
<1>4. a \in Calls /\ b \in Calls
  BY <1>3, Zenon DEF Made
<1>5. ASSUME NEW c, Asks(c, name, hung, a, b) PROVE Sound(c)
  <2>1. \A call \in {a, b} :
          /\ call.failed = "level" => name \in {"cap", "bk timer", "gc timer"} /\ call.child = "own"
          /\ Asked(name, call.needs, call.secs, call.child)
    BY <1>1, <1>2, <1>3, Zenon DEF Made, MayAsk
  <2>. QED
    BY <1>5, <2>1 DEF Asks, Sound, MayReturn
<1>6. /\ Asks(Asking(name, <<a>>, hung), name, hung, a, b)
      /\ Asks(Asking(name, <<a, b>>, hung), name, hung, a, b)
  BY <1>4, AskingAsks, Zenon
<1>. QED
  BY <1>5, <1>6, Zenon

\* One unit after the other, whatever became of the first.
LEMMA ServicesSound == Sound(check_services)
<1>1. PICK call, c : call = Call("systemd", 5, "CRIT") /\ c = check_services
  OBVIOUS
<1>2. /\ call \in Calls /\ call.failed = "CRIT" /\ call.needs = "systemd" /\ call.secs = 5
      /\ call.child = "own"
  <2>1. CallOf("systemd", 5, "CRIT", "own")
    BY DEF CallOf, Services, Verdicts, Children
  <2>2. Made(call, "systemd", 5, "CRIT", "own")
    BY <1>1, <2>1, CallFacts, Zenon DEF Call
  <2>. QED
    BY <2>2 DEF Made
<1>3. c.name = "services" /\ c.hung = "CRIT" /\ c.endsOn = {} /\ c.calls = [i \in 1..2 |-> call]
  <2>1. [i \in 1..2 |-> Call("systemd", 5, "CRIT")] = [i \in 1..2 |-> call]
    BY <1>1
  <2>2. c = Check("services", [i \in 1..2 |-> call], "CRIT", {})
    BY <1>1, <2>1, Zenon DEF check_services
  <2>. QED
    BY <2>2 DEF Check
<1>4. /\ [i \in 1..2 |-> call] \in Seq(Calls) /\ Len([i \in 1..2 |-> call]) = 2
      /\ \A i \in 1..2 : [k \in 1..2 |-> call][i] = call
  BY <1>2, CallSeqs
<1>5. Asked("services", call.needs, call.secs, call.child)
  BY <1>2 DEF Asked
<1>. QED
  BY <1>1, <1>2, <1>3, <1>4, <1>5 DEF Sound, Verdicts

\* docker, and docker with sudo only if that fails.
LEMMA HealthagentSound == Sound(check_healthagent)
<1>1. PICK a, b, c : /\ a = Call("docker", 5, "SKIP") /\ b = Sudo("docker", 5, "SKIP")
                     /\ c = check_healthagent
  OBVIOUS
<1>2. Made(a, "docker", 5, "SKIP", "own") /\ Made(b, "docker", 5, "SKIP", "sudo")
  <2>1. CallOf("docker", 5, "SKIP", "own") /\ CallOf("docker", 5, "SKIP", "sudo")
    BY DEF CallOf, Services, Verdicts, Children
  <2>. QED
    BY <1>1, <2>1, CallFacts, Zenon DEF Call, Sudo
<1>3. /\ c.name = "healthAgent" /\ c.hung = "SKIP" /\ c.endsOn = {"hang", "answer", "outlive"}
      /\ c.calls = <<a, b>>
  BY <1>1 DEF check_healthagent, Check
<1>4. PICK t : t = <<a, b>>
  OBVIOUS
<1>5. t \in Seq(Calls) /\ Len(t) = 2 /\ t[1] = a /\ t[2] = b
  <2>1. a \in Calls /\ b \in Calls
    BY <1>2, Zenon DEF Made
  <2>. QED
    BY <1>4, <2>1, CallSeqs, Zenon
<1>6. \A i \in 1..2 : t[i] = a \/ t[i] = b
  <2>1. \A i \in 1..2 : i = 1 \/ i = 2
    OBVIOUS
  <2>. QED
    BY <1>5, <2>1, Zenon
<1>7. \A call \in {a, b} :
        call.failed = "SKIP" /\ Asked("healthAgent", call.needs, call.secs, call.child)
  BY <1>2 DEF Made, Asked
<1>. QED
  BY <1>1, <1>3, <1>4, <1>5, <1>6, <1>7 DEF Sound, Verdicts

\* Every check of the list is sound.
LEMMA AllSound == \A c \in All : Sound(c)
<1>. SUFFICES ASSUME NEW c \in All PROVE Sound(c)
  OBVIOUS
<1>1. CASE c \in {check_uptime, check_boot_disk, Reading("cache"), Reading("rawstaging"),
                  Reading("GCS errors"), check_heartbeat}
  <2>1. PICK name \in {"uptime", "non-cache", "cache", "rawstaging", "GCS errors", "heartbeat"} :
          c = Reading(name)
    BY <1>1 DEF check_uptime, check_boot_disk, check_heartbeat
  <2>. QED
    BY <2>1, ReadingSound
<1>2. CASE c = scrape_metrics
  <2>1. /\ MayReturn("metrics", "SKIP")
        /\ MayAsk("metrics", "storage", 2, "SKIP", "own")
    BY DEF MayReturn, MayAsk, CallOf, Asked, OnBackupNode, Services, Verdicts, Children
  <2>2. c = Asking("metrics", <<Call("storage", 2, "SKIP")>>, "SKIP")
    BY <1>2, Zenon DEF scrape_metrics
  <2>. QED
    BY <2>1, <2>2, MayCallFacts, AskingSound, Zenon
<1>3. CASE c = get_cache_cap
  <2>1. /\ MayReturn("cap", "level")
        /\ MayAsk("cap", "systemd", 3, "level", "own")
    BY DEF MayReturn, MayAsk, CallOf, Asked, OnBackupNode, Services, Verdicts, Children
  <2>2. c = Asking("cap", <<Call("systemd", 3, "level")>>, "level")
    BY <1>3, Zenon DEF get_cache_cap
  <2>. QED
    BY <2>1, <2>2, MayCallFacts, AskingSound, Zenon
<1>4. CASE c = check_needrestart
  <2>1. /\ MayReturn("stale libs", "WARN")
        /\ MayAsk("stale libs", "sudo", 10, "SKIP", "sudo")
    BY DEF MayReturn, MayAsk, CallOf, Asked, OnBackupNode, Services, Verdicts, Children
  <2>2. c = Asking("stale libs", <<Sudo("sudo", 10, "SKIP")>>, "WARN")
    BY <1>4, Zenon DEF check_needrestart
  <2>. QED
    BY <2>1, <2>2, MayCallFacts, AskingSound, Zenon
<1>5. CASE c = check_storage_mount
  <2>1. /\ MayReturn("storage", "CRIT")
        /\ MayAsk("storage", "storage", 2, "CRIT", "fuse")
    BY DEF MayReturn, MayAsk, CallOf, Asked, OnBackupNode, Services, Verdicts, Children
  <2>2. c = Asking("storage", <<Fuse(2, "CRIT")>>, "CRIT")
    BY <1>5, Zenon DEF check_storage_mount
  <2>. QED
    BY <2>1, <2>2, MayCallFacts, AskingSound, Zenon
<1>6. CASE c = check_capacity
  <2>1. /\ MayReturn("capacity", "CRIT")
        /\ MayAsk("capacity", "storage", 2, "CRIT", "fuse")
    BY DEF MayReturn, MayAsk, CallOf, Asked, OnBackupNode, Services, Verdicts, Children
  <2>2. c = Asking("capacity", <<Fuse(2, "CRIT")>>, "CRIT")
    BY <1>6, Zenon DEF check_capacity
  <2>. QED
    BY <2>1, <2>2, MayCallFacts, AskingSound, Zenon
<1>7. CASE c = check_redis_ping
  <2>1. /\ MayReturn("redis", "CRIT")
        /\ MayAsk("redis", "sudo", 3, "SKIP", "sudo")
        /\ MayAsk("redis", "redis", 3, "CRIT", "own")
    BY DEF MayReturn, MayAsk, CallOf, Asked, OnBackupNode, Services, Verdicts, Children
  <2>2. c = Asking("redis", <<Sudo("sudo", 3, "SKIP"), Call("redis", 3, "CRIT")>>, "CRIT")
    BY <1>7, Zenon DEF check_redis_ping
  <2>. QED
    BY <2>1, <2>2, MayCallFacts, AskingSound, Zenon
<1>8. CASE c = check_backup_freshness
  <2>1. /\ MayReturn("bk fresh", "CRIT")
        /\ MayAsk("bk fresh", "gcs", 15, "CRIT", "sudo")
    BY DEF MayReturn, MayAsk, CallOf, Asked, OnBackupNode, Services, Verdicts, Children
  <2>2. c = Asking("bk fresh", <<Sudo("gcs", 15, "CRIT")>>, "CRIT")
    BY <1>8, Zenon DEF check_backup_freshness
  <2>. QED
    BY <2>1, <2>2, MayCallFacts, AskingSound, Zenon
<1>9. CASE c = check_gc_freshness
  <2>1. /\ MayReturn("gc fresh", "CRIT")
        /\ MayAsk("gc fresh", "systemd", 3, "CRIT", "own")
    BY DEF MayReturn, MayAsk, CallOf, Asked, OnBackupNode, Services, Verdicts, Children
  <2>2. c = Asking("gc fresh", <<Call("systemd", 3, "CRIT")>>, "CRIT")
    BY <1>9, Zenon DEF check_gc_freshness
  <2>. QED
    BY <2>1, <2>2, MayCallFacts, AskingSound, Zenon
<1>10. CASE c = timer_check("bk timer")
  <2>1. /\ MayReturn("bk timer", "CRIT")
        /\ MayAsk("bk timer", "systemd", 3, "CRIT", "own")
        /\ MayAsk("bk timer", "systemd", 3, "level", "own")
    BY DEF MayReturn, MayAsk, CallOf, Asked, OnBackupNode, Services, Verdicts, Children
  <2>2. c = Asking("bk timer", <<Call("systemd", 3, "CRIT"), Call("systemd", 3, "level")>>, "CRIT")
    BY <1>10, Zenon DEF timer_check
  <2>. QED
    BY <2>1, <2>2, MayCallFacts, AskingSound, Zenon
<1>11. CASE c = timer_check("gc timer")
  <2>1. /\ MayReturn("gc timer", "CRIT")
        /\ MayAsk("gc timer", "systemd", 3, "CRIT", "own")
        /\ MayAsk("gc timer", "systemd", 3, "level", "own")
    BY DEF MayReturn, MayAsk, CallOf, Asked, OnBackupNode, Services, Verdicts, Children
  <2>2. c = Asking("gc timer", <<Call("systemd", 3, "CRIT"), Call("systemd", 3, "level")>>, "CRIT")
    BY <1>11, Zenon DEF timer_check
  <2>. QED
    BY <2>1, <2>2, MayCallFacts, AskingSound, Zenon
<1>. QED
  BY <1>1, <1>2, <1>3, <1>4, <1>5, <1>6, <1>7, <1>8, <1>9, <1>10, <1>11,
     ServicesSound, HealthagentSound DEF All
-----------------------------------------------------------------------------
(* The invariant. *)

List   == CheckList(backupNode)
Passed == Len(List) - Len(todo)

Done(name) == \E r \in rows : r.name = name

\* s is what is left of all.
Rest(s, all, S) ==
    /\ s \in Seq(S) /\ Len(s) <= Len(all)
    /\ \A i \in 1..Len(s) : s[i] = all[Len(all) - Len(s) + i]

Types ==
    /\ backupNode \in BOOLEAN /\ outage \in Services \union {"none"}
    /\ verdict \in Verdicts /\ elapsed \in Nat

\* The checks are made in the order of the list, and the calls in theirs; a check
\* with calls returns with one of them.
InOrder ==
    /\ Rest(todo, List, All)
    /\ todo = <<>> => calls = <<>>
    /\ todo # <<>> => /\ Rest(calls, todo[1].calls, Calls)
                      /\ todo[1].calls # <<>> => calls # <<>>

\* A row for every check that is over, and no other.
RowsMade ==
    /\ \A r \in rows : r.verdict \in Verdicts /\ \E i \in 1..Passed : r.name = List[i].name
    /\ \A i \in 1..Passed : Done(List[i].name)
    /\ column = "whole" => todo = <<>>

Excused(f, name) == f.end = "fail" /\ name \in {"bk timer", "gc timer", "healthAgent"}

\* The rows show what the checks that are over met with; of the check under way,
\* only two go on after a fault.
Shown ==
    /\ \A f \in faulty : Done(f.name) \/ (todo # <<>> /\ f.name = todo[1].name)
    /\ \A f \in faulty, r \in rows :
          f.name = r.name /\ r.name # "cap" /\ r.verdict = "level" => Excused(f, r.name)
    /\ column # "ssh" =>
          \A f \in faulty : todo # <<>> /\ f.name = todo[1].name =>
              \/ f.name = "healthAgent" /\ f.end = "fail"
              \/ f.name = "services" /\ verdict # "level"

\* The seconds a check may hang for during the outage, but for those that only
\* the backup node makes.
Share(name) ==
    CASE outage \in {"storage", "gcs", "redis"} /\ name \in {"metrics", "storage", "capacity"} -> 2
      [] outage = "redis" /\ name = "redis" -> 3
      [] outage = "systemd" /\ name = "cap" -> 3
      [] outage = "systemd" /\ name = "services" -> 10
      [] outage = "docker" /\ name = "healthAgent" -> 5
      [] OTHER -> 0

Taken(name) == IF Done(name) THEN Share(name) ELSE 0

Spent == Taken("metrics") + Taken("cap") + Taken("storage") + Taken("capacity")
           + Taken("services") + Taken("healthAgent") + Taken("redis")

\* The one check in which two calls may hang.
SoFar == IF todo # <<>> /\ outage = "systemd" /\ todo[1].name = "services"
         THEN 5 * (2 - Len(calls)) ELSE 0

Outlasted == \E f \in faulty : f.end = "outlive"

Spared == ~ Outlasted /\ (backupNode => outage # "systemd")
InTime == Spared => elapsed <= Spent + SoFar

\* The rows are given up when the time is over or run_local died.
GivenUp == column = "ssh" => Outlasted \/ elapsed >= SshTimeout

Inv == Types /\ InOrder /\ RowsMade /\ Shown /\ InTime /\ GivenUp

-----------------------------------------------------------------------------
(* What is left of a sequence. *)

\* Before the first step it is the whole sequence.
LEMMA RestWhole == ASSUME NEW S, NEW all \in Seq(S) PROVE Rest(all, all, S)
BY DEF Rest

\* One step takes its first element, the next one of the whole.
LEMMA RestTail ==
    ASSUME NEW S, NEW all \in Seq(S), NEW s, Rest(s, all, S), s # <<>>
    PROVE  /\ Rest(Tail(s), all, S)
           /\ Len(s) \in Nat \ {0} /\ Len(Tail(s)) = Len(s) - 1
           /\ Head(s) = s[1] /\ s[1] \in S /\ s[1] = all[Len(all) - Len(s) + 1]
           /\ Len(s) > 1 => Tail(s) # <<>> /\ Tail(s)[1] = s[2]
           /\ Len(s) = 1 => Tail(s) = <<>>
<1>1. s \in Seq(S) /\ Len(s) \in Nat \ {0} /\ Len(s) <= Len(all) /\ Len(all) \in Nat
  BY DEF Rest
<1>2. /\ Tail(s) \in Seq(S) /\ Len(Tail(s)) = Len(s) - 1
      /\ \A i \in 1..(Len(s) - 1) : Tail(s)[i] = s[i + 1]
      /\ Head(s) = s[1] /\ s[1] \in S
  BY <1>1
<1>3. Rest(Tail(s), all, S)
  BY <1>1, <1>2 DEF Rest
<1>4. s[1] = all[Len(all) - Len(s) + 1]
  BY <1>1 DEF Rest
<1>5. ASSUME Len(s) > 1 PROVE Tail(s) # <<>> /\ Tail(s)[1] = s[2]
  <2>1. SUFFICES Tail(s) # <<>>
    BY <1>1, <1>2, <1>5
  <2>2. Len(Tail(s)) # 0
    BY <1>1, <1>2, <1>5
  <2>3. Tail(s) = <<>> => Len(Tail(s)) = 0
    BY EmptySeq, Zenon
  <2>. QED
    BY <2>2, <2>3, Zenon
<1>6. ASSUME Len(s) = 1 PROVE Tail(s) = <<>>
  <2>1. PICK t : t = Tail(s)
    OBVIOUS
  <2>2. t \in Seq(S) /\ Len(t) = 0
    BY <1>2, <1>6, <2>1
  <2>3. t = <<>>
    BY <2>2, EmptySeq
  <2>. QED
    BY <2>1, <2>3
<1>. QED
  BY <1>1, <1>2, <1>3, <1>4, <1>5, <1>6

-----------------------------------------------------------------------------
(* The check under way. *)

\* The check under way has no row yet.
LEMMA UnderWay ==
    ASSUME Types, InOrder, RowsMade, todo # <<>>
    PROVE  /\ Head(todo) = todo[1] /\ todo[1] \in All /\ Sound(todo[1])
           /\ Len(todo) \in Nat \ {0}
           /\ Passed \in Nat /\ Passed + 1 \in 1..Len(List) /\ todo[1] = List[Passed + 1]
           /\ ~ Done(todo[1].name)
           /\ todo[1].name \in OnBackupNode => backupNode
<1>1. PICK L, n : L = List /\ n = Len(L)
  OBVIOUS
<1>2. /\ L \in Seq(All)
      /\ \A i, j \in 1..Len(L) : L[i].name = L[j].name => i = j
      /\ ~ backupNode => \A i \in 1..Len(L) : L[i].name \notin OnBackupNode
  BY <1>1, ListFacts DEF Types, List
<1>3. Rest(todo, L, All)
  BY <1>1, Zenon DEF InOrder
<1>4. /\ Head(todo) = todo[1] /\ todo[1] \in All
      /\ Len(todo) \in Nat \ {0} /\ todo[1] = L[Len(L) - Len(todo) + 1]
  BY <1>2, <1>3, RestTail
<1>5. Len(L) \in Nat /\ Len(todo) <= Len(L)
  BY <1>2, <1>3 DEF Rest
<1>6. Passed = Len(L) - Len(todo)
  BY <1>1, Zenon DEF Passed
<1>7. Passed \in Nat /\ Passed + 1 \in 1..Len(L) /\ todo[1] = L[Passed + 1]
  BY <1>4, <1>5, <1>6
<1>8. ~ Done(todo[1].name)
  <2>1. ASSUME NEW r \in rows, r.name = todo[1].name PROVE FALSE
    <3>1. PICK i \in 1..Passed : r.name = L[i].name
      BY <1>1, Zenon DEF RowsMade
    <3>2. i \in 1..Len(L) /\ i # Passed + 1
      BY <1>7, <3>1
    <3>. QED
      BY <1>2, <1>7, <2>1, <3>1, <3>2
  <2>. QED
    BY <2>1, Zenon DEF Done
<1>9. todo[1].name \in OnBackupNode => backupNode
  BY <1>2, <1>7
<1>. QED
  BY <1>1, <1>4, <1>7, <1>8, <1>9, AllSound, Zenon

\* The call under way is one of the check's.
LEMMA CallUnderWay ==
    ASSUME Types, InOrder, RowsMade, calls # <<>>
    PROVE  /\ todo # <<>> /\ todo[1].calls # <<>>
           /\ Head(calls) \in Calls
           /\ \E i \in 1..Len(todo[1].calls) : Head(calls) = todo[1].calls[i]
           /\ Len(calls) \in {1, 2}
           /\ Len(Tail(calls)) = Len(calls) - 1
           /\ Len(calls) # 1 => Tail(calls) # <<>>
           /\ Rest(Tail(calls), todo[1].calls, Calls)
<1>1. todo # <<>>
  BY Zenon DEF InOrder
<1>2. PICK c, its : c = todo[1] /\ its = c.calls
  OBVIOUS
<1>3. its \in Seq(Calls) /\ Len(its) <= 2
  <2>1. Sound(c)
    BY <1>1, <1>2, UnderWay, Zenon
  <2>. QED
    BY <1>2, <2>1, Zenon DEF Sound
<1>4. Rest(calls, its, Calls)
  BY <1>1, <1>2, Zenon DEF InOrder
<1>5. /\ Rest(Tail(calls), its, Calls)
      /\ Len(calls) \in Nat \ {0} /\ Len(Tail(calls)) = Len(calls) - 1
      /\ Head(calls) = calls[1] /\ calls[1] \in Calls
      /\ calls[1] = its[Len(its) - Len(calls) + 1]
      /\ Len(calls) > 1 => Tail(calls) # <<>>
  BY <1>3, <1>4, RestTail
<1>6. Len(calls) <= Len(its) /\ Len(its) \in Nat
  BY <1>3, <1>4 DEF Rest
<1>7. Len(calls) \in {1, 2} /\ Len(its) - Len(calls) + 1 \in 1..Len(its)
  BY <1>3, <1>5, <1>6
<1>8. its # <<>>
  <2>1. its = <<>> => Len(its) = 0
    BY EmptySeq, Zenon
  <2>2. Len(its) # 0
    BY <1>5, <1>6
  <2>. QED
    BY <2>1, <2>2, Zenon
<1>9. Len(calls) # 1 => Tail(calls) # <<>>
  <2>1. \A n \in {1, 2} : n # 1 => n > 1
    OBVIOUS
  <2>2. Len(calls) # 1 => Len(calls) > 1
    BY <1>7, <2>1, Zenon
  <2>. QED
    BY <1>5, <2>2, Zenon
<1>10. \E i \in 1..Len(its) : Head(calls) = its[i]
  BY <1>5, <1>7, Zenon
<1>. QED
  BY <1>1, <1>2, <1>5, <1>7, <1>8, <1>9, <1>10, Zenon

-----------------------------------------------------------------------------
(* Every step is the end of a call, a reading or the end of the whole. *)

\* The check goes on with its next call, and would return v now.
Stays(end, v) ==
    /\ calls # <<>> /\ Len(calls) # 1 /\ end \notin Head(todo).endsOn
    /\ calls' = Tail(calls) /\ verdict' = v /\ UNCHANGED <<rows, todo>>

Fault(end) == end \in {"fail", "hang", "outlive"}

\* What v says after the call ended so.
Honest(end, v) ==
    /\ v \in Verdicts
    /\ todo[1].name = "services" /\ (Fault(end) \/ verdict # "level") => v # "level"
    /\ end = "fail" /\ v = "level" => todo[1].name \in {"cap", "bk timer", "gc timer"}
    /\ end = "hang" /\ v = "level" => todo[1].name = "cap"
    /\ end = "outlive" => v # "level"
    /\ Fault(end) /\ end \notin todo[1].endsOn =>
          todo[1].name = "services" \/ (todo[1].name = "healthAgent" /\ end = "fail")

\* A check reads something or a call of it ends.
Ends(end, v) ==
    /\ todo # <<>> /\ column = "open" /\ UNCHANGED <<backupNode, outage, column>>
    /\ Return(v) \/ Stays(end, v)
    /\ Honest(end, v)
    /\ faulty' = IF Fault(end) THEN faulty \union {[name |-> todo[1].name, end |-> end]} ELSE faulty
    /\ Fault(end) => calls # <<>>
    /\ end \notin {"hang", "outlive"} => elapsed' = elapsed
    /\ end = "hang" => /\ Affected(Head(calls)) /\ Head(calls).child # "sudo"
                       /\ elapsed' = elapsed + Head(calls).secs
    /\ end = "outlive" => elapsed' \in Nat

\* The result is delivered or given up, or nothing happens.
Quiet ==
    /\ UNCHANGED <<backupNode, outage, todo, calls, verdict, elapsed, rows, faulty>>
    /\ column' = "whole" => column = "whole" \/ todo = <<>>
    /\ column' # "ssh" => column # "ssh"
    /\ column' = "ssh" => column = "ssh" \/ elapsed >= SshTimeout

\* run_local dies of a child that outlived its kill.
Dies ==
    /\ todo # <<>> /\ UNCHANGED <<backupNode, outage, todo, calls, verdict, rows>>
    /\ elapsed' \in Nat /\ column' = "ssh"
    /\ faulty' = faulty \union {[name |-> todo[1].name, end |-> "outlive"]}

\* A check that reads makes no call; services does.
LEMMA ReadEnds ==
    ASSUME Types, InOrder, RowsMade, Read
    PROVE  \E v : Ends("read", v)
<1>1. PICK v : v = (IF Head(todo).name \in MetricsChecks /\ NoMetrics THEN "SKIP" ELSE "level")
  OBVIOUS
<1>2. /\ todo # <<>> /\ column = "open" /\ UNCHANGED <<backupNode, outage, column>>
      /\ Return(v) /\ faulty' = faulty /\ elapsed' = elapsed
  BY <1>1, Zenon DEF Read, Open
<1>3. todo[1].name # "services"
  <2>1. calls = <<>> /\ Sound(todo[1])
    BY <1>2, UnderWay, Zenon DEF Read
  <2>2. todo[1].calls = <<>>
    BY <1>2, <2>1, Zenon DEF InOrder
  <2>3. Len(todo[1].calls) = 0
    BY <2>2, EmptySeq, Zenon
  <2>. QED
    BY <2>1, <2>3 DEF Sound
<1>4. v \in Verdicts
  BY <1>1 DEF Verdicts
<1>5. Honest("read", v) /\ ~ Fault("read")
  BY <1>3, <1>4 DEF Honest, Fault
<1>. QED
  BY <1>2, <1>5, Zenon DEF Ends

\* What the check under way may return after an answer, a failure and a timeout.
LEMMA CallHonest ==
    ASSUME Types, InOrder, RowsMade, calls # <<>>
    PROVE  /\ Honest("answer", IF "answer" \in Head(todo).endsOn THEN "level" ELSE verdict)
           /\ Honest("fail", Head(calls).failed)
           /\ Honest("hang", Head(todo).hung)
           /\ Head(calls).child # "own" => Honest("outlive", Head(calls).failed)
<1>1. todo # <<>> /\ Head(todo) = todo[1] /\ todo[1].calls # <<>> /\ Sound(todo[1])
  BY CallUnderWay, UnderWay, Zenon
<1>2. PICK i \in 1..Len(todo[1].calls) : Head(calls) = todo[1].calls[i]
  BY CallUnderWay, Zenon
<1>3. Head(calls) \in Calls
  BY CallUnderWay, Zenon
<1>4. PICK c, its, k : c = todo[1] /\ its = c.calls /\ k = Head(calls)
  OBVIOUS
<1>5. /\ Sound(c) /\ c.calls = its /\ its # <<>> /\ k = its[i] /\ k \in Calls
      /\ i \in 1..Len(its) /\ Head(todo) = c /\ todo[1] = c
  BY <1>1, <1>2, <1>3, <1>4, Zenon
<1>6. /\ c.hung \in Verdicts
      /\ c.hung = "level" => c.name = "cap"
      /\ k.failed = "level" => c.name \in {"cap", "bk timer", "gc timer"} /\ k.child = "own"
      /\ c.name \notin {"services", "healthAgent"} => c.endsOn = {"hang", "fail", "outlive"}
      /\ c.name = "services" => c.endsOn = {} /\ c.hung # "level" /\ k.failed # "level"
                                /\ k.child = "own"
      /\ c.name = "healthAgent" => c.endsOn = {"hang", "answer", "outlive"}
  BY <1>5 DEF Sound
<1>7. k.failed \in Verdicts
  BY <1>5 DEF Calls
<1>8. PICK w : w = (IF "answer" \in c.endsOn THEN "level" ELSE verdict)
  OBVIOUS
<1>9. Honest("answer", w)
  BY <1>5, <1>6, <1>8 DEF Honest, Fault, Types, Verdicts
<1>10. Honest("fail", k.failed)
  BY <1>5, <1>6, <1>7 DEF Honest, Fault
<1>11. Honest("hang", c.hung)
  BY <1>5, <1>6 DEF Honest, Fault
<1>12. k.child # "own" => Honest("outlive", k.failed)
  BY <1>5, <1>6, <1>7 DEF Honest, Fault
<1>. QED
  BY <1>4, <1>5, <1>8, <1>9, <1>10, <1>11, <1>12, Zenon

\* A call of the check under way has ended.
LEMMA AfterCallEnds ==
    ASSUME Types, InOrder, RowsMade, calls # <<>>, NEW end, NEW v, AfterCall(end, v)
    PROVE  todo # <<>> /\ (Return(v) \/ Stays(end, v))
<1>1. todo # <<>>
  BY CallUnderWay, Zenon
<1>2. CASE end \in Head(todo).endsOn \/ Len(calls) = 1
  BY <1>1, <1>2, Zenon DEF AfterCall
<1>3. CASE ~ (end \in Head(todo).endsOn \/ Len(calls) = 1)
  BY <1>1, <1>3, Zenon DEF AfterCall, Stays
<1>. QED
  BY <1>2, <1>3

\* An answer ends a call.
LEMMA AnsweredEnds ==
    ASSUME Types, InOrder, RowsMade, Answered
    PROVE  \E v : Ends("answer", v)
<1>1. PICK v : v = (IF "answer" \in Head(todo).endsOn THEN "level" ELSE verdict)
  OBVIOUS
<1>2. /\ calls # <<>> /\ column = "open" /\ UNCHANGED <<backupNode, outage, column>>
      /\ AfterCall("answer", v) /\ faulty' = faulty /\ elapsed' = elapsed
  BY <1>1, Zenon DEF Answered, Open
<1>3. todo # <<>> /\ (Return(v) \/ Stays("answer", v))
  BY <1>2, AfterCallEnds, Zenon
<1>4. Honest("answer", v)
  BY <1>1, <1>2, CallHonest, Zenon
<1>5. ~ Fault("answer") /\ "answer" \notin {"hang", "outlive"} /\ "answer" # "hang"
  BY DEF Fault
<1>. QED
  BY <1>2, <1>3, <1>4, <1>5, Zenon DEF Ends

\* So does a failure, which is no loss of time.
LEMMA FailedEnds ==
    ASSUME Types, InOrder, RowsMade, Failed
    PROVE  \E v : Ends("fail", v)
<1>1. PICK v : v = Head(calls).failed
  OBVIOUS
<1>2. /\ calls # <<>> /\ column = "open" /\ UNCHANGED <<backupNode, outage, column>>
      /\ AfterCall("fail", v) /\ elapsed' = elapsed
      /\ faulty' = faulty \union {[name |-> Head(todo).name, end |-> "fail"]}
  BY <1>1, Zenon DEF Failed, Open
<1>3. todo # <<>> /\ (Return(v) \/ Stays("fail", v))
  BY <1>2, AfterCallEnds, Zenon
<1>4. Honest("fail", v)
  BY <1>1, <1>2, CallHonest, Zenon
<1>5. Fault("fail") /\ "fail" \notin {"hang", "outlive"}
  BY DEF Fault
<1>6. Head(todo) = todo[1]
  BY <1>3, UnderWay, Zenon
<1>. QED
  BY <1>2, <1>3, <1>4, <1>5, <1>6, Zenon DEF Ends

\* So does a timeout, and it takes as long as the call may.
LEMMA HungEnds ==
    ASSUME Types, InOrder, RowsMade, Hung
    PROVE  \E v : Ends("hang", v)
<1>1. PICK v : v = Head(todo).hung
  OBVIOUS
<1>2. /\ calls # <<>> /\ column = "open" /\ UNCHANGED <<backupNode, outage, column>>
      /\ AfterCall("hang", v) /\ elapsed' = elapsed + Head(calls).secs
      /\ Affected(Head(calls)) /\ Head(calls).child # "sudo"
      /\ faulty' = faulty \union {[name |-> Head(todo).name, end |-> "hang"]}
  BY <1>1, Zenon DEF Hung, Open
<1>3. todo # <<>> /\ (Return(v) \/ Stays("hang", v))
  BY <1>2, AfterCallEnds, Zenon
<1>4. Honest("hang", v)
  BY <1>1, <1>2, CallHonest, Zenon
<1>5. Fault("hang") /\ "hang" # "outlive"
  BY DEF Fault
<1>6. Head(todo) = todo[1]
  BY <1>3, UnderWay, Zenon
<1>. QED
  BY <1>2, <1>3, <1>4, <1>5, <1>6, Zenon DEF Ends

\* What a child that outlives its kill takes is a whole number of seconds.
LEMMA OutliveTime ==
    ASSUME Types, InOrder, RowsMade, NEW wait \in Waits, Outlives(wait)
    PROVE  /\ todo # <<>> /\ calls # <<>> /\ column = "open" /\ Head(calls).child # "own"
           /\ elapsed' \in Nat
           /\ faulty' = faulty \union {[name |-> todo[1].name, end |-> "outlive"]}
<1>1. /\ calls # <<>> /\ column = "open" /\ Head(calls).child # "own"
      /\ elapsed' = elapsed + Head(calls).secs + wait
      /\ faulty' = faulty \union {[name |-> Head(todo).name, end |-> "outlive"]}
  BY Zenon DEF Outlives, Open
<1>2. todo # <<>> /\ Head(calls) \in Calls
  BY <1>1, CallUnderWay, Zenon
<1>3. Head(todo) = todo[1]
  BY <1>2, UnderWay, Zenon
<1>4. elapsed' \in Nat
  BY <1>1, <1>2 DEF Calls, Types
<1>. QED
  BY <1>1, <1>2, <1>3, <1>4, Zenon

\* A child that outlives its kill ends its call when it ends.
LEMMA OutlivedEnds ==
    ASSUME Types, InOrder, RowsMade, NEW wait \in Waits, Outlived(wait)
    PROVE  \E v : Ends("outlive", v)
<1>1. PICK v : v = Head(calls).failed
  OBVIOUS
<1>2. /\ Outlives(wait) /\ UNCHANGED <<backupNode, outage, column>>
      /\ AfterCall("outlive", v)
  BY <1>1, Zenon DEF Outlived
<1>3. /\ todo # <<>> /\ calls # <<>> /\ column = "open" /\ Head(calls).child # "own"
      /\ elapsed' \in Nat
      /\ faulty' = faulty \union {[name |-> todo[1].name, end |-> "outlive"]}
  BY <1>2, OutliveTime, Zenon
<1>4. Return(v) \/ Stays("outlive", v)
  BY <1>2, <1>3, AfterCallEnds, Zenon
<1>5. Honest("outlive", v)
  BY <1>1, <1>3, CallHonest, Zenon
<1>6. Fault("outlive") /\ "outlive" \in {"hang", "outlive"} /\ "outlive" # "hang"
  BY DEF Fault
<1>. QED
  BY <1>2, <1>3, <1>4, <1>5, <1>6, Zenon DEF Ends

\* Or it takes run_local with it.
LEMMA EscapedDies ==
    ASSUME Types, InOrder, RowsMade, NEW wait \in Waits, Escaped(wait)
    PROVE  Dies
<1>1. /\ Outlives(wait) /\ column' = "ssh"
      /\ UNCHANGED <<backupNode, outage, todo, calls, verdict, rows>>
  BY Zenon DEF Escaped
<1>2. /\ todo # <<>> /\ elapsed' \in Nat
      /\ faulty' = faulty \union {[name |-> todo[1].name, end |-> "outlive"]}
  BY <1>1, OutliveTime, Zenon
<1>. QED
  BY <1>1, <1>2, Zenon DEF Dies

\* Whichever of the eight actions it is.
LEMMA StepKinds ==
    ASSUME Types, InOrder, RowsMade, [Next]_vars
    PROVE  Quiet \/ Dies \/ \E end : \E v : Ends(end, v)
<1>1. CASE Read
  BY <1>1, ReadEnds, Zenon
<1>2. CASE Answered
  BY <1>2, AnsweredEnds, Zenon
<1>3. CASE Failed
  BY <1>3, FailedEnds, Zenon
<1>4. CASE Hung
  BY <1>4, HungEnds, Zenon
<1>5. CASE Deliver
  <2>1. column = "open" /\ column' = "whole" /\ "open" # "ssh" /\ "whole" # "ssh"
    BY <1>5, Zenon DEF Deliver, Open
  <2>. QED
    BY <1>5, <2>1, Zenon DEF Deliver, Quiet
<1>6. CASE Timeout
  BY <1>6 DEF Timeout, Quiet
<1>7. CASE UNCHANGED vars
  BY <1>7, Zenon DEF vars, Quiet
<1>8. ASSUME NEW wait \in Waits, Outlived(wait) PROVE \E end : \E v : Ends(end, v)
  BY <1>8, OutlivedEnds, Zenon
<1>9. ASSUME NEW wait \in Waits, Escaped(wait) PROVE Dies
  BY <1>9, EscapedDies, Zenon
<1>. QED
  BY <1>1, <1>2, <1>3, <1>4, <1>5, <1>6, <1>7, <1>8, <1>9, Zenon DEF Next

-----------------------------------------------------------------------------
(* The invariant is preserved. *)

\* Which checks are deployed does not change.
LEMMA SameList == backupNode' = backupNode => List' = List
BY Zenon DEF List

\* The check that returns gets a row, and the next one begins.
LEMMA ReturnOrder ==
    ASSUME Types, InOrder, RowsMade, todo # <<>>, NEW v, Return(v), backupNode' = backupNode
    PROVE  InOrder' /\ Passed' = Passed + 1 /\ List' = List
<1>1. PICK L : L = List
  OBVIOUS
<1>2. L \in Seq(All)
  BY <1>1, ListFacts DEF Types, List
<1>3. Rest(todo, L, All)
  BY <1>1, Zenon DEF InOrder
<1>4. /\ Rest(Tail(todo), L, All)
      /\ Len(todo) \in Nat \ {0} /\ Len(Tail(todo)) = Len(todo) - 1
      /\ Len(todo) > 1 => Tail(todo) # <<>> /\ Tail(todo)[1] = todo[2]
      /\ Len(todo) = 1 => Tail(todo) = <<>>
  BY <1>2, <1>3, RestTail
<1>5. /\ todo' = Tail(todo)
      /\ calls' = IF Len(todo) > 1 THEN todo[2].calls ELSE <<>>
  BY Zenon DEF Return
<1>6. L = List'
  BY <1>1, SameList, Zenon
<1>7. Passed' = Passed + 1
  <2>1. Passed = Len(L) - Len(todo) /\ Passed' = Len(L) - Len(todo')
    BY <1>1, <1>6, Zenon DEF Passed
  <2>2. Len(L) \in Nat /\ Len(todo') = Len(todo) - 1
    BY <1>2, <1>4, <1>5
  <2>. QED
    BY <1>4, <2>1, <2>2
<1>8. Rest(todo', L, All)
  BY <1>4, <1>5, Zenon
<1>9. CASE Len(todo) = 1
  <2>1. todo' = <<>> /\ ~ (Len(todo) > 1)
    BY <1>4, <1>5, <1>9
  <2>2. calls' = <<>>
    BY <1>5, <2>1, Zenon
  <2>. QED
    BY <1>1, <1>6, <1>7, <1>8, <2>1, <2>2, Zenon DEF InOrder
<1>10. CASE Len(todo) # 1
  <2>1. Len(todo) > 1
    BY <1>4, <1>10
  <2>2. PICK c, its : c = todo'[1] /\ its = c.calls
    OBVIOUS
  <2>3. todo' # <<>> /\ c = todo[2] /\ calls' = its
    BY <1>4, <1>5, <2>1, <2>2, Zenon
  <2>4. c \in All
    <3>1. Rest(todo', L, All) /\ todo' # <<>>
      BY <1>8, <2>3
    <3>. QED
      BY <1>2, <2>2, <3>1, RestTail
  <2>5. its \in Seq(Calls)
    BY <2>2, <2>4, AllSound DEF Sound
  <2>6. Rest(its, its, Calls)
    BY <2>5, RestWhole, Zenon
  <2>. QED
    BY <1>1, <1>6, <1>7, <1>8, <2>2, <2>3, <2>6, Zenon DEF InOrder
<1>. QED
  BY <1>9, <1>10

\* The check goes on with what is left of its calls.
LEMMA StayOrder ==
    ASSUME Types, InOrder, RowsMade, NEW end, NEW v, Stays(end, v), backupNode' = backupNode
    PROVE  InOrder' /\ Passed' = Passed /\ List' = List
<1>1. /\ todo # <<>> /\ Rest(Tail(calls), todo[1].calls, Calls) /\ Tail(calls) # <<>>
      /\ calls' = Tail(calls) /\ todo' = todo
  BY CallUnderWay, Zenon DEF Stays
<1>2. List' = List
  BY SameList, Zenon
<1>. QED
  BY <1>1, <1>2, Zenon DEF InOrder, Passed

\* What has a row afterwards.
LEMMA ReturnDone ==
    ASSUME todo # <<>>, Head(todo) = todo[1], NEW v, Return(v)
    PROVE  /\ \A name : Done(name)' <=> Done(name) \/ name = todo[1].name
           /\ \A r \in rows' : r \in rows \/ (r.name = todo[1].name /\ r.verdict = v)
<1>1. PICK n, new : n = todo[1].name /\ new = [name |-> n, verdict |-> v]
  OBVIOUS
<1>2. new.name = n /\ new.verdict = v
  BY <1>1
<1>3. rows' = rows \union {new}
  BY <1>1, Zenon DEF Return
<1>4. \A r : r \in rows' <=> r \in rows \/ r = new
  BY <1>3, Zenon
<1>5. \A name : Done(name)' <=> Done(name) \/ name = n
  BY <1>2, <1>4, Zenon DEF Done
<1>6. \A r \in rows' : r \in rows \/ (r.name = n /\ r.verdict = v)
  BY <1>2, <1>4, Zenon
<1>. QED
  BY <1>1, <1>5, <1>6, Zenon

\* A step keeps the types; the time it takes is a whole number of seconds.
LEMMA EndsTypes ==
    ASSUME Types, InOrder, RowsMade, NEW end, NEW v, Ends(end, v)
    PROVE  Types'
<1>1. verdict' \in Verdicts
  BY DEF Ends, Return, Stays, Honest, Verdicts
<1>2. elapsed' \in Nat
  <2>1. CASE end = "hang"
    <3>1. calls # <<>> /\ elapsed' = elapsed + Head(calls).secs
      BY <2>1 DEF Ends, Fault
    <3>2. Head(calls) \in Calls
      BY <3>1, CallUnderWay, Zenon
    <3>. QED
      BY <3>1, <3>2 DEF Calls, Types
  <2>2. CASE end = "outlive"
    BY <2>2, Zenon DEF Ends
  <2>3. CASE end \notin {"hang", "outlive"}
    BY <2>3 DEF Ends, Types
  <2>. QED
    BY <2>1, <2>2, <2>3
<1>3. UNCHANGED <<backupNode, outage>>
  BY Zenon DEF Ends
<1>. QED
  BY <1>1, <1>2, <1>3, Zenon DEF Types

\* A check that returns is the next of the list.
LEMMA EndsRows ==
    ASSUME Types, InOrder, RowsMade, NEW end, NEW v, Ends(end, v)
    PROVE  InOrder' /\ RowsMade'
<1>1. /\ todo # <<>> /\ column = "open" /\ column' = column /\ backupNode' = backupNode
      /\ Return(v) \/ Stays(end, v)
      /\ v \in Verdicts
  BY Zenon DEF Ends, Honest
<1>2. column' # "whole"
  BY <1>1
<1>3. CASE Return(v)
  <2>1. InOrder' /\ Passed' = Passed + 1 /\ List' = List
    BY <1>1, <1>3, ReturnOrder, Zenon
  <2>2. Head(todo) = todo[1] /\ todo[1] = List[Passed + 1] /\ Passed \in Nat
    BY <1>1, UnderWay, Zenon
  <2>3. /\ \A name : Done(name)' <=> Done(name) \/ name = todo[1].name
        /\ \A r \in rows' : r \in rows \/ (r.name = todo[1].name /\ r.verdict = v)
    BY <1>1, <1>3, <2>2, ReturnDone, Zenon
  <2>4. \A i : i \in 1..Passed' <=> i \in 1..Passed \/ i = Passed + 1
    BY <2>1, <2>2
  <2>5. ASSUME NEW r \in rows'
        PROVE  r.verdict \in Verdicts /\ \E i \in 1..Passed' : r.name = List'[i].name
    <3>1. CASE r \in rows
      <4>1. r.verdict \in Verdicts /\ \E i \in 1..Passed : r.name = List[i].name
        BY <3>1, Zenon DEF RowsMade
      <4>. QED
        BY <2>1, <2>4, <4>1, Zenon
    <3>2. CASE r.name = todo[1].name /\ r.verdict = v
      BY <1>1, <2>1, <2>2, <2>4, <3>2, Zenon
    <3>. QED
      BY <2>3, <3>1, <3>2, Zenon
  <2>6. ASSUME NEW i \in 1..Passed' PROVE Done(List[i].name)'
    <3>1. CASE i \in 1..Passed
      <4>1. Done(List[i].name)
        BY <3>1, Zenon DEF RowsMade
      <4>. QED
        BY <2>1, <2>3, <4>1, Zenon DEF Done
    <3>2. CASE i = Passed + 1
      <4>1. List'[i].name = todo[1].name
        BY <2>1, <2>2, <3>2, Zenon
      <4>. QED
        BY <2>3, <4>1, Zenon DEF Done
    <3>. QED
      BY <2>4, <3>1, <3>2, Zenon
  <2>. QED
    BY <1>2, <2>1, <2>5, <2>6, Zenon DEF RowsMade
<1>4. CASE Stays(end, v)
  <2>1. InOrder' /\ Passed' = Passed /\ List' = List
    BY <1>1, <1>4, StayOrder, Zenon
  <2>2. rows' = rows
    BY <1>4, Zenon DEF Stays
  <2>3. \A name : Done(name)' <=> Done(name)
    BY <2>2, Zenon DEF Done
  <2>. QED
    BY <1>2, <2>1, <2>2, <2>3, Zenon DEF RowsMade, Done
<1>. QED
  BY <1>1, <1>3, <1>4, Zenon

\* The check under way has no row, as a formula that also holds of the next state.
LEMMA UnderWayFresh ==
    Types /\ InOrder /\ RowsMade /\ todo # <<>> => ~ Done(todo[1].name)
BY UnderWay, Zenon

\* What a call did is seen in the row of its check, or the check goes on.
LEMMA EndsShown ==
    ASSUME Types, InOrder, RowsMade, Shown, NEW end, NEW v, Ends(end, v)
    PROVE  Shown'
<1>1. PICK c, n, new : c = todo[1] /\ n = c.name /\ new = [name |-> n, end |-> end]
  OBVIOUS
<1>2. new.name = n /\ new.end = end
  BY <1>1
<1>3. /\ todo # <<>> /\ Head(todo) = c /\ todo[1] = c /\ Sound(c) /\ ~ Done(n)
      /\ Return(v) \/ Stays(end, v)
      /\ faulty' = IF Fault(end) THEN faulty \union {new} ELSE faulty
      /\ Fault(end) => calls # <<>>
      /\ column # "ssh"
  <2>1. column = "open" /\ "open" # "ssh"
    BY Zenon DEF Ends
  <2>. QED
    BY <1>1, <2>1, UnderWay, Zenon DEF Ends
<1>4. /\ n = "services" /\ (Fault(end) \/ verdict # "level") => v # "level"
      /\ end = "fail" /\ v = "level" => n \in {"cap", "bk timer", "gc timer"}
      /\ end = "hang" /\ v = "level" => n = "cap"
      /\ end = "outlive" => v # "level"
      /\ Fault(end) /\ end \notin c.endsOn =>
            n = "services" \/ (n = "healthAgent" /\ end = "fail")
  BY <1>1, Zenon DEF Ends, Honest
<1>5. \A f \in faulty' : f \in faulty \/ (Fault(end) /\ f.name = n /\ f.end = end)
  BY <1>2, <1>3, Zenon
<1>6. /\ \A f \in faulty : Done(f.name) \/ f.name = n
      /\ \A f \in faulty, r \in rows :
            f.name = r.name /\ r.name # "cap" /\ r.verdict = "level" => Excused(f, r.name)
      /\ \A f \in faulty : f.name = n =>
            (f.name = "healthAgent" /\ f.end = "fail") \/ (f.name = "services" /\ verdict # "level")
  BY <1>1, <1>3, Zenon DEF Shown
<1>7. InOrder' /\ RowsMade' /\ Types'
  BY EndsRows, EndsTypes, Zenon
<1>8. CASE Return(v)
  <2>1. /\ \A name : Done(name)' <=> Done(name) \/ name = n
        /\ \A r \in rows' : r \in rows \/ (r.name = n /\ r.verdict = v)
    BY <1>1, <1>3, <1>8, ReturnDone, Zenon
  <2>2. \A f \in faulty' : Done(f.name)'
    BY <1>5, <1>6, <2>1, Zenon
  <2>3. ASSUME NEW f \in faulty', NEW r \in rows',
               f.name = r.name, r.name # "cap", r.verdict = "level"
        PROVE  Excused(f, r.name)
    <3>1. CASE f \in faulty /\ r \in rows
      BY <1>6, <2>3, <3>1, Zenon
    <3>2. CASE r \in rows /\ f.name = n
      BY <1>3, <2>3, <3>2, Zenon DEF Done
    <3>3. CASE f \in faulty /\ r.name = n /\ r.verdict = v
      BY <1>4, <1>6, <2>3, <3>3 DEF Excused
    <3>4. CASE Fault(end) /\ f.end = end /\ r.name = n /\ r.verdict = v
      BY <1>4, <2>3, <3>4 DEF Excused, Fault
    <3>. QED
      BY <1>5, <2>1, <3>1, <3>2, <3>3, <3>4, Zenon
  <2>4. ASSUME todo' # <<>>, NEW f \in faulty', f.name = todo'[1].name PROVE FALSE
    <3>0. (Types /\ InOrder /\ RowsMade /\ todo # <<>> => ~ Done(todo[1].name))'
      BY UnderWayFresh, PTL
    <3>1. ~ Done(todo[1].name)'
      BY <1>7, <2>4, <3>0
    <3>. QED
      BY <2>2, <2>4, <3>1, Zenon DEF Done
  <2>. QED
    BY <2>2, <2>3, <2>4, Zenon DEF Shown
<1>9. CASE Stays(end, v)
  <2>1. todo' = todo /\ rows' = rows /\ verdict' = v /\ end \notin c.endsOn
    BY <1>3, <1>9, Zenon DEF Stays
  <2>2. \A name : Done(name)' <=> Done(name)
    BY <2>1, Zenon DEF Done
  <2>3. \A f \in faulty' : Done(f.name)' \/ f.name = n
    BY <1>5, <1>6, <2>2, Zenon
  <2>4. ASSUME NEW f \in faulty', NEW r \in rows',
               f.name = r.name, r.name # "cap", r.verdict = "level"
        PROVE  Excused(f, r.name)
    <3>1. CASE f \in faulty
      BY <1>6, <2>1, <2>4, <3>1, Zenon
    <3>2. CASE f.name = n
      BY <1>3, <2>1, <2>4, <3>2, Zenon DEF Done
    <3>. QED
      BY <1>5, <3>1, <3>2, Zenon
  <2>5. ASSUME NEW f \in faulty', f.name = n
        PROVE  (f.name = "healthAgent" /\ f.end = "fail") \/ (f.name = "services" /\ v # "level")
    <3>1. CASE f \in faulty
      BY <1>4, <1>6, <2>5, <3>1, Zenon
    <3>2. CASE Fault(end) /\ f.end = end
      BY <1>4, <2>1, <2>5, <3>2, Zenon
    <3>. QED
      BY <1>5, <3>1, <3>2, Zenon
  <2>6. todo' # <<>> /\ todo'[1].name = n
    BY <1>1, <1>3, <2>1, Zenon
  <2>7. \A f \in faulty' : Done(f.name)' \/ (todo' # <<>> /\ f.name = todo'[1].name)
    BY <2>3, <2>6, Zenon
  <2>8. \A f \in faulty' : todo' # <<>> /\ f.name = todo'[1].name =>
          \/ f.name = "healthAgent" /\ f.end = "fail"
          \/ f.name = "services" /\ verdict' # "level"
    BY <2>1, <2>5, <2>6, Zenon
  <2>. QED
    BY <2>4, <2>7, <2>8, Zenon DEF Shown
<1>. QED
  BY <1>3, <1>8, <1>9

-----------------------------------------------------------------------------
(* The time. *)

\* The shares, name by name.
LEMMA ShareValues ==
    /\ \A name \in {"metrics", "storage", "capacity"} :
          Share(name) = IF outage \in {"storage", "gcs", "redis"} THEN 2 ELSE 0
    /\ Share("redis") = IF outage = "redis" THEN 3 ELSE 0
    /\ Share("cap") = IF outage = "systemd" THEN 3 ELSE 0
    /\ Share("services") = IF outage = "systemd" THEN 10 ELSE 0
    /\ Share("healthAgent") = IF outage = "docker" THEN 5 ELSE 0
    /\ \A name : Share(name) \in Nat
    /\ \A name : name \notin {"metrics", "cap", "storage", "capacity", "services",
                              "healthAgent", "redis"} => Share(name) = 0
<1>1. \A name \in {"metrics", "storage", "capacity"} :
          Share(name) = IF outage \in {"storage", "gcs", "redis"} THEN 2 ELSE 0
  BY DEF Share
<1>2. Share("redis") = IF outage = "redis" THEN 3 ELSE 0
  BY DEF Share
<1>3. Share("cap") = IF outage = "systemd" THEN 3 ELSE 0
  BY DEF Share
<1>4. Share("services") = IF outage = "systemd" THEN 10 ELSE 0
  BY DEF Share
<1>5. Share("healthAgent") = IF outage = "docker" THEN 5 ELSE 0
  BY DEF Share
<1>6. \A name : Share(name) \in Nat
  BY DEF Share
<1>7. \A name : name \notin {"metrics", "cap", "storage", "capacity", "services",
                             "healthAgent", "redis"} => Share(name) = 0
  BY DEF Share
<1>. QED
  BY <1>1, <1>2, <1>3, <1>4, <1>5, <1>6, <1>7

\* A call that hangs takes no more than the share of its check.
LEMMA CallTime ==
    ASSUME Types, InOrder, RowsMade, Spared, calls # <<>>, Affected(Head(calls)),
           Head(calls).child # "sudo"
    PROVE  /\ Head(calls).secs \in Nat /\ Head(calls).secs <= Share(todo[1].name)
           /\ todo[1].name = "services" => Head(calls).secs = 5 /\ outage = "systemd"
<1>1. PICK c, its, k : c = todo[1] /\ its = c.calls /\ k = Head(calls)
  OBVIOUS
<1>2. PICK i \in 1..Len(its) : k = its[i]
  BY <1>1, CallUnderWay, Zenon
<1>3. /\ Sound(c) /\ k \in Calls /\ (c.name \in OnBackupNode => backupNode)
      /\ Affected(k) /\ k.child # "sudo"
  <2>1. todo # <<>>
    BY CallUnderWay, Zenon
  <2>. QED
    BY <1>1, <2>1, CallUnderWay, UnderWay, Zenon
<1>4. PICK n, needs, secs : n = c.name /\ needs = k.needs /\ secs = k.secs
  OBVIOUS
<1>5. Asked(n, needs, secs, k.child)
  <2>1. \A j \in 1..Len(c.calls) :
          Asked(c.name, c.calls[j].needs, c.calls[j].secs, c.calls[j].child)
    BY <1>3, Zenon DEF Sound
  <2>. QED
    BY <1>1, <1>2, <1>4, <2>1, Zenon
<1>6. secs \in Nat
  BY <1>3, <1>4 DEF Calls
<1>7. needs = outage \/ (needs = "storage" /\ outage \in {"redis", "gcs"})
  BY <1>3, <1>4, Zenon DEF Affected
<1>8. n \in OnBackupNode => outage # "systemd"
  BY <1>3, <1>4, Zenon DEF Spared
<1>9. secs <= Share(n) /\ (n = "services" => secs = 5 /\ outage = "systemd")
  <2>1. CASE n \in {"metrics", "storage", "capacity"} /\ needs = "storage" /\ secs = 2
    BY <1>7, <2>1, ShareValues
  <2>2. CASE n = "cap" /\ needs = "systemd" /\ secs = 3
    BY <1>7, <2>2, ShareValues
  <2>3. CASE n = "services" /\ needs = "systemd" /\ secs = 5 /\ k.child = "own"
    BY <1>7, <2>3, ShareValues
  <2>4. CASE n = "healthAgent" /\ needs = "docker" /\ secs = 5
    BY <1>7, <2>4, ShareValues
  <2>5. CASE n = "redis" /\ needs = "redis" /\ secs = 3
    BY <1>7, <2>5, ShareValues
  <2>6. CASE n \in OnBackupNode /\ needs = "systemd"
    BY <1>7, <1>8, <2>6
  <2>7. CASE k.child = "sudo"
    BY <1>3, <2>7
  <2>. QED
    BY <1>5, <2>1, <2>2, <2>3, <2>4, <2>5, <2>6, <2>7, Zenon DEF Asked
<1>. QED
  BY <1>1, <1>4, <1>6, <1>9, Zenon

\* A check that returns has its share counted.
LEMMA SpentGrows ==
    ASSUME NEW n, ~ Done(n), outage' = outage,
           \A name : Done(name)' <=> Done(name) \/ name = n
    PROVE  Spent \in Nat /\ Spent' \in Nat /\ Spent + Share(n) <= Spent'
<1>1. /\ \A name : Share(name)' = Share(name)
      /\ \A name : Share(name) \in Nat
  BY ShareValues DEF Share
<1>2. \A name : /\ Taken(name) = IF Done(name) THEN Share(name) ELSE 0
                /\ Taken(name)' = IF Done(name) \/ name = n THEN Share(name) ELSE 0
  BY <1>1, Zenon DEF Taken
<1>3. /\ \A name : Taken(name) \in Nat /\ Taken(name)' \in Nat /\ Taken(name) <= Taken(name)'
      /\ Taken(n) = 0 /\ Taken(n)' = Share(n)
  <2>1. ASSUME NEW name
        PROVE  Taken(name) \in Nat /\ Taken(name)' \in Nat /\ Taken(name) <= Taken(name)'
    BY <1>1, <1>2
  <2>2. Taken(n) = 0 /\ Taken(n)' = Share(n)
    BY <1>2, Zenon
  <2>. QED
    BY <2>1, <2>2
<1>4. PICK a, b, d, e, f, g, h :
        /\ a = Taken("metrics") /\ b = Taken("cap") /\ d = Taken("storage")
        /\ e = Taken("capacity") /\ f = Taken("services") /\ g = Taken("healthAgent")
        /\ h = Taken("redis")
  OBVIOUS
<1>5. PICK a1, b1, d1, e1, f1, g1, h1 :
        /\ a1 = Taken("metrics")' /\ b1 = Taken("cap")' /\ d1 = Taken("storage")'
        /\ e1 = Taken("capacity")' /\ f1 = Taken("services")' /\ g1 = Taken("healthAgent")'
        /\ h1 = Taken("redis")'
  OBVIOUS
<1>6. /\ a \in Nat /\ b \in Nat /\ d \in Nat /\ e \in Nat /\ f \in Nat /\ g \in Nat /\ h \in Nat
      /\ a1 \in Nat /\ b1 \in Nat /\ d1 \in Nat /\ e1 \in Nat /\ f1 \in Nat /\ g1 \in Nat
      /\ h1 \in Nat
      /\ a <= a1 /\ b <= b1 /\ d <= d1 /\ e <= e1 /\ f <= f1 /\ g <= g1 /\ h <= h1
  BY <1>3, <1>4, <1>5, Zenon
<1>7. Spent = a + b + d + e + f + g + h /\ Spent' = a1 + b1 + d1 + e1 + f1 + g1 + h1
  BY <1>4, <1>5, Zenon DEF Spent
<1>8. PICK s \in Nat : s = Share(n)
  BY <1>1, Zenon
<1>9. \/ a = 0 /\ a1 = s
      \/ b = 0 /\ b1 = s
      \/ d = 0 /\ d1 = s
      \/ e = 0 /\ e1 = s
      \/ f = 0 /\ f1 = s
      \/ g = 0 /\ g1 = s
      \/ h = 0 /\ h1 = s
      \/ s = 0
  <2>1. \/ n = "metrics" \/ n = "cap" \/ n = "storage" \/ n = "capacity" \/ n = "services"
        \/ n = "healthAgent" \/ n = "redis" \/ s = 0
    BY <1>8, ShareValues
  <2>. QED
    BY <1>3, <1>4, <1>5, <1>8, <2>1, Zenon
<1>10. a + b + d + e + f + g + h + s <= a1 + b1 + d1 + e1 + f1 + g1 + h1
  BY <1>6, <1>8, <1>9
<1>. QED
  BY <1>6, <1>7, <1>8, <1>10

\* The calls of services that are over took five seconds each at most.
LEMMA SoFarValues ==
    ASSUME Types, InOrder, RowsMade
    PROVE  SoFar \in Nat /\ SoFar + Taken("services") <= Share("services")
<1>1. Share("services") \in Nat /\ Taken("services") \in {0, Share("services")}
  BY ShareValues DEF Taken
<1>2. CASE todo # <<>> /\ outage = "systemd" /\ todo[1].name = "services"
  <2>1. SoFar = 5 * (2 - Len(calls))
    BY <1>2, Zenon DEF SoFar
  <2>2. Len(calls) \in {0, 1, 2}
    <3>1. calls = <<>> => Len(calls) = 0
      BY EmptySeq, Zenon
    <3>2. calls # <<>> => Len(calls) \in {1, 2}
      BY CallUnderWay, Zenon
    <3>. QED
      BY <3>1, <3>2
  <2>3. Taken("services") = 0
    <3>1. ~ Done("services")
      BY <1>2, UnderWay, Zenon
    <3>. QED
      BY <3>1, Zenon DEF Taken
  <2>4. Share("services") = 10
    BY <1>2, ShareValues
  <2>5. PICK k : k = Len(calls)
    OBVIOUS
  <2>6. 5 * (2 - k) \in Nat /\ 5 * (2 - k) + 0 <= 10
    BY <2>2, <2>5
  <2>. QED
    BY <2>1, <2>3, <2>4, <2>5, <2>6, Zenon
<1>3. CASE ~ (todo # <<>> /\ outage = "systemd" /\ todo[1].name = "services")
  <2>1. SoFar = 0
    BY <1>3, Zenon DEF SoFar
  <2>. QED
    BY <1>1, <2>1
<1>. QED
  BY <1>2, <1>3

\* The same, as a formula that also holds of the next state.
LEMMA SoFarNat == Types /\ InOrder /\ RowsMade => SoFar \in Nat
BY SoFarValues, Zenon

\* A child that has outlived its kill stays in the history.
LEMMA EndsSpared ==
    ASSUME NEW end, NEW v, Ends(end, v)
    PROVE  Spared' => Spared /\ end # "outlive"
<1>1. PICK new : new = [name |-> todo[1].name, end |-> end]
  OBVIOUS
<1>2. new.end = end
  BY <1>1
<1>3. /\ faulty' = IF Fault(end) THEN faulty \union {new} ELSE faulty
      /\ UNCHANGED <<backupNode, outage>>
  BY <1>1, Zenon DEF Ends
<1>4. Fault("outlive")
  BY DEF Fault
<1>5. \A f \in faulty : f \in faulty'
  BY <1>3, Zenon
<1>6. end = "outlive" => new \in faulty'
  BY <1>3, <1>4, Zenon
<1>. QED
  BY <1>2, <1>3, <1>5, <1>6, Zenon DEF Spared, Outlasted

\* The time spent is accounted for.
LEMMA EndsInTime ==
    ASSUME Types, InOrder, RowsMade, InTime, NEW end, NEW v, Ends(end, v)
    PROVE  InTime'
<1>. SUFFICES ASSUME Spared, end # "outlive" PROVE elapsed' <= (Spent + SoFar)'
  <2>1. Spared' => Spared /\ end # "outlive"
    BY EndsSpared, Zenon
  <2>. QED
    BY <2>1, Zenon DEF InTime
<1>0. end # "hang" => end \notin {"hang", "outlive"}
  OBVIOUS
<1>1. PICK n, secs : n = todo[1].name /\ secs = Head(calls).secs
  OBVIOUS
<1>2. /\ todo # <<>> /\ Head(todo) = todo[1] /\ ~ Done(n) /\ outage' = outage
      /\ Return(v) \/ Stays(end, v)
      /\ Fault("hang") /\ (Fault(end) => calls # <<>>)
      /\ end # "hang" => elapsed' = elapsed
      /\ end = "hang" => /\ Affected(Head(calls)) /\ Head(calls).child # "sudo"
                         /\ elapsed' = elapsed + secs
  BY <1>0, <1>1, UnderWay, Zenon DEF Ends, Fault
<1>3. elapsed \in Nat /\ elapsed <= Spent + SoFar
  BY Zenon DEF InTime, Types
<1>4. Share(n) \in Nat
  BY ShareValues
<1>5. PICK d \in Nat : /\ elapsed' = elapsed + d
                       /\ d <= Share(n) /\ (n = "services" => d <= 5)
                       /\ end # "hang" => d = 0
                       /\ d # 0 => calls # <<>> /\ (n = "services" => outage = "systemd")
  <2>1. CASE end = "hang"
    <3>1. /\ calls # <<>> /\ Affected(Head(calls)) /\ Head(calls).child # "sudo"
          /\ elapsed' = elapsed + secs
      BY <1>2, <2>1, Zenon
    <3>2. secs \in Nat /\ secs <= Share(n) /\ (n = "services" => secs = 5 /\ outage = "systemd")
      BY <1>1, <3>1, CallTime, Zenon
    <3>. QED
      BY <2>1, <3>1, <3>2
  <2>2. CASE end # "hang"
    BY <1>2, <1>3, <1>4, <2>2
  <2>. QED
    BY <2>1, <2>2
<1>6. PICK t \in Nat :
        /\ t = SoFar
        /\ t = IF outage = "systemd" /\ n = "services" THEN 5 * (2 - Len(calls)) ELSE 0
  <2>1. SoFar \in Nat
    BY SoFarValues, Zenon
  <2>2. SoFar = IF outage = "systemd" /\ n = "services" THEN 5 * (2 - Len(calls)) ELSE 0
    BY <1>1, <1>2, Zenon DEF SoFar
  <2>. QED
    BY <2>1, <2>2, Zenon
<1>7. PICK t1 \in Nat : t1 = SoFar'
  <2>1. (Types /\ InOrder /\ RowsMade => SoFar \in Nat)'
    BY SoFarNat, PTL
  <2>2. Types' /\ InOrder' /\ RowsMade'
    BY EndsTypes, EndsRows, Zenon
  <2>. QED
    BY <2>1, <2>2
<1>8. n = "services" => calls # <<>>
  <2>1. ASSUME n = "services" PROVE todo[1].calls # <<>>
    <3>1. Sound(todo[1])
      BY <1>2, UnderWay, Zenon
    <3>2. Len(todo[1].calls) = 2
      BY <1>1, <2>1, <3>1, Zenon DEF Sound
    <3>3. todo[1].calls = <<>> => Len(todo[1].calls) = 0
      BY EmptySeq, Zenon
    <3>4. 2 # 0
      OBVIOUS
    <3>. QED
      BY <3>2, <3>3, <3>4, Zenon
  <2>. QED
    BY <1>2, <2>1, Zenon DEF InOrder
<1>9. calls # <<>> => Len(calls) \in {1, 2} /\ Len(Tail(calls)) = Len(calls) - 1
  BY CallUnderWay, Zenon
<1>10. (Spent + SoFar)' = Spent' + t1
  BY <1>7
<1>11. CASE Return(v)
  <2>1. \A name : Done(name)' <=> Done(name) \/ name = n
    BY <1>1, <1>2, <1>11, ReturnDone, Zenon
  <2>2. Spent \in Nat /\ Spent' \in Nat /\ Spent + Share(n) <= Spent'
    BY <1>2, <2>1, SpentGrows, Zenon
  <2>3. t + d <= Share(n)
    <3>1. CASE outage = "systemd" /\ n = "services"
      <4>1. Share(n) = 10 /\ d <= 5
        BY <1>5, <3>1, ShareValues
      <4>2. t = 5 * (2 - Len(calls)) /\ Len(calls) \in {1, 2}
        BY <1>6, <1>8, <1>9, <3>1, Zenon
      <4>. QED
        BY <4>1, <4>2
    <3>2. CASE ~ (outage = "systemd" /\ n = "services")
      BY <1>4, <1>5, <1>6, <3>2
    <3>. QED
      BY <3>1, <3>2
  <2>. QED
    BY <1>3, <1>4, <1>5, <1>6, <1>10, <2>2, <2>3
<1>12. CASE Stays(end, v)
  <2>1. /\ calls # <<>> /\ Len(calls) # 1 /\ end \notin todo[1].endsOn
        /\ calls' = Tail(calls) /\ rows' = rows /\ todo' = todo
    BY <1>2, <1>12, Zenon DEF Stays
  <2>2. Spent' = Spent
    BY <1>2, <2>1, Zenon DEF Spent, Taken, Done, Share
  <2>3. Spent \in Nat
    <3>1. \A name : Taken(name) \in Nat
      BY ShareValues DEF Taken
    <3>. QED
      BY <3>1 DEF Spent
  <2>4. Len(calls) = 2 /\ Len(calls') = 1
    BY <1>9, <2>1
  <2>5. t1 = IF outage = "systemd" /\ n = "services" THEN 5 * (2 - Len(calls')) ELSE 0
    BY <1>1, <1>2, <1>7, <2>1, Zenon DEF SoFar
  <2>6. d # 0 => n = "services" /\ outage = "systemd"
    <3>1. ASSUME end = "hang" PROVE n = "services"
      <4>1. Fault(end) /\ end # "fail"
        BY <3>1 DEF Fault
      <4>. QED
        BY <1>1, <2>1, <4>1, Zenon DEF Ends, Honest
    <3>. QED
      BY <1>5, <3>1, Zenon
  <2>7. d <= t1 /\ t = 0
    BY <1>5, <1>6, <2>4, <2>5, <2>6
  <2>. QED
    BY <1>3, <1>5, <1>6, <1>10, <2>2, <2>3, <2>7
<1>. QED
  BY <1>2, <1>11, <1>12

\* In one outage the checks hang for 13 seconds at most: those of services and the
\* cache cap, while systemd does not answer.
LEMMA Within13 ==
    ASSUME Types, InOrder, RowsMade, InTime, Spared
    PROVE  elapsed <= 13
<1>1. \A name : Taken(name) \in Nat /\ Taken(name) <= Share(name) /\ Share(name) \in Nat
  BY ShareValues DEF Taken
<1>2. SoFar \in Nat /\ SoFar + Taken("services") <= Share("services")
  BY SoFarValues, Zenon
<1>3. PICK a, b, d, e, f, g, h, t \in Nat :
        /\ a = Taken("metrics") /\ b = Taken("cap") /\ d = Taken("storage")
        /\ e = Taken("capacity") /\ f = Taken("services") /\ g = Taken("healthAgent")
        /\ h = Taken("redis") /\ t = SoFar
  BY <1>1, <1>2, Zenon
<1>4. /\ a <= Share("metrics") /\ b <= Share("cap") /\ d <= Share("storage")
      /\ e <= Share("capacity") /\ t + f <= Share("services") /\ g <= Share("healthAgent")
      /\ h <= Share("redis")
  BY <1>1, <1>2, <1>3, Zenon
<1>5. Spent + SoFar = a + b + d + e + f + g + h + t
  BY <1>3, Zenon DEF Spent
<1>6. elapsed <= a + b + d + e + f + g + h + t /\ elapsed \in Nat
  BY <1>5, Zenon DEF InTime, Types
<1>7. a + b + d + e + (t + f) + g + h <= 13
  BY <1>4, ShareValues
<1>. QED
  BY <1>3, <1>6, <1>7

-----------------------------------------------------------------------------
(* The theorems. *)

\* Before the first check nothing is over, lost or spent.
LEMMA InitInv == Init => Inv
<1>. SUFFICES ASSUME Init PROVE Inv
  OBVIOUS
<1>1. PICK L : L = CheckList(backupNode)
  OBVIOUS
<1>2. /\ backupNode \in BOOLEAN /\ outage \in Services \union {"none"}
      /\ todo = L /\ calls = Head(L).calls /\ verdict = "level" /\ elapsed = 0
      /\ rows = {} /\ faulty = {} /\ column = "open"
  BY <1>1, Zenon DEF Init
<1>3. L \in Seq(All) /\ L # <<>> /\ List = L
  BY <1>1, <1>2, ListFacts, Zenon DEF List
<1>4. Types
  BY <1>2 DEF Types, Verdicts
<1>5. Rest(todo, List, All)
  BY <1>2, <1>3, RestWhole, Zenon
<1>6. PICK c, its : c = todo[1] /\ its = c.calls
  OBVIOUS
<1>7. c \in All /\ c = Head(L) /\ Len(L) \in Nat
  BY <1>2, <1>3, <1>6
<1>8. calls = its /\ its \in Seq(Calls)
  BY <1>2, <1>6, <1>7, AllSound DEF Sound
<1>9. Rest(its, its, Calls)
  BY <1>8, RestWhole, Zenon
<1>10. InOrder
  BY <1>2, <1>3, <1>5, <1>6, <1>8, <1>9, Zenon DEF InOrder
<1>11. Passed = 0
  BY <1>2, <1>3, <1>7 DEF Passed
<1>12. RowsMade
  BY <1>2, <1>11 DEF RowsMade
<1>13. Shown
  BY <1>2 DEF Shown
<1>14. InTime
  <2>1. Spent \in Nat
    <3>1. \A name : Taken(name) = 0
      BY <1>2, Zenon DEF Taken, Done
    <3>. QED
      BY <3>1 DEF Spent
  <2>2. SoFar \in Nat
    BY <1>4, <1>10, <1>12, SoFarValues, Zenon
  <2>3. 0 <= Spent + SoFar
    BY <2>1, <2>2
  <2>. QED
    BY <1>2, <2>3, Zenon DEF InTime
<1>15. GivenUp
  BY <1>2 DEF GivenUp
<1>. QED
  BY <1>4, <1>10, <1>12, <1>13, <1>14, <1>15, Zenon DEF Inv

\* run_local's end changes no row.
LEMMA DiesInv == Inv /\ Dies => Inv'
<1>. SUFFICES ASSUME Inv, Dies PROVE Inv'
  OBVIOUS
<1>1. Types /\ InOrder /\ RowsMade /\ Shown
  BY Zenon DEF Inv
<1>2. PICK n, new : n = todo[1].name /\ new = [name |-> n, end |-> "outlive"]
  OBVIOUS
<1>3. new.name = n /\ new.end = "outlive"
  BY <1>2
<1>4. /\ todo # <<>> /\ UNCHANGED <<backupNode, outage, todo, calls, verdict, rows>>
      /\ elapsed' \in Nat /\ column' = "ssh" /\ faulty' = faulty \union {new}
  BY <1>2, Zenon DEF Dies
<1>5. ~ Done(n)
  BY <1>1, <1>2, <1>4, UnderWay, Zenon
<1>6. Types'
  BY <1>1, <1>4, Zenon DEF Types
<1>7. List' = List /\ Passed' = Passed /\ \A name : Done(name)' <=> Done(name)
  BY <1>4, Zenon DEF List, Passed, Done
<1>8. InOrder'
  BY <1>1, <1>4, <1>7, Zenon DEF InOrder
<1>9. RowsMade'
  <2>1. column' # "whole"
    BY <1>4
  <2>. QED
    BY <1>1, <1>4, <1>7, <2>1, Zenon DEF RowsMade, Done
<1>10. Shown'
  <2>1. \A f \in faulty' : f \in faulty \/ f = new
    BY <1>4, Zenon
  <2>2. \A f \in faulty' : Done(f.name)' \/ (todo' # <<>> /\ f.name = todo'[1].name)
    BY <1>1, <1>2, <1>3, <1>4, <1>7, <2>1, Zenon DEF Shown
  <2>3. ASSUME NEW f \in faulty', NEW r \in rows',
               f.name = r.name, r.name # "cap", r.verdict = "level"
        PROVE  Excused(f, r.name)
    <3>1. CASE f \in faulty
      BY <1>1, <1>4, <2>3, <3>1, Zenon DEF Shown
    <3>2. CASE f = new
      BY <1>3, <1>4, <1>5, <2>3, <3>2, Zenon DEF Done
    <3>. QED
      BY <2>1, <3>1, <3>2, Zenon
  <2>. QED
    BY <1>4, <2>2, <2>3, Zenon DEF Shown
<1>11. Outlasted'
  BY <1>3, <1>4, Zenon DEF Outlasted
<1>. QED
  BY <1>6, <1>8, <1>9, <1>10, <1>11, Zenon DEF Inv, InTime, Spared, GivenUp

\* Every step keeps the six parts of the invariant.
LEMMA NextInv == Inv /\ [Next]_vars => Inv'
<1>. SUFFICES ASSUME Inv, [Next]_vars PROVE Inv'
  OBVIOUS
<1>1. Types /\ InOrder /\ RowsMade /\ Shown /\ InTime /\ GivenUp
  BY Zenon DEF Inv
<1>2. CASE Quiet
  <2>1. /\ UNCHANGED <<backupNode, outage, todo, calls, verdict, elapsed, rows, faulty>>
        /\ column' = "whole" => column = "whole" \/ todo = <<>>
        /\ column' # "ssh" => column # "ssh"
        /\ column' = "ssh" => column = "ssh" \/ elapsed >= SshTimeout
    BY <1>2, Zenon DEF Quiet
  <2>2. Types'
    BY <1>1, <2>1, Zenon DEF Types
  <2>3. List' = List /\ Passed' = Passed
    BY <2>1, Zenon DEF List, Passed
  <2>4. InOrder'
    BY <1>1, <2>1, <2>3, Zenon DEF InOrder
  <2>5. RowsMade'
    BY <1>1, <2>1, <2>3, Zenon DEF RowsMade, Done
  <2>6. Shown'
    BY <1>1, <2>1, Zenon DEF Shown, Done
  <2>7. Outlasted' <=> Outlasted
    BY <2>1, Zenon DEF Outlasted
  <2>8. InTime'
    <3>1. Spent' = Spent
      BY <2>1, Zenon DEF Spent, Taken, Done, Share
    <3>2. SoFar' = SoFar
      BY <2>1, Zenon DEF SoFar
    <3>3. elapsed' = elapsed /\ (Spared' <=> Spared)
      BY <2>1, <2>7, Zenon DEF Spared
    <3>. QED
      BY <1>1, <3>1, <3>2, <3>3, Zenon DEF InTime
  <2>9. GivenUp'
    BY <1>1, <2>1, <2>7, Zenon DEF GivenUp
  <2>. QED
    BY <2>2, <2>4, <2>5, <2>6, <2>8, <2>9, Zenon DEF Inv
<1>3. CASE \E end : \E v : Ends(end, v)
  <2>1. PICK end, v : Ends(end, v)
    BY <1>3, Zenon
  <2>2. GivenUp'
    <3>1. column = "open" /\ column' = column /\ "open" # "ssh"
      BY <2>1, Zenon DEF Ends
    <3>. QED
      BY <3>1, Zenon DEF GivenUp
  <2>. QED
    BY <1>1, <2>1, <2>2, EndsTypes, EndsRows, EndsShown, EndsInTime, Zenon DEF Inv
<1>. QED
  BY <1>1, <1>2, <1>3, StepKinds, DiesInv, Zenon

\* The invariant holds in every run.
THEOREM InvCorrect == Spec => []Inv
BY InitInv, NextInv, PTL DEF Spec

\* A row for every check, whatever the checks met with, once the result is there.
THEOREM TypeCorrect == Spec => []TypeOK
<1>1. Inv => TypeOK
  <2>. SUFFICES ASSUME Inv PROVE TypeOK
    OBVIOUS
  <2>1. Types /\ InOrder /\ RowsMade
    BY Zenon DEF Inv
  <2>2. PICK L : L = List
    OBVIOUS
  <2>3. L \in Seq(All) /\ L = CheckList(backupNode)
    BY <2>1, <2>2, ListFacts DEF Types, List
  <2>4. DOMAIN L = 1..Len(L)
    BY <2>3
  <2>5. Names = {L[i].name : i \in 1..Len(L)}
    BY <2>3, <2>4, Zenon DEF Names, ToSet
  <2>6. Passed \in Int /\ Passed <= Len(L) /\ Len(L) \in Nat /\ (todo = <<>> => Passed = Len(L))
    <3>1. Rest(todo, L, All)
      BY <2>1, <2>2, Zenon DEF InOrder
    <3>2. Passed = Len(L) - Len(todo)
      BY <2>2, Zenon DEF Passed
    <3>3. todo = <<>> => Len(todo) = 0
      BY EmptySeq, Zenon
    <3>. QED
      BY <2>3, <3>1, <3>2, <3>3 DEF Rest
  <2>7. \A r \in rows : r.verdict \in Verdicts /\ \E i \in 1..Passed : r.name = L[i].name
    BY <2>1, <2>2, Zenon DEF RowsMade
  <2>8. \A r \in rows : r.name \in Names
    <3>1. \A i \in 1..Passed : i \in 1..Len(L)
      BY <2>6
    <3>. QED
      BY <2>5, <2>7, <3>1, Zenon
  <2>9. ASSUME column = "whole" PROVE {r.name : r \in rows} = Names
    <3>1. Passed = Len(L)
      BY <2>1, <2>6, <2>9, Zenon DEF RowsMade
    <3>2. \A i \in 1..Len(L) : \E r \in rows : r.name = L[i].name
      BY <2>1, <2>2, <3>1, Zenon DEF RowsMade, Done
    <3>. QED
      BY <2>5, <2>8, <3>2, Zenon
  <2>. QED
    BY <2>7, <2>8, <2>9, Zenon DEF TypeOK, Verdicts
<1>. QED
  BY <1>1, InvCorrect, PTL

\* No check that met with a fault returns what a healthy service would have made it
\* return, except for the show of a timer and docker without sudo.
THEOREM FaultShownCorrect == Spec => []FaultShown
<1>1. Inv => FaultShown
  BY Zenon DEF Inv, Shown, Excused, FaultShown
<1>. QED
  BY <1>1, InvCorrect, PTL

\* With any timeout of fetch_remote of 14 seconds or more, and however long a child
\* goes on after its kill, a node's rows are lost only if one does, or on the backup
\* node while systemd does not answer.
THEOREM LostOnlyIfOutlivedCorrect ==
    ASSUME SshTimeout > 13
    PROVE  Spec => []LostOnlyIfOutlived
<1>1. Inv => LostOnlyIfOutlived
  <2>. SUFFICES ASSUME Inv, column = "ssh" \/ elapsed >= SshTimeout, Spared PROVE FALSE
    BY Zenon DEF LostOnlyIfOutlived, Spared, Outlasted
  <2>1. Types /\ InOrder /\ RowsMade /\ InTime /\ GivenUp
    BY Zenon DEF Inv
  <2>2. elapsed >= SshTimeout
    BY <2>1, Zenon DEF GivenUp, Spared
  <2>3. elapsed <= 13 /\ elapsed \in Nat
    BY <2>1, Within13, Zenon DEF Types
  <2>. QED
    BY <2>2, <2>3
<1>. QED
  BY <1>1, InvCorrect, PTL

=============================================================================
