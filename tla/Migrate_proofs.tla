---------------------------- MODULE Migrate_proofs ----------------------------
(***************************************************************************)
(* Proofs about Migrate and Cleanup, for any number of nodes and files,    *)
(* of the user's changes and of attempts.                                  *)
(***************************************************************************)
EXTENDS Cleanup, TLAPS

Files   == [mtime : Nat, writes : SUBSET Nat]
Homes   == {"/home", "/storage"}
Phases  == {"ended", "who", "install", "rsync", "chown", "usermod", "verify"}
Ends    == {"nothing", "already migrated?", "active session", "already exists",
            "delete and retry", "user is busy", "complete", "verification failed", "error"}
Scripts == [pc : Phases, node : Nodes, attempt : Nat, told : Ends]
Rsyncs  == [pc : {"none", "list", "copy", "over"}, todo : SUBSET Places,
            ok : BOOLEAN, lost : BOOLEAN]

Types ==
    /\ home \in [Nodes -> [Places -> Files]]
    /\ seen \in [Nodes -> [Places -> Files]]
    /\ store \in [Places -> Files]
    /\ exists \in BOOLEAN
    /\ passwd \in [Nodes -> Homes]
    /\ session \in [Nodes -> Homes \union {"none"}]
    /\ clock \in Nat
    /\ script \in Scripts
    /\ rsync \in [Nodes -> Rsyncs]
    /\ gone \in [Places -> SUBSET Nat]

\* A file's mtime is the last of its writes.
Dated(file, now) ==
    \/ file = Absent
    \/ /\ file.mtime \in file.writes /\ file.mtime <= now
       /\ \A w \in file.writes : w <= file.mtime

Dates ==
    /\ \A t \in Nodes : \A p \in Places : /\ Dated(home[t][p], clock)
                                          /\ Dated(seen[t][p], clock)
    /\ \A p \in Places : Dated(store[p], clock)

\* What the script saw of a home is still there or has been deleted.
Ages == \A t \in Nodes : \A p \in PlacesOf(t) : Kept(p, seen[t][p], home[t][p])

\* An rsync works through its own places, and has failed for a script that lost it.
Lists ==
    \A t \in Nodes : /\ rsync[t].todo \subseteq PlacesOf(t)
                     /\ rsync[t].pc = "over" => rsync[t].todo = {}
                     /\ rsync[t].lost => ~ rsync[t].ok

Moved    == \E t \in Nodes : passwd[t] = "/storage"
SomeCopy == \E t \in Nodes : Copying(t)

\* tpu0's entry moves first, in the script's last steps, when no rsync is left,
\* and nobody lives in the new home before.
Order ==
    /\ Moved => passwd[0] = "/storage"
    /\ (\E t \in Nodes : session[t] = "/storage") => Moved
    /\ script.pc \in {"who", "install", "rsync", "chown"} => ~ Moved
    /\ script.pc = "usermod" /\ script.node # 0 => Moved
    /\ SomeCopy => ~ Moved /\ script.pc \notin {"chown", "usermod", "verify"}
    /\ script.told = "delete and retry" => script.pc = "ended" /\ ~ Moved

\* A new home that does not exist has no files and no rsync writes to it.
Existence ==
    /\ SomeCopy => exists
    /\ \A p \in Places : store[p] # Absent => exists

\* What node t had for p, as the script saw it, has been delivered, by t or by
\* another node that has the place too.
Delivered(t, p) ==
    /\ \E u \in Origins(p) : Kept(p, seen[u][p], store[p])
    /\ gone[p] = {} /\ seen[t][p] # Absent => store[p] # Absent

\* What an rsync of this attempt is through with is delivered.
Progress ==
    script.pc = "rsync" =>
        \A t \in Nodes : \A p \in PlacesOf(t) :
            /\ rsync[t].pc # "none"
            /\ rsync[t].pc \in {"copy", "over"} /\ rsync[t].ok /\ p \notin rsync[t].todo
               => Delivered(t, p)

Complete ==
    script.pc \in {"chown", "usermod", "verify"} \/ Moved =>
        \A t \in Nodes : \A p \in PlacesOf(t) : Delivered(t, p)

\* Until an entry moves, all there is in the new home comes from the old ones.
OnlyCopies ==
    ~ Moved => \A p \in Places : store[p] # Absent =>
                   \E t \in Origins(p) : Kept(p, store[p], home[t][p])

\* A copy that shares a write with the file it came from has all before it, too.
Lineage ==
    \A t \in Nodes : \A p \in PlacesOf(t) : Origins(p) = {t} =>
        \A w \in home[t][p].writes \cap store[p].writes :
            \A v \in home[t][p].writes : v <= w => v \in store[p].writes

Inv == /\ Types /\ Dates /\ Ages /\ Lists /\ Order /\ Existence
       /\ Progress /\ Complete /\ OnlyCopies /\ Lineage

-----------------------------------------------------------------------------
(* Facts about the constants and about the operators of the script. *)

LEMMA NodesAndPlaces ==
    /\ LastNode \in Nat /\ 0 \in Nodes
    /\ \A t \in Nodes : t \in Nat /\ t <= LastNode /\ PlacesOf(t) \subseteq Places
    /\ \A t \in Nodes : ~ IsLast(t) => t + 1 \in Nodes
    /\ Absent \in Files /\ Empty \in [Places -> Files]
    /\ \A p \in Places : Empty[p] = Absent
<1>1. /\ LastNode \in Nat /\ 0 \in Nodes
      /\ \A t \in Nodes : t \in Nat /\ t <= LastNode /\ (~ IsLast(t) => t + 1 \in Nodes)
  BY MigrateAssumption DEF Nodes, IsLast
<1>2. ASSUME NEW t \in Nodes PROVE PlacesOf(t) \subseteq Places
  <2>1. {0} \union Nested \subseteq Nodes
    BY MigrateAssumption DEF Nodes
  <2>. QED
    BY <2>1 DEF PlacesOf, Places
<1>3. Absent \in Files
  BY DEF Absent, Files
<1>4. Empty \in [Places -> Files] /\ \A p \in Places : Empty[p] = Absent
  BY <1>3, Zenon DEF Empty
<1>. QED
  BY <1>1, <1>2, <1>3, <1>4

LEMMA GoFacts ==
    ASSUME script \in Scripts, NEW pc \in Phases, Go(pc)
    PROVE  /\ script' \in Scripts
           /\ script'.pc = pc /\ script'.node = 0 /\ script'.told = script.told
<1>1. script' = [pc |-> pc, node |-> 0, attempt |-> script.attempt, told |-> script.told]
  BY Zenon DEF Go, Scripts
<1>. QED
  BY <1>1, NodesAndPlaces DEF Scripts

LEMMA GoOnFacts ==
    ASSUME script \in Scripts, ~ IsLast(script.node), GoOn
    PROVE  /\ script' \in Scripts
           /\ script'.pc = script.pc /\ script'.node = script.node + 1
           /\ script'.told = script.told
<1>1. script' = [pc |-> script.pc, node |-> script.node + 1,
                 attempt |-> script.attempt, told |-> script.told]
  BY Zenon DEF GoOn, Scripts
<1>. QED
  BY <1>1, NodesAndPlaces DEF Scripts

LEMMA EndFacts ==
    ASSUME script \in Scripts, NEW told \in Ends, End(told)
    PROVE  script' \in Scripts /\ script'.pc = "ended" /\ script'.told = told
<1>1. script' = [pc |-> "ended", node |-> script.node, attempt |-> script.attempt,
                 told |-> told]
  BY Zenon DEF End, Scripts
<1>. QED
  BY <1>1 DEF Scripts, Phases

\* What a step of an rsync makes of its record.
LEMMA GoesOnFacts ==
    ASSUME rsync \in [Nodes -> Rsyncs], NEW t \in Nodes, NEW files \in SUBSET Places,
           NEW ok \in BOOLEAN, GoesOn(t, files, ok)
    PROVE  /\ rsync' \in [Nodes -> Rsyncs]
           /\ \A u \in Nodes : u # t => rsync'[u] = rsync[u]
           /\ rsync'[t].pc = IF files = {} THEN "over" ELSE "copy"
           /\ rsync'[t].todo = files
           /\ rsync'[t].ok = (rsync[t].ok /\ ok)
           /\ rsync'[t].lost = (rsync[t].lost /\ files # {})
<1>. DEFINE next == [pc |-> IF files = {} THEN "over" ELSE "copy", todo |-> files,
                     ok |-> rsync[t].ok /\ ok, lost |-> rsync[t].lost /\ files # {}]
<1>1. rsync[t] \in Rsyncs
  OBVIOUS
<1>2. next \in Rsyncs
  <2>1. (IF files = {} THEN "over" ELSE "copy") \in {"none", "list", "copy", "over"}
    OBVIOUS
  <2>2. (rsync[t].ok /\ ok) \in BOOLEAN /\ (rsync[t].lost /\ files # {}) \in BOOLEAN
    OBVIOUS
  <2>. QED
    BY <2>1, <2>2, Zenon DEF Rsyncs
<1>3. rsync' = [rsync EXCEPT ![t] = next]
  BY Zenon DEF GoesOn
<1>4. rsync' \in [Nodes -> Rsyncs] /\ rsync'[t] = next
  BY <1>2, <1>3, Zenon
<1>5. \A u \in Nodes : u # t => rsync'[u] = rsync[u]
  BY <1>3, Zenon
<1>6. /\ next.pc = IF files = {} THEN "over" ELSE "copy"
      /\ next.todo = files
      /\ next.ok = (rsync[t].ok /\ ok)
      /\ next.lost = (rsync[t].lost /\ files # {})
  BY Zenon
<1>. HIDE DEF next
<1>. QED
  BY <1>4, <1>5, <1>6, Zenon

\* What the next version of a file is.
LEMMA WrittenFile ==
    ASSUME NEW a \in Files, clock \in Nat, clock' = clock + 1, Dated(a, clock)
    PROVE  /\ Written(a) \in Files /\ Written(a) # Absent /\ Dated(Written(a), clock')
           /\ Written(a).writes = a.writes \union {clock + 1}
           /\ \A w \in a.writes : w <= clock
<1>1. Written(a) = [mtime |-> clock + 1, writes |-> a.writes \union {clock + 1}]
  BY Zenon DEF Written
<1>2. a.writes \subseteq Nat /\ a.mtime \in Nat
  BY DEF Files
<1>3. \A w \in a.writes : w <= clock
  BY <1>2 DEF Dated, Absent
<1>4. Written(a) \in Files
  BY <1>1, <1>2 DEF Files
<1>5. Written(a).mtime = clock + 1 /\ Written(a).writes = a.writes \union {clock + 1}
  BY <1>1
<1>6. Dated(Written(a), clock')
  BY <1>2, <1>3, <1>5 DEF Dated
<1>7. Written(a) # Absent
  BY <1>5 DEF Absent
<1>. QED
  BY <1>3, <1>4, <1>5, <1>6, <1>7

\* A date stays right as time goes on.
LEMMA DatedLater ==
    ASSUME NEW a \in Files, NEW now \in Nat, NEW then \in Nat, now <= then, Dated(a, now)
    PROVE  Dated(a, then)
BY DEF Dated, Files

\* A file that is there has writes.
LEMMA DatedWrites ==
    ASSUME NEW a \in Files, Dated(a, clock), a # Absent
    PROVE  a.writes # {}
BY DEF Dated

LEMMA InitInv == Init => Inv
<1>. SUFFICES ASSUME Init PROVE Inv
  OBVIOUS
<1>1. \A t \in Nodes : \A p \in Places :
         home[t][p] \in Files /\ Dated(home[t][p], clock)
  <2>. SUFFICES ASSUME NEW t \in Nodes, NEW p \in Places
                PROVE  home[t][p] \in Files /\ Dated(home[t][p], clock)
    OBVIOUS
  <2>1. home[t][p] = First(t) \/ home[t][p] = Absent
    BY Zenon DEF Init
  <2>2. First(t) \in Files /\ Dated(First(t), clock)
    <3>1. t \in Nat /\ t <= clock
      BY NodesAndPlaces DEF Init
    <3>. QED
      BY <3>1 DEF First, Files, Dated
  <2>. QED
    BY <2>1, <2>2, NodesAndPlaces DEF Dated
<1>2. Types
  <2>1. home \in [Nodes -> [Places -> Files]]
    <3>1. home = [t \in Nodes |-> [p \in Places |-> home[t][p]]]
      BY Zenon DEF Init
    <3>. QED
      BY <1>1, <3>1, Zenon
  <2>2. script \in Scripts /\ rsync \in [Nodes -> Rsyncs]
    BY NodesAndPlaces DEF Init, Scripts, Phases, Ends, Rsyncs, Rsync
  <2>. QED
    BY <2>1, <2>2, NodesAndPlaces DEF Init, Types, Homes
<1>3. Dates
  BY <1>1, NodesAndPlaces DEF Init, Dates, Dated
<1>4. Ages /\ Lineage
  BY NodesAndPlaces DEF Init, Ages, Kept, Lineage, Absent
<1>5. ~ Moved /\ ~ SomeCopy /\ store = Empty /\ script.pc = "ended"
  BY DEF Init, Moved, SomeCopy, Copying, Rsync
<1>6. Lists /\ Order
  BY <1>5 DEF Init, Lists, Order, Rsync
<1>7. Existence /\ Progress /\ Complete /\ OnlyCopies
  BY <1>5, NodesAndPlaces DEF Existence, Progress, Complete, OnlyCopies
<1>. QED
  BY <1>2, <1>3, <1>4, <1>6, <1>7 DEF Inv

-----------------------------------------------------------------------------
(* The user's steps. *)

LEMMA LoginInv ==
    ASSUME Inv, NEW t \in Nodes, Login(t) \/ Logout(t)
    PROVE  Inv'
<1>1. /\ UNCHANGED <<home, store, exists, passwd, clock, script, rsync, seen, gone>>
      /\ session' = [session EXCEPT ![t] = session'[t]]
      /\ session'[t] = passwd[t] \/ session'[t] = "none"
  BY DEF Inv, Types, Login, Logout
<1>2. Types' /\ Order'
  BY <1>1, Zenon DEF Inv, Types, Order, Moved, SomeCopy, Copying
<1>. QED
  BY <1>1, <1>2
     DEF Inv, Dates, Ages, Lists, Existence, Progress, Complete, OnlyCopies, Lineage,
         Moved, SomeCopy, Copying, Delivered, Kept

\* What is delivered stays so while all that the new home loses is deleted there.
LEMMA DeliveredStays ==
    ASSUME NEW t, NEW p, seen' = seen, gone[p] \subseteq gone'[p],
           store[p].writes \subseteq store'[p].writes \union gone'[p],
           store[p] # Absent => store'[p] # Absent \/ gone'[p] # {},
           Delivered(t, p)
    PROVE  Delivered(t, p)'
<1>1. PICK u \in Origins(p) : seen[u][p].writes \subseteq store[p].writes \union gone[p]
  BY DEF Delivered, Kept
<1>2. seen'[u][p].writes \subseteq store'[p].writes \union gone'[p]
  BY <1>1
<1>3. gone'[p] = {} /\ seen'[t][p] # Absent => store'[p] # Absent
  BY DEF Delivered
<1>. QED
  BY <1>1, <1>2, <1>3 DEF Delivered, Kept

\* What any change of files by the user leaves right.
LEMMA ChangeInv ==
    ASSUME Inv, UNCHANGED <<exists, passwd, session, script, rsync, seen>>, clock' = clock + 1,
           Types',
           \A t \in Nodes : \A p \in Places : Dated(home'[t][p], clock'),
           \A p \in Places : Dated(store'[p], clock'),
           \A p \in Places :
               /\ gone[p] \subseteq gone'[p]
               /\ store[p].writes \subseteq store'[p].writes \union gone'[p]
               /\ store[p] # Absent => store'[p] # Absent \/ gone'[p] # {}
               /\ store'[p] # Absent => exists,
           \A t \in Nodes : \A p \in Places :
               home[t][p].writes \subseteq home'[t][p].writes \union gone'[p],
           store' = store \/ Moved,
           Lineage'
    PROVE  Inv'
<1>1. Dates'
  <2>. SUFFICES ASSUME NEW t \in Nodes, NEW p \in Places PROVE Dated(seen[t][p], clock')
    BY DEF Dates
  <2>1. seen[t][p] \in Files /\ Dated(seen[t][p], clock) /\ clock \in Nat
    BY DEF Inv, Types, Dates
  <2>. QED
    BY <2>1, DatedLater
<1>2. Ages'
  BY NodesAndPlaces DEF Inv, Ages, Kept
<1>3. ASSUME NEW t \in Nodes, NEW p \in PlacesOf(t), Delivered(t, p)
      PROVE  Delivered(t, p)'
  BY <1>3, NodesAndPlaces, DeliveredStays
<1>4. Progress' /\ Complete'
  BY <1>3 DEF Inv, Progress, Complete, Moved
<1>5. OnlyCopies'
  <2>. SUFFICES ASSUME ~ Moved, NEW p \in Places, store'[p] # Absent
                PROVE  \E t \in Origins(p) :
                          store'[p].writes \subseteq home'[t][p].writes \union gone'[p]
    BY DEF OnlyCopies, Moved, Kept
  <2>1. PICK t \in Origins(p) :
           store[p].writes \subseteq home[t][p].writes \union gone[p]
    BY DEF Inv, OnlyCopies, Kept
  <2>2. t \in Nodes
    BY DEF Origins
  <2>. QED
    BY <2>1, <2>2
<1>6. Lists' /\ Order' /\ Existence'
  BY DEF Inv, Lists, Order, Existence, Moved, SomeCopy, Copying
<1>. QED
  BY <1>1, <1>2, <1>4, <1>5, <1>6 DEF Inv

\* A write is later than all there is.
LEMMA NewWrite ==
    ASSUME Inv, clock' = clock + 1
    PROVE  /\ \A t \in Nodes : \A p \in Places :
                 /\ home[t][p] \in Files /\ Dated(home[t][p], clock')
                 /\ Written(home[t][p]) \in Files /\ Dated(Written(home[t][p]), clock')
                 /\ Written(home[t][p]).writes = home[t][p].writes \union {clock + 1}
                 /\ \A w \in home[t][p].writes : w \in Nat /\ w <= clock
           /\ \A p \in Places :
                 /\ store[p] \in Files /\ Dated(store[p], clock')
                 /\ Written(store[p]) \in Files /\ Dated(Written(store[p]), clock')
                 /\ Written(store[p]) # Absent
                 /\ Written(store[p]).writes = store[p].writes \union {clock + 1}
                 /\ \A w \in store[p].writes : w \in Nat /\ w <= clock
<1>1. clock \in Nat /\ clock + 1 \in Nat /\ clock <= clock + 1
  BY DEF Inv, Types
<1>2. ASSUME NEW a \in Files, Dated(a, clock)
      PROVE  /\ Dated(a, clock') /\ Written(a) \in Files /\ Dated(Written(a), clock')
             /\ Written(a) # Absent
             /\ Written(a).writes = a.writes \union {clock + 1}
             /\ \A w \in a.writes : w \in Nat /\ w <= clock
  <2>1. Dated(a, clock')
    BY <1>1, <1>2, DatedLater
  <2>2. a.writes \subseteq Nat
    BY DEF Files
  <2>. QED
    BY <1>1, <1>2, <2>1, <2>2, WrittenFile
<1>3. /\ \A t \in Nodes : \A p \in Places : home[t][p] \in Files /\ Dated(home[t][p], clock)
      /\ \A p \in Places : store[p] \in Files /\ Dated(store[p], clock)
  BY DEF Inv, Types, Dates
<1>. QED
  BY <1>2, <1>3, Zenon

LEMMA WriteLocalInv ==
    ASSUME Inv, NEW t \in Nodes, WriteLocal(t)
    PROVE  Inv'
<1>1. PICK p \in PlacesOf(t) : home' = [home EXCEPT ![t][p] = Written(@)]
  BY DEF WriteLocal
<1>2. /\ UNCHANGED <<store, exists, passwd, session, script, rsync, seen, gone>>
      /\ clock' = clock + 1
  BY DEF WriteLocal, Change
<1>3. p \in Places
  BY NodesAndPlaces
<1>4. home \in [Nodes -> [Places -> Files]] /\ clock \in Nat
  BY DEF Inv, Types
<1>5. \A u \in Nodes : \A q \in Places :
         home'[u][q] = IF u = t /\ q = p THEN Written(home[u][q]) ELSE home[u][q]
  BY <1>1, <1>3, <1>4, Zenon
<1>6. home' \in [Nodes -> [Places -> Files]]
  <2>1. Written(home[t][p]) \in Files
    BY <1>2, <1>3, NewWrite
  <2>. QED
    BY <1>1, <1>3, <1>4, <2>1
<1>7. Types'
  BY <1>2, <1>4, <1>6 DEF Inv, Types
<1>8. \A u \in Nodes : \A q \in Places :
         /\ Dated(home'[u][q], clock')
         /\ home[u][q].writes \subseteq home'[u][q].writes
         /\ home'[u][q].writes \subseteq home[u][q].writes \union {clock + 1}
  BY <1>2, <1>5, NewWrite
<1>9. Lineage'
  <2>. SUFFICES ASSUME NEW u \in Nodes, NEW q \in PlacesOf(u), Origins(q) = {u},
                       NEW w \in home'[u][q].writes \cap store[q].writes,
                       NEW v \in home'[u][q].writes, v <= w
                PROVE  v \in store[q].writes
    BY <1>2 DEF Lineage
  <2>1. q \in Places
    BY NodesAndPlaces
  <2>2. w \in Nat /\ w <= clock /\ w \in home[u][q].writes
    BY <1>2, <1>4, <1>8, <2>1, NewWrite
  <2>3. v \in home[u][q].writes
    BY <1>4, <1>8, <2>1, <2>2
  <2>. QED
    BY <2>2, <2>3 DEF Inv, Lineage
<1>10. /\ \A q \in Places : Dated(store'[q], clock')
       /\ \A q \in Places : store'[q] # Absent => exists
  BY <1>2, NewWrite DEF Inv, Existence
<1>. QED
  BY <1>2, <1>7, <1>8, <1>9, <1>10, ChangeInv

LEMMA DeleteLocalInv ==
    ASSUME Inv, NEW t \in Nodes, DeleteLocal(t)
    PROVE  Inv'
<1>1. PICK p \in PlacesOf(t) :
         /\ home[t][p] # Absent
         /\ gone' = [gone EXCEPT ![p] = @ \union home[t][p].writes]
         /\ home' = [home EXCEPT ![t][p] = Absent]
  BY DEF DeleteLocal
<1>2. /\ UNCHANGED <<store, exists, passwd, session, script, rsync, seen>>
      /\ clock' = clock + 1
  BY DEF DeleteLocal, Change
<1>3. p \in Places
  BY NodesAndPlaces
<1>4. /\ home \in [Nodes -> [Places -> Files]] /\ clock \in Nat
      /\ gone \in [Places -> SUBSET Nat]
  BY DEF Inv, Types
<1>5. \A u \in Nodes : \A q \in Places :
         home'[u][q] = IF u = t /\ q = p THEN Absent ELSE home[u][q]
  BY <1>1, <1>3, <1>4, Zenon
<1>6. home' \in [Nodes -> [Places -> Files]]
  BY <1>1, <1>3, <1>4, NodesAndPlaces
<1>7. /\ gone' \in [Places -> SUBSET Nat]
      /\ \A q \in Places : gone[q] \subseteq gone'[q]
      /\ home[t][p].writes \subseteq gone'[p]
  <2>1. home[t][p].writes \subseteq Nat
    BY <1>3, <1>4 DEF Files
  <2>. QED
    BY <1>1, <1>3, <1>4, <2>1
<1>8. Types'
  BY <1>2, <1>4, <1>6, <1>7 DEF Inv, Types
<1>9. \A u \in Nodes : \A q \in Places :
         /\ Dated(home'[u][q], clock')
         /\ home[u][q].writes \subseteq home'[u][q].writes \union gone'[q]
         /\ home'[u][q].writes \subseteq home[u][q].writes
  <2>1. Dated(Absent, clock') /\ Absent.writes = {}
    BY DEF Dated, Absent
  <2>. QED
    BY <1>2, <1>3, <1>5, <1>7, <2>1, NewWrite
<1>10. Lineage'
  BY <1>2, <1>9, NodesAndPlaces DEF Inv, Lineage
<1>11. /\ \A q \in Places : Dated(store'[q], clock')
       /\ \A q \in Places : store'[q] # Absent => exists
  BY <1>2, NewWrite DEF Inv, Existence
<1>. QED
  BY <1>2, <1>7, <1>8, <1>9, <1>10, <1>11, ChangeInv

LEMMA WriteStoreInv ==
    ASSUME Inv, NEW t \in Nodes, WriteStore(t)
    PROVE  Inv'
<1>1. PICK p \in Places : store' = [store EXCEPT ![p] = Written(@)]
  BY DEF WriteStore
<1>2. /\ UNCHANGED <<home, exists, passwd, session, script, rsync, seen, gone>>
      /\ clock' = clock + 1 /\ exists /\ Moved
  BY DEF WriteStore, Change, Inv, Order
<1>3. store \in [Places -> Files] /\ clock \in Nat
  BY DEF Inv, Types
<1>4. \A q \in Places : store'[q] = IF q = p THEN Written(store[q]) ELSE store[q]
  BY <1>1, <1>3, Zenon
<1>5. store' \in [Places -> Files]
  <2>1. Written(store[p]) \in Files
    BY <1>2, NewWrite
  <2>. QED
    BY <1>1, <1>3, <2>1
<1>6. Types'
  BY <1>2, <1>3, <1>5 DEF Inv, Types
<1>7. \A q \in Places :
         /\ Dated(store'[q], clock')
         /\ store[q].writes \subseteq store'[q].writes
         /\ store'[q].writes \subseteq store[q].writes \union {clock + 1}
         /\ store[q] # Absent => store'[q] # Absent
  BY <1>2, <1>4, NewWrite
<1>8. Lineage'
  <2>. SUFFICES ASSUME NEW u \in Nodes, NEW q \in PlacesOf(u), Origins(q) = {u},
                       NEW w \in home[u][q].writes \cap store'[q].writes,
                       NEW v \in home[u][q].writes, v <= w
                PROVE  v \in store'[q].writes
    BY <1>2 DEF Lineage
  <2>1. q \in Places
    BY NodesAndPlaces
  <2>2. w \in Nat /\ w <= clock
    BY <1>2, <2>1, NewWrite
  <2>3. w \in store[q].writes
    BY <1>3, <1>7, <2>1, <2>2
  <2>. QED
    BY <1>7, <2>1, <2>3 DEF Inv, Lineage
<1>9. \A u \in Nodes : \A q \in Places :
         /\ Dated(home'[u][q], clock')
         /\ home[u][q].writes \subseteq home'[u][q].writes \union gone'[q]
  BY <1>2, NewWrite
<1>. QED
  BY <1>2, <1>6, <1>7, <1>8, <1>9, ChangeInv

LEMMA DeleteStoreInv ==
    ASSUME Inv, NEW t \in Nodes, DeleteStore(t)
    PROVE  Inv'
<1>1. PICK p \in Places :
         /\ store[p] # Absent
         /\ gone' = [gone EXCEPT ![p] = @ \union store[p].writes]
         /\ store' = [store EXCEPT ![p] = Absent]
  BY DEF DeleteStore
<1>2. /\ UNCHANGED <<home, exists, passwd, session, script, rsync, seen>>
      /\ clock' = clock + 1 /\ Moved
  BY DEF DeleteStore, Change, Inv, Order
<1>3. /\ store \in [Places -> Files] /\ clock \in Nat
      /\ gone \in [Places -> SUBSET Nat]
  BY DEF Inv, Types
<1>4. \A q \in Places : store'[q] = IF q = p THEN Absent ELSE store[q]
  BY <1>1, <1>3, Zenon
<1>5. store' \in [Places -> Files]
  BY <1>1, <1>3, NodesAndPlaces
<1>6. /\ gone' \in [Places -> SUBSET Nat]
      /\ \A q \in Places : gone[q] \subseteq gone'[q]
      /\ store[p].writes \subseteq gone'[p] /\ gone'[p] # {}
  <2>1. store[p].writes \subseteq Nat
    BY <1>3 DEF Files
  <2>2. store[p].writes # {}
    BY <1>1, <1>3, DatedWrites DEF Inv, Dates
  <2>. QED
    BY <1>1, <1>3, <2>1, <2>2
<1>7. Types'
  BY <1>2, <1>3, <1>5, <1>6 DEF Inv, Types
<1>8. \A q \in Places :
         /\ Dated(store'[q], clock')
         /\ store[q].writes \subseteq store'[q].writes \union gone'[q]
         /\ store'[q].writes \subseteq store[q].writes
         /\ store[q] # Absent => store'[q] # Absent \/ gone'[q] # {}
         /\ store'[q] # Absent => exists
  <2>1. Dated(Absent, clock') /\ Absent.writes = {}
    BY DEF Dated, Absent
  <2>. QED
    BY <1>2, <1>4, <1>6, <2>1, NewWrite DEF Inv, Existence
<1>9. Lineage'
  <2>1. \A q \in Places : store'[q] = store[q] \/ store'[q].writes = {}
    BY <1>4 DEF Absent
  <2>. QED
    BY <1>2, <2>1, NodesAndPlaces DEF Inv, Lineage
<1>10. \A u \in Nodes : \A q \in Places :
          /\ Dated(home'[u][q], clock')
          /\ home[u][q].writes \subseteq home'[u][q].writes \union gone'[q]
  BY <1>2, NewWrite
<1>. QED
  BY <1>2, <1>6, <1>7, <1>8, <1>9, <1>10, ChangeInv

-----------------------------------------------------------------------------
(* The rsyncs. *)

\* What a step of one rsync, or the loss of its link, leaves right.
LEMMA RsyncInv ==
    ASSUME Inv, NEW t \in Nodes, Copying(t),
           UNCHANGED <<home, exists, passwd, session, clock, script, seen, gone>>,
           rsync' \in [Nodes -> Rsyncs],
           \A u \in Nodes : u # t => rsync'[u] = rsync[u],
           rsync'[t].pc # "none",
           rsync'[t].todo \subseteq PlacesOf(t),
           rsync'[t].pc = "over" => rsync'[t].todo = {},
           rsync'[t].lost => ~ rsync'[t].ok,
           store' \in [Places -> Files],
           \A p \in Places :
               \/ store'[p] = store[p]
               \/ store'[p] = home[t][p] /\ p \in PlacesOf(t) /\ home[t][p] # Absent,
           \A p \in PlacesOf(t) :
               rsync'[t].pc \in {"copy", "over"} /\ rsync'[t].ok /\ p \notin rsync'[t].todo
               => \/ rsync[t].pc = "copy" /\ rsync[t].ok /\ p \notin rsync[t].todo
                  \/ store'[p] = home[t][p]
                  \/ home[t][p] = Absent
    PROVE  Inv'
<1>. USE NodesAndPlaces
<1>1. SomeCopy /\ exists /\ ~ Moved /\ script.pc \notin {"chown", "usermod", "verify"}
  BY DEF SomeCopy, Inv, Order, Existence
<1>2. Types' /\ Lists'
  BY DEF Inv, Types, Lists
<1>3. Dates'
  BY DEF Inv, Dates
<1>4. Order' /\ Existence'
  BY <1>1 DEF Inv, Order, Existence, Moved, SomeCopy, Copying
<1>5. ASSUME NEW u \in Nodes, NEW p \in PlacesOf(u), Delivered(u, p)
      PROVE  Delivered(u, p)'
  <2>1. CASE store'[p] = store[p]
    BY <1>5, <2>1 DEF Delivered, Kept
  <2>2. CASE store'[p] = home[t][p] /\ p \in PlacesOf(t) /\ home[t][p] # Absent
    BY <2>2 DEF Inv, Ages, Delivered, Kept, Origins
  <2>. QED
    BY <2>1, <2>2
<1>6. Progress'
  <2>. SUFFICES ASSUME script.pc = "rsync", NEW u \in Nodes, NEW p \in PlacesOf(u)
                PROVE  /\ rsync'[u].pc # "none"
                       /\ rsync'[u].pc \in {"copy", "over"} /\ rsync'[u].ok
                          /\ p \notin rsync'[u].todo => Delivered(u, p)'
    BY DEF Progress
  <2>1. CASE u # t
    BY <1>5, <2>1 DEF Inv, Progress
  <2>2. CASE u = t
    <3>1. CASE rsync[t].pc = "copy" /\ rsync[t].ok /\ p \notin rsync[t].todo
      BY <1>5, <2>2, <3>1 DEF Inv, Progress
    <3>2. CASE store'[p] = home[t][p] \/ home[t][p] = Absent
      <4>1. seen[t][p].writes \subseteq home[t][p].writes \union gone[p] /\ p \in Places
        BY <2>2 DEF Inv, Ages, Kept
      <4>2. seen[t][p] \in Files /\ (seen[t][p] # Absent => seen[t][p].writes # {})
        BY <4>1, DatedWrites DEF Inv, Types, Dates
      <4>3. Absent.writes = {} /\ t \in Origins(p)
        BY <2>2 DEF Absent, Origins
      <4>4. CASE home[t][p] = Absent
        BY <2>2, <4>1, <4>2, <4>3, <4>4 DEF Delivered, Kept
      <4>5. CASE store'[p] = home[t][p] /\ home[t][p] # Absent
        BY <2>2, <4>1, <4>3, <4>5 DEF Delivered, Kept
      <4>. QED
        BY <3>2, <4>4, <4>5
    <3>. QED
      BY <2>2, <3>1, <3>2
  <2>. QED
    BY <2>1, <2>2
<1>7. Complete'
  BY <1>1 DEF Complete, Moved
<1>8. OnlyCopies'
  <2>. SUFFICES ASSUME NEW p \in Places, store'[p] # Absent
                PROVE  \E u \in Origins(p) : Kept(p, store'[p], home[u][p])
    BY DEF OnlyCopies, Kept
  <2>1. CASE store'[p] = store[p]
    BY <1>1, <2>1 DEF Inv, OnlyCopies
  <2>2. CASE store'[p] = home[t][p] /\ p \in PlacesOf(t)
    BY <2>2 DEF Kept, Origins
  <2>. QED
    BY <2>1, <2>2
<1>9. Lineage'
  <2>. SUFFICES ASSUME NEW u \in Nodes, NEW p \in PlacesOf(u), Origins(p) = {u},
                       NEW w \in home[u][p].writes \cap store'[p].writes,
                       NEW v \in home[u][p].writes, v <= w
                PROVE  v \in store'[p].writes
    BY DEF Lineage
  <2>1. CASE store'[p] = store[p]
    BY <2>1 DEF Inv, Lineage
  <2>2. CASE store'[p] = home[t][p] /\ p \in PlacesOf(t)
    <3>1. t = u
      BY <2>2 DEF Origins
    <3>. QED
      BY <2>2, <3>1
  <2>. QED
    BY <2>1, <2>2
<1>10. Ages'
  BY DEF Inv, Ages, Kept
<1>. QED
  BY <1>2, <1>3, <1>4, <1>6, <1>7, <1>8, <1>9, <1>10 DEF Inv

\* What is known of an rsync that is not over.
LEMMA RsyncNow ==
    ASSUME Inv, NEW t \in Nodes
    PROVE  /\ rsync \in [Nodes -> Rsyncs] /\ store \in [Places -> Files]
           /\ rsync[t].todo \subseteq PlacesOf(t) /\ rsync[t].todo \subseteq Places
           /\ rsync[t].pc \in {"none", "list", "copy", "over"}
           /\ rsync[t].ok \in BOOLEAN /\ rsync[t].lost \in BOOLEAN
           /\ rsync[t].lost => ~ rsync[t].ok
BY NodesAndPlaces DEF Inv, Types, Lists, Rsyncs

LEMMA RsyncListInv ==
    ASSUME Inv, NEW t \in Nodes, RsyncList(t)
    PROVE  Inv'
<1>. DEFINE files == {p \in PlacesOf(t) : home[t][p] # Absent}
<1>1. /\ UNCHANGED <<home, store, exists, passwd, session, clock, script, seen, gone>>
      /\ rsync[t].pc = "list" /\ Copying(t) /\ GoesOn(t, files, TRUE)
  BY DEF RsyncList, user, disk, Copying
<1>2. files \in SUBSET Places /\ files \subseteq PlacesOf(t)
  BY NodesAndPlaces
<1>3. \A p \in PlacesOf(t) : p \notin files => home[t][p] = Absent
  OBVIOUS
<1>. HIDE DEF files
<1>4. /\ rsync' \in [Nodes -> Rsyncs]
      /\ \A u \in Nodes : u # t => rsync'[u] = rsync[u]
      /\ rsync'[t].pc = IF files = {} THEN "over" ELSE "copy"
      /\ rsync'[t].todo = files
      /\ rsync'[t].ok = (rsync[t].ok /\ TRUE)
      /\ rsync'[t].lost = (rsync[t].lost /\ files # {})
  BY <1>1, <1>2, RsyncNow, GoesOnFacts
<1>5. /\ rsync'[t].lost => ~ rsync'[t].ok
      /\ rsync'[t].pc # "none"
      /\ rsync'[t].todo \subseteq PlacesOf(t)
      /\ rsync'[t].pc = "over" => rsync'[t].todo = {}
  BY <1>2, <1>4, RsyncNow
<1>6. store' \in [Places -> Files]
  BY <1>1, RsyncNow
<1>. QED
  BY <1>1, <1>3, <1>4, <1>5, <1>6, RsyncInv

LEMMA RsyncCopyInv ==
    ASSUME Inv, NEW t \in Nodes, RsyncCopy(t)
    PROVE  Inv'
<1>1. PICK p \in rsync[t].todo :
         /\ home[t][p] # Absent
         /\ store' = [store EXCEPT ![p] = home[t][p]]
         /\ GoesOn(t, rsync[t].todo \ {p}, TRUE)
  BY DEF RsyncCopy
<1>. DEFINE files == rsync[t].todo \ {p}
<1>2. /\ UNCHANGED <<home, exists, passwd, session, clock, script, seen, gone>>
      /\ rsync[t].pc = "copy" /\ Copying(t)
  BY DEF RsyncCopy, user, Copying
<1>3. /\ files \in SUBSET Places /\ files \subseteq PlacesOf(t)
      /\ p \in PlacesOf(t) /\ p \in Places
  BY RsyncNow
<1>4. \A q \in PlacesOf(t) : q \notin files => q = p \/ q \notin rsync[t].todo
  OBVIOUS
<1>5. GoesOn(t, files, TRUE)
  BY <1>1
<1>. HIDE DEF files
<1>6. /\ rsync' \in [Nodes -> Rsyncs]
      /\ \A u \in Nodes : u # t => rsync'[u] = rsync[u]
      /\ rsync'[t].pc = IF files = {} THEN "over" ELSE "copy"
      /\ rsync'[t].todo = files
      /\ rsync'[t].ok = (rsync[t].ok /\ TRUE)
      /\ rsync'[t].lost = (rsync[t].lost /\ files # {})
  BY <1>3, <1>5, RsyncNow, GoesOnFacts
<1>7. /\ rsync'[t].lost => ~ rsync'[t].ok
      /\ rsync'[t].ok => rsync[t].ok
      /\ rsync'[t].pc # "none"
      /\ rsync'[t].todo \subseteq PlacesOf(t)
      /\ rsync'[t].pc = "over" => rsync'[t].todo = {}
  BY <1>3, <1>6, RsyncNow
<1>8. /\ store' \in [Places -> Files] /\ store'[p] = home[t][p]
      /\ \A q \in Places : q # p => store'[q] = store[q]
  <2>1. home[t][p] \in Files
    BY <1>3 DEF Inv, Types
  <2>. QED
    BY <1>1, <1>3, <2>1, RsyncNow
<1>. QED
  BY <1>1, <1>2, <1>3, <1>4, <1>6, <1>7, <1>8, RsyncInv

\* A failure leaves nothing to be delivered.
LEMMA RsyncFailsInv ==
    ASSUME Inv, NEW t \in Nodes, RsyncVanished(t) \/ RsyncFails(t) \/ LinkLost(t)
    PROVE  Inv'
<1>1. /\ UNCHANGED <<home, store, exists, passwd, session, clock, script, seen, gone>>
      /\ Copying(t)
  BY DEF RsyncVanished, RsyncFails, LinkLost, user, disk, Copying
<1>. DEFINE Stopped ==
         /\ rsync' \in [Nodes -> Rsyncs]
         /\ \A u \in Nodes : u # t => rsync'[u] = rsync[u]
         /\ rsync'[t].pc # "none" /\ ~ rsync'[t].ok
         /\ rsync'[t].todo \subseteq PlacesOf(t)
         /\ rsync'[t].pc = "over" => rsync'[t].todo = {}
<1>2. Stopped
  <2>1. ASSUME NEW files \in SUBSET PlacesOf(t), GoesOn(t, files, FALSE)
        PROVE  Stopped
    <3>1. files \in SUBSET Places
      BY NodesAndPlaces
    <3>2. /\ rsync' \in [Nodes -> Rsyncs]
          /\ \A u \in Nodes : u # t => rsync'[u] = rsync[u]
          /\ rsync'[t].pc = IF files = {} THEN "over" ELSE "copy"
          /\ rsync'[t].todo = files
          /\ rsync'[t].ok = (rsync[t].ok /\ FALSE)
          /\ rsync'[t].lost = (rsync[t].lost /\ files # {})
      <4>1. rsync \in [Nodes -> Rsyncs] /\ FALSE \in BOOLEAN /\ GoesOn(t, files, FALSE)
        BY <2>1, RsyncNow
      <4>. QED
        BY <3>1, <4>1, GoesOnFacts, Zenon
    <3>. QED
      BY <3>2
  <2>2. CASE RsyncVanished(t)
    <3>1. PICK p \in rsync[t].todo : GoesOn(t, rsync[t].todo \ {p}, FALSE)
      BY <2>2 DEF RsyncVanished
    <3>2. rsync[t].todo \ {p} \in SUBSET PlacesOf(t)
      BY RsyncNow
    <3>. QED
      BY <2>1, <3>1, <3>2
  <2>3. CASE RsyncFails(t)
    <3>1. {} \in SUBSET PlacesOf(t) /\ GoesOn(t, {}, FALSE)
      BY <2>3 DEF RsyncFails
    <3>. QED
      BY <2>1, <3>1
  <2>4. CASE LinkLost(t)
    <3>1. rsync' = [rsync EXCEPT ![t].ok = FALSE, ![t].lost = TRUE]
      BY <2>4 DEF LinkLost
    <3>. QED
      BY <1>1, <3>1, RsyncNow DEF Rsyncs, Copying, Inv, Lists
  <2>. QED
    BY <2>2, <2>3, <2>4
<1>3. store' \in [Places -> Files]
  BY <1>1, RsyncNow
<1>. QED
  BY <1>1, <1>2, <1>3, RsyncInv

-----------------------------------------------------------------------------
(* The script's own steps. *)

\* A step that only moves the script has little to disturb.
LEMMA ScriptOnly ==
    ASSUME Inv, UNCHANGED <<user, disk, passwd, rsync, seen>>,
           script' \in Scripts, Order', Progress', Complete'
    PROVE  Inv'
BY DEF Inv, user, disk, Types, Dates, Ages, Lists, Existence, OnlyCopies, Lineage,
       Moved, SomeCopy, Copying, Kept

\* The script may end at any time, unless it ends with the advice to delete.
LEMMA EndInv ==
    ASSUME Inv, UNCHANGED <<user, disk, passwd, rsync, seen>>,
           NEW told \in Ends \ {"delete and retry"}, End(told)
    PROVE  Inv'
<1>1. script' \in Scripts /\ script'.pc = "ended" /\ script'.told = told
  BY EndFacts DEF Inv, Types
<1>2. Order' /\ Progress' /\ Complete'
  BY <1>1
     DEF Inv, user, disk, Order, Progress, Complete, Moved, SomeCopy, Copying,
         Delivered, Kept
<1>. QED
  BY <1>1, <1>2, ScriptOnly

LEMMA PreflightInv == ASSUME Inv, Preflight PROVE Inv'
<1>1. /\ UNCHANGED <<user, disk, passwd, rsync, seen>>
      /\ script.pc = "ended" /\ script \in Scripts
  BY DEF Preflight, At, Inv, Types
<1>. /\ script.node \in Nodes /\ script.attempt + 1 \in Nat
     /\ "who" \in Phases /\ "ended" \in Phases
     /\ "nothing" \in Ends /\ "already migrated?" \in Ends
  <2>1. script.node \in Nodes /\ script.attempt \in Nat
    BY <1>1 DEF Scripts
  <2>. QED
    BY <2>1 DEF Phases, Ends
<1>2. CASE passwd[0] = "/home"
  <2>1. script' = [pc |-> "who", node |-> 0, attempt |-> script.attempt + 1,
                   told |-> "nothing"]
    BY <1>2, Zenon DEF Preflight
  <2>2. /\ script' \in Scripts
        /\ script'.pc = "who" /\ script'.told = "nothing" /\ script'.node = 0
    BY <1>1, <2>1, NodesAndPlaces DEF Scripts
  <2>3. ~ Moved
    BY <1>2 DEF Inv, Order
  <2>4. Order' /\ Progress' /\ Complete'
    BY <1>1, <2>2, <2>3
       DEF Inv, user, disk, Order, Progress, Complete, Moved, SomeCopy, Copying
  <2>. QED
    BY <1>1, <2>2, <2>4, ScriptOnly
<1>3. CASE passwd[0] # "/home"
  <2>1. script' = [script EXCEPT !.attempt = @ + 1, !.told = "already migrated?"]
    BY <1>3, Zenon DEF Preflight
  <2>2. script' = [pc |-> script.pc, node |-> script.node, attempt |-> script.attempt + 1,
                   told |-> "already migrated?"]
    BY <1>1, <2>1, Zenon DEF Scripts
  <2>3. /\ script' \in Scripts
        /\ script'.pc = "ended" /\ script'.told = "already migrated?"
    BY <1>1, <2>2 DEF Scripts
  <2>4. Order' /\ Progress' /\ Complete'
    BY <1>1, <2>3
       DEF Inv, user, disk, Order, Progress, Complete, Moved, SomeCopy, Copying,
           Delivered, Kept
  <2>. QED
    BY <1>1, <2>3, <2>4, ScriptOnly
<1>. QED
  BY <1>2, <1>3

\* What the script sees of a home is what is there.
LEMMA WhoInv == ASSUME Inv, Who PROVE Inv'
<1>. DEFINE t == script.node
<1>1. /\ UNCHANGED <<user, disk, passwd, rsync>>
      /\ script.pc = "who" /\ script \in Scripts /\ t \in Nodes /\ ~ Moved
  BY DEF Who, At, Inv, Types, Scripts, Order
<1>2. CASE session[t] # "none"
  BY <1>1, <1>2, EndInv, Zenon DEF Who, Ends
<1>3. CASE session[t] = "none"
  <2>1. /\ seen' = [seen EXCEPT ![t] = home[t]]
        /\ \/ ~ IsLast(t) /\ GoOn
           \/ End("already exists")
           \/ Go("install")
    BY <1>3, Zenon DEF Who
  <2>2. /\ seen' \in [Nodes -> [Places -> Files]]
        /\ \A u \in Nodes : seen'[u] = seen[u] \/ seen'[u] = home[u]
    BY <1>1, <2>1 DEF Inv, Types
  <2>3. /\ script' \in Scripts /\ script'.pc \in {"who", "ended", "install"}
        /\ script'.told = script.told \/ script'.told = "already exists"
    BY <1>1, <2>1, GoFacts, GoOnFacts, EndFacts DEF Phases, Ends
  <2>4. script'.told # "delete and retry"
    BY <1>1, <2>3 DEF Inv, Order
  <2>5. Types'
    BY <1>1, <2>2, <2>3 DEF Inv, user, disk, Types
  <2>6. Ages' /\ Dates'
    BY <1>1, <2>2 DEF Inv, user, disk, Ages, Dates, Kept
  <2>7. Order' /\ Progress' /\ Complete'
    BY <1>1, <2>3, <2>4
       DEF Inv, user, disk, Order, Progress, Complete, Moved, SomeCopy, Copying
  <2>. QED
    BY <1>1, <2>5, <2>6, <2>7
       DEF Inv, user, disk, Lists, Existence, OnlyCopies, Lineage, Moved, SomeCopy,
           Copying, Kept
<1>. QED
  BY <1>2, <1>3

\* A new home that was just made is empty.
LEMMA NothingThere ==
    \A p \in Places : Dated(Empty[p], clock) /\ Empty[p].writes = {}
BY NodesAndPlaces DEF Dated, Absent

LEMMA PreCreateInv == ASSUME Inv, PreCreate PROVE Inv'
<1>1. /\ UNCHANGED <<user, passwd, seen>>
      /\ script.pc = "install" /\ ~ Moved
      /\ exists' = TRUE /\ store' = Empty
      /\ rsync' = [t \in Nodes |-> Rsync("list")]
  BY DEF PreCreate, At, Inv, Order
<1>2. /\ script' \in Scripts
      /\ script'.pc = "rsync" /\ script'.told = script.told /\ script'.node = 0
  BY GoFacts DEF PreCreate, Inv, Types, Phases
<1>3. /\ rsync' \in [Nodes -> Rsyncs]
      /\ \A t \in Nodes : /\ rsync'[t].pc = "list" /\ rsync'[t].todo = {}
                          /\ ~ rsync'[t].lost
  BY <1>1 DEF Rsync, Rsyncs
<1>4. Types'
  BY <1>1, <1>2, <1>3, NodesAndPlaces DEF Inv, user, Types
<1>5. Order'
  BY <1>1, <1>2 DEF Inv, user, Order, Moved
<1>6. Lists' /\ Existence' /\ Progress' /\ Complete' /\ OnlyCopies'
  BY <1>1, <1>2, <1>3, NodesAndPlaces
     DEF Lists, Existence, Progress, Complete, OnlyCopies, Moved, SomeCopy, Copying
<1>7. Dates' /\ Lineage' /\ Ages'
  <2>1. \A p \in Places : Dated(store'[p], clock) /\ store'[p].writes = {}
    BY <1>1, NothingThere, Zenon
  <2>. QED
    BY <1>1, <2>1, NodesAndPlaces DEF Inv, user, Dates, Lineage, Ages, Kept
<1>. QED
  BY <1>4, <1>5, <1>6, <1>7 DEF Inv

\* When all are over and none failed, all there was is delivered.
LEMMA WaitAllInv == ASSUME Inv, WaitAll PROVE Inv'
<1>1. /\ UNCHANGED <<user, disk, passwd, rsync, seen>>
      /\ script.pc = "rsync" /\ script \in Scripts /\ Over /\ ~ Moved
  BY DEF WaitAll, At, Inv, Types, Order
<1>2. CASE Failed
  <2>1. script' \in Scripts /\ script'.pc = "ended" /\ script'.told = "delete and retry"
    BY <1>1, <1>2, EndFacts DEF WaitAll, Ends
  <2>2. Order' /\ Progress' /\ Complete'
    BY <1>1, <2>1
       DEF Inv, user, disk, Order, Progress, Complete, Moved, SomeCopy, Copying
  <2>. QED
    BY <1>1, <2>1, <2>2, ScriptOnly
<1>3. CASE ~ Failed
  <2>1. /\ script' \in Scripts /\ script'.pc = "chown"
        /\ script'.told = script.told
    BY <1>1, <1>3, GoFacts DEF WaitAll, Phases
  <2>2. \A t \in Nodes : rsync[t].pc = "over" /\ rsync[t].ok /\ rsync[t].todo = {}
    BY <1>1, <1>3 DEF Over, Failed, Inv, Lists
  <2>3. ~ SomeCopy /\ \A t \in Nodes : \A p \in PlacesOf(t) : Delivered(t, p)
    BY <1>1, <2>2 DEF SomeCopy, Copying, Inv, Progress
  <2>4. Order' /\ Progress' /\ Complete'
    BY <1>1, <2>1, <2>3
       DEF Inv, user, disk, Order, Progress, Complete, Moved, SomeCopy, Copying,
           Delivered, Kept
  <2>. QED
    BY <1>1, <2>1, <2>4, ScriptOnly
<1>. QED
  BY <1>2, <1>3

LEMMA ChownInv == ASSUME Inv, Chown PROVE Inv'
<1>1. /\ UNCHANGED <<user, disk, passwd, rsync, seen>>
      /\ script.pc = "chown" /\ script \in Scripts
  BY DEF Chown, At, Inv, Types
<1>2. /\ script' \in Scripts /\ script'.pc = "usermod" /\ script'.node = 0
      /\ script'.told = script.told
  BY <1>1, GoFacts DEF Chown, Phases
<1>3. Order'
  <2>1. ~ Moved /\ ~ SomeCopy /\ script.told # "delete and retry"
    BY <1>1 DEF Inv, Order
  <2>2. ~ Moved' /\ ~ SomeCopy'
    BY <1>1, <2>1 DEF Moved, SomeCopy, Copying
  <2>3. ~ \E t \in Nodes : session'[t] = "/storage"
    BY <1>1, <2>1 DEF Inv, user, Order
  <2>4. script'.pc = "usermod" /\ script'.node = 0 /\ script'.told # "delete and retry"
    BY <1>2, <2>1
  <2>. QED
    BY <2>2, <2>3, <2>4 DEF Order
<1>4. Progress' /\ Complete'
  BY <1>1, <1>2 DEF Inv, user, disk, Progress, Complete, Delivered, Kept
<1>. QED
  BY <1>1, <1>2, <1>3, <1>4, ScriptOnly

\* tpu0's entry is the first to move, and by then everything is delivered.
LEMMA UsermodInv == ASSUME Inv, Usermod PROVE Inv'
<1>. DEFINE t == script.node
<1>1. /\ UNCHANGED <<user, disk, rsync, seen>>
      /\ script.pc = "usermod" /\ script \in Scripts /\ t \in Nodes
  BY DEF Usermod, At, Inv, Types, Scripts
<1>2. CASE session[t] # "none"
  BY <1>1, <1>2, EndInv, Zenon DEF Usermod, Ends
<1>3. CASE session[t] = "none"
  <2>1. /\ passwd' = [passwd EXCEPT ![t] = "/storage"]
        /\ (IsLast(t) /\ Go("verify")) \/ (~ IsLast(t) /\ GoOn)
    BY <1>3, Zenon DEF Usermod
  <2>2. /\ passwd' \in [Nodes -> Homes] /\ passwd'[t] = "/storage"
        /\ \A u \in Nodes : passwd'[u] = passwd[u] \/ passwd'[u] = "/storage"
    BY <1>1, <2>1 DEF Inv, Types, Homes
  <2>3. /\ script' \in Scripts /\ script'.pc \in {"usermod", "verify"}
        /\ script'.told = script.told
    BY <1>1, <2>1, GoFacts, GoOnFacts DEF Phases
  <2>4. Moved' /\ passwd'[0] = "/storage"
    BY <1>1, <2>2, NodesAndPlaces DEF Inv, Order, Moved
  <2>5. Types' /\ Order' /\ Progress' /\ Complete'
    BY <1>1, <2>2, <2>3, <2>4
       DEF Inv, user, disk, Types, Order, Progress, Complete, Moved, SomeCopy, Copying,
           Delivered, Kept
  <2>. QED
    BY <1>1, <2>4, <2>5
       DEF Inv, user, disk, Dates, Ages, Lists, Existence, OnlyCopies, Lineage,
           SomeCopy, Copying, Kept
<1>. QED
  BY <1>2, <1>3

\* An rsync that goes on after the partial copy is deleted can write to it no more.
LEMMA DeletePartialInv == ASSUME Inv, DeletePartial PROVE Inv'
<1>1. /\ UNCHANGED <<user, passwd, seen>>
      /\ exists' = FALSE /\ store' = Empty
      /\ rsync' = [t \in Nodes |-> [rsync[t] EXCEPT !.pc = "over", !.todo = {}]]
      /\ ~ Moved
  BY DEF DeletePartial, Inv, Order
<1>2. script' \in Scripts /\ script'.pc = "ended" /\ script'.told = "nothing"
  BY EndFacts DEF DeletePartial, Inv, Types, Ends
<1>3. /\ rsync' \in [Nodes -> Rsyncs]
      /\ \A t \in Nodes : /\ rsync'[t].pc = "over" /\ rsync'[t].todo = {}
                          /\ rsync'[t].lost => ~ rsync'[t].ok
  <2>1. ASSUME NEW t \in Nodes
        PROVE  /\ rsync'[t] \in Rsyncs /\ rsync'[t].pc = "over" /\ rsync'[t].todo = {}
               /\ rsync'[t].lost => ~ rsync'[t].ok
    <3>1. rsync'[t] = [rsync[t] EXCEPT !.pc = "over", !.todo = {}]
      BY <1>1, Zenon
    <3>2. rsync[t] \in Rsyncs /\ (rsync[t].lost => ~ rsync[t].ok)
      BY RsyncNow
    <3>. QED
      BY <3>1, <3>2 DEF Rsyncs
  <2>2. rsync' = [t \in Nodes |-> rsync'[t]]
    BY <1>1, Zenon
  <2>. QED
    BY <2>1, <2>2, Zenon
<1>4. Types' /\ Lists'
  BY <1>1, <1>2, <1>3, NodesAndPlaces DEF Inv, user, Types, Lists
<1>5. Order' /\ Existence' /\ Progress' /\ Complete' /\ OnlyCopies'
  BY <1>1, <1>2, <1>3, NodesAndPlaces
     DEF Inv, user, Order, Existence, Progress, Complete, OnlyCopies, Moved, SomeCopy,
         Copying
<1>6. Dates' /\ Lineage' /\ Ages'
  <2>1. \A p \in Places : Dated(store'[p], clock) /\ store'[p].writes = {}
    BY <1>1, NothingThere, Zenon
  <2>. QED
    BY <1>1, <2>1, NodesAndPlaces DEF Inv, user, Dates, Lineage, Ages, Kept
<1>. QED
  BY <1>4, <1>5, <1>6 DEF Inv

\* Every step of the user, the rsyncs, the script and the admin keeps Inv.
THEOREM InvInductive == ASSUME Inv, [Next]_vars PROVE Inv'
<1>1. CASE Verify \/ Fail
  <2>1. /\ UNCHANGED <<user, disk, passwd, rsync, seen>>
        /\ \E told \in {"complete", "verification failed", "error"} : End(told)
    BY <1>1, Zenon DEF Verify, Fail
  <2>. QED
    BY <2>1, EndInv DEF Ends
<1>2. CASE UNCHANGED vars
  <2>1. UNCHANGED <<user, disk, passwd, rsync, seen>> /\ script' = script
    BY <1>2, Zenon DEF vars, user, disk
  <2>2. Order' /\ Progress' /\ Complete'
    BY <2>1, Zenon
       DEF Inv, user, disk, Order, Progress, Complete, Moved, SomeCopy, Copying,
           Delivered, Kept
  <2>. QED
    BY <2>1, <2>2, ScriptOnly DEF Inv, Types
<1>. QED
  BY <1>1, <1>2, LoginInv, WriteLocalInv, DeleteLocalInv, WriteStoreInv, DeleteStoreInv,
     RsyncListInv, RsyncCopyInv, RsyncFailsInv, PreflightInv, WhoInv, PreCreateInv,
     WaitAllInv, ChownInv, UsermodInv, DeletePartialInv, Zenon DEF Next

\* Inv holds in every state a migration can reach.
THEOREM InvCorrect == Spec => []Inv
BY InitInv, InvInductive, PTL DEF Spec

-----------------------------------------------------------------------------
\* Type correctness, for any number of nodes and files, of changes by the user and
\* of attempts; in particular that a new home that does not exist holds no files,
\* also while rsyncs of a stopped script run on.
THEOREM TypeCorrect == Spec => []TypeOK
<1>1. Inv => TypeOK
  BY DEF Inv, Types, Dates, Dated, Homes, Lists, Existence, TypeOK
<1>. QED
  BY <1>1, InvCorrect, PTL

\* However often migrate-home.sh fails, is interrupted or is run again, and
\* whatever the user does meanwhile, no login finds a new home that lacks a file
\* (the exit statuses in migrate-home.sh, before usermod).
THEOREM MovedMeansCopiedCorrect == Spec => []MovedMeansCopied
<1>1. Inv => MovedMeansCopied
  <2>. SUFFICES ASSUME Inv, Moved, NEW p \in Places, Origins(p) # {}
                PROVE  \E u \in Origins(p) : Kept(p, seen[u][p], store[p])
    BY DEF MovedMeansCopied, Moved
  <2>1. PICK t \in Nodes : p \in PlacesOf(t)
    BY DEF Origins
  <2>. QED
    BY <2>1 DEF Inv, Complete, Delivered
<1>. QED
  BY <1>1, InvCorrect, PTL

\* Following the advice to delete a partial copy loses nothing (the message
\* after a failed rsync in migrate-home.sh), also while an rsync whose link was
\* lost goes on.
THEOREM DeleteLosesNothingCorrect == Spec => []DeleteLosesNothing
<1>1. Inv => DeleteLosesNothing
  BY DEF Inv, Order, OnlyCopies, DeleteLosesNothing
<1>. QED
  BY <1>1, InvCorrect, PTL

-----------------------------------------------------------------------------
(* Cleanup.  The states its two scripts are for are ones in which an entry *)
(* of passwd has moved, and then every place is delivered.                 *)

\* The script says "complete" only when entries have moved, and they stay moved.
SaidComplete == script.told = "complete" => Moved

LEMMA SaidCompleteInductive ==
    ASSUME Inv, SaidComplete, [Next]_vars
    PROVE  SaidComplete'
<1>1. script \in Scripts /\ passwd \in [Nodes -> Homes] /\ 0 \in Nodes
  BY NodesAndPlaces DEF Inv, Types
<1>2. script.pc = "verify" /\ (\A t \in Nodes : passwd[t] = "/storage") => Moved
  BY <1>1 DEF Moved
<1>3. CASE passwd' = passwd /\ script'.told \in {script.told} \union (Ends \ {"complete"})
  BY <1>3 DEF SaidComplete, Moved
<1>4. CASE passwd' = passwd /\ script' = script
  BY <1>4 DEF SaidComplete, Moved
<1>5. CASE Usermod
  <2>. DEFINE t == script.node
  <2>1. t \in Nodes /\ script.pc = "usermod"
    BY <1>1, <1>5 DEF Scripts, Usermod, At
  <2>2. CASE session[t] # "none"
    <3>1. End("user is busy")
      BY <1>5, <2>2, Zenon DEF Usermod
    <3>2. script'.told = "user is busy"
      BY <1>1, <3>1, EndFacts DEF Ends
    <3>. QED
      BY <3>2 DEF SaidComplete
  <2>3. CASE session[t] = "none"
    <3>1. passwd' = [passwd EXCEPT ![t] = "/storage"]
      BY <1>5, <2>3, Zenon DEF Usermod
    <3>. QED
      BY <1>1, <2>1, <3>1 DEF SaidComplete, Moved
  <2>. QED
    BY <2>2, <2>3
<1>6. CASE Preflight
  <2>1. passwd' = passwd
    BY <1>6 DEF Preflight
  <2>2. CASE passwd[0] = "/home"
    <3>1. script' = [pc |-> "who", node |-> 0, attempt |-> script.attempt + 1,
                     told |-> "nothing"]
      BY <1>6, <2>2, Zenon DEF Preflight
    <3>2. script'.told = "nothing"
      BY <3>1
    <3>. QED
      BY <1>3, <2>1, <3>2 DEF Ends
  <2>3. CASE passwd[0] # "/home"
    <3>1. script' = [script EXCEPT !.attempt = @ + 1, !.told = "already migrated?"]
      BY <1>6, <2>3, Zenon DEF Preflight
    <3>2. script' = [pc |-> script.pc, node |-> script.node,
                     attempt |-> script.attempt + 1, told |-> "already migrated?"]
      BY <1>1, <3>1, Zenon DEF Scripts
    <3>3. script'.told = "already migrated?"
      BY <3>2
    <3>. QED
      BY <1>3, <2>1, <3>3 DEF Ends
  <2>. QED
    BY <2>2, <2>3
<1>7. CASE Who \/ PreCreate \/ WaitAll \/ Chown \/ Fail \/ DeletePartial
  <2>1. /\ passwd' = passwd
        /\ \/ \E told \in Ends \ {"complete"} : End(told)
           \/ GoOn /\ ~ IsLast(script.node)
           \/ \E pc \in Phases : Go(pc)
    <3>1. /\ passwd' = passwd
          /\ \/ \E told \in {"active session", "already exists", "delete and retry",
                             "error", "nothing"} : End(told)
             \/ GoOn /\ ~ IsLast(script.node)
             \/ \E pc \in {"install", "rsync", "chown", "usermod"} : Go(pc)
      BY <1>7, Zenon DEF Who, PreCreate, WaitAll, Chown, Fail, DeletePartial
    <3>. QED
      BY <3>1 DEF Ends, Phases
  <2>. QED
    BY <1>1, <1>3, <2>1, EndFacts, GoOnFacts, GoFacts
<1>8. CASE Verify
  <2>1. \/ End("verification failed") /\ passwd' = passwd
        \/ passwd' = passwd /\ \A t \in Nodes : passwd[t] = "/storage"
    BY <1>8, Zenon DEF Verify
  <2>2. CASE End("verification failed") /\ passwd' = passwd
    BY <1>1, <1>3, <2>2, EndFacts DEF Ends
  <2>. QED
    BY <1>1, <2>1, <2>2 DEF SaidComplete, Moved
<1>9. CASE UNCHANGED <<passwd, script>>
  BY <1>4, <1>9
<1>10. ASSUME NEW t \in Nodes,
              \/ Login(t) \/ Logout(t)
              \/ WriteLocal(t) \/ DeleteLocal(t) \/ WriteStore(t) \/ DeleteStore(t)
              \/ RsyncList(t) \/ RsyncCopy(t) \/ RsyncVanished(t) \/ RsyncFails(t)
              \/ LinkLost(t)
       PROVE  UNCHANGED <<passwd, script>>
  BY <1>10, Zenon
     DEF Login, Logout, WriteLocal, DeleteLocal, WriteStore, DeleteStore, RsyncList,
         RsyncCopy, RsyncVanished, RsyncFails, LinkLost
<1>11. UNCHANGED vars => UNCHANGED <<passwd, script>>
  BY Zenon DEF vars
<1>. QED
  BY <1>5, <1>6, <1>7, <1>8, <1>9, <1>10, <1>11, Zenon DEF Next

LEMMA SaidCompleteCorrect == Spec => []SaidComplete
<1>1. Init => SaidComplete
  BY DEF Init, SaidComplete
<1>. QED
  BY <1>1, SaidCompleteInductive, InvCorrect, PTL DEF Spec

-----------------------------------------------------------------------------
\* What a complete migration means for one place of a node.
LEMMA CopyOf ==
    ASSUME Inv, SaidComplete, Migrated, NEW t \in Nodes, NEW p \in PlacesOf(t)
    PROVE  /\ p \in Places
           /\ home[t][p] \in Files /\ store[p] \in Files
           /\ Dated(home[t][p], clock) /\ Dated(store[p], clock)
           /\ gone[p] = {} /\ seen[t][p] # Absent => store[p] # Absent
           /\ Origins(p) = {t} => Kept(p, seen[t][p], store[p])
<1>1. p \in Places
  BY NodesAndPlaces
<1>2. Delivered(t, p)
  BY DEF SaidComplete, Migrated, Inv, Complete
<1>3. Origins(p) = {t} => Kept(p, seen[t][p], store[p])
  BY <1>2 DEF Delivered
<1>. QED
  BY <1>1, <1>2, <1>3 DEF Inv, Types, Dates, Delivered

\* A place that only one node's rsync writes to is in that node's part of the copy.
LEMMA OwnPart ==
    ASSUME NEW t \in Nodes, NEW p \in PlacesOf(t), Origins(p) = {t}
    PROVE  p[1] = t
<1>1. Nested \subseteq Nodes /\ 0 \notin Nested
  BY MigrateAssumption DEF Nodes
<1>2. CASE t # 0
  BY <1>2 DEF PlacesOf
<1>3. CASE t = 0
  <2>1. p \in ({0} \union Nested) \X Names
    BY <1>3 DEF PlacesOf
  <2>2. ASSUME p[1] \in Nested PROVE FALSE
    <3>1. p[1] \in Nodes /\ p[1] # 0 /\ p \in {p[1]} \X Names
      BY <1>1, <2>1, <2>2
    <3>2. p[1] \in Origins(p)
      BY <3>1 DEF Origins, PlacesOf
    <3>. QED
      BY <1>3, <3>1, <3>2
  <2>. QED
    BY <1>3, <2>1, <2>2
<1>. QED
  BY <1>2, <1>3

\* What migrate-audit.py reports of a complete migration is the user's doing, and
\* what it does not report is in the copy or was written there later, for any number
\* of nodes, of files, of changes and of attempts before the one that ended well.
THEOREM AuditTellsCorrect == Spec => []AuditTells
<1>1. ASSUME Inv, SaidComplete, Migrated,
             NEW t \in Nodes, NEW p \in Source(t), Origins(p) = {t}
      PROVE  IF p \in Reported(t)
             THEN \/ ~ (home[t][p].writes \subseteq seen[t][p].writes)
                  \/ home[t][p].writes \cap gone[p] # {}
             ELSE \/ home[t][p].writes \subseteq store[p].writes
                  \/ home[t][p].mtime < store[p].mtime
  <2>1. p \in PlacesOf(t) /\ home[t][p] # Absent
    BY DEF Source
  <2>2. /\ p \in Places /\ p[1] = t
        /\ home[t][p] \in Files /\ store[p] \in Files
        /\ Dated(home[t][p], clock) /\ Dated(store[p], clock)
        /\ seen[t][p].writes \subseteq store[p].writes \union gone[p]
    BY <1>1, <2>1, CopyOf, OwnPart DEF Kept
  <2>3. /\ home[t][p].mtime \in home[t][p].writes
        /\ \A v \in home[t][p].writes : v <= home[t][p].mtime
        /\ home[t][p].mtime \in Nat /\ store[p].mtime \in Nat
    BY <2>1, <2>2 DEF Dated, Files
  <2>4. /\ store[p] = Absent => store[p].writes = {}
        /\ store[p] # Absent => /\ store[p].mtime \in store[p].writes
                                /\ \A w \in store[p].writes : w <= store[p].mtime
    BY <2>2 DEF Dated, Absent
  <2>5. p \in Dest(t) <=> store[p] # Absent
    BY <2>2 DEF Dest
  <2>6. CASE p \in Missing(t)
    BY <2>2, <2>3, <2>4, <2>5, <2>6 DEF Missing, Reported
  <2>7. CASE p \in Older(t)
    <3>1. store[p] # Absent /\ store[p].mtime < home[t][p].mtime
      BY <2>5, <2>7 DEF Older
    <3>2. home[t][p].mtime \notin store[p].writes
      BY <2>3, <2>4, <3>1
    <3>. QED
      BY <2>2, <2>3, <2>7, <3>2 DEF Reported
  <2>8. CASE p \notin Missing(t) /\ p \notin Older(t)
    <3>1. store[p] # Absent /\ home[t][p].mtime <= store[p].mtime
      BY <1>1, <2>3, <2>5, <2>8 DEF Missing, Older
    <3>2. CASE home[t][p].mtime = store[p].mtime
      <4>1. home[t][p].mtime \in home[t][p].writes \cap store[p].writes
        BY <2>3, <2>4, <3>1, <3>2
      <4>2. \A v \in home[t][p].writes : v \in store[p].writes
        BY <1>1, <2>1, <2>3, <4>1 DEF Inv, Lineage
      <4>. QED
        BY <2>8, <4>2 DEF Reported
    <3>3. CASE home[t][p].mtime < store[p].mtime
      BY <2>8, <3>3 DEF Reported
    <3>. QED
      BY <2>3, <3>1, <3>2, <3>3
  <2>. QED
    BY <2>6, <2>7, <2>8
<1>2. Inv /\ SaidComplete => AuditTells
  BY <1>1 DEF AuditTells
<1>. QED
  BY <1>2, InvCorrect, SaidCompleteCorrect, PTL

\* A link that fix-symlinks.py takes for one of its own node's gets the place its
\* file has in the copy.
LEMMA NewTargetOf ==
    ASSUME NEW link \in Links, link.top \notin Nested \/ link.node # 0
    PROVE  /\ link.node \in Nodes /\ link.led \in PlacesOf(link.node)
           /\ NewTarget(link) = {link.led}
<1>1. PICK t \in Nodes : link \in LinksFrom(t)
  BY DEF Links
<1>. DEFINE Tops == IF t = 0 THEN {0} \union Nested ELSE {t}
<1>4. PICK d \in Tops, p \in PlacesOf(t) :
         link = [node |-> t, top |-> d, led |-> p, rest |-> RestOf(t, p)]
  BY <1>1 DEF LinksFrom
<1>2. CASE t = 0
  BY <1>4, <1>2 DEF RestOf, NewTarget, ScopeRoot
<1>3. CASE t # 0
  <2>1. d = t /\ p = <<t, p[2]>>
    BY <1>4, <1>3 DEF PlacesOf
  <2>2. link.rest = <<0, p[2]>> /\ ScopeRoot(link) = t
    BY <1>4, <1>3, <2>1 DEF RestOf, ScopeRoot
  <2>. QED
    BY <1>4, <1>3, <2>1, <2>2 DEF NewTarget
<1>. QED
  BY <1>2, <1>3

\* No link of a migrated home to a file the migration found there is left behind by
\* fix-symlinks.py or led to another node's file of the same name, whatever
\* directories the homes have, as long as nothing is deleted there.
THEOREM RelinkedReachesCopyCorrect == Spec => []RelinkedReachesCopy
<1>1. ASSUME Inv, SaidComplete, Migrated,
             NEW link \in Links, link.top \notin Nested \/ link.node # 0,
             seen[link.node][link.led] # Absent, gone[link.led] = {}
      PROVE  /\ link \in Rewritten(TRUE)
             /\ ScopeRoot(link) = 0 => link \in Rewritten(FALSE)
             /\ Origins(link.led) = {link.node} =>
                   \E p \in NewTarget(link) :
                      seen[link.node][link.led].writes \subseteq store[p].writes
  <2>1. /\ link.node \in Nodes /\ link.led \in PlacesOf(link.node)
        /\ NewTarget(link) = {link.led}
    BY <1>1, NewTargetOf
  <2>2. /\ store[link.led] # Absent
        /\ Origins(link.led) = {link.node} =>
              seen[link.node][link.led].writes \subseteq store[link.led].writes
    BY <1>1, <2>1, CopyOf DEF Kept
  <2>. QED
    BY <2>1, <2>2 DEF Rewritten
<1>2. Inv /\ SaidComplete => RelinkedReachesCopy
  BY <1>1 DEF RelinkedReachesCopy
<1>. QED
  BY <1>2, InvCorrect, SaidCompleteCorrect, PTL
=============================================================================
