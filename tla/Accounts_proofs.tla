---------------------------- MODULE Accounts_proofs ----------------------------
(***************************************************************************)
(* Proofs about Accounts, for any number of nodes, names and overlapping   *)
(* runs, and however much is made by hand.                                 *)
(***************************************************************************)
EXTENDS Accounts, FiniteSetTheorems, TLAPS

Anyone    == Names \union Local
Entries   == [name : Anyone, uid : Nat, gid : Nat]
GEntries  == [name : Anyone, gid : Nat]
HEntries  == [uid : Nat, gid : Nat, ssh : SUBSET Range(SshSteps)]
Phases    == {"id", "home", "origin", "groupadd", "useradd", "ssh"}
RunStates == [pc : Phases, user : Names, node : Nat, uid : Nat, gid : Nat]

Types ==
    /\ passwd \in [Nodes -> SUBSET Entries]
    /\ group \in [Nodes -> SUBSET GEntries]
    /\ home \in [Names -> SUBSET HEntries]
    /\ run \in [Runs -> RunStates \union {NoRun}]
    /\ stopped \subseteq Names

\* Each table has one entry for a name and for a number, and a largest number.
HasMax(S) == \E m \in S : \A i \in S : i <= m

UserTable(t) ==
    /\ \A e, f \in passwd[t] : e.name = f.name \/ e.uid = f.uid => e = f
    /\ HasMax(Uids(t) \union {0})

GroupTable(t) ==
    /\ \A g, h \in group[t] : g.name = h.name \/ g.gid = h.gid => g = h
    /\ HasMax(Gids(t) \union {0})

Tables == \A t \in Nodes : UserTable(t) /\ GroupTable(t)

\* Where a run is in its loops.
Nodewise ==
    \A r \in Runs : /\ run[r].pc = "id" => run[r].node \in Nodes
                    /\ run[r].pc \in {"groupadd", "useradd"} => run[r].node \in Nodes \ {0}
                    /\ run[r].pc = "ssh" => run[r].node \in DOMAIN SshSteps

\* u has the numbers of its home h on node t.
GroupDone(t, u, h) == [name |-> u, gid |-> h.gid] \in group[t]
Done(t, u, h) == /\ [name |-> u, uid |-> h.uid, gid |-> h.gid] \in passwd[t]
                 /\ GroupDone(t, u, h)

Homes ==
    \A u \in Names : \A h \in home[u] :
        /\ \A g \in home[u] : g = h
        /\ Done(0, u, h)
        /\ h.ssh # {} => \A t \in Nodes : Done(t, u, h)

\* A run that has made its user on tpu0.
Past(r) == run[r].pc \in {"groupadd", "useradd", "ssh"}

Passing ==
    \A r \in Runs : Past(r) =>
        \E h \in home[run[r].user] :
            /\ h.uid = run[r].uid /\ h.gid = run[r].gid
            /\ \A t \in Nodes : run[r].pc = "ssh" \/ t < run[r].node => Done(t, run[r].user, h)
            /\ run[r].pc = "useradd" => GroupDone(run[r].node, run[r].user, h)

\* It is the only one for this user, and none if one has stopped.
Alone ==
    /\ \A r, s \in Runs : Past(r) /\ Past(s) /\ run[r].user = run[s].user => r = s
    /\ \A u \in stopped : home[u] # {} /\ \A r \in Runs : Past(r) => run[r].user # u

Inv == Types /\ Tables /\ Nodewise /\ Homes /\ Passing /\ Alone /\ NodesAgree

-----------------------------------------------------------------------------
(* The numbers useradd and groupadd assign. *)

\* The next free number is a number, and free.  That there is a largest number to
\* count on from is carried along as an invariant.
LEMMA NextFreeIsFree ==
    ASSUME NEW ids \in SUBSET Nat, HasMax(ids \union {0})
    PROVE  NextFree(ids) \in Nat /\ NextFree(ids) \notin ids
<1>. DEFINE all == ids \union {0}
            top == Max(all)
<1>1. PICK m \in all : \A i \in all : i <= m
  BY DEF HasMax
<1>2. top \in all /\ \A i \in all : top >= i
  <2>1. \E x \in all : \A y \in all : x >= y
    BY <1>1
  <2>. QED
    BY <2>1, Zenon DEF Max
<1>3. NextFree(ids) = 1 + top
  BY DEF NextFree
<1>. HIDE DEF top
<1>. QED
  BY <1>2, <1>3

LEMMA HasMaxAdd ==
    ASSUME NEW S \in SUBSET Nat, NEW n \in Nat, HasMax(S)
    PROVE  HasMax(S \union {n})
<1>1. PICK m \in S : \A i \in S : i <= m
  BY DEF HasMax
<1>2. CASE n <= m
  BY <1>1, <1>2 DEF HasMax
<1>3. CASE ~ (n <= m)
  <2>1. \A i \in S \union {n} : i <= n
    BY <1>1, <1>3
  <2>. QED
    BY <2>1 DEF HasMax
<1>. QED
  BY <1>2, <1>3

LEMMA NodesFacts ==
    /\ LastNode \in Nat \ {0} /\ 0 \in Nodes /\ 1 \in Nodes /\ LastNode \in Nodes
    /\ \A t \in Nodes : t \in Nat /\ t <= LastNode
    /\ \A t \in Nodes : ~ IsLast(t) => t + 1 \in Nodes
BY AccountsAssumption DEF Nodes, IsLast

\* The numbers of a node's users and groups.
LEMMA IdsFacts ==
    ASSUME Types, NEW t \in Nodes
    PROVE  /\ Uids(t) \in SUBSET Nat /\ Gids(t) \in SUBSET Nat
           /\ passwd[t] \in SUBSET Entries /\ group[t] \in SUBSET GEntries
<1>1. passwd[t] \in SUBSET Entries /\ group[t] \in SUBSET GEntries
  BY DEF Types
<1>2. \A e \in passwd[t] : e.uid \in Nat
  BY <1>1 DEF Entries
<1>3. \A g \in group[t] : g.gid \in Nat
  BY <1>1 DEF GEntries
<1>. QED
  BY <1>1, <1>2, <1>3 DEF Uids, Gids

LEMMA NewIds ==
    ASSUME Types, Tables, NEW t \in Nodes
    PROVE  /\ NewUid(t) \in Nat /\ NewUid(t) \notin Uids(t)
           /\ NewGid(t) \in Nat /\ NewGid(t) \notin Gids(t)
           /\ NextFree(Gids(t)) \in Nat /\ NextFree(Gids(t)) \notin Gids(t)
<1>1. HasMax(Uids(t) \union {0}) /\ HasMax(Gids(t) \union {0})
  BY DEF Tables, UserTable, GroupTable
<1>2. NextFree(Uids(t)) \in Nat /\ NextFree(Uids(t)) \notin Uids(t)
  BY <1>1, IdsFacts, NextFreeIsFree
<1>3. NextFree(Gids(t)) \in Nat /\ NextFree(Gids(t)) \notin Gids(t)
  BY <1>1, IdsFacts, NextFreeIsFree
<1>. QED
  BY <1>2, <1>3, Zenon DEF NewUid, NewGid

-----------------------------------------------------------------------------
(* The tables grow by entries whose name and number are free. *)

LEMMA AddUserTable ==
    ASSUME Types, Tables, NEW t \in Nodes,
           NEW u \in Anyone, NEW uid \in Nat, NEW gid \in Nat,
           ~ UserTaken(t, u, uid), AddUser(t, u, uid, gid)
    PROVE  /\ passwd' \in [Nodes -> SUBSET Entries]
           /\ \A s \in Nodes : UserTable(s)'
           /\ passwd'[t] = passwd[t] \union {[name |-> u, uid |-> uid, gid |-> gid]}
           /\ \A s \in Nodes : s # t => passwd'[s] = passwd[s]
<1>. DEFINE new == [name |-> u, uid |-> uid, gid |-> gid]
<1>1. new \in Entries
  BY DEF Entries
<1>2. passwd' = [passwd EXCEPT ![t] = @ \union {new}]
  BY Zenon DEF AddUser
<1>3. passwd \in [Nodes -> SUBSET Entries]
  BY DEF Types
<1>4. new.name = u /\ new.uid = uid
  OBVIOUS
<1>. HIDE DEF new
<1>5. /\ passwd' \in [Nodes -> SUBSET Entries]
      /\ passwd'[t] = passwd[t] \union {new}
      /\ \A s \in Nodes : s # t => passwd'[s] = passwd[s]
  BY <1>1, <1>2, <1>3
<1>6. UserTable(t)'
  <2>1. \A e \in passwd[t] : e.name # u /\ e.uid # uid
    BY DEF UserTaken, Users, Uids
  <2>2. \A e, f \in passwd'[t] : e.name = f.name \/ e.uid = f.uid => e = f
    BY <1>4, <1>5, <2>1 DEF Tables, UserTable
  <2>3. Uids(t)' = Uids(t) \union {uid}
    BY <1>4, <1>5 DEF Uids
  <2>4. HasMax((Uids(t) \union {0}) \union {uid})
    <3>1. HasMax(Uids(t) \union {0}) /\ Uids(t) \union {0} \in SUBSET Nat
      BY IdsFacts DEF Tables, UserTable
    <3>. QED
      BY <3>1, HasMaxAdd
  <2>5. (Uids(t) \union {0}) \union {uid} = Uids(t)' \union {0}
    BY <2>3
  <2>6. HasMax(Uids(t)' \union {0})
    BY <2>4, <2>5
  <2>. QED
    BY <2>2, <2>6 DEF UserTable, HasMax
<1>7. \A s \in Nodes : s # t => UserTable(s)'
  BY <1>5 DEF Tables, UserTable, Uids, HasMax
<1>. QED
  BY <1>5, <1>6, <1>7 DEF new

LEMMA AddGroupTable ==
    ASSUME Types, Tables, NEW t \in Nodes,
           NEW u \in Anyone, NEW gid \in Nat,
           ~ GroupTaken(t, u, gid), AddGroup(t, u, gid)
    PROVE  /\ group' \in [Nodes -> SUBSET GEntries]
           /\ \A s \in Nodes : GroupTable(s)'
           /\ group'[t] = group[t] \union {[name |-> u, gid |-> gid]}
           /\ \A s \in Nodes : s # t => group'[s] = group[s]
<1>. DEFINE new == [name |-> u, gid |-> gid]
<1>1. new \in GEntries
  BY DEF GEntries
<1>2. group' = [group EXCEPT ![t] = @ \union {new}]
  BY Zenon DEF AddGroup
<1>3. group \in [Nodes -> SUBSET GEntries]
  BY DEF Types
<1>4. new.name = u /\ new.gid = gid
  OBVIOUS
<1>. HIDE DEF new
<1>5. /\ group' \in [Nodes -> SUBSET GEntries]
      /\ group'[t] = group[t] \union {new}
      /\ \A s \in Nodes : s # t => group'[s] = group[s]
  BY <1>1, <1>2, <1>3
<1>6. GroupTable(t)'
  <2>1. \A g \in group[t] : g.name # u /\ g.gid # gid
    BY DEF GroupTaken, Groups, Gids
  <2>2. \A g, h \in group'[t] : g.name = h.name \/ g.gid = h.gid => g = h
    BY <1>4, <1>5, <2>1 DEF Tables, GroupTable
  <2>3. Gids(t)' = Gids(t) \union {gid}
    BY <1>4, <1>5 DEF Gids
  <2>4. HasMax((Gids(t) \union {0}) \union {gid})
    <3>1. HasMax(Gids(t) \union {0}) /\ Gids(t) \union {0} \in SUBSET Nat
      BY IdsFacts DEF Tables, GroupTable
    <3>. QED
      BY <3>1, HasMaxAdd
  <2>5. (Gids(t) \union {0}) \union {gid} = Gids(t)' \union {0}
    BY <2>3
  <2>6. HasMax(Gids(t)' \union {0})
    BY <2>4, <2>5
  <2>. QED
    BY <2>2, <2>6 DEF GroupTable, HasMax
<1>7. \A s \in Nodes : s # t => GroupTable(s)'
  BY <1>5 DEF Tables, GroupTable, Gids, HasMax
<1>. QED
  BY <1>5, <1>6, <1>7 DEF new

-----------------------------------------------------------------------------
(* The rest of the state while the tables grow. *)

Grown == \A t \in Nodes : passwd[t] \subseteq passwd'[t] /\ group[t] \subseteq group'[t]

\* What is done stays done.
LEMMA DoneStays ==
    ASSUME Grown, NEW t \in Nodes, NEW u, NEW h
    PROVE  /\ Done(t, u, h) => Done(t, u, h)'
           /\ GroupDone(t, u, h) => GroupDone(t, u, h)'
BY DEF Grown, Done, GroupDone

LEMMA HomesStay ==
    ASSUME Inv, Grown, UNCHANGED home
    PROVE  Homes'
<1>1. Homes /\ home' = home
  BY DEF Inv
<1>2. ASSUME NEW u \in Names, NEW h \in home[u], NEW t \in Nodes, Done(t, u, h)
      PROVE  Done(t, u, h)'
  BY <1>2, DoneStays
<1>. QED
  BY <1>1, <1>2, NodesFacts DEF Homes

\* A run that has made its user, as far as it has come.
Passed(r) ==
    \E h \in home[run[r].user] :
        /\ h.uid = run[r].uid /\ h.gid = run[r].gid
        /\ \A t \in Nodes : run[r].pc = "ssh" \/ t < run[r].node => Done(t, run[r].user, h)
        /\ run[r].pc = "useradd" => GroupDone(run[r].node, run[r].user, h)

LEMMA PassedStays ==
    ASSUME Inv, Grown, NEW r \in Runs, Past(r), run'[r] = run[r],
           home'[run[r].user] = home[run[r].user]
    PROVE  Passed(r)'
<1>. DEFINE u == run[r].user
<1>1. run[r].pc = "useradd" => run[r].node \in Nodes
  BY DEF Inv, Nodewise
<1>2. PICK h \in home[u] :
        /\ h.uid = run[r].uid /\ h.gid = run[r].gid
        /\ \A t \in Nodes : run[r].pc = "ssh" \/ t < run[r].node => Done(t, u, h)
        /\ run[r].pc = "useradd" => GroupDone(run[r].node, u, h)
  BY DEF Inv, Passing
<1>3. \A t \in Nodes : /\ Done(t, u, h) => Done(t, u, h)'
                       /\ GroupDone(t, u, h) => GroupDone(t, u, h)'
  BY DEF Grown, Done, GroupDone
<1>4. \A t \in Nodes : run[r].pc = "ssh" \/ t < run[r].node => Done(t, u, h)'
  BY <1>2, <1>3
<1>5. run[r].pc = "useradd" => GroupDone(run[r].node, u, h)'
  BY <1>1, <1>2, <1>3
<1>. QED
  BY <1>2, <1>4, <1>5 DEF Passed, Done, GroupDone

\* One run moves, and not into the part behind the making of its user.
LEMMA RunBackInv ==
    ASSUME Inv, UNCHANGED <<passwd, group, home, byHand>>, NEW r \in Runs,
           NEW new \in RunStates \union {NoRun}, run' = [run EXCEPT ![r] = new],
           new.pc \in {"none", "id", "home", "origin"},
           new.pc = "id" => new.node \in Nodes,
           stopped' \subseteq Names,
           \A u \in stopped' : u \in stopped \/ (Past(r) /\ u = run[r].user)
    PROVE  Inv'
<1>1. /\ run' \in [Runs -> RunStates \union {NoRun}] /\ run'[r] = new
      /\ \A s \in Runs : s # r => run'[s] = run[s]
  BY DEF Inv, Types
<1>2. Types' /\ Tables' /\ NodesAgree'
  BY <1>1 DEF Inv, Types, Tables, UserTable, GroupTable, Uids, Gids, HasMax, NodesAgree
<1>3. Nodewise'
  BY <1>1 DEF Inv, Nodewise
<1>4. Grown
  BY DEF Grown
<1>5. Homes'
  BY <1>4, HomesStay
<1>6. \A s \in Runs : Past(s)' => s # r /\ Past(s)
  BY <1>1 DEF Past
<1>7. Passing'
  <2>1. ASSUME NEW s \in Runs, Past(s)' PROVE Passed(s)'
    BY <1>1, <1>4, <1>6, <2>1, PassedStays
  <2>. QED
    BY <2>1 DEF Passing, Passed
<1>8. Alone'
  <2>1. ASSUME NEW u \in stopped' PROVE home[u] # {}
    <3>1. CASE u \in stopped
      BY <3>1 DEF Inv, Alone
    <3>2. CASE Past(r) /\ u = run[r].user
      BY <3>2 DEF Inv, Passing
    <3>. QED
      BY <3>1, <3>2
  <2>2. ASSUME NEW u \in stopped', NEW s \in Runs, Past(s)' PROVE run'[s].user # u
    <3>1. s # r /\ Past(s) /\ run'[s] = run[s]
      BY <1>1, <1>6, <2>2
    <3>. QED
      BY <3>1 DEF Inv, Alone
  <2>3. \A s, q \in Runs : Past(s)' /\ Past(q)' /\ run'[s].user = run'[q].user => s = q
    BY <1>1, <1>6 DEF Inv, Alone
  <2>. QED
    BY <2>1, <2>2, <2>3 DEF Alone
<1>. QED
  BY <1>2, <1>3, <1>5, <1>7, <1>8 DEF Inv

-----------------------------------------------------------------------------
(* The steps of a run that only move it. *)

LEMMA RunFacts ==
    ASSUME Types, NEW r \in Runs, ~ At(r, "none")
    PROVE  /\ run[r] \in RunStates /\ run[r].user \in Names
           /\ run[r].node \in Nat /\ run[r].uid \in Nat /\ run[r].gid \in Nat
BY DEF Types, At, NoRun, RunStates

LEMMA GoRecord ==
    ASSUME NEW old \in RunStates, NEW n \in Nat,
           NEW pc \in Phases
    PROVE  [[old EXCEPT !.pc = pc] EXCEPT !.node = n] =
               [pc |-> pc, user |-> old.user, node |-> n, uid |-> old.uid, gid |-> old.gid]
<1>1. [old EXCEPT !.pc = pc] = [pc |-> pc, user |-> old.user, node |-> old.node,
                                uid |-> old.uid, gid |-> old.gid]
  BY DEF RunStates
<1>2. [[pc |-> pc, user |-> old.user, node |-> old.node, uid |-> old.uid,
        gid |-> old.gid] EXCEPT !.node = n] =
          [pc |-> pc, user |-> old.user, node |-> n, uid |-> old.uid, gid |-> old.gid]
  OBVIOUS
<1>. QED
  BY <1>1, <1>2, Zenon

LEMMA GoFacts ==
    ASSUME Types, NEW r \in Runs, ~ At(r, "none"), NEW n \in Nat,
           NEW pc \in Phases, Go(r, pc, n)
    PROVE  \E new \in RunStates :
              /\ new = [pc |-> pc, user |-> run[r].user, node |-> n,
                        uid |-> run[r].uid, gid |-> run[r].gid]
              /\ run' = [run EXCEPT ![r] = new]
              /\ stopped' = stopped
<1>. DEFINE new == [pc |-> pc, user |-> run[r].user, node |-> n,
                    uid |-> run[r].uid, gid |-> run[r].gid]
<1>1. run[r] \in RunStates
  BY RunFacts
<1>2. new \in RunStates
  BY RunFacts DEF RunStates
<1>3. [[run[r] EXCEPT !.pc = pc] EXCEPT !.node = n] = new
  BY <1>1, GoRecord, Zenon
<1>4. run' = [run EXCEPT ![r] = new]
  <2>1. run \in [Runs -> RunStates \union {NoRun}]
    BY DEF Types
  <2>2. run' = [[run EXCEPT ![r].pc = pc] EXCEPT ![r].node = n]
    BY DEF Go
  <2>3. [run EXCEPT ![r].pc = pc][r] = [run[r] EXCEPT !.pc = pc]
    BY <2>1, Zenon
  <2>. QED
    BY <1>3, <2>1, <2>2, <2>3, Zenon
<1>. QED
  BY <1>2, <1>4 DEF Go

LEMMA StartInv == ASSUME Inv, NEW r \in Runs, NEW u \in Names, Start(r, u) PROVE Inv'
<1>. DEFINE new == [pc |-> "id", user |-> u, node |-> 0, uid |-> 0, gid |-> 0]
<1>1. /\ new \in RunStates /\ new.pc = "id" /\ new.node \in Nodes
  BY NodesFacts DEF RunStates, Phases
<1>2. run' = [run EXCEPT ![r] = new]
  BY Zenon DEF Start
<1>3. UNCHANGED <<passwd, group, home, byHand, stopped>> /\ stopped \subseteq Names
  BY DEF Start, Inv, Types
<1>. HIDE DEF new
<1>. QED
  BY <1>1, <1>2, <1>3, RunBackInv

\* The script ends, and set -e stops it.
LEMMA EndInv ==
    ASSUME Inv, NEW r \in Runs, End(r), UNCHANGED <<passwd, group, home, byHand>>
    PROVE  Inv'
<1>1. run' = [run EXCEPT ![r] = NoRun] /\ stopped' = stopped /\ stopped \subseteq Names
  BY DEF End, Inv, Types
<1>2. NoRun.pc = "none"
  BY DEF NoRun
<1>. QED
  BY <1>1, <1>2, RunBackInv

LEMMA StopInv ==
    ASSUME Inv, NEW r \in Runs, ~ At(r, "none"), Stop(r),
           UNCHANGED <<passwd, group, home, byHand>>
    PROVE  Inv'
<1>1. run' = [run EXCEPT ![r] = NoRun] /\ NoRun.pc = "none"
  BY DEF Stop, NoRun
<1>2. /\ stopped' = stopped \union (IF Past(r) THEN {run[r].user} ELSE {})
      /\ run[r].user \in Names /\ stopped \subseteq Names
  BY RunFacts DEF Stop, Past, Inv, Types
<1>. QED
  BY <1>1, <1>2, RunBackInv

\* A run that only goes on, before it has made its user.
LEMMA GoInv ==
    ASSUME Inv, NEW r \in Runs, ~ At(r, "none"), UNCHANGED <<passwd, group, home, byHand>>,
           NEW pc \in {"id", "home", "origin"}, NEW n \in Nodes, Go(r, pc, n)
    PROVE  Inv'
<1>1. n \in Nat /\ pc \in Phases /\ Types /\ stopped \subseteq Names
  BY NodesFacts DEF Inv, Types, Phases
<1>2. PICK new \in RunStates :
         /\ new = [pc |-> pc, user |-> run[r].user, node |-> n,
                   uid |-> run[r].uid, gid |-> run[r].gid]
         /\ run' = [run EXCEPT ![r] = new] /\ stopped' = stopped
  BY <1>1, GoFacts
<1>3. new.pc = pc /\ new.node = n
  BY <1>2
<1>. QED
  BY <1>1, <1>2, <1>3, RunBackInv

LEMMA CheckIdInv == ASSUME Inv, NEW r \in Runs, CheckId(r) PROVE Inv'
<1>1. ~ At(r, "none") /\ run[r].node \in Nodes /\ 0 \in Nodes
  BY NodesFacts DEF CheckId, At, Inv, Nodewise
<1>2. UNCHANGED <<passwd, group, home, byHand>>
  BY DEF CheckId
<1>3. \/ End(r)
      \/ Go(r, "home", 0)
      \/ Go(r, "id", run[r].node + 1) /\ run[r].node + 1 \in Nodes
  BY <1>1, NodesFacts, Zenon DEF CheckId
<1>. QED
  BY <1>1, <1>2, <1>3, EndInv, GoInv

LEMMA CheckHomeInv == ASSUME Inv, NEW r \in Runs, CheckHome(r) PROVE Inv'
<1>1. ~ At(r, "none") /\ 0 \in Nodes /\ UNCHANGED <<passwd, group, home, byHand>>
  BY NodesFacts DEF CheckHome, At
<1>2. End(r) \/ Go(r, "origin", 0)
  BY DEF CheckHome
<1>. QED
  BY <1>1, <1>2, EndInv, GoInv

LEMMA FailInv == ASSUME Inv, NEW r \in Runs, Fail(r) PROVE Inv'
BY StopInv DEF Fail

-----------------------------------------------------------------------------
(* The steps that change the tables or a home. *)

\* What is made by hand meets no run: the numbers are free, the name is noted.
LEMMA ByHandInv ==
    ASSUME Inv, NEW t \in Nodes, NEW u \in Names \union Local, ByHand(t, u)
    PROVE  Inv'
<1>1. /\ u \in Anyone /\ u \notin Users(t) /\ u \notin Groups(t)
      /\ UNCHANGED <<home, run, stopped>>
      /\ byHand' = byHand \union {<<t, u>>}
      /\ Types /\ Tables
  BY DEF ByHand, Anyone, Inv
<1>2. /\ NewUid(t) \in Nat /\ NewUid(t) \notin Uids(t)
      /\ NewGid(t) \in Nat /\ NewGid(t) \notin Gids(t)
      /\ NextFree(Gids(t)) \in Nat /\ NextFree(Gids(t)) \notin Gids(t)
  BY <1>1, NewIds
<1>3. \E gid \in Nat : AddGroup(t, u, gid) /\ ~ GroupTaken(t, u, gid)
  BY <1>1, <1>2 DEF ByHand, GroupTaken
<1>4. \/ UNCHANGED passwd
      \/ \E gid \in Nat : /\ AddUser(t, u, NewUid(t), gid)
                          /\ ~ UserTaken(t, u, NewUid(t))
  BY <1>1, <1>2 DEF ByHand, UserTaken
<1>5. /\ group' \in [Nodes -> SUBSET GEntries]
      /\ \A s \in Nodes : GroupTable(s)' /\ group[s] \subseteq group'[s]
  <2>1. PICK gid \in Nat : AddGroup(t, u, gid) /\ ~ GroupTaken(t, u, gid)
    BY <1>3
  <2>2. /\ group' \in [Nodes -> SUBSET GEntries]
        /\ \A s \in Nodes : GroupTable(s)'
        /\ group'[t] = group[t] \union {[name |-> u, gid |-> gid]}
        /\ \A s \in Nodes : s # t => group'[s] = group[s]
    BY <1>1, <2>1, AddGroupTable
  <2>. QED
    BY <2>2
<1>6. /\ passwd' \in [Nodes -> SUBSET Entries]
      /\ \A s \in Nodes : UserTable(s)' /\ passwd[s] \subseteq passwd'[s]
      /\ \A s \in Nodes : \A e \in passwd'[s] \ passwd[s] : s = t /\ e.name = u
  <2>1. CASE UNCHANGED passwd
    BY <1>1, <2>1 DEF Types, Tables, UserTable, Uids, HasMax
  <2>2. CASE ~ UNCHANGED passwd
    <3>1. PICK gid \in Nat : /\ AddUser(t, u, NewUid(t), gid)
                             /\ ~ UserTaken(t, u, NewUid(t))
      BY <1>4, <2>2
    <3>. DEFINE new == [name |-> u, uid |-> NewUid(t), gid |-> gid]
    <3>2. /\ passwd' \in [Nodes -> SUBSET Entries]
          /\ \A s \in Nodes : UserTable(s)'
          /\ passwd'[t] = passwd[t] \union {new}
          /\ \A s \in Nodes : s # t => passwd'[s] = passwd[s]
      BY <1>1, <1>2, <3>1, AddUserTable
    <3>3. new.name = u
      OBVIOUS
    <3>. HIDE DEF new
    <3>. QED
      BY <3>2, <3>3
  <2>. QED
    BY <2>1, <2>2
<1>7. Types' /\ Tables' /\ Grown
  BY <1>1, <1>5, <1>6 DEF Types, Tables, Grown
<1>8. Homes'
  BY <1>1, <1>7, HomesStay
<1>9. Nodewise' /\ Alone'
  BY <1>1 DEF Inv, Nodewise, Alone, Past
<1>10. Passing'
  <2>1. ASSUME NEW r \in Runs, Past(r)' PROVE Passed(r)'
    <3>1. Past(r) /\ run'[r] = run[r]
      BY <1>1, <2>1 DEF Past
    <3>. QED
      BY <1>1, <1>7, <3>1, PassedStays
  <2>. QED
    BY <2>1 DEF Passing, Passed
<1>11. NodesAgree'
  BY <1>1, <1>6 DEF Inv, NodesAgree
<1>. QED
  BY <1>7, <1>8, <1>9, <1>10, <1>11 DEF Inv

\* The numbers of a run's user, and what the others of the runs have done.
LEMMA PastFacts ==
    ASSUME Inv, NEW r \in Runs, Past(r)
    PROVE  /\ run[r].user \in Names /\ run[r].user \notin stopped
           /\ run[r].uid \in Nat /\ run[r].gid \in Nat
           /\ run[r].pc # "ssh" => run[r].node \in Nodes \ {0}
           /\ \A s \in Runs : s # r /\ Past(s) => run[s].user # run[r].user
<1>1. ~ At(r, "none")
  BY DEF Past, At
<1>. QED
  BY <1>1, RunFacts DEF Inv, Past, Alone, Nodewise

\* A run that has made its user goes on, or ends.
LEMMA RunOnInv ==
    ASSUME Inv, Types', Tables', Homes', NodesAgree',
           \A u \in Names : home[u] # {} => home'[u] # {},
           NEW r \in Runs, NEW new \in RunStates \union {NoRun},
           run' = [run EXCEPT ![r] = new],
           new.pc \in {"none", "groupadd", "useradd", "ssh"},
           new.pc \in {"groupadd", "useradd"} => new.node \in Nodes \ {0},
           new.pc = "ssh" => new.node \in DOMAIN SshSteps,
           \A s \in Runs : s # r /\ Past(s) => Passed(s)',
           new.pc # "none" =>
              /\ Passed(r)' /\ new.user \notin stopped
              /\ \A s \in Runs : s # r /\ Past(s) => run[s].user # new.user,
           \/ stopped' = stopped
           \/ Past(r) /\ new.pc = "none" /\ stopped' = stopped \union {run[r].user}
    PROVE  Inv'
<1>1. run'[r] = new /\ \A s \in Runs : s # r => run'[s] = run[s]
  BY DEF Inv, Types
<1>2. Nodewise'
  BY <1>1 DEF Inv, Nodewise
<1>3. \A s \in Runs : Past(s)' => IF s = r THEN new.pc # "none" ELSE Past(s)
  BY <1>1 DEF Past
<1>4. Passing'
  <2>1. \A s \in Runs : Past(s)' => Passed(s)'
    BY <1>3
  <2>. QED
    BY <2>1 DEF Passing, Passed
<1>5. Alone'
  <2>1. \A s, q \in Runs : Past(s)' /\ Past(q)' /\ run'[s].user = run'[q].user => s = q
    BY <1>1, <1>3 DEF Inv, Alone
  <2>2. ASSUME NEW u \in stopped'
        PROVE  u \in Names /\ home[u] # {} /\ \A s \in Runs : Past(s)' => run'[s].user # u
    <3>1. CASE u \in stopped
      BY <1>1, <1>3, <3>1 DEF Inv, Alone, Types
    <3>2. CASE Past(r) /\ new.pc = "none" /\ u = run[r].user
      <4>1. u \in Names /\ home[u] # {}
        BY <3>2, PastFacts DEF Inv, Passing
      <4>2. ASSUME NEW s \in Runs, Past(s)' PROVE run'[s].user # u
        <5>1. s # r /\ Past(s) /\ run'[s] = run[s]
          BY <1>1, <1>3, <3>2, <4>2
        <5>. QED
          BY <3>2, <5>1, PastFacts
      <4>. QED
        BY <4>1, <4>2
    <3>. QED
      BY <3>1, <3>2
  <2>3. \A u \in stopped' : home'[u] # {}
    BY <2>2
  <2>. QED
    BY <2>1, <2>2, <2>3 DEF Alone
<1>. QED
  BY <1>2, <1>4, <1>5 DEF Inv

\* useradd on tpu0 finds the name free only when no run made that user before.
LEMMA OriginMade ==
    ASSUME Inv, NEW r \in Runs, NEW u \in Names, NEW uid \in Nat, NEW gid \in Nat,
           u = run[r].user, ~ UserTaken(0, u, uid), ~ GroupTaken(0, u, gid),
           AddUser(0, u, uid, gid), AddGroup(0, u, gid),
           home' = [home EXCEPT ![u] = {[uid |-> uid, gid |-> gid, ssh |-> {}]}],
           run' = [run EXCEPT ![r] = [pc |-> "groupadd", user |-> u, node |-> 1,
                                      uid |-> uid, gid |-> gid]],
           stopped' = stopped, byHand' = byHand
    PROVE  Inv'
<1>. DEFINE h0 == [uid |-> uid, gid |-> gid, ssh |-> {}]
            new == [pc |-> "groupadd", user |-> u, node |-> 1, uid |-> uid, gid |-> gid]
<1>1. Types /\ Tables /\ u \in Anyone /\ 0 \in Nodes
  BY NodesFacts DEF Inv, Anyone
<1>2. /\ h0.uid = uid /\ h0.gid = gid /\ h0.ssh = {} /\ h0 \in HEntries
      /\ new \in RunStates /\ new.pc = "groupadd" /\ new.user = u /\ new.node = 1
      /\ new.uid = uid /\ new.gid = gid
  BY <1>1 DEF HEntries, RunStates, Phases
<1>3. home[u] = {}
  <2>1. \A h \in home[u] : [name |-> u, uid |-> h.uid, gid |-> h.gid] \in passwd[0]
    BY <1>1 DEF Inv, Homes, Done
  <2>2. \A e \in passwd[0] : e.name # u
    BY DEF UserTaken, Users
  <2>. QED
    BY <2>1, <2>2
<1>4. /\ passwd' \in [Nodes -> SUBSET Entries]
      /\ \A s \in Nodes : UserTable(s)'
      /\ passwd'[0] = passwd[0] \union {[name |-> u, uid |-> uid, gid |-> gid]}
      /\ \A s \in Nodes : s # 0 => passwd'[s] = passwd[s]
  BY <1>1, AddUserTable
<1>5. /\ group' \in [Nodes -> SUBSET GEntries]
      /\ \A s \in Nodes : GroupTable(s)'
      /\ group'[0] = group[0] \union {[name |-> u, gid |-> gid]}
      /\ \A s \in Nodes : s # 0 => group'[s] = group[s]
  BY <1>1, AddGroupTable
<1>6. Done(0, u, h0)'
  BY <1>2, <1>4, <1>5 DEF Done, GroupDone
<1>7. [name |-> u, uid |-> uid, gid |-> gid].name = u
  OBVIOUS
<1>. /\ home' = [home EXCEPT ![u] = {h0}] /\ run' = [run EXCEPT ![r] = new]
  BY Zenon
<1>. HIDE DEF h0, new
<1>8. /\ home' \in [Names -> SUBSET HEntries] /\ home'[u] = {h0}
      /\ \A v \in Names : v # u => home'[v] = home[v]
  BY <1>1, <1>2 DEF Types
<1>9. Types' /\ Tables' /\ Grown
  <2>1. run' \in [Runs -> RunStates \union {NoRun}]
    BY <1>1, <1>2 DEF Types
  <2>. QED
    BY <1>1, <1>4, <1>5, <1>8, <2>1 DEF Types, Tables, Grown
<1>10. Homes'
  <2>1. ASSUME NEW v \in Names, v # u, NEW h \in home[v]
        PROVE  /\ \A g \in home[v] : g = h
               /\ Done(0, v, h)' /\ (h.ssh # {} => \A t \in Nodes : Done(t, v, h)')
    BY <1>1, <1>9, <2>1, DoneStays DEF Inv, Homes
  <2>. QED
    BY <1>2, <1>6, <1>8, <2>1 DEF Homes
<1>11. NodesAgree'
  <2>. SUFFICES ASSUME NEW v \in Names, NEW t \in Nodes, <<t, v>> \notin byHand,
                       NEW e \in passwd'[t], e.name = v
                PROVE  \E h \in home'[v] : e.uid = h.uid /\ e.gid = h.gid
    BY <1>1 DEF NodesAgree
  <2>1. CASE e \in passwd[t]
    BY <1>3, <1>8, <2>1 DEF Inv, NodesAgree
  <2>2. CASE e \notin passwd[t]
    <3>1. e = [name |-> u, uid |-> uid, gid |-> gid]
      BY <1>4, <2>2
    <3>2. v = u /\ e.uid = h0.uid /\ e.gid = h0.gid
      BY <1>2, <3>1
    <3>. QED
      BY <1>8, <3>2
  <2>. QED
    BY <2>1, <2>2
<1>12. \A s \in Runs : s # r /\ Past(s) => Passed(s)' /\ run[s].user # u
  <2>. SUFFICES ASSUME NEW s \in Runs, s # r, Past(s)
                PROVE  Passed(s)' /\ run[s].user # u
    OBVIOUS
  <2>1. run[s].user # u
    BY <1>3 DEF Inv, Passing
  <2>2. run[s].user \in Names /\ run'[s] = run[s]
    BY <1>1, RunFacts DEF Past, At, Types
  <2>3. home'[run[s].user] = home[run[s].user]
    BY <1>8, <2>1, <2>2
  <2>. QED
    BY <1>9, <2>1, <2>2, <2>3, PassedStays
<1>13. Passed(r)'
  <2>1. run'[r] = new
    BY <1>1 DEF Types
  <2>2. \A t \in Nodes : t < 1 => t = 0
    BY NodesFacts
  <2>. QED
    BY <1>2, <1>6, <1>8, <2>1, <2>2 DEF Passed
<1>14. u \notin stopped
  BY <1>3 DEF Inv, Alone
<1>15. \A v \in Names : home[v] # {} => home'[v] # {}
  BY <1>8
<1>16. /\ new \in RunStates \union {NoRun}
       /\ new.pc \in {"none", "groupadd", "useradd", "ssh"} /\ new.user \notin stopped
       /\ new.pc \in {"groupadd", "useradd"} => new.node \in Nodes \ {0}
       /\ new.pc = "ssh" => new.node \in DOMAIN SshSteps
       /\ \A s \in Runs : s # r /\ Past(s) => Passed(s)'
       /\ \A s \in Runs : s # r /\ Past(s) => run[s].user # new.user
  BY <1>2, <1>12, <1>14, NodesFacts
<1>. QED
  BY <1>2, <1>9, <1>10, <1>11, <1>13, <1>15, <1>16, RunOnInv, Zenon

LEMMA OriginInv == ASSUME Inv, NEW r \in Runs, Origin(r) PROVE Inv'
<1>. DEFINE u == run[r].user  uid == NewUid(0)  gid == NewGid(0)
<1>1. ~ At(r, "none") /\ u \in Names /\ uid \in Nat /\ gid \in Nat
  BY RunFacts, NodesFacts, NewIds DEF Origin, At, Inv
<1>2. CASE UserTaken(0, u, uid) \/ GroupTaken(0, u, gid)
  <2>1. Stop(r) /\ UNCHANGED <<passwd, group, home, byHand>>
    BY <1>2, Zenon DEF Origin, Refused
  <2>. QED
    BY <1>1, <2>1, StopInv
<1>3. CASE ~ UserTaken(0, u, uid) /\ ~ GroupTaken(0, u, gid)
  <2>1. /\ AddUser(0, u, uid, gid) /\ AddGroup(0, u, gid)
        /\ home' = [home EXCEPT ![u] = {[uid |-> uid, gid |-> gid, ssh |-> {}]}]
        /\ run' = [run EXCEPT ![r] = [pc |-> "groupadd", user |-> u, node |-> 1,
                                      uid |-> uid, gid |-> gid]]
        /\ stopped' = stopped /\ byHand' = byHand
    BY <1>3, Zenon DEF Origin
  <2>2. u = run[r].user
    OBVIOUS
  <2>. HIDE DEF u, uid, gid
  <2>. QED
    BY <1>1, <1>3, <2>1, <2>2, OriginMade, Zenon
<1>. QED
  BY <1>2, <1>3

LEMMA GroupAddInv == ASSUME Inv, NEW r \in Runs, GroupAdd(r) PROVE Inv'
<1>. DEFINE t == run[r].node  u == run[r].user  gid == run[r].gid
<1>1. /\ run[r].pc = "groupadd" /\ Past(r) /\ ~ At(r, "none")
      /\ UNCHANGED <<passwd, home, byHand>> /\ Types /\ Tables
  BY DEF GroupAdd, At, Past, Inv
<1>2. /\ u \in Names /\ u \in Anyone /\ u \notin stopped /\ gid \in Nat
      /\ t \in Nodes \ {0} /\ t \in Nat
      /\ \A s \in Runs : s # r /\ Past(s) => run[s].user # u
  BY <1>1, PastFacts, NodesFacts DEF Anyone
<1>3. CASE GroupTaken(t, u, gid)
  <2>1. Stop(r) /\ UNCHANGED group
    BY <1>3, Zenon DEF GroupAdd
  <2>. QED
    BY <1>1, <2>1, StopInv
<1>4. CASE ~ GroupTaken(t, u, gid)
  <2>1. AddGroup(t, u, gid) /\ Go(r, "useradd", t)
    BY <1>4, Zenon DEF GroupAdd
  <2>2. PICK new \in RunStates :
           /\ new = [pc |-> "useradd", user |-> u, node |-> t,
                     uid |-> run[r].uid, gid |-> gid]
           /\ run' = [run EXCEPT ![r] = new] /\ stopped' = stopped
    <3>1. "useradd" \in Phases
      BY DEF Phases
    <3>. QED
      BY <1>1, <1>2, <2>1, <3>1, GoFacts
  <2>3. /\ new.pc = "useradd" /\ new.user = u /\ new.node = t
        /\ new.uid = run[r].uid /\ new.gid = gid
    BY <2>2
  <2>4. /\ run'[r] = new /\ \A s \in Runs : s # r => run'[s] = run[s]
        /\ run' \in [Runs -> RunStates \union {NoRun}]
    BY <1>1, <2>2 DEF Types
  <2>5. /\ group' \in [Nodes -> SUBSET GEntries]
        /\ \A s \in Nodes : GroupTable(s)'
        /\ group'[t] = group[t] \union {[name |-> u, gid |-> gid]}
        /\ \A s \in Nodes : s # t => group'[s] = group[s]
    BY <1>1, <1>2, <1>4, <2>1, AddGroupTable
  <2>6. Types' /\ Grown
    BY <1>1, <2>2, <2>4, <2>5 DEF Types, Grown
  <2>7. Tables'
    BY <1>1, <2>5 DEF Tables, UserTable, Uids, HasMax
  <2>8. Homes' /\ NodesAgree'
    BY <1>1, <2>6, HomesStay DEF Inv, NodesAgree
  <2>9. \A s \in Runs : s # r /\ Past(s) => Passed(s)'
    BY <1>1, <2>4, <2>6, PassedStays
  <2>10. Passed(r)'
    <3>1. PICK h \in home[u] :
            /\ h.uid = run[r].uid /\ h.gid = run[r].gid
            /\ \A s \in Nodes : s < t => Done(s, u, h)
      BY <1>1 DEF Inv, Passing
    <3>2. \A s \in Nodes : s < t => Done(s, u, h)'
      BY <2>3, <2>4, <2>6, <3>1 DEF Grown, Done, GroupDone
    <3>3. GroupDone(t, u, h)'
      BY <2>3, <2>4, <2>5, <3>1 DEF GroupDone
    <3>. QED
      BY <1>1, <2>3, <2>4, <3>1, <3>2, <3>3 DEF Passed, Done, GroupDone
  <2>11. /\ new \in RunStates \union {NoRun}
         /\ new.pc \in {"none", "groupadd", "useradd", "ssh"} /\ new.user \notin stopped
         /\ new.pc \in {"groupadd", "useradd"} => new.node \in Nodes \ {0}
         /\ new.pc = "ssh" => new.node \in DOMAIN SshSteps
         /\ \A s \in Runs : s # r /\ Past(s) => run[s].user # new.user
         /\ \A v \in Names : home[v] # {} => home'[v] # {}
    BY <1>1, <1>2, <2>3
  <2>. QED
    BY <2>2, <2>6, <2>7, <2>8, <2>9, <2>10, <2>11, RunOnInv, Zenon
<1>. QED
  BY <1>3, <1>4

LEMMA UserAddInv == ASSUME Inv, NEW r \in Runs, UserAdd(r) PROVE Inv'
<1>. DEFINE t == run[r].node  u == run[r].user  uid == run[r].uid  gid == run[r].gid
<1>1. /\ run[r].pc = "useradd" /\ Past(r) /\ ~ At(r, "none")
      /\ UNCHANGED <<group, home, byHand>> /\ Types /\ Tables
  BY DEF UserAdd, At, Past, Inv
<1>2. /\ u \in Names /\ u \in Anyone /\ u \notin stopped /\ uid \in Nat /\ gid \in Nat
      /\ t \in Nodes \ {0} /\ t \in Nat
      /\ \A s \in Runs : s # r /\ Past(s) => run[s].user # u
  BY <1>1, PastFacts, NodesFacts DEF Anyone
<1>3. CASE UserTaken(t, u, uid) \/ gid \notin Gids(t)
  <2>1. Stop(r) /\ UNCHANGED passwd
    BY <1>3, Zenon DEF UserAdd, UidOfOrigin
  <2>. QED
    BY <1>1, <2>1, StopInv
<1>4. CASE ~ (UserTaken(t, u, uid) \/ gid \notin Gids(t))
  <2>1. /\ AddUser(t, u, uid, gid)
        /\ \/ IsLast(t) /\ Go(r, "ssh", 1)
           \/ ~ IsLast(t) /\ Go(r, "groupadd", t + 1)
           \/ Stop(r)
    BY <1>4, Zenon DEF UserAdd, UidOfOrigin
  <2>2. PICK new \in RunStates \union {NoRun} :
           /\ run' = [run EXCEPT ![r] = new]
           /\ \/ /\ new.user = u /\ new.uid = uid /\ new.gid = gid
                 /\ stopped' = stopped
                 /\ \/ IsLast(t) /\ new.pc = "ssh" /\ new.node = 1
                    \/ ~ IsLast(t) /\ new.pc = "groupadd" /\ new.node = t + 1
              \/ new.pc = "none" /\ stopped' = stopped \union {u}
    <3>1. "ssh" \in Phases /\ "groupadd" \in Phases /\ 1 \in Nat /\ t + 1 \in Nat
      BY <1>2 DEF Phases
    <3>2. CASE ~ Stop(r)
      <4>1. PICK new \in RunStates :
               /\ \/ /\ IsLast(t)
                     /\ new = [pc |-> "ssh", user |-> u, node |-> 1,
                               uid |-> uid, gid |-> gid]
                  \/ /\ ~ IsLast(t)
                     /\ new = [pc |-> "groupadd", user |-> u, node |-> t + 1,
                               uid |-> uid, gid |-> gid]
               /\ run' = [run EXCEPT ![r] = new] /\ stopped' = stopped
        BY <1>1, <2>1, <3>1, <3>2, GoFacts
      <4>2. /\ new \in RunStates \union {NoRun} /\ run' = [run EXCEPT ![r] = new]
            /\ new.user = u /\ new.uid = uid /\ new.gid = gid /\ stopped' = stopped
            /\ \/ IsLast(t) /\ new.pc = "ssh" /\ new.node = 1
               \/ ~ IsLast(t) /\ new.pc = "groupadd" /\ new.node = t + 1
        BY <4>1
      <4>. QED
        BY <4>2
    <3>3. CASE Stop(r)
      <4>1. run' = [run EXCEPT ![r] = NoRun] /\ NoRun.pc = "none"
        BY <3>3 DEF Stop, NoRun
      <4>2. stopped' = stopped \union {u}
        BY <1>1, <3>3 DEF Stop
      <4>. QED
        BY <4>1, <4>2
    <3>. QED
      BY <3>2, <3>3
  <2>4. /\ run'[r] = new /\ \A s \in Runs : s # r => run'[s] = run[s]
        /\ run' \in [Runs -> RunStates \union {NoRun}]
    BY <1>1, <2>2 DEF Types
  <2>5. /\ passwd' \in [Nodes -> SUBSET Entries]
        /\ \A s \in Nodes : UserTable(s)'
        /\ passwd'[t] = passwd[t] \union {[name |-> u, uid |-> uid, gid |-> gid]}
        /\ \A s \in Nodes : s # t => passwd'[s] = passwd[s]
    BY <1>1, <1>2, <1>4, <2>1, AddUserTable
  <2>6. Types' /\ Grown
    BY <1>1, <1>2, <2>2, <2>4, <2>5 DEF Types, Grown
  <2>7. Tables'
    BY <1>1, <2>5 DEF Tables, GroupTable, Gids, HasMax
  <2>8. Homes'
    BY <1>1, <2>6, HomesStay
  <2>9. \A s \in Runs : s # r /\ Past(s) => Passed(s)'
    BY <1>1, <2>4, <2>6, PassedStays
  <2>10. PICK h \in home[u] :
           /\ h.uid = uid /\ h.gid = gid
           /\ \A s \in Nodes : s < t => Done(s, u, h)
           /\ GroupDone(t, u, h)
    BY <1>1 DEF Inv, Passing
  <2>11. NodesAgree'
    <3>. SUFFICES ASSUME NEW v \in Names, NEW s \in Nodes, <<s, v>> \notin byHand,
                         NEW e \in passwd'[s], e.name = v
                  PROVE  \E g \in home[v] : e.uid = g.uid /\ e.gid = g.gid
      BY <1>1 DEF NodesAgree
    <3>1. CASE e \in passwd[s]
      BY <3>1 DEF Inv, NodesAgree
    <3>2. CASE e \notin passwd[s]
      <4>1. e = [name |-> u, uid |-> uid, gid |-> gid]
        BY <2>5, <3>2
      <4>2. v = u /\ e.uid = uid /\ e.gid = gid
        BY <4>1
      <4>. QED
        BY <2>10, <4>2
    <3>. QED
      BY <3>1, <3>2
  <2>12. new.pc # "none" => Passed(r)'
    <3>. SUFFICES ASSUME new.pc # "none" PROVE Passed(r)'
      OBVIOUS
    <3>1. /\ new.user = u /\ new.uid = uid /\ new.gid = gid
          /\ \/ IsLast(t) /\ new.pc = "ssh" /\ new.node = 1
             \/ ~ IsLast(t) /\ new.pc = "groupadd" /\ new.node = t + 1
      BY <2>2
    <3>2. \A s \in Nodes : s < t => Done(s, u, h)'
      BY <2>4, <2>6, <2>10, <3>1 DEF Grown, Done, GroupDone
    <3>3. \A s \in Nodes : s = t => Done(s, u, h)'
      BY <1>1, <2>4, <2>5, <2>10, <3>1 DEF Done, GroupDone
    <3>4. \A s \in Nodes : new.pc = "ssh" \/ s < new.node => s < t \/ s = t
      BY <1>2, <3>1, NodesFacts DEF IsLast
    <3>5. new.pc # "useradd"
      BY <3>1
    <3>. QED
      BY <1>1, <2>4, <2>10, <3>1, <3>2, <3>3, <3>4, <3>5 DEF Passed, Done, GroupDone
  <2>13. /\ new.pc \in {"none", "groupadd", "useradd", "ssh"}
         /\ new.pc \in {"groupadd", "useradd"} => new.node \in Nodes \ {0}
         /\ new.pc = "ssh" => new.node \in DOMAIN SshSteps
         /\ new.pc # "none" =>
               /\ new.user \notin stopped
               /\ \A s \in Runs : s # r /\ Past(s) => run[s].user # new.user
         /\ \A v \in Names : home[v] # {} => home'[v] # {}
    BY <1>1, <1>2, <2>2, NodesFacts DEF SshSteps
  <2>14. \/ stopped' = stopped
         \/ Past(r) /\ new.pc = "none" /\ stopped' = stopped \union {u}
    BY <1>1, <2>2
  <2>. QED
    BY <2>2, <2>6, <2>7, <2>8, <2>9, <2>11, <2>12, <2>13, <2>14, RunOnInv, Zenon
<1>. QED
  BY <1>3, <1>4

\* Only the run that made it changes a home, when all nodes know its user.
LEMMA SshStepInv == ASSUME Inv, NEW r \in Runs, SshStep(r) PROVE Inv'
<1>. DEFINE u == run[r].user  i == run[r].node
<1>1. /\ run[r].pc = "ssh" /\ Past(r) /\ ~ At(r, "none")
      /\ UNCHANGED <<passwd, group, byHand>> /\ Types /\ Tables
      /\ i \in DOMAIN SshSteps /\ i \in 1..7 /\ Len(SshSteps) = 7
      /\ SshSteps[i] \in Range(SshSteps) /\ DOMAIN SshSteps = 1..7
  <2>1. Len(SshSteps) = 7 /\ DOMAIN SshSteps = 1..7
    BY DEF SshSteps
  <2>2. run[r].pc = "ssh" /\ i \in DOMAIN SshSteps
    BY DEF SshStep, At, Inv, Nodewise
  <2>. QED
    BY <2>1, <2>2 DEF SshStep, At, Past, Inv, Range
<1>2. /\ u \in Names /\ u \notin stopped
      /\ \A s \in Runs : s # r /\ Past(s) => run[s].user \in Names /\ run[s].user # u
  BY <1>1, PastFacts
<1>3. PICK step \in Range(SshSteps) :
         home' = [home EXCEPT ![u] = {[h EXCEPT !.ssh = @ \union {step}] : h \in @}]
  BY <1>1, Zenon DEF SshStep
<1>4. /\ home' \in [Names -> SUBSET HEntries]
      /\ home'[u] = {[h EXCEPT !.ssh = @ \union {step}] : h \in home[u]}
      /\ \A v \in Names : v # u => home'[v] = home[v]
  <2>1. home \in [Names -> SUBSET HEntries] /\ home[u] \subseteq HEntries
    BY <1>1, <1>2 DEF Types
  <2>2. \A h \in HEntries : [h EXCEPT !.ssh = @ \union {step}] \in HEntries
    BY DEF HEntries
  <2>3. {[h EXCEPT !.ssh = @ \union {step}] : h \in home[u]} \in SUBSET HEntries
    BY <2>1, <2>2
  <2>. DEFINE S == {[h EXCEPT !.ssh = @ \union {step}] : h \in home[u]}
  <2>4. home' = [home EXCEPT ![u] = S]
    BY <1>3, Zenon
  <2>. HIDE DEF S
  <2>5. S \in SUBSET HEntries
    BY <2>3 DEF S
  <2>6. home' \in [Names -> SUBSET HEntries] /\ home'[u] = S
        /\ \A v \in Names : v # u => home'[v] = home[v]
    BY <1>2, <2>1, <2>4, <2>5
  <2>. QED
    BY <2>6 DEF S
<1>5. PICK h \in home[u] :
        /\ h.uid = run[r].uid /\ h.gid = run[r].gid
        /\ \A t \in Nodes : Done(t, u, h)
  BY <1>1 DEF Inv, Passing
<1>6. PICK g : home'[u] = {g} /\ g.uid = h.uid /\ g.gid = h.gid
  <2>1. home[u] = {h} /\ h \in HEntries
    BY <1>1, <1>2 DEF Inv, Homes, Types
  <2>2. home'[u] = {[h EXCEPT !.ssh = @ \union {step}]}
    BY <1>4, <2>1
  <2>3. /\ [h EXCEPT !.ssh = @ \union {step}].uid = h.uid
        /\ [h EXCEPT !.ssh = @ \union {step}].gid = h.gid
    BY <2>1 DEF HEntries
  <2>. QED
    BY <2>2, <2>3
<1>7. \A t \in Nodes : Done(t, u, g)
  BY <1>5, <1>6 DEF Done, GroupDone
<1>8. \E new \in RunStates \union {NoRun} :
         /\ run' = [run EXCEPT ![r] = new] /\ stopped' = stopped
         /\ \/ new = NoRun
            \/ new.pc = "ssh" /\ new.node \in DOMAIN SshSteps /\ new.user = u
               /\ new.uid = run[r].uid /\ new.gid = run[r].gid
  <2>1. CASE i = Len(SshSteps)
    <3>1. End(r)
      BY <2>1, Zenon DEF SshStep
    <3>. QED
      BY <3>1 DEF End
  <2>2. CASE i # Len(SshSteps)
    <3>1. Go(r, "ssh", i + 1)
      BY <2>2, Zenon DEF SshStep
    <3>2. i + 1 \in DOMAIN SshSteps /\ i + 1 \in Nat /\ "ssh" \in Phases
      BY <1>1, <2>2 DEF Phases
    <3>3. PICK new \in RunStates :
             /\ new = [pc |-> "ssh", user |-> u, node |-> i + 1,
                       uid |-> run[r].uid, gid |-> run[r].gid]
             /\ run' = [run EXCEPT ![r] = new] /\ stopped' = stopped
      BY <1>1, <3>1, <3>2, GoFacts
    <3>4. /\ new.pc = "ssh" /\ new.node = i + 1 /\ new.user = u
          /\ new.uid = run[r].uid /\ new.gid = run[r].gid
      BY <3>3
    <3>. QED
      BY <3>2, <3>3, <3>4
  <2>. QED
    BY <2>1, <2>2
<1>9. PICK new \in RunStates \union {NoRun} :
         /\ run' = [run EXCEPT ![r] = new] /\ stopped' = stopped
         /\ \/ new = NoRun
            \/ new.pc = "ssh" /\ new.node \in DOMAIN SshSteps /\ new.user = u
               /\ new.uid = run[r].uid /\ new.gid = run[r].gid
  BY <1>8
<1>10. /\ run'[r] = new /\ \A s \in Runs : s # r => run'[s] = run[s]
       /\ run' \in [Runs -> RunStates \union {NoRun}]
  BY <1>1, <1>9 DEF Types
<1>11. Types'
  BY <1>1, <1>4, <1>9, <1>10 DEF Types
<1>12. Tables' /\ Grown
  BY <1>1 DEF Tables, UserTable, GroupTable, Uids, Gids, HasMax, Grown
<1>13. Homes'
  <2>1. ASSUME NEW v \in Names, v # u, NEW k \in home[v]
        PROVE  /\ \A j \in home[v] : j = k
               /\ Done(0, v, k)' /\ (k.ssh # {} => \A t \in Nodes : Done(t, v, k)')
    BY <1>12, <2>1, DoneStays, NodesFacts DEF Inv, Homes
  <2>2. \A v \in Names : v = u => \A t \in Nodes : Done(t, v, g)'
    BY <1>7, <1>12 DEF Grown, Done, GroupDone
  <2>. QED
    BY <1>4, <1>6, <2>1, <2>2, NodesFacts DEF Homes
<1>14. NodesAgree'
  <2>. SUFFICES ASSUME NEW v \in Names, NEW t \in Nodes, <<t, v>> \notin byHand,
                       NEW e \in passwd[t], e.name = v
                PROVE  \E k \in home'[v] : e.uid = k.uid /\ e.gid = k.gid
    BY <1>1 DEF NodesAgree
  <2>1. PICK k \in home[v] : e.uid = k.uid /\ e.gid = k.gid
    BY DEF Inv, NodesAgree
  <2>2. CASE v = u
    <3>1. k = h
      BY <1>2, <2>2 DEF Inv, Homes
    <3>. QED
      BY <1>6, <2>1, <2>2, <3>1
  <2>3. CASE v # u
    BY <1>4, <2>1, <2>3
  <2>. QED
    BY <2>2, <2>3
<1>15. \A s \in Runs : s # r /\ Past(s) => Passed(s)'
  BY <1>2, <1>4, <1>10, <1>12, PassedStays
<1>16. CASE new = NoRun
  <2>1. new.pc = "none"
    BY <1>16 DEF NoRun
  <2>2. /\ new.pc \in {"none", "groupadd", "useradd", "ssh"}
        /\ new.pc \in {"groupadd", "useradd"} => new.node \in Nodes \ {0}
        /\ new.pc = "ssh" => new.node \in DOMAIN SshSteps
        /\ \A v \in Names : home[v] # {} => home'[v] # {}
    BY <1>4, <1>6, <2>1
  <2>. QED
    BY <1>9, <1>11, <1>12, <1>13, <1>14, <1>15, <2>1, <2>2, RunOnInv, Zenon
<1>17. CASE new # NoRun
  <2>1. /\ new.pc = "ssh" /\ new.node \in DOMAIN SshSteps /\ new.user = u
        /\ new.uid = run[r].uid /\ new.gid = run[r].gid
    BY <1>9, <1>17
  <2>2. Passed(r)'
    <3>1. \A v \in Names : v = u => \A t \in Nodes : Done(t, v, g)'
      BY <1>7, <1>12 DEF Grown, Done, GroupDone
    <3>2. run'[r].user = u /\ run'[r].pc = "ssh"
          /\ run'[r].uid = g.uid /\ run'[r].gid = g.gid
      BY <1>5, <1>6, <1>10, <2>1
    <3>. QED
      BY <1>2, <1>6, <3>1, <3>2 DEF Passed
  <2>3. /\ new.pc \in {"none", "groupadd", "useradd", "ssh"} /\ new.user \notin stopped
        /\ new.pc \in {"groupadd", "useradd"} => new.node \in Nodes \ {0}
        /\ \A s \in Runs : s # r /\ Past(s) => run[s].user # new.user
        /\ \A v \in Names : home[v] # {} => home'[v] # {}
    BY <1>2, <1>4, <1>6, <2>1
  <2>. QED
    BY <1>9, <1>11, <1>12, <1>13, <1>14, <1>15, <2>1, <2>2, <2>3, RunOnInv, Zenon
<1>. QED
  BY <1>16, <1>17

-----------------------------------------------------------------------------
LEMMA InitInv == Init => Inv
<1>. SUFFICES ASSUME Init PROVE Inv
  OBVIOUS
<1>1. NoRun.pc = "none" /\ \A r \in Runs : run[r] = NoRun
  BY DEF Init, NoRun
<1>2. Types
  BY DEF Init, Types
<1>3. Tables
  BY DEF Init, Tables, UserTable, GroupTable, Uids, Gids, HasMax
<1>4. Nodewise /\ Homes /\ Passing /\ Alone /\ NodesAgree
  BY <1>1 DEF Init, Nodewise, Homes, Passing, Alone, NodesAgree, Past
<1>. QED
  BY <1>2, <1>3, <1>4 DEF Inv

THEOREM InvInductive == ASSUME Inv, [Next]_vars PROVE Inv'
<1>1. CASE UNCHANGED vars \/ \E r \in Runs : LinkLost(r)
  <2>. UNCHANGED <<passwd, group, home, run, byHand, stopped>>
    BY <1>1 DEF vars, LinkLost
  <2>. USE DEF Inv
  <2>1. Types' /\ Tables'
    BY DEF Types, Tables, UserTable, GroupTable, Uids, Gids, HasMax
  <2>2. Nodewise' /\ Alone' /\ NodesAgree'
    BY DEF Nodewise, Alone, Past, NodesAgree
  <2>3. Homes' /\ Passing'
    BY DEF Homes, Done, GroupDone, Passing, Past
  <2>. QED
    BY <2>1, <2>2, <2>3
<1>2. ASSUME NEW r \in Runs,
             \/ \E u \in Names : Start(r, u)
             \/ CheckId(r) \/ CheckHome(r) \/ Origin(r)
             \/ GroupAdd(r) \/ UserAdd(r) \/ SshStep(r) \/ Fail(r)
      PROVE  Inv'
  BY <1>2, StartInv, CheckIdInv, CheckHomeInv, OriginInv, GroupAddInv, UserAddInv,
     SshStepInv, FailInv, Zenon
<1>. QED
  BY <1>1, <1>2, ByHandInv, Zenon DEF Next

THEOREM InvCorrect == Spec => []Inv
BY InitInv, InvInductive, PTL DEF Spec

-----------------------------------------------------------------------------
\* Type correctness: no table of any node ever holds a name or a number twice.
THEOREM TypeCorrect == Spec => []TypeOK
<1>1. ASSUME Inv PROVE TypeOK
  <2>1. \A u \in Names : Cardinality(home[u]) <= 1
    <3>. SUFFICES ASSUME NEW u \in Names PROVE Cardinality(home[u]) <= 1
      OBVIOUS
    <3>1. CASE home[u] = {}
      BY <3>1, FS_EmptySet
    <3>2. CASE home[u] # {}
      <4>1. PICK h \in home[u] : TRUE
        BY <3>2
      <4>2. home[u] = {h}
        BY <1>1 DEF Inv, Homes
      <4>3. Cardinality({h}) = 1
        BY FS_Singleton, Zenon
      <4>. QED
        BY <4>2, <4>3
    <3>. QED
      BY <3>1, <3>2
  <2>2. \A u \in Names : \A h \in home[u] : h.ssh \subseteq Range(SshSteps)
    BY <1>1 DEF Inv, Types, HEntries
  <2>. QED
    BY <1>1, <2>1, <2>2 DEF Inv, Tables, UserTable, GroupTable, Nodewise, TypeOK
<1>. QED
  BY <1>1, InvCorrect, PTL

\* What adduser.sh's second step is for ("GIDs must match"): who holds the key to
\* an account owns its home from every node, whatever other runs and hands do.
THEOREM KeyMeansEverywhereCorrect == Spec => []KeyMeansEverywhere
<1>1. ASSUME Inv, NEW u \in Names, NEW h \in home[u], "external key" \in h.ssh,
             NEW t \in Nodes
      PROVE  /\ {e \in passwd[t] : e.name = u \/ e.uid = h.uid}
                    = {[name |-> u, uid |-> h.uid, gid |-> h.gid]}
             /\ {g \in group[t] : g.name = u \/ g.gid = h.gid} = {[name |-> u, gid |-> h.gid]}
  <2>1. Done(t, u, h)
    BY <1>1 DEF Inv, Homes
  <2>. DEFINE user == [name |-> u, uid |-> h.uid, gid |-> h.gid]
              own  == [name |-> u, gid |-> h.gid]
  <2>2. /\ user \in passwd[t] /\ user.name = u /\ user.uid = h.uid
        /\ own \in group[t] /\ own.name = u /\ own.gid = h.gid
    BY <2>1 DEF Done, GroupDone
  <2>. HIDE DEF user, own
  <2>3. UserTable(t) /\ GroupTable(t)
    BY <1>1 DEF Inv, Tables
  <2>4. \A e \in passwd[t] : e.name = u \/ e.uid = h.uid <=> e = user
    BY <2>2, <2>3, Zenon DEF UserTable
  <2>5. \A g \in group[t] : g.name = u \/ g.gid = h.gid <=> g = own
    BY <2>2, <2>3, Zenon DEF GroupTable
  <2>. QED
    BY <2>2, <2>4, <2>5 DEF user, own
<1>2. Inv => KeyMeansEverywhere
  BY <1>1 DEF KeyMeansEverywhere
<1>. QED
  BY <1>2, InvCorrect, PTL

\* Wherever adduser.sh stops (set -e, an interrupt, a node that is down), the
\* nodes it reached agree with tpu0 and with the home.
THEOREM NodesAgreeCorrect == Spec => []NodesAgree
BY InvCorrect, PTL DEF Inv

\* No run of adduser.sh completes a user that another one left half made: id
\* finds the user on tpu0, or useradd does.
THEOREM HalfMadeStaysCorrect == Spec => HalfMadeStays
<1>. DEFINE Stays ==
        \A u \in stopped :
          /\ home'[u] = home[u]
          /\ \A t \in Nodes : \A e \in passwd'[t] \ passwd[t] :
                e.name = u => <<t, u>> \in byHand'
<1>1. ASSUME Inv, [Next]_vars PROVE Stays
  <2>. SUFFICES ASSUME NEW u \in stopped
                PROVE  /\ home'[u] = home[u]
                       /\ \A t \in Nodes : \A e \in passwd'[t] \ passwd[t] :
                             e.name = u => <<t, u>> \in byHand'
    OBVIOUS
  <2>1. /\ u \in Names /\ home[u] # {} /\ u \in Users(0)
        /\ \A r \in Runs : Past(r) => run[r].user # u
    <3>1. u \in Names /\ home[u] # {} /\ \A r \in Runs : Past(r) => run[r].user # u
      BY <1>1 DEF Inv, Types, Alone
    <3>2. PICK h \in home[u] : [name |-> u, uid |-> h.uid, gid |-> h.gid] \in passwd[0]
      BY <1>1, <3>1 DEF Inv, Homes, Done
    <3>3. [name |-> u, uid |-> h.uid, gid |-> h.gid].name = u
      OBVIOUS
    <3>. QED
      BY <3>1, <3>2, <3>3 DEF Users
  <2>2. CASE UNCHANGED <<home, passwd>>
    BY <2>2
  <2>3. ASSUME NEW s \in Nodes, NEW v, NEW uid, NEW gid, AddUser(s, v, uid, gid)
        PROVE  \A t \in Nodes : \A e \in passwd'[t] \ passwd[t] : t = s /\ e.name = v
    <3>. DEFINE new == [name |-> v, uid |-> uid, gid |-> gid]
    <3>1. passwd' = [passwd EXCEPT ![s] = @ \union {new}] /\ new.name = v
      BY <2>3, Zenon DEF AddUser
    <3>. HIDE DEF new
    <3>2. passwd \in [Nodes -> SUBSET Entries]
      BY <1>1 DEF Inv, Types
    <3>. QED
      BY <3>1, <3>2
  <2>. DEFINE Kept == /\ home'[u] = home[u]
                      /\ \A t \in Nodes : \A e \in passwd'[t] \ passwd[t] :
                            e.name = u => <<t, u>> \in byHand'
  <2>4. ASSUME NEW t \in Nodes, NEW v \in Names \union Local, ByHand(t, v)
        PROVE  Kept
    <3>1. UNCHANGED home /\ byHand' = byHand \union {<<t, v>>}
      BY <2>4 DEF ByHand
    <3>2. UNCHANGED passwd \/ AddUser(t, v, NewUid(t), NewGid(t))
      BY <2>4 DEF ByHand
    <3>. QED
      BY <2>3, <3>1, <3>2
  <2>5. ASSUME NEW r \in Runs, Origin(r) PROVE Kept
    <3>. DEFINE w == run[r].user  uid == NewUid(0)  gid == NewGid(0)
    <3>1. CASE UserTaken(0, w, uid) \/ GroupTaken(0, w, gid)
      BY <2>2, <2>5, <3>1, Zenon DEF Origin
    <3>2. CASE ~ (UserTaken(0, w, uid) \/ GroupTaken(0, w, gid))
      <4>1. AddUser(0, w, uid, gid) /\ w # u
        BY <2>1, <2>5, <3>2, Zenon DEF Origin, UserTaken
      <4>2. home' = [home EXCEPT ![w] = {[uid |-> uid, gid |-> gid, ssh |-> {}]}]
        BY <2>5, <3>2, Zenon DEF Origin
      <4>3. home'[u] = home[u]
        BY <1>1, <2>1, <4>1, <4>2, Zenon DEF Inv, Types
      <4>. QED
        BY <2>3, <4>1, <4>3, NodesFacts
    <3>. QED
      BY <3>1, <3>2
  <2>6. ASSUME NEW r \in Runs, UserAdd(r) PROVE Kept
    <3>1. Past(r) /\ UNCHANGED home /\ run[r].node \in Nodes /\ run[r].user # u
      BY <1>1, <2>1, <2>6 DEF UserAdd, At, Past, Inv, Nodewise
    <3>2. \/ UNCHANGED passwd
          \/ AddUser(run[r].node, run[r].user, UidOfOrigin(r), run[r].gid)
      BY <2>6, Zenon DEF UserAdd
    <3>. QED
      BY <2>3, <3>1, <3>2
  <2>7. ASSUME NEW r \in Runs, SshStep(r) PROVE Kept
    <3>1. Past(r) /\ UNCHANGED passwd
      BY <2>7 DEF SshStep, At, Past
    <3>2. run[r].user # u
      BY <2>1, <3>1
    <3>3. home'[u] = home[u]
      BY <1>1, <2>1, <2>7, <3>2, Zenon DEF SshStep, Inv, Types
    <3>. QED
      BY <3>1, <3>3
  <2>8. ASSUME NEW r \in Runs,
               \/ \E v \in Names : Start(r, v)
               \/ CheckId(r) \/ CheckHome(r) \/ GroupAdd(r) \/ LinkLost(r) \/ Fail(r)
        PROVE  UNCHANGED <<home, passwd>>
    BY <2>8, Zenon DEF Start, CheckId, CheckHome, GroupAdd, LinkLost, Fail
  <2>9. UNCHANGED vars => UNCHANGED <<home, passwd>>
    BY Zenon DEF vars
  <2>. QED
    BY <1>1, <2>2, <2>4, <2>5, <2>6, <2>7, <2>8, <2>9, Zenon DEF Next
<1>2. Inv /\ [Next]_vars => [Stays]_vars
  BY <1>1
<1>. QED
  BY <1>2, InvCorrect, PTL DEF Spec, HalfMadeStays
=============================================================================
