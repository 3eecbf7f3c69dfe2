------------------------------ MODULE Accounts ------------------------------
(***************************************************************************)
(* admin-scripts/adduser.sh: an account with one numeric uid and gid on    *)
(* every node, a home on the shared /storage, and its ssh keys.  The       *)
(* script is a sequence of commands under set -e, most of them over ssh:   *)
(* it may stop before any of them, two runs may overlap, and accounts and  *)
(* groups may be made by hand on one node meanwhile.  useradd and groupadd *)
(* are external: they take the next free number unless told one, and       *)
(* refuse a name or a number that is taken.                                *)
(***************************************************************************)
EXTENDS Integers, FiniteSetsExt, Sequences, SequencesExt

CONSTANTS LastNode,     \* the nodes are tpu0 to tpu<LastNode>
          Names,        \* users to be created
          Local,        \* names of users and groups made by hand only
          Runs,         \* runs of the script that may overlap
          MaxByHand     \* bound on what is made by hand

Nodes == 0..LastNode

ASSUME AccountsAssumption ==
    LastNode \in Nat \ {0} /\ Names \intersect Local = {} /\ MaxByHand \in Nat

VARIABLES
    passwd,      \* passwd[t]: the users of node t
    group,       \* group[t]: the groups of node t
    home,        \* home[u]: /storage/home/$u, {} if there is none
    run,         \* run[r]: where the script is, for whom, and with which ids
    lost,        \* the runs that have stopped while their last command goes on
    byHand,      \* history: what was made by hand, as <<node, name>>
    stopped      \* history: users a run stopped for after it had made them on tpu0,
                 \* and none of its commands goes on

vars == <<passwd, group, home, run, lost, byHand, stopped>>

NoRun == [pc |-> "none"]

Init ==
    /\ passwd = [t \in Nodes |-> {}] /\ group = [t \in Nodes |-> {}]
    /\ home = [u \in Names |-> {}]
    /\ run = [r \in Runs |-> NoRun] /\ lost = {}
    /\ byHand = {} /\ stopped = {}

-----------------------------------------------------------------------------
(* The account tables of a node. *)

Users(t)  == {e.name : e \in passwd[t]}
Groups(t) == {g.name : g \in group[t]}
Uids(t)   == {e.uid : e \in passwd[t]}
Gids(t)   == {g.gid : g \in group[t]}

NextFree(ids) == 1 + Max(ids \union {0})

\* The user's own group gets the number of the user if that is free.
NewUid(t) == NextFree(Uids(t))
NewGid(t) == IF NewUid(t) \in Gids(t) THEN NextFree(Gids(t)) ELSE NewUid(t)

UserTaken(t, u, uid)  == u \in Users(t)  \/ uid \in Uids(t)
GroupTaken(t, u, gid) == u \in Groups(t) \/ gid \in Gids(t)

AddUser(t, u, uid, gid) ==
    passwd' = [passwd EXCEPT ![t] = @ \union {[name |-> u, uid |-> uid, gid |-> gid]}]
AddGroup(t, u, gid) ==
    group' = [group EXCEPT ![t] = @ \union {[name |-> u, gid |-> gid]}]

\* Somebody, or a package, or the VM's guest agent, runs useradd or groupadd.
ByHand(t, u) ==
    /\ Cardinality(byHand) < MaxByHand
    /\ u \notin Users(t) \union Groups(t)
    /\ \/ AddUser(t, u, NewUid(t), NewGid(t)) /\ AddGroup(t, u, NewGid(t))
       \/ AddGroup(t, u, NextFree(Gids(t))) /\ UNCHANGED passwd
    /\ byHand' = byHand \union {<<t, u>>}
    /\ UNCHANGED <<home, run, lost, stopped>>

-----------------------------------------------------------------------------
(* The script. *)

At(r, pc)     == run[r].pc = pc
Go(r, pc, n)  == /\ run' = [run EXCEPT ![r].pc = pc, ![r].node = n]
                 /\ UNCHANGED <<lost, stopped>>
End(r)        == run' = [run EXCEPT ![r] = NoRun] /\ UNCHANGED <<lost, stopped>>

\* set -e: the rest of the script is never run.
Stop(r) ==
    /\ run' = [run EXCEPT ![r] = NoRun]
    /\ lost' = lost \ {r}
    /\ stopped' = stopped \union
           IF run[r].pc \in {"groupadd", "useradd", "ssh"} THEN {run[r].user} ELSE {}

IsLastOver(t) == t > LastNode   \* mutant: for t in 1 2 3 4
IsLast(t)     == t = LastNode

Start(r, u) ==
    /\ At(r, "none")
    /\ run' = [run EXCEPT ![r] = [pc |-> "id", user |-> u, node |-> 0, uid |-> 0, gid |-> 0]]
    /\ UNCHANGED <<passwd, group, home, lost, byHand, stopped>>

\* id $USERNAME on each node in turn.  Over ssh, every failure but a name that
\* is found counts as "does not exist".
CheckId(r) ==
    /\ At(r, "id")
    /\ LET t == run[r].node
       IN  \/ run[r].user \in Users(t) /\ End(r)
           \/ /\ run[r].user \notin Users(t) \/ t # 0
              /\ IF IsLast(t) THEN Go(r, "home", 0) ELSE Go(r, "id", t + 1)
    /\ UNCHANGED <<passwd, group, home, byHand>>

CheckHome(r) ==
    /\ At(r, "home")
    /\ IF home[run[r].user] # {} THEN End(r) ELSE Go(r, "origin", 0)
    /\ UNCHANGED <<passwd, group, home, byHand>>

GoOnAnyway(r) ==         \* mutant: without set -e, id finds whoever there is
    \E e \in passwd[0] :
        /\ e.name = run[r].user
        /\ run' = [run EXCEPT ![r] = [@ EXCEPT !.pc = "groupadd", !.node = 1,
                                              !.uid = e.uid, !.gid = e.gid]]
    /\ UNCHANGED <<lost, stopped>>

\* useradd on tpu0 fails.
Refused(r) == Stop(r)

\* useradd -m on tpu0 assigns the ids and makes the home.
Origin(r) ==
    /\ At(r, "origin")
    /\ LET u == run[r].user  uid == NewUid(0)  gid == NewGid(0)
       IN  IF UserTaken(0, u, uid) \/ GroupTaken(0, u, gid)
           THEN Refused(r) /\ UNCHANGED <<passwd, group, home>>
           ELSE /\ AddUser(0, u, uid, gid) /\ AddGroup(0, u, gid)
                /\ home' = [home EXCEPT ![u] = {[uid |-> uid, gid |-> gid, ssh |-> {}]}]
                /\ run' = [run EXCEPT ![r] = [pc |-> "groupadd", user |-> u, node |-> 1,
                                              uid |-> uid, gid |-> gid]]
                /\ UNCHANGED <<lost, stopped>>
    /\ UNCHANGED byHand

\* groupadd -g on the next node ...
GroupAdd(r) ==
    /\ At(r, "groupadd")
    /\ LET t == run[r].node  u == run[r].user
       IN  IF GroupTaken(t, u, run[r].gid)
           THEN Stop(r) /\ UNCHANGED group
           ELSE AddGroup(t, u, run[r].gid) /\ Go(r, "useradd", t)
    /\ UNCHANGED <<passwd, home, byHand>>

UidFromNode(r) == NewUid(run[r].node)   \* mutant: useradd without -u

UidOfOrigin(r) == run[r].uid

\* ... && useradd -M -u -g, which wants a group with that number.
UserAdd(r) ==
    /\ At(r, "useradd")
    /\ LET t == run[r].node  u == run[r].user
       IN  IF UserTaken(t, u, UidOfOrigin(r)) \/ run[r].gid \notin Gids(t)
           THEN Stop(r) /\ UNCHANGED passwd
           ELSE /\ AddUser(t, u, UidOfOrigin(r), run[r].gid)
                /\ IF r \in lost THEN Stop(r)
                   ELSE IF IsLast(t) THEN Go(r, "ssh", 1) ELSE Go(r, "groupadd", t + 1)
    /\ UNCHANGED <<group, home, byHand>>

\* ssh ends with 255 and the script with it, while groupadd && useradd may go on
\* on that node.
LinkLost(r) ==
    /\ At(r, "groupadd") \/ At(r, "useradd")
    /\ r \notin lost /\ lost' = lost \union {r}
    /\ UNCHANGED <<passwd, group, home, run, byHand, stopped>>

\* The commands of steps 3 to 6, each of which leaves something in the home.
SshSteps == <<".ssh", "external key", "key pair", "cluster key", "owner", "modes", "config">>

SshStep(r) ==
    /\ At(r, "ssh")
    /\ LET i == run[r].node
       IN  /\ home' = [home EXCEPT ![run[r].user] =
                  {[h EXCEPT !.ssh = @ \union {SshSteps[i]}] : h \in @}]
           /\ IF i = Len(SshSteps) THEN End(r) ELSE Go(r, "ssh", i + 1)
    /\ UNCHANGED <<passwd, group, byHand>>

\* set -e: any command fails, or the connection, or the admin interrupts; or what
\* went on without the script fails.
Fail(r) ==
    /\ ~ At(r, "none")
    /\ Stop(r)
    /\ UNCHANGED <<passwd, group, home, byHand>>

Next ==
    \/ \E t \in Nodes, u \in Names \union Local : ByHand(t, u)
    \/ \E r \in Runs : \/ \E u \in Names : Start(r, u)
                       \/ CheckId(r) \/ CheckHome(r) \/ Origin(r)
                       \/ GroupAdd(r) \/ UserAdd(r) \/ LinkLost(r)
                       \/ SshStep(r) \/ Fail(r)

Spec == Init /\ [][Next]_vars

-----------------------------------------------------------------------------
TypeOK ==
    /\ \A t \in Nodes : /\ \A e, f \in passwd[t] : e.name = f.name \/ e.uid = f.uid => e = f
                        /\ \A g, h \in group[t] : g.name = h.name \/ g.gid = h.gid => g = h
    /\ \A u \in Names : Cardinality(home[u]) <= 1
    /\ \A u \in Names : \A h \in home[u] : h.ssh \subseteq Range(SshSteps)
    /\ \A r \in Runs : run[r].pc \in {"id", "groupadd", "useradd"} => run[r].node \in Nodes

\* "Shared storage resolves ownership by numeric ID, so GIDs must match": once a
\* user can log in (the external key is in the home), the owner and the group of
\* the home mean this user, and nobody else, on every node; and it stays so,
\* whatever else is created by other runs or by hand.
KeyMeansEverywhere ==
    \A u \in Names : \A h \in home[u] : "external key" \in h.ssh =>
        \A t \in Nodes :
            /\ {e \in passwd[t] : e.name = u \/ e.uid = h.uid}
                   = {[name |-> u, uid |-> h.uid, gid |-> h.gid]}
            /\ {g \in group[t] : g.name = u \/ g.gid = h.gid} = {[name |-> u, gid |-> h.gid]}

\* Wherever the script stops, the nodes that know a user, and on which nobody
\* made that name by hand, agree on the user's numbers and on the home's owner.
NodesAgree ==
    \A u \in Names, t \in Nodes : <<t, u>> \notin byHand =>
        \A e \in passwd[t] : e.name = u =>
            \E h \in home[u] : e.uid = h.uid /\ e.gid = h.gid

\* A user whose run stopped after tpu0's useradd, with no command of it going on,
\* is never completed by another run: whatever is missing stays missing until
\* somebody repairs it by hand.
HalfMadeStays ==
    [][\A u \in stopped :
          /\ home'[u] = home[u]
          /\ \A t \in Nodes : \A e \in passwd'[t] \ passwd[t] :
                e.name = u => <<t, u>> \in byHand']_vars
=============================================================================
