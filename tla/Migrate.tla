------------------------------- MODULE Migrate -------------------------------
(***************************************************************************)
(* admin-scripts/migrate-home.sh: one user's homes on all nodes are merged *)
(* into /storage/home/$U, and passwd is pointed there, while the user may  *)
(* log in and write, and any command of the script may fail.               *)
(*                                                                         *)
(* A place <<0, n>> is the file n at the root of the new home, <<t, n>> is *)
(* tpu<t>/n below it: rsync takes tpu0's home to the root and another      *)
(* node's home to tpu<t>.  A file is the writes that made it what it is    *)
(* and their last one as its mtime; one that is deleted and made again has *)
(* only the new ones.  The user writes into the new home only in a session *)
(* that lives there, and into /home in any session.                        *)
(***************************************************************************)
EXTENDS Integers

CONSTANTS LastNode,      \* the nodes are tpu0 to tpu<LastNode>
          Names,         \* files in the user's home on each node
          Nested,        \* nodes t for which tpu0's home has a directory tpu<t>
          Lacking,       \* <<t, p>>: at first node t has no file for the place p
          MaxInputs      \* bound on the user's writes and deletions and on the
                         \* starts of the script, together

Nodes  == 0..LastNode
Places == Nodes \X Names

ASSUME MigrateAssumption ==
    /\ LastNode \in Nat /\ Nested \subseteq 1..LastNode
    /\ Lacking \subseteq Nodes \X Places /\ MaxInputs \in Nat

VARIABLES
    home,        \* home[t]: the files of /home/$U on node t
    store,       \* the files of /storage/home/$U
    exists,      \* is there a /storage/home/$U
    passwd,      \* passwd[t]: the user's home entry on node t
    session,     \* session[t]: the home of the user's session on t, or "none"
    clock,       \* when the user last changed a file
    script,      \* where migrate-home.sh is, and its next node
    rsync,       \* rsync[t]: where it is, its file list, has nothing failed yet, and
                 \* has the script lost the link to it
    seen,        \* history: home[t] when the script found no session on t
    gone         \* history: gone[p]: the writes the user has deleted at p

vars == <<home, store, exists, passwd, session, clock, script, rsync, seen, gone>>
user == <<home, session, clock, gone>>
disk == <<store, exists>>

PlacesOf(t) == IF t = 0 THEN ({0} \union Nested) \X Names ELSE {t} \X Names
Absent   == [mtime |-> 0, writes |-> {}]
First(t) == [mtime |-> t, writes |-> {t}]
Empty    == [p \in Places |-> Absent]
Rsync(pc) == [pc |-> pc, todo |-> {}, ok |-> TRUE, lost |-> FALSE]

\* What node t had was written before the user's first change, at a time of its own.
Init ==
    /\ home = [t \in Nodes |-> [p \in Places |->
                  IF p \in PlacesOf(t) /\ <<t, p>> \notin Lacking THEN First(t) ELSE Absent]]
    /\ store = Empty /\ exists = FALSE
    /\ passwd  = [t \in Nodes |-> "/home"]
    /\ session = [t \in Nodes |-> "none"]
    /\ clock   = LastNode
    /\ script  = [pc |-> "ended", node |-> 0, attempt |-> 0, told |-> "nothing"]
    /\ rsync   = [t \in Nodes |-> Rsync("none")]
    /\ seen    = home
    /\ gone    = [p \in Places |-> {}]

-----------------------------------------------------------------------------
(* The user.  $HOME is what passwd said at login. *)

MayInput == (clock - LastNode) + script.attempt < MaxInputs

Login(t) ==
    /\ session[t] = "none"
    /\ session' = [session EXCEPT ![t] = passwd[t]]
    /\ UNCHANGED <<home, store, exists, passwd, clock, script, rsync, seen, gone>>

Logout(t) ==
    /\ session[t] # "none"
    /\ session' = [session EXCEPT ![t] = "none"]
    /\ UNCHANGED <<home, store, exists, passwd, clock, script, rsync, seen, gone>>

Change        == MayInput /\ clock' = clock + 1
Written(file) == [mtime |-> clock', writes |-> file.writes \union {clock'}]

\* Writes a file or makes a new one; from a /storage session, under its old path.
WriteLocal(t) ==
    /\ session[t] # "none" /\ Change
    /\ \E p \in PlacesOf(t) : home' = [home EXCEPT ![t][p] = Written(@)]
    /\ UNCHANGED <<store, exists, passwd, session, script, rsync, seen, gone>>

DeleteLocal(t) ==
    /\ session[t] # "none" /\ Change
    /\ \E p \in PlacesOf(t) :
          /\ home[t][p] # Absent
          /\ gone' = [gone EXCEPT ![p] = @ \union home[t][p].writes]
          /\ home' = [home EXCEPT ![t][p] = Absent]
    /\ UNCHANGED <<store, exists, passwd, session, script, rsync, seen>>

WriteStore(t) ==
    /\ session[t] = "/storage" /\ exists /\ Change
    /\ \E p \in Places : store' = [store EXCEPT ![p] = Written(@)]
    /\ UNCHANGED <<home, exists, passwd, session, script, rsync, seen, gone>>

DeleteStore(t) ==
    /\ session[t] = "/storage" /\ Change
    /\ \E p \in Places :
          /\ store[p] # Absent
          /\ gone' = [gone EXCEPT ![p] = @ \union store[p].writes]
          /\ store' = [store EXCEPT ![p] = Absent]
    /\ UNCHANGED <<home, exists, passwd, session, script, rsync, seen>>

-----------------------------------------------------------------------------
(* The script. *)

At(pc) == script.pc = pc
Go(pc) == script' = [script EXCEPT !.pc = pc, !.node = 0]
GoOn   == script' = [script EXCEPT !.node = @ + 1]
\* The script ends; what it tells the admin matters when it is to delete.
End(told) == script' = [script EXCEPT !.pc = "ended", !.told = told]

IsLast(t) == t = LastNode

\* tpu0's passwd entry decides whether the user counts as migrated.
Preflight ==
    /\ At("ended") /\ MayInput
    /\ script' = IF passwd[0] = "/home"
                 THEN [pc |-> "who", node |-> 0, attempt |-> script.attempt + 1,
                       told |-> "nothing"]
                 ELSE [script EXCEPT !.attempt = @ + 1, !.told = "already migrated?"]
    /\ UNCHANGED <<user, disk, passwd, rsync, seen>>

\* who on each node in turn; then the destination must not exist.
Who ==
    /\ At("who")
    /\ LET t == script.node
       IN  IF session[t] # "none" THEN End("active session") /\ UNCHANGED seen
           ELSE /\ seen' = [seen EXCEPT ![t] = home[t]]
                /\ IF ~ IsLast(t) THEN GoOn
                   ELSE IF exists THEN End("already exists") ELSE Go("install")
    /\ UNCHANGED <<user, disk, passwd, rsync>>

PreCreate ==
    /\ At("install")
    /\ exists' = TRUE /\ store' = Empty
    /\ rsync' = [t \in Nodes |-> Rsync("list")]
    /\ Go("rsync")
    /\ UNCHANGED <<user, passwd, seen>>

Copying(t) == rsync[t].pc \in {"list", "copy"}

\* The rsync goes on with the files of a list, or is over.
GoesOn(t, files, ok) ==
    rsync' = [rsync EXCEPT ![t] = [pc   |-> IF files = {} THEN "over" ELSE "copy",
                                   todo |-> files,
                                   ok   |-> @.ok /\ ok,
                                   lost |-> @.lost /\ files # {}]]

\* --no-inc-recursive: the whole list first.
RsyncList(t) ==
    /\ rsync[t].pc = "list"
    /\ GoesOn(t, {p \in PlacesOf(t) : home[t][p] # Absent}, TRUE)
    /\ UNCHANGED <<user, disk, passwd, script, seen>>

RsyncCopy(t) ==
    /\ rsync[t].pc = "copy"
    /\ \E p \in rsync[t].todo :
          /\ home[t][p] # Absent
          /\ store' = [store EXCEPT ![p] = home[t][p]]
          /\ GoesOn(t, rsync[t].todo \ {p}, TRUE)
    /\ UNCHANGED <<user, exists, passwd, script, seen>>

\* A file of the list is no more: exit status 24 after the others.
RsyncVanished(t) ==
    /\ rsync[t].pc = "copy"
    /\ \E p \in rsync[t].todo :
          home[t][p] = Absent /\ GoesOn(t, rsync[t].todo \ {p}, FALSE)
    /\ UNCHANGED <<user, disk, passwd, script, seen>>

\* The disk, a signal, the link: it ends with any other exit status.
RsyncFails(t) ==
    /\ Copying(t)
    /\ GoesOn(t, {}, FALSE)
    /\ UNCHANGED <<user, disk, passwd, script, seen>>

\* ssh ends with 255, and the rsync on that node may go on.
LinkLost(t) ==
    /\ t # 0 /\ Copying(t) /\ ~ rsync[t].lost
    /\ rsync' = [rsync EXCEPT ![t].ok = FALSE, ![t].lost = TRUE]
    /\ UNCHANGED <<user, disk, passwd, script, seen>>

\* As the script sees it.
Over   == \A t \in Nodes : rsync[t].pc = "over" \/ rsync[t].lost
Failed == \E t \in Nodes : ~ rsync[t].ok

WaitAllLate ==           \* mutant: passwd is pointed at the store before the test
    /\ At("rsync") /\ Over
    /\ passwd' = [t \in Nodes |-> "/storage"]
    /\ IF Failed THEN End("delete and retry")
       ELSE Go("chown")
    /\ UNCHANGED <<user, disk, rsync, seen>>

WaitAllIgnored ==        \* mutant: the exit statuses are not looked at
    /\ At("rsync") /\ Over
    /\ Go("chown")
    /\ UNCHANGED <<user, disk, passwd, rsync, seen>>

\* The monitor's loop ends when no rsync is alive; then each status is tested.
WaitAll ==
    /\ At("rsync") /\ Over
    /\ IF Failed THEN End("delete and retry")
       ELSE Go("chown")
    /\ UNCHANGED <<user, disk, passwd, rsync, seen>>

Chown ==
    /\ At("chown")
    /\ Go("usermod")
    /\ UNCHANGED <<user, disk, passwd, rsync, seen>>

\* usermod refuses while the user has processes on the node; set -e ends the script.
Usermod ==
    /\ At("usermod")
    /\ LET t == script.node
       IN  IF session[t] # "none" THEN End("user is busy") /\ UNCHANGED passwd
           ELSE /\ passwd' = [passwd EXCEPT ![t] = "/storage"]
                /\ IF IsLast(t) THEN Go("verify")
                   ELSE GoOn
    /\ UNCHANGED <<user, disk, rsync, seen>>

\* sudo -u $U -i pwd on each node.
Verify ==
    /\ At("verify")
    /\ IF \A t \in Nodes : passwd[t] = "/storage" THEN End("complete")
       ELSE End("verification failed")
    /\ UNCHANGED <<user, disk, passwd, rsync, seen>>

\* Any other command fails and set -e ends the script, or it is interrupted: the
\* rsyncs in the background run on.
Fail ==
    /\ script.pc # "ended"
    /\ End("error")
    /\ UNCHANGED <<user, disk, passwd, rsync, seen>>

DeleteLazily ==          \* mutant: only the directory is forgotten, not its files
    /\ At("ended") /\ script.told = "delete and retry"
    /\ exists' = FALSE
    /\ End("nothing")
    /\ UNCHANGED <<user, store, passwd, rsync, seen>>

\* The admin does what the script said.  An rsync that goes on is left in a directory
\* that is no more, and can make no file there.
DeletePartial ==
    /\ At("ended") /\ script.told = "delete and retry"
    /\ exists' = FALSE /\ store' = Empty
    /\ rsync' = [t \in Nodes |-> [rsync[t] EXCEPT !.pc = "over", !.todo = {}]]
    /\ End("nothing")
    /\ UNCHANGED <<user, passwd, seen>>

Next ==
    \/ \E t \in Nodes : \/ Login(t) \/ Logout(t)
                        \/ WriteLocal(t) \/ DeleteLocal(t) \/ WriteStore(t) \/ DeleteStore(t)
                        \/ RsyncList(t) \/ RsyncCopy(t) \/ RsyncVanished(t) \/ RsyncFails(t)
                        \/ LinkLost(t)
    \/ Preflight \/ Who \/ PreCreate \/ WaitAll \/ Chown \/ Usermod \/ Verify
    \/ Fail \/ DeletePartial

Spec == Init /\ [][Next]_vars

-----------------------------------------------------------------------------
TypeOK ==
    /\ \A p \in Places : store[p] # Absent => exists /\ store[p].mtime \in store[p].writes
    /\ \A t \in Nodes : session[t] \in {"none", "/home", "/storage"}
    /\ \A t \in Nodes : rsync[t].todo \subseteq PlacesOf(t)

Origins(p) == {t \in Nodes : p \in PlacesOf(t)}

\* b has all that a has at p, except what the user has deleted.
Kept(p, a, b) == a.writes \subseteq b.writes \union gone[p]

\* From the first usermod on, also when the script stops half way, a login finds
\* every file that a node had when the script checked it for sessions, in that
\* version or a later one, unless the user has deleted it.  Where two homes have a
\* place in common (tpu0's home has a directory tpu<t>), it finds one of the two.
MovedMeansCopied ==
    (\E t \in Nodes : passwd[t] = "/storage") =>
        \A p \in Places : Origins(p) # {} =>
            \E t \in Origins(p) : Kept(p, seen[t][p], store[p])

\* When the script advises to delete /storage/home/$U, every file in it is also
\* in a /home, in that version or a later one, unless the user has deleted it.
DeleteLosesNothing ==
    script.told = "delete and retry" =>
        \A p \in Places :
            store[p] # Absent => \E t \in Origins(p) : Kept(p, store[p], home[t][p])
=============================================================================
