------------------------------- MODULE Cleanup -------------------------------
(***************************************************************************)
(* What is done with the old homes after migrate-home.sh: issues/storage/  *)
(* migration-audit-2026-05/migrate-audit.py compares /home/$U of each node *)
(* with its copy, and fix-symlinks.py points the absolute links of the     *)
(* copy at the copy, so that /home/$U may be deleted.  Both only read the  *)
(* state Migrate leaves (the links apart), so they are functions of it:    *)
(* every state in which an admin may run them is a test of them.           *)
(***************************************************************************)
EXTENDS Migrate

\* The state in which the two scripts are for use.
Migrated == At("ended") /\ script.told = "complete"

-----------------------------------------------------------------------------
(* migrate-audit.py.  A path is the place its file has in the copy. *)

\* src_list
Source(t) == {p \in PlacesOf(t) : home[t][p] # Absent}

\* dst_list: for tpu0 all but the directories tpu<n>, for another node its own.
Dest(t) == {p \in Places : store[p] # Absent /\ p[1] = t}

Missing(t) == Source(t) \ Dest(t)

OlderHere(t) ==          \* mutant: the two times are swapped
    {p \in Source(t) \cap Dest(t) : home[t][p].mtime < store[p].mtime}

\* mtime_anom; two changes are two seconds apart or more, and rsync -a keeps the
\* mtime.  What size_differ adds is not counted on: sizes say little of content.
Older(t) ==
    {p \in Source(t) \cap Dest(t) : store[p].mtime < home[t][p].mtime}

Reported(t) == Missing(t) \union Older(t)

-----------------------------------------------------------------------------
(* fix-symlinks.py.  A link is in the directory top of the copy (0 for its  *)
(* root) and came from a node, where it led to /home/$U/<rest>.  Here every *)
(* directory has a link to every file of its home.                          *)

RestOf(t, p) == IF t = 0 THEN p ELSE <<0, p[2]>>   \* p as a path below /home/$U

LinksFrom(t) ==
    {[node |-> t, top |-> d, led |-> p, rest |-> RestOf(t, p)] :
        d \in IF t = 0 THEN {0} \union Nested ELSE {t}, p \in PlacesOf(t)}

\* find_links: find -lname '/home/$U/*'
Links == UNION {LinksFrom(t) : t \in Nodes}

ScopeRootMerged(link) == 0   \* mutant: every target is taken to the merged tree

ScopeRoot(link) == link.top

\* {} for a path no file of the copy can have (tpu1/tpu1/n).
NewTarget(link) ==
    IF ScopeRoot(link) = 0 THEN {link.rest}
    ELSE IF link.rest[1] = 0 THEN {<<ScopeRoot(link), link.rest[2]>>} ELSE {}

\* The links that get a new target.
Rewritten(includeBackups) ==
    {link \in Links : /\ ScopeRoot(link) = 0 \/ includeBackups
                      /\ \E p \in NewTarget(link) : store[p] # Absent}

-----------------------------------------------------------------------------
\* What the audit of a complete migration says of a file that only node t had:
\* if it reports the file, the user has written it in /home since the script found
\* no session there (a login that usermod did not meet, or the old path in a new
\* session) or has deleted from the copy what /home still has: no fault of the
\* migration.  If it does not, all of /home's file is in the copy, or the copy was
\* written later: then a write to /home since may be lost with /home.
AuditTells ==
    Migrated =>
        \A t \in Nodes : \A p \in Source(t) : Origins(p) = {t} =>
            IF p \in Reported(t)
            THEN \/ ~ (home[t][p].writes \subseteq seen[t][p].writes)
                 \/ home[t][p].writes \cap gone[p] # {}
            ELSE \/ home[t][p].writes \subseteq store[p].writes
                 \/ home[t][p].mtime < store[p].mtime

\* After a complete migration every link to a file that was there when it began is
\* rewritten, those below tpu<n> with --include-backups, and leads to the file it led
\* to on its own node, in that version or a later one, as long as nothing is deleted
\* at that place (links to what is missing are left as they are).  Excepted are
\* tpu0's links in or into a directory tpu<n>, which are taken for links of tpu<n>.
RelinkedReachesCopy ==
    Migrated =>
        \A link \in Links :
            LET old == seen[link.node][link.led]
            IN  /\ link.top \notin Nested \/ link.node # 0
                /\ old # Absent /\ gone[link.led] = {}
                => /\ link \in Rewritten(TRUE)
                   /\ ScopeRoot(link) = 0 => link \in Rewritten(FALSE)
                   /\ Origins(link.led) = {link.node} =>
                         \E p \in NewTarget(link) : old.writes \subseteq store[p].writes
=============================================================================
