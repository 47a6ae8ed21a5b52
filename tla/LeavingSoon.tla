---------------------------- MODULE LeavingSoon -----------------------------
(***************************************************************************)
(* The Leaving Soon collections on the media servers                       *)
(* (backend/tasks/cleanup.py): they show the candidates, they are pruned   *)
(* before candidates are deleted or moved, and the settings remember, for  *)
(* each server, the title that was last synced there.  A scan, a deletion  *)
(* and a move hold candidate_workflow_lock; an edit of the settings        *)
(* (backend/api/routes/settings/general.py) does not.                      *)
(*                                                                         *)
(* A candidate is one item on every server.  The movie and the series      *)
(* collection of a title are one collection here.                          *)
(***************************************************************************)
EXTENDS Naturals, FiniteSets

CONSTANTS
    SoonServers,   \* media servers
    SilentServers, \* those that take a collection they cannot list for empty
    Titles,        \* base titles an admin may choose
    NoTitle,       \* no title was synced on the server
    Items          \* candidates

\* There is a title: an empty one is normalized to the default.
ASSUME SoonAssumption ==
    /\ SilentServers \subseteq SoonServers
    /\ NoTitle \notin Titles
    /\ Titles # {}

VARIABLES
    soonSaved, \* the settings row: title, enabled, last
    soonShown, \* soonShown[s]: pairs <<title, item>>, the collections of a server
    soonOpen,  \* candidates
    soonPc,    \* what the holder of the lock does
    soonRead,  \* the settings it has read, with the titles it will save
    soonTodo,  \* servers it has still to call
    soonActed, \* the candidates it deletes or moves
    soonEdit,  \* the edit of the settings at work
    soonEditTodo \* servers the edit has still to call

soonWork == <<soonPc, soonRead, soonTodo, soonActed>>
soonEditing == <<soonEdit, soonEditTodo>>
soonVars == <<soonSaved, soonShown, soonOpen, soonWork, soonEditing>>

LastTitles == [SoonServers -> Titles \cup {NoTitle}]
SoonSettings == [title : Titles, enabled : BOOLEAN, last : LastTitles]

\* What is read of the row, and the titles that will be saved.
ReadSettings == [row : SoonSettings, next : LastTitles]
Reading(row) == [row |-> row, next |-> row.last]

FirstSettings == [title |-> CHOOSE t \in Titles : TRUE, enabled |-> FALSE,
                  last |-> [s \in SoonServers |-> NoTitle]]
NothingRead == Reading(FirstSettings)

\* The items a collection shows.
Shown(s, title) == {x[2] : x \in {y \in soonShown[s] : y[1] = title}}

SoonInit ==
    /\ soonSaved = FirstSettings
    /\ soonShown = [s \in SoonServers |-> {}]
    /\ soonOpen = {}
    /\ soonPc = "idle"
    /\ soonRead = NothingRead
    /\ soonTodo = {}
    /\ soonActed = {}
    /\ soonEdit = NothingRead
    /\ soonEditTodo = {}

-----------------------------------------------------------------------------
(* delete_specific_candidates and move_specific_candidates                 *)

\* A server with a client is asked to remove the items from both titles; one
\* without a client stops the action when a title was synced there.
ActOnCandidates ==
    /\ soonPc = "idle"
    /\ \E chosen \in (SUBSET soonOpen) \ {{}} : soonActed' = chosen
    /\ soonRead' = Reading(soonSaved)
    /\ soonTodo' = IF soonSaved.enabled THEN SoonServers ELSE {}
    /\ soonPc' = "prune"
    /\ UNCHANGED <<soonSaved, soonShown, soonOpen, soonEditing>>

\* Mutant: only the current title is pruned.
PrunedTitles_Current(s) == {soonRead.row.title}

PrunedTitles(s) == {soonRead.row.title, soonRead.row.last[s]} \ {NoTitle}

PruneServer(s) ==
    /\ soonPc = "prune" /\ s \in soonTodo
    /\ soonTodo' = soonTodo \ {s}
    /\ LET linked == soonShown[s] \cap (PrunedTitles(s) \X soonActed)
       IN  \/ soonShown' = [soonShown EXCEPT ![s] = @ \ linked]
           \/ /\ s \in SilentServers   \* Plex: _get_collection_child_ids fails
              /\ \E left \in SUBSET linked : soonShown' = [soonShown EXCEPT ![s] = @ \ left]
           \/ soonRead.row.last[s] = NoTitle /\ UNCHANGED soonShown   \* it has no client
    /\ UNCHANGED <<soonSaved, soonOpen, soonPc, soonRead, soonActed, soonEditing>>

\* A call fails, after it may have removed some, or a synced server is away.
PruneFails(s) ==
    /\ soonPc = "prune" /\ s \in soonTodo
    /\ \E gone \in SUBSET (soonShown[s] \cap (PrunedTitles(s) \X soonActed)) :
           soonShown' = [soonShown EXCEPT ![s] = @ \ gone]
    /\ soonPc' = "load"
    /\ soonTodo' = {}
    /\ soonActed' = {}
    /\ UNCHANGED <<soonSaved, soonOpen, soonRead, soonEditing>>

ActionStarts ==
    /\ soonPc = "prune" /\ soonTodo = {}
    /\ soonPc' = "act"
    /\ UNCHANGED <<soonSaved, soonShown, soonOpen, soonRead, soonTodo, soonActed, soonEditing>>

\* Some of the candidates are done, then the collections are reconciled.
ActionEnds ==
    /\ soonPc = "act"
    /\ \E done \in SUBSET soonActed : soonOpen' = soonOpen \ done
    /\ soonActed' = {}
    /\ soonPc' = "load"
    /\ UNCHANGED <<soonSaved, soonShown, soonRead, soonTodo, soonEditing>>

\* A scan replaces the candidates, commits, and syncs the collections.
SoonScan ==
    /\ soonPc = "idle"
    /\ \E matched \in SUBSET Items : soonOpen' = matched
    /\ soonPc' = "load"
    /\ UNCHANGED <<soonSaved, soonShown, soonRead, soonTodo, soonActed, soonEditing>>

-----------------------------------------------------------------------------
(* _sync_leaving_soon_collections                                          *)

LoadSettings ==
    /\ soonPc = "load"
    /\ soonRead' = Reading(soonSaved)
    /\ soonTodo' = IF soonSaved.enabled THEN SoonServers
                   ELSE {s \in SoonServers : soonSaved.last[s] # NoTitle}
    /\ soonPc' = "sync"
    /\ UNCHANGED <<soonSaved, soonShown, soonOpen, soonActed, soonEditing>>

Without(s, title) == {x \in soonShown[s] : x[1] # title}

\* No client: the titles stay as they are.
ServerAway(s) ==
    /\ soonPc = "sync" /\ s \in soonTodo
    /\ soonTodo' = soonTodo \ {s}
    /\ UNCHANGED <<soonSaved, soonShown, soonOpen, soonPc, soonRead, soonActed, soonEditing>>

\* What a sync leaves of the collection: all of it was written, items the
\* server does not have excepted, or the call failed on its way.
Written(s) == {{soonRead.row.title} \X S : S \in SUBSET soonOpen}
PartlyWritten(s) == {{soonRead.row.title} \X S : S \in SUBSET (soonOpen \cup Shown(s, soonRead.row.title))}

\* Mutant: a failed deletion of the old title is forgotten.
SyncServer_OldForgotten(s) ==
    LET old == soonRead.row.last[s]
        others == IF old \in {NoTitle, soonRead.row.title} THEN {soonShown[s]}
                  ELSE {Without(s, old), soonShown[s]}
    IN  /\ soonPc = "sync" /\ s \in soonTodo /\ soonRead.row.enabled
        /\ soonTodo' = soonTodo \ {s}
        /\ \E rest \in others, written \in Written(s) :
               soonShown' = [soonShown EXCEPT ![s] =
                                {x \in rest : x[1] # soonRead.row.title} \cup written]
        /\ soonRead' = [soonRead EXCEPT !.next[s] = soonRead.row.title]
        /\ UNCHANGED <<soonSaved, soonOpen, soonPc, soonActed, soonEditing>>

\* The collection of the title synced before is deleted, the current one
\* written; the new title is remembered only if both calls succeed.
SyncServer(s) ==
    LET old == soonRead.row.last[s]
        rest == IF old \in {NoTitle, soonRead.row.title} THEN soonShown[s] ELSE Without(s, old)
        becomes(base, written) ==
            soonShown' = [soonShown EXCEPT ![s] = {x \in base : x[1] # soonRead.row.title} \cup written]
    IN  /\ soonPc = "sync" /\ s \in soonTodo /\ soonRead.row.enabled
        /\ soonTodo' = soonTodo \ {s}
        /\ \/ /\ \E written \in Written(s) : becomes(rest, written)
              /\ soonRead' = [soonRead EXCEPT !.next[s] = soonRead.row.title]
           \/ /\ \E base \in {rest, soonShown[s]}, written \in PartlyWritten(s) :
                     becomes(base, written)
              /\ UNCHANGED soonRead
        /\ UNCHANGED <<soonSaved, soonOpen, soonPc, soonActed, soonEditing>>

\* _cleanup_disabled_leaving_soon_collections
CleanUpServer(s) ==
    /\ soonPc = "sync" /\ s \in soonTodo /\ ~soonRead.row.enabled
    /\ soonTodo' = soonTodo \ {s}
    /\ soonShown' = [soonShown EXCEPT ![s] = Without(s, soonRead.row.last[s])]
    /\ soonRead' = [soonRead EXCEPT !.next[s] = NoTitle]
    /\ UNCHANGED <<soonSaved, soonOpen, soonPc, soonActed, soonEditing>>

\* The titles are written as a whole; a sync that changed none writes nothing.
SyncEnds ==
    /\ soonPc = "sync" /\ soonTodo = {}
    /\ \/ /\ soonRead.next # soonRead.row.last
          /\ soonSaved' = [soonSaved EXCEPT !.last = soonRead.next]
       \/ UNCHANGED soonSaved    \* nothing changed, or the commit failed
    /\ soonPc' = "idle"
    /\ soonRead' = NothingRead
    /\ UNCHANGED <<soonShown, soonOpen, soonTodo, soonActed, soonEditing>>

-----------------------------------------------------------------------------
(* update_general_settings                                                 *)

\* Switching off deletes what the servers have under the titles that were read.
EditStarts ==
    /\ soonEdit = NothingRead
    /\ \E title \in Titles, enabled \in BOOLEAN :
           IF soonSaved.enabled /\ ~enabled
           THEN /\ soonEdit' = Reading([soonSaved EXCEPT !.title = title])
                /\ soonEditTodo' = {s \in SoonServers : soonSaved.last[s] # NoTitle}
                /\ UNCHANGED soonSaved
           ELSE /\ soonSaved' = [soonSaved EXCEPT !.title = title, !.enabled = enabled]
                /\ UNCHANGED soonEditing
    /\ UNCHANGED <<soonShown, soonOpen, soonWork>>

EditServer(s) ==
    /\ s \in soonEditTodo
    /\ soonEditTodo' = soonEditTodo \ {s}
    /\ \/ /\ soonShown' = [soonShown EXCEPT ![s] = Without(s, soonEdit.row.last[s])]
          /\ soonEdit' = [soonEdit EXCEPT !.next[s] = NoTitle]
       \/ UNCHANGED <<soonShown, soonEdit>>    \* it is away, or the call fails
    /\ UNCHANGED <<soonSaved, soonOpen, soonWork>>

EditEnds ==
    /\ soonEdit # NothingRead /\ soonEditTodo = {}
    /\ soonSaved' = [title |-> soonEdit.row.title, enabled |-> FALSE,
                     last |-> IF soonEdit.next = soonEdit.row.last THEN soonSaved.last
                               ELSE soonEdit.next]
    /\ soonEdit' = NothingRead
    /\ UNCHANGED <<soonShown, soonOpen, soonWork, soonEditTodo>>

SoonNext ==
    \/ ActOnCandidates
    \/ ActionStarts
    \/ ActionEnds
    \/ SoonScan
    \/ LoadSettings
    \/ SyncEnds
    \/ \E s \in SoonServers : \/ PruneServer(s)
                              \/ PruneFails(s)
                              \/ ServerAway(s)
                              \/ SyncServer(s)
                              \/ CleanUpServer(s)
                              \/ EditServer(s)
    \/ EditStarts
    \/ EditEnds

SoonSpec == SoonInit /\ [][SoonNext]_soonVars

-----------------------------------------------------------------------------
(* Properties                                                              *)

SoonTypeOK ==
    /\ soonSaved \in SoonSettings
    /\ {soonRead, soonEdit} \subseteq ReadSettings
    /\ soonShown \in [SoonServers -> SUBSET (Titles \X Items)]
    /\ soonOpen \subseteq Items
    /\ soonPc \in {"idle", "prune", "act", "load", "sync"}
    /\ soonTodo \subseteq SoonServers
    /\ soonActed \subseteq Items
    /\ soonEditTodo \subseteq SoonServers

\* While candidates are deleted or moved, no server that was synced still
\* links them under the current title or the one it was synced with, whatever
\* calls failed before and whoever saves the settings meanwhile
\* (_prune_leaving_soon_before_candidate_actions).
LinksPruned ==
    soonPc = "act" /\ soonRead.row.enabled =>
        \A s \in SoonServers \ SilentServers : soonRead.row.last[s] # NoTitle =>
            soonActed \cap (Shown(s, soonRead.row.title) \cup Shown(s, soonRead.row.last[s])) = {}

\* A sync forgets the title a server was synced with only when nothing is left
\* there under it: a collection that could not be deleted is tried again.
SyncForgetsGone ==
    [][SyncEnds => \A s \in SoonServers :
           soonRead.row.last[s] \notin {NoTitle, soonRead.next[s]} =>
               Shown(s, soonRead.row.last[s]) = {}]_soonVars
=============================================================================
