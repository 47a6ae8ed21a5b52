---------------------------- MODULE ServicesProofs ----------------------------
(***************************************************************************)
(* The clients in memory follow the saved settings, for any number of      *)
(* services, saves, deletions and restarts in any order.                   *)
(* ClientsFollowSettings speaks of quiet moments only.  Its strengthening, *)
(* Follows, says what holds in between: the newest row waits in the queue, *)
(* or a toggle with it is at work, or the client is right and no toggle    *)
(* that could spoil it has passed the staleness check.                     *)
(*                                                                         *)
(* The rows of operation sessions are true, for any sessions and items of  *)
(* any number of stages.  The invariant says what a session at work has    *)
(* behind it, at hand and ahead.                                           *)
(*                                                                         *)
(* Last, the parts that Services composes keep their types.                *)
(***************************************************************************)
EXTENDS Services, SeriesRowsProofs, RuleScanProofs, SnapshotProofs, TLAPS

-----------------------------------------------------------------------------
(* The settings and the clients.                                            *)

\* Only media servers are ever the main server: the request is validated.
MainsAreMedia ==
    /\ \A s \in svcSaves : s.data.main => s.id \in MediaIds
    /\ \A id \in ServiceIds :
          /\ svcRows[id] # Nothing /\ svcRows[id].main => id \in MediaIds
          /\ svcPending[id] # Nothing /\ svcPending[id].main => id \in MediaIds
    /\ svcToggle # Nothing =>
          /\ svcToggle.data.main => svcToggle.id \in MediaIds
          /\ svcToggle.step = "cleared" => svcToggle.data.enabled

\* The client is right for the row.
ClientRight(id) ==
    IF svcRows[id] = Nothing \/ ~svcRows[id].enabled THEN svcClients[id] = Nothing
    ELSE svcClients[id] \in {svcRows[id].url, Nothing}

Follows(id) ==
    \/ id \in svcBehind \cup svcDeleting
    \/ svcPending[id] # Nothing /\ svcPending[id] = svcRows[id]
    \/ Toggling(id) /\ svcToggle.data = svcRows[id]
    \/ ClientRight(id) /\ (Toggling(id) => svcToggle.step = "waiting")

SvcInv ==
    /\ SvcTypeOK
    /\ MainsAreMedia
    /\ MainHasClient
    /\ \A id \in ServiceIds : Follows(id)

\* No settings, no toggle and no save is taken for "nothing".
LEMMA SvcTypes ==
    ASSUME SvcTypeOK
    PROVE  /\ \A id \in ServiceIds : svcRows[id] # Nothing => svcRows[id] \in Settings
           /\ \A id \in ServiceIds : svcPending[id] # Nothing => svcPending[id] \in Settings
           /\ svcToggle # Nothing => svcToggle \in Toggles
  BY DEF SvcTypeOK

\* The invariant holds before the first save.
LEMMA SvcInitInv == SvcInit => SvcInv
  BY ServiceAssumption
  DEF SvcInit, SvcInv, SvcTypeOK, MainsAreMedia, MainHasClient, Follows, ClientRight, Toggling

\* A save that has passed its tests has changed nothing yet.
LEMMA SaveTestedInv ==
    ASSUME SvcInv, SaveTested
    PROVE  SvcInv'
<1>1. PICK id \in ServiceIds : \E d \in SettingsOf(id), edit \in BOOLEAN :
         svcSaves' = svcSaves \cup {[id |-> id, data |-> d, edit |-> edit, written |-> FALSE]}
  BY DEF SaveTested
<1>2. PICK d \in SettingsOf(id), edit \in BOOLEAN :
         svcSaves' = svcSaves \cup {[id |-> id, data |-> d, edit |-> edit, written |-> FALSE]}
  BY <1>1
<1>3. d \in Settings /\ (d.main => id \in MediaIds)
  BY DEF SettingsOf
<1>4. /\ UNCHANGED <<svcRows, svcPending, svcBehind, svcToggle, svcDeleting, svcMemory>>
      /\ svcSteps' = svcSteps + 1 /\ svcSteps < MaxServiceSteps
  BY DEF SaveTested
<1>5. SvcTypeOK'
  <2>1. [id |-> id, data |-> d, edit |-> edit, written |-> FALSE] \in Saves
    BY <1>3 DEF Saves
  <2>2. svcSaves' \subseteq Saves
    BY <1>2, <2>1 DEF SvcInv, SvcTypeOK
  <2>3. svcSteps' \in 0..MaxServiceSteps
    BY <1>4, ServiceAssumption DEF SvcInv, SvcTypeOK
  <2> QED
    BY <1>4, <2>2, <2>3 DEF SvcInv, SvcTypeOK, svcMemory
<1>6. MainsAreMedia'
  BY <1>2, <1>3, <1>4 DEF SvcInv, MainsAreMedia
<1>7. MainHasClient' /\ \A i \in ServiceIds : Follows(i)'
  BY <1>4 DEF SvcInv, MainHasClient, Follows, ClientRight, Toggling, svcMemory
<1> QED
  BY <1>5, <1>6, <1>7 DEF SvcInv

\* A written row is behind until its toggle is queued, and so is a row that
\* loses its main flag while a toggle of it is outstanding; another one that
\* loses it keeps the client it has.
LEMMA SaveWrittenInv ==
    ASSUME SvcInv, NEW s \in svcSaves, SaveWritten(s)
    PROVE  SvcInv'
<1> DEFINE found == s.edit => svcRows[s.id] # Nothing
           demoted == {id \in MediaIds \ {s.id} : s.data.main /\ IsMain(id)}
           outstanding == {id \in demoted : svcPending[id] # Nothing \/ Toggling(id)}
<1>1. /\ svcRows' = [id \in ServiceIds |->
                      IF id = s.id /\ found THEN s.data
                      ELSE IF id \in demoted THEN [svcRows[id] EXCEPT !.main = FALSE]
                      ELSE svcRows[id]]
      /\ svcSaves' = (svcSaves \ {s}) \cup (IF found THEN {[s EXCEPT !.written = TRUE]} ELSE {})
      /\ svcBehind' = svcBehind \cup outstanding \cup (IF found THEN {s.id} ELSE {})
      /\ UNCHANGED <<svcPending, svcSteps, svcToggle, svcDeleting, svcClients, svcMain>>
  BY DEF SaveWritten, svcMemory
<1>2. s \in Saves /\ s.id \in ServiceIds /\ s.data \in Settings /\ (s.data.main => s.id \in MediaIds)
  BY DEF SvcInv, SvcTypeOK, MainsAreMedia, Saves
<1>3. demoted \subseteq ServiceIds /\ \A id \in demoted : svcRows[id] \in Settings
  BY SvcTypes DEF ServiceIds, IsMain, SvcInv
<1>4. \A id \in demoted :
         /\ [svcRows[id] EXCEPT !.main = FALSE] \in Settings
         /\ [svcRows[id] EXCEPT !.main = FALSE].main = FALSE
         /\ [svcRows[id] EXCEPT !.main = FALSE].enabled = svcRows[id].enabled
         /\ [svcRows[id] EXCEPT !.main = FALSE].url = svcRows[id].url
  BY <1>3 DEF Settings
<1>5. [s EXCEPT !.written = TRUE] \in Saves
      /\ [s EXCEPT !.written = TRUE].data = s.data /\ [s EXCEPT !.written = TRUE].id = s.id
  BY <1>2 DEF Saves
<1> HIDE DEF found, demoted
<1>6. SvcTypeOK'
  <2>1. svcRows' \in [ServiceIds -> Settings \cup {Nothing}]
    BY <1>1, <1>2, <1>4 DEF SvcInv, SvcTypeOK
  <2>2. svcSaves' \subseteq Saves
    BY <1>1, <1>5 DEF SvcInv, SvcTypeOK
  <2>3. svcBehind' \subseteq ServiceIds
    BY <1>1, <1>2, <1>3 DEF SvcInv, SvcTypeOK
  <2> QED
    BY <1>1, <2>1, <2>2, <2>3 DEF SvcInv, SvcTypeOK
<1>7. MainsAreMedia'
  <2>1. \A t \in svcSaves' : t.data.main => t.id \in MediaIds
    BY <1>1, <1>2, <1>5 DEF SvcInv, MainsAreMedia
  <2>2. \A id \in ServiceIds : svcRows'[id] # Nothing /\ svcRows'[id].main => id \in MediaIds
    BY <1>1, <1>2, <1>4 DEF SvcInv, MainsAreMedia
  <2> QED
    BY <1>1, <2>1, <2>2 DEF SvcInv, MainsAreMedia
<1>8. MainHasClient'
  BY <1>1 DEF SvcInv, MainHasClient
<1>9. ASSUME NEW id \in ServiceIds PROVE Follows(id)'
  <2>1. CASE id = s.id /\ found
    BY <1>1, <2>1 DEF Follows
  <2>2. CASE id \in demoted /\ id # s.id
    <3>1. CASE id \in outstanding
      BY <1>1, <3>1 DEF Follows
    <3>2. CASE id \notin outstanding
      <4>1. svcPending[id] = Nothing /\ ~Toggling(id)
        BY <2>2, <3>2
      <4>2. id \in svcBehind \cup svcDeleting \/ ClientRight(id)
        BY <4>1 DEF SvcInv, Follows
      <4>3. svcRows'[id] = [svcRows[id] EXCEPT !.main = FALSE] /\ svcRows[id] \in Settings
        BY <1>1, <1>3, <2>2
      <4>4. ClientRight(id) => ClientRight(id)'
        BY <1>1, <1>4, <2>2, <4>3, ServiceAssumption DEF ClientRight, Settings
      <4> QED
        BY <1>1, <4>1, <4>2, <4>4 DEF Follows, Toggling
    <3> QED
      BY <3>1, <3>2
  <2>3. CASE svcRows'[id] = svcRows[id]
    BY <1>1, <2>3 DEF SvcInv, Follows, ClientRight, Toggling
  <2>4. id # s.id => id \in demoted \/ svcRows'[id] = svcRows[id]
    BY <1>1
  <2>5. id = s.id => id \notin demoted
    BY DEF demoted
  <2> QED
    BY <1>1, <2>1, <2>2, <2>3, <2>4, <2>5
<1> QED
  BY <1>6, <1>7, <1>8, <1>9 DEF SvcInv

\* A queued toggle takes the place of the one that waited: a row that was
\* waiting for that one, and is not the one of the save, is behind again.
LEMMA SaveQueuedInv ==
    ASSUME SvcInv, NEW s \in svcSaves, SaveQueued(s)
    PROVE  SvcInv'
<1> DEFINE replaced == svcPending[s.id] # Nothing /\ svcPending[s.id] = svcRows[s.id]
<1>1. /\ svcSaves' = svcSaves \ {s}
      /\ svcPending' = [svcPending EXCEPT ![s.id] = s.data]
      /\ svcBehind' = IF svcRows[s.id] = s.data THEN svcBehind \ {s.id}
                      ELSE IF replaced THEN svcBehind \cup {s.id} ELSE svcBehind
      /\ UNCHANGED <<svcRows, svcSteps, svcToggle, svcDeleting, svcClients, svcMain>>
  BY DEF SaveQueued, svcMemory
<1>2. s.id \in ServiceIds /\ s.data \in Settings /\ (s.data.main => s.id \in MediaIds)
  BY DEF SvcInv, SvcTypeOK, MainsAreMedia, Saves
<1>3. \A id \in ServiceIds : svcPending'[id] = IF id = s.id THEN s.data ELSE svcPending[id]
  BY <1>1 DEF SvcInv, SvcTypeOK
<1>4. SvcTypeOK'
  BY <1>1, <1>2 DEF SvcInv, SvcTypeOK
<1>5. MainsAreMedia' /\ MainHasClient'
  BY <1>1, <1>2, <1>3 DEF SvcInv, MainsAreMedia, MainHasClient
<1>6. ASSUME NEW id \in ServiceIds PROVE Follows(id)'
  <2>1. CASE id # s.id
    BY <1>1, <1>3, <2>1 DEF SvcInv, Follows, ClientRight, Toggling
  <2>2. CASE id = s.id /\ svcRows[s.id] = s.data
    BY <1>1, <1>2, <1>3, <2>2, ServiceAssumption DEF Follows
  <2>3. CASE id = s.id /\ svcRows[s.id] # s.data
    BY <1>1, <1>3, <2>3 DEF SvcInv, Follows, ClientRight, Toggling
  <2> QED
    BY <2>1, <2>2, <2>3
<1> QED
  BY <1>4, <1>5, <1>6 DEF SvcInv

\* A save whose job is not queued leaves its service behind.
LEMMA SaveUnqueuedInv ==
    ASSUME SvcInv, NEW s \in svcSaves, SaveUnqueued(s)
    PROVE  SvcInv'
  BY DEF SaveUnqueued, SvcInv, SvcTypeOK, MainsAreMedia, MainHasClient, Follows, ClientRight,
         Toggling, svcMemory

\* A claimed toggle has not passed the check.
LEMMA ToggleClaimedInv ==
    ASSUME SvcInv, NEW t \in ServiceIds, ToggleClaimed(t)
    PROVE  SvcInv'
<1> DEFINE job == [id |-> t, data |-> svcPending[t], step |-> "waiting"]
<1>1. /\ svcToggle = Nothing /\ svcPending[t] # Nothing /\ svcToggle' = job
      /\ svcPending' = [svcPending EXCEPT ![t] = Nothing]
      /\ UNCHANGED <<svcRows, svcSaves, svcBehind, svcSteps, svcDeleting, svcClients, svcMain>>
  BY DEF ToggleClaimed, svcMemory
<1>2. svcPending[t] \in Settings /\ job \in Toggles
  BY <1>1, SvcTypes DEF SvcInv, Toggles
<1>3. \A id \in ServiceIds : svcPending'[id] = IF id = t THEN Nothing ELSE svcPending[id]
  BY <1>1 DEF SvcInv, SvcTypeOK
<1>4. SvcTypeOK'
  BY <1>1, <1>2 DEF SvcInv, SvcTypeOK
<1>5. MainsAreMedia' /\ MainHasClient'
  BY <1>1, <1>3 DEF SvcInv, MainsAreMedia, MainHasClient
<1>6. ASSUME NEW id \in ServiceIds PROVE Follows(id)'
  <2>1. CASE id # t
    BY <1>1, <1>3, <2>1 DEF SvcInv, Follows, ClientRight, Toggling
  <2>2. CASE id = t
    <3>1. CASE svcPending[t] = svcRows[t]
      BY <1>1, <1>2, <2>2, <3>1, ServiceAssumption DEF Follows, Toggling, Toggles
    <3>2. CASE svcPending[t] # svcRows[t]
      BY <1>1, <2>2, <3>2 DEF SvcInv, Follows, ClientRight, Toggling
    <3> QED
      BY <3>1, <3>2
  <2> QED
    BY <2>1, <2>2
<1> QED
  BY <1>4, <1>5, <1>6 DEF SvcInv

\* A toggle goes on only with the saved settings.
LEMMA ToggleCheckedInv ==
    ASSUME SvcInv, ToggleChecked
    PROVE  SvcInv'
<1>1. /\ svcToggle # Nothing /\ svcToggle.step = "waiting" /\ svcToggle \in Toggles
      /\ UNCHANGED <<svcRows, svcSaves, svcPending, svcBehind, svcSteps, svcDeleting, svcClients, svcMain>>
  BY SvcTypes DEF ToggleChecked, svcStored, svcMemory, SvcInv
<1>2. CASE JobStale(svcToggle)
  <2>1. svcToggle' = Nothing
    BY <1>2 DEF ToggleChecked
  <2> QED
    BY <1>1, <1>2, <2>1
    DEF SvcInv, SvcTypeOK, MainsAreMedia, MainHasClient, Follows, ClientRight, Toggling, JobStale
<1>3. CASE ~JobStale(svcToggle)
  <2> DEFINE job == [svcToggle EXCEPT !.step = "checked"]
  <2>1. svcToggle' = job
    BY <1>3 DEF ToggleChecked
  <2>2. job \in Toggles /\ job.id = svcToggle.id /\ job.data = svcToggle.data /\ job.step = "checked"
    BY <1>1 DEF Toggles
  <2>3. svcToggle.data = svcRows[svcToggle.id]
    BY <1>3 DEF JobStale
  <2> HIDE DEF job
  <2>4. SvcTypeOK' /\ MainsAreMedia' /\ MainHasClient'
    BY <1>1, <2>1, <2>2 DEF SvcInv, SvcTypeOK, MainsAreMedia, MainHasClient
  <2>5. \A id \in ServiceIds : Follows(id)'
    BY <1>1, <2>1, <2>2, <2>3, ServiceAssumption DEF SvcInv, Follows, ClientRight, Toggling
  <2> QED
    BY <2>4, <2>5 DEF SvcInv
<1> QED
  BY <1>2, <1>3

\* Clearing a client is right for any row, and takes the main server with it.
LEMMA Cleared ==
    ASSUME SvcInv, NEW id \in ServiceIds,
           svcClients' = [svcClients EXCEPT ![id] = Nothing], svcMain' = WithoutMain(id)
    PROVE  /\ svcClients' \in [ServiceIds -> Urls \cup {Nothing}]
           /\ svcMain' \in MediaIds \cup {Nothing}
           /\ MainHasClient'
           /\ svcClients'[id] = Nothing
           /\ \A i \in ServiceIds \ {id} : svcClients'[i] = svcClients[i]
<1>1. svcClients \in [ServiceIds -> Urls \cup {Nothing}] /\ svcMain \in MediaIds \cup {Nothing}
  BY DEF SvcInv, SvcTypeOK
<1>2. svcClients'[id] = Nothing /\ \A i \in ServiceIds \ {id} : svcClients'[i] = svcClients[i]
  BY <1>1
<1>3. MainHasClient'
  BY <1>1, <1>2 DEF SvcInv, MainHasClient, WithoutMain, ServiceIds
<1> QED
  BY <1>1, <1>2, <1>3 DEF WithoutMain

\* The old client goes before the new one comes.
LEMMA ToggleClearedInv ==
    ASSUME SvcInv, ToggleCleared
    PROVE  SvcInv'
<1> DEFINE id == svcToggle.id
           job == [svcToggle EXCEPT !.step = "cleared"]
<1>1. /\ svcToggle # Nothing /\ svcToggle.step = "checked" /\ svcToggle \in Toggles
      /\ svcClients' = [svcClients EXCEPT ![id] = Nothing] /\ svcMain' = WithoutMain(id)
      /\ svcToggle' = IF svcToggle.data.enabled THEN job ELSE Nothing
      /\ UNCHANGED <<svcRows, svcSaves, svcPending, svcBehind, svcSteps, svcDeleting>>
  BY SvcTypes DEF ToggleCleared, svcStored, SvcInv
<1>2. id \in ServiceIds /\ job \in Toggles /\ job.id = id /\ job.data = svcToggle.data /\ job.step = "cleared"
  BY <1>1 DEF Toggles
<1> HIDE DEF job
<1>3. /\ svcClients' \in [ServiceIds -> Urls \cup {Nothing}] /\ svcMain' \in MediaIds \cup {Nothing}
      /\ MainHasClient' /\ svcClients'[id] = Nothing
      /\ \A i \in ServiceIds \ {id} : svcClients'[i] = svcClients[i]
  BY <1>1, <1>2, Cleared
<1>4. SvcTypeOK' /\ MainsAreMedia'
  BY <1>1, <1>2, <1>3 DEF SvcInv, SvcTypeOK, MainsAreMedia
<1>5. ASSUME NEW i \in ServiceIds PROVE Follows(i)'
  <2>1. CASE i # id
    BY <1>1, <1>2, <1>3, <2>1 DEF SvcInv, Follows, ClientRight, Toggling
  <2>2. CASE i = id
    <3>1. \/ i \in svcBehind \cup svcDeleting
          \/ svcPending[i] # Nothing /\ svcPending[i] = svcRows[i]
          \/ svcToggle.data = svcRows[i]
      BY <1>1, <2>2 DEF SvcInv, Follows, Toggling
    <3>2. ClientRight(i)'
      BY <1>3, <2>2 DEF ClientRight
    <3> QED
      BY <1>1, <1>2, <2>2, <3>1, <3>2, ServiceAssumption DEF Follows, Toggling
  <2> QED
    BY <2>1, <2>2
<1> QED
  BY <1>3, <1>4, <1>5 DEF SvcInv

\* The new client is that of the toggle; it becomes the main one when it is up.
LEMMA ToggleStartedInv ==
    ASSUME SvcInv, NEW healthy \in BOOLEAN, ToggleStarted(healthy)
    PROVE  SvcInv'
<1> DEFINE id == svcToggle.id
           url == svcToggle.data.url
<1>1. /\ svcToggle # Nothing /\ svcToggle.step = "cleared" /\ svcToggle \in Toggles
      /\ svcClients' = [svcClients EXCEPT ![id] = Started(id, url, healthy)]
      /\ svcMain' = IF healthy /\ svcToggle.data.main THEN id ELSE svcMain
      /\ svcToggle' = Nothing
      /\ UNCHANGED <<svcRows, svcSaves, svcPending, svcBehind, svcSteps, svcDeleting>>
  BY SvcTypes DEF ToggleStarted, svcStored, SvcInv
<1>2. /\ id \in ServiceIds /\ svcToggle.data \in Settings /\ url \in Urls
      /\ svcToggle.data.enabled /\ (svcToggle.data.main => id \in MediaIds)
  BY <1>1 DEF SvcInv, MainsAreMedia, Toggles, Settings
<1>3. /\ Started(id, url, healthy) \in Urls \cup {Nothing}
      /\ healthy \/ id \in MediaIds => Started(id, url, healthy) = url
      /\ Started(id, url, healthy) \in {url, Nothing}
  BY <1>2 DEF Started
<1>4. svcClients \in [ServiceIds -> Urls \cup {Nothing}] /\ svcMain \in MediaIds \cup {Nothing}
  BY DEF SvcInv, SvcTypeOK
<1>5. \A i \in ServiceIds : svcClients'[i] = IF i = id THEN Started(id, url, healthy) ELSE svcClients[i]
  BY <1>1, <1>4
<1>6. SvcTypeOK' /\ MainsAreMedia'
  BY <1>1, <1>2, <1>3, <1>4 DEF SvcInv, SvcTypeOK, MainsAreMedia
<1>7. MainHasClient'
  <2>1. CASE healthy /\ svcToggle.data.main
    BY <1>1, <1>2, <1>3, <1>5, <2>1, ServiceAssumption DEF MainHasClient
  <2>2. CASE ~(healthy /\ svcToggle.data.main)
    <3>1. svcMain' = svcMain /\ (svcMain # Nothing => svcMain \in MediaIds /\ svcMain \in ServiceIds)
      BY <1>1, <1>4, <2>2 DEF ServiceIds
    <3> QED
      BY <1>2, <1>3, <1>5, <3>1, ServiceAssumption DEF SvcInv, MainHasClient
  <2> QED
    BY <2>1, <2>2
<1>8. ASSUME NEW i \in ServiceIds PROVE Follows(i)'
  <2>1. CASE i # id
    BY <1>1, <1>5, <2>1 DEF SvcInv, Follows, ClientRight, Toggling
  <2>2. CASE i = id
    <3>1. \/ i \in svcBehind \cup svcDeleting
          \/ svcPending[i] # Nothing /\ svcPending[i] = svcRows[i]
          \/ svcToggle.data = svcRows[i]
      BY <1>1, <2>2 DEF SvcInv, Follows, Toggling
    <3>2. svcToggle.data = svcRows[i] => ClientRight(i)'
      BY <1>1, <1>2, <1>3, <1>5, <2>2, ServiceAssumption DEF ClientRight
    <3> QED
      BY <1>1, <3>1, <3>2 DEF Follows, Toggling
  <2> QED
    BY <2>1, <2>2
<1> QED
  BY <1>6, <1>7, <1>8 DEF SvcInv

\* A deletion has its client to clear.
LEMMA DeleteWrittenInv ==
    ASSUME SvcInv, NEW d \in ServiceIds, DeleteWritten(d)
    PROVE  SvcInv'
<1>1. /\ svcRows' = [svcRows EXCEPT ![d] = Nothing] /\ svcPending' = [svcPending EXCEPT ![d] = Nothing]
      /\ svcBehind' = svcBehind \ {d} /\ svcDeleting' = svcDeleting \cup {d}
      /\ svcSteps' = svcSteps + 1 /\ svcSteps < MaxServiceSteps
      /\ UNCHANGED <<svcSaves, svcToggle, svcClients, svcMain>>
  BY DEF DeleteWritten, svcMemory
<1>2. /\ \A i \in ServiceIds : svcRows'[i] = IF i = d THEN Nothing ELSE svcRows[i]
      /\ \A i \in ServiceIds : svcPending'[i] = IF i = d THEN Nothing ELSE svcPending[i]
  BY <1>1 DEF SvcInv, SvcTypeOK
<1>3. SvcTypeOK'
  BY <1>1, ServiceAssumption DEF SvcInv, SvcTypeOK
<1>4. MainsAreMedia' /\ MainHasClient'
  BY <1>1, <1>2 DEF SvcInv, MainsAreMedia, MainHasClient
<1>5. \A i \in ServiceIds : Follows(i)'
  BY <1>1, <1>2 DEF SvcInv, Follows, ClientRight, Toggling
<1> QED
  BY <1>3, <1>4, <1>5 DEF SvcInv

\* It clears it when no toggle is past its check.
LEMMA DeleteClearedInv ==
    ASSUME SvcInv, NEW d \in ServiceIds, DeleteCleared(d)
    PROVE  SvcInv'
<1>1. /\ ~LockHeld /\ svcClients' = [svcClients EXCEPT ![d] = Nothing] /\ svcMain' = WithoutMain(d)
      /\ svcDeleting' = svcDeleting \ {d}
      /\ UNCHANGED <<svcRows, svcSaves, svcPending, svcBehind, svcSteps, svcToggle>>
  BY DEF DeleteCleared, svcStored
<1>2. /\ svcClients' \in [ServiceIds -> Urls \cup {Nothing}] /\ svcMain' \in MediaIds \cup {Nothing}
      /\ MainHasClient' /\ svcClients'[d] = Nothing
      /\ \A i \in ServiceIds \ {d} : svcClients'[i] = svcClients[i]
  BY <1>1, Cleared
<1>3. SvcTypeOK' /\ MainsAreMedia'
  BY <1>1, <1>2 DEF SvcInv, SvcTypeOK, MainsAreMedia
<1>4. ASSUME NEW i \in ServiceIds PROVE Follows(i)'
  <2>1. CASE i # d
    BY <1>1, <1>2, <2>1 DEF SvcInv, Follows, ClientRight, Toggling
  <2>2. CASE i = d
    BY <1>1, <1>2, <2>2 DEF Follows, ClientRight, Toggling, LockHeld
  <2> QED
    BY <2>1, <2>2
<1> QED
  BY <1>2, <1>3, <1>4 DEF SvcInv

\* A start makes the clients from the rows.
LEMMA RestartedInv ==
    ASSUME SvcInv, Restarted
    PROVE  SvcInv'
<1> DEFINE up == {id \in ServiceIds : svcRows[id] # Nothing /\ svcRows[id].enabled}
<1>1. PICK healthy \in SUBSET ServiceIds :
         /\ svcClients' = [id \in ServiceIds |->
               IF id \in up THEN Started(id, svcRows[id].url, id \in healthy) ELSE Nothing]
         /\ svcMain' = IF \E id \in up \cap healthy : IsMain(id)
                       THEN CHOOSE id \in up \cap healthy : IsMain(id) ELSE Nothing
  BY DEF Restarted
<1>2. /\ svcSaves' = {} /\ svcToggle' = Nothing /\ svcDeleting' = {} /\ svcBehind' = {}
      /\ svcSteps' = svcSteps + 1 /\ svcSteps < MaxServiceSteps
      /\ UNCHANGED <<svcRows, svcPending>>
  BY DEF Restarted
<1>3. \A id \in up : id \in ServiceIds /\ svcRows[id] \in Settings /\ svcRows[id].url \in Urls
  BY SvcTypes DEF SvcInv, Settings
<1>4. \A id \in up : /\ svcClients'[id] \in {svcRows[id].url, Nothing}
                     /\ id \in healthy => svcClients'[id] = svcRows[id].url
  BY <1>1, <1>3 DEF Started
<1>5. svcMain' # Nothing => svcMain' \in up \cap healthy /\ IsMain(svcMain')
  BY <1>1
<1>6. svcClients' \in [ServiceIds -> Urls \cup {Nothing}]
  BY <1>1, <1>3 DEF Started
<1>7. SvcTypeOK'
  BY <1>2, <1>5, <1>6, ServiceAssumption DEF SvcInv, SvcTypeOK, IsMain
<1>8. MainsAreMedia' /\ MainHasClient'
  BY <1>2, <1>3, <1>4, <1>5, ServiceAssumption DEF SvcInv, MainsAreMedia, MainHasClient
<1>9. \A id \in ServiceIds : Follows(id)'
  BY <1>1, <1>2, <1>4 DEF Follows, ClientRight, Toggling
<1> QED
  BY <1>7, <1>8, <1>9 DEF SvcInv

\* Every step keeps the invariant.
LEMMA SvcNextInv == SvcInv /\ [SvcNext]_svcVars => SvcInv'
<1> SUFFICES ASSUME SvcInv, [SvcNext]_svcVars PROVE SvcInv'
  OBVIOUS
<1>1. CASE UNCHANGED svcVars
  BY <1>1
  DEF svcVars, svcStored, svcMemory, SvcInv, SvcTypeOK, MainsAreMedia, MainHasClient, Follows,
      ClientRight, Toggling
<1> QED
  BY <1>1, SaveTestedInv, SaveWrittenInv, SaveQueuedInv, SaveUnqueuedInv, ToggleClaimedInv,
     ToggleCheckedInv, ToggleClearedInv, ToggleStartedInv, DeleteWrittenInv, DeleteClearedInv,
     RestartedInv
  DEF SvcNext

\* The invariant of the settings holds in every reachable state.
THEOREM SettingsInvariance == SvcSpec => []SvcInv
  BY SvcInitInv, SvcNextInv, PTL DEF SvcSpec

\* When a service is quiet its client is the one its row asks for: no toggle, in
\* whatever order it ran, has brought an old one back (handle_service_toggle).
THEOREM ClientsFollow == SvcSpec => []ClientsFollowSettings
<1>1. SvcInv => ClientsFollowSettings
  BY DEF SvcInv, Follows, ClientsFollowSettings, Quiet, ClientRight
<1> QED
  BY <1>1, SettingsInvariance, PTL

\* The main media server in memory is never a cleared client (clear_plex).
THEOREM MainIsNotCleared == SvcSpec => []MainHasClient
<1>1. SvcInv => MainHasClient
  BY DEF SvcInv
<1> QED
  BY <1>1, SettingsInvariance, PTL

-----------------------------------------------------------------------------
(* The sessions of operations.                                              *)

\* The steps of a session, and the sessions that there can be.
SessionSteps == {"preview", "validate", "revalidate", "find", "finish", "none"}
SessionRecords ==
    [status : SessionStates \cup {"none"}, items : Seq(SessionItems), at : Nat,
     step : SessionSteps, verdict : BOOLEAN]

\* The stages before the k-th are completed, the k-th is running, the others wait.
InStage(item, k) ==
    /\ k \in DOMAIN item.stages
    /\ \A i \in DOMAIN item.stages :
          item.stages[i] = IF i < k THEN "completed" ELSE IF i = k THEN "running" ELSE "pending"

\* The stage an item is in at a step of its session.
StageOf(item, step) ==
    IF step = "preview" THEN 1
    ELSE IF step = "validate" THEN ValidationStage(item) ELSE ExecutionStage(item)

\* What a settled item says of itself agrees with its audit rows.
SettledTrue(item, results) ==
    LET stages == ToSet(item.stages)
    IN  IF item.status = "completed"
        THEN results = {"completed"} /\ stages = {"completed"}
        ELSE results \subseteq {"failed"} /\ stages \cap {"pending", "running"} = {} /\ "failed" \in stages

\* The item at i: settled before the one at hand, not touched after it.
ItemOK(s, i) ==
    LET session == opsMemory[s]
        item == session.items[i]
    IN  /\ i < session.at => SettledTrue(item, AuditOf(s, i))
        /\ i >= session.at => AuditOf(s, i) = {}
        /\ i = session.at => InStage(item, StageOf(item, session.step))
        /\ i > session.at => item = NewItem(item.rec)

\* A running session and its row.
RunningOK(s) ==
    LET session == opsMemory[s]
    IN  /\ opsHistory[s] # NoRecord /\ opsHistory[s].status = "running"
        /\ session.at \in 1..(Len(session.items) + 1) /\ Len(session.items) <= MaxItems
        /\ session.step = "finish" <=> session.at = Len(session.items) + 1
        /\ session.step # "none"
        /\ \A i \in 1..Len(session.items) : ItemOK(s, i)

\* A session and its row, whatever it is at.
SessionOK(s) ==
    /\ opsMemory[s].status = "running" => RunningOK(s)
    /\ opsMemory[s].status # "running" => opsMemory[s].step = "none"
    /\ opsHistory[s] = NoRecord =>
          opsMemory[s] = NoSession /\ \A row \in opsAudit : row.session # s

\* What a row that is written says is true.
RecordTrue(s) ==
    opsHistory[s] # NoRecord /\ opsHistory[s].status # "running" =>
        /\ \A i \in DOMAIN opsHistory[s].items :
              SettledTrue(opsHistory[s].items[i], AuditOf(s, i))
        /\ opsHistory[s].status = Outcome(opsHistory[s].items)

\* The inductive invariant.
OpsInv ==
    /\ OpsTypeOK
    /\ opsMemory \in [Sessions -> SessionRecords]
    /\ opsHistory \in [Sessions -> Records \cup {NoRecord}]
    /\ \A s \in Sessions : SessionOK(s) /\ RecordTrue(s)

\* The stages of an item are as many as it has.
LEMMA StagesTyped ==
    ASSUME NEW item \in SessionItems
    PROVE  /\ Len(item.stages) \in Nat /\ DOMAIN item.stages = 1..Len(item.stages)
           /\ \A i \in DOMAIN item.stages : item.stages[i] \in StageStates
           /\ item = [rec |-> item.rec, status |-> item.status, stages |-> item.stages]
           /\ item.rec \in Recs /\ item.status \in {"pending", "running"} \cup Settled
  BY DEF SessionItems

\* An item with other stages is an item.
LEMMA ItemWith ==
    ASSUME NEW item \in SessionItems, NEW status \in {"pending", "running"} \cup Settled,
           NEW stages \in [DOMAIN item.stages -> StageStates]
    PROVE  /\ [item EXCEPT !.stages = stages, !.status = status] \in SessionItems
           /\ [item EXCEPT !.stages = stages] \in SessionItems
<1>1. stages \in Seq(StageStates)
  BY StagesTyped
<1> QED
  BY <1>1 DEF SessionItems

\* An item moves on to the next stage, or stays in one.
LEMMA NextStage ==
    ASSUME NEW item \in SessionItems, NEW k, InStage(item, k),
           NEW m \in DOMAIN item.stages, m \in {k, k + 1}
    PROVE  LET moved == Advance(Complete(item, k), m)
           IN  /\ moved \in SessionItems /\ InStage(moved, m)
               /\ Len(moved.stages) = Len(item.stages)
<1> DEFINE stages == [[item.stages EXCEPT ![k] = "completed"] EXCEPT ![m] = "running"]
           moved == Advance(Complete(item, k), m)
<1>1. k \in DOMAIN item.stages /\ k \in Nat /\ m \in Nat
  BY StagesTyped DEF InStage
<1>2. moved = [item EXCEPT !.stages = stages]
  BY StagesTyped DEF Advance, Complete
<1>3. stages \in [DOMAIN item.stages -> StageStates]
  BY StagesTyped DEF StageStates, SessionItems
<1>4. moved \in SessionItems
  <2> HIDE DEF stages, moved
  <2>1. \A status \in {"pending", "running"} \cup Settled :
           [item EXCEPT !.stages = stages] \in SessionItems
    BY <1>3, ItemWith
  <2> QED
    BY <1>2, <2>1
<1>5. moved.stages = stages
  BY <1>2, StagesTyped
<1>6. \A i \in DOMAIN item.stages :
         stages[i] = IF i < m THEN "completed" ELSE IF i = m THEN "running" ELSE "pending"
  BY <1>1, StagesTyped DEF InStage
<1>7. Len(stages) = Len(item.stages)
  BY <1>3, StagesTyped
<1> HIDE DEF stages, moved
<1> QED
  BY <1>3, <1>4, <1>5, <1>6, <1>7, StagesTyped DEF InStage, moved

\* An item that fails in its stage has one failed stage and none that is open.
LEMMA FailedIsTrue ==
    ASSUME NEW item \in SessionItems, NEW k, InStage(item, k),
           NEW status \in {"failed", "blocked"}, NEW results \in SUBSET {"failed"}
    PROVE  Failed(item, k, status) \in SessionItems
           /\ SettledTrue(Failed(item, k, status), results)
<1> DEFINE broken == [item.stages EXCEPT ![k] = "failed"]
           stages == [i \in DOMAIN broken |->
                        IF i >= k + 1 /\ broken[i] = "pending" THEN "skipped" ELSE broken[i]]
           failed == Failed(item, k, status)
<1>1. k \in DOMAIN item.stages /\ k \in Nat
  BY StagesTyped DEF InStage
<1>2. failed = [item EXCEPT !.stages = stages, !.status = status]
  BY StagesTyped DEF Failed, Rest
<1>3. /\ DOMAIN stages = DOMAIN item.stages
      /\ \A i \in DOMAIN item.stages :
            stages[i] = IF i < k THEN "completed" ELSE IF i = k THEN "failed" ELSE "skipped"
  BY <1>1, StagesTyped DEF InStage
<1>4. stages \in [DOMAIN item.stages -> StageStates]
  BY <1>3 DEF StageStates
<1>5. failed \in SessionItems
  <2> HIDE DEF stages, broken, failed
  <2> QED
    BY <1>2, <1>4, ItemWith DEF Settled
<1>6. failed.stages = stages /\ failed.status = status
  BY <1>2, StagesTyped
<1> HIDE DEF stages, broken
<1>7. ToSet(stages) \subseteq {"completed", "failed", "skipped"} /\ "failed" \in ToSet(stages)
  BY <1>1, <1>3 DEF ToSet
<1> QED
  BY <1>5, <1>6, <1>7 DEF SettledTrue

\* The first open stage is the one an item is in.
LEMMA FailedOpenIsFailed ==
    ASSUME NEW item \in SessionItems, NEW k, InStage(item, k)
    PROVE  FailedOpen(item) = Failed(item, k, "failed")
<1> DEFINE open == {i \in DOMAIN item.stages : item.stages[i] \in {"pending", "running"}}
<1>1. k \in open /\ open \subseteq Nat /\ \A i \in open : k <= i
  BY StagesTyped DEF InStage
<1>2. (CHOOSE i \in open : \A j \in open : i <= j) = k
  BY <1>1
<1> QED
  BY <1>1, <1>2 DEF FailedOpen

\* An item that is executed has all its stages completed.
LEMMA DoneIsTrue ==
    ASSUME NEW item \in SessionItems, NEW k, InStage(item, k)
    PROVE  LET done == Rest([Complete(item, k) EXCEPT !.status = "completed"], k + 1, "completed")
           IN  done \in SessionItems /\ SettledTrue(done, {"completed"})
<1> DEFINE closed == [item.stages EXCEPT ![k] = "completed"]
           stages == [i \in DOMAIN closed |->
                        IF i >= k + 1 /\ closed[i] = "pending" THEN "completed" ELSE closed[i]]
           done == Rest([Complete(item, k) EXCEPT !.status = "completed"], k + 1, "completed")
<1>1. k \in DOMAIN item.stages /\ k \in Nat
  BY StagesTyped DEF InStage
<1>2. done = [item EXCEPT !.stages = stages, !.status = "completed"]
  BY StagesTyped DEF Rest, Complete
<1>3. /\ DOMAIN stages = DOMAIN item.stages
      /\ \A i \in DOMAIN item.stages : stages[i] = "completed"
  BY <1>1, StagesTyped DEF InStage
<1>4. stages \in [DOMAIN item.stages -> StageStates]
  BY <1>3 DEF StageStates
<1>5. done \in SessionItems
  <2> HIDE DEF stages, closed, done
  <2> QED
    BY <1>2, <1>4, ItemWith DEF Settled
<1>6. done.stages = stages /\ done.status = "completed"
  BY <1>2, StagesTyped
<1> HIDE DEF stages, closed
<1>7. ToSet(stages) = {"completed"}
  BY <1>1, <1>3 DEF ToSet
<1> HIDE DEF done
<1> QED
  BY <1>5, <1>6, <1>7 DEF SettledTrue, done

\* A new item waits, and begins in its first stage.
LEMMA NewItemBegins ==
    ASSUME NEW r \in Recs
    PROVE  /\ NewItem(r) \in SessionItems /\ NewItem(r).rec = r
           /\ Begun(NewItem(r)) \in SessionItems /\ Begun(NewItem(r)).rec = r
           /\ InStage(Begun(NewItem(r)), 1)
<1>1. Stages[r] \in Nat /\ 1 \in 1..Stages[r]
  BY OpsAssumption
<1>2. NewItem(r) \in SessionItems /\ NewItem(r).rec = r
      /\ NewItem(r).stages = [i \in 1..Stages[r] |-> "pending"]
  BY <1>1 DEF NewItem, SessionItems, StageStates
<1> DEFINE item == NewItem(r)
           stages == [item.stages EXCEPT ![1] = "running"]
<1>3. DOMAIN item.stages = 1..Stages[r] /\ \A i \in 1..Stages[r] : item.stages[i] = "pending"
  BY <1>2
<1> HIDE DEF item
<1>4. /\ stages \in [DOMAIN item.stages -> StageStates]
      /\ \A i \in 1..Stages[r] : stages[i] = IF i = 1 THEN "running" ELSE "pending"
  BY <1>1, <1>3 DEF StageStates
<1>5. item \in SessionItems /\ item.rec = r
  BY <1>2 DEF item
<1>6. Begun(item) = [item EXCEPT !.stages = stages, !.status = "running"]
  BY <1>5, StagesTyped DEF Begun, Advance
<1>7. Begun(item).stages = stages /\ Begun(item).rec = r
  BY <1>5, <1>6, StagesTyped
<1>8. Begun(item) \in SessionItems
  <2> HIDE DEF stages
  <2> QED
    <3>1. \A later \in [DOMAIN item.stages -> StageStates] :
             [item EXCEPT !.stages = later, !.status = "running"] \in SessionItems
      <4> SUFFICES ASSUME NEW later \in [DOMAIN item.stages -> StageStates]
                   PROVE  [item EXCEPT !.stages = later, !.status = "running"] \in SessionItems
        OBVIOUS
      <4>1. "running" \in {"pending", "running"} \cup Settled
        OBVIOUS
      <4> QED
        BY <1>5, <4>1, ItemWith
    <3> QED
      BY <1>4, <1>6, <3>1
<1>9. InStage(Begun(item), 1)
  <2> HIDE DEF stages
  <2> QED
    BY <1>1, <1>3, <1>4, <1>7 DEF InStage
<1> QED
  BY <1>2, <1>7, <1>8, <1>9 DEF item

\* The stages of validation and execution are there, each at most one further on.
LEMMA StagesInOrder ==
    ASSUME NEW item \in SessionItems, item.stages # <<>>
    PROVE  /\ ValidationStage(item) \in DOMAIN item.stages /\ ValidationStage(item) \in {1, 1 + 1}
           /\ ExecutionStage(item) \in DOMAIN item.stages
           /\ ExecutionStage(item) \in {ValidationStage(item), ValidationStage(item) + 1}
<1>1. /\ Len(item.stages) \in Nat /\ Len(item.stages) >= 1
      /\ DOMAIN item.stages = 1..Len(item.stages)
  BY DEF SessionItems
<1>2. /\ ValidationStage(item) \in {1, 2} /\ ValidationStage(item) <= Len(item.stages)
      /\ ValidationStage(item) = 1 => Len(item.stages) = 1
  <2>1. CASE Len(item.stages) > 1
    BY <1>1, <2>1 DEF ValidationStage
  <2>2. CASE ~(Len(item.stages) > 1)
    <3>1. ValidationStage(item) = 1
      BY <2>2 DEF ValidationStage
    <3>2. \A n \in Nat : n >= 1 /\ ~(n > 1) => n = 1
      OBVIOUS
    <3>3. Len(item.stages) = 1
      BY <1>1, <2>2, <3>2
    <3> QED
      BY <3>1, <3>3
  <2> QED
    BY <2>1, <2>2
<1>3. /\ ExecutionStage(item) \in {ValidationStage(item), ValidationStage(item) + 1}
      /\ ExecutionStage(item) <= Len(item.stages)
  BY <1>1, <1>2 DEF ExecutionStage
<1> QED
  BY <1>1, <1>2, <1>3

\* No row is a record.
LEMMA InvariantTyped ==
    ASSUME OpsInv, NEW s \in Sessions
    PROVE  /\ opsMemory[s] \in SessionRecords
           /\ opsMemory[s].items \in Seq(SessionItems)
           /\ Len(opsMemory[s].items) \in Nat
           /\ DOMAIN opsMemory[s].items = 1..Len(opsMemory[s].items)
           /\ opsMemory[s].at \in Nat
           /\ opsMemory[s].status = "none" => opsMemory[s] = NoSession
  BY DEF OpsInv, OpsTypeOK, SessionRecords, SessionStates

\* The item at hand of a running session.
LEMMA ItemAtHand ==
    ASSUME OpsInv, NEW s \in Sessions, NEW step \in SessionSteps \ {"finish", "none"},
           InStep(s, step)
    PROVE  /\ RunningOK(s)
           /\ opsMemory[s].at \in 1..Len(opsMemory[s].items)
           /\ Current(s) \in SessionItems /\ Current(s).stages # <<>>
           /\ InStage(Current(s), StageOf(Current(s), step))
           /\ AuditOf(s, opsMemory[s].at) = {}
<1>1. RunningOK(s) /\ opsMemory[s].step = step
  BY DEF OpsInv, SessionOK, InStep
<1>2. opsMemory[s].at \in 1..Len(opsMemory[s].items)
  BY <1>1, InvariantTyped DEF RunningOK
<1>3. Current(s) \in SessionItems
  BY <1>2, InvariantTyped DEF Current
<1>4. InStage(Current(s), StageOf(Current(s), step)) /\ AuditOf(s, opsMemory[s].at) = {}
  BY <1>1, <1>2, InvariantTyped DEF RunningOK, ItemOK, Current
<1>5. Current(s).stages # <<>>
  BY <1>4 DEF InStage
<1> QED
  BY <1>1, <1>2, <1>3, <1>4, <1>5

\* Sessions that nothing happens to stay as they are.
LEMMA OtherSessions ==
    ASSUME OpsInv, NEW t \in Sessions, opsMemory'[t] = opsMemory[t], opsHistory'[t] = opsHistory[t],
           \A i : AuditOf(t, i)' = AuditOf(t, i),
           \A row \in opsAudit' \ opsAudit : row.session # t
    PROVE  SessionOK(t)' /\ RecordTrue(t)'
<1>1. \A i : ItemOK(t, i)' <=> ItemOK(t, i)
  BY DEF ItemOK
<1>2. RunningOK(t)' <=> RunningOK(t)
  BY <1>1 DEF RunningOK
<1> QED
  BY <1>2 DEF OpsInv, SessionOK, RecordTrue

\* The invariant holds at the start.
LEMMA OpsInitInv == OpsInit => OpsInv
<1> SUFFICES ASSUME OpsInit PROVE OpsInv
  OBVIOUS
<1>1. \A s \in Sessions : opsMemory[s] = NoSession /\ opsHistory[s] = NoRecord
  BY DEF OpsInit
<1>2. NoSession \in SessionRecords /\ NoSession.status = "none" /\ NoSession.step = "none"
  BY DEF NoSession, SessionRecords, SessionSteps
<1>3. OpsTypeOK
  BY <1>1 DEF OpsInit, OpsTypeOK
<1>4. /\ opsMemory \in [Sessions -> SessionRecords]
      /\ opsHistory \in [Sessions -> Records \cup {NoRecord}]
  BY <1>2 DEF OpsInit
<1>5. \A s \in Sessions : SessionOK(s) /\ RecordTrue(s)
  BY <1>1, <1>2 DEF OpsInit, SessionOK, RecordTrue
<1> QED
  BY <1>3, <1>4, <1>5 DEF OpsInv

\* The invariant of the next state, from what changed in one session.
LEMMA OneSession ==
    ASSUME OpsInv, NEW s \in Sessions, NEW session \in SessionRecords, NEW record \in Records,
           session.status # "none",
           opsMemory' = [opsMemory EXCEPT ![s] = session],
           opsHistory' = [opsHistory EXCEPT ![s] = record],
           opsRecs' = opsRecs,
           opsAudit' \subseteq [session : Sessions, item : 1..MaxItems, result : {"completed", "failed"}],
           \A t \in Sessions \ {s} : \A i : AuditOf(t, i)' = AuditOf(t, i),
           \A row \in opsAudit' \ opsAudit : row.session = s,
           SessionOK(s)', RecordTrue(s)'
    PROVE  OpsInv'
<1>1. /\ opsMemory' \in [Sessions -> SessionRecords]
      /\ opsHistory' \in [Sessions -> Records \cup {NoRecord}]
      /\ opsMemory'[s] = session /\ opsHistory'[s] = record
  BY DEF OpsInv
<1>2. \A t \in Sessions \ {s} : opsMemory'[t] = opsMemory[t] /\ opsHistory'[t] = opsHistory[t]
  BY DEF OpsInv
<1>3. session.status \in SessionStates /\ session.items \in Seq(SessionItems)
  BY DEF SessionRecords
<1>4. OpsTypeOK'
  BY <1>1, <1>2, <1>3 DEF OpsInv, OpsTypeOK
<1>5. \A t \in Sessions : SessionOK(t)' /\ RecordTrue(t)'
  <2> SUFFICES ASSUME NEW t \in Sessions PROVE SessionOK(t)' /\ RecordTrue(t)'
    OBVIOUS
  <2>1. CASE t = s
    BY <2>1
  <2>2. CASE t # s
    BY <1>2, <2>2, OtherSessions
  <2> QED
    BY <2>1, <2>2
<1> QED
  BY <1>1, <1>4, <1>5 DEF OpsInv

\* An audit row is of one item of one session.
LEMMA AuditRow ==
    ASSUME OpsInv, NEW s \in Sessions, opsMemory[s].at \in 1..MaxItems,
           NEW result \in {"completed", "failed"},
           AuditOf(s, opsMemory[s].at) = {}, Audited(s, result)
    PROVE  /\ \A i : i = opsMemory[s].at => AuditOf(s, i)' = {result}
           /\ \A i : i # opsMemory[s].at => AuditOf(s, i)' = AuditOf(s, i)
           /\ \A t \in Sessions \ {s} : \A i : AuditOf(t, i)' = AuditOf(t, i)
           /\ \A row \in opsAudit' \ opsAudit : row.session = s
           /\ opsAudit' \subseteq [session : Sessions, item : 1..MaxItems,
                                   result : {"completed", "failed"}]
<1> DEFINE at == opsMemory[s].at
           row == [session |-> s, item |-> at, result |-> result]
<1>1. opsAudit' = opsAudit \cup {row}
  BY DEF Audited
<1>2. row.session = s /\ row.item = at /\ row.result = result
  OBVIOUS
<1>3. row \in [session : Sessions, item : 1..MaxItems, result : {"completed", "failed"}]
  OBVIOUS
<1>4. opsAudit \subseteq [session : Sessions, item : 1..MaxItems, result : {"completed", "failed"}]
  BY DEF OpsInv, OpsTypeOK
<1>5. \A i : AuditOf(s, i) = {a.result : a \in {b \in opsAudit : b.session = s /\ b.item = i}}
  BY DEF AuditOf
<1> DEFINE Of(rows, t, i) == {b \in rows : b.session = t /\ b.item = i}
<1>6. /\ Of(opsAudit', s, at) = Of(opsAudit, s, at) \cup {row}
      /\ \A t, i : t # s \/ i # at => Of(opsAudit', t, i) = Of(opsAudit, t, i)
  <2> HIDE DEF row
  <2> QED
    BY <1>1, <1>2
<1>7. /\ \A t, i : AuditOf(t, i) = {a.result : a \in Of(opsAudit, t, i)}
      /\ \A t, i : AuditOf(t, i)' = {a.result : a \in Of(opsAudit', t, i)}
  BY DEF AuditOf
<1> HIDE DEF row, Of
<1>8. \A i : i = at => AuditOf(s, i)' = {result}
  <2>1. Of(opsAudit, s, at) = {}
    <3> SUFFICES ASSUME NEW a \in Of(opsAudit, s, at) PROVE FALSE
      OBVIOUS
    <3>1. a.result \in AuditOf(s, at)
      BY <1>7
    <3> QED
      BY <3>1
  <2>2. Of(opsAudit', s, at) = {row}
    BY <1>6, <2>1
  <2>3. \A i : i = at => AuditOf(s, i)' = {a.result : a \in {row}}
    BY <1>7, <2>2
  <2> QED
    BY <1>2, <2>3
<1>9. \A t, i : t # s \/ i # at => AuditOf(t, i)' = AuditOf(t, i)
  BY <1>6, <1>7
<1>10. /\ \A b \in opsAudit' \ opsAudit : b.session = s
       /\ opsAudit' \subseteq [session : Sessions, item : 1..MaxItems,
                               result : {"completed", "failed"}]
  BY <1>1, <1>2, <1>3, <1>4
<1> QED
  BY <1>8, <1>9, <1>10

\* A recommendation that changes changes no session.
LEMMA RecChangesKeeps ==
    ASSUME OpsInv, NEW r \in Recs, RecChanges(r)
    PROVE  OpsInv'
<1>1. /\ opsMemory' = opsMemory /\ opsHistory' = opsHistory /\ opsAudit' = opsAudit
      /\ opsRecs' \in [Recs -> {"valid", "invalid", "gone"}]
  BY DEF OpsInv, OpsTypeOK, RecChanges
<1>2. \A t, i : AuditOf(t, i)' = AuditOf(t, i)
  BY <1>1 DEF AuditOf
<1>3. \A t \in Sessions : SessionOK(t)' /\ RecordTrue(t)'
  BY <1>1, <1>2, OtherSessions
<1>4. OpsTypeOK'
  BY <1>1 DEF OpsInv, OpsTypeOK
<1> QED
  BY <1>1, <1>3, <1>4 DEF OpsInv

\* A step that leaves everything alone.
LEMMA OpsStutterKeeps ==
    ASSUME OpsInv, UNCHANGED opsVars
    PROVE  OpsInv'
<1>1. opsMemory' = opsMemory /\ opsHistory' = opsHistory /\ opsAudit' = opsAudit /\ opsRecs' = opsRecs
  BY DEF opsVars
<1>2. \A t, i : AuditOf(t, i)' = AuditOf(t, i)
  BY <1>1 DEF AuditOf
<1>3. \A t \in Sessions : SessionOK(t)' /\ RecordTrue(t)'
  BY <1>1, <1>2, OtherSessions
<1>4. OpsTypeOK'
  BY <1>1 DEF OpsInv, OpsTypeOK
<1> QED
  BY <1>1, <1>3, <1>4 DEF OpsInv

\* The manager loses its sessions, the rows stay.
LEMMA OpsRestartKeeps ==
    ASSUME OpsInv, OpsRestart
    PROVE  OpsInv'
<1>1. opsHistory' = opsHistory /\ opsAudit' = opsAudit /\ opsRecs' = opsRecs
  BY DEF OpsRestart
<1>2. \A s \in Sessions : opsMemory'[s] = NoSession
  BY DEF OpsRestart
<1>3. NoSession \in SessionRecords /\ NoSession.status = "none" /\ NoSession.step = "none"
  BY DEF NoSession, SessionRecords, SessionSteps
<1>4. opsMemory' \in [Sessions -> SessionRecords]
  BY <1>3 DEF OpsRestart
<1>5. \A t, i : AuditOf(t, i)' = AuditOf(t, i)
  BY <1>1 DEF AuditOf
<1>6. \A s \in Sessions : SessionOK(s)' /\ RecordTrue(s)'
  BY <1>1, <1>2, <1>3, <1>5 DEF OpsInv, SessionOK, RecordTrue
<1>7. OpsTypeOK'
  BY <1>1, <1>2 DEF OpsInv, OpsTypeOK
<1> QED
  BY <1>1, <1>4, <1>6, <1>7 DEF OpsInv

\* An operation session starts: its row says running, and its first item begins.
LEMMA StartSessionKeeps ==
    ASSUME OpsInv, NEW s \in Sessions, NEW chosen \in Chosen, StartSession(s, chosen)
    PROVE  OpsInv'
<1> PICK n \in 1..MaxItems : chosen \in [1..n -> Recs]
  BY DEF Chosen
<1> DEFINE items == [i \in 1..n |-> NewItem(chosen[i])]
           begun == [items EXCEPT ![1] = Begun(@)]
           session == [status |-> "running", items |-> begun, at |-> 1, step |-> "preview",
                       verdict |-> FALSE]
           record == [status |-> "running", items |-> items]
<1>1. n \in Nat /\ n >= 1 /\ n <= MaxItems /\ MaxItems \in Nat
  BY OpsAssumption
<1>2. /\ opsHistory[s] = NoRecord
      /\ opsMemory' = [opsMemory EXCEPT ![s] = session]
      /\ opsHistory' = [opsHistory EXCEPT ![s] = record]
      /\ opsRecs' = opsRecs /\ opsAudit' = opsAudit
  BY DEF StartSession
<1>3. opsMemory[s] = NoSession /\ \A row \in opsAudit : row.session # s
  BY <1>2 DEF OpsInv, SessionOK
<1>4. \A t, i : AuditOf(t, i)' = AuditOf(t, i)
  BY <1>2 DEF AuditOf
<1>5. \A i : AuditOf(s, i)' = {}
  BY <1>3, <1>4 DEF AuditOf
<1>6. \A r \in Recs : /\ NewItem(r) \in SessionItems /\ NewItem(r).rec = r
                      /\ Begun(NewItem(r)) \in SessionItems /\ InStage(Begun(NewItem(r)), 1)
  BY NewItemBegins
<1>7. /\ items \in [1..n -> SessionItems] /\ begun \in [1..n -> SessionItems]
      /\ begun[1] = Begun(NewItem(chosen[1])) /\ chosen[1] \in Recs
      /\ \A i \in 1..n : i # 1 => begun[i] = NewItem(chosen[i]) /\ chosen[i] \in Recs
  BY <1>1, <1>6
<1>8. InStage(begun[1], 1) /\ \A i \in 1..n : i > 1 => begun[i] = NewItem(begun[i].rec)
  BY <1>1, <1>6, <1>7
<1> HIDE DEF items, begun
<1>9. /\ items \in Seq(SessionItems) /\ begun \in Seq(SessionItems)
      /\ Len(begun) = n /\ DOMAIN begun = 1..n
  BY <1>1, <1>7
<1>10. /\ session \in SessionRecords /\ record \in Records
       /\ session.status = "running" /\ session.items = begun /\ session.at = 1
       /\ session.step = "preview" /\ record.status = "running"
  BY <1>9 DEF SessionRecords, Records, SessionStates, SessionSteps
<1> HIDE DEF session, record
<1>11. opsMemory'[s] = session /\ opsHistory'[s] = record /\ record # NoRecord
  BY <1>2, <1>10, OpsAssumption DEF OpsInv
<1>12. \A i \in 1..n : ItemOK(s, i)'
  BY <1>1, <1>5, <1>8, <1>10, <1>11 DEF ItemOK, StageOf
<1>13. RunningOK(s)'
  BY <1>1, <1>9, <1>10, <1>11, <1>12 DEF RunningOK
<1>14. SessionOK(s)' /\ RecordTrue(s)'
  BY <1>10, <1>11, <1>13 DEF SessionOK, RecordTrue
<1>15. opsAudit' \subseteq [session : Sessions, item : 1..MaxItems, result : {"completed", "failed"}]
  BY <1>2 DEF OpsInv, OpsTypeOK
<1> QED
  BY <1>2, <1>4, <1>10, <1>14, <1>15, OneSession

\* A look at the recommendation moves its item to the stage of the next step.
LEMMA ContinueKeeps ==
    ASSUME OpsInv, NEW s \in Sessions,
           NEW before \in {"preview", "validate", "revalidate"}, InStep(s, before),
           NEW item \in SessionItems, NEW step \in {"validate", "revalidate", "find"},
           NEW verdict \in BOOLEAN,
           InStage(item, StageOf(item, step)), Continue(s, item, step, verdict),
           UNCHANGED <<opsRecs, opsHistory, opsAudit>>
    PROVE  OpsInv'
<1> DEFINE old == opsMemory[s]
           items == [old.items EXCEPT ![old.at] = item]
           session == [old EXCEPT !.items[old.at] = item, !.step = step, !.verdict = verdict]
<1>1. RunningOK(s) /\ old.at \in 1..Len(old.items)
  BY ItemAtHand DEF SessionSteps
<1>2. /\ old \in SessionRecords /\ old.items \in Seq(SessionItems) /\ Len(old.items) \in Nat
      /\ DOMAIN old.items = 1..Len(old.items) /\ old.at \in Nat /\ old.status = "running"
  BY InvariantTyped DEF InStep
<1>3. opsMemory' = [opsMemory EXCEPT ![s] = session]
  BY DEF Continue
<1>4. \A t, i : AuditOf(t, i)' = AuditOf(t, i)
  BY DEF AuditOf
<1> HIDE DEF old
<1>5. /\ items \in Seq(SessionItems) /\ Len(items) = Len(old.items) /\ items[old.at] = item
      /\ \A i \in 1..Len(old.items) : i # old.at => items[i] = old.items[i]
  BY <1>1, <1>2
<1>6. /\ session.items = items /\ session.at = old.at /\ session.step = step
      /\ session.status = "running" /\ session.verdict = verdict
      /\ session = [status |-> session.status, items |-> session.items, at |-> session.at,
                    step |-> session.step, verdict |-> session.verdict]
  <2>1. old = [status |-> old.status, items |-> old.items, at |-> old.at,
               step |-> old.step, verdict |-> old.verdict]
    BY <1>2 DEF SessionRecords
  <2>2. session = [old EXCEPT !.items = items, !.step = step, !.verdict = verdict]
    BY <2>1
  <2> HIDE DEF items, session
  <2> QED
    BY <1>2, <2>1, <2>2
<1> HIDE DEF items, session
<1>7. session \in SessionRecords
  BY <1>2, <1>5, <1>6 DEF SessionRecords, SessionSteps, SessionStates
<1>8. opsMemory'[s] = session /\ opsHistory'[s] = opsHistory[s]
  BY <1>3 DEF OpsInv
<1>9. \A i \in 1..Len(items) : ItemOK(s, i)'
  <2> SUFFICES ASSUME NEW i \in 1..Len(items) PROVE ItemOK(s, i)'
    OBVIOUS
  <2>1. ItemOK(s, i)
    BY <1>1, <1>5 DEF RunningOK, old
  <2>2. CASE i = old.at
    BY <1>2, <1>4, <1>5, <1>6, <1>8, <2>1, <2>2 DEF ItemOK, old
  <2>3. CASE i # old.at
    BY <1>2, <1>4, <1>5, <1>6, <1>8, <2>1, <2>3 DEF ItemOK, old
  <2> QED
    BY <2>2, <2>3
<1>10. /\ opsHistory[s] # NoRecord /\ opsHistory[s].status = "running"
       /\ Len(old.items) <= MaxItems
  BY <1>1 DEF RunningOK, old
<1>11. RunningOK(s)'
  BY <1>1, <1>2, <1>5, <1>6, <1>8, <1>9, <1>10 DEF RunningOK
<1>12. SessionOK(s)' /\ RecordTrue(s)'
  BY <1>6, <1>8, <1>10, <1>11 DEF SessionOK, RecordTrue
<1>13. /\ opsHistory' = [opsHistory EXCEPT ![s] = opsHistory[s]]
       /\ opsHistory[s] \in Records /\ session.status # "none"
       /\ opsAudit' \subseteq [session : Sessions, item : 1..MaxItems, result : {"completed", "failed"}]
  BY <1>6, <1>10 DEF OpsInv, OpsTypeOK
<1> QED
  BY <1>3, <1>4, <1>7, <1>12, <1>13, OneSession

\* The item at hand is settled, and the next one begins or the session is done.
LEMMA SettleKeeps ==
    ASSUME OpsInv, NEW s \in Sessions,
           NEW before \in {"preview", "validate", "revalidate", "find"}, InStep(s, before),
           NEW item \in SessionItems, NEW results, SettledTrue(item, results), Settle(s, item),
           opsRecs' = opsRecs, opsHistory' = opsHistory,
           opsAudit' \subseteq [session : Sessions, item : 1..MaxItems, result : {"completed", "failed"}],
           \A i : i = opsMemory[s].at => AuditOf(s, i)' = results,
           \A i : i # opsMemory[s].at => AuditOf(s, i)' = AuditOf(s, i),
           \A t \in Sessions \ {s} : \A i : AuditOf(t, i)' = AuditOf(t, i),
           \A row \in opsAudit' \ opsAudit : row.session = s
    PROVE  OpsInv'
<1> DEFINE old == opsMemory[s]
           next == old.at + 1
           items == [old.items EXCEPT ![old.at] = item]
           begun == [items EXCEPT ![next] = Begun(@)]
           last == [old EXCEPT !.items = items, !.at = next, !.step = "finish"]
           further == [old EXCEPT !.items = begun, !.at = next, !.step = "preview", !.verdict = FALSE]
           session == IF next > Len(items) THEN last ELSE further
<1>1. RunningOK(s) /\ old.at \in 1..Len(old.items)
  BY ItemAtHand DEF SessionSteps
<1>2. /\ old \in SessionRecords /\ old.items \in Seq(SessionItems) /\ Len(old.items) \in Nat
      /\ DOMAIN old.items = 1..Len(old.items) /\ old.at \in Nat /\ old.status = "running"
  BY InvariantTyped DEF InStep
<1>3. opsMemory' = [opsMemory EXCEPT ![s] = session]
  BY DEF Settle
<1>4. /\ opsHistory[s] # NoRecord /\ opsHistory[s].status = "running"
      /\ Len(old.items) <= MaxItems /\ opsHistory'[s] = opsHistory[s]
      /\ opsHistory[s] \in Records
  BY <1>1 DEF RunningOK, OpsInv
<1>5. \A i \in 1..Len(old.items) : ItemOK(s, i)
  BY <1>1 DEF RunningOK
<1> HIDE DEF old
<1>6. old = [status |-> old.status, items |-> old.items, at |-> old.at,
             step |-> old.step, verdict |-> old.verdict]
  BY <1>2 DEF SessionRecords
<1>7. /\ items \in Seq(SessionItems) /\ Len(items) = Len(old.items) /\ items[old.at] = item
      /\ \A i \in 1..Len(old.items) : i # old.at => items[i] = old.items[i]
      /\ items \in [1..Len(old.items) -> SessionItems]
  BY <1>1, <1>2
<1>8. next \in Nat /\ next \in 1..(Len(old.items) + 1)
  BY <1>1, <1>2
<1> HIDE DEF items
<1>9. \A i \in 1..Len(old.items) : i < next => SettledTrue(items[i], AuditOf(s, i)')
  <2> SUFFICES ASSUME NEW i \in 1..Len(old.items), i < next
               PROVE  SettledTrue(items[i], AuditOf(s, i)')
    OBVIOUS
  <2>1. CASE i = old.at
    BY <1>7, <2>1 DEF old
  <2>2. CASE i # old.at
    <3>1. i < old.at
      BY <1>2, <2>2
    <3> QED
      BY <1>5, <1>7, <2>2, <3>1 DEF ItemOK, old
  <2> QED
    BY <2>1, <2>2
<1>10. \A i \in 1..Len(old.items) : i >= next =>
          AuditOf(s, i)' = {} /\ items[i] = NewItem(items[i].rec)
  <2> SUFFICES ASSUME NEW i \in 1..Len(old.items), i >= next
               PROVE  AuditOf(s, i)' = {} /\ items[i] = NewItem(items[i].rec)
    OBVIOUS
  <2>1. i > old.at /\ i # old.at
    BY <1>2
  <2> QED
    BY <1>2, <1>5, <1>7, <2>1 DEF ItemOK, old
<1>11. CASE next > Len(items)
  <2>1. session = last
    BY <1>11
  <2>2. /\ last.items = items /\ last.at = next /\ last.step = "finish" /\ last.status = "running"
        /\ last \in SessionRecords
    BY <1>2, <1>6, <1>7, <1>8 DEF SessionRecords, SessionSteps
  <2>3. next = Len(items) + 1
    BY <1>2, <1>7, <1>8, <1>11
  <2> HIDE DEF session, last, next
  <2>4. opsMemory'[s] = last
    BY <1>3, <2>1 DEF OpsInv
  <2>5. \A i \in 1..Len(items) : ItemOK(s, i)'
    BY <1>2, <1>7, <1>8, <1>9, <2>2, <2>3, <2>4 DEF ItemOK
  <2>6. RunningOK(s)'
    BY <1>2, <1>4, <1>7, <1>8, <2>2, <2>3, <2>4, <2>5 DEF RunningOK
  <2>7. SessionOK(s)' /\ RecordTrue(s)'
    BY <1>4, <2>2, <2>4, <2>6 DEF SessionOK, RecordTrue
  <2>8. opsHistory' = [opsHistory EXCEPT ![s] = opsHistory[s]]
    BY DEF OpsInv
  <2> QED
    BY <1>3, <1>4, <2>1, <2>2, <2>7, <2>8, OneSession
<1>12. CASE ~(next > Len(items))
  <2>1. session = further
    BY <1>12
  <2>2. next \in 1..Len(items)
    BY <1>2, <1>7, <1>8, <1>12
  <2>3. items[next] \in SessionItems /\ items[next].rec \in Recs /\ items[next] = NewItem(items[next].rec)
    BY <1>7, <1>8, <1>10, <2>2, StagesTyped
  <2>4. /\ Begun(items[next]) \in SessionItems /\ InStage(Begun(items[next]), 1)
    BY <2>3, NewItemBegins
  <2>5. /\ begun \in Seq(SessionItems) /\ Len(begun) = Len(items) /\ begun[next] = Begun(items[next])
        /\ \A i \in 1..Len(items) : i # next => begun[i] = items[i]
    BY <1>2, <1>7, <2>2, <2>4
  <2> HIDE DEF begun
  <2>6. /\ further.items = begun /\ further.at = next /\ further.step = "preview"
        /\ further.status = "running" /\ further \in SessionRecords
    BY <1>2, <1>6, <1>8, <2>5 DEF SessionRecords, SessionSteps
  <2>7. \A i \in 1..Len(items) : /\ i < next => SettledTrue(begun[i], AuditOf(s, i)')
                                 /\ i >= next => AuditOf(s, i)' = {}
                                 /\ i = next => InStage(begun[i], 1)
                                 /\ i > next => begun[i] = NewItem(begun[i].rec)
    BY <1>7, <1>8, <1>9, <1>10, <2>4, <2>5
  <2>8. ~(next = Len(items) + 1)
    BY <1>2, <1>7, <2>2
  <2> HIDE DEF session, further, next
  <2>9. opsMemory'[s] = further
    BY <1>3, <2>1 DEF OpsInv
  <2>10. \A i \in 1..Len(items) : ItemOK(s, i)'
    BY <2>6, <2>7, <2>9 DEF ItemOK, StageOf
  <2>11. RunningOK(s)'
    BY <1>2, <1>4, <1>7, <1>8, <2>5, <2>6, <2>8, <2>9, <2>10 DEF RunningOK
  <2>12. SessionOK(s)' /\ RecordTrue(s)'
    BY <1>4, <2>6, <2>9, <2>11 DEF SessionOK, RecordTrue
  <2>13. opsHistory' = [opsHistory EXCEPT ![s] = opsHistory[s]]
    BY DEF OpsInv
  <2> QED
    BY <1>3, <1>4, <2>1, <2>6, <2>12, <2>13, OneSession
<1> QED
  BY <1>11, <1>12

\* The item at hand fails, or is blocked, without a row of the audit.
LEMMA FailingKeeps ==
    ASSUME OpsInv, NEW s \in Sessions,
           NEW step \in {"preview", "validate", "revalidate", "find"}, InStep(s, step),
           NEW k, k = StageOf(Current(s), step), NEW status \in {"failed", "blocked"},
           Settle(s, Failed(Current(s), k, status)),
           UNCHANGED <<opsRecs, opsHistory, opsAudit>>
    PROVE  OpsInv'
<1>1. /\ Current(s) \in SessionItems /\ InStage(Current(s), k)
      /\ AuditOf(s, opsMemory[s].at) = {}
  BY ItemAtHand DEF SessionSteps
<1>2. /\ Failed(Current(s), k, status) \in SessionItems
      /\ SettledTrue(Failed(Current(s), k, status), {})
  BY <1>1, FailedIsTrue
<1>3. \A t, i : AuditOf(t, i)' = AuditOf(t, i)
  BY DEF AuditOf
<1>4. opsAudit' \subseteq [session : Sessions, item : 1..MaxItems, result : {"completed", "failed"}]
  BY DEF OpsInv, OpsTypeOK
<1>5. /\ \A i : i = opsMemory[s].at => AuditOf(s, i)' = {}
      /\ \A i : i # opsMemory[s].at => AuditOf(s, i)' = AuditOf(s, i)
      /\ \A t \in Sessions \ {s} : \A i : AuditOf(t, i)' = AuditOf(t, i)
      /\ \A row \in opsAudit' \ opsAudit : row.session = s
  BY <1>1, <1>3
<1> DEFINE item == Failed(Current(s), k, status)
<1> HIDE DEF item
<1>6. item \in SessionItems /\ SettledTrue(item, {}) /\ Settle(s, item)
  BY <1>2 DEF item
<1> QED
  BY <1>4, <1>5, <1>6, SettleKeeps

\* The preview is done, the validation begins.
LEMMA PreviewKeeps ==
    ASSUME OpsInv, NEW s \in Sessions, Preview(s)
    PROVE  OpsInv'
<1> DEFINE item == Current(s)
           moved == Advance(Complete(item, 1), ValidationStage(item))
<1>1. InStep(s, "preview") /\ Continue(s, moved, "validate", FALSE)
      /\ UNCHANGED <<opsRecs, opsHistory, opsAudit>>
  BY DEF Preview
<1>2. item \in SessionItems /\ item.stages # <<>> /\ InStage(item, 1)
  BY <1>1, ItemAtHand DEF SessionSteps, StageOf
<1> HIDE DEF item
<1>3. ValidationStage(item) \in DOMAIN item.stages /\ ValidationStage(item) \in {1, 1 + 1}
  BY <1>2, StagesInOrder
<1>4. /\ moved \in SessionItems /\ InStage(moved, ValidationStage(item))
      /\ Len(moved.stages) = Len(item.stages)
  BY <1>2, <1>3, NextStage
<1> HIDE DEF moved
<1>5. InStage(moved, StageOf(moved, "validate"))
  BY <1>4 DEF StageOf, ValidationStage
<1> QED
  BY <1>1, <1>4, <1>5, ContinueKeeps

\* A valid recommendation goes on to its execution.
LEMMA ValidatedKeeps ==
    ASSUME OpsInv, NEW s \in Sessions, Validated(s)
    PROVE  OpsInv'
<1> DEFINE item == Current(s)
           moved == Advance(Complete(item, ValidationStage(item)), ExecutionStage(item))
<1>1. InStep(s, "validate") /\ Continue(s, moved, "revalidate", FALSE)
      /\ UNCHANGED <<opsRecs, opsHistory, opsAudit>>
  BY DEF Validated
<1>2. item \in SessionItems /\ item.stages # <<>> /\ InStage(item, ValidationStage(item))
  BY <1>1, ItemAtHand DEF SessionSteps, StageOf
<1> HIDE DEF item
<1>3. /\ ExecutionStage(item) \in DOMAIN item.stages
      /\ ExecutionStage(item) \in {ValidationStage(item), ValidationStage(item) + 1}
  BY <1>2, StagesInOrder
<1>4. /\ moved \in SessionItems /\ InStage(moved, ExecutionStage(item))
      /\ Len(moved.stages) = Len(item.stages)
  BY <1>2, <1>3, NextStage
<1> HIDE DEF moved
<1>5. InStage(moved, StageOf(moved, "revalidate"))
  BY <1>4 DEF StageOf, ValidationStage, ExecutionStage
<1> QED
  BY <1>1, <1>4, <1>5, ContinueKeeps

\* The second look leaves the item in its stage.
LEMMA RevalidatedKeeps ==
    ASSUME OpsInv, NEW s \in Sessions, Revalidated(s)
    PROVE  OpsInv'
<1> DEFINE item == Current(s)
           verdict == State(s) = "valid"
<1>1. InStep(s, "revalidate") /\ Continue(s, item, "find", verdict)
      /\ UNCHANGED <<opsRecs, opsHistory, opsAudit>>
  BY DEF Revalidated
<1>2. item \in SessionItems /\ InStage(item, StageOf(item, "revalidate"))
  BY <1>1, ItemAtHand DEF SessionSteps
<1>3. InStage(item, StageOf(item, "find"))
  BY <1>2 DEF StageOf
<1>4. verdict \in BOOLEAN
  OBVIOUS
<1> HIDE DEF item, verdict
<1> QED
  BY <1>1, <1>2, <1>3, <1>4, ContinueKeeps

\* A recommendation that is not valid any more blocks its item.
LEMMA BlockedKeeps ==
    ASSUME OpsInv, NEW s \in Sessions, Blocked(s)
    PROVE  OpsInv'
<1>1. /\ InStep(s, "validate") /\ UNCHANGED <<opsRecs, opsHistory, opsAudit>>
      /\ Settle(s, Failed(Current(s), ValidationStage(Current(s)), "blocked"))
  BY DEF Blocked
<1>2. ValidationStage(Current(s)) = StageOf(Current(s), "validate")
  BY DEF StageOf
<1> QED
  BY <1>1, <1>2, FailingKeeps

\* A step that raises fails the stage its item is in.
LEMMA StepRaisesKeeps ==
    ASSUME OpsInv, NEW s \in Sessions, StepRaises(s)
    PROVE  OpsInv'
<1> DEFINE step == opsMemory[s].step
           k == StageOf(Current(s), step)
<1>1. /\ step \in {"preview", "validate", "revalidate", "find"}
      /\ Settle(s, FailedOpen(Current(s))) /\ UNCHANGED <<opsRecs, opsHistory, opsAudit>>
  BY DEF StepRaises
<1>2. InStep(s, step)
  BY <1>1 DEF OpsInv, SessionOK, InStep
<1> HIDE DEF step
<1>3. Current(s) \in SessionItems /\ InStage(Current(s), k)
  BY <1>1, <1>2, ItemAtHand DEF SessionSteps
<1> HIDE DEF k
<1>4. FailedOpen(Current(s)) = Failed(Current(s), k, "failed")
  BY <1>3, FailedOpenIsFailed
<1>5. Settle(s, Failed(Current(s), k, "failed")) /\ k = StageOf(Current(s), step)
  BY <1>1, <1>4 DEF k
<1> QED
  BY <1>1, <1>2, <1>5, FailingKeeps

\* An item that is executed is audited as completed.
LEMMA ExecutedKeeps ==
    ASSUME OpsInv, NEW s \in Sessions, Executed(s)
    PROVE  OpsInv'
<1> DEFINE item == Current(s)
           k == ExecutionStage(item)
           done == Rest([Complete(item, k) EXCEPT !.status = "completed"], k + 1, "completed")
<1>1. /\ InStep(s, "find") /\ opsRecs' = opsRecs /\ opsHistory' = opsHistory
      /\ Audited(s, AuditResult(item.rec)) /\ Settle(s, done)
  BY DEF Executed
<1>2. Audited(s, "completed")
  BY <1>1 DEF Executed, Executes, AuditResult
<1>3. /\ item \in SessionItems /\ InStage(item, k) /\ AuditOf(s, opsMemory[s].at) = {}
      /\ RunningOK(s) /\ opsMemory[s].at \in 1..Len(opsMemory[s].items)
  BY <1>1, ItemAtHand DEF SessionSteps, StageOf
<1>4. opsMemory[s].at \in 1..MaxItems
  BY <1>3, InvariantTyped, OpsAssumption DEF RunningOK
<1>5. /\ \A i : i = opsMemory[s].at => AuditOf(s, i)' = {"completed"}
      /\ \A i : i # opsMemory[s].at => AuditOf(s, i)' = AuditOf(s, i)
      /\ \A t \in Sessions \ {s} : \A i : AuditOf(t, i)' = AuditOf(t, i)
      /\ \A row \in opsAudit' \ opsAudit : row.session = s
      /\ opsAudit' \subseteq [session : Sessions, item : 1..MaxItems, result : {"completed", "failed"}]
  BY <1>2, <1>3, <1>4, AuditRow
<1> HIDE DEF item, k
<1>6. done \in SessionItems /\ SettledTrue(done, {"completed"})
  BY <1>3, DoneIsTrue
<1> HIDE DEF done
<1> QED
  BY <1>1, <1>5, <1>6, SettleKeeps

\* An item that is not executed fails, and an investigation is audited as failed.
LEMMA NotExecutedKeeps ==
    ASSUME OpsInv, NEW s \in Sessions, NotExecuted(s)
    PROVE  OpsInv'
<1> DEFINE k == ExecutionStage(Current(s))
           item == Failed(Current(s), k, "failed")
           logged == opsMemory[s].verdict /\ State(s) # "gone"
<1>1. /\ InStep(s, "find") /\ Settle(s, item) /\ opsRecs' = opsRecs /\ opsHistory' = opsHistory
      /\ logged => Audited(s, AuditResult(Current(s).rec))
      /\ ~logged => opsAudit' = opsAudit
      /\ ~Executes(s)
  BY DEF NotExecuted
<1>2. k = StageOf(Current(s), "find")
  BY DEF StageOf
<1>3. /\ Current(s) \in SessionItems /\ InStage(Current(s), k) /\ AuditOf(s, opsMemory[s].at) = {}
      /\ RunningOK(s) /\ opsMemory[s].at \in 1..Len(opsMemory[s].items)
  BY <1>1, <1>2, ItemAtHand DEF SessionSteps
<1>4. CASE ~logged
  <2>1. UNCHANGED <<opsRecs, opsHistory, opsAudit>>
    BY <1>1, <1>4
  <2> HIDE DEF k
  <2> QED
    BY <1>1, <1>2, <2>1, FailingKeeps
<1>5. CASE logged
  <2>1. Audited(s, "failed")
    BY <1>1, <1>5 DEF Executes, AuditResult
  <2>2. opsMemory[s].at \in 1..MaxItems
    BY <1>3, InvariantTyped, OpsAssumption DEF RunningOK
  <2>3. /\ \A i : i = opsMemory[s].at => AuditOf(s, i)' = {"failed"}
        /\ \A i : i # opsMemory[s].at => AuditOf(s, i)' = AuditOf(s, i)
        /\ \A t \in Sessions \ {s} : \A i : AuditOf(t, i)' = AuditOf(t, i)
        /\ \A row \in opsAudit' \ opsAudit : row.session = s
        /\ opsAudit' \subseteq [session : Sessions, item : 1..MaxItems, result : {"completed", "failed"}]
    BY <1>3, <2>1, <2>2, AuditRow
  <2> HIDE DEF k
  <2>4. item \in SessionItems /\ SettledTrue(item, {"failed"})
    BY <1>3, FailedIsTrue
  <2> HIDE DEF item
  <2> QED
    BY <1>1, <2>3, <2>4, SettleKeeps
<1> QED
  BY <1>4, <1>5

\* A session that is done writes what its items say, or fails to.
LEMMA FinishKeeps ==
    ASSUME OpsInv, NEW s \in Sessions, NEW written \in BOOLEAN, Finish(s, written)
    PROVE  OpsInv'
<1> DEFINE old == opsMemory[s]
           status == Outcome(old.items)
           session == [old EXCEPT !.status = status, !.step = "none"]
           record == IF written THEN [status |-> status, items |-> old.items] ELSE opsHistory[s]
<1>1. /\ old.status = "running" /\ old.step = "finish"
      /\ opsMemory' = [opsMemory EXCEPT ![s] = session]
      /\ opsRecs' = opsRecs /\ opsAudit' = opsAudit
      /\ written => opsHistory' = [opsHistory EXCEPT ![s] = [status |-> status, items |-> old.items]]
      /\ ~written => opsHistory' = opsHistory
  BY DEF Finish, InStep
<1>2. RunningOK(s)
  BY <1>1 DEF OpsInv, SessionOK
<1>3. /\ old \in SessionRecords /\ old.items \in Seq(SessionItems) /\ Len(old.items) \in Nat
      /\ DOMAIN old.items = 1..Len(old.items)
  BY InvariantTyped
<1>4. status \in {"completed", "failed", "partial"}
  BY DEF Outcome
<1>5. /\ opsHistory[s] # NoRecord /\ opsHistory[s].status = "running" /\ opsHistory[s] \in Records
      /\ old.at = Len(old.items) + 1
  BY <1>1, <1>2 DEF RunningOK, OpsInv
<1>6. \A i \in 1..Len(old.items) : SettledTrue(old.items[i], AuditOf(s, i))
  <2> SUFFICES ASSUME NEW i \in 1..Len(old.items) PROVE SettledTrue(old.items[i], AuditOf(s, i))
    OBVIOUS
  <2>1. ItemOK(s, i)
    BY <1>2 DEF RunningOK
  <2>2. i < old.at
    BY <1>3, <1>5
  <2> QED
    BY <2>1, <2>2 DEF ItemOK
<1>7. \A t, i : AuditOf(t, i)' = AuditOf(t, i)
  BY <1>1 DEF AuditOf
<1> HIDE DEF old
<1>8. old = [status |-> old.status, items |-> old.items, at |-> old.at,
             step |-> old.step, verdict |-> old.verdict]
  BY <1>3 DEF SessionRecords
<1>9. record \in Records /\ opsHistory' = [opsHistory EXCEPT ![s] = record]
  <2>1. CASE written
    <3>1. record = [status |-> status, items |-> old.items]
      BY <2>1
    <3> HIDE DEF status
    <3> QED
      BY <1>1, <1>3, <1>4, <2>1, <3>1 DEF Records, SessionStates
  <2>2. CASE ~written
    BY <1>1, <1>5, <2>2 DEF OpsInv
  <2> QED
    BY <2>1, <2>2
<1>10. written => record.status = status /\ record.items = old.items
  OBVIOUS
<1>11. ~written => record = opsHistory[s]
  OBVIOUS
<1>12. status = Outcome(old.items)
  OBVIOUS
<1> HIDE DEF status, record
<1>13. session.status = status /\ session.step = "none" /\ session \in SessionRecords
  BY <1>3, <1>4, <1>8 DEF SessionRecords, SessionSteps, SessionStates
<1> HIDE DEF session
<1>14. opsMemory'[s] = session /\ opsHistory'[s] = record /\ record # NoRecord
  BY <1>1, <1>9, OpsAssumption DEF OpsInv
<1>15. SessionOK(s)'
  BY <1>4, <1>13, <1>14 DEF SessionOK
<1>16. RecordTrue(s)'
  <2>1. CASE written
    <3>1. /\ opsHistory'[s].items = old.items /\ opsHistory'[s].status = Outcome(old.items)
      BY <1>10, <1>12, <1>14, <2>1
    <3>2. \A i \in DOMAIN old.items : SettledTrue(old.items[i], AuditOf(s, i)')
      BY <1>3, <1>6, <1>7
    <3> QED
      BY <3>1, <3>2 DEF RecordTrue
  <2>2. CASE ~written
    BY <1>5, <1>11, <1>14, <2>2 DEF RecordTrue
  <2> QED
    BY <2>1, <2>2
<1>17. opsAudit' \subseteq [session : Sessions, item : 1..MaxItems, result : {"completed", "failed"}]
  BY <1>1 DEF OpsInv, OpsTypeOK
<1>18. session.status # "none"
  BY <1>4, <1>13
<1> QED
  BY <1>1, <1>7, <1>9, <1>13, <1>15, <1>16, <1>17, <1>18, OneSession

\* The items before the one at hand are settled and agree with their audit rows,
\* and a row that is not written yet says running (_run_session).
THEOREM OpsInvariance == OpsSpec => []OpsInv
<1>1. OpsInv /\ [OpsNext]_opsVars => OpsInv'
  <2> SUFFICES ASSUME OpsInv, [OpsNext]_opsVars PROVE OpsInv'
    OBVIOUS
  <2>1. CASE \E r \in Recs : RecChanges(r)
    BY <2>1, RecChangesKeeps
  <2>2. CASE \E s \in Sessions, chosen \in Chosen : StartSession(s, chosen)
    BY <2>2, StartSessionKeeps
  <2>3. CASE \E s \in Sessions : Preview(s)
    BY <2>3, PreviewKeeps
  <2>4. CASE \E s \in Sessions : Validated(s)
    BY <2>4, ValidatedKeeps
  <2>5. CASE \E s \in Sessions : Blocked(s)
    BY <2>5, BlockedKeeps
  <2>6. CASE \E s \in Sessions : Revalidated(s)
    BY <2>6, RevalidatedKeeps
  <2>7. CASE \E s \in Sessions : Executed(s)
    BY <2>7, ExecutedKeeps
  <2>8. CASE \E s \in Sessions : NotExecuted(s)
    BY <2>8, NotExecutedKeeps
  <2>9. CASE \E s \in Sessions : StepRaises(s)
    BY <2>9, StepRaisesKeeps
  <2>10. CASE \E s \in Sessions, written \in BOOLEAN : Finish(s, written)
    BY <2>10, FinishKeeps
  <2>11. CASE OpsRestart
    BY <2>11, OpsRestartKeeps
  <2>12. CASE UNCHANGED opsVars
    BY <2>12, OpsStutterKeeps
  <2> QED
    BY <2>1, <2>2, <2>3, <2>4, <2>5, <2>6, <2>7, <2>8, <2>9, <2>10, <2>11, <2>12 DEF OpsNext
<1> QED
  BY <1>1, OpsInitInv, PTL DEF OpsSpec

\* The row a session leaves behind is true: an item is completed exactly when its
\* audit row says so, one that is not has failed in a stage and none of its stages
\* is left open, and the status follows the items (_run_session,
\* recommendation_execute).
THEOREM SessionsTellTheTruth == OpsSpec => []SessionRecordTrue
<1>1. OpsInv => SessionRecordTrue
  BY DEF OpsInv, RecordTrue, SettledTrue, SessionRecordTrue
<1> QED
  BY <1>1, OpsInvariance, PTL

-----------------------------------------------------------------------------
(* One of the parts in a behaviour.                                         *)

\* A behaviour of the services is one of each part.
LEMMA ServicesAreParts ==
    ServicesSpec => /\ CatSpec /\ MoveSpec /\ SvcSpec /\ RuleSpec
                    /\ SeerrSpec /\ WatchSpec /\ PbSpec /\ OpsSpec /\ FavSpec
<1>1. ServicesInit => /\ CatInit /\ MoveInit /\ SvcInit /\ RuleInit
                      /\ SeerrInit /\ WatchInit /\ PbInit /\ OpsInit /\ FavInit
  BY DEF ServicesInit
<1>2. [ServicesNext]_ServicesVars =>
          /\ [CatNext]_catVars /\ [MoveNext]_moveVars /\ [SvcNext]_svcVars /\ [RuleNext]_ruleVars
          /\ [SeerrNext]_seerrVars /\ [WatchNext]_watchVars /\ [PbNext]_pbVars
          /\ [OpsNext]_opsVars /\ [FavNext]_favVars
  BY DEF ServicesNext, ServicesVars
<1> QED
  BY <1>1, <1>2, PTL
  DEF ServicesSpec, CatSpec, MoveSpec, SvcSpec, RuleSpec, SeerrSpec, WatchSpec, PbSpec, OpsSpec, FavSpec

\* The variables of every part keep their types, whatever the syncs, scans, moves,
\* toggles, refreshes and sessions do.
THEOREM ServicesTyped == ServicesSpec => []ServicesTypeOK
<1>1. /\ CatInv => CatTypeOK
      /\ MoveInv => MoveTypeOK
      /\ SvcInv => SvcTypeOK
      /\ RuleInv => RuleTypeOK
      /\ SeerrInv => SeerrTypeOK
      /\ WatchInv => WatchTypeOK
      /\ PbInv => PbTypeOK
      /\ OpsInv => OpsTypeOK
      /\ FavInv => FavTypeOK
  BY DEF CatInv, MoveInv, SvcInv, RuleInv, SeerrInv, WatchInv, PbInv, OpsInv, FavInv
<1>2. /\ CatTypeOK /\ MoveTypeOK /\ SvcTypeOK /\ RuleTypeOK
      /\ SeerrTypeOK /\ WatchTypeOK /\ PbTypeOK /\ OpsTypeOK /\ FavTypeOK
      => ServicesTypeOK
  BY DEF ServicesTypeOK
<1> QED
  BY <1>1, <1>2, ServicesAreParts, CatInvariance, MoveInvariance, SettingsInvariance,
     RuleInvariance, SeerrInvariance, WatchInvariance, PbInvariance, OpsInvariance,
     FavInvariance, PTL
==============================================================================
