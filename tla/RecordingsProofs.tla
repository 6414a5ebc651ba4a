-------------------------- MODULE RecordingsProofs --------------------------
(* Theorems of Recordings, for any number of records.                      *)
EXTENDS Recordings, TLAPS

-----------------------------------------------------------------------------
(* Types *)

LEMMA TypeInit == Init => TypeOK
<1> SUFFICES ASSUME Init PROVE TypeOK
  OBVIOUS
<1>1. DOMAIN Nothing = {} /\ Nothing \in [{} -> BOOLEAN]
  BY DEF Nothing
<1>2. phase \in [Records -> Phases]
  BY DEF Init, Phases
<1> QED
  BY <1>1, <1>2 DEF Init, TypeOK

LEMMA TypeLoad ==
    ASSUME TypeOK, LoadRecordingsBegins \/ LoadRecordingsFails \/ LoadRecordingsAnswered
    PROVE  TypeOK'
<1>1. CASE LoadRecordingsBegins \/ LoadRecordingsFails
  BY <1>1 DEF LoadRecordingsBegins, LoadRecordingsFails, TypeOK, published, kodiVars, flags
<1>2. CASE LoadRecordingsAnswered
  <2>1. /\ new_recordings' = [id \in Recorded |-> FALSE]
        /\ new_timers' = Pending
        /\ changed_r' = (new_recordings' # m_recordings)
        /\ todo' = IF changed_r' THEN Recorded ELSE {}
    BY <1>2 DEF LoadRecordingsAnswered, SortRecords
  <2>2. DOMAIN new_recordings' = Recorded /\ new_recordings' \in [Recorded -> BOOLEAN]
    BY <2>1
  <2>3. changed_r' \in BOOLEAN
    BY <2>1
  <2>4. Recorded \subseteq Records /\ Pending \subseteq Records
    BY DEF Recorded, Pending
  <2>5. todo' \subseteq DOMAIN new_recordings'
    BY <2>1, <2>2
  <2> QED
    BY <1>2, <2>1, <2>2, <2>3, <2>4, <2>5 DEF LoadRecordingsAnswered, TypeOK, published, kodiVars, flags
<1> QED
  BY <1>1, <1>2

LEMMA TypeUrl ==
    ASSUME TypeOK, NEW id \in Records, GetRecordingUrl(id) \/ GetRecordingUrlFails(id)
    PROVE  TypeOK'
<1>1. CASE GetRecordingUrl(id)
  <2>1. new_recordings' = [new_recordings EXCEPT ![id] = TRUE]
    BY <1>1 DEF GetRecordingUrl
  <2>2. new_recordings \in [DOMAIN new_recordings -> BOOLEAN]
    BY DEF TypeOK
  <2>3. /\ DOMAIN new_recordings' = DOMAIN new_recordings
        /\ new_recordings' \in [DOMAIN new_recordings -> BOOLEAN]
    BY <2>1, <2>2
  <2> QED
    BY <1>1, <2>3 DEF GetRecordingUrl, TypeOK, published, kodiVars, flags
<1>2. CASE GetRecordingUrlFails(id)
  BY <1>2 DEF GetRecordingUrlFails, TypeOK, published, kodiVars, flags
<1> QED
  BY <1>1, <1>2

LEMMA TypePublished == ASSUME TypeOK, LoadRecordingsPublishes PROVE TypeOK'
<1>1. /\ m_recordings' = IF changed_r THEN new_recordings ELSE m_recordings
      /\ m_timers' = new_timers \/ m_timers' = m_timers
      /\ new_recordings' = Nothing /\ todo' = {} /\ new_timers' = {} /\ ~changed_r' /\ pc' = "idle"
      /\ UNCHANGED <<phase, m_bLoadRecordings, at, pin, kodiRecordings, kodiTimers, deleted,
                     load_failed>>
  BY DEF LoadRecordingsPublishes, Publish
<1>2. recordingUpdate' \in BOOLEAN /\ timerUpdate' \in BOOLEAN
  BY DEF LoadRecordingsPublishes, Publish, TypeOK
<1>3. DOMAIN Nothing = {} /\ Nothing \in [{} -> BOOLEAN]
  BY DEF Nothing
<1>4. changed_r' \in BOOLEAN
  BY DEF LoadRecordingsPublishes, Publish
<1>5. DOMAIN m_recordings' \subseteq Records /\ m_recordings' \in [DOMAIN m_recordings' -> BOOLEAN]
  <2>1. m_recordings' = new_recordings \/ m_recordings' = m_recordings
    BY <1>1
  <2> QED
    BY <2>1 DEF TypeOK
<1> QED
  BY <1>1, <1>2, <1>3, <1>4, <1>5 DEF TypeOK

LEMMA TypeKodi ==
    ASSUME TypeOK, TriggerLoadRecordings \/ Kodi \/ \E id \in Records : Tick(id)
    PROVE  TypeOK'
<1> USE DEF published, workerVars, kodiVars, flags
<1>1. ASSUME NEW id \in Records, AddTimer(id) PROVE TypeOK'
  BY <1>1 DEF AddTimer, TypeOK, Phases
<1>2. ASSUME NEW id \in Records, SetLoadRecordings(id) PROVE TypeOK'
  BY <1>2 DEF SetLoadRecordings, TypeOK
<1>3. ASSUME NEW id \in Records, NEW answer \in {"free", "answered"}, DeleteRecord(id, answer)
      PROVE  TypeOK'
  BY <1>3 DEF DeleteRecord, TypeOK, Phases
<1>4. ASSUME NEW id \in Records, Tick(id) PROVE TypeOK'
  BY <1>4 DEF Tick, TypeOK, Phases
<1>5. CASE TriggerLoadRecordings \/ PinUnlock \/ PinCheckUnlock
  BY <1>5 DEF TriggerLoadRecordings, PinUnlock, PinCheckUnlock, TypeOK
<1>6. CASE GetRecordings \/ GetTimers
  BY <1>6 DEF GetRecordings, GetTimers, TypeOK
<1> QED
  BY <1>1, <1>2, <1>3, <1>4, <1>5, <1>6 DEF Kodi

LEMMA TypeStep == TypeOK /\ [Next]_vars => TypeOK'
<1> SUFFICES ASSUME TypeOK, [Next]_vars PROVE TypeOK'
  OBVIOUS
<1>1. CASE UNCHANGED vars
  BY <1>1 DEF vars, published, workerVars, kodiVars, flags, TypeOK
<1> QED
  BY <1>1, TypeLoad, TypeUrl, TypePublished, TypeKodi DEF Next, Worker

\* Every variable keeps its shape, for any set of records; the addresses asked
\* for are those of recordings of the list under way.
THEOREM TypesHold == Spec => []TypeOK
  BY TypeInit, TypeStep, PTL DEF Spec

-----------------------------------------------------------------------------
(* The two lists are disjoint *)

\* What is about to be published is disjoint, and what is not published since it
\* has not changed has the ids of what stays.
SortedInv ==
    pc = "urls" =>
        /\ DOMAIN new_recordings \cap new_timers = {}
        /\ changed_r \/ DOMAIN new_recordings = DOMAIN m_recordings

DisjointInv == NeverBoth /\ SortedInv

LEMMA DisjointInit == Init => DisjointInv
BY DEF Init, DisjointInv, NeverBoth, SortedInv, Nothing

LEMMA DisjointSorted ==
    ASSUME DisjointInv, LoadRecordingsAnswered PROVE DisjointInv'
<1>1. Recorded \cap Pending = {}
  BY DEF Recorded, Pending
<1>2. DOMAIN new_recordings' = Recorded /\ new_timers' = Pending
  BY DEF LoadRecordingsAnswered, SortRecords
<1>3. m_recordings' = m_recordings /\ m_timers' = m_timers
  BY DEF LoadRecordingsAnswered, published
<1>4. changed_r' \/ DOMAIN new_recordings' = DOMAIN m_recordings
  BY DEF LoadRecordingsAnswered, SortRecords
<1> QED
  BY <1>1, <1>2, <1>3, <1>4 DEF DisjointInv, NeverBoth, SortedInv

LEMMA DisjointPublished ==
    ASSUME DisjointInv, LoadRecordingsPublishes PROVE DisjointInv'
<1>1. pc = "urls" /\ pc' = "idle"
  BY DEF LoadRecordingsPublishes, Publish
<1>2. DOMAIN m_recordings' = DOMAIN new_recordings
  BY <1>1 DEF LoadRecordingsPublishes, Publish, DisjointInv, SortedInv
<1>3. m_timers' = new_timers
  BY DEF LoadRecordingsPublishes, Publish
<1> QED
  BY <1>1, <1>2, <1>3 DEF DisjointInv, NeverBoth, SortedInv

LEMMA DisjointStep == DisjointInv /\ [Next]_vars => DisjointInv'
<1> SUFFICES ASSUME DisjointInv, [Next]_vars PROVE DisjointInv'
  OBVIOUS
<1>1. CASE LoadRecordingsAnswered
  BY <1>1, DisjointSorted
<1>2. CASE LoadRecordingsPublishes
  BY <1>2, DisjointPublished
<1>3. CASE LoadRecordingsBegins \/ LoadRecordingsFails
  BY <1>3 DEF LoadRecordingsBegins, LoadRecordingsFails, published, DisjointInv, NeverBoth, SortedInv
<1>4. ASSUME NEW id \in Records, GetRecordingUrl(id) \/ GetRecordingUrlFails(id)
      PROVE DisjointInv'
  <2>1. DOMAIN new_recordings' = DOMAIN new_recordings
    BY <1>4 DEF GetRecordingUrl, GetRecordingUrlFails
  <2> QED
    BY <1>4, <2>1 DEF GetRecordingUrl, GetRecordingUrlFails, published, DisjointInv, NeverBoth,
       SortedInv
<1>5. CASE TriggerLoadRecordings \/ Kodi \/ \E id \in Records : Tick(id)
  <2>1. UNCHANGED <<published, workerVars>>
    BY <1>5 DEF TriggerLoadRecordings, Kodi, Tick, AddTimer, SetLoadRecordings, DeleteRecord, PinUnlock,
       PinCheckUnlock, GetRecordings, GetTimers
  <2> QED
    BY <2>1 DEF published, workerVars, DisjointInv, NeverBoth, SortedInv
<1>6. CASE UNCHANGED vars
  BY <1>6 DEF vars, published, workerVars, DisjointInv, NeverBoth, SortedInv
<1> QED
  BY <1>1, <1>2, <1>3, <1>4, <1>5, <1>6 DEF Next, Worker

\* A record is never published both as a recording and as a timer, although
\* LoadRecordings decides of each list by itself whether to replace it.
THEOREM NeverPublishedAsBoth == Spec => []NeverBoth
<1>1. DisjointInv => NeverBoth
  BY DEF DisjointInv
<1> QED
  BY <1>1, DisjointInit, DisjointStep, PTL DEF Spec

-----------------------------------------------------------------------------
(* A deletion is followed by a load *)

\* A deleted record stays deleted, and is only in lists the backend answered
\* before: those bring another load about.
ToReload ==
    /\ \A id \in deleted : id \in Records /\ phase[id] = "deleted"
    /\ phase \in [Records -> Phases]
    /\ pc \in {"idle", "call", "urls"}
    /\ pc = "urls" =>
           /\ changed_r \/ DOMAIN new_recordings = DOMAIN m_recordings
           /\ \A id \in deleted : id \in DOMAIN new_recordings \cup new_timers => m_bLoadRecordings

DeletedInv == ToReload /\ DeletedIsReloaded

LEMMA DeletedInit == Init => DeletedInv
BY DEF Init, DeletedInv, ToReload, DeletedIsReloaded, Phases

LEMMA DeletedWorker ==
    ASSUME DeletedInv, Worker PROVE DeletedInv'
<1>1. CASE LoadRecordingsBegins \/ LoadRecordingsFails
  BY <1>1 DEF LoadRecordingsBegins, LoadRecordingsFails, published, DeletedInv, ToReload, DeletedIsReloaded
<1>2. CASE LoadRecordingsAnswered
  <2>1. DOMAIN new_recordings' = Recorded /\ new_timers' = Pending
    BY <1>2 DEF LoadRecordingsAnswered, SortRecords
  <2>2. \A id \in deleted : id \notin Recorded \cup Pending
    BY DEF DeletedInv, ToReload, Recorded, Pending
  <2>3. changed_r' \/ DOMAIN new_recordings' = DOMAIN m_recordings
    BY <1>2 DEF LoadRecordingsAnswered, SortRecords
  <2> QED
    BY <1>2, <2>1, <2>2, <2>3 DEF LoadRecordingsAnswered, published, DeletedInv, ToReload, DeletedIsReloaded
<1>3. ASSUME NEW id \in Records, GetRecordingUrl(id) \/ GetRecordingUrlFails(id)
      PROVE DeletedInv'
  <2>1. DOMAIN new_recordings' = DOMAIN new_recordings
    BY <1>3 DEF GetRecordingUrl, GetRecordingUrlFails
  <2> QED
    BY <1>3, <2>1 DEF GetRecordingUrl, GetRecordingUrlFails, published, DeletedInv, ToReload,
       DeletedIsReloaded
<1>4. CASE LoadRecordingsPublishes
  <2>1. /\ pc = "urls"
        /\ pc' = "idle"
        /\ UNCHANGED <<phase, m_bLoadRecordings, deleted>>
    BY <1>4 DEF LoadRecordingsPublishes, Publish
  <2>2. DOMAIN m_recordings' = DOMAIN new_recordings
    BY <1>4, <2>1 DEF LoadRecordingsPublishes, Publish, DeletedInv, ToReload
  <2>3. m_timers' = new_timers
    BY <1>4 DEF LoadRecordingsPublishes, Publish
  <2> QED
    BY <2>1, <2>2, <2>3 DEF DeletedInv, ToReload, DeletedIsReloaded
<1> QED
  BY <1>1, <1>2, <1>3, <1>4 DEF Worker

LEMMA DeletedKodi ==
    ASSUME DeletedInv, TriggerLoadRecordings \/ Kodi \/ \E id \in Records : Tick(id)
    PROVE DeletedInv'
<1> USE DEF DeletedInv, ToReload, DeletedIsReloaded
<1>1. ASSUME NEW id \in Records, phase' = [phase EXCEPT ![id] = "deleted"],
             UNCHANGED <<m_bLoadRecordings, published, workerVars, deleted, load_failed>>
      PROVE DeletedInv'
  BY <1>1 DEF Phases, published, workerVars
<1>2. ASSUME NEW id \in Records, NEW p \in Phases, phase[id] # "deleted",
             phase' = [phase EXCEPT ![id] = p],
             UNCHANGED <<m_bLoadRecordings, published, workerVars, deleted, load_failed>>
      PROVE DeletedInv'
  BY <1>2 DEF published, workerVars
<1>3. ASSUME NEW id \in Records, SetLoadRecordings(id) PROVE DeletedInv'
  BY <1>3 DEF SetLoadRecordings, published, workerVars
<1>4. CASE TriggerLoadRecordings \/ PinUnlock \/ PinCheckUnlock \/ GetRecordings \/ GetTimers
  BY <1>4 DEF TriggerLoadRecordings, PinUnlock, PinCheckUnlock, GetRecordings, GetTimers, published,
     workerVars
<1>5. ASSUME NEW id \in Records, AddTimer(id) PROVE DeletedInv'
  BY <1>5, <1>2 DEF AddTimer, Phases
<1>6. ASSUME NEW id \in Records, NEW answer \in {"free", "answered"}, DeleteRecord(id, answer)
      PROVE DeletedInv'
  BY <1>6, <1>1 DEF DeleteRecord
<1>7. ASSUME NEW id \in Records, Tick(id) PROVE DeletedInv'
  BY <1>7, <1>2 DEF Tick, Phases
<1> QED
  BY <1>3, <1>4, <1>5, <1>6, <1>7 DEF Kodi

LEMMA DeletedStep == DeletedInv /\ [Next]_vars => DeletedInv'
<1> SUFFICES ASSUME DeletedInv, [Next]_vars PROVE DeletedInv'
  OBVIOUS
<1>1. CASE UNCHANGED vars
  BY <1>1 DEF vars, published, workerVars, DeletedInv, ToReload, DeletedIsReloaded
<1> QED
  BY <1>1, DeletedWorker, DeletedKodi DEF Next

\* A record Kodi was told to be deleted, in a published list, is followed by a
\* load: SimpleLoadJob lowers the flag before it loads, never after.
THEOREM DeletedStaysReloaded == Spec => []DeletedIsReloaded
<1>1. DeletedInv => DeletedIsReloaded
  BY DEF DeletedInv
<1> QED
  BY <1>1, DeletedInit, DeletedStep, PTL DEF Spec
-----------------------------------------------------------------------------
(* The recordings and the timers are mirrored *)

LEMMA MirrorsInit == Init => RecordingList!Init /\ TimerList!Init
BY DEF Init, Nothing, Recorded, Pending, Loading, RecordingList!Init, TimerList!Init

\* Whatever leaves the load and the lists alone can only change the records.
LEMMA MirrorsChange ==
    ASSUME UNCHANGED <<m_bLoadRecordings, published, workerVars, kodiVars>>
    PROVE  RecordingList!Change /\ TimerList!Change
BY DEF published, workerVars, kodiVars, flags, Loading, Recorded, Pending, RecordingList!Change,
   TimerList!Change

LEMMA MirrorsRequest ==
    ASSUME m_bLoadRecordings' = TRUE, UNCHANGED <<phase, published, workerVars, kodiVars>>
    PROVE  RecordingList!Request /\ TimerList!Request
BY DEF published, workerVars, kodiVars, flags, Loading, Recorded, Pending, RecordingList!Request,
   TimerList!Request

LEMMA MirrorsBegin ==
    ASSUME LoadRecordingsBegins PROVE RecordingList!Begin /\ TimerList!Begin
BY DEF LoadRecordingsBegins, published, kodiVars, flags, Loading, Recorded, Pending,
   RecordingList!Begin, TimerList!Begin

LEMMA MirrorsFail ==
    ASSUME LoadRecordingsFails PROVE RecordingList!Fail /\ TimerList!Fail
BY DEF LoadRecordingsFails, published, kodiVars, flags, Loading, Recorded, Pending,
   RecordingList!Fail, TimerList!Fail

LEMMA MirrorsTake ==
    ASSUME LoadRecordingsAnswered PROVE RecordingList!Take /\ TimerList!Take
<1>1. DOMAIN new_recordings' = Recorded /\ new_timers' = Pending
  BY DEF LoadRecordingsAnswered, SortRecords
<1> QED
  BY <1>1 DEF LoadRecordingsAnswered, published, kodiVars, flags, Loading, Recorded, Pending,
     RecordingList!Take, TimerList!Take

LEMMA MirrorsUrl ==
    ASSUME NEW id \in Records, GetRecordingUrl(id) \/ GetRecordingUrlFails(id)
    PROVE  UNCHANGED RecordingList!vars /\ UNCHANGED TimerList!vars
<1>1. DOMAIN new_recordings' = DOMAIN new_recordings
  BY DEF GetRecordingUrl, GetRecordingUrlFails
<1> QED
  BY <1>1 DEF GetRecordingUrl, GetRecordingUrlFails, published, kodiVars, flags, Loading, Recorded,
     Pending, RecordingList!vars, TimerList!vars

\* A list that is not replaced has the ids of the one that was taken.
LEMMA MirrorsPublish ==
    ASSUME DisjointInv, LoadRecordingsPublishes PROVE RecordingList!Publish /\ TimerList!Publish
<1>1. /\ pc = "urls" /\ pc' = "idle"
      /\ DOMAIN new_recordings' = {} /\ new_timers' = {}
      /\ UNCHANGED <<phase, m_bLoadRecordings, kodiRecordings, kodiTimers>>
  BY DEF LoadRecordingsPublishes, Publish, Nothing
<1>2. /\ DOMAIN m_recordings' = DOMAIN new_recordings
      /\ recordingUpdate' \in BOOLEAN
      /\ recordingUpdate \/ DOMAIN m_recordings' # DOMAIN m_recordings => recordingUpdate'
  BY <1>1 DEF LoadRecordingsPublishes, Publish, DisjointInv, SortedInv
<1>3. /\ m_timers' = new_timers
      /\ timerUpdate' \in BOOLEAN
      /\ timerUpdate \/ m_timers' # m_timers => timerUpdate'
  BY DEF LoadRecordingsPublishes, Publish
<1> QED
  BY <1>1, <1>2, <1>3 DEF Loading, Recorded, Pending, RecordingList!Publish, TimerList!Publish

LEMMA MirrorsKodi ==
    ASSUME Kodi
    PROVE  [RecordingList!Next]_(RecordingList!vars) /\ [TimerList!Next]_(TimerList!vars)
<1> USE DEF RecordingList!Next, TimerList!Next
<1>1. ASSUME NEW id \in Records, AddTimer(id) PROVE RecordingList!Change /\ TimerList!Change
  BY <1>1, MirrorsChange DEF AddTimer
<1>2. ASSUME NEW id \in Records, SetLoadRecordings(id)
      PROVE  RecordingList!Request /\ TimerList!Request
  BY <1>2, MirrorsRequest DEF SetLoadRecordings
<1>3. ASSUME NEW id \in Records, NEW answer \in {"free", "answered"}, DeleteRecord(id, answer)
      PROVE  RecordingList!Change /\ TimerList!Change
  BY <1>3, MirrorsChange DEF DeleteRecord
<1>4. CASE PinUnlock
  BY <1>4, MirrorsChange DEF PinUnlock
<1>5. CASE PinCheckUnlock
  BY <1>5, MirrorsRequest DEF PinCheckUnlock
<1>6. CASE GetRecordings
  <2>1. RecordingList!Show
    BY <1>6 DEF GetRecordings, published, workerVars, Loading, Recorded, RecordingList!Show
  <2>2. UNCHANGED TimerList!vars
    BY <1>6 DEF GetRecordings, published, workerVars, Loading, Pending, TimerList!vars
  <2> QED
    BY <2>1, <2>2
<1>7. CASE GetTimers
  <2>1. TimerList!Show
    BY <1>7 DEF GetTimers, published, workerVars, Loading, Pending, TimerList!Show
  <2>2. UNCHANGED RecordingList!vars
    BY <1>7 DEF GetTimers, published, workerVars, Loading, Recorded, RecordingList!vars
  <2> QED
    BY <2>1, <2>2
<1> QED
  BY <1>1, <1>2, <1>3, <1>4, <1>5, <1>6, <1>7 DEF Kodi

LEMMA MirrorsStep ==
    DisjointInv /\ [Next]_vars
        => [RecordingList!Next]_(RecordingList!vars) /\ [TimerList!Next]_(TimerList!vars)
<1> SUFFICES ASSUME DisjointInv, [Next]_vars
             PROVE  [RecordingList!Next]_(RecordingList!vars) /\ [TimerList!Next]_(TimerList!vars)
  OBVIOUS
<1>1. CASE Worker
  BY <1>1, MirrorsBegin, MirrorsFail, MirrorsTake, MirrorsUrl, MirrorsPublish
     DEF Worker, RecordingList!Next, TimerList!Next
<1>2. CASE TriggerLoadRecordings
  BY <1>2, MirrorsRequest DEF TriggerLoadRecordings, RecordingList!Next, TimerList!Next
<1>3. CASE Kodi
  BY <1>3, MirrorsKodi
<1>4. ASSUME NEW id \in Records, Tick(id) PROVE RecordingList!Change /\ TimerList!Change
  BY <1>4, MirrorsChange DEF Tick
<1>5. CASE UNCHANGED vars
  BY <1>5, MirrorsChange DEF vars, RecordingList!Next, TimerList!Next
<1> QED
  BY <1>1, <1>2, <1>3, <1>4, <1>5 DEF Next, RecordingList!Next, TimerList!Next

\* LoadRecordings implements Mirror for the recordings, whatever number of records
\* there is: the list it does not publish is the one it published before.
THEOREM RecordingsAreMirrored == Spec => RecordingsMirrored
<1>1. DisjointInv /\ [Next]_vars => [RecordingList!Next]_(RecordingList!vars)
  BY MirrorsStep
<1>2. Init => RecordingList!Init
  BY MirrorsInit
<1> QED
  BY <1>1, <1>2, DisjointInit, DisjointStep, PTL DEF Spec, RecordingsMirrored, RecordingList!Spec

\* And it implements Mirror for the timers, with the same loads.
THEOREM TimersAreMirrored == Spec => TimersMirrored
<1>1. DisjointInv /\ [Next]_vars => [TimerList!Next]_(TimerList!vars)
  BY MirrorsStep
<1>2. Init => TimerList!Init
  BY MirrorsInit
<1> QED
  BY <1>1, <1>2, DisjointInit, DisjointStep, PTL DEF Spec, TimersMirrored, TimerList!Spec

\* As of every mirrored list: although a load that finds nothing changed is silent,
\* Kodi lists the published recordings, or has been told to get them ...
THEOREM RecordingsNeverStale == Spec => []RecordingList!ShownOrAnnounced
<1>1. RecordingList!Init => RecordingList!ShownOrAnnounced
  BY DEF RecordingList!Init, RecordingList!ShownOrAnnounced
<1>2. /\ RecordingList!ShownOrAnnounced
      /\ [RecordingList!Next]_(RecordingList!vars)
      => RecordingList!ShownOrAnnounced'
  BY DEF RecordingList!ShownOrAnnounced, RecordingList!Next, RecordingList!Change, RecordingList!Request,
     RecordingList!Begin, RecordingList!Take, RecordingList!Fail, RecordingList!Publish, RecordingList!Show, RecordingList!vars
<1> QED
  BY <1>1, <1>2, RecordingsAreMirrored, PTL DEF RecordingsMirrored, RecordingList!Spec

\* ... and so with the timers.
THEOREM TimersNeverStale == Spec => []TimerList!ShownOrAnnounced
<1>1. TimerList!Init => TimerList!ShownOrAnnounced
  BY DEF TimerList!Init, TimerList!ShownOrAnnounced
<1>2. /\ TimerList!ShownOrAnnounced
      /\ [TimerList!Next]_(TimerList!vars)
      => TimerList!ShownOrAnnounced'
  BY DEF TimerList!ShownOrAnnounced, TimerList!Next, TimerList!Change, TimerList!Request,
     TimerList!Begin, TimerList!Take, TimerList!Fail, TimerList!Publish, TimerList!Show, TimerList!vars
<1> QED
  BY <1>1, <1>2, TimersAreMirrored, PTL DEF TimersMirrored, TimerList!Spec

=============================================================================
