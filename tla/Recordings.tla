----------------------------- MODULE Recordings -----------------------------
(***************************************************************************)
(* The recordings and the timers of sledovanitvcz::Data: what the backend  *)
(* records, what LoadRecordings makes of it, and what Kodi gets to see.    *)
(*                                                                         *)
(* The worker loads the list of all records when it is requested to, sorts *)
(* it into recordings and timers by the clock, decides by comparing with   *)
(* the last list whether there is anything new, if so asks for the stream  *)
(* address of each recording in turn, and publishes.  Meanwhile time goes  *)
(* on and Kodi schedules and deletes records and unlocks the session with  *)
(* a PIN, each of which requests another load.                             *)
(*                                                                         *)
(* Abstractions.  A record keeps its id and whether it has ended.  The      *)
(* backend lists the records in the same order each time, so that the      *)
(* element-wise comparison of two lists is one of sets of ids, or of       *)
(* functions from them.  Of a stream address only whether there is one is  *)
(* kept; the state of a timer, which no comparison looks at, is not.  A    *)
(* request of Kodi the backend refuses changes nothing and is left out.    *)
(* The session is not renewed in this module, and the channels do not      *)
(* matter in it.                                                           *)
(***************************************************************************)
EXTENDS FiniteSets

CONSTANTS
    Records,     \* the records there may be
    Locked       \* those on channels behind the PIN

ASSUME RecordsAssumption == Locked \subseteq Records

VARIABLES
    \* the backend
    phase,               \* how far each record has come
    \* guarded by m_mutex
    m_bLoadRecordings,   \* a load is requested
    m_recordings,        \* id -> whether it has a stream address
    m_timers,            \* the ids
    \* the worker, in LoadRecordings
    pc,
    new_recordings,
    new_timers,
    changed_r,
    todo,                \* the recordings still to ask the address of
    \* Kodi
    at,                  \* the call of AddTimer or Delete... about each record
    pin,                 \* the PIN of the session
    recordingUpdate,     \* TriggerRecordingUpdate, TriggerTimerUpdate not yet followed
    timerUpdate,
    kodiRecordings,      \* the ids Kodi last got
    kodiTimers,
    \* history
    deleted,             \* the records whose deletion Kodi was told of
    load_failed          \* the last load gave up

flags      == <<recordingUpdate, timerUpdate>>
published  == <<m_recordings, m_timers>>
workerVars == <<pc, new_recordings, new_timers, changed_r, todo>>
kodiVars   == <<flags, kodiRecordings, kodiTimers>>
vars == <<phase, m_bLoadRecordings, published, workerVars, at, pin, kodiVars, deleted, load_failed>>

-----------------------------------------------------------------------------
(* Values *)

Phases == {"none", "scheduled", "recorded", "deleted"}

Pending  == {id \in Records : phase[id] = "scheduled"}
Recorded == {id \in Records : phase[id] = "recorded"}

Nothing == [id \in {} |-> FALSE]

Init ==
    /\ phase \in [Records -> {"none", "scheduled", "recorded"}]
    /\ m_bLoadRecordings = TRUE
    /\ m_recordings = Nothing
    /\ m_timers = {}
    /\ pc = "idle"
    /\ new_recordings = Nothing
    /\ new_timers = {}
    /\ changed_r = FALSE
    /\ todo = {}
    /\ at = [id \in Records |-> "free"]
    /\ pin = "locked"
    /\ recordingUpdate = FALSE
    /\ timerUpdate = FALSE
    /\ kodiRecordings = {}
    /\ kodiTimers = {}
    /\ deleted = {}
    /\ load_failed = FALSE

-----------------------------------------------------------------------------
(* The worker: LoadRecordings *)

\* SimpleLoadJob(m_bLoadRecordings): the flag falls before the load begins.
LoadRecordingsBegins ==
    /\ pc = "idle"
    /\ m_bLoadRecordings
    /\ m_bLoadRecordings' = FALSE
    /\ load_failed' = FALSE
    /\ pc' = "call"
    /\ UNCHANGED <<phase, published, new_recordings, new_timers, changed_r, todo, at, pin,
                   kodiVars, deleted>>

LoadRecordingsFails ==
    /\ pc = "call"
    /\ load_failed' = TRUE
    /\ pc' = "idle"
    /\ UNCHANGED <<phase, m_bLoadRecordings, published, new_recordings, new_timers, changed_r,
                   todo, at, pin, kodiVars, deleted>>

\* Mutant: the addresses are asked for of the published recordings.
SortRecords_Published ==
    /\ new_recordings' = [id \in Recorded |-> FALSE]
    /\ new_timers' = Pending
    /\ changed_r' = (new_recordings' # m_recordings)
    /\ todo' = IF changed_r' THEN DOMAIN m_recordings ELSE {}

\* Mutant: recordings that are gone are no change.
SortRecords_Gone ==
    /\ new_recordings' = [id \in Recorded |-> FALSE]
    /\ new_timers' = Pending
    /\ changed_r' = \E id \in Recorded : id \notin DOMAIN m_recordings \/ m_recordings[id]
    /\ todo' = IF changed_r' THEN Recorded ELSE {}

\* Sorts what getPvr has answered: what has ended is a recording, still without
\* its address, the rest are timers.  The recordings have changed if the new ids
\* or the addresses, which are empty so far, differ from the published ones.
SortRecords ==
    /\ new_recordings' = [id \in Recorded |-> FALSE]
    /\ new_timers' = Pending
    /\ changed_r' = (new_recordings' # m_recordings)
    /\ todo' = IF changed_r' THEN Recorded ELSE {}

LoadRecordingsAnswered ==
    /\ pc = "call"
    /\ SortRecords
    /\ pc' = "urls"
    /\ UNCHANGED <<phase, m_bLoadRecordings, published, at, pin, kodiVars, deleted, load_failed>>

\* getRecordingUrl: an address, if the record is there and not behind the PIN ...
GetRecordingUrl(id) ==
    /\ pc = "urls"
    /\ id \in todo
    /\ phase[id] = "recorded"
    /\ id \in Locked => pin # "locked"
    /\ new_recordings' = [new_recordings EXCEPT ![id] = TRUE]
    /\ todo' = todo \ {id}
    /\ UNCHANGED <<phase, m_bLoadRecordings, published, pc, new_timers, changed_r, at, pin,
                   kodiVars, deleted, load_failed>>

\* ... or none, in any case.
GetRecordingUrlFails(id) ==
    /\ pc = "urls"
    /\ id \in todo
    /\ todo' = todo \ {id}
    /\ UNCHANGED <<phase, m_bLoadRecordings, published, pc, new_recordings, new_timers, changed_r,
                   at, pin, kodiVars, deleted, load_failed>>

\* Publishes what has changed, and then only has Kodi get it.
Publish(changed_t) ==
    /\ pc = "urls"
    /\ todo = {}
    /\ m_recordings' = IF changed_r THEN new_recordings ELSE m_recordings
    /\ recordingUpdate' = (recordingUpdate \/ changed_r)
    /\ m_timers' = IF changed_t THEN new_timers ELSE m_timers
    /\ timerUpdate' = (timerUpdate \/ changed_t)
    /\ new_recordings' = Nothing
    /\ new_timers' = {}
    /\ changed_r' = FALSE
    /\ pc' = "idle"
    /\ UNCHANGED <<phase, m_bLoadRecordings, todo, at, pin, kodiRecordings, kodiTimers, deleted,
                   load_failed>>

\* Mutant: the timers have changed if their number has.
LoadRecordingsPublishes_Counts == Publish(Cardinality(new_timers) # Cardinality(m_timers))

\* Mutant: Kodi is not triggered when a list has become empty.
LoadRecordingsPublishes_NotEmpty ==
    Publish(new_timers # m_timers /\ new_timers # {})

\* The timers are compared by their ids alone.
LoadRecordingsPublishes == Publish(new_timers # m_timers)

-----------------------------------------------------------------------------
(* Requests of a load *)

\* trigger_load_recordings is due.
TriggerLoadRecordings ==
    /\ pc = "idle"
    /\ m_bLoadRecordings' = TRUE
    /\ UNCHANGED <<phase, published, workerVars, at, pin, kodiVars, deleted, load_failed>>

\* AddTimer: the backend takes the record ...
AddTimer(id) ==
    /\ at[id] = "free"
    /\ phase[id] = "none"
    /\ phase' = [phase EXCEPT ![id] = "scheduled"]
    /\ at' = [at EXCEPT ![id] = "answered"]
    /\ UNCHANGED <<m_bLoadRecordings, published, workerVars, pin, kodiVars, deleted, load_failed>>

\* ... DeleteRecording, DeleteTimer: the backend drops one Kodi knows of, and it
\* may be that Kodi does not hear of it ...
DeleteRecord(id, answer) ==
    /\ at[id] = "free"
    /\ id \in kodiRecordings \cup kodiTimers
    /\ phase[id] \in {"scheduled", "recorded"}
    /\ phase' = [phase EXCEPT ![id] = "deleted"]
    /\ at' = [at EXCEPT ![id] = answer]
    /\ UNCHANGED <<m_bLoadRecordings, published, workerVars, pin, kodiVars, deleted, load_failed>>

\* Mutant: no load is requested while there is one under way.
SetLoadRecordings_NotWhileLoading(id) ==
    /\ at[id] = "answered"
    /\ at' = [at EXCEPT ![id] = "free"]
    /\ m_bLoadRecordings' = (m_bLoadRecordings \/ pc = "idle")
    /\ deleted' = IF phase[id] = "deleted" THEN deleted \cup {id} ELSE deleted
    /\ UNCHANGED <<phase, published, workerVars, pin, kodiVars, load_failed>>

\* ... and the calls that were answered request a load.
SetLoadRecordings(id) ==
    /\ at[id] = "answered"
    /\ at' = [at EXCEPT ![id] = "free"]
    /\ m_bLoadRecordings' = TRUE
    /\ deleted' = IF phase[id] = "deleted" THEN deleted \cup {id} ELSE deleted
    /\ UNCHANGED <<phase, published, workerVars, pin, kodiVars, load_failed>>

\* PinCheckUnlock for a stream: the session is unlocked ...
PinUnlock ==
    /\ pin = "locked"
    /\ pin' = "accepted"
    /\ UNCHANGED <<phase, m_bLoadRecordings, published, workerVars, at, kodiVars, deleted, load_failed>>

\* ... which "can lead to unlock of recordings"; each later stream loads again.
PinCheckUnlock ==
    /\ pin # "locked"
    /\ pin' = "unlocked"
    /\ m_bLoadRecordings' = TRUE
    /\ UNCHANGED <<phase, published, workerVars, at, kodiVars, deleted, load_failed>>

-----------------------------------------------------------------------------
(* Kodi and the time *)

GetRecordings ==
    /\ recordingUpdate
    /\ recordingUpdate' = FALSE
    /\ kodiRecordings' = DOMAIN m_recordings
    /\ UNCHANGED <<phase, m_bLoadRecordings, published, workerVars, at, pin, timerUpdate,
                   kodiTimers, deleted, load_failed>>

GetTimers ==
    /\ timerUpdate
    /\ timerUpdate' = FALSE
    /\ kodiTimers' = m_timers
    /\ UNCHANGED <<phase, m_bLoadRecordings, published, workerVars, at, pin, recordingUpdate,
                   kodiRecordings, deleted, load_failed>>

\* A record ends.
Tick(id) ==
    /\ phase[id] = "scheduled"
    /\ phase' = [phase EXCEPT ![id] = "recorded"]
    /\ UNCHANGED <<m_bLoadRecordings, published, workerVars, at, pin, kodiVars, deleted, load_failed>>

-----------------------------------------------------------------------------
Worker ==
    \/ LoadRecordingsBegins
    \/ LoadRecordingsFails
    \/ LoadRecordingsAnswered
    \/ \E id \in Records : GetRecordingUrl(id) \/ GetRecordingUrlFails(id)
    \/ LoadRecordingsPublishes

Kodi ==
    \/ \E id \in Records : AddTimer(id) \/ SetLoadRecordings(id)
    \/ \E id \in Records, answer \in {"free", "answered"} : DeleteRecord(id, answer)
    \/ PinUnlock
    \/ PinCheckUnlock
    \/ GetRecordings
    \/ GetTimers

Next == Worker \/ TriggerLoadRecordings \/ Kodi \/ \E id \in Records : Tick(id)

Spec == Init /\ [][Next]_vars

\* The worker goes on and loads once a while; a backend asked again and again
\* answers some time; a call that was answered goes on, and so does Kodi after a
\* trigger.
FairSpec ==
    /\ Spec
    /\ WF_vars(Worker)
    /\ SF_vars(TriggerLoadRecordings)
    /\ SF_vars(LoadRecordingsAnswered)
    /\ \A id \in Records : SF_vars(GetRecordingUrl(id)) /\ WF_vars(SetLoadRecordings(id))
    /\ WF_vars(pin = "accepted" /\ PinCheckUnlock)
    /\ WF_vars(GetRecordings)
    /\ WF_vars(GetTimers)

-----------------------------------------------------------------------------
(* Properties *)

\* Every variable keeps its shape; the addresses asked for are of new recordings.
TypeOK ==
    /\ phase \in [Records -> Phases]
    /\ m_bLoadRecordings \in BOOLEAN /\ changed_r \in BOOLEAN /\ load_failed \in BOOLEAN
    /\ recordingUpdate \in BOOLEAN /\ timerUpdate \in BOOLEAN
    /\ pc \in {"idle", "call", "urls"} /\ pin \in {"locked", "accepted", "unlocked"}
    /\ at \in [Records -> {"free", "answered"}]
    /\ DOMAIN m_recordings \subseteq Records /\ m_recordings \in [DOMAIN m_recordings -> BOOLEAN]
    /\ DOMAIN new_recordings \subseteq Records /\ new_recordings \in [DOMAIN new_recordings -> BOOLEAN]
    /\ m_timers \subseteq Records /\ new_timers \subseteq Records
    /\ todo \subseteq DOMAIN new_recordings
    /\ kodiRecordings \subseteq Records /\ kodiTimers \subseteq Records /\ deleted \subseteq Records

\* No record is published as a recording and as a timer, though the two lists
\* are compared and replaced one by one.
NeverBoth == DOMAIN m_recordings \cap m_timers = {}

\* A record Kodi was told to be deleted leaves the published lists: as long as it
\* is in one of them, a load is requested, or asked for, or brings lists without
\* it, or the last one has failed.
DeletedIsReloaded ==
    \A id \in deleted : id \in DOMAIN m_recordings \cup m_timers =>
        \/ m_bLoadRecordings
        \/ pc = "call"
        \/ pc = "urls" /\ id \notin DOMAIN new_recordings \cup new_timers
        \/ load_failed

\* The recordings and the timers as two mirrored lists that one load brings.
Loading == CASE pc = "call" -> "asked" [] pc = "urls" -> "answered" [] OTHER -> "no"

RecordingList == INSTANCE Mirror WITH
    Lists     <- SUBSET Records,
    Empty     <- {},
    source    <- Recorded,
    requested <- m_bLoadRecordings,
    loading   <- Loading,
    taken     <- DOMAIN new_recordings,
    published <- DOMAIN m_recordings,
    announced <- recordingUpdate,
    shown     <- kodiRecordings

TimerList == INSTANCE Mirror WITH
    Lists     <- SUBSET Records,
    Empty     <- {},
    source    <- Pending,
    requested <- m_bLoadRecordings,
    loading   <- Loading,
    taken     <- new_timers,
    published <- m_timers,
    announced <- timerUpdate,
    shown     <- kodiTimers

\* The recordings are mirrored, although a list that seems unchanged is neither
\* published nor announced and the addresses are asked for one by one.
RecordingsMirrored == RecordingList!Spec

\* The timers are mirrored, although they are replaced apart from the recordings.
TimersMirrored == TimerList!Spec

\* Kodi comes to list what the backend has, recordings and timers, whatever
\* loads failed and whatever was deleted without an answer.
KodiListsRecords == <>[](kodiRecordings = Recorded /\ kodiTimers = Pending)

\* "unlocking can lead to unlock of recordings": a recording that was published
\* before the PIN, and so without its stream address, has the address some time
\* after the session is unlocked, as long as it stays.
UnlockingUnlocks ==
    \A id \in Records :
        [](pin = "locked" /\ id \in DOMAIN m_recordings =>
             [](pin = "unlocked" => <>(id \in DOMAIN m_recordings => m_recordings[id])))
=============================================================================
