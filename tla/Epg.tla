-------------------------------- MODULE Epg --------------------------------
(***************************************************************************)
(* The programme guide of sledovanitvcz::Data: the published guide m_epg,  *)
(* the limits Kodi wants it to span, and the window the worker thread      *)
(* believes it has loaded.                                                 *)
(*                                                                         *)
(* Two kinds of actors share it under m_mutex: the worker thread (Process, *)
(* through LoadEPGJob and TriggerFullRefresh) and the threads Kodi calls   *)
(* in on (SetEPGMaxFutureDays, SetEPGMaxPastDays, GetEPGForChannel,        *)
(* AddTimer).  m_epg is replaced, never changed in place: who wants to     *)
(* change it takes a copy in one critical section, works on the copy       *)
(* without the lock (often over a network call) and publishes it in        *)
(* another.  One action is one critical section with the thread-local work *)
(* next to it; a network call ends an action.                              *)
(*                                                                         *)
(* Abstractions.  Time is counted in programme lengths: every programme    *)
(* lasts one unit and starts on a unit (Data.cpp's hour-long small step    *)
(* is SmallStep units, its 86400 seconds are Day units).  A guide entry    *)
(* keeps only what tells behaviours apart: its channel, its start and      *)
(* whether it carries a record id.  Daylight saving changes once, at       *)
(* ChangeTime.  Reading the clock and taking the lock right after it is    *)
(* one step.  Shutdown is not part of this module: KeepAlive() is true     *)
(* throughout.                                                             *)
(***************************************************************************)
EXTENDS Integers, Functions

CONSTANTS
    Channels,     \* the channels the backend has a guide for
    Playlists,    \* the sets of channels its playlist may list
    Handlers,     \* the Kodi threads that may run AddTimer, once each
    Day,          \* length of a day, in programme lengths
    SmallStep,    \* span of the first, small load (an hour in the code)
    UtcBefore,    \* DiffBetweenUtcAndLocalTime, as the unsigned it returns,
    UtcAfter,     \* before and after
    ChangeTime,   \* the change of daylight saving
    StartTime,    \* the time the constructor runs at
    EndTime,      \* bound: the clock stops here
    FutureDays,   \* the values Kodi gives to SetEPGMaxFutureDays
    PastDays,     \* the values Kodi gives to SetEPGMaxPastDays
    Requests,     \* the <<start, end>> spans Kodi asks GetEPGForChannel for
    MaxCalls      \* bound: Kodi calls and full refreshes in a behaviour

ASSUME EpgAssumption ==
    /\ Day \in Nat \ {0}
    /\ SmallStep \in 1..Day
    /\ StartTime \in Nat \ {0}
    /\ EndTime \in Nat
    /\ FutureDays \subseteq Nat /\ FutureDays # {}
    /\ PastDays \subseteq Nat /\ PastDays # {}
    /\ Requests \subseteq Nat \X Nat
    /\ Playlists \subseteq SUBSET Channels
    /\ MaxCalls \in Nat

\* The change comes as it does in Europe, early in a day of UTC: the clocks move
\* within a local day.  Without a change the offset is any unsigned.
ASSUME ChangeAssumption ==
    /\ UtcBefore \in Nat /\ UtcAfter \in Nat /\ ChangeTime \in Nat
    /\ \/ UtcBefore = UtcAfter
       \/ /\ (ChangeTime % Day) + UtcBefore < Day
          /\ (ChangeTime % Day) + UtcAfter < Day
          /\ (ChangeTime % Day) + UtcAfter >= UtcBefore

VARIABLES
    now,                 \* what time(nullptr) returns
    calls,               \* calls counted against MaxCalls
    \* guarded by m_mutex
    m_channels,          \* the channels of the loaded playlist
    m_epg,               \* the published guide: entry -> has a record id
    m_epgMinTime,        \* the limits the guide should span ...
    m_epgMaxTime,
    m_epgMaxFutureDays,  \* ... and the day counts they come from
    m_epgMaxPastDays,
    m_bLoadPlayList,     \* a reload of the playlist is requested
    m_bLoadRecordings,   \* a reload of the recordings is requested
    \* owned by the worker thread
    m_bEGPLoaded,
    m_iLastStart,        \* the window the worker takes for loaded ...
    m_iLastEnd,          \* ... 0 before the first load
    pc,                  \* where the worker is
    job,                 \* its locals in LoadEPGJob, LoadEPG, TriggerFullRefresh
    fresh,               \* the answer of getEpg being merged
    epg,                 \* its copy of the pointer m_epg
    epg_updated,         \* the result of the last LoadEPGJob
    \* the other side
    timer,               \* the AddTimer calls: handler -> its locals
    kodiEpg,             \* the entries Kodi knows of from EpgEventStateChange
    recorded,            \* the entries the backend records
    \* history
    covered,             \* the channels known to every load of the window
    clobbered            \* AddTimer has published over a guide it had not copied

flags       == <<m_bLoadPlayList, m_bLoadRecordings>>
kodiVars    == <<m_epgMinTime, m_epgMaxTime, m_epgMaxFutureDays, m_epgMaxPastDays>>
windowVars  == <<m_bEGPLoaded, m_iLastStart, m_iLastEnd>>
workerVars  == <<pc, job, fresh, epg>>
vars == <<now, calls, m_channels, m_epg, kodiVars, flags, windowVars, workerVars,
          epg_updated, timer, kodiEpg, recorded, covered, clobbered>>

-----------------------------------------------------------------------------
(* Values *)

Entry   == Channels \X Int
NoGuide == [e \in {} |-> FALSE]
IsGuide(g) == /\ DOMAIN g \subseteq Entry
              /\ g = [e \in DOMAIN g |-> g[e]]
              /\ \A e \in DOMAIN g : g[e] \in BOOLEAN

Labels == {"playlist", "idle", "refresh", "fetch", "merge", "store",
           "lower", "release", "releasing"}

Job == [min : Int, max : Int, start : Int, step : Int,
        then : {"lower", "release"}, future : Nat, past : Nat]
LoadJob(min, max, start, step, then) ==
    [min |-> min, max |-> max, start |-> start, step |-> step, then |-> then,
     future |-> 0, past |-> 0]
RefreshJob(future, past) ==
    [min |-> 0, max |-> 0, start |-> 0, step |-> 0, then |-> "release",
     future |-> future, past |-> past]
NoJob == RefreshJob(0, 0)

\* The locals of an AddTimer call.
Locals(at, entry, guide) == [pc |-> at, entry |-> entry, epg |-> guide]

Start(e)   == e[2]
End(e)     == e[2] + 1
MinOf(a, b) == IF a < b THEN a ELSE b
MaxOf(a, b) == IF a < b THEN b ELSE a

\* The guide g with the entries of f put into it.
Merge(f, g) == [e \in DOMAIN f \cup DOMAIN g |-> IF e \in DOMAIN f THEN f[e] ELSE g[e]]

UtcDiff(t) == IF t < ChangeTime THEN UtcBefore ELSE UtcAfter

\* The start of the local day that holds t, computed as LoadEPGJob does: the way
\* back takes the offset of a moment that is off by the way there.
DayStart(t) == LET start == t + UtcDiff(t) IN start - (start % Day) - UtcDiff(start)

\* LoadEPG's test that the span to load lies in the loaded window.
AlreadyLoaded(start, step) ==
    /\ m_bEGPLoaded
    /\ m_iLastStart # 0
    /\ start >= m_iLastStart
    /\ start + step <= m_iLastEnd

\* What the backend answers to getEpg: every programme of the span.
Answer(start, step) ==
    [e \in Channels \X (start .. start + step - 1) |-> e \in recorded]

\* The entries of g that ReleaseUnneededEPG drops for the limits min and max.
Unneeded(g, min, max) == {e \in DOMAIN g : Start(e) > max \/ End(e) < min}

-----------------------------------------------------------------------------
(* Data::SetEPGMaxDays, with its -1 for "keep the value" *)

Keep == -1

\* Mutant: -1 is taken for a number of days.
SetEPGMaxDays_KeepForgotten(iFutureDays, iPastDays) ==
    /\ m_epgMaxFutureDays' = iFutureDays
    /\ m_epgMaxPastDays' = iPastDays
    /\ m_epgMinTime' = now - m_epgMaxPastDays' * Day
    /\ m_epgMaxTime' = now + m_epgMaxFutureDays' * Day

SetEPGMaxDays(iFutureDays, iPastDays) ==
    /\ m_epgMaxFutureDays' = IF iFutureDays = Keep THEN m_epgMaxFutureDays ELSE iFutureDays
    /\ m_epgMaxPastDays'   = IF iPastDays = Keep THEN m_epgMaxPastDays ELSE iPastDays
    /\ m_epgMinTime' = now - m_epgMaxPastDays' * Day
    /\ m_epgMaxTime' = now + m_epgMaxFutureDays' * Day

Init ==
    /\ now = StartTime
    /\ calls = 0
    /\ m_channels = {}
    /\ m_epg = NoGuide
    /\ m_epgMaxFutureDays \in FutureDays
    /\ m_epgMaxPastDays \in PastDays
    /\ m_epgMinTime = StartTime - m_epgMaxPastDays * Day
    /\ m_epgMaxTime = StartTime + m_epgMaxFutureDays * Day
    /\ m_bLoadPlayList = FALSE
    /\ m_bLoadRecordings = TRUE
    /\ m_bEGPLoaded = FALSE
    /\ m_iLastStart = 0
    /\ m_iLastEnd = 0
    /\ pc = "playlist"
    /\ job = NoJob
    /\ fresh = NoGuide
    /\ epg = NoGuide
    /\ epg_updated = FALSE
    /\ timer = [h \in Handlers |-> Locals("ready", <<>>, NoGuide)]
    /\ kodiEpg = {}
    /\ recorded = {}
    /\ covered = {}
    /\ clobbered = FALSE

-----------------------------------------------------------------------------
(* The clock and the calls Kodi makes *)

Tick ==
    /\ now < EndTime
    /\ now' = now + 1
    /\ UNCHANGED <<calls, m_channels, m_epg, kodiVars, flags, windowVars,
                   workerVars, epg_updated, timer, kodiEpg, recorded, covered, clobbered>>

KodiCall ==
    /\ calls < MaxCalls
    /\ calls' = calls + 1
    /\ UNCHANGED <<now, m_channels, m_epg, windowVars, workerVars, epg_updated,
                   timer, kodiEpg, recorded, covered, clobbered>>

SetEPGMaxFutureDays ==
    /\ KodiCall
    /\ UNCHANGED flags
    /\ \E iFutureDays \in FutureDays : SetEPGMaxDays(iFutureDays, Keep)

SetEPGMaxPastDays ==
    /\ KodiCall
    /\ UNCHANGED flags
    /\ \E iPastDays \in PastDays : SetEPGMaxDays(Keep, iPastDays)

\* Kodi asks for the guide of a span: the limits may widen, never narrow.
GetEPGForChannel ==
    /\ KodiCall
    /\ \E span \in Requests :
          /\ m_epgMinTime' = MinOf(span[1], m_epgMinTime)
          /\ m_epgMaxTime' = MaxOf(m_epgMaxTime, span[2])
    /\ UNCHANGED <<m_epgMaxFutureDays, m_epgMaxPastDays, flags>>

\* A PIN is accepted: channels and recordings may look different now.
PinCheckUnlock ==
    /\ KodiCall
    /\ m_bLoadPlayList' = TRUE
    /\ m_bLoadRecordings' = TRUE
    /\ UNCHANGED kodiVars

-----------------------------------------------------------------------------
(* The worker thread: playlist and full refresh *)

\* getPlaylist answers and the channels are published; or it fails.
LoadPlayList ==
    /\ pc = "playlist"
    /\ pc' = "idle"
    /\ m_channels' \in {m_channels} \cup Playlists
    /\ UNCHANGED <<now, calls, m_epg, kodiVars, flags, windowVars, job, fresh,
                   epg, epg_updated, timer, kodiEpg, recorded, covered, clobbered>>

\* SimpleLoadJob: a flag falls before its job runs.
ReloadPlayList ==
    /\ pc = "idle"
    /\ m_bLoadPlayList
    /\ m_bLoadPlayList' = FALSE
    /\ pc' = "playlist"
    /\ UNCHANGED <<now, calls, m_channels, m_epg, kodiVars, m_bLoadRecordings, windowVars,
                   job, fresh, epg, epg_updated, timer, kodiEpg, recorded, covered, clobbered>>

LoadRecordings ==
    /\ pc = "idle"
    /\ m_bLoadRecordings
    /\ m_bLoadRecordings' = FALSE
    /\ UNCHANGED <<now, calls, m_channels, m_epg, kodiVars, m_bLoadPlayList, windowVars,
                   workerVars, epg_updated, timer, kodiEpg, recorded, covered, clobbered>>

\* The window is forgotten and the day counts are read ...
TriggerFullRefresh ==
    /\ pc = "idle"
    /\ calls < MaxCalls
    /\ calls' = calls + 1
    /\ m_iLastStart' = 0
    /\ m_iLastEnd' = 0
    /\ job' = RefreshJob(m_epgMaxFutureDays, m_epgMaxPastDays)
    /\ pc' = "refresh"
    /\ UNCHANGED <<now, m_channels, m_epg, kodiVars, flags, m_bEGPLoaded, fresh,
                   epg, epg_updated, timer, kodiEpg, recorded, covered, clobbered>>

\* ... and, the lock released and taken again, given to SetEPGMaxDays.
RefreshLimits ==
    /\ pc = "refresh"
    /\ SetEPGMaxDays(job.future, job.past)
    /\ job' = NoJob
    /\ pc' = "playlist"
    /\ UNCHANGED <<now, calls, m_channels, m_epg, flags, windowVars, fresh, epg,
                   epg_updated, timer, kodiEpg, recorded, covered, clobbered>>

-----------------------------------------------------------------------------
(* The worker thread: LoadEPGJob and LoadEPG *)

\* LoadEPG(start, step) is called; the job goes on at then.
CallLoadEPG(start, step, then) ==
    /\ job' = LoadJob(m_epgMinTime, m_epgMaxTime, start, step, then)
    /\ pc' = "fetch"
    /\ epg_updated' = TRUE

\* The limits are copied; the first run loads a small span around now, a later
\* one the day that follows the loaded window if the limits reach beyond it.
LoadEPGJob ==
    /\ pc = "idle"
    /\ \/ /\ m_iLastEnd = 0
          /\ CallLoadEPG(now, SmallStep, "release")
       \/ /\ m_iLastEnd # 0
          /\ m_epgMaxTime > m_iLastEnd
          /\ CallLoadEPG(DayStart(m_iLastEnd), Day, "lower")
       \/ /\ m_iLastEnd # 0
          /\ m_epgMaxTime <= m_iLastEnd
          /\ job' = LoadJob(m_epgMinTime, m_epgMaxTime, 0, 0, "lower")
          /\ pc' = "lower"
          /\ epg_updated' = FALSE
    /\ UNCHANGED <<now, calls, m_channels, m_epg, kodiVars, flags, windowVars,
                   fresh, epg, timer, kodiEpg, recorded, covered, clobbered>>

\* Mutant: the day of the window's start.
EarlierStart_SameDay == DayStart(m_iLastStart)

\* Mutant: the day of the limit, however far it is.
EarlierStart_AtLimit == DayStart(job.min)

EarlierStart == DayStart(m_iLastStart - Day)

\* The day before the loaded window, if the limits reach below it.
LoadEarlier ==
    /\ pc = "lower"
    /\ \/ /\ job.min < m_iLastStart
          /\ job' = LoadJob(job.min, job.max, EarlierStart, Day, "release")
          /\ pc' = "fetch"
          /\ epg_updated' = TRUE
       \/ /\ job.min >= m_iLastStart
          /\ pc' = "release"
          /\ UNCHANGED <<job, epg_updated>>
    /\ UNCHANGED <<now, calls, m_channels, m_epg, kodiVars, flags, windowVars,
                   fresh, epg, timer, kodiEpg, recorded, covered, clobbered>>

\* LoadEPG returns false: the span is loaded already, or getEpg fails and
\* m_bEGPLoaded is set (in the first case it is set already).
LoadEPGFails ==
    /\ pc = "fetch"
    /\ m_bEGPLoaded' = TRUE
    /\ pc' = job.then
    /\ UNCHANGED <<now, calls, m_channels, m_epg, kodiVars, flags, m_iLastStart,
                   m_iLastEnd, job, fresh, epg, epg_updated, timer, kodiEpg, recorded, covered, clobbered>>

\* getEpg answers.
LoadEPGAnswered ==
    /\ pc = "fetch"
    /\ ~AlreadyLoaded(job.start, job.step)
    /\ fresh' = Answer(job.start, job.step)
    /\ pc' = "merge"
    /\ UNCHANGED <<now, calls, m_channels, m_epg, kodiVars, flags, windowVars,
                   job, epg, epg_updated, timer, kodiEpg, recorded, covered, clobbered>>

\* Mutant: Kodi is told of programmes of unknown channels as well.
Announce_All == kodiEpg' = kodiEpg \cup DOMAIN fresh

\* Kodi is told of each programme that goes into the copy.
Announce == kodiEpg' = kodiEpg \cup DOMAIN fresh'

\* The window takes in the span, the limits take in the window, channels and
\* guide are copied; the programmes of known channels go into the copy and
\* Kodi is told of each.
LoadEPGMerges ==
    /\ pc = "merge"
    /\ \/ /\ m_iLastEnd = 0
          /\ m_iLastStart' = job.start
          /\ m_iLastEnd' = job.start
       \/ /\ m_iLastEnd # 0
          /\ m_iLastStart' = MinOf(m_iLastStart, job.start)
          /\ m_iLastEnd' = MaxOf(m_iLastEnd, job.start + job.step)
    /\ m_epgMinTime' = MinOf(m_epgMinTime, m_iLastStart')
    /\ m_epgMaxTime' = MaxOf(m_epgMaxTime, m_iLastEnd')
    /\ epg' = m_epg
    /\ fresh' = Restrict(fresh, {e \in DOMAIN fresh : e[1] \in m_channels})
    /\ Announce
    /\ covered' = IF m_iLastEnd = 0 THEN m_channels ELSE covered \cap m_channels
    /\ pc' = "store"
    /\ UNCHANGED <<now, calls, m_channels, m_epg, m_epgMaxFutureDays, m_epgMaxPastDays,
                   flags, m_bEGPLoaded, job, epg_updated, timer, recorded,
                   clobbered>>

LoadEPGStores ==
    /\ pc = "store"
    /\ m_epg' = Merge(fresh, epg)
    /\ m_bEGPLoaded' = TRUE
    /\ fresh' = NoGuide
    /\ epg' = NoGuide
    /\ pc' = job.then
    /\ UNCHANGED <<now, calls, m_channels, kodiVars, flags, m_iLastStart,
                   m_iLastEnd, job, epg_updated, timer, kodiEpg, recorded, covered, clobbered>>

-----------------------------------------------------------------------------
(* The worker thread: ReleaseUnneededEPG *)

\* Mutant: the window keeps claiming what was dropped.
NarrowWindow_Forgotten(min, max) == UNCHANGED <<m_iLastStart, m_iLastEnd>>

NarrowWindow(min, max) ==
    /\ m_iLastStart' = MaxOf(m_iLastStart, min)
    /\ m_iLastEnd' = MinOf(m_iLastEnd, max)

\* Limits and guide are copied, Kodi is told of every entry outside the limits;
\* if there is none, the window is narrowed and the job is over.
ReleaseUnneededEPG ==
    /\ pc = "release"
    /\ LET unneeded == Unneeded(m_epg, m_epgMinTime, m_epgMaxTime)
       IN \/ /\ unneeded # {}
             /\ job' = LoadJob(m_epgMinTime, m_epgMaxTime, 0, 0, "release")
             /\ epg' = m_epg
             /\ kodiEpg' = kodiEpg \ unneeded
             /\ pc' = "releasing"
             /\ UNCHANGED <<m_iLastStart, m_iLastEnd>>
          \/ /\ unneeded = {}
             /\ NarrowWindow(m_epgMinTime, m_epgMaxTime)
             /\ job' = NoJob
             /\ pc' = "idle"
             /\ UNCHANGED <<epg, kodiEpg>>
    /\ UNCHANGED <<now, calls, m_channels, m_epg, kodiVars, flags, m_bEGPLoaded,
                   fresh, epg_updated, timer, recorded, covered, clobbered>>

\* Mutant: the reduced copy is not published.
ReleaseStores_NotPublished ==
    /\ pc = "releasing"
    /\ NarrowWindow(job.min, job.max)
    /\ job' = NoJob
    /\ epg' = NoGuide
    /\ pc' = "idle"
    /\ UNCHANGED <<now, calls, m_channels, m_epg, kodiVars, flags, m_bEGPLoaded, fresh,
                   epg_updated, timer, kodiEpg, recorded, covered, clobbered>>

ReleaseStores ==
    /\ pc = "releasing"
    /\ m_epg' = Restrict(epg, DOMAIN epg \ Unneeded(epg, job.min, job.max))
    /\ NarrowWindow(job.min, job.max)
    /\ job' = NoJob
    /\ epg' = NoGuide
    /\ pc' = "idle"
    /\ UNCHANGED <<now, calls, m_channels, kodiVars, flags, m_bEGPLoaded, fresh,
                   epg_updated, timer, kodiEpg, recorded, covered, clobbered>>

-----------------------------------------------------------------------------
(* Data::AddTimer, on a thread of Kodi *)

\* The guide is copied and the event found in it.
AddTimerFinds(h) ==
    /\ timer[h].pc = "ready"
    /\ \E e \in DOMAIN m_epg :
          /\ e[1] \in m_channels
          /\ timer' = [timer EXCEPT ![h] = Locals("call", e, m_epg)]
    /\ UNCHANGED <<now, calls, m_channels, m_epg, kodiVars, flags, windowVars,
                   workerVars, epg_updated, kodiEpg, recorded, covered, clobbered>>

\* The backend records the event, or refuses.
AddTimerCalls(h) ==
    /\ timer[h].pc = "call"
    /\ \/ /\ recorded' = recorded \cup {timer[h].entry}
          /\ timer' = [timer EXCEPT ![h] = Locals("store", timer[h].entry, timer[h].epg)]
       \/ /\ timer' = [timer EXCEPT ![h] = Locals("failed", timer[h].entry, NoGuide)]
          /\ UNCHANGED recorded
    /\ UNCHANGED <<now, calls, m_channels, m_epg, kodiVars, flags, windowVars,
                   workerVars, epg_updated, kodiEpg, covered, clobbered>>

\* The copy with the record id is published and a reload of the recordings requested:
\* two critical sections, between which nothing looks at both.
AddTimerStores(h) ==
    /\ timer[h].pc = "store"
    /\ m_epg' = [timer[h].epg EXCEPT ![timer[h].entry] = TRUE]
    /\ clobbered' = (clobbered \/ m_epg # timer[h].epg)
    /\ m_bLoadRecordings' = TRUE
    /\ timer' = [timer EXCEPT ![h] = Locals("done", timer[h].entry, NoGuide)]
    /\ UNCHANGED <<now, calls, m_channels, kodiVars, m_bLoadPlayList, windowVars, workerVars,
                   epg_updated, kodiEpg, recorded, covered>>

-----------------------------------------------------------------------------
Worker ==
    \/ LoadPlayList
    \/ ReloadPlayList
    \/ LoadRecordings
    \/ RefreshLimits
    \/ LoadEPGJob
    \/ LoadEarlier
    \/ LoadEPGFails
    \/ LoadEPGAnswered
    \/ LoadEPGMerges
    \/ LoadEPGStores
    \/ ReleaseUnneededEPG
    \/ ReleaseStores

Kodi ==
    \/ SetEPGMaxFutureDays
    \/ SetEPGMaxPastDays
    \/ GetEPGForChannel
    \/ PinCheckUnlock
    \/ \E h \in Handlers : AddTimerFinds(h) \/ AddTimerCalls(h) \/ AddTimerStores(h)

Next == Tick \/ Worker \/ TriggerFullRefresh \/ Kodi

Spec == Init /\ [][Next]_vars

\* Process never stops looping, and a backend asked for a guide again and again
\* answers some time.  Nothing is assumed of Kodi, nor that the clock moves.
FairSpec == Spec /\ WF_vars(Worker) /\ SF_vars(LoadEPGAnswered)

-----------------------------------------------------------------------------
(* Properties *)

IsTimer(t) == /\ t = Locals(t.pc, t.entry, t.epg)
              /\ t.pc \in {"ready", "call", "store", "failed", "done"}
              /\ t.pc # "ready" => t.entry \in Entry
              /\ IsGuide(t.epg)
              /\ t.pc \in {"call", "store"} => t.entry \in DOMAIN t.epg

\* Every variable keeps its shape: the guides are functions from programmes,
\* times are integers, the worker is at one of its control points.
TypeOK ==
    /\ now \in Nat /\ calls \in 0..MaxCalls
    /\ m_channels \subseteq Channels /\ covered \subseteq Channels
    /\ IsGuide(m_epg) /\ IsGuide(fresh) /\ IsGuide(epg)
    /\ m_epgMinTime \in Int /\ m_epgMaxTime \in Int
    /\ m_epgMaxFutureDays \in Nat /\ m_epgMaxPastDays \in Nat
    /\ m_bLoadPlayList \in BOOLEAN /\ m_bLoadRecordings \in BOOLEAN
    /\ m_bEGPLoaded \in BOOLEAN /\ m_iLastStart \in Int /\ m_iLastEnd \in Int
    /\ pc \in Labels /\ job \in Job
    /\ epg_updated \in BOOLEAN /\ clobbered \in BOOLEAN
    /\ DOMAIN timer = Handlers /\ \A h \in Handlers : IsTimer(timer[h])
    /\ kodiEpg \subseteq Entry /\ recorded \subseteq Entry

Publishing == pc \in {"store", "releasing"}

\* Kodi's own copy of the guide, built from the created, updated and deleted
\* events of LoadEPG and ReleaseUnneededEPG, holds the programmes of m_epg,
\* except between the events and the publication, whatever AddTimer published
\* in between from an up-to-date copy.
KodiInSync == ~clobbered /\ ~Publishing => kodiEpg = DOMAIN m_epg

Window == m_iLastStart .. m_iLastEnd - 1
Missing(c, t) == <<c, t>> \notin DOMAIN m_epg

LocalDay(t) == (t + UtcDiff(t)) \div Day
ChangeDay(t) == UtcBefore # UtcAfter /\ LocalDay(t) = LocalDay(ChangeTime)

\* LoadEPGJob moves by whole days and ReleaseUnneededEPG narrows the window to a
\* limit inside a day, so the window may claim programmes no load has brought.
\* Such a hole never goes over a midnight: the last programme of each local day in
\* the window is in the guide.  The day of the change is left to HolesAreShort.
HolesEndInTheirDay ==
    ~clobbered /\ ~Publishing =>
        \A c \in covered, t \in Window :
            LocalDay(t + 1) # LocalDay(t) /\ ~ChangeDay(t) => ~Missing(c, t)

\* A hole is shorter than a day or, where it begins on the day of the change and
\* DayStart takes the offset of the wrong side, than two.
HolesAreShort ==
    ~clobbered /\ ~Publishing =>
        \A c \in covered, t \in Window :
            LET length == IF ChangeDay(t) THEN 2 * Day ELSE Day
            IN  t + length - 1 \in Window => \E u \in t .. t + length - 1 : ~Missing(c, u)

\* Once there is a window, the backend is asked only for spans that reach beyond
\* it: on the way to Kodi's limits each answer widens the window, wherever the
\* limits have cut it and whatever the clocks do, and LoadEPG's return for a span
\* that lies in the window is never taken.
LoadsAskForMore ==
    pc = "fetch" /\ m_iLastEnd # 0 =>
        job.start < m_iLastStart \/ m_iLastEnd < job.start + job.step

\* When LoadEPGJob finds nothing more to load, all of the window it takes for
\* loaded is: ReleaseUnneededEPG calls m_iLastStart and m_iLastEnd "the loaded
\* time info".
WindowLoaded ==
    ~clobbered /\ pc = "idle" /\ ~epg_updated =>
        \A c \in covered, t \in Window : ~Missing(c, t)

\* The record id AddTimer puts into the guide stays there as long as the programme.
RecordIdKept ==
    \A h \in Handlers : timer[h].pc = "done" =>
        LET e == timer[h].entry IN e \in DOMAIN m_epg => m_epg[e]

\* When Kodi asks for nothing more, the loaded window comes to span the limits
\* Kodi has set, on both sides, though loads may fail in between ...
EventuallyLoaded == <>[](m_iLastStart <= m_epgMinTime /\ m_epgMaxTime <= m_iLastEnd)

\* ... and the guide holds nothing outside of them, even if AddTimer has put
\* back what ReleaseUnneededEPG had dropped.
EventuallyReleased == <>[](Unneeded(m_epg, m_epgMinTime, m_epgMaxTime) = {})
=============================================================================
