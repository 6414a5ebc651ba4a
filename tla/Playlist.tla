------------------------------ MODULE Playlist ------------------------------
(***************************************************************************)
(* The session, the playlist and the PIN of sledovanitvcz::Data, from the  *)
(* start of the worker thread to its join in the destructor.               *)
(*                                                                         *)
(* The worker (Process) logs in, registers DRM and then loops over its     *)
(* jobs; a failed keep-alive makes it log in again, into a new session.    *)
(* Threads of Kodi meanwhile list the channels (GetChannels) and ask for   *)
(* stream properties (GetChannelStreamProperties), which may make the user *)
(* unlock the session with a PIN and then waits for a reloaded playlist.   *)
(*                                                                         *)
(* Abstractions.  The playlist lists one channel behind the PIN, a DRM     *)
(* stream in an adaptive format; a playlist is what it says of it: "locked"*)
(* or "open", and "none" before the first load.  The programme guide and   *)
(* the recordings are left to other modules; of the recordings only their  *)
(* reload flag is here.  A rate limiter (CallLimiter) lets its job run or  *)
(* not, at any round.  Delays are steps not yet taken.  What Kodi is told  *)
(* of the connection state is left out.                                    *)
(***************************************************************************)
EXTENDS Naturals

CONSTANTS
    Handlers,      \* the Kodi threads in GetChannelStreamProperties, one call each
    Listers,       \* the Kodi threads that may call GetChannels
    MaxSessions    \* bound: sessions the backend hands out

ASSUME PlaylistAssumption == MaxSessions \in Nat \ {0}

VARIABLES
    \* guarded by m_mutex
    m_bKeepAlive,
    m_bLoadPlayList,     \* a load of the playlist is requested
    m_bLoadRecordings,   \* a load of the recordings is requested
    m_bChannelsLoaded,   \* what WaitForChannels waits for
    m_channels,
    m_drmCertificate,    \* whether registerDrm has stored one
    \* ApiManager, shared without a lock
    m_sessionId,         \* 0 is the empty string
    m_pinUnlocked,
    \* the worker
    pc,
    after,               \* where it goes on after LoadPlayList
    root,                \* the playlist getPlaylist has returned
    \* Kodi
    at,                  \* where each GetChannelStreamProperties call is
    local,               \* its locals
    pinSession,          \* the session its PIN has unlocked
    updateTriggered,     \* TriggerChannelUpdate not yet followed by a GetChannels
    kodiChannels,        \* the channels as Kodi last got them
    listing,             \* the threads in GetChannels
    \* the backend
    sessions,            \* sessions handed out so far
    unlocked,            \* those a PIN has unlocked
    \* history
    load_failed,         \* the last LoadPlayList gave up
    pinCrossed           \* pinUnlock answered for another session than the current one

flags       == <<m_bLoadPlayList, m_bLoadRecordings, m_bChannelsLoaded>>
apiVars     == <<m_sessionId, m_pinUnlocked, pinCrossed>>
workerVars  == <<pc, after, root>>
callVars    == <<at, local, pinSession>>
kodiVars    == <<updateTriggered, kodiChannels, listing>>
backendVars == <<sessions, unlocked>>
vars == <<m_bKeepAlive, flags, m_channels, m_drmCertificate, apiVars, workerVars,
          callVars, kodiVars, backendVars, load_failed>>

-----------------------------------------------------------------------------
(* Values *)

Sessions  == 1..MaxSessions
Playlists == {"none", "locked", "open"}
Garbage   == "garbage"      \* what a dangling iterator may point at

WorkerLabels == {"login", "loginCall", "registerDrm", "loop", "playlist", "load", "publish",
                 "recordings", "refresh", "keepalive", "stopped"}
HandlerLabels == {"ready", "check", "dialog", "accepted", "reload", "wait", "unlocked",
                  "reget", "url", "stream", "failed", "done"}

\* channel_i points into a container that only m_channels keeps alive: dangling
\* tells whether it has been replaced since.  stale is history: when the reload
\* was requested, a playlist from before the unlocking was about to be published.
Local == [channel_i : Playlists, dangling : BOOLEAN, unlocked_now : BOOLEAN,
          timed_out : BOOLEAN, stale : BOOLEAN, url : Playlists \cup {Garbage}]
NoLocal == [channel_i |-> "none", dangling |-> FALSE, unlocked_now |-> FALSE,
            timed_out |-> FALSE, stale |-> FALSE, url |-> "none"]

Ended == {"ready", "failed", "done"}

\* What reading through the iterator of h may give.
Read(h) == IF local[h].dangling THEN {"locked", "open", Garbage} ELSE {local[h].channel_i}

\* The playlist the backend answers with in the current session.
Answer == IF m_sessionId \in unlocked THEN "open" ELSE "locked"

Init ==
    /\ m_bKeepAlive = TRUE
    /\ m_bLoadPlayList = TRUE
    /\ m_bLoadRecordings = TRUE
    /\ m_bChannelsLoaded = FALSE
    /\ m_channels = "none"
    /\ m_drmCertificate = FALSE
    /\ m_sessionId = 0
    /\ m_pinUnlocked = FALSE
    /\ pc = "login"
    /\ after = "recordings"
    /\ root = "none"
    /\ at = [h \in Handlers |-> "ready"]
    /\ local = [h \in Handlers |-> NoLocal]
    /\ pinSession = [h \in Handlers |-> 0]
    /\ updateTriggered = FALSE
    /\ kodiChannels = "none"
    /\ listing = {}
    /\ sessions = 0
    /\ unlocked = {}
    /\ load_failed = FALSE
    /\ pinCrossed = FALSE

-----------------------------------------------------------------------------
(* The worker: LoginLoop *)

\* Mutant: the PIN of the old session is taken for the new one's.
LoginBegins_PinKept ==
    /\ pc = "login"
    /\ m_bKeepAlive
    /\ pc' = "loginCall"
    /\ UNCHANGED <<m_bKeepAlive, flags, m_channels, m_drmCertificate, apiVars, after, root,
                   callVars, kodiVars, backendVars, load_failed>>

\* A round of LoginLoop: login() first forgets that the PIN was entered.
LoginBegins ==
    /\ pc = "login"
    /\ m_bKeepAlive
    /\ m_pinUnlocked' = FALSE
    /\ pinCrossed' = FALSE
    /\ pc' = "loginCall"
    /\ UNCHANGED <<m_bKeepAlive, flags, m_channels, m_drmCertificate, m_sessionId, after, root,
                   callVars, kodiVars, backendVars, load_failed>>

LoginAbandoned ==
    /\ pc = "login"
    /\ ~m_bKeepAlive
    /\ pc' = "loop"
    /\ UNCHANGED <<m_bKeepAlive, flags, m_channels, m_drmCertificate, apiVars, after, root,
                   callVars, kodiVars, backendVars, load_failed>>

\* The device is logged in: a new session.
LoginSucceeds ==
    /\ pc = "loginCall"
    /\ sessions < MaxSessions
    /\ sessions' = sessions + 1
    /\ m_sessionId' = sessions'
    /\ pc' = "registerDrm"
    /\ UNCHANGED <<m_bKeepAlive, flags, m_channels, m_drmCertificate, m_pinUnlocked, after, root,
                   callVars, kodiVars, unlocked, load_failed, pinCrossed>>

\* The device is rejected: no session any more.  Or there is no answer, or no
\* pairing: the session stays as it is.  Either way LoginLoop goes round.
LoginFails ==
    /\ pc = "loginCall"
    /\ m_sessionId' \in {0, m_sessionId}
    /\ pc' = "login"
    /\ UNCHANGED <<m_bKeepAlive, flags, m_channels, m_drmCertificate, m_pinUnlocked, after, root,
                   callVars, kodiVars, backendVars, load_failed, pinCrossed>>

\* Mutant: nothing is stored when the registration fails.
RegisterDrm_OnlyOnSuccess ==
    /\ pc = "registerDrm"
    /\ m_drmCertificate' \in {m_drmCertificate, TRUE}
    /\ pc' = "loop"
    /\ UNCHANGED <<m_bKeepAlive, flags, m_channels, apiVars, after, root, callVars,
                   kodiVars, backendVars, load_failed>>

\* A certificate is stored whether the registration succeeds or not.
RegisterDrm ==
    /\ pc = "registerDrm"
    /\ m_drmCertificate' = TRUE
    /\ pc' = "loop"
    /\ UNCHANGED <<m_bKeepAlive, flags, m_channels, apiVars, after, root, callVars,
                   kodiVars, backendVars, load_failed>>

-----------------------------------------------------------------------------
(* The worker: the rounds of Process *)

\* Mutant: the rounds do not look at m_bKeepAlive.
Loop_Forever ==
    /\ pc = "loop"
    /\ pc' = "playlist"
    /\ UNCHANGED <<m_bKeepAlive, flags, m_channels, m_drmCertificate, apiVars, after, root,
                   callVars, kodiVars, backendVars, load_failed>>

Loop ==
    /\ pc = "loop"
    /\ pc' = IF m_bKeepAlive THEN "playlist" ELSE "stopped"
    /\ UNCHANGED <<m_bKeepAlive, flags, m_channels, m_drmCertificate, apiVars, after, root,
                   callVars, kodiVars, backendVars, load_failed>>

\* Mutant: a request is taken, but only the first one loads.
PlaylistJob_OnlyFirst ==
    /\ pc = "playlist"
    /\ \/ /\ m_bKeepAlive /\ m_bLoadPlayList
          /\ m_bLoadPlayList' = FALSE
          /\ pc' = IF m_channels = "none" THEN "load" ELSE "recordings"
          /\ after' = "recordings"
       \/ /\ ~(m_bKeepAlive /\ m_bLoadPlayList)
          /\ pc' = "recordings"
          /\ UNCHANGED <<m_bLoadPlayList, after>>
    /\ UNCHANGED <<m_bKeepAlive, m_bLoadRecordings, m_bChannelsLoaded, m_channels,
                   m_drmCertificate, apiVars, root, callVars, kodiVars, backendVars, load_failed>>

\* SimpleLoadJob(m_bLoadPlayList): the flag falls before the load begins.
PlaylistJob ==
    /\ pc = "playlist"
    /\ \/ /\ m_bKeepAlive /\ m_bLoadPlayList
          /\ m_bLoadPlayList' = FALSE
          /\ pc' = "load"
          /\ after' = "recordings"
       \/ /\ ~(m_bKeepAlive /\ m_bLoadPlayList)
          /\ pc' = "recordings"
          /\ UNCHANGED <<m_bLoadPlayList, after>>
    /\ UNCHANGED <<m_bKeepAlive, m_bLoadRecordings, m_bChannelsLoaded, m_channels,
                   m_drmCertificate, apiVars, root, callVars, kodiVars, backendVars, load_failed>>

RecordingsJob ==
    /\ pc = "recordings"
    /\ m_bLoadRecordings' = (m_bLoadRecordings /\ ~m_bKeepAlive)
    /\ pc' = "refresh"
    /\ UNCHANGED <<m_bKeepAlive, m_bLoadPlayList, m_bChannelsLoaded, m_channels,
                   m_drmCertificate, apiVars, after, root, callVars, kodiVars, backendVars,
                   load_failed>>

\* trigger_full_refresh is due: TriggerFullRefresh ends in LoadPlayList.
FullRefresh ==
    /\ pc = "refresh"
    /\ pc' = "load"
    /\ after' = "keepalive"
    /\ UNCHANGED <<m_bKeepAlive, flags, m_channels, m_drmCertificate, apiVars, root, callVars,
                   kodiVars, backendVars, load_failed>>

NoFullRefresh ==
    /\ pc = "refresh"
    /\ pc' = "keepalive"
    /\ UNCHANGED <<m_bKeepAlive, flags, m_channels, m_drmCertificate, apiVars, after, root,
                   callVars, kodiVars, backendVars, load_failed>>

\* keep_alive_job is not due, or the backend confirms the session ...
KeepAliveHolds ==
    /\ pc = "keepalive"
    /\ pc' = "loop"
    /\ UNCHANGED <<m_bKeepAlive, flags, m_channels, m_drmCertificate, apiVars, after, root,
                   callVars, kodiVars, backendVars, load_failed>>

\* ... or it does not, and the worker logs in again.
KeepAliveFails ==
    /\ pc = "keepalive"
    /\ m_bKeepAlive
    /\ sessions < MaxSessions
    /\ pc' = "login"
    /\ UNCHANGED <<m_bKeepAlive, flags, m_channels, m_drmCertificate, apiVars, after, root,
                   callVars, kodiVars, backendVars, load_failed>>

-----------------------------------------------------------------------------
(* The worker: LoadPlayList *)

\* No playlist: the add-on is shutting down, or getPlaylist fails, as it does
\* without asking when there is no session.
LoadPlayListFails ==
    /\ pc = "load"
    /\ load_failed' = TRUE
    /\ pc' = after
    /\ UNCHANGED <<m_bKeepAlive, flags, m_channels, m_drmCertificate, apiVars, after, root,
                   callVars, kodiVars, backendVars>>

LoadPlayListAnswered ==
    /\ pc = "load"
    /\ m_bKeepAlive
    /\ m_sessionId # 0
    /\ root' = Answer
    /\ pc' = "publish"
    /\ UNCHANGED <<m_bKeepAlive, flags, m_channels, m_drmCertificate, apiVars, after, callVars,
                   kodiVars, backendVars, load_failed>>

\* Mutant: Kodi is triggered by the first playlist only.
LoadPlayListPublishes_TriggerOnce ==
    /\ pc = "publish"
    /\ m_channels' = root
    /\ m_bChannelsLoaded' = TRUE
    /\ updateTriggered' = (updateTriggered \/ m_channels = "none")
    /\ local' = [h \in Handlers |-> [local[h] EXCEPT !.dangling = at[h] \notin Ended]]
    /\ root' = "none"
    /\ load_failed' = FALSE
    /\ pc' = after
    /\ UNCHANGED <<m_bKeepAlive, m_bLoadPlayList, m_bLoadRecordings, m_drmCertificate, apiVars,
                   after, at, pinSession, kodiChannels, listing, backendVars>>

\* Mutant: the request is taken back when the load is done, with what has come since.
LoadPlayListPublishes_FlagAfter ==
    /\ pc = "publish"
    /\ m_channels' = root
    /\ m_bChannelsLoaded' = TRUE
    /\ m_bLoadPlayList' = FALSE
    /\ updateTriggered' = TRUE
    /\ local' = [h \in Handlers |-> [local[h] EXCEPT !.dangling = at[h] \notin Ended]]
    /\ root' = "none"
    /\ load_failed' = FALSE
    /\ pc' = after
    /\ UNCHANGED <<m_bKeepAlive, m_bLoadRecordings, m_drmCertificate, apiVars, after, at,
                   pinSession, kodiChannels, listing, backendVars>>

\* The new channels replace the old ones, waiters are notified and Kodi is triggered,
\* the last two outside of the lock: whoever comes between finds the new channels, the
\* trigger still to come (module Lineup takes the triggers apart).
\* Iterators into the old channels have nothing to point at any more.
LoadPlayListPublishes ==
    /\ pc = "publish"
    /\ m_channels' = root
    /\ m_bChannelsLoaded' = TRUE
    /\ updateTriggered' = TRUE
    /\ local' = [h \in Handlers |-> [local[h] EXCEPT !.dangling = at[h] \notin Ended]]
    /\ root' = "none"
    /\ load_failed' = FALSE
    /\ pc' = after
    /\ UNCHANGED <<m_bKeepAlive, m_bLoadPlayList, m_bLoadRecordings, m_drmCertificate, apiVars,
                   after, at, pinSession, kodiChannels, listing, backendVars>>

-----------------------------------------------------------------------------
(* Kodi: GetChannels, and the destructor *)

\* Kodi reacts to TriggerChannelUpdate by calling GetChannels ...
ListChannels(l) ==
    /\ m_bKeepAlive
    /\ updateTriggered
    /\ l \notin listing
    /\ updateTriggered' = FALSE
    /\ listing' = listing \cup {l}
    /\ UNCHANGED <<m_bKeepAlive, flags, m_channels, m_drmCertificate, apiVars, workerVars,
                   callVars, kodiChannels, backendVars, load_failed>>

\* ... which returns the channels of the moment, waited for or not.
GetChannels(l) ==
    /\ l \in listing
    /\ listing' = listing \ {l}
    /\ kodiChannels' = m_channels
    /\ UNCHANGED <<m_bKeepAlive, flags, m_channels, m_drmCertificate, apiVars, workerVars,
                   callVars, updateTriggered, backendVars, load_failed>>

\* ~Data, once no call of Kodi is under way; it then joins the worker.
Destruct ==
    /\ m_bKeepAlive
    /\ listing = {}
    /\ \A h \in Handlers : at[h] \in Ended
    /\ m_bKeepAlive' = FALSE
    /\ UNCHANGED <<flags, m_channels, m_drmCertificate, apiVars, workerVars, callVars, kodiVars,
                   backendVars, load_failed>>

-----------------------------------------------------------------------------
(* Kodi: GetChannelStreamProperties on a thread of its own *)

\* The call of h goes on at to, with what changes of its locals.
Goto(h, to, locals) ==
    /\ at' = [at EXCEPT ![h] = to]
    /\ local' = [local EXCEPT ![h] = IF to \in Ended THEN NoLocal ELSE locals]
    /\ UNCHANGED <<m_bKeepAlive, m_channels, m_drmCertificate, workerVars, kodiVars, load_failed>>

\* An iterator that points into the published channels.
Valid(r) == [r EXCEPT !.dangling = FALSE]

\* chan_getter, first time and again.
FindChannel(h, found) ==
    /\ \/ /\ m_channels = "none"
          /\ Goto(h, "failed", NoLocal)
       \/ /\ m_channels # "none"
          /\ Goto(h, found, [Valid(local[h]) EXCEPT !.channel_i = m_channels])
    /\ UNCHANGED <<flags, apiVars, backendVars, pinSession>>

GetChannelStreamUrl(h) ==
    /\ m_bKeepAlive
    /\ at[h] = "ready"
    /\ FindChannel(h, "check")

\* PinCheckUnlock on channel_i->bIsPinLocked.
PinCheckUnlock(h) ==
    /\ at[h] = "check"
    /\ \E seen \in Read(h) :
          Goto(h, IF seen = "open" THEN "url" ELSE IF m_pinUnlocked THEN "unlocked" ELSE "dialog",
               local[h])
    /\ UNCHANGED <<flags, apiVars, backendVars, pinSession>>

\* Mutant: a call without a session reaches the backend.
PinEnteringFails_NoSession(h) ==
    /\ at[h] = "dialog"
    /\ Goto(h, "failed", NoLocal)
    /\ unlocked' \in {unlocked, unlocked \cup {m_sessionId}}
    /\ UNCHANGED <<flags, apiVars, sessions, pinSession>>

\* The user cancels, or the PIN is refused, or its acceptance is not heard of.
PinEnteringFails(h) ==
    /\ at[h] = "dialog"
    /\ Goto(h, "failed", NoLocal)
    /\ unlocked' \in {unlocked, unlocked \cup ({m_sessionId} \ {0})}
    /\ UNCHANGED <<flags, apiVars, sessions, pinSession>>

\* The backend unlocks the session of the call ...
PinEntered(h) ==
    /\ at[h] = "dialog"
    /\ m_sessionId # 0
    /\ unlocked' = unlocked \cup {m_sessionId}
    /\ pinSession' = [pinSession EXCEPT ![h] = m_sessionId]
    /\ Goto(h, "accepted", local[h])
    /\ UNCHANGED <<flags, apiVars, sessions>>

\* ... and pinUnlock notes it, for whatever session is current by then.
PinUnlock(h) ==
    /\ at[h] = "accepted"
    /\ m_pinUnlocked' = TRUE
    /\ pinCrossed' = (pinCrossed \/ pc = "loginCall" \/ pinSession[h] # m_sessionId)
    /\ Goto(h, "reload", [local[h] EXCEPT !.unlocked_now = TRUE])
    /\ UNCHANGED <<flags, m_sessionId, backendVars, pinSession>>

\* Mutant: the channels of before still count as loaded.
SetLoadPlaylist_StillLoaded(h) ==
    /\ at[h] = "reload"
    /\ m_bLoadPlayList' = TRUE
    /\ Goto(h, "wait", [local[h] EXCEPT !.stale = (root = "locked")])
    /\ UNCHANGED <<m_bLoadRecordings, m_bChannelsLoaded, apiVars, backendVars, pinSession>>

SetLoadPlaylist(h) ==
    /\ at[h] = "reload"
    /\ m_bLoadPlayList' = TRUE
    /\ m_bChannelsLoaded' = FALSE
    /\ Goto(h, "wait", [local[h] EXCEPT !.stale = (root = "locked")])
    /\ UNCHANGED <<m_bLoadRecordings, apiVars, backendVars, pinSession>>

\* WaitForChannels: m_bChannelsLoaded, or five seconds; the result is not looked at.
WaitForChannels(h) ==
    /\ at[h] = "wait"
    /\ Goto(h, "unlocked", [local[h] EXCEPT !.timed_out = ~m_bChannelsLoaded])
    /\ UNCHANGED <<flags, apiVars, backendVars, pinSession>>

SetLoadRecordings(h) ==
    /\ at[h] = "unlocked"
    /\ m_bLoadRecordings' = TRUE
    /\ Goto(h, IF local[h].unlocked_now THEN "reget" ELSE "url", local[h])
    /\ UNCHANGED <<m_bLoadPlayList, m_bChannelsLoaded, apiVars, backendVars, pinSession>>

Reget(h) ==
    /\ at[h] = "reget"
    /\ FindChannel(h, "url")

ReadUrl(h) ==
    /\ at[h] = "url"
    /\ \E seen \in Read(h) : Goto(h, "stream", [local[h] EXCEPT !.url = seen])
    /\ UNCHANGED <<flags, apiVars, backendVars, pinSession>>

\* StreamProperties dereferences m_drmCertificate.
StreamProperties(h) ==
    /\ at[h] = "stream"
    /\ Goto(h, "done", NoLocal)
    /\ UNCHANGED <<flags, apiVars, backendVars, pinSession>>

-----------------------------------------------------------------------------
Login == LoginBegins \/ LoginAbandoned \/ LoginSucceeds \/ LoginFails \/ RegisterDrm

Worker ==
    \/ Login
    \/ Loop
    \/ PlaylistJob
    \/ RecordingsJob
    \/ FullRefresh
    \/ NoFullRefresh
    \/ KeepAliveHolds
    \/ KeepAliveFails
    \/ LoadPlayListFails
    \/ LoadPlayListAnswered
    \/ LoadPlayListPublishes

Call(h) ==
    \/ GetChannelStreamUrl(h)
    \/ PinCheckUnlock(h)
    \/ PinEnteringFails(h)
    \/ PinEntered(h)
    \/ PinUnlock(h)
    \/ SetLoadPlaylist(h)
    \/ WaitForChannels(h)
    \/ SetLoadRecordings(h)
    \/ Reget(h)
    \/ ReadUrl(h)
    \/ StreamProperties(h)

List(l) == ListChannels(l) \/ GetChannels(l)

Kodi == (\E l \in Listers : List(l)) \/ Destruct \/ \E h \in Handlers : Call(h)

\* The process ends when the worker has stopped.
Terminated == pc = "stopped" /\ UNCHANGED vars

Next == Worker \/ Kodi \/ Terminated

Spec == Init /\ [][Next]_vars

\* The worker is never stuck in a call for good and its rounds come round to a
\* full refresh; Kodi follows a channel update; a backend that is asked again
\* and again logs the device in and answers with a playlist some time.
FairSpec ==
    /\ Spec
    /\ WF_vars(Worker)
    /\ SF_vars(FullRefresh)
    /\ SF_vars(LoginSucceeds)
    /\ SF_vars(LoadPlayListAnswered)
    /\ \A l \in Listers : WF_vars(List(l))

-----------------------------------------------------------------------------
(* Properties *)

\* Every variable keeps its shape and every thread is at one of its places.
TypeOK ==
    /\ m_bKeepAlive \in BOOLEAN /\ m_bLoadPlayList \in BOOLEAN
    /\ m_bLoadRecordings \in BOOLEAN /\ m_bChannelsLoaded \in BOOLEAN
    /\ m_drmCertificate \in BOOLEAN /\ m_pinUnlocked \in BOOLEAN
    /\ updateTriggered \in BOOLEAN /\ load_failed \in BOOLEAN /\ pinCrossed \in BOOLEAN
    /\ listing \subseteq Listers
    /\ m_channels \in Playlists /\ root \in Playlists /\ kodiChannels \in Playlists
    /\ m_sessionId \in 0..MaxSessions /\ sessions \in 0..MaxSessions
    /\ unlocked \subseteq Sessions
    /\ pc \in WorkerLabels /\ after \in {"recordings", "keepalive"}
    /\ at \in [Handlers -> HandlerLabels]
    /\ local \in [Handlers -> Local]
    /\ pinSession \in [Handlers -> 0..MaxSessions]

\* StreamProperties never dereferences a missing certificate: there is no
\* channel to play before registerDrm has stored one, in whatever way the login
\* went, and no login takes it away.
DrmReady == \A h \in Handlers : at[h] = "stream" => m_drmCertificate

\* A requested playlist is not forgotten: while m_bChannelsLoaded is down, the
\* request stands, or a load is under way, or the last load has failed.
ReloadNotLost ==
    ~m_bChannelsLoaded => m_bLoadPlayList \/ pc \in {"load", "publish"} \/ load_failed

\* m_pinUnlocked is about the current session: the backend has unlocked that,
\* unless the PIN was answered across a login.
PinFlagTruthful == m_pinUnlocked /\ ~pinCrossed => m_sessionId \in unlocked

\* The channel read again after the PIN was accepted is the unlocked one, if
\* the wait was for a load asked for after the unlocking, did not time out and
\* no login came in between.
RegetUnlocked ==
    \A h \in Handlers :
        /\ at[h] = "url" /\ local[h].unlocked_now
        /\ ~local[h].timed_out /\ ~local[h].stale /\ ~local[h].dangling
        /\ pinSession[h] = m_sessionId
        => local[h].channel_i = "open"

\* When WaitForChannels has not timed out, "reget the data" gets the data the
\* unlocking has made available.
RegetFresh ==
    \A h \in Handlers :
        /\ at[h] = "url" /\ local[h].unlocked_now
        /\ ~local[h].timed_out /\ ~local[h].dangling
        /\ pinSession[h] = m_sessionId
        => local[h].channel_i = "open"

\* The channels as a mirrored list: what the backend answers with, the load, the
\* published channels and Kodi's.
ChannelList == INSTANCE Mirror WITH
    Lists     <- Playlists,
    Empty     <- "none",
    source    <- Answer,
    requested <- m_bLoadPlayList,
    loading   <- CASE pc = "load" -> "asked" [] pc = "publish" -> "answered" [] OTHER -> "no",
    taken     <- root,
    published <- m_channels,
    announced <- updateTriggered \/ listing # {},
    shown     <- kodiChannels

\* Whatever logins, PINs and requests come in between, the channels are mirrored:
\* each load publishes what it was answered with, whole and announced, and uses
\* up a request only as it begins.
ChannelsMirrored == ChannelList!Spec

\* The join in the destructor returns, wherever the worker was.
WorkerStops == ~m_bKeepAlive ~> pc = "stopped"

\* Unless the add-on is shut down, Kodi's list comes to be the published one and
\* stays so: each publication is followed by a trigger, and each trigger by a
\* GetChannels that reads no older list.
KodiListsChannels ==
    <>(~m_bKeepAlive) \/ <>[](kodiChannels = m_channels /\ m_channels # "none")
=============================================================================
