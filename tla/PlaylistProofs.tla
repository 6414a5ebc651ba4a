--------------------------- MODULE PlaylistProofs ---------------------------
(***************************************************************************)
(* Theorems about Playlist, for any number of threads and sessions.        *)
(***************************************************************************)
EXTENDS Playlist, TLAPS

-----------------------------------------------------------------------------
(* Types *)

\* A record of locals by its fields, and each of its fields replaced.
Locals(c, d, n, t, s, u) ==
    [channel_i |-> c, dangling |-> d, unlocked_now |-> n, timed_out |-> t, stale |-> s, url |-> u]

LEMMA LocalsAre ==
    ASSUME NEW r \in Local
    PROVE  r = Locals(r.channel_i, r.dangling, r.unlocked_now, r.timed_out, r.stale, r.url)
  BY DEF Local, Locals

LEMMA LocalsReplaced ==
    ASSUME NEW r \in Local, NEW v
    PROVE  /\ [r EXCEPT !.channel_i = v]
                = Locals(v, r.dangling, r.unlocked_now, r.timed_out, r.stale, r.url)
           /\ [r EXCEPT !.dangling = v]
                = Locals(r.channel_i, v, r.unlocked_now, r.timed_out, r.stale, r.url)
           /\ [r EXCEPT !.unlocked_now = v]
                = Locals(r.channel_i, r.dangling, v, r.timed_out, r.stale, r.url)
           /\ [r EXCEPT !.timed_out = v]
                = Locals(r.channel_i, r.dangling, r.unlocked_now, v, r.stale, r.url)
           /\ [r EXCEPT !.stale = v]
                = Locals(r.channel_i, r.dangling, r.unlocked_now, r.timed_out, v, r.url)
           /\ [r EXCEPT !.url = v]
                = Locals(r.channel_i, r.dangling, r.unlocked_now, r.timed_out, r.stale, v)
  BY DEF Local, Locals

LEMMA LocalsTyped ==
    ASSUME NEW c \in Playlists, NEW d \in BOOLEAN, NEW n \in BOOLEAN, NEW t \in BOOLEAN,
           NEW s \in BOOLEAN, NEW u \in Playlists \cup {Garbage}
    PROVE  Locals(c, d, n, t, s, u) \in Local
  BY DEF Locals, Local

LEMMA LocalsFields ==
    ASSUME NEW c, NEW d, NEW n, NEW t, NEW s, NEW u
    PROVE  /\ Locals(c, d, n, t, s, u).channel_i = c
           /\ Locals(c, d, n, t, s, u).dangling = d
           /\ Locals(c, d, n, t, s, u).unlocked_now = n
           /\ Locals(c, d, n, t, s, u).timed_out = t
           /\ Locals(c, d, n, t, s, u).stale = s
           /\ Locals(c, d, n, t, s, u).url = u
  BY DEF Locals

LEMMA FieldsTyped ==
    ASSUME NEW r \in Local
    PROVE  /\ r.channel_i \in Playlists /\ r.url \in Playlists \cup {Garbage}
           /\ r.dangling \in BOOLEAN /\ r.unlocked_now \in BOOLEAN
           /\ r.timed_out \in BOOLEAN /\ r.stale \in BOOLEAN
  BY DEF Local

LEMMA ReplacedTyped ==
    ASSUME NEW r \in Local
    PROVE  /\ \A v \in Playlists : [r EXCEPT !.channel_i = v] \in Local
           /\ \A v \in BOOLEAN : [r EXCEPT !.dangling = v] \in Local
           /\ \A v \in BOOLEAN : [r EXCEPT !.unlocked_now = v] \in Local
           /\ \A v \in BOOLEAN : [r EXCEPT !.timed_out = v] \in Local
           /\ \A v \in BOOLEAN : [r EXCEPT !.stale = v] \in Local
           /\ \A v \in Playlists \cup {Garbage} : [r EXCEPT !.url = v] \in Local
<1>1. /\ r.channel_i \in Playlists /\ r.url \in Playlists \cup {Garbage}
      /\ r.dangling \in BOOLEAN /\ r.unlocked_now \in BOOLEAN
      /\ r.timed_out \in BOOLEAN /\ r.stale \in BOOLEAN
  BY FieldsTyped
<1>2. ASSUME NEW v \in Playlists PROVE [r EXCEPT !.channel_i = v] \in Local
  <2>1. [r EXCEPT !.channel_i = v] = Locals(v, r.dangling, r.unlocked_now, r.timed_out, r.stale, r.url)
    BY LocalsReplaced
  <2>2. Locals(v, r.dangling, r.unlocked_now, r.timed_out, r.stale, r.url) \in Local
    BY <1>1, LocalsTyped
  <2> QED
    BY <2>1, <2>2
<1>3. ASSUME NEW v \in BOOLEAN PROVE [r EXCEPT !.dangling = v] \in Local
  <2>1. [r EXCEPT !.dangling = v] = Locals(r.channel_i, v, r.unlocked_now, r.timed_out, r.stale, r.url)
    BY LocalsReplaced
  <2>2. Locals(r.channel_i, v, r.unlocked_now, r.timed_out, r.stale, r.url) \in Local
    BY <1>1, LocalsTyped
  <2> QED
    BY <2>1, <2>2
<1>4. ASSUME NEW v \in BOOLEAN PROVE [r EXCEPT !.unlocked_now = v] \in Local
  <2>1. [r EXCEPT !.unlocked_now = v] = Locals(r.channel_i, r.dangling, v, r.timed_out, r.stale, r.url)
    BY LocalsReplaced
  <2>2. Locals(r.channel_i, r.dangling, v, r.timed_out, r.stale, r.url) \in Local
    BY <1>1, LocalsTyped
  <2> QED
    BY <2>1, <2>2
<1>5. ASSUME NEW v \in BOOLEAN PROVE [r EXCEPT !.timed_out = v] \in Local
  <2>1. [r EXCEPT !.timed_out = v] = Locals(r.channel_i, r.dangling, r.unlocked_now, v, r.stale, r.url)
    BY LocalsReplaced
  <2>2. Locals(r.channel_i, r.dangling, r.unlocked_now, v, r.stale, r.url) \in Local
    BY <1>1, LocalsTyped
  <2> QED
    BY <2>1, <2>2
<1>6. ASSUME NEW v \in BOOLEAN PROVE [r EXCEPT !.stale = v] \in Local
  <2>1. [r EXCEPT !.stale = v] = Locals(r.channel_i, r.dangling, r.unlocked_now, r.timed_out, v, r.url)
    BY LocalsReplaced
  <2>2. Locals(r.channel_i, r.dangling, r.unlocked_now, r.timed_out, v, r.url) \in Local
    BY <1>1, LocalsTyped
  <2> QED
    BY <2>1, <2>2
<1>7. ASSUME NEW v \in Playlists \cup {Garbage} PROVE [r EXCEPT !.url = v] \in Local
  <2>1. [r EXCEPT !.url = v] = Locals(r.channel_i, r.dangling, r.unlocked_now, r.timed_out, r.stale, v)
    BY LocalsReplaced
  <2>2. Locals(r.channel_i, r.dangling, r.unlocked_now, r.timed_out, r.stale, v) \in Local
    BY <1>1, LocalsTyped
  <2> QED
    BY <2>1, <2>2
<1> QED
  BY <1>2, <1>3, <1>4, <1>5, <1>6, <1>7

LEMMA NoLocalTyped == NoLocal \in Local
  BY DEF NoLocal, Local, Playlists

LEMMA ReadTyped ==
    ASSUME TypeOK, NEW h \in Handlers, NEW seen \in Read(h)
    PROVE  seen \in Playlists \cup {Garbage}
<1>1. local[h] \in Local
  BY DEF TypeOK
<1> QED
  BY <1>1, FieldsTyped DEF Read, Playlists

\* What the calls of Kodi change, and what they leave alone.
LEMMA GotoTyped ==
    ASSUME TypeOK, NEW h \in Handlers, NEW to \in HandlerLabels, NEW locals \in Local,
           Goto(h, to, locals)
    PROVE  /\ at' \in [Handlers -> HandlerLabels]
           /\ local' \in [Handlers -> Local]
           /\ UNCHANGED <<m_bKeepAlive, m_channels, m_drmCertificate, pc, after, root,
                          updateTriggered, kodiChannels, listing, load_failed>>
<1>1. (IF to \in Ended THEN NoLocal ELSE locals) \in Local
  BY NoLocalTyped
<1> QED
  BY <1>1 DEF Goto, TypeOK, workerVars, kodiVars

\* What a call may change besides its place and its locals.
CallTypes ==
    /\ m_bLoadPlayList \in BOOLEAN /\ m_bLoadRecordings \in BOOLEAN
    /\ m_bChannelsLoaded \in BOOLEAN
    /\ m_sessionId \in 0..MaxSessions /\ sessions \in 0..MaxSessions
    /\ m_pinUnlocked \in BOOLEAN /\ pinCrossed \in BOOLEAN
    /\ unlocked \subseteq Sessions
    /\ pinSession \in [Handlers -> 0..MaxSessions]

LEMMA FindChannelTyped ==
    ASSUME TypeOK, NEW h \in Handlers, NEW found \in HandlerLabels, FindChannel(h, found)
    PROVE  TypeOK'
<1>1. Valid(local[h]) \in Local
  <2>1. local[h] \in Local
    BY DEF TypeOK
  <2> QED
    BY <2>1, ReplacedTyped DEF Valid
<1>2. [Valid(local[h]) EXCEPT !.channel_i = m_channels] \in Local
  <2>1. m_channels \in Playlists
    BY DEF TypeOK
  <2> QED
    BY <1>1, <2>1, ReplacedTyped
<1>3. PICK to \in HandlerLabels, locals \in Local : Goto(h, to, locals)
  BY <1>2, NoLocalTyped DEF FindChannel, HandlerLabels
<1> QED
  BY <1>3, GotoTyped DEF FindChannel, TypeOK, flags, apiVars, backendVars

LEMMA CallTyped ==
    ASSUME TypeOK, NEW h \in Handlers, Call(h) PROVE TypeOK'
<1>1. local[h] \in Local
  BY DEF TypeOK
<1>2. CASE GetChannelStreamUrl(h) \/ Reget(h)
  BY <1>2, FindChannelTyped DEF GetChannelStreamUrl, Reget, HandlerLabels
<1>3. CASE ~(GetChannelStreamUrl(h) \/ Reget(h))
  <2>1. PICK to \in HandlerLabels, locals \in Local : Goto(h, to, locals)
    <3>1. CASE PinCheckUnlock(h)
      BY <1>1, <3>1 DEF PinCheckUnlock, HandlerLabels
    <3>2. CASE PinEnteringFails(h) \/ StreamProperties(h)
      BY <3>2, NoLocalTyped DEF PinEnteringFails, StreamProperties, HandlerLabels
    <3>3. CASE PinEntered(h)
      BY <1>1, <3>3 DEF PinEntered, HandlerLabels
    <3>4. CASE PinUnlock(h)
      BY <1>1, <3>4, ReplacedTyped DEF PinUnlock, HandlerLabels
    <3>5. CASE SetLoadPlaylist(h)
      <4>1. (root = "locked") \in BOOLEAN
        OBVIOUS
      <4>2. [local[h] EXCEPT !.stale = (root = "locked")] \in Local
        BY <1>1, <4>1, ReplacedTyped
      <4> QED
        BY <3>5, <4>2 DEF SetLoadPlaylist, HandlerLabels
    <3>6. CASE WaitForChannels(h)
      <4>1. (~m_bChannelsLoaded) \in BOOLEAN
        OBVIOUS
      <4>2. [local[h] EXCEPT !.timed_out = ~m_bChannelsLoaded] \in Local
        BY <1>1, <4>1, ReplacedTyped
      <4> QED
        BY <3>6, <4>2 DEF WaitForChannels, HandlerLabels
    <3>7. CASE SetLoadRecordings(h)
      BY <1>1, <3>7 DEF SetLoadRecordings, HandlerLabels
    <3>8. CASE ReadUrl(h)
      <4>1. PICK seen \in Read(h) : Goto(h, "stream", [local[h] EXCEPT !.url = seen])
        BY <3>8 DEF ReadUrl
      <4>2. [local[h] EXCEPT !.url = seen] \in Local
        BY <1>1, <4>1, ReadTyped, ReplacedTyped
      <4> QED
        BY <4>1, <4>2 DEF HandlerLabels
    <3> QED
      BY <1>3, <3>1, <3>2, <3>3, <3>4, <3>5, <3>6, <3>7, <3>8 DEF Call
  <2>2. CallTypes'
    <3>1. CallTypes
      BY DEF CallTypes, TypeOK
    <3>2. CASE PinEnteringFails(h) \/ PinEntered(h)
      <4>1. unlocked' \subseteq unlocked \cup ({m_sessionId} \ {0})
        BY <3>2 DEF PinEnteringFails, PinEntered
      <4>2. unlocked' \subseteq Sessions
        BY <3>1, <4>1, PlaylistAssumption DEF CallTypes, Sessions
      <4>3. pinSession' \in [Handlers -> 0..MaxSessions]
        BY <3>1, <3>2 DEF PinEnteringFails, PinEntered, CallTypes
      <4> QED
        BY <3>1, <3>2, <4>2, <4>3 DEF PinEnteringFails, PinEntered, CallTypes, flags, apiVars
    <3>3. CASE PinUnlock(h)
      <4>1. pinCrossed' \in BOOLEAN
        BY <3>1, <3>3 DEF PinUnlock, CallTypes
      <4> QED
        BY <3>1, <3>3, <4>1 DEF PinUnlock, CallTypes, flags, backendVars
    <3>4. CASE SetLoadPlaylist(h) \/ SetLoadRecordings(h)
      BY <3>1, <3>4 DEF SetLoadPlaylist, SetLoadRecordings, CallTypes, apiVars, backendVars
    <3>5. CASE PinCheckUnlock(h) \/ WaitForChannels(h) \/ ReadUrl(h) \/ StreamProperties(h)
      BY <3>1, <3>5 DEF PinCheckUnlock, WaitForChannels, ReadUrl, StreamProperties, CallTypes,
         flags, apiVars, backendVars
    <3> QED
      BY <1>3, <3>2, <3>3, <3>4, <3>5 DEF Call
  <2> QED
    BY <2>1, <2>2, GotoTyped DEF TypeOK, CallTypes
<1> QED
  BY <1>2, <1>3

LEMMA TypeStep == TypeOK /\ [Next]_vars => TypeOK'
<1> SUFFICES ASSUME TypeOK, [Next]_vars PROVE TypeOK'
  OBVIOUS
<1> USE DEF TypeOK, flags, apiVars, workerVars, callVars, kodiVars, backendVars
<1>1. CASE LoginBegins \/ LoginAbandoned \/ RegisterDrm
  <2>1. CASE LoginBegins
    BY <2>1 DEF LoginBegins, WorkerLabels
  <2>2. CASE LoginAbandoned
    BY <2>2 DEF LoginAbandoned, WorkerLabels
  <2>3. CASE RegisterDrm
    BY <2>3 DEF RegisterDrm, WorkerLabels
  <2> QED
    BY <1>1, <2>1, <2>2, <2>3
<1>2. CASE LoginSucceeds
  BY <1>2, PlaylistAssumption DEF LoginSucceeds, WorkerLabels
<1>3. CASE LoginFails
  BY <1>3, PlaylistAssumption DEF LoginFails, WorkerLabels
<1>4. CASE Loop \/ PlaylistJob
  <2>1. CASE Loop
    BY <2>1 DEF Loop, WorkerLabels
  <2>2. CASE PlaylistJob
    BY <2>2 DEF PlaylistJob, WorkerLabels
  <2> QED
    BY <1>4, <2>1, <2>2
<1>5. CASE RecordingsJob
  BY <1>5 DEF RecordingsJob, WorkerLabels
<1>6. CASE FullRefresh \/ NoFullRefresh \/ KeepAliveHolds \/ KeepAliveFails
  BY <1>6 DEF FullRefresh, NoFullRefresh, KeepAliveHolds, KeepAliveFails, WorkerLabels
<1>7. CASE LoadPlayListFails \/ LoadPlayListAnswered
  <2>1. CASE LoadPlayListFails
    BY <2>1 DEF LoadPlayListFails, WorkerLabels
  <2>2. CASE LoadPlayListAnswered
    <3>1. root' \in Playlists
      BY <2>2 DEF LoadPlayListAnswered, Answer, Playlists
    <3> QED
      BY <2>2, <3>1 DEF LoadPlayListAnswered, WorkerLabels
  <2> QED
    BY <1>7, <2>1, <2>2
<1>8. CASE LoadPlayListPublishes
  <2>1. local' \in [Handlers -> Local]
    <3>1. ASSUME NEW h \in Handlers
          PROVE  [local[h] EXCEPT !.dangling = at[h] \notin Ended] \in Local
      <4>1. local[h] \in Local /\ (at[h] \notin Ended) \in BOOLEAN
        OBVIOUS
      <4> QED
        BY <4>1, ReplacedTyped
    <3> QED
      BY <1>8, <3>1 DEF LoadPlayListPublishes
  <2> QED
    BY <1>8, <2>1 DEF LoadPlayListPublishes, WorkerLabels, Playlists
<1>9. CASE (\E l \in Listers : List(l)) \/ Destruct
  <2>1. ASSUME NEW l \in Listers, ListChannels(l) PROVE TypeOK'
    BY <2>1 DEF ListChannels
  <2>2. ASSUME NEW l \in Listers, GetChannels(l) PROVE TypeOK'
    BY <2>2 DEF GetChannels
  <2>3. CASE Destruct
    BY <2>3 DEF Destruct
  <2> QED
    BY <1>9, <2>1, <2>2, <2>3 DEF List
<1>10. CASE \E h \in Handlers : Call(h)
  BY <1>10, CallTyped
<1>11. CASE Terminated \/ UNCHANGED vars
  BY <1>11 DEF Terminated, vars
<1> QED
  BY <1>1, <1>2, <1>3, <1>4, <1>5, <1>6, <1>7, <1>8, <1>9, <1>10, <1>11
     DEF Next, Worker, Login, Kodi

LEMMA TypeInit == Init => TypeOK
<1> SUFFICES ASSUME Init PROVE TypeOK
  OBVIOUS
<1>1. 0 \in 0..MaxSessions
  BY PlaylistAssumption
<1>2. at \in [Handlers -> HandlerLabels] /\ local \in [Handlers -> Local]
  BY NoLocalTyped DEF Init, HandlerLabels
<1>3. pinSession \in [Handlers -> 0..MaxSessions] /\ sessions \in 0..MaxSessions
      /\ m_sessionId \in 0..MaxSessions
  BY <1>1 DEF Init
<1>4. pc \in WorkerLabels /\ after \in {"recordings", "keepalive"}
  BY DEF Init, WorkerLabels
<1>5. m_channels \in Playlists /\ root \in Playlists /\ kodiChannels \in Playlists
  BY DEF Init, Playlists
<1> QED
  BY <1>2, <1>3, <1>4, <1>5 DEF Init, TypeOK

\* Every variable keeps its shape, for any number of threads and sessions.
THEOREM TypesHold == Spec => []TypeOK
  BY TypeInit, TypeStep, PTL DEF Spec

-----------------------------------------------------------------------------
(* The certificate *)

\* What makes the certificate be there.  Once the worker is past LoginLoop there
\* is one, except in the last round of an add-on that was shut down before it
\* could log in; only the worker's loads bring channels, and no load brings back
\* the empty list a call would stop at.
DrmInv ==
    /\ DOMAIN at = Handlers
    /\ pc \in {"playlist", "load", "publish", "recordings", "refresh", "keepalive"}
         => m_drmCertificate
    /\ pc = "loop" => m_drmCertificate \/ ~m_bKeepAlive
    /\ after \in {"recordings", "keepalive"}
    /\ pc = "publish" => root # "none"
    /\ m_channels # "none" => m_drmCertificate
    /\ \A h \in Handlers : at[h] \notin Ended => m_channels # "none"

LEMMA DrmInit == Init => DrmInv
  BY DEF Init, DrmInv, Ended

\* A call only moves on while there are channels.
LEMMA DrmGoto ==
    ASSUME DrmInv, NEW h \in Handlers, NEW to, NEW locals, Goto(h, to, locals),
           to \notin Ended => m_channels # "none"
    PROVE  DrmInv'
  BY DEF DrmInv, Goto, workerVars

LEMMA DrmCall ==
    ASSUME DrmInv, NEW h \in Handlers, Call(h)
    PROVE  DrmInv'
<1>1. CASE GetChannelStreamUrl(h)
  BY <1>1, DrmGoto DEF GetChannelStreamUrl, FindChannel, Ended
<1>2. CASE Reget(h)
  BY <1>2, DrmGoto DEF Reget, FindChannel, Ended
<1>3. CASE PinCheckUnlock(h)
  BY <1>3, DrmGoto DEF PinCheckUnlock, DrmInv, Ended
<1>4. CASE PinEnteringFails(h)
  BY <1>4, DrmGoto DEF PinEnteringFails, Ended
<1>5. CASE PinEntered(h)
  BY <1>5, DrmGoto DEF PinEntered, DrmInv, Ended
<1>6. CASE PinUnlock(h)
  BY <1>6, DrmGoto DEF PinUnlock, DrmInv, Ended
<1>7. CASE SetLoadPlaylist(h)
  BY <1>7, DrmGoto DEF SetLoadPlaylist, DrmInv, Ended
<1>8. CASE WaitForChannels(h)
  BY <1>8, DrmGoto DEF WaitForChannels, DrmInv, Ended
<1>9. CASE SetLoadRecordings(h)
  BY <1>9, DrmGoto DEF SetLoadRecordings, DrmInv, Ended
<1>10. CASE ReadUrl(h)
  BY <1>10, DrmGoto DEF ReadUrl, DrmInv, Ended
<1>11. CASE StreamProperties(h)
  BY <1>11, DrmGoto DEF StreamProperties, DrmInv, Ended
<1> QED
  BY <1>1, <1>2, <1>3, <1>4, <1>5, <1>6, <1>7, <1>8, <1>9, <1>10, <1>11 DEF Call

LEMMA DrmStep == DrmInv /\ [Next]_vars => DrmInv'
<1> SUFFICES ASSUME DrmInv, [Next]_vars PROVE DrmInv'
  OBVIOUS
<1> USE DEF DrmInv, flags, apiVars, workerVars, callVars, kodiVars, backendVars
<1>1. CASE Login
  BY <1>1 DEF Login, LoginBegins, LoginAbandoned, LoginSucceeds, LoginFails, RegisterDrm
<1>2. CASE Loop \/ PlaylistJob \/ RecordingsJob
  BY <1>2 DEF Loop, PlaylistJob, RecordingsJob
<1>3. CASE FullRefresh \/ NoFullRefresh
  BY <1>3 DEF FullRefresh, NoFullRefresh
<1>4. CASE KeepAliveHolds \/ KeepAliveFails
  BY <1>4 DEF KeepAliveHolds, KeepAliveFails
<1>5. CASE LoadPlayListFails
  BY <1>5 DEF LoadPlayListFails
<1>6. CASE LoadPlayListAnswered
  BY <1>6 DEF LoadPlayListAnswered, Answer
<1>7. CASE LoadPlayListPublishes
  BY <1>7 DEF LoadPlayListPublishes
<1>8. CASE \E l \in Listers : List(l)
  BY <1>8 DEF List, ListChannels, GetChannels
<1>9. CASE Destruct
  BY <1>9 DEF Destruct
<1>10. CASE \E h \in Handlers : Call(h)
  BY <1>10, DrmCall
<1>11. CASE Terminated \/ UNCHANGED vars
  BY <1>11 DEF Terminated, vars
<1> QED
  BY <1>1, <1>2, <1>3, <1>4, <1>5, <1>6, <1>7, <1>8, <1>9, <1>10, <1>11
     DEF Next, Worker, Kodi

\* The certificate StreamProperties dereferences has always been stored, for any
\* number of calls and whatever the logins and the loads come to.
THEOREM DrmAlwaysReady == Spec => []DrmReady
<1>1. Init => DrmInv
  BY DrmInit
<1>2. DrmInv /\ [Next]_vars => DrmInv'
  BY DrmStep
<1>3. DrmInv => DrmReady
  BY DEF DrmInv, DrmReady, Ended
<1> QED
  BY <1>1, <1>2, <1>3, PTL DEF Spec

-----------------------------------------------------------------------------
(* Requests and the PIN *)

\* ReloadNotLost is inductive as it stands.
LEMMA ReloadStep == ReloadNotLost /\ [Next]_vars => ReloadNotLost'
<1> SUFFICES ASSUME ReloadNotLost, [Next]_vars PROVE ReloadNotLost'
  OBVIOUS
<1> USE DEF ReloadNotLost, flags, workerVars
<1>1. CASE Login
  BY <1>1 DEF Login, LoginBegins, LoginAbandoned, LoginSucceeds, LoginFails, RegisterDrm
<1>2. CASE Loop \/ PlaylistJob \/ RecordingsJob
  BY <1>2 DEF Loop, PlaylistJob, RecordingsJob
<1>3. CASE FullRefresh \/ NoFullRefresh \/ KeepAliveHolds \/ KeepAliveFails
  BY <1>3 DEF FullRefresh, NoFullRefresh, KeepAliveHolds, KeepAliveFails
<1>4. CASE LoadPlayListFails \/ LoadPlayListAnswered \/ LoadPlayListPublishes
  <2>1. CASE LoadPlayListFails
    BY <2>1 DEF LoadPlayListFails
  <2>2. CASE LoadPlayListAnswered
    BY <2>2 DEF LoadPlayListAnswered
  <2>3. CASE LoadPlayListPublishes
    BY <2>3 DEF LoadPlayListPublishes
  <2> QED
    BY <1>4, <2>1, <2>2, <2>3
<1>5. CASE (\E l \in Listers : List(l)) \/ Destruct
  BY <1>5 DEF List, ListChannels, GetChannels, Destruct
<1>6. ASSUME NEW h \in Handlers, Call(h) PROVE ReloadNotLost'
  BY <1>6 DEF Call, GetChannelStreamUrl, PinCheckUnlock, PinEnteringFails, PinEntered,
     PinUnlock, SetLoadPlaylist, WaitForChannels, SetLoadRecordings, Reget, FindChannel,
     ReadUrl, StreamProperties, Goto
<1>7. CASE Terminated \/ UNCHANGED vars
  BY <1>7 DEF Terminated, vars
<1> QED
  BY <1>1, <1>2, <1>3, <1>4, <1>5, <1>6, <1>7 DEF Next, Worker, Kodi

\* SimpleLoadJob lowers the flag before the load it stands for: a request that
\* comes during a load is kept for another one, for any number of requesters.
THEOREM ReloadNeverLost == Spec => []ReloadNotLost
<1>1. Init => ReloadNotLost
  BY DEF Init, ReloadNotLost
<1> QED
  BY <1>1, ReloadStep, PTL DEF Spec

\* The PIN flag, strengthened: it is down while a login is under way unless an
\* answer crosses it, and an accepted PIN has unlocked the session it was sent to.
\* No load of the playlist goes on to the login.
PinInv ==
    /\ DOMAIN at = Handlers /\ DOMAIN pinSession = Handlers
    /\ after # "loginCall"
    /\ PinFlagTruthful
    /\ pc = "loginCall" /\ ~pinCrossed => ~m_pinUnlocked
    /\ \A h \in Handlers : at[h] = "accepted" => pinSession[h] \in unlocked

LEMMA PinStep == PinInv /\ [Next]_vars => PinInv'
<1> SUFFICES ASSUME PinInv, [Next]_vars PROVE PinInv'
  OBVIOUS
<1> USE DEF PinInv, PinFlagTruthful, apiVars, workerVars, callVars, backendVars
<1>1. CASE Login
  BY <1>1 DEF Login, LoginBegins, LoginAbandoned, LoginSucceeds, LoginFails, RegisterDrm
<1>2. CASE Loop \/ PlaylistJob \/ RecordingsJob
  BY <1>2 DEF Loop, PlaylistJob, RecordingsJob
<1>3. CASE FullRefresh \/ NoFullRefresh \/ KeepAliveHolds \/ KeepAliveFails
  BY <1>3 DEF FullRefresh, NoFullRefresh, KeepAliveHolds, KeepAliveFails
<1>4. CASE LoadPlayListFails \/ LoadPlayListAnswered \/ LoadPlayListPublishes
  BY <1>4 DEF LoadPlayListFails, LoadPlayListAnswered, LoadPlayListPublishes
<1>5. CASE (\E l \in Listers : List(l)) \/ Destruct
  BY <1>5 DEF List, ListChannels, GetChannels, Destruct
<1>6. ASSUME NEW h \in Handlers, Call(h) PROVE PinInv'
  <2>1. CASE PinEntered(h)
    BY <2>1 DEF PinEntered, Goto
  <2>2. CASE PinUnlock(h)
    BY <2>2 DEF PinUnlock, Goto
  <2>3. CASE PinEnteringFails(h)
    BY <2>3 DEF PinEnteringFails, Goto
  <2>4. CASE PinCheckUnlock(h)
    BY <2>4 DEF PinCheckUnlock, Goto
  <2>5. CASE GetChannelStreamUrl(h) \/ Reget(h) \/ ReadUrl(h) \/ StreamProperties(h)
    BY <2>5 DEF GetChannelStreamUrl, Reget, FindChannel, ReadUrl, StreamProperties, Goto
  <2>6. CASE SetLoadPlaylist(h) \/ WaitForChannels(h) \/ SetLoadRecordings(h)
    BY <2>6 DEF SetLoadPlaylist, WaitForChannels, SetLoadRecordings, Goto
  <2> QED
    BY <1>6, <2>1, <2>2, <2>3, <2>4, <2>5, <2>6 DEF Call
<1>7. CASE Terminated \/ UNCHANGED vars
  BY <1>7 DEF Terminated, vars
<1> QED
  BY <1>1, <1>2, <1>3, <1>4, <1>5, <1>6, <1>7 DEF Next, Worker, Kodi

\* m_pinUnlocked speaks of the current session: login lowers it before it asks
\* for a session, so only an answer that crosses a login can make it lie.
THEOREM PinFlagStaysTruthful == Spec => []PinFlagTruthful
<1>1. Init => PinInv
  BY DEF Init, PinInv, PinFlagTruthful
<1>2. PinInv => PinFlagTruthful
  BY DEF PinInv
<1> QED
  BY <1>1, <1>2, PinStep, PTL DEF Spec
-----------------------------------------------------------------------------
(* The channels are mirrored *)

LEMMA MirrorsInit == Init => ChannelList!Init
  BY DEF Init, Answer, Playlists, ChannelList!Init

\* The steps that leave the load and its lists alone can only change what the
\* backend would answer.
LEMMA MirrorsChange ==
    ASSUME UNCHANGED <<m_bLoadPlayList, root, m_channels, updateTriggered, listing, kodiChannels>>,
           \/ pc' = pc
           \/ pc \notin {"load", "publish"} /\ pc' \notin {"load", "publish"}
    PROVE  ChannelList!Change
  BY DEF Answer, Playlists, ChannelList!Change

LEMMA MirrorsLogin == ASSUME Login PROVE ChannelList!Change
<1>1. UNCHANGED <<m_bLoadPlayList, root, m_channels, updateTriggered, listing, kodiChannels>>
  BY DEF Login, LoginBegins, LoginAbandoned, LoginSucceeds, LoginFails, RegisterDrm, flags,
     workerVars, kodiVars
<1>2. pc \notin {"load", "publish"} /\ pc' \notin {"load", "publish"}
  BY DEF Login, LoginBegins, LoginAbandoned, LoginSucceeds, LoginFails, RegisterDrm
<1> QED
  BY <1>1, <1>2, MirrorsChange

LEMMA MirrorsRound ==
    ASSUME Loop \/ RecordingsJob \/ NoFullRefresh \/ KeepAliveHolds \/ KeepAliveFails
    PROVE  ChannelList!Change
<1>1. UNCHANGED <<m_bLoadPlayList, root, m_channels, updateTriggered, listing, kodiChannels>>
  BY DEF Loop, RecordingsJob, NoFullRefresh, KeepAliveHolds, KeepAliveFails, flags, kodiVars
<1>2. pc \notin {"load", "publish"} /\ pc' \notin {"load", "publish"}
  BY DEF Loop, RecordingsJob, NoFullRefresh, KeepAliveHolds, KeepAliveFails
<1> QED
  BY <1>1, <1>2, MirrorsChange

LEMMA MirrorsCall ==
    ASSUME NEW h \in Handlers, Call(h) PROVE ChannelList!Request \/ ChannelList!Change
<1>1. UNCHANGED <<root, m_channels, updateTriggered, listing, kodiChannels, pc>>
  BY DEF Call, GetChannelStreamUrl, PinCheckUnlock, PinEnteringFails, PinEntered, PinUnlock,
     SetLoadPlaylist, WaitForChannels, SetLoadRecordings, Reget, FindChannel, ReadUrl,
     StreamProperties, Goto, workerVars, kodiVars
<1>2. CASE SetLoadPlaylist(h)
  BY <1>1, <1>2 DEF SetLoadPlaylist, Answer, apiVars, backendVars, ChannelList!Request
<1>3. CASE ~SetLoadPlaylist(h)
  <2>1. m_bLoadPlayList' = m_bLoadPlayList
    BY <1>3 DEF Call, GetChannelStreamUrl, PinCheckUnlock, PinEnteringFails, PinEntered,
       PinUnlock, WaitForChannels, SetLoadRecordings, Reget, FindChannel, ReadUrl,
       StreamProperties, flags
  <2> QED
    BY <1>1, <2>1, MirrorsChange
<1> QED
  BY <1>2, <1>3

LEMMA MirrorsStep == DrmInv /\ [Next]_vars => [ChannelList!Next]_(ChannelList!vars)
<1> SUFFICES ASSUME DrmInv, [Next]_vars PROVE [ChannelList!Next]_(ChannelList!vars)
  OBVIOUS
<1> USE DEF ChannelList!Next
<1>1. CASE Login
  BY <1>1, MirrorsLogin
<1>2. CASE Loop \/ RecordingsJob \/ NoFullRefresh \/ KeepAliveHolds \/ KeepAliveFails
  BY <1>2, MirrorsRound
<1>3. CASE PlaylistJob
  <2>1. CASE m_bKeepAlive /\ m_bLoadPlayList
    BY <1>3, <2>1 DEF PlaylistJob, Answer, apiVars, kodiVars, backendVars, ChannelList!Begin
  <2>2. CASE ~(m_bKeepAlive /\ m_bLoadPlayList)
    BY <1>3, <2>2, MirrorsChange DEF PlaylistJob, kodiVars
  <2> QED
    BY <2>1, <2>2
<1>4. CASE FullRefresh
  BY <1>4 DEF FullRefresh, Answer, flags, apiVars, kodiVars, backendVars, ChannelList!Begin
<1>5. CASE LoadPlayListFails
  BY <1>5 DEF LoadPlayListFails, DrmInv, Answer, flags, apiVars, kodiVars, backendVars,
     ChannelList!Fail
<1>6. CASE LoadPlayListAnswered
  BY <1>6 DEF LoadPlayListAnswered, Answer, flags, apiVars, kodiVars, backendVars, ChannelList!Take
<1>7. CASE LoadPlayListPublishes
  BY <1>7 DEF LoadPlayListPublishes, DrmInv, Answer, apiVars, backendVars, ChannelList!Publish
<1>8. ASSUME NEW l \in Listers, ListChannels(l) PROVE UNCHANGED ChannelList!vars
  BY <1>8 DEF ListChannels, Answer, flags, apiVars, workerVars, backendVars, ChannelList!vars
<1>9. ASSUME NEW l \in Listers, GetChannels(l) PROVE ChannelList!Show
  BY <1>9 DEF GetChannels, Answer, flags, apiVars, workerVars, backendVars, ChannelList!Show
<1>10. CASE Destruct
  BY <1>10, MirrorsChange DEF Destruct, flags, workerVars, kodiVars
<1>11. CASE \E h \in Handlers : Call(h)
  BY <1>11, MirrorsCall
<1>12. CASE Terminated \/ UNCHANGED vars
  BY <1>12, MirrorsChange DEF Terminated, vars, flags, workerVars, kodiVars
<1> QED
  BY <1>1, <1>2, <1>3, <1>4, <1>5, <1>6, <1>7, <1>8, <1>9, <1>10, <1>11, <1>12
     DEF Next, Worker, Kodi, List

\* Playlist implements Mirror, for any number of calls, sessions and listing
\* threads: logins and PINs change what the backend would answer, and only a load
\* touches the lists.
THEOREM ChannelsAreMirrored == Spec => ChannelsMirrored
<1>1. Init => DrmInv /\ ChannelList!Init
  BY DrmInit, MirrorsInit
<1>2. DrmInv /\ [Next]_vars => DrmInv'
  BY DrmStep
<1>3. DrmInv /\ [Next]_vars => [ChannelList!Next]_(ChannelList!vars)
  BY MirrorsStep
<1> QED
  BY <1>1, <1>2, <1>3, PTL DEF Spec, ChannelsMirrored, ChannelList!Spec

\* As of every mirrored list: Kodi lists the published channels, unless it has been
\* told to get them or is getting them.
THEOREM ChannelsNeverStale == Spec => []ChannelList!ShownOrAnnounced
<1>1. ChannelList!Init => ChannelList!ShownOrAnnounced
  BY DEF ChannelList!Init, ChannelList!ShownOrAnnounced
<1>2. /\ ChannelList!ShownOrAnnounced
      /\ [ChannelList!Next]_(ChannelList!vars)
      => ChannelList!ShownOrAnnounced'
  BY DEF ChannelList!ShownOrAnnounced, ChannelList!Next, ChannelList!Change, ChannelList!Request,
     ChannelList!Begin, ChannelList!Take, ChannelList!Fail, ChannelList!Publish, ChannelList!Show, ChannelList!vars
<1> QED
  BY <1>1, <1>2, ChannelsAreMirrored, PTL DEF ChannelsMirrored, ChannelList!Spec

-----------------------------------------------------------------------------
(* The channel read again after the PIN *)

\* The call of h waits, or reads, after a request from after its unlocking.
Asked(h) ==
    /\ at[h] \in {"wait", "unlocked", "reget", "url"}
    /\ local[h].unlocked_now
    /\ ~local[h].stale
    /\ pinSession[h] = m_sessionId

\* The PIN of h has unlocked a session that exists, and counts as entered only
\* once it is accepted.
PinKept(h) ==
    /\ pinSession[h] <= sessions
    /\ at[h] \in {"ready", "check", "dialog", "accepted"} => ~local[h].unlocked_now
    /\ at[h] = "accepted" \/ local[h].unlocked_now => pinSession[h] # 0 /\ pinSession[h] \in unlocked

\* No locked playlist is about to be published, and the published one is open
\* once the wait is over, until the channel is read from it.
Fresh(h) ==
    Asked(h) =>
        /\ root # "locked"
        /\ at[h] = "wait" /\ m_bChannelsLoaded => m_channels = "open"
        /\ at[h] \in {"unlocked", "reget"} /\ ~local[h].timed_out => m_channels = "open"
        /\ at[h] = "url" /\ ~local[h].timed_out /\ ~local[h].dangling
             => local[h].channel_i = "open"

RegetInv ==
    /\ m_sessionId <= sessions
    /\ \A h \in Handlers : PinKept(h) /\ Fresh(h)

LEMMA RegetInit == Init => RegetInv
<1>1. ASSUME Init, NEW h \in Handlers PROVE PinKept(h) /\ Fresh(h)
  <2>1. at[h] = "ready" /\ local[h] = NoLocal /\ pinSession[h] = 0 /\ sessions = 0
    BY <1>1 DEF Init
  <2>2. ~local[h].unlocked_now
    BY <2>1 DEF NoLocal
  <2> QED
    BY <2>1, <2>2 DEF PinKept, Fresh, Asked
<1>2. Init => m_sessionId <= sessions
  BY DEF Init
<1> QED
  BY <1>1, <1>2 DEF RegetInv

\* What the steps that leave the calls and the load alone keep.
LEMMA RegetAlone ==
    ASSUME RegetInv, UNCHANGED <<at, local, pinSession, root, m_channels, m_bChannelsLoaded,
                                 m_sessionId, sessions, unlocked>>
    PROVE  RegetInv'
  BY DEF RegetInv, PinKept, Fresh, Asked

\* A login leaves no call with the current session, or all with theirs.
LEMMA RegetLogin == ASSUME TypeOK, RegetInv, Login PROVE RegetInv'
<1> USE DEF apiVars, workerVars, callVars, backendVars, flags
<1>1. CASE LoginBegins \/ LoginAbandoned \/ RegisterDrm
  <2>1. UNCHANGED <<at, local, pinSession, root, m_channels, m_bChannelsLoaded, m_sessionId,
                    sessions, unlocked>>
    BY <1>1 DEF LoginBegins, LoginAbandoned, RegisterDrm
  <2> QED
    BY <2>1, RegetAlone
<1>2. CASE LoginSucceeds
  <2>1. /\ UNCHANGED <<at, local, pinSession, root, m_channels, m_bChannelsLoaded, unlocked>>
        /\ sessions' = sessions + 1 /\ m_sessionId' = sessions + 1
    BY <1>2 DEF LoginSucceeds
  <2>2. sessions \in Nat
    BY PlaylistAssumption DEF TypeOK
  <2>3. ASSUME NEW h \in Handlers PROVE PinKept(h)' /\ Fresh(h)'
    <3>1. pinSession[h] \in Nat /\ pinSession[h] <= sessions
      BY PlaylistAssumption DEF TypeOK, RegetInv, PinKept
    <3>2. pinSession'[h] # m_sessionId' /\ pinSession'[h] <= sessions'
      BY <2>1, <2>2, <3>1
    <3> QED
      BY <2>1, <3>2 DEF RegetInv, PinKept, Fresh, Asked
  <2> QED
    BY <2>1, <2>2, <2>3 DEF RegetInv
<1>3. CASE LoginFails
  <2>1. /\ UNCHANGED <<at, local, pinSession, root, m_channels, m_bChannelsLoaded, sessions,
                       unlocked>>
        /\ m_sessionId' = 0 \/ m_sessionId' = m_sessionId
    BY <1>3 DEF LoginFails
  <2>2. m_sessionId' <= sessions'
    BY <2>1, PlaylistAssumption DEF TypeOK, RegetInv
  <2>3. ASSUME NEW h \in Handlers PROVE PinKept(h)' /\ Fresh(h)'
    <3>1. PinKept(h) /\ Fresh(h)
      BY DEF RegetInv
    <3>2. Asked(h)' => Asked(h)
      BY <2>1, <3>1 DEF PinKept, Asked
    <3> QED
      BY <2>1, <3>1, <3>2 DEF PinKept, Fresh
  <2> QED
    BY <2>2, <2>3 DEF RegetInv
<1> QED
  BY <1>1, <1>2, <1>3 DEF Login

\* A playlist answered in a session that was unlocked is open.
LEMMA RegetAnswered == ASSUME RegetInv, LoadPlayListAnswered PROVE RegetInv'
<1>1. /\ UNCHANGED <<at, local, pinSession, m_channels, m_bChannelsLoaded, m_sessionId, sessions,
                     unlocked>>
      /\ root' = Answer
  BY DEF LoadPlayListAnswered, flags, apiVars, callVars, backendVars
<1>2. ASSUME NEW h \in Handlers PROVE PinKept(h)' /\ Fresh(h)'
  <2>1. PinKept(h) /\ Fresh(h)
    BY DEF RegetInv
  <2>2. Asked(h)' => Asked(h) /\ root' = "open"
    BY <1>1, <2>1 DEF Asked, PinKept, Answer
  <2> QED
    BY <1>1, <2>1, <2>2 DEF PinKept, Fresh
<1> QED
  BY <1>1, <1>2 DEF RegetInv

\* What is published was not locked; a channel read before dangles.
LEMMA RegetPublished ==
    ASSUME TypeOK, DrmInv, RegetInv, LoadPlayListPublishes PROVE RegetInv'
<1>1. /\ UNCHANGED <<at, pinSession, m_sessionId, sessions, unlocked>>
      /\ m_channels' = root /\ root' = "none"
      /\ root \in Playlists /\ root # "none"
  BY DEF LoadPlayListPublishes, apiVars, backendVars, DrmInv, TypeOK
<1>2. ASSUME NEW h \in Handlers PROVE PinKept(h)' /\ Fresh(h)'
  <2>1. PinKept(h) /\ Fresh(h)
    BY DEF RegetInv
  <2>2. /\ local[h] \in Local
        /\ local'[h] = [local[h] EXCEPT !.dangling = at[h] \notin Ended]
    BY DEF TypeOK, LoadPlayListPublishes
  <2>3. /\ local'[h].unlocked_now = local[h].unlocked_now
        /\ local'[h].stale = local[h].stale
        /\ local'[h].timed_out = local[h].timed_out
        /\ local'[h].dangling = (at[h] \notin Ended)
    BY <2>2, LocalsReplaced, LocalsFields
  <2>4. PinKept(h)'
    BY <1>1, <2>1, <2>3 DEF PinKept
  <2>5. Asked(h)' => Asked(h)
    BY <1>1, <2>3 DEF Asked
  <2>6. Asked(h)' => m_channels' = "open"
    BY <1>1, <2>1, <2>5 DEF Fresh, Playlists
  <2>7. at'[h] = "url" => local'[h].dangling
    BY <1>1, <2>3 DEF Ended
  <2> QED
    BY <1>1, <2>4, <2>6, <2>7 DEF Fresh
<1> QED
  BY <1>1, <1>2 DEF RegetInv

\* A call of one thread moves no other: it only adds to what is unlocked, and
\* only takes back that the channels are loaded.
LEMMA RegetCall ==
    ASSUME TypeOK, RegetInv, NEW h \in Handlers, NEW to, NEW locals, Goto(h, to, locals),
           UNCHANGED <<m_sessionId, sessions>>,
           unlocked \subseteq unlocked', m_bChannelsLoaded' => m_bChannelsLoaded,
           \A k \in Handlers \ {h} : pinSession'[k] = pinSession[k],
           PinKept(h)', Fresh(h)'
    PROVE  RegetInv'
<1>1. ASSUME NEW k \in Handlers, k # h PROVE PinKept(k)' /\ Fresh(k)'
  <2>1. PinKept(k) /\ Fresh(k)
    BY DEF RegetInv
  <2>2. at'[k] = at[k] /\ local'[k] = local[k] /\ pinSession'[k] = pinSession[k]
    BY <1>1 DEF TypeOK, Goto
  <2>3. UNCHANGED <<root, m_channels>>
    BY DEF Goto, workerVars
  <2> QED
    BY <2>1, <2>2, <2>3 DEF PinKept, Fresh, Asked
<1> QED
  BY <1>1 DEF RegetInv

LEMMA GotoHere ==
    ASSUME TypeOK, NEW h \in Handlers, NEW to, NEW locals, Goto(h, to, locals)
    PROVE  /\ at'[h] = to
           /\ local'[h] = IF to \in Ended THEN NoLocal ELSE locals
           /\ UNCHANGED <<m_channels, root>>
  BY DEF TypeOK, Goto, workerVars

\* A call that has not come to a PIN, or ends, has nothing to be read again.
LEMMA RegetIdle ==
    ASSUME TypeOK, RegetInv, NEW h \in Handlers, NEW to, NEW locals, Goto(h, to, locals),
           to \in Ended \/ (~locals.unlocked_now /\ to # "accepted"),
           UNCHANGED <<m_sessionId, sessions, pinSession, m_bChannelsLoaded>>,
           unlocked \subseteq unlocked'
    PROVE  RegetInv'
<1>1. ~local'[h].unlocked_now /\ at'[h] # "accepted"
  BY GotoHere DEF NoLocal, Ended
<1>2. PinKept(h)
  BY DEF RegetInv
<1>3. PinKept(h)' /\ Fresh(h)'
  BY <1>1, <1>2 DEF PinKept, Fresh, Asked
<1> QED
  BY <1>3, RegetCall

\* The channel is found in the published playlist.
LEMMA FoundHere ==
    ASSUME TypeOK, NEW h \in Handlers, NEW found \in {"check", "url"}, FindChannel(h, found)
    PROVE  \/ at'[h] = "failed" /\ local'[h] = NoLocal
           \/ /\ at'[h] = found
              /\ local'[h].channel_i = m_channels
              /\ local'[h].unlocked_now = local[h].unlocked_now
              /\ local'[h].timed_out = local[h].timed_out
              /\ local'[h].stale = local[h].stale
<1>1. CASE Goto(h, "failed", NoLocal)
  BY <1>1, GotoHere DEF Ended
<1>2. CASE Goto(h, found, [Valid(local[h]) EXCEPT !.channel_i = m_channels])
  <2>1. local[h] \in Local /\ Valid(local[h]) \in Local
    BY ReplacedTyped DEF TypeOK, Valid
  <2>2. Valid(local[h]) = [local[h] EXCEPT !.dangling = FALSE]
    BY DEF Valid
  <2>3. /\ Valid(local[h]).unlocked_now = local[h].unlocked_now
        /\ Valid(local[h]).timed_out = local[h].timed_out
        /\ Valid(local[h]).stale = local[h].stale
    BY <2>1, <2>2, LocalsReplaced, LocalsFields
  <2>4. local'[h] = [Valid(local[h]) EXCEPT !.channel_i = m_channels] /\ at'[h] = found
    BY <1>2, GotoHere DEF Ended
  <2>5. /\ local'[h].channel_i = m_channels
        /\ local'[h].unlocked_now = Valid(local[h]).unlocked_now
        /\ local'[h].timed_out = Valid(local[h]).timed_out
        /\ local'[h].stale = Valid(local[h]).stale
    BY <2>1, <2>4, LocalsReplaced, LocalsFields
  <2> QED
    BY <2>3, <2>4, <2>5
<1> QED
  BY <1>1, <1>2 DEF FindChannel

LEMMA RegetFound ==
    ASSUME TypeOK, RegetInv, NEW h \in Handlers, NEW found \in {"check", "url"},
           FindChannel(h, found),
           at[h] = IF found = "check" THEN "ready" ELSE "reget"
    PROVE  RegetInv'
<1>2. UNCHANGED <<m_sessionId, sessions, unlocked, pinSession, m_bChannelsLoaded>>
  BY DEF FindChannel, flags, apiVars, backendVars
<1>3. PICK to, locals : Goto(h, to, locals)
  BY DEF FindChannel
<1>4. PinKept(h) /\ Fresh(h) /\ UNCHANGED <<m_channels, root>>
  BY <1>3, GotoHere DEF RegetInv
<1>5. CASE at'[h] = "failed" /\ local'[h] = NoLocal
  <2>1. ~local'[h].unlocked_now
    BY <1>5 DEF NoLocal
  <2>2. PinKept(h)' /\ Fresh(h)'
    BY <1>2, <1>4, <1>5, <2>1 DEF PinKept, Fresh, Asked
  <2> QED
    BY <1>2, <1>3, <2>2, RegetCall
<1>6. CASE /\ at'[h] = found
           /\ local'[h].channel_i = m_channels
           /\ local'[h].unlocked_now = local[h].unlocked_now
           /\ local'[h].timed_out = local[h].timed_out
           /\ local'[h].stale = local[h].stale
  <2>1. PinKept(h)'
    BY <1>2, <1>4, <1>6 DEF PinKept
  <2>2. Fresh(h)'
    BY <1>2, <1>4, <1>6 DEF PinKept, Fresh, Asked
  <2> QED
    BY <1>2, <1>3, <2>1, <2>2, RegetCall
<1> QED
  BY <1>5, <1>6, FoundHere

\* The PIN is accepted, and noted.
LEMMA RegetPin ==
    ASSUME TypeOK, RegetInv, NEW h \in Handlers, PinEntered(h) \/ PinUnlock(h)
    PROVE  RegetInv'
<1>1. PinKept(h) /\ local[h] \in Local
  BY DEF RegetInv, TypeOK
<1>2. CASE PinEntered(h)
  <2>1. /\ Goto(h, "accepted", local[h]) /\ at[h] = "dialog" /\ m_sessionId # 0
        /\ UNCHANGED <<m_sessionId, sessions, m_bChannelsLoaded>>
        /\ unlocked' = unlocked \cup {m_sessionId}
        /\ pinSession' = [pinSession EXCEPT ![h] = m_sessionId]
    BY <1>2 DEF PinEntered, flags, apiVars
  <2>2. at'[h] = "accepted" /\ local'[h] = local[h]
    BY <2>1, GotoHere DEF Ended
  <2>3. /\ pinSession'[h] = m_sessionId
        /\ \A k \in Handlers \ {h} : pinSession'[k] = pinSession[k]
    BY <2>1 DEF TypeOK
  <2>4. PinKept(h)' /\ Fresh(h)'
    BY <1>1, <2>1, <2>2, <2>3 DEF RegetInv, PinKept, Fresh, Asked
  <2> QED
    BY <2>1, <2>3, <2>4, RegetCall
<1>3. CASE PinUnlock(h)
  <2>1. /\ Goto(h, "reload", [local[h] EXCEPT !.unlocked_now = TRUE]) /\ at[h] = "accepted"
        /\ UNCHANGED <<m_sessionId, sessions, unlocked, pinSession, m_bChannelsLoaded>>
    BY <1>3 DEF PinUnlock, flags, backendVars
  <2>2. at'[h] = "reload"
    BY <2>1, GotoHere
  <2>3. PinKept(h)' /\ Fresh(h)'
    BY <1>1, <2>1, <2>2 DEF PinKept, Fresh, Asked
  <2> QED
    BY <2>1, <2>3, RegetCall
<1> QED
  BY <1>2, <1>3

\* A reload is requested with no locked playlist about to be published, or as stale.
LEMMA RegetAsked ==
    ASSUME TypeOK, RegetInv, NEW h \in Handlers, SetLoadPlaylist(h) PROVE RegetInv'
<1>1. PinKept(h) /\ local[h] \in Local
  BY DEF RegetInv, TypeOK
<1>2. /\ Goto(h, "wait", [local[h] EXCEPT !.stale = (root = "locked")]) /\ at[h] = "reload"
      /\ UNCHANGED <<m_sessionId, sessions, unlocked, pinSession>>
      /\ ~m_bChannelsLoaded'
  BY DEF SetLoadPlaylist, apiVars, backendVars
<1>3. /\ at'[h] = "wait" /\ local'[h] = [local[h] EXCEPT !.stale = (root = "locked")]
      /\ root' = root
  BY <1>2, GotoHere DEF Ended
<1>4. local'[h].stale = (root = "locked") /\ local'[h].unlocked_now = local[h].unlocked_now
  BY <1>1, <1>3, LocalsReplaced, LocalsFields
<1>5. PinKept(h)' /\ Fresh(h)'
  BY <1>1, <1>2, <1>3, <1>4 DEF PinKept, Fresh, Asked
<1> QED
  BY <1>2, <1>5, RegetCall

LEMMA RegetWaited ==
    ASSUME TypeOK, RegetInv, NEW h \in Handlers, WaitForChannels(h) PROVE RegetInv'
<1>1. PinKept(h) /\ Fresh(h) /\ local[h] \in Local
  BY DEF RegetInv, TypeOK
<1>2. /\ Goto(h, "unlocked", [local[h] EXCEPT !.timed_out = ~m_bChannelsLoaded])
      /\ at[h] = "wait"
      /\ UNCHANGED <<m_sessionId, sessions, unlocked, pinSession, m_bChannelsLoaded>>
  BY DEF WaitForChannels, flags, apiVars, backendVars
<1>3. /\ at'[h] = "unlocked"
      /\ local'[h] = [local[h] EXCEPT !.timed_out = ~m_bChannelsLoaded]
      /\ UNCHANGED <<m_channels, root>>
  BY <1>2, GotoHere DEF Ended
<1>4. /\ local'[h].timed_out = ~m_bChannelsLoaded
      /\ local'[h].unlocked_now = local[h].unlocked_now
      /\ local'[h].stale = local[h].stale
  BY <1>1, <1>3, LocalsReplaced, LocalsFields
<1>5. PinKept(h)' /\ Fresh(h)'
  BY <1>1, <1>2, <1>3, <1>4 DEF PinKept, Fresh, Asked
<1> QED
  BY <1>2, <1>5, RegetCall

LEMMA RegetRecordings ==
    ASSUME TypeOK, RegetInv, NEW h \in Handlers, SetLoadRecordings(h) PROVE RegetInv'
<1>1. PinKept(h) /\ Fresh(h)
  BY DEF RegetInv
<1>2. /\ Goto(h, IF local[h].unlocked_now THEN "reget" ELSE "url", local[h])
      /\ at[h] = "unlocked"
      /\ UNCHANGED <<m_sessionId, sessions, unlocked, pinSession, m_bChannelsLoaded>>
  BY DEF SetLoadRecordings, flags, apiVars, backendVars
<1>3. /\ at'[h] = IF local[h].unlocked_now THEN "reget" ELSE "url"
      /\ local'[h] = local[h]
      /\ UNCHANGED <<m_channels, root>>
  BY <1>2, GotoHere DEF Ended
<1>4. PinKept(h)' /\ Fresh(h)'
  BY <1>1, <1>2, <1>3 DEF PinKept, Fresh, Asked
<1> QED
  BY <1>2, <1>4, RegetCall

LEMMA RegetRead ==
    ASSUME TypeOK, RegetInv, NEW h \in Handlers, ReadUrl(h) PROVE RegetInv'
<1>1. PinKept(h) /\ local[h] \in Local
  BY DEF RegetInv, TypeOK
<1>2. PICK seen \in Read(h) : Goto(h, "stream", [local[h] EXCEPT !.url = seen])
  BY DEF ReadUrl
<1>3. UNCHANGED <<m_sessionId, sessions, unlocked, pinSession, m_bChannelsLoaded>>
  BY DEF ReadUrl, flags, apiVars, backendVars
<1>4. at'[h] = "stream" /\ local'[h] = [local[h] EXCEPT !.url = seen]
  BY <1>2, GotoHere DEF Ended
<1>5. local'[h].unlocked_now = local[h].unlocked_now
  BY <1>1, <1>4, LocalsReplaced, LocalsFields
<1>6. PinKept(h)' /\ Fresh(h)'
  BY <1>1, <1>3, <1>4, <1>5 DEF PinKept, Fresh, Asked
<1> QED
  BY <1>2, <1>3, <1>6, RegetCall

LEMMA RegetCalls ==
    ASSUME TypeOK, RegetInv, NEW h \in Handlers, Call(h) PROVE RegetInv'
<1>1. CASE PinCheckUnlock(h)
  <2>1. PinKept(h) /\ at[h] = "check"
    BY <1>1 DEF RegetInv, PinCheckUnlock
  <2>2. PICK to \in {"url", "unlocked", "dialog"} : Goto(h, to, local[h])
    BY <1>1 DEF PinCheckUnlock
  <2> QED
    BY <1>1, <2>1, <2>2, RegetIdle DEF PinCheckUnlock, PinKept, flags, apiVars, backendVars
<1>2. CASE PinEnteringFails(h)
  <2>1. Goto(h, "failed", NoLocal) /\ unlocked \subseteq unlocked'
    BY <1>2 DEF PinEnteringFails
  <2> QED
    BY <1>2, <2>1, RegetIdle DEF PinEnteringFails, Ended, flags, apiVars
<1>3. CASE StreamProperties(h)
  BY <1>3, RegetIdle DEF StreamProperties, Ended, flags, apiVars, backendVars
<1>4. CASE GetChannelStreamUrl(h) \/ Reget(h)
  BY <1>4, RegetFound DEF GetChannelStreamUrl, Reget
<1>5. CASE PinEntered(h) \/ PinUnlock(h)
  BY <1>5, RegetPin
<1>6. CASE SetLoadPlaylist(h) \/ WaitForChannels(h) \/ SetLoadRecordings(h) \/ ReadUrl(h)
  BY <1>6, RegetAsked, RegetWaited, RegetRecordings, RegetRead
<1> QED
  BY <1>1, <1>2, <1>3, <1>4, <1>5, <1>6 DEF Call

LEMMA RegetStep == TypeOK /\ DrmInv /\ RegetInv /\ [Next]_vars => RegetInv'
<1> SUFFICES ASSUME TypeOK, DrmInv, RegetInv, [Next]_vars PROVE RegetInv'
  OBVIOUS
<1> USE DEF flags, apiVars, workerVars, callVars, kodiVars, backendVars
<1>1. CASE Login
  BY <1>1, RegetLogin
<1>2. CASE Loop \/ PlaylistJob \/ RecordingsJob
  BY <1>2, RegetAlone DEF Loop, PlaylistJob, RecordingsJob
<1>3. CASE FullRefresh \/ NoFullRefresh \/ KeepAliveHolds \/ KeepAliveFails
  BY <1>3, RegetAlone DEF FullRefresh, NoFullRefresh, KeepAliveHolds, KeepAliveFails
<1>4. CASE LoadPlayListFails
  BY <1>4, RegetAlone DEF LoadPlayListFails
<1>5. CASE LoadPlayListAnswered
  BY <1>5, RegetAnswered
<1>6. CASE LoadPlayListPublishes
  BY <1>6, RegetPublished
<1>7. CASE (\E l \in Listers : List(l)) \/ Destruct
  BY <1>7, RegetAlone DEF List, ListChannels, GetChannels, Destruct
<1>8. CASE \E h \in Handlers : Call(h)
  BY <1>8, RegetCalls
<1>9. CASE Terminated \/ UNCHANGED vars
  BY <1>9, RegetAlone DEF Terminated, vars
<1> QED
  BY <1>1, <1>2, <1>3, <1>4, <1>5, <1>6, <1>7, <1>8, <1>9 DEF Next, Worker, Kodi

\* "Reget the data" gets the unlocked channel, for any number of calls and
\* sessions, when the reload was asked for after the unlocking, the wait did not
\* time out and no login came in between: a locked playlist can then not be on
\* its way.
THEOREM RegetGetsUnlocked == Spec => []RegetUnlocked
<1>1. RegetInv => RegetUnlocked
  BY DEF RegetInv, Fresh, Asked, RegetUnlocked
<1> QED
  BY <1>1, RegetInit, RegetStep, DrmInit, DrmStep, TypeInit, TypeStep, PTL DEF Spec
=============================================================================
