------------------------------- MODULE Rounds -------------------------------
(***************************************************************************)
(* The rounds of the worker of sledovanitvcz::Data in time: which job runs *)
(* when, and what the destructor has to wait for.                          *)
(*                                                                         *)
(* Process goes round its jobs until m_bKeepAlive falls.  Two of them are  *)
(* run on request; four are limited by a CallLimiter each, of which one    *)
(* only raises a request and one only says that the guide is to be looked  *)
(* at.  A job is made of requests to the backend, which take their time; a *)
(* failed keep-alive makes the worker log in until that succeeds.          *)
(*                                                                         *)
(* Abstractions.  The clock is not kept: due is how far each limiter's     *)
(* mNextCall lies ahead of it, so that time passing is a subtraction.  A   *)
(* request takes up to MaxCall units, and a round one unit besides: the     *)
(* sleep, or what its own code takes.  A look at m_bKeepAlive is a step,   *)
(* and so is each request; looks with no request between them are one.     *)
(* Which requests a login has to make, module Pairing knows: here it is    *)
(* any of them, and any may fail.  What the jobs do to the playlist, the   *)
(* guide and the recordings is in the modules of these.  The model begins  *)
(* where the first login is done and the limiters are constructed.         *)
(***************************************************************************)
EXTENDS Integers

CONSTANTS
    m_keepAliveDelay,          \* the settings ...
    m_fullChannelEpgRefresh,
    m_loadingsRefresh,
    m_epgCheckDelay,
    LoginDelay,                \* ... and what LoginLoop waits between two logins
    MaxCall,                   \* the longest a request takes
    Urls,                      \* the most recordings there are to ask the address of
    MaxLogins                  \* bound: logins that fail in a row

ASSUME RoundsAssumption ==
    /\ m_keepAliveDelay \in Nat \ {0} /\ m_fullChannelEpgRefresh \in Nat \ {0}
    /\ m_loadingsRefresh \in Nat \ {0} /\ m_epgCheckDelay \in Nat \ {0}
    /\ LoginDelay \in Nat \ {0} /\ MaxCall \in Nat \ {0}
    /\ Urls \in Nat /\ MaxLogins \in Nat

VARIABLES
    \* guarded by m_mutex
    m_bKeepAlive,
    m_bLoadPlayList,
    m_bLoadRecordings,
    \* the worker
    pc,
    work_done,
    epg_updated,
    urls,            \* the addresses LoadRecordings has still to ask for
    login_delay,
    logins,          \* those that have failed in this LoginLoop
    due,             \* mNextCall of each limiter, from now
    \* history
    ages,            \* how long ago the last three calls of each limiter were
    held,            \* for how much of the time it has been due the worker was logging in
    lateRequests,    \* the kinds of the requests begun after m_bKeepAlive fell ...
    lateCount        \* ... and their number

flags     == <<m_bKeepAlive, m_bLoadPlayList, m_bLoadRecordings>>
loginVars == <<login_delay, logins>>
timeVars  == <<due, ages, held>>
lateVars  == <<lateRequests, lateCount>>
vars == <<flags, pc, work_done, epg_updated, urls, loginVars, timeVars, lateVars>>

-----------------------------------------------------------------------------
(* Values *)

\* Where the worker is about to make a request ...
Requests == {"getPlaylist", "getPvr", "urls", "refreshPlaylist", "getEpg", "getEarlier", "confirm",
             "deletePairing", "createPairing", "deviceLogin", "drmRegistration", "certificate"}

\* ... and where it is between them.
Labels == Requests \cup {"loop", "playlist", "recordings", "fullRefresh", "loadRecordings", "epg",
                         "earlier", "keepAlive", "login", "stopped"}

PairingRequests == {"deletePairing", "createPairing", "deviceLogin"}
LoginRequests   == PairingRequests \cup {"drmRegistration", "certificate"}

Kinds == {"getPlaylist", "getPvr", "getRecordingUrl", "getEpg", "keepAlive"} \cup LoginRequests

Limiters == {"fullRefresh", "loadRecordings", "epg", "keepAlive"}

Interval == [l \in Limiters |->
    IF l = "fullRefresh" THEN m_fullChannelEpgRefresh
    ELSE IF l = "loadRecordings" THEN m_loadingsRefresh
    ELSE IF l = "epg" THEN m_epgCheckDelay ELSE m_keepAliveDelay]

Capped(a, i) == IF a < i THEN a ELSE i

\* Ages are kept up to the interval.
Ages(last, second, third) == [last |-> last, second |-> second, third |-> third]
Older(a, t, i) == Ages(Capped(a.last + t, i), Capped(a.second + t, i), Capped(a.third + t, i))

\* How much of the next t units falls after what is due in d.
Overdue(d, t) == IF d <= 0 THEN t ELSE IF d < t THEN t - d ELSE 0

\* getCallLimiter's delayFirstCall is set for all but the guide's.
Init ==
    /\ m_bKeepAlive = TRUE
    /\ m_bLoadPlayList = TRUE
    /\ m_bLoadRecordings = TRUE
    /\ pc = "loop"
    /\ work_done = TRUE
    /\ epg_updated = FALSE
    /\ urls = 0
    /\ login_delay = 0
    /\ logins = 0
    /\ due = [l \in Limiters |-> IF l = "epg" THEN 0 ELSE Interval[l]]
    /\ ages = [l \in Limiters |-> Ages(Interval[l], Interval[l], Interval[l])]
    /\ held = [l \in Limiters |-> 0]
    /\ lateRequests = {}
    /\ lateCount = 0

-----------------------------------------------------------------------------
(* Time, the limiters and the requests *)

Elapse(t) ==
    /\ due' = [l \in Limiters |-> due[l] - t]
    /\ ages' = [l \in Limiters |-> Older(ages[l], t, Interval[l])]

Pass(t) == Elapse(t) /\ UNCHANGED held

\* In a login no limiter is looked at, however long it takes.
PassInLogin(t) ==
    /\ Elapse(t)
    /\ held' = [l \in Limiters |-> held[l] + Overdue(due[l], t)]

\* Mutant: mNextCall is advanced by the whole intervals that have passed, and not past now.
NextCall_Whole(l) == due[l] + Interval[l] * ((-due[l]) \div Interval[l])

\* CallLimiter::Call advances mNextCall by whole intervals while it is in the past.
NextCall(l) == due[l] % Interval[l]

Due(l) == due[l] <= 0

\* The limiter l calls.
Call(l) ==
    /\ Due(l)
    /\ due' = [due EXCEPT ![l] = NextCall(l)]
    /\ ages' = [ages EXCEPT ![l] = Ages(0, ages[l].last, ages[l].second)]
    /\ held' = [held EXCEPT ![l] = 0]

Durations == 0 .. MaxCall

Begin(kind) ==
    IF m_bKeepAlive THEN UNCHANGED lateVars
    ELSE lateRequests' = lateRequests \cup {kind} /\ lateCount' = lateCount + 1

\* A request of a job, after which the worker goes on at to.
Request(kind, to) ==
    /\ Begin(kind)
    /\ pc' = to
    /\ \E t \in Durations : Pass(t)

\* The worker goes on at to without a request.
Skip(to) == pc' = to /\ UNCHANGED lateVars

-----------------------------------------------------------------------------
(* Process *)

Loop ==
    /\ pc = "loop"
    /\ m_bKeepAlive
    /\ work_done' = FALSE
    /\ Skip("playlist")
    /\ Pass(1)
    /\ UNCHANGED <<flags, epg_updated, urls, loginVars>>

Stop ==
    /\ pc = "loop"
    /\ ~m_bKeepAlive
    /\ Skip("stopped")
    /\ UNCHANGED <<flags, work_done, epg_updated, urls, loginVars, timeVars>>

\* SimpleLoadJob(m_bLoadPlayList) ...
LoadPlayList ==
    /\ pc = "playlist"
    /\ m_bKeepAlive /\ m_bLoadPlayList
    /\ m_bLoadPlayList' = FALSE
    /\ work_done' = TRUE
    /\ Skip("getPlaylist")
    /\ UNCHANGED <<m_bKeepAlive, m_bLoadRecordings, epg_updated, urls, loginVars, timeVars>>

NoPlayList ==
    /\ pc = "playlist"
    /\ ~(m_bKeepAlive /\ m_bLoadPlayList)
    /\ Skip("recordings")
    /\ UNCHANGED <<flags, work_done, epg_updated, urls, loginVars, timeVars>>

GetPlaylist ==
    /\ pc = "getPlaylist"
    /\ Request("getPlaylist", "recordings")
    /\ UNCHANGED <<flags, work_done, epg_updated, urls, loginVars>>

\* ... and SimpleLoadJob(m_bLoadRecordings), whose job asks for the addresses of
\* the recordings if they have changed.
LoadRecordings ==
    /\ pc = "recordings"
    /\ m_bKeepAlive /\ m_bLoadRecordings
    /\ m_bLoadRecordings' = FALSE
    /\ work_done' = TRUE
    /\ Skip("getPvr")
    /\ UNCHANGED <<m_bKeepAlive, m_bLoadPlayList, epg_updated, urls, loginVars, timeVars>>

NoRecordings ==
    /\ pc = "recordings"
    /\ ~(m_bKeepAlive /\ m_bLoadRecordings)
    /\ Skip("fullRefresh")
    /\ UNCHANGED <<flags, work_done, epg_updated, urls, loginVars, timeVars>>

GetPvr ==
    /\ pc = "getPvr"
    /\ urls' \in 0 .. Urls
    /\ Request("getPvr", IF urls' = 0 THEN "fullRefresh" ELSE "urls")
    /\ UNCHANGED <<flags, work_done, epg_updated, loginVars>>

\* Nothing in the loop over the recordings looks at m_bKeepAlive.
GetRecordingUrl ==
    /\ pc = "urls"
    /\ urls' = urls - 1
    /\ Request("getRecordingUrl", IF urls' = 0 THEN "fullRefresh" ELSE "urls")
    /\ UNCHANGED <<flags, work_done, epg_updated, loginVars>>

\* A job whose limiter does not call is passed over.
NotDue(l, to) ==
    /\ pc = l
    /\ ~Due(l)
    /\ Skip(to)
    /\ UNCHANGED <<flags, work_done, epg_updated, urls, loginVars, timeVars>>

\* trigger_full_refresh: LoadPlayList again.
TriggerFullRefresh ==
    /\ pc = "fullRefresh"
    /\ work_done' = TRUE
    /\ Call("fullRefresh")
    /\ Skip(IF m_bKeepAlive THEN "refreshPlaylist" ELSE "loadRecordings")
    /\ UNCHANGED <<flags, epg_updated, urls, loginVars>>

RefreshPlaylist ==
    /\ pc = "refreshPlaylist"
    /\ Request("getPlaylist", "loadRecordings")
    /\ UNCHANGED <<flags, work_done, epg_updated, urls, loginVars>>

\* trigger_load_recordings: for the next round.
TriggerLoadRecordings ==
    /\ pc = "loadRecordings"
    /\ m_bLoadRecordings' = TRUE
    /\ work_done' = TRUE
    /\ Skip("epg")
    /\ Call("loadRecordings")
    /\ UNCHANGED <<m_bKeepAlive, m_bLoadPlayList, epg_updated, urls, loginVars>>

\* The limiter is asked first and epg_updated, the last job's result, after.
EpgDue == Call("epg") \/ (~Due("epg") /\ epg_updated /\ UNCHANGED timeVars)

\* Mutant: m_bKeepAlive is left to the loop.
LoadEPGJob_Regardless ==
    /\ pc = "epg"
    /\ work_done' = TRUE
    /\ EpgDue
    /\ \/ Skip("getEpg") /\ epg_updated' = TRUE
       \/ Skip("earlier") /\ epg_updated' = FALSE
    /\ UNCHANGED <<flags, urls, loginVars>>

\* LoadEPGJob: the first load is the only one of its job; otherwise a later day,
\* if there is one to load, and then an earlier one.
LoadEPGJob ==
    /\ pc = "epg"
    /\ work_done' = TRUE
    /\ EpgDue
    /\ \/ m_bKeepAlive /\ Skip("getEpg") /\ epg_updated' = TRUE
       \/ Skip("earlier") /\ epg_updated' = FALSE
    /\ UNCHANGED <<flags, urls, loginVars>>

GetEpg ==
    /\ pc = "getEpg"
    /\ \E to \in {"earlier", "keepAlive"} : Request("getEpg", to)
    /\ UNCHANGED <<flags, work_done, epg_updated, urls, loginVars>>

LoadEarlier ==
    /\ pc = "earlier"
    /\ \/ m_bKeepAlive /\ Skip("getEarlier") /\ epg_updated' = TRUE
       \/ Skip("keepAlive") /\ UNCHANGED epg_updated
    /\ UNCHANGED <<flags, work_done, urls, loginVars, timeVars>>

GetEarlier ==
    /\ pc = "getEarlier"
    /\ Request("getEpg", "keepAlive")
    /\ UNCHANGED <<flags, work_done, epg_updated, urls, loginVars>>

NoEPGJob == ~epg_updated /\ NotDue("epg", "keepAlive")

\* Mutant: work_done || keep_alive_job.Call().
KeepAliveJob_Shortcut ==
    /\ pc = "keepAlive"
    /\ \/ work_done /\ Skip("loop") /\ UNCHANGED <<work_done, timeVars>>
       \/ /\ ~work_done
          /\ work_done' = TRUE
          /\ Call("keepAlive")
          /\ Skip(IF m_bKeepAlive THEN "confirm" ELSE "loop")
    /\ UNCHANGED <<flags, epg_updated, urls, loginVars>>

KeepAliveJob ==
    /\ pc = "keepAlive"
    /\ work_done' = TRUE
    /\ Call("keepAlive")
    /\ Skip(IF m_bKeepAlive THEN "confirm" ELSE "loop")
    /\ UNCHANGED <<flags, epg_updated, urls, loginVars>>

\* The backend confirms the session, or LoginLoop begins.
KeepAlive ==
    /\ pc = "confirm"
    /\ \E to \in {"loop", "login"} : Request("keepAlive", to)
    /\ UNCHANGED <<flags, work_done, epg_updated, urls, loginVars>>

-----------------------------------------------------------------------------
(* LoginLoop, within keep_alive_job *)

\* With a pairing kept, in memory or in the file, login() asks for the session
\* at once, else it makes one, if needed without the previous.
LoginBegins ==
    /\ pc = "login"
    /\ m_bKeepAlive
    /\ login_delay = 0
    /\ \E request \in PairingRequests : Skip(request)
    /\ UNCHANGED <<flags, work_done, epg_updated, urls, loginVars, timeVars>>

\* A request that login() gives up with, and the first second of the wait.
LoginFails(t) ==
    /\ logins < MaxLogins
    /\ logins' = logins + 1
    /\ login_delay' = LoginDelay - 1
    /\ pc' = "login"
    /\ PassInLogin(t + 1)

\* One request of login(), which goes on with the next without another look at
\* m_bKeepAlive.
LoginRequest(kind, next) ==
    /\ pc = kind
    /\ Begin(kind)
    /\ \E t \in Durations :
        \/ pc' = next /\ PassInLogin(t) /\ UNCHANGED loginVars
        \/ LoginFails(t)
    /\ UNCHANGED <<flags, work_done, epg_updated, urls>>

DeletePairing == LoginRequest("deletePairing", "createPairing")
CreatePairing == LoginRequest("createPairing", "deviceLogin")
DeviceLogin   == LoginRequest("deviceLogin", "drmRegistration")

\* Mutant: the unsigned counter goes below 0.
LoginWaits_Below ==
    /\ pc = "login"
    /\ m_bKeepAlive
    /\ login_delay' = login_delay - 1
    /\ Skip("login")
    /\ PassInLogin(1)
    /\ UNCHANGED <<flags, work_done, epg_updated, urls, logins>>

LoginWaits ==
    /\ pc = "login"
    /\ m_bKeepAlive
    /\ login_delay > 0
    /\ login_delay' = login_delay - 1
    /\ Skip("login")
    /\ PassInLogin(1)
    /\ UNCHANGED <<flags, work_done, epg_updated, urls, logins>>

LoginAbandoned ==
    /\ pc = "login"
    /\ ~m_bKeepAlive
    /\ logins' = 0
    /\ login_delay' = 0
    /\ Skip("loop")
    /\ UNCHANGED <<flags, work_done, epg_updated, urls, timeVars>>

\* registerDrm: the certificate is fetched if the registration has told where it is.
DrmRegistration ==
    /\ pc = "drmRegistration"
    /\ Begin("drmRegistration")
    /\ pc' \in {"certificate", "loop"}
    /\ logins' = 0
    /\ \E t \in Durations : PassInLogin(t)
    /\ UNCHANGED <<flags, work_done, epg_updated, urls, login_delay>>

Certificate ==
    /\ pc = "certificate"
    /\ Begin("certificate")
    /\ pc' = "loop"
    /\ \E t \in Durations : PassInLogin(t)
    /\ UNCHANGED <<flags, work_done, epg_updated, urls, loginVars>>

-----------------------------------------------------------------------------
(* Kodi *)

\* A timer, a deletion, a PIN: SetLoadRecordings, SetLoadPlaylist.
SetLoad ==
    /\ m_bLoadRecordings' = TRUE
    /\ m_bLoadPlayList' \in {m_bLoadPlayList, TRUE}
    /\ UNCHANGED <<m_bKeepAlive, pc, work_done, epg_updated, urls, loginVars, timeVars, lateVars>>

Destruct ==
    /\ m_bKeepAlive
    /\ m_bKeepAlive' = FALSE
    /\ UNCHANGED <<m_bLoadPlayList, m_bLoadRecordings, pc, work_done, epg_updated, urls, loginVars,
                   timeVars, lateVars>>

-----------------------------------------------------------------------------
Login ==
    \/ LoginBegins
    \/ DeletePairing
    \/ CreatePairing
    \/ DeviceLogin
    \/ LoginWaits
    \/ LoginAbandoned
    \/ DrmRegistration
    \/ Certificate

Worker ==
    \/ Loop
    \/ Stop
    \/ LoadPlayList
    \/ NoPlayList
    \/ GetPlaylist
    \/ LoadRecordings
    \/ NoRecordings
    \/ GetPvr
    \/ GetRecordingUrl
    \/ TriggerFullRefresh
    \/ NotDue("fullRefresh", "loadRecordings")
    \/ RefreshPlaylist
    \/ TriggerLoadRecordings
    \/ NotDue("loadRecordings", "epg")
    \/ LoadEPGJob
    \/ NoEPGJob
    \/ GetEpg
    \/ LoadEarlier
    \/ GetEarlier
    \/ KeepAliveJob
    \/ NotDue("keepAlive", "loop")
    \/ KeepAlive
    \/ Login

\* The process ends when the worker has stopped.
Terminated == pc = "stopped" /\ UNCHANGED vars

Next == Worker \/ SetLoad \/ Destruct \/ Terminated

Spec == Init /\ [][Next]_vars

-----------------------------------------------------------------------------
(* Properties *)

\* Every variable keeps its shape; login_delay, an unsigned, never wraps.
TypeOK ==
    /\ m_bKeepAlive \in BOOLEAN /\ m_bLoadPlayList \in BOOLEAN /\ m_bLoadRecordings \in BOOLEAN
    /\ pc \in Labels /\ work_done \in BOOLEAN /\ epg_updated \in BOOLEAN
    /\ urls \in 0 .. Urls /\ (pc = "urls" => urls > 0)
    /\ login_delay \in 0 .. LoginDelay - 1 /\ logins \in 0 .. MaxLogins
    /\ due \in [Limiters -> Int] /\ held \in [Limiters -> Nat]
    /\ ages \in [Limiters -> [last : Nat, second : Nat, third : Nat]]
    /\ \A l \in Limiters : ages[l].third <= Interval[l]
    /\ lateRequests \subseteq Kinds /\ lateCount \in Nat

\* Where Call() calls.
Calls(l) == pc = l /\ Due(l)

\* "Limit calls ... to once per interval": a limiter calls only when an interval
\* has passed since its last call.  This is what CallLimiter.hh says and what it
\* does not do: the next call is due on a grid, and not an interval after a late
\* one.
OncePerInterval == \A l \in Limiters : Calls(l) => ages[l].last >= Interval[l]

\* What CallLimiter does instead, whatever time the rounds and the logins take:
\* of four calls the last comes an interval or more after the first.  Three may
\* come in one, as a late call brings the next one nearer and a point of the grid
\* that is met exactly calls twice; but the grid never has a limiter call in turn
\* for the intervals it has missed.
PacedCalls == \A l \in Limiters : Calls(l) => ages[l].third >= Interval[l]

\* What a round takes at most: itself, a playlist, the recordings and their
\* addresses, a full refresh, two loads of the guide and a keep-alive.
Round == 1 + (Urls + 6) * MaxCall

\* A job waits for at most a round from when its limiter would let it run, not
\* counting what LoginLoop has taken of that time, however much the other jobs
\* have to do.  LoginLoop holds up every job, the next keep-alive too, for as long
\* as logins fail, and there is no bound on that.
JobsInTime == \A l \in Limiters : -due[l] <= Round + held[l]

\* The jobs by the kinds of their requests and the most of these.
Jobs ==
    { [kinds |-> {"getPlaylist"}, most |-> 1],
      [kinds |-> {"getPvr", "getRecordingUrl"}, most |-> 1 + Urls],
      [kinds |-> {"getEpg"}, most |-> 1],
      [kinds |-> {"keepAlive"}, most |-> 1],
      [kinds |-> LoginRequests, most |-> 5] }

\* What the destructor waits for after it has lowered m_bKeepAlive: the request
\* under way and those that are left of the one job that had passed its last look
\* at m_bKeepAlive, at most all the addresses of the recordings or one login from
\* delete-pairing to the certificate; never for a second job, or a second login.
StopsSoon == \E job \in Jobs : lateRequests \subseteq job.kinds /\ lateCount <= job.most
=============================================================================
