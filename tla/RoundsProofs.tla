---------------------------- MODULE RoundsProofs ----------------------------
(***************************************************************************)
(* Theorems about Rounds, for every choice of its constants.               *)
(***************************************************************************)
EXTENDS Rounds, TLAPS

(* The grid of a limiter *)

LEMMA Products ==
    ASSUME NEW i \in Nat \ {0}, NEW q \in Int
    PROVE  /\ q >= 0 => i * q >= 0
           /\ q <= -1 => i * q <= -i
<1>1. ASSUME q >= 0 PROVE i * q >= 0
  BY <1>1
<1>2. ASSUME q <= -1 PROVE i * q <= -i
  <2>1. i * (q + 1) = i * q + i
    OBVIOUS
  <2>2. \A m \in Nat, n \in Int : n <= 0 => m * n <= 0
    OBVIOUS
  <2>3. i * (q + 1) <= 0
    BY <1>2, <2>2
  <2> QED
    BY <2>1, <2>3
<1> QED
  BY <1>1, <1>2

\* CallLimiter's loop ends at the first point of the grid that is not past, at
\* least an interval after one that was.
LEMMA NextOnGrid ==
    ASSUME NEW i \in Nat \ {0}, NEW d \in Int
    PROVE  /\ d % i \in 0 .. i - 1
           /\ d < 0 => d % i >= d + i
           /\ d = 0 => d % i = 0
<1>1. d % i \in 0 .. i - 1 /\ d \div i \in Int /\ d = i * (d \div i) + (d % i)
  OBVIOUS
<1>2. ASSUME d < 0 PROVE d % i >= d + i
  <2> DEFINE p == i * (d \div i)
             r == d % i
  <2>1. d \div i < 0
    BY <1>1, <1>2, Products
  <2>2. p \in Int /\ p <= -i
    BY <1>1, <2>1, Products
  <2>3. r \in Int /\ d = p + r
    BY <1>1
  <2> HIDE DEF p, r
  <2>4. r >= d + i
    BY <2>2, <2>3
  <2> QED
    BY <2>4 DEF r
<1>3. ASSUME d = 0 PROVE d % i = 0
  <2> DEFINE p == i * (d \div i)
             r == d % i
  <2>1. (d \div i >= 0 => p >= 0) /\ (d \div i <= -1 => p <= -i) /\ p \in Int
    BY <1>1, Products
  <2>2. p >= 0 \/ p <= -i
    BY <1>1, <2>1
  <2>3. r \in 0 .. i - 1 /\ d = p + r
    BY <1>1
  <2> HIDE DEF p, r
  <2>4. r = 0
    BY <1>3, <2>1, <2>2, <2>3
  <2> QED
    BY <2>4 DEF r
<1> QED
  BY <1>1, <1>2, <1>3

(* What is known of one limiter: a are the ages of its last calls, d is how far  *)
(* its next one is due and i is its interval.  The next call is never due before *)
(* the last; an interval after the one before that, unless it is due where the   *)
(* last one was; and always an interval after the third.                         *)

AgesType == [last : Nat, second : Nat, third : Nat]

Paced(a, d, i) ==
    /\ a.last <= a.second /\ a.second <= a.third /\ a.third <= i
    /\ a.last = i \/ d + a.last >= 0
    /\ a.second = i \/ d + a.second >= i \/ d + a.last = 0
    /\ a.third = i \/ d + a.third >= i

LEMMA PacedInTime ==
    ASSUME NEW i \in Nat \ {0}, NEW a \in AgesType, NEW d \in Int, NEW t \in Nat, Paced(a, d, i)
    PROVE  /\ Older(a, t, i) \in AgesType
           /\ Paced(Older(a, t, i), d - t, i)
           /\ Older(a, t, i).last >= a.last
           /\ t >= 1 => Older(a, t, i).last >= 1
  BY DEF AgesType, Paced, Older, Ages, Capped

LEMMA PacedByCall ==
    ASSUME NEW i \in Nat \ {0}, NEW a \in AgesType, NEW d \in Int, NEW n \in Int,
           Paced(a, d, i), d <= 0, a.last >= 1,
           n \in 0 .. i - 1, d < 0 => n >= d + i, d = 0 => n = 0
    PROVE  /\ Ages(0, a.last, a.second) \in AgesType
           /\ Paced(Ages(0, a.last, a.second), n, i)
           /\ a.third = i
  BY DEF AgesType, Paced, Ages

(* The limiters of the worker *)

\* Where a round has not yet come past the limiter's place in it.
Ahead(l) ==
    {"playlist", "getPlaylist", "recordings", "getPvr", "urls", "fullRefresh"}
        \cup (IF l = "fullRefresh" THEN {} ELSE {"refreshPlaylist", "loadRecordings"})
        \cup (IF l \in {"fullRefresh", "loadRecordings"} THEN {} ELSE {"epg"})
        \cup (IF l = "keepAlive" THEN {"getEpg", "earlier", "getEarlier", "keepAlive"} ELSE {})

AllPaced ==
    /\ due \in [Limiters -> Int]
    /\ ages \in [Limiters -> AgesType]
    /\ \A l \in Limiters : Paced(ages[l], due[l], Interval[l])

\* A unit has passed since the last call of each limiter that is still ahead.
PacedInv ==
    /\ AllPaced
    /\ \A l \in Limiters : pc \in Ahead(l) => ages[l].last >= 1

LEMMA Intervals == \A l \in Limiters : Interval[l] \in Nat \ {0}
  BY RoundsAssumption DEF Interval, Limiters

LEMMA PacedInit == Init => PacedInv
<1> SUFFICES ASSUME Init PROVE PacedInv
  OBVIOUS
<1>1. due \in [Limiters -> Int] /\ ages \in [Limiters -> AgesType]
  BY Intervals DEF Init, Ages, AgesType
<1>2. ASSUME NEW l \in Limiters PROVE Paced(ages[l], due[l], Interval[l])
  BY Intervals DEF Init, Ages, Paced
<1>3. ASSUME NEW l \in Limiters PROVE ages[l].last >= 1
  BY Intervals DEF Init, Ages
<1> QED
  BY <1>1, <1>2, <1>3 DEF Init, PacedInv, AllPaced

LEMMA ElapsePaced ==
    ASSUME AllPaced, NEW t \in Nat, Elapse(t)
    PROVE  /\ AllPaced'
           /\ \A l \in Limiters : /\ ages'[l].last >= ages[l].last
                                  /\ t >= 1 => ages'[l].last >= 1
<1>1. ASSUME NEW l \in Limiters
      PROVE  /\ due'[l] = due[l] - t /\ due'[l] \in Int
             /\ ages'[l] = Older(ages[l], t, Interval[l])
             /\ ages'[l] \in AgesType
             /\ Paced(ages'[l], due'[l], Interval[l])
             /\ ages'[l].last >= ages[l].last
             /\ t >= 1 => ages'[l].last >= 1
  <2>1. due'[l] = due[l] - t /\ due'[l] \in Int /\ ages'[l] = Older(ages[l], t, Interval[l])
    BY DEF AllPaced, Elapse
  <2>2. ages[l] \in AgesType /\ due[l] \in Int /\ Paced(ages[l], due[l], Interval[l])
    BY DEF AllPaced
  <2> QED
    BY <2>1, <2>2, Intervals, PacedInTime
<1>2. due' \in [Limiters -> Int] /\ ages' \in [Limiters -> AgesType]
  BY <1>1 DEF Elapse
<1> QED
  BY <1>1, <1>2 DEF AllPaced

LEMMA CallPaced ==
    ASSUME AllPaced, NEW c \in Limiters, Call(c), ages[c].last >= 1
    PROVE  /\ AllPaced'
           /\ NextCall(c) \in Nat
           /\ \A l \in Limiters \ {c} : ages'[l] = ages[l]
<1> DEFINE n == NextCall(c)
<1>1. /\ due[c] \in Int /\ ages[c] \in AgesType /\ Paced(ages[c], due[c], Interval[c])
      /\ Interval[c] \in Nat \ {0}
  BY Intervals DEF AllPaced
<1>2. /\ n \in 0 .. Interval[c] - 1
      /\ due[c] < 0 => n >= due[c] + Interval[c]
      /\ due[c] = 0 => n = 0
  BY <1>1, NextOnGrid DEF NextCall
<1>3. /\ due[c] <= 0
      /\ due' = [due EXCEPT ![c] = n]
      /\ ages' = [ages EXCEPT ![c] = Ages(0, ages[c].last, ages[c].second)]
  BY DEF Call, Due
<1> HIDE DEF n
<1>4. /\ n \in Nat
      /\ Ages(0, ages[c].last, ages[c].second) \in AgesType
      /\ Paced(Ages(0, ages[c].last, ages[c].second), n, Interval[c])
  <2>1. n \in Int /\ n \in Nat
    BY <1>1, <1>2
  <2> QED
    BY <1>1, <1>2, <1>3, <2>1, PacedByCall
<1>5. due' \in [Limiters -> Int] /\ ages' \in [Limiters -> AgesType]
  BY <1>3, <1>4 DEF AllPaced
<1>6. ASSUME NEW l \in Limiters
      PROVE  Paced(ages'[l], due'[l], Interval[l]) /\ (l # c => ages'[l] = ages[l])
  <2>1. CASE l = c
    <3>1. due'[l] = n /\ ages'[l] = Ages(0, ages[c].last, ages[c].second)
      BY <1>3, <2>1 DEF AllPaced
    <3> QED
      BY <1>4, <2>1, <3>1
  <2>2. CASE l # c
    <3>1. due'[l] = due[l] /\ ages'[l] = ages[l]
      BY <1>3, <2>2 DEF AllPaced
    <3> QED
      BY <3>1 DEF AllPaced
  <2> QED
    BY <2>1, <2>2
<1> QED
  BY <1>4, <1>5, <1>6 DEF AllPaced, n

\* Steps that call no limiter: what lay ahead before the step did so already.
LEMMA QuietStep ==
    ASSUME PacedInv, UNCHANGED <<due, ages>>,
           \A l \in Limiters : pc' \in Ahead(l) => pc \in Ahead(l)
    PROVE  PacedInv'
  BY DEF PacedInv, AllPaced, Ahead

LEMMA TimeStep ==
    ASSUME PacedInv, NEW t \in Nat, Elapse(t),
           t >= 1 \/ \A l \in Limiters : pc' \in Ahead(l) => pc \in Ahead(l)
    PROVE  PacedInv'
<1>1. /\ AllPaced'
      /\ \A l \in Limiters : /\ ages'[l].last >= ages[l].last
                             /\ t >= 1 => ages'[l].last >= 1
  BY ElapsePaced DEF PacedInv
<1>2. ASSUME NEW l \in Limiters, pc' \in Ahead(l) PROVE ages'[l].last >= 1
  <2>1. ages[l].last \in Nat /\ ages'[l].last \in Nat
    BY <1>1 DEF PacedInv, AllPaced, AgesType
  <2>2. CASE t >= 1
    BY <1>1, <2>2
  <2>3. CASE \A k \in Limiters : pc' \in Ahead(k) => pc \in Ahead(k)
    <3>1. ages[l].last >= 1
      BY <1>2, <2>3 DEF PacedInv
    <3> QED
      BY <1>1, <2>1, <3>1
  <2> QED
    BY <2>2, <2>3
<1> QED
  BY <1>1, <1>2 DEF PacedInv, Ahead

\* A limiter is called where the round comes to it, and the round goes on.
LEMMA CallStep ==
    ASSUME PacedInv, NEW c \in Limiters, Call(c),
           pc \in Ahead(c), pc' \notin Ahead(c),
           \A l \in Limiters : pc' \in Ahead(l) => pc \in Ahead(l)
    PROVE  PacedInv'
<1>1. AllPaced' /\ \A l \in Limiters \ {c} : ages'[l] = ages[l]
  BY CallPaced DEF PacedInv
<1>2. ASSUME NEW l \in Limiters, pc' \in Ahead(l) PROVE ages'[l].last >= 1
  <2>1. l # c
    BY <1>2
  <2>2. ages[l].last >= 1
    BY <1>2 DEF PacedInv
  <2> QED
    BY <1>1, <2>1, <2>2
<1> QED
  BY <1>1, <1>2 DEF PacedInv, Ahead

LEMMA Lasts == Durations \subseteq Nat /\ \A t \in Durations : t + 1 \in Nat
  BY RoundsAssumption DEF Durations

\* The steps of the worker by what they do to the limiters: those between two
\* requests, ...
Between ==
    \/ Stop \/ LoadPlayList \/ NoPlayList \/ LoadRecordings \/ NoRecordings
    \/ NotDue("fullRefresh", "loadRecordings") \/ NotDue("loadRecordings", "epg")
    \/ NoEPGJob \/ LoadEarlier \/ NotDue("keepAlive", "loop")

\* ... the requests of jobs, and the jobs with a limiter.
Asking == GetPlaylist \/ GetPvr \/ GetRecordingUrl \/ RefreshPlaylist \/ GetEpg \/ GetEarlier \/ KeepAlive

Limited == TriggerFullRefresh \/ TriggerLoadRecordings \/ LoadEPGJob \/ KeepAliveJob

LEMMA WorkerSteps == Worker => Loop \/ Between \/ Asking \/ Limited \/ Login
  BY DEF Worker, Between, Asking, Limited

LEMMA BetweenTimes ==
    ASSUME Between
    PROVE  UNCHANGED timeVars /\ UNCHANGED lateVars /\ urls' = urls
  BY DEF Between, Stop, LoadPlayList, NoPlayList, LoadRecordings, NoRecordings, NotDue, NoEPGJob,
         LoadEarlier, Skip

LEMMA BetweenAhead ==
    ASSUME Between
    PROVE  \A l \in Limiters : pc' \in Ahead(l) => pc \in Ahead(l)
<1>1. CASE Stop \/ LoadPlayList \/ NoPlayList \/ LoadRecordings \/ NoRecordings
  BY <1>1 DEF Stop, LoadPlayList, NoPlayList, LoadRecordings, NoRecordings, Skip, Ahead
<1>2. CASE NotDue("fullRefresh", "loadRecordings") \/ NotDue("loadRecordings", "epg")
  BY <1>2 DEF NotDue, Skip, Ahead
<1>3. CASE NoEPGJob \/ LoadEarlier \/ NotDue("keepAlive", "loop")
  BY <1>3 DEF NotDue, NoEPGJob, LoadEarlier, Skip, Ahead
<1> QED
  BY <1>1, <1>2, <1>3 DEF Between

LEMMA AskingTimes ==
    ASSUME Asking
    PROVE  \E t \in Durations : Pass(t)
  BY DEF Asking, GetPlaylist, GetPvr, GetRecordingUrl, RefreshPlaylist, GetEpg, GetEarlier,
         KeepAlive, Request

LEMMA AskingAhead ==
    ASSUME Asking
    PROVE  \A l \in Limiters : pc' \in Ahead(l) <=> pc \in Ahead(l)
<1>1. CASE GetPlaylist \/ RefreshPlaylist \/ GetEarlier
  BY <1>1 DEF GetPlaylist, RefreshPlaylist, GetEarlier, Request, Ahead
<1>2. CASE GetPvr \/ GetRecordingUrl
  <2>1. pc \in {"getPvr", "urls"} /\ pc' \in {"urls", "fullRefresh"}
    BY <1>2 DEF GetPvr, GetRecordingUrl, Request
  <2> QED
    BY <2>1 DEF Ahead
<1>3. CASE GetEpg
  <2>1. pc = "getEpg" /\ pc' \in {"earlier", "keepAlive"}
    BY <1>3 DEF GetEpg, Request
  <2> QED
    BY <2>1 DEF Ahead
<1>4. CASE KeepAlive
  <2>1. pc = "confirm" /\ pc' \in {"loop", "login"}
    BY <1>4 DEF KeepAlive, Request
  <2> QED
    BY <2>1 DEF Ahead
<1> QED
  BY <1>1, <1>2, <1>3, <1>4 DEF Asking

\* Where a login begins, is and ends.
LoginLabels == LoginRequests \cup {"login"}

LEMMA LoginPlaces ==
    ASSUME Login
    PROVE  /\ pc \in LoginLabels /\ pc' \in LoginLabels \cup {"loop"}
           /\ urls' = urls
           /\ \A l \in Limiters : pc \notin Ahead(l) /\ pc' \notin Ahead(l)
<1>1. pc \in LoginLabels /\ pc' \in LoginLabels \cup {"loop"} /\ urls' = urls
  <2> USE DEF LoginLabels, LoginRequests, PairingRequests
  <2>1. CASE LoginBegins \/ LoginWaits \/ LoginAbandoned
    BY <2>1 DEF LoginBegins, LoginWaits, LoginAbandoned, Skip
  <2>2. CASE DeletePairing \/ CreatePairing \/ DeviceLogin
    BY <2>2 DEF DeletePairing, CreatePairing, DeviceLogin, LoginRequest, LoginFails
  <2>3. CASE DrmRegistration \/ Certificate
    BY <2>3 DEF DrmRegistration, Certificate
  <2> QED
    BY <2>1, <2>2, <2>3 DEF Login
<1> QED
  BY <1>1 DEF LoginLabels, LoginRequests, PairingRequests, Ahead

LEMMA LoginTimes ==
    ASSUME Login
    PROVE  UNCHANGED timeVars \/ \E t \in Nat : PassInLogin(t)
<1>1. CASE LoginBegins \/ LoginWaits \/ LoginAbandoned
  BY <1>1 DEF LoginBegins, LoginWaits, LoginAbandoned
<1>2. CASE DeletePairing \/ CreatePairing \/ DeviceLogin
  BY <1>2, Lasts DEF DeletePairing, CreatePairing, DeviceLogin, LoginRequest, LoginFails
<1>3. CASE DrmRegistration \/ Certificate
  BY <1>3, Lasts DEF DrmRegistration, Certificate
<1> QED
  BY <1>1, <1>2, <1>3 DEF Login

\* Where the jobs with a limiter are in the round.
LEMMA LimitedPlaces ==
    /\ TriggerFullRefresh => /\ pc = "fullRefresh" /\ pc' \in {"refreshPlaylist", "loadRecordings"}
                             /\ Call("fullRefresh")
    /\ TriggerLoadRecordings => pc = "loadRecordings" /\ pc' = "epg" /\ Call("loadRecordings")
    /\ LoadEPGJob => pc = "epg" /\ pc' \in {"getEpg", "earlier"} /\ EpgDue
    /\ KeepAliveJob => pc = "keepAlive" /\ pc' \in {"confirm", "loop"} /\ Call("keepAlive")
    /\ Limited => urls' = urls /\ UNCHANGED lateVars
  BY DEF Limited, TriggerFullRefresh, TriggerLoadRecordings, LoadEPGJob, KeepAliveJob, Skip

LEMMA PacedWorker == PacedInv /\ Worker => PacedInv'
<1> SUFFICES ASSUME PacedInv, Worker PROVE PacedInv'
  OBVIOUS
<1>1. CASE Loop
  BY <1>1, TimeStep DEF Loop, Pass
<1>2. CASE Between
  BY <1>2, BetweenTimes, BetweenAhead, QuietStep DEF timeVars
<1>3. CASE Asking
  <2>1. PICK t \in Durations : Pass(t)
    BY <1>3, AskingTimes
  <2> QED
    BY <1>3, <2>1, AskingAhead, Lasts, TimeStep DEF Pass
<1>4. CASE Limited
  <2>1. CASE TriggerFullRefresh
    BY <2>1, LimitedPlaces, CallStep DEF Ahead, Limiters
  <2>2. CASE TriggerLoadRecordings
    BY <2>2, LimitedPlaces, CallStep DEF Ahead, Limiters
  <2>3. CASE LoadEPGJob
    <3>1. pc = "epg" /\ pc' \in {"getEpg", "earlier"} /\ EpgDue
      BY <2>3, LimitedPlaces
    <3>2. CASE Call("epg")
      BY <3>1, <3>2, CallStep DEF Ahead, Limiters
    <3>3. CASE UNCHANGED timeVars
      BY <3>1, <3>3, QuietStep DEF Ahead, timeVars
    <3> QED
      BY <3>1, <3>2, <3>3 DEF EpgDue
  <2>4. CASE KeepAliveJob
    BY <2>4, LimitedPlaces, CallStep DEF Ahead, Limiters
  <2> QED
    BY <1>4, <2>1, <2>2, <2>3, <2>4 DEF Limited
<1>5. CASE Login
  <2>1. \A l \in Limiters : pc' \notin Ahead(l)
    BY <1>5, LoginPlaces
  <2>2. CASE UNCHANGED timeVars
    BY <2>1, <2>2, QuietStep DEF timeVars
  <2>3. CASE \E t \in Nat : PassInLogin(t)
    BY <2>1, <2>3, TimeStep DEF PassInLogin
  <2> QED
    BY <1>5, <2>2, <2>3, LoginTimes
<1> QED
  BY <1>1, <1>2, <1>3, <1>4, <1>5, WorkerSteps

LEMMA PacedStep == PacedInv /\ [Next]_vars => PacedInv'
<1> SUFFICES ASSUME PacedInv, [Next]_vars PROVE PacedInv'
  OBVIOUS
<1>1. CASE Worker
  BY <1>1, PacedWorker
<1>2. CASE UNCHANGED <<pc, due, ages>>
  BY <1>2, QuietStep
<1> QED
  BY <1>1, <1>2 DEF Next, SetLoad, Destruct, Terminated, vars, timeVars

\* However long the rounds and the logins are, a limiter's fourth call never
\* comes within an interval of its first: CallLimiter's grid keeps up with the
\* clock in one call.
THEOREM LimitersArePaced == Spec => []PacedCalls
<1>1. PacedInv => PacedCalls
  <2> SUFFICES ASSUME PacedInv, NEW l \in Limiters, Calls(l)
               PROVE  ages[l].third >= Interval[l]
    BY DEF PacedCalls
  <2>1. /\ ages[l] \in AgesType /\ due[l] \in Int /\ Paced(ages[l], due[l], Interval[l])
        /\ Interval[l] \in Nat /\ due[l] <= 0
    BY Intervals DEF PacedInv, AllPaced, Calls, Due
  <2> QED
    BY <2>1 DEF Paced, AgesType
<1> QED
  BY <1>1, PacedInit, PacedStep, PTL DEF Spec

(* Types *)

ControlTypes ==
    /\ m_bKeepAlive \in BOOLEAN /\ m_bLoadPlayList \in BOOLEAN /\ m_bLoadRecordings \in BOOLEAN
    /\ pc \in Labels /\ work_done \in BOOLEAN /\ epg_updated \in BOOLEAN
    /\ urls \in 0 .. Urls /\ (pc = "urls" => urls > 0)
    /\ login_delay \in 0 .. LoginDelay - 1 /\ logins \in 0 .. MaxLogins
    /\ lateRequests \subseteq Kinds /\ lateCount \in Nat

\* A request that begins after the shutdown adds itself.
LEMMA BeginTypes ==
    ASSUME NEW kind \in Kinds, Begin(kind), lateRequests \subseteq Kinds, lateCount \in Nat
    PROVE  lateRequests' \subseteq Kinds /\ lateCount' \in Nat
  BY DEF Begin, lateVars

LEMMA ControlAsking == ControlTypes /\ Asking => ControlTypes'
<1> SUFFICES ASSUME ControlTypes, Asking PROVE ControlTypes'
  OBVIOUS
<1> USE RoundsAssumption DEF ControlTypes, Labels, Requests, Kinds, LoginRequests, PairingRequests
<1>1. CASE GetPlaylist \/ RefreshPlaylist
  <2>1. Begin("getPlaylist") /\ pc' \in {"recordings", "loadRecordings"}
    BY <1>1 DEF GetPlaylist, RefreshPlaylist, Request
  <2> QED
    BY <1>1, <2>1, BeginTypes DEF GetPlaylist, RefreshPlaylist, flags, loginVars
<1>2. CASE GetPvr
  <2>1. /\ urls' \in 0 .. Urls /\ pc' \in {"fullRefresh", "urls"} /\ (pc' = "urls" => urls' > 0)
        /\ Begin("getPvr")
    BY <1>2 DEF GetPvr, Request
  <2> QED
    BY <1>2, <2>1, BeginTypes DEF GetPvr, flags, loginVars
<1>3. CASE GetRecordingUrl
  <2>1. /\ urls' \in 0 .. Urls /\ pc' \in {"fullRefresh", "urls"} /\ (pc' = "urls" => urls' > 0)
        /\ Begin("getRecordingUrl")
    BY <1>3 DEF GetRecordingUrl, Request
  <2> QED
    BY <1>3, <2>1, BeginTypes DEF GetRecordingUrl, flags, loginVars
<1>4. CASE GetEpg \/ GetEarlier
  <2>1. Begin("getEpg") /\ pc' \in {"earlier", "keepAlive"}
    BY <1>4 DEF GetEpg, GetEarlier, Request
  <2> QED
    BY <1>4, <2>1, BeginTypes DEF GetEpg, GetEarlier, flags, loginVars
<1>5. CASE KeepAlive
  <2>1. Begin("keepAlive") /\ pc' \in {"loop", "login"}
    BY <1>5 DEF KeepAlive, Request
  <2> QED
    BY <1>5, <2>1, BeginTypes DEF KeepAlive, flags, loginVars
<1> QED
  BY <1>1, <1>2, <1>3, <1>4, <1>5 DEF Asking

\* A request of a login, and what comes after it.
LEMMA LoginRequestStep ==
    ASSUME NEW kind, NEW next, LoginRequest(kind, next)
    PROVE  /\ pc = kind /\ Begin(kind) /\ pc' \in {next, "login"}
           /\ UNCHANGED <<flags, work_done, epg_updated, urls>>
           /\ \/ UNCHANGED loginVars
              \/ logins < MaxLogins /\ logins' = logins + 1 /\ login_delay' = LoginDelay - 1
  BY DEF LoginRequest, LoginFails

LEMMA ControlLogin == ControlTypes /\ Login => ControlTypes'
<1> SUFFICES ASSUME ControlTypes, Login PROVE ControlTypes'
  OBVIOUS
<1> USE RoundsAssumption DEF ControlTypes
<1>1. CASE LoginBegins
  BY <1>1 DEF LoginBegins, Skip, flags, loginVars, lateVars, Labels, Requests, PairingRequests
<1>2. CASE DeletePairing \/ CreatePairing \/ DeviceLogin
  <2> DEFINE step(kind, next) ==
               /\ Begin(kind) /\ pc' \in {next, "login"}
               /\ UNCHANGED <<flags, work_done, epg_updated, urls>>
               /\ \/ UNCHANGED loginVars
                  \/ logins < MaxLogins /\ logins' = logins + 1 /\ login_delay' = LoginDelay - 1
  <2>1. \/ step("deletePairing", "createPairing")
        \/ step("createPairing", "deviceLogin")
        \/ step("deviceLogin", "drmRegistration")
    BY <1>2, LoginRequestStep DEF DeletePairing, CreatePairing, DeviceLogin
  <2>2. /\ \E kind \in PairingRequests : Begin(kind)
        /\ pc' \in {"createPairing", "deviceLogin", "drmRegistration", "login"}
        /\ UNCHANGED <<flags, work_done, epg_updated, urls>>
        /\ \/ UNCHANGED loginVars
           \/ logins < MaxLogins /\ logins' = logins + 1 /\ login_delay' = LoginDelay - 1
    BY <2>1 DEF PairingRequests
  <2>3. lateRequests' \subseteq Kinds /\ lateCount' \in Nat
    BY <2>2, BeginTypes DEF Kinds, LoginRequests
  <2>4. pc' \in Labels /\ pc' # "urls"
    BY <2>2 DEF Labels, Requests
  <2>5. login_delay' \in 0 .. LoginDelay - 1 /\ logins' \in 0 .. MaxLogins
    BY <2>2 DEF loginVars
  <2> QED
    BY <2>2, <2>3, <2>4, <2>5 DEF flags
<1>3. CASE LoginWaits
  BY <1>3 DEF LoginWaits, Skip, flags, lateVars
<1>4. CASE LoginAbandoned
  <2>1. 0 \in 0 .. LoginDelay - 1 /\ 0 \in 0 .. MaxLogins
    OBVIOUS
  <2> QED
    BY <1>4, <2>1 DEF LoginAbandoned, Skip, flags, lateVars, Labels
<1>5. CASE DrmRegistration \/ Certificate
  <2>1. \E kind \in Kinds : Begin(kind)
    BY <1>5 DEF DrmRegistration, Certificate, Kinds, LoginRequests
  <2>2. lateRequests' \subseteq Kinds /\ lateCount' \in Nat
    BY <2>1, BeginTypes
  <2>3. pc' \in {"certificate", "loop"} /\ logins' \in {0, logins} /\ login_delay' = login_delay
        /\ UNCHANGED <<flags, work_done, epg_updated, urls>>
    BY <1>5 DEF DrmRegistration, Certificate, loginVars
  <2>4. 0 \in 0 .. MaxLogins
    OBVIOUS
  <2> QED
    BY <2>2, <2>3, <2>4 DEF flags, Labels, Requests
<1> QED
  BY <1>1, <1>2, <1>3, <1>4, <1>5 DEF Login

LEMMA ControlStep == ControlTypes /\ [Next]_vars => ControlTypes'
<1> SUFFICES ASSUME ControlTypes, [Next]_vars PROVE ControlTypes'
  OBVIOUS
<1> USE RoundsAssumption DEF ControlTypes
<1>1. CASE Loop
  BY <1>1 DEF Loop, Skip, flags, loginVars, lateVars, Labels
<1>2. CASE Between
  <2> USE DEF Labels, Requests, Skip, flags, loginVars, lateVars
  <2>1. CASE Stop \/ LoadPlayList \/ NoPlayList \/ LoadRecordings \/ NoRecordings
    BY <2>1 DEF Stop, LoadPlayList, NoPlayList, LoadRecordings, NoRecordings
  <2>2. CASE \/ NotDue("fullRefresh", "loadRecordings") \/ NotDue("loadRecordings", "epg")
             \/ NoEPGJob \/ NotDue("keepAlive", "loop")
    BY <2>2 DEF NotDue, NoEPGJob
  <2>3. CASE LoadEarlier
    BY <2>3 DEF LoadEarlier
  <2> QED
    BY <1>2, <2>1, <2>2, <2>3 DEF Between
<1>3. CASE Asking
  BY <1>3, ControlAsking
<1>4. CASE Limited
  <2> USE DEF Labels, Requests, Skip, flags, loginVars, lateVars
  <2>1. CASE TriggerFullRefresh \/ TriggerLoadRecordings
    BY <2>1 DEF TriggerFullRefresh, TriggerLoadRecordings
  <2>2. CASE LoadEPGJob \/ KeepAliveJob
    BY <2>2 DEF LoadEPGJob, KeepAliveJob
  <2> QED
    BY <1>4, <2>1, <2>2 DEF Limited
<1>5. CASE Login
  BY <1>5, ControlLogin
<1>6. CASE SetLoad
  BY <1>6 DEF SetLoad, loginVars, lateVars
<1>7. CASE Destruct \/ UNCHANGED vars
  BY <1>7 DEF Destruct, vars, flags, loginVars, lateVars
<1> QED
  BY <1>1, <1>2, <1>3, <1>4, <1>5, <1>6, <1>7, WorkerSteps DEF Next, Terminated

LEMMA ControlInit == Init => ControlTypes
<1>1. 0 \in 0 .. LoginDelay - 1 /\ 0 \in 0 .. Urls /\ 0 \in 0 .. MaxLogins
  BY RoundsAssumption
<1>2. ASSUME Init PROVE lateRequests \subseteq Kinds /\ lateCount \in Nat /\ pc = "loop" /\ urls = 0
  BY <1>2 DEF Init
<1> QED
  BY <1>1, <1>2 DEF Init, ControlTypes, Labels

HeldType == held \in [Limiters -> Nat]

LEMMA OverdueType == ASSUME NEW d \in Int, NEW t \in Nat PROVE Overdue(d, t) \in Nat
  BY DEF Overdue

LEMMA HeldInLogin ==
    ASSUME AllPaced, HeldType, NEW t \in Nat, PassInLogin(t)
    PROVE  HeldType'
<1>1. ASSUME NEW l \in Limiters PROVE held[l] + Overdue(due[l], t) \in Nat
  <2>1. due[l] \in Int /\ held[l] \in Nat
    BY DEF AllPaced, HeldType
  <2>2. Overdue(due[l], t) \in Nat
    BY <2>1, OverdueType
  <2> QED
    BY <2>1, <2>2
<1> QED
  BY <1>1 DEF PassInLogin, HeldType

LEMMA HeldStep == AllPaced /\ HeldType /\ [Next]_vars => HeldType'
<1> SUFFICES ASSUME AllPaced, HeldType, [Next]_vars PROVE HeldType'
  OBVIOUS
<1>1. CASE UNCHANGED held
  BY <1>1 DEF HeldType
<1>2. CASE Loop \/ Asking
  BY <1>1, <1>2, AskingTimes DEF Loop, Pass
<1>3. CASE Between
  BY <1>1, <1>3, BetweenTimes DEF timeVars
<1>4. CASE Limited
  <2>1. UNCHANGED timeVars \/ \E c \in Limiters : Call(c)
    BY <1>4, LimitedPlaces DEF Limited, EpgDue, Limiters
  <2>2. CASE \E c \in Limiters : Call(c)
    BY <2>2 DEF Call, HeldType
  <2> QED
    BY <1>1, <2>1, <2>2 DEF timeVars
<1>5. CASE Login
  BY <1>1, <1>5, LoginTimes, HeldInLogin DEF timeVars
<1> QED
  BY <1>1, <1>2, <1>3, <1>4, <1>5, WorkerSteps
     DEF Next, SetLoad, Destruct, Terminated, vars, timeVars

\* Every variable keeps its shape, the ages of the calls stay within the
\* intervals and the unsigned login_delay never goes below 0.
THEOREM TypesHold == Spec => []TypeOK
<1>1. PacedInv /\ ControlTypes /\ HeldType => TypeOK
  <2> SUFFICES ASSUME PacedInv, ControlTypes, HeldType PROVE TypeOK
    OBVIOUS
  <2>1. due \in [Limiters -> Int] /\ ages \in [Limiters -> AgesType]
    BY DEF PacedInv, AllPaced
  <2>2. \A l \in Limiters : ages[l].third <= Interval[l]
    BY DEF PacedInv, AllPaced, Paced
  <2> QED
    BY <2>1, <2>2 DEF TypeOK, ControlTypes, HeldType, AgesType
<1>2. Init => HeldType
  BY DEF Init, HeldType
<1>3. PacedInv => AllPaced
  BY DEF PacedInv
<1> QED
  BY <1>1, <1>2, <1>3, PacedInit, PacedStep, ControlInit, ControlStep, HeldStep, PTL DEF Spec

(* Shutdown *)

(* Nothing is late where a job has still its first request to make: its look at  *)
(* m_bKeepAlive was before the shutdown, and so is all that came before it.      *)
(* Further on, what is late is of the same job, and what the job has still to    *)
(* ask for makes up its most.                                                    *)

FirstRequests == {"getPlaylist", "getPvr", "refreshPlaylist", "getEpg", "getEarlier", "confirm"}

NothingLate == lateRequests = {} /\ lateCount = 0

\* The requests a login has still to make.
Left(p) ==
    CASE p = "deletePairing" -> 5
      [] p = "createPairing" -> 4
      [] p = "deviceLogin" -> 3
      [] p = "drmRegistration" -> 2
      [] OTHER -> 1

LateInOrder ==
    /\ m_bKeepAlive \/ pc \in FirstRequests => NothingLate
    /\ pc = "urls" => /\ lateRequests \subseteq {"getPvr", "getRecordingUrl"}
                      /\ lateCount + urls <= 1 + Urls
    /\ pc \in LoginRequests => lateRequests \subseteq LoginRequests /\ lateCount + Left(pc) <= 5

LateInv == LateInOrder /\ StopsSoon

LEMMA LeftIs == \A p : Left(p) \in 1 .. 5
  BY DEF Left

LEMMA NothingLateIsIn == NothingLate /\ urls \in 0 .. Urls => LateInv
<1> SUFFICES ASSUME NothingLate, urls \in 0 .. Urls PROVE LateInv
  OBVIOUS
<1>1. [kinds |-> {"getPlaylist"}, most |-> 1] \in Jobs
  BY DEF Jobs
<1>2. lateRequests = {} /\ lateCount = 0
  BY DEF NothingLate
<1>3. StopsSoon
  BY <1>1, <1>2 DEF StopsSoon
<1>4. LateInOrder
  BY <1>2, LeftIs, RoundsAssumption DEF LateInOrder, NothingLate
<1> QED
  BY <1>3, <1>4 DEF LateInv

\* A step without a request, to no request or after a look at m_bKeepAlive.
LEMMA LateQuiet ==
    ASSUME LateInv, ControlTypes', UNCHANGED lateVars, UNCHANGED m_bKeepAlive,
           m_bKeepAlive \/ pc' \notin Requests
    PROVE  LateInv'
<1>1. StopsSoon'
  BY DEF LateInv, StopsSoon, lateVars, Jobs
<1>2. CASE m_bKeepAlive
  <2>1. NothingLate'
    BY <1>2 DEF LateInv, LateInOrder, NothingLate, lateVars
  <2>2. (NothingLate /\ urls \in 0 .. Urls => LateInv)'
    BY NothingLateIsIn, PTL
  <2> QED
    BY <2>1, <2>2 DEF ControlTypes
<1>3. CASE ~m_bKeepAlive /\ pc' \notin Requests
  <2>1. pc' \notin FirstRequests /\ pc' # "urls" /\ pc' \notin LoginRequests
    BY <1>3 DEF Requests, FirstRequests, LoginRequests, PairingRequests
  <2> QED
    BY <1>1, <1>3, <2>1 DEF LateInv, LateInOrder
<1> QED
  BY <1>2, <1>3

\* A request is late if m_bKeepAlive has fallen, and else nothing is.
LEMMA LateBegin ==
    ASSUME LateInv, ControlTypes, NEW kind, Begin(kind)
    PROVE  \/ m_bKeepAlive /\ lateRequests' = {} /\ lateCount' = 0
           \/ /\ ~m_bKeepAlive
              /\ lateRequests' = lateRequests \cup {kind}
              /\ lateCount' = lateCount + 1
  BY DEF LateInv, LateInOrder, NothingLate, Begin, lateVars

\* After the request of a job of one request the worker looks at m_bKeepAlive
\* before it makes another.
LEMMA LateSingle ==
    ASSUME LateInv, ControlTypes, ControlTypes', UNCHANGED m_bKeepAlive,
           NEW kind \in {"getPlaylist", "getEpg", "keepAlive"}, Begin(kind),
           pc \in FirstRequests, pc' \notin Requests
    PROVE  LateInv'
<1>1. NothingLate
  BY DEF LateInv, LateInOrder
<1>2. lateRequests' \subseteq {kind} /\ lateCount' <= 1 /\ (m_bKeepAlive => lateRequests' = {} /\ lateCount' = 0)
  BY <1>1, LateBegin DEF NothingLate
<1>3. [kinds |-> {kind}, most |-> 1] \in Jobs
  BY DEF Jobs
<1>4. StopsSoon'
  BY <1>2, <1>3 DEF StopsSoon, Jobs
<1>5. pc' \notin FirstRequests /\ pc' # "urls" /\ pc' \notin LoginRequests
  BY DEF Requests, FirstRequests, LoginRequests, PairingRequests
<1> QED
  BY <1>2, <1>4, <1>5 DEF LateInv, LateInOrder, NothingLate

LEMMA Counts ==
    /\ \A c, u, n \in Nat : c + u <= 1 + n => c <= 1 + n
    /\ \A c, u, n \in Nat : c <= 1 /\ u <= n => c + u <= 1 + n
  OBVIOUS

\* The requests of a load of the recordings.
LEMMA LateUrls ==
    ASSUME LateInv, ControlTypes, ControlTypes', UNCHANGED m_bKeepAlive,
           NEW kind \in {"getPvr", "getRecordingUrl"}, Begin(kind),
           pc' \in {"fullRefresh", "urls"},
           pc = "getPvr" \/ (pc = "urls" /\ urls' = urls - 1)
    PROVE  LateInv'
<1>1. /\ urls' \in 0 .. Urls /\ urls \in 0 .. Urls /\ Urls \in Nat
      /\ lateCount \in Nat /\ lateCount' \in Nat /\ urls' \in Nat /\ urls' <= Urls
  BY RoundsAssumption DEF ControlTypes
<1>2. lateRequests' \subseteq {"getPvr", "getRecordingUrl"} /\ lateCount' + urls' <= 1 + Urls
  <2>1. CASE m_bKeepAlive
    <3>1. lateRequests' = {} /\ lateCount' = 0
      BY <2>1, LateBegin
    <3>2. lateCount' <= 1
      BY <3>1
    <3> QED
      BY <1>1, <3>1, <3>2, Counts
  <2>2. CASE ~m_bKeepAlive /\ pc = "getPvr"
    <3>1. NothingLate
      BY <2>2 DEF LateInv, LateInOrder, FirstRequests
    <3>2. lateRequests' = lateRequests \cup {kind} /\ lateCount' = lateCount + 1
      BY <2>2, LateBegin
    <3>3. lateCount' <= 1 /\ lateRequests' \subseteq {"getPvr", "getRecordingUrl"}
      BY <3>1, <3>2 DEF NothingLate
    <3> QED
      BY <1>1, <3>3, Counts
  <2>3. CASE ~m_bKeepAlive /\ pc = "urls" /\ urls' = urls - 1
    <3>1. lateRequests \subseteq {"getPvr", "getRecordingUrl"} /\ lateCount + urls <= 1 + Urls
      BY <2>3 DEF LateInv, LateInOrder
    <3>2. lateRequests' = lateRequests \cup {kind} /\ lateCount' = lateCount + 1
      BY <2>3, LateBegin
    <3> QED
      BY <1>1, <2>3, <3>1, <3>2
  <2> QED
    BY <2>1, <2>2, <2>3
<1>3. StopsSoon'
  <2>1. [kinds |-> {"getPvr", "getRecordingUrl"}, most |-> 1 + Urls] \in Jobs
    BY DEF Jobs
  <2>2. lateCount' <= 1 + Urls
    BY <1>1, <1>2, Counts
  <2> QED
    BY <1>2, <2>1, <2>2 DEF StopsSoon, Jobs
<1>4. pc' \notin FirstRequests /\ pc' \notin LoginRequests
  BY DEF FirstRequests, LoginRequests, PairingRequests
<1>5. m_bKeepAlive' => NothingLate'
  BY LateBegin DEF NothingLate
<1> QED
  BY <1>2, <1>3, <1>4, <1>5 DEF LateInv, LateInOrder

\* The requests of a login, each with fewer left after it.
LEMMA LateLogin ==
    ASSUME LateInv, ControlTypes, ControlTypes', UNCHANGED m_bKeepAlive,
           pc \in LoginRequests, Begin(pc),
           pc' \notin Requests \/ (pc' \in LoginRequests /\ Left(pc') = Left(pc) - 1)
    PROVE  LateInv'
<1>1. lateCount \in Nat /\ lateCount' \in Nat /\ Left(pc) \in 1 .. 5 /\ Left(pc') \in 1 .. 5
  BY LeftIs DEF ControlTypes
<1>2. lateRequests' \subseteq LoginRequests /\ lateCount' + Left(pc) <= 6
  <2>1. CASE m_bKeepAlive
    BY <1>1, <2>1, LateBegin
  <2>2. CASE ~m_bKeepAlive
    <3>1. lateRequests \subseteq LoginRequests /\ lateCount + Left(pc) <= 5
      BY DEF LateInv, LateInOrder
    <3>2. lateRequests' = lateRequests \cup {pc} /\ lateCount' = lateCount + 1
      BY <2>2, LateBegin
    <3> QED
      BY <1>1, <3>1, <3>2
  <2> QED
    BY <2>1, <2>2
<1>3. StopsSoon'
  <2>1. [kinds |-> LoginRequests, most |-> 5] \in Jobs
    BY DEF Jobs
  <2>2. lateCount' <= 5
    BY <1>1, <1>2
  <2> QED
    BY <1>2, <2>1, <2>2 DEF StopsSoon, Jobs
<1>4. pc' \notin FirstRequests /\ pc' # "urls"
  BY DEF Requests, FirstRequests, LoginRequests, PairingRequests
<1>5. pc' \in LoginRequests => lateCount' + Left(pc') <= 5
  <2>1. pc' \in LoginRequests => Left(pc') = Left(pc) - 1
    BY DEF Requests, LoginRequests, PairingRequests
  <2> QED
    BY <1>1, <1>2, <2>1
<1>6. m_bKeepAlive' => NothingLate'
  BY LateBegin DEF NothingLate
<1>7. LateInOrder'
  <2>1. LateInOrder' <=>
          /\ m_bKeepAlive' \/ pc' \in FirstRequests => NothingLate'
          /\ pc' = "urls" => /\ lateRequests' \subseteq {"getPvr", "getRecordingUrl"}
                             /\ lateCount' + urls' <= 1 + Urls
          /\ pc' \in LoginRequests => lateRequests' \subseteq LoginRequests /\ lateCount' + Left(pc') <= 5
    BY DEF LateInOrder, Left, LoginRequests, FirstRequests
  <2> QED
    BY <1>2, <1>4, <1>5, <1>6, <2>1
<1> QED
  BY <1>3, <1>7 DEF LateInv

LEMMA LateWorker ==
    ASSUME LateInv, ControlTypes, ControlTypes', Worker
    PROVE  LateInv'
<1>1. UNCHANGED m_bKeepAlive
  <2>1. CASE Loop
    BY <2>1 DEF Loop, flags
  <2>2. CASE Between
    BY <2>2 DEF Between, Stop, LoadPlayList, NoPlayList, LoadRecordings, NoRecordings, NotDue,
                NoEPGJob, LoadEarlier, flags
  <2>3. CASE Asking
    BY <2>3 DEF Asking, GetPlaylist, GetPvr, GetRecordingUrl, RefreshPlaylist, GetEpg, GetEarlier,
                KeepAlive, flags
  <2>4. CASE Limited
    BY <2>4 DEF Limited, TriggerFullRefresh, TriggerLoadRecordings, LoadEPGJob, KeepAliveJob, flags
  <2>5. CASE Login
    <3>1. CASE LoginBegins \/ LoginWaits \/ LoginAbandoned \/ DrmRegistration \/ Certificate
      BY <3>1 DEF LoginBegins, LoginWaits, LoginAbandoned, DrmRegistration, Certificate, flags
    <3>2. CASE DeletePairing \/ CreatePairing \/ DeviceLogin
      BY <3>2 DEF DeletePairing, CreatePairing, DeviceLogin, LoginRequest, flags
    <3> QED
      BY <2>5, <3>1, <3>2 DEF Login
  <2> QED
    BY <2>1, <2>2, <2>3, <2>4, <2>5, WorkerSteps
<1>2. CASE Loop
  BY <1>1, <1>2, LateQuiet DEF Loop, Skip
<1>3. CASE Between
  <2>1. m_bKeepAlive \/ pc' \notin Requests
    BY <1>3 DEF Between, Stop, LoadPlayList, NoPlayList, LoadRecordings, NoRecordings, NotDue,
                NoEPGJob, LoadEarlier, Skip, Requests
  <2> QED
    BY <1>1, <1>3, <2>1, BetweenTimes, LateQuiet
<1>4. CASE Asking
  <2>1. CASE GetPlaylist \/ RefreshPlaylist
    <3>1. Begin("getPlaylist") /\ pc \in FirstRequests /\ pc' \notin Requests
      BY <2>1 DEF GetPlaylist, RefreshPlaylist, Request, FirstRequests, Requests
    <3> QED
      BY <1>1, <3>1, LateSingle
  <2>2. CASE GetEpg \/ GetEarlier
    <3>1. Begin("getEpg") /\ pc \in FirstRequests /\ pc' \notin Requests
      BY <2>2 DEF GetEpg, GetEarlier, Request, FirstRequests, Requests
    <3> QED
      BY <1>1, <3>1, LateSingle
  <2>3. CASE KeepAlive
    <3>1. Begin("keepAlive") /\ pc \in FirstRequests /\ pc' \notin Requests
      BY <2>3 DEF KeepAlive, Request, FirstRequests, Requests
    <3> QED
      BY <1>1, <3>1, LateSingle
  <2>4. CASE GetPvr
    <3>1. Begin("getPvr") /\ pc = "getPvr" /\ pc' \in {"fullRefresh", "urls"}
      BY <2>4 DEF GetPvr, Request
    <3> QED
      BY <1>1, <3>1, LateUrls
  <2>5. CASE GetRecordingUrl
    <3>1. Begin("getRecordingUrl") /\ pc = "urls" /\ pc' \in {"fullRefresh", "urls"} /\ urls' = urls - 1
      BY <2>5 DEF GetRecordingUrl, Request
    <3> QED
      BY <1>1, <3>1, LateUrls
  <2> QED
    BY <1>4, <2>1, <2>2, <2>3, <2>4, <2>5 DEF Asking
<1>5. CASE Limited
  <2>1. m_bKeepAlive \/ pc' \notin Requests
    BY <1>5 DEF Limited, TriggerFullRefresh, TriggerLoadRecordings, LoadEPGJob, KeepAliveJob, Skip,
                Requests
  <2> QED
    BY <1>1, <1>5, <2>1, LimitedPlaces, LateQuiet
<1>6. CASE Login
  <2> USE DEF Requests
  <2>1. CASE LoginBegins \/ LoginWaits \/ LoginAbandoned
    <3>1. UNCHANGED lateVars /\ (m_bKeepAlive \/ pc' \notin Requests)
      BY <2>1 DEF LoginBegins, LoginWaits, LoginAbandoned, Skip
    <3> QED
      BY <1>1, <3>1, LateQuiet
  <2>2. CASE DeletePairing \/ CreatePairing \/ DeviceLogin
    <3>1. /\ pc \in LoginRequests /\ Begin(pc)
          /\ pc' = "login" \/ (pc' \in LoginRequests /\ Left(pc') = Left(pc) - 1)
      BY <2>2, LoginRequestStep
         DEF DeletePairing, CreatePairing, DeviceLogin, LoginRequests, PairingRequests, Left
    <3> QED
      BY <1>1, <3>1, LateLogin
  <2>3. CASE DrmRegistration \/ Certificate
    <3>1. /\ pc \in LoginRequests /\ Begin(pc)
          /\ pc' = "loop" \/ (pc' \in LoginRequests /\ Left(pc') = Left(pc) - 1)
      BY <2>3 DEF DrmRegistration, Certificate, LoginRequests, PairingRequests, Left
    <3> QED
      BY <1>1, <3>1, LateLogin
  <2> QED
    BY <1>6, <2>1, <2>2, <2>3 DEF Login
<1> QED
  BY <1>2, <1>3, <1>4, <1>5, <1>6, WorkerSteps

\* Once the destructor has lowered m_bKeepAlive, the worker makes what is left of
\* the requests of one job, and no more.
THEOREM ShutdownIsShort == Spec => []StopsSoon
<1>1. Init => LateInv
  <2>1. Init => NothingLate /\ urls \in 0 .. Urls
    BY RoundsAssumption DEF Init, NothingLate
  <2> QED
    BY <2>1, NothingLateIsIn
<1>2. LateInv /\ ControlTypes /\ ControlTypes' /\ [Next]_vars => LateInv'
  <2> SUFFICES ASSUME LateInv, ControlTypes, ControlTypes', [Next]_vars PROVE LateInv'
    OBVIOUS
  <2>1. CASE Worker
    BY <2>1, LateWorker
  <2>2. CASE Destruct \/ UNCHANGED <<m_bKeepAlive, pc, urls, lateVars>>
    <3>1. /\ pc' = pc /\ urls' = urls /\ lateRequests' = lateRequests /\ lateCount' = lateCount
          /\ m_bKeepAlive' => m_bKeepAlive
      BY <2>2 DEF Destruct, lateVars
    <3> QED
      BY <3>1 DEF LateInv, LateInOrder, NothingLate, StopsSoon, Jobs, Left, FirstRequests, LoginRequests
  <2> QED
    BY <2>1, <2>2 DEF Next, SetLoad, Terminated, vars, flags
<1>3. LateInv => StopsSoon
  BY DEF LateInv
<1> QED
  BY <1>1, <1>2, <1>3, ControlInit, ControlStep, PTL DEF Spec

(* How late the limiters are.  Spent is what a round has taken at most where it  *)
(* stands, Place what it takes at most to come to a limiter.                     *)

\* The requests for the addresses, of which u are still to be made.
Asked(u) == (Urls - u) * MaxCall

Spent(p, u) ==
    CASE p \in {"playlist", "getPlaylist"} -> 1
      [] p \in {"recordings", "getPvr"} -> 1 + MaxCall
      [] p = "urls" -> 1 + 2 * MaxCall + Asked(u)
      [] p \in {"fullRefresh", "refreshPlaylist"} -> 1 + 2 * MaxCall + Asked(0)
      [] p \in {"loadRecordings", "epg", "getEpg"} -> 1 + 3 * MaxCall + Asked(0)
      [] p \in {"earlier", "getEarlier"} -> 1 + 4 * MaxCall + Asked(0)
      [] p \in {"keepAlive", "confirm"} -> 1 + 5 * MaxCall + Asked(0)
      [] OTHER -> Round

Place(l) == Spent(l, 0)

\* A limiter has been due since the last round came past it.
Budget(l) == Spent(pc, urls) - Place(l) + (IF pc \in Ahead(l) THEN Round ELSE 0)

\* For how long a job has waited for the other jobs.
Waited(l) == -due[l] - held[l]

WaitInv ==
    /\ \A l \in Limiters : held[l] > 0 => due[l] < 0
    /\ \A l \in Limiters : Waited(l) <= Budget(l)

Types == AllPaced /\ HeldType /\ ControlTypes

LEMMA AskedFacts ==
    /\ Asked(0) \in Nat
    /\ \A u \in 0 .. Urls : /\ Asked(u) \in Nat /\ Asked(u) <= Asked(0)
                            /\ u > 0 => Asked(u - 1) = Asked(u) + MaxCall
    /\ Round = 1 + 6 * MaxCall + Asked(0)
    /\ MaxCall \in Nat
<1>1. \A m, n \in Nat : m * n \in Nat
  OBVIOUS
<1>2. \A u \in 0 .. Urls : Urls - u \in Nat
  BY RoundsAssumption
<1>3. \A u \in 0 .. Urls : Asked(u) \in Nat
  BY <1>1, <1>2, RoundsAssumption DEF Asked
<1>4. ASSUME NEW u \in 0 .. Urls, u > 0 PROVE Asked(u - 1) = Asked(u) + MaxCall
  <2>1. \A m, n \in Int : (m + 1) * n = m * n + n
    OBVIOUS
  <2>2. Urls - (u - 1) = (Urls - u) + 1 /\ Urls - u \in Int /\ MaxCall \in Int
    BY RoundsAssumption
  <2> QED
    BY <2>1, <2>2 DEF Asked
<1>5. ASSUME NEW u \in 0 .. Urls PROVE Asked(u) <= Asked(0)
  <2>1. \A m, n \in Int : (m - u) * n = m * n - u * n
    OBVIOUS
  <2>2. Asked(u) = Urls * MaxCall - u * MaxCall /\ Asked(0) = Urls * MaxCall
    BY <2>1, RoundsAssumption DEF Asked
  <2>3. u * MaxCall \in Nat /\ Urls * MaxCall \in Nat
    BY <1>1, RoundsAssumption
  <2> QED
    BY <2>2, <2>3
<1>6. Round = 1 + 6 * MaxCall + Asked(0)
  <2>1. \A m, n \in Int : (m + 6) * n = m * n + 6 * n
    OBVIOUS
  <2>2. Urls - 0 = Urls /\ Urls \in Int /\ MaxCall \in Int
    BY RoundsAssumption
  <2> QED
    BY <2>1, <2>2 DEF Asked, Round
<1> QED
  BY <1>3, <1>4, <1>5, <1>6, RoundsAssumption

LEMMA SpentType ==
    /\ \A l \in Limiters : Place(l) \in Nat /\ Place(l) <= Round
    /\ \A p \in Labels, u \in 0 .. Urls : Spent(p, u) \in Nat
    /\ Round \in Nat
  BY AskedFacts DEF Place, Spent, Limiters, Labels, Requests

LEMMA BudgetAfter ==
    ASSUME NEW l \in Limiters
    PROVE  Budget(l)' = Spent(pc', urls') - Place(l) + (IF pc' \in Ahead(l) THEN Round ELSE 0)
  BY DEF Budget, Ahead, Place, Spent, Round, Asked

LEMMA BudgetNumbers ==
    ASSUME Types, Types', NEW l \in Limiters
    PROVE  /\ Spent(pc, urls) \in Nat /\ Spent(pc', urls') \in Nat
           /\ Place(l) \in Nat /\ Round \in Nat
           /\ Budget(l) \in Int /\ Budget(l)' \in Int
<1>1. /\ Spent(pc, urls) \in Nat /\ Spent(pc', urls') \in Nat
      /\ Place(l) \in Nat /\ Round \in Nat
  BY SpentType DEF Types, ControlTypes
<1>2. Budget(l) \in Int
  BY <1>1 DEF Budget
<1>3. Budget(l)' \in Int
  BY <1>1, BudgetAfter
<1> QED
  BY <1>1, <1>2, <1>3

\* A step of the round that takes t, for a limiter it does not come past.
LEMMA WaitOn ==
    ASSUME Types, Types', WaitInv, NEW t \in Nat, NEW l \in Limiters,
           Spent(pc', urls') >= Spent(pc, urls) + t,
           pc' \in Ahead(l) <=> pc \in Ahead(l),
           held'[l] = held[l], due'[l] = due[l] - t
    PROVE  (held'[l] > 0 => due'[l] < 0) /\ Waited(l)' <= Budget(l)'
<1>1. due[l] \in Int /\ held[l] \in Nat /\ (held[l] > 0 => due[l] < 0) /\ Waited(l) <= Budget(l)
  BY DEF Types, AllPaced, HeldType, WaitInv
<1>2. held'[l] > 0 => due'[l] < 0
  BY <1>1
<1>3. Waited(l)' = Waited(l) + t /\ Waited(l) \in Int
  <2>1. Waited(l)' = -due'[l] - held'[l] /\ Waited(l) = -due[l] - held[l]
    BY DEF Waited
  <2> QED
    BY <1>1, <2>1
<1>4. Budget(l)' >= Budget(l) + t /\ Budget(l) \in Int /\ Budget(l)' \in Int
  BY BudgetNumbers, BudgetAfter DEF Budget
<1> QED
  BY <1>1, <1>2, <1>3, <1>4

\* Steps that come past no limiter.
LEMMA WaitPass ==
    ASSUME Types, Types', WaitInv, NEW t \in Nat, Pass(t),
           Spent(pc', urls') >= Spent(pc, urls) + t,
           \A l \in Limiters : pc' \in Ahead(l) <=> pc \in Ahead(l)
    PROVE  WaitInv'
<1>1. \A l \in Limiters : held'[l] = held[l] /\ due'[l] = due[l] - t
  BY DEF Pass, Elapse
<1> QED
  BY <1>1, WaitOn DEF WaitInv

LEMMA WaitQuiet ==
    ASSUME Types, Types', WaitInv, UNCHANGED timeVars,
           Spent(pc', urls') >= Spent(pc, urls),
           \A l \in Limiters : pc' \in Ahead(l) <=> pc \in Ahead(l)
    PROVE  WaitInv'
<1>1. \A l \in Limiters : held'[l] = held[l] /\ due'[l] = due[l] - 0
  BY DEF timeVars, Types, AllPaced
<1>2. 0 \in Nat /\ Spent(pc', urls') >= Spent(pc, urls) + 0
  BY SpentType DEF Types, ControlTypes
<1> QED
  BY <1>1, <1>2, WaitOn DEF WaitInv

\* The step that comes past the limiter c, which is not due after it.
LEMMA WaitPast ==
    ASSUME Types, Types', WaitInv, NEW c \in Limiters,
           due'[c] >= 0, held'[c] = 0,
           pc = c, pc' \notin Ahead(c), Spent(pc', urls') >= Spent(pc, urls),
           \A l \in Limiters \ {c} : /\ held'[l] = held[l] /\ due'[l] = due[l]
                                     /\ pc' \in Ahead(l) <=> pc \in Ahead(l)
    PROVE  WaitInv'
<1>1. ASSUME NEW l \in Limiters
      PROVE  (held'[l] > 0 => due'[l] < 0) /\ Waited(l)' <= Budget(l)'
  <2>1. CASE l = c
    <3>1. Waited(l)' = -due'[l] - held'[l]
      BY DEF Waited
    <3>2. due'[l] \in Int /\ due'[l] >= 0 /\ held'[l] = 0
      BY <2>1 DEF Types, AllPaced
    <3>3. Waited(l)' <= 0 /\ Waited(l)' \in Int
      BY <3>1, <3>2
    <3>4. Spent(pc, urls) = Place(l)
      BY <2>1 DEF Place, Spent, Limiters
    <3>5. Budget(l)' >= 0 /\ Budget(l)' \in Int
      BY <2>1, <3>4, BudgetNumbers, BudgetAfter
    <3> QED
      BY <3>2, <3>3, <3>5
  <2>2. CASE l # c
    <3>1. due'[l] = due[l] - 0 /\ 0 \in Nat /\ Spent(pc', urls') >= Spent(pc, urls) + 0
      BY <2>2, SpentType DEF Types, AllPaced, ControlTypes
    <3> QED
      BY <2>2, <3>1, WaitOn
  <2> QED
    BY <2>1, <2>2
<1> QED
  BY <1>1 DEF WaitInv

LEMMA WaitNotDue ==
    ASSUME Types, Types', WaitInv, NEW c \in Limiters, ~Due(c), UNCHANGED timeVars,
           pc = c, pc' \notin Ahead(c), Spent(pc', urls') >= Spent(pc, urls),
           \A l \in Limiters \ {c} : pc' \in Ahead(l) <=> pc \in Ahead(l)
    PROVE  WaitInv'
<1>1. due[c] \in Int /\ due[c] > 0 /\ held[c] \in Nat /\ (held[c] > 0 => due[c] < 0)
  BY DEF Due, Types, AllPaced, HeldType, WaitInv
<1>2. due' = due /\ held' = held
  BY DEF timeVars
<1>3. due'[c] >= 0 /\ held'[c] = 0
  BY <1>1, <1>2
<1> QED
  BY <1>2, <1>3, WaitPast

LEMMA WaitCall ==
    ASSUME Types, Types', WaitInv, NEW c \in Limiters, Call(c),
           pc = c, pc' \notin Ahead(c), Spent(pc', urls') >= Spent(pc, urls),
           \A l \in Limiters \ {c} : pc' \in Ahead(l) <=> pc \in Ahead(l)
    PROVE  WaitInv'
<1>1. NextCall(c) \in Nat
  <2>1. Interval[c] \in Nat \ {0} /\ due[c] \in Int
    BY Intervals DEF Types, AllPaced
  <2>2. due[c] % Interval[c] \in 0 .. Interval[c] - 1
    BY <2>1, NextOnGrid
  <2> QED
    BY <2>1, <2>2 DEF NextCall
<1>2. due'[c] = NextCall(c) /\ held'[c] = 0
  BY DEF Call, Types, AllPaced, HeldType
<1>3. \A l \in Limiters \ {c} : held'[l] = held[l] /\ due'[l] = due[l]
  BY DEF Call, Types, AllPaced, HeldType
<1>4. due'[c] >= 0
  BY <1>1, <1>2
<1> QED
  BY <1>2, <1>3, <1>4, WaitPast

LEMMA WaitBetween ==
    ASSUME Types, Types', WaitInv, Between
    PROVE  WaitInv'
<1> USE AskedFacts
<1>1. UNCHANGED timeVars /\ urls' = urls
  BY BetweenTimes
<1>2. CASE Stop
  <2>1. pc = "loop" /\ pc' = "stopped"
    BY <1>2 DEF Stop, Skip
  <2>2. Spent(pc', urls') = Round /\ Spent(pc, urls) = Round
    BY <2>1 DEF Spent
  <2> QED
    BY <1>1, <2>1, <2>2, SpentType, WaitQuiet DEF Ahead
<1>3. CASE LoadPlayList \/ NoPlayList
  <2>1. pc = "playlist" /\ pc' \in {"getPlaylist", "recordings"}
    BY <1>3 DEF LoadPlayList, NoPlayList, Skip
  <2>2. Spent(pc', urls') >= Spent(pc, urls)
    BY <2>1 DEF Spent
  <2> QED
    BY <1>1, <2>1, <2>2, WaitQuiet DEF Ahead
<1>4. CASE LoadRecordings \/ NoRecordings
  <2>1. pc = "recordings" /\ pc' \in {"getPvr", "fullRefresh"}
    BY <1>4 DEF LoadRecordings, NoRecordings, Skip
  <2>2. Spent(pc', urls') >= Spent(pc, urls)
    BY <2>1 DEF Spent
  <2> QED
    BY <1>1, <2>1, <2>2, WaitQuiet DEF Ahead
<1>5. CASE LoadEarlier
  <2>1. pc = "earlier" /\ pc' \in {"getEarlier", "keepAlive"}
    BY <1>5 DEF LoadEarlier, Skip
  <2>2. Spent(pc', urls') >= Spent(pc, urls)
    BY <2>1 DEF Spent
  <2> QED
    BY <1>1, <2>1, <2>2, WaitQuiet DEF Ahead
<1>6. CASE NotDue("fullRefresh", "loadRecordings")
  <2>1. pc = "fullRefresh" /\ pc' = "loadRecordings" /\ ~Due("fullRefresh")
    BY <1>6 DEF NotDue, Skip
  <2>2. Spent(pc', urls') >= Spent(pc, urls)
    BY <2>1 DEF Spent
  <2> QED
    BY <1>1, <2>1, <2>2, WaitNotDue DEF Limiters, Ahead
<1>7. CASE NotDue("loadRecordings", "epg")
  <2>1. pc = "loadRecordings" /\ pc' = "epg" /\ ~Due("loadRecordings")
    BY <1>7 DEF NotDue, Skip
  <2>2. Spent(pc', urls') >= Spent(pc, urls)
    BY <2>1 DEF Spent
  <2> QED
    BY <1>1, <2>1, <2>2, WaitNotDue DEF Limiters, Ahead
<1>8. CASE NoEPGJob
  <2>1. pc = "epg" /\ pc' = "keepAlive" /\ ~Due("epg")
    BY <1>8 DEF NoEPGJob, NotDue, Skip
  <2>2. Spent(pc', urls') >= Spent(pc, urls)
    BY <2>1 DEF Spent
  <2> QED
    BY <1>1, <2>1, <2>2, WaitNotDue DEF Limiters, Ahead
<1>9. CASE NotDue("keepAlive", "loop")
  <2>1. pc = "keepAlive" /\ pc' = "loop" /\ ~Due("keepAlive")
    BY <1>9 DEF NotDue, Skip
  <2>2. Spent(pc', urls') >= Spent(pc, urls)
    BY <2>1 DEF Spent
  <2> QED
    BY <1>1, <2>1, <2>2, WaitNotDue DEF Limiters, Ahead
<1> QED
  BY <1>2, <1>3, <1>4, <1>5, <1>6, <1>7, <1>8, <1>9 DEF Between

\* What the requests of jobs do to the round.
LEMMA AskingPlaces ==
    ASSUME Asking
    PROVE  \/ pc = "getPlaylist" /\ pc' = "recordings"
           \/ pc = "getPvr" /\ pc' \in {"fullRefresh", "urls"}
           \/ pc = "urls" /\ urls' = urls - 1 /\ pc' = IF urls' = 0 THEN "fullRefresh" ELSE "urls"
           \/ pc = "refreshPlaylist" /\ pc' = "loadRecordings"
           \/ pc = "getEpg" /\ pc' \in {"earlier", "keepAlive"}
           \/ pc = "getEarlier" /\ pc' = "keepAlive"
           \/ pc = "confirm" /\ pc' \in {"loop", "login"}
  BY DEF Asking, GetPlaylist, GetPvr, GetRecordingUrl, RefreshPlaylist, GetEpg, GetEarlier,
         KeepAlive, Request

LEMMA WaitAsking ==
    ASSUME Types, Types', WaitInv, Asking
    PROVE  WaitInv'
<1>1. PICK t \in Durations : Pass(t)
  BY AskingTimes
<1>2. t \in Nat /\ t <= MaxCall
  BY <1>1, Lasts DEF Durations
<1>3. Spent(pc', urls') >= Spent(pc, urls) + t
  <2> USE AskedFacts
  <2>1. CASE pc = "getPlaylist" /\ pc' = "recordings"
    BY <1>2, <2>1 DEF Spent
  <2>2. CASE pc = "getPvr" /\ pc' \in {"fullRefresh", "urls"}
    BY <1>2, <2>2 DEF Spent, Types, ControlTypes
  <2>3. CASE pc = "urls" /\ urls' = urls - 1 /\ pc' = IF urls' = 0 THEN "fullRefresh" ELSE "urls"
    <3>1. Asked(urls') = Asked(urls) + MaxCall /\ Asked(urls) \in Nat
      BY <2>3 DEF Types, ControlTypes
    <3>2. Spent(pc, urls) = 1 + 2 * MaxCall + Asked(urls)
      BY <2>3 DEF Spent
    <3>3. Spent(pc', urls') = 1 + 2 * MaxCall + Asked(urls')
      BY <2>3 DEF Spent
    <3> QED
      BY <1>2, <3>1, <3>2, <3>3
  <2>4. CASE pc = "refreshPlaylist" /\ pc' = "loadRecordings"
    BY <1>2, <2>4 DEF Spent
  <2>5. CASE pc = "getEpg" /\ pc' \in {"earlier", "keepAlive"}
    BY <1>2, <2>5 DEF Spent
  <2>6. CASE pc = "getEarlier" /\ pc' = "keepAlive"
    BY <1>2, <2>6 DEF Spent
  <2>7. CASE pc = "confirm" /\ pc' \in {"loop", "login"}
    BY <1>2, <2>7 DEF Spent
  <2> QED
    BY <2>1, <2>2, <2>3, <2>4, <2>5, <2>6, <2>7, AskingPlaces
<1> QED
  BY <1>1, <1>2, <1>3, AskingAhead, WaitPass

LEMMA WaitLimited ==
    ASSUME Types, Types', WaitInv, Limited
    PROVE  WaitInv'
<1> USE AskedFacts
<1>1. urls' = urls
  BY LimitedPlaces
<1>2. CASE TriggerFullRefresh
  <2>1. pc = "fullRefresh" /\ pc' \in {"refreshPlaylist", "loadRecordings"} /\ Call("fullRefresh")
    BY <1>2, LimitedPlaces
  <2>2. Spent(pc', urls') >= Spent(pc, urls)
    BY <2>1 DEF Spent
  <2> QED
    BY <2>1, <2>2, WaitCall DEF Limiters, Ahead
<1>3. CASE TriggerLoadRecordings
  <2>1. pc = "loadRecordings" /\ pc' = "epg" /\ Call("loadRecordings")
    BY <1>3, LimitedPlaces
  <2>2. Spent(pc', urls') >= Spent(pc, urls)
    BY <2>1 DEF Spent
  <2> QED
    BY <2>1, <2>2, WaitCall DEF Limiters, Ahead
<1>4. CASE LoadEPGJob
  <2>1. pc = "epg" /\ pc' \in {"getEpg", "earlier"} /\ EpgDue
    BY <1>4, LimitedPlaces
  <2>2. Spent(pc', urls') >= Spent(pc, urls)
    BY <2>1 DEF Spent
  <2>3. CASE Call("epg")
    BY <2>1, <2>2, <2>3, WaitCall DEF Limiters, Ahead
  <2>4. CASE ~Due("epg") /\ UNCHANGED timeVars
    BY <2>1, <2>2, <2>4, WaitNotDue DEF Limiters, Ahead
  <2> QED
    BY <2>1, <2>3, <2>4 DEF EpgDue
<1>5. CASE KeepAliveJob
  <2>1. pc = "keepAlive" /\ pc' \in {"confirm", "loop"} /\ Call("keepAlive")
    BY <1>5, LimitedPlaces
  <2>2. Spent(pc', urls') >= Spent(pc, urls)
    BY <2>1 DEF Spent
  <2> QED
    BY <2>1, <2>2, WaitCall DEF Limiters, Ahead
<1> QED
  BY <1>2, <1>3, <1>4, <1>5 DEF Limited

\* In a login the time passes, and none of it is waited for another job.
LEMMA WaitLogin ==
    ASSUME Types, Types', WaitInv, Login
    PROVE  WaitInv'
<1>1. /\ pc \in LoginLabels /\ pc' \in LoginLabels \cup {"loop"} /\ urls' = urls
      /\ \A l \in Limiters : pc \notin Ahead(l) /\ pc' \notin Ahead(l)
  BY LoginPlaces
<1>2. Spent(pc', urls') = Round /\ Spent(pc, urls) = Round
  BY <1>1 DEF Spent, LoginLabels, LoginRequests, PairingRequests
<1>3. CASE UNCHANGED timeVars
  BY <1>1, <1>2, <1>3, SpentType, WaitQuiet
<1>4. CASE \E t \in Nat : PassInLogin(t)
  <2>1. PICK t \in Nat : PassInLogin(t)
    BY <1>4
  <2>2. ASSUME NEW l \in Limiters
        PROVE  (held'[l] > 0 => due'[l] < 0) /\ Waited(l)' <= Budget(l)'
    <3>1. due[l] \in Int /\ held[l] \in Nat /\ (held[l] > 0 => due[l] < 0) /\ Waited(l) <= Budget(l)
      BY DEF Types, AllPaced, HeldType, WaitInv
    <3>2. due'[l] = due[l] - t /\ held'[l] = held[l] + Overdue(due[l], t)
      BY <2>1 DEF PassInLogin, Elapse
    <3>3. Waited(l)' = -due'[l] - held'[l] /\ Waited(l) = -due[l] - held[l]
      BY DEF Waited
    <3>4. Waited(l)' \in Int /\ (Waited(l)' <= 0 \/ Waited(l)' = Waited(l))
      BY <3>1, <3>2, <3>3 DEF Overdue
    <3>5. Budget(l)' = Budget(l) /\ Budget(l) >= 0 /\ Budget(l) \in Int
      BY <1>1, <1>2, SpentType, BudgetAfter DEF Budget
    <3>6. held'[l] > 0 => due'[l] < 0
      BY <3>1, <3>2 DEF Overdue
    <3> QED
      BY <3>1, <3>4, <3>5, <3>6
  <2> QED
    BY <2>2 DEF WaitInv
<1> QED
  BY <1>3, <1>4, LoginTimes

\* The next round begins: for every limiter the last one is behind.
LEMMA WaitLoop ==
    ASSUME Types, Types', WaitInv, Loop
    PROVE  WaitInv'
<1>1. pc = "loop" /\ pc' = "playlist" /\ urls' = urls /\ Pass(1)
  BY DEF Loop, Skip
<1>2. ASSUME NEW l \in Limiters
      PROVE  (held'[l] > 0 => due'[l] < 0) /\ Waited(l)' <= Budget(l)'
  <2>1. held'[l] = held[l] /\ due'[l] = due[l] - 1
    BY <1>1 DEF Pass, Elapse
  <2>2. due[l] \in Int /\ held[l] \in Nat /\ (held[l] > 0 => due[l] < 0) /\ Waited(l) <= Budget(l)
    BY DEF Types, AllPaced, HeldType, WaitInv
  <2>3. held'[l] > 0 => due'[l] < 0
    BY <2>1, <2>2
  <2>4. Waited(l)' = Waited(l) + 1 /\ Waited(l) \in Int
    <3>1. Waited(l)' = -due'[l] - held'[l] /\ Waited(l) = -due[l] - held[l]
      BY DEF Waited
    <3> QED
      BY <2>1, <2>2, <3>1
  <2>5. Spent(pc, urls) = Round /\ Spent(pc', urls') = 1 /\ pc \notin Ahead(l) /\ pc' \in Ahead(l)
    BY <1>1 DEF Spent, Ahead
  <2>6. Budget(l) = Round - Place(l) /\ Round \in Nat /\ Place(l) \in Nat
    BY <2>5, SpentType DEF Budget
  <2>7. Budget(l)' = 1 - Place(l) + Round
    BY <2>5, BudgetAfter
  <2> QED
    BY <2>2, <2>3, <2>4, <2>6, <2>7
<1> QED
  BY <1>2 DEF WaitInv

\* A job that its limiter lets run is reached within a round, if no login comes
\* between: neither can the other jobs hold a keep-alive up for longer, nor does
\* any time but that of LoginLoop add to it.
THEOREM JobsAreInTime == Spec => []JobsInTime
<1>1. Types /\ WaitInv => JobsInTime
  <2> SUFFICES ASSUME Types, WaitInv, NEW l \in Limiters
               PROVE  -due[l] <= Round + held[l]
    BY DEF JobsInTime
  <2>1. Waited(l) <= Budget(l) /\ due[l] \in Int /\ held[l] \in Nat
    BY DEF WaitInv, Types, AllPaced, HeldType
  <2>2. Round \in Nat /\ Place(l) \in Nat /\ Spent(pc, urls) \in Nat
    BY SpentType DEF Types, ControlTypes
  <2>3. Budget(l) <= Round
    <3>1. pc \in Ahead(l) => Spent(pc, urls) <= Place(l)
      BY AskedFacts DEF Spent, Place, Ahead, Limiters, Types, ControlTypes
    <3>2. Spent(pc, urls) <= Round
      BY AskedFacts DEF Spent, Types, ControlTypes
    <3> QED
      BY <2>2, <3>1, <3>2 DEF Budget
  <2>4. Budget(l) \in Int
    BY <2>2 DEF Budget
  <2> QED
    BY <2>1, <2>2, <2>3, <2>4 DEF Waited
<1>2. Init => HeldType /\ WaitInv
  <2> SUFFICES ASSUME Init PROVE HeldType /\ WaitInv
    OBVIOUS
  <2>1. ASSUME NEW l \in Limiters PROVE Waited(l) <= Budget(l)
    <3>1. pc = "loop" /\ Spent(pc, urls) = Round
      BY DEF Init, Spent
    <3>2. Budget(l) >= 0 /\ Budget(l) \in Int
      BY <3>1, SpentType DEF Budget, Ahead
    <3>3. due[l] \in Nat /\ held[l] = 0
      BY Intervals DEF Init
    <3> QED
      BY <3>2, <3>3 DEF Waited
  <2> QED
    BY <2>1 DEF Init, HeldType, WaitInv
<1>3. Types /\ Types' /\ WaitInv /\ [Next]_vars => WaitInv'
  <2> SUFFICES ASSUME Types, Types', WaitInv, [Next]_vars PROVE WaitInv'
    OBVIOUS
  <2>1. CASE Worker
    BY <2>1, WorkerSteps, WaitLoop, WaitBetween, WaitAsking, WaitLimited, WaitLogin
  <2>2. CASE UNCHANGED <<pc, urls, due, held>>
    BY <2>2 DEF WaitInv, Waited, Budget, Ahead, Place, Spent, Round, Asked
  <2> QED
    BY <2>1, <2>2 DEF Next, SetLoad, Destruct, Terminated, vars, timeVars
<1>4. PacedInv /\ HeldType /\ ControlTypes => Types
  BY DEF PacedInv, Types
<1>5. Types => AllPaced
  BY DEF Types
<1> QED
  BY <1>1, <1>2, <1>3, <1>4, <1>5, PacedInit, PacedStep, ControlInit, ControlStep, HeldStep, PTL
     DEF Spec

=============================================================================
