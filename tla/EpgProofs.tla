----------------------------- MODULE EpgProofs -----------------------------
(***************************************************************************)
(* Theorems about Epg, for every choice of its constants.                  *)
(***************************************************************************)
EXTENDS Epg, TLAPS

(* Arithmetic of the day grid *)

LEMMA Monotone ==
    ASSUME NEW j \in Int, NEW k \in Int, j <= k
    PROVE  Day * j \in Int /\ Day * k \in Int /\ Day * j <= Day * k
<1>1. Day \in Nat
  BY EpgAssumption
<1>2. Day * (k - j) >= 0 /\ Day * (k - j) = Day * k - Day * j
  BY <1>1
<1> QED
  BY <1>1, <1>2

\* The head of a day, DayHead(x) for the day that holds x.
DayHead(x) == x - (x % Day)

LEMMA Heads ==
    ASSUME NEW x \in Int
    PROVE  /\ DayHead(x) \in Int /\ DayHead(x) <= x /\ x < DayHead(x) + Day
           /\ DayHead(x) = Day * (x \div Day) /\ x \div Day \in Int
           /\ x % Day \in 0 .. Day - 1 /\ x = DayHead(x) + (x % Day)
<1>1. Day \in Nat /\ Day > 0
  BY EpgAssumption
<1>2. x = Day * (x \div Day) + (x % Day) /\ x \div Day \in Int /\ x % Day \in 0 .. Day - 1
  BY <1>1
<1>3. Day * (x \div Day) \in Int
  BY <1>1, <1>2
<1> QED
  BY <1>1, <1>2, <1>3 DEF DayHead

\* Two times are on the same day when their days have the same head, and a day
\* that begins later begins a day later or more.
LEMMA HeadOrder ==
    ASSUME NEW x \in Int, NEW y \in Int
    PROVE  /\ x \div Day = y \div Day <=> DayHead(x) = DayHead(y)
           /\ DayHead(x) < DayHead(y) => DayHead(x) + Day <= DayHead(y)
           /\ x <= y => DayHead(x) <= DayHead(y)
<1> DEFINE j == x \div Day
           k == y \div Day
<1>1. Day \in Nat /\ Day > 0
  BY EpgAssumption
<1>2. /\ DayHead(x) \in Int /\ DayHead(x) <= x /\ x < DayHead(x) + Day /\ DayHead(x) = Day * j
      /\ DayHead(y) \in Int /\ DayHead(y) <= y /\ y < DayHead(y) + Day /\ DayHead(y) = Day * k
      /\ j \in Int /\ k \in Int
  BY Heads
<1> HIDE DEF j, k
<1>3. j < k => DayHead(x) + Day <= DayHead(y)
  <2> SUFFICES ASSUME j < k PROVE DayHead(x) + Day <= DayHead(y)
    OBVIOUS
  <2>1. j + 1 \in Int /\ j + 1 <= k
    BY <1>2
  <2>2. Day * (j + 1) <= Day * k
    BY <1>2, <2>1, Monotone
  <2>3. Day * (j + 1) = Day * j + Day
    BY <1>1, <1>2
  <2> QED
    BY <1>1, <1>2, <2>2, <2>3
<1>4. k < j => DayHead(y) + Day <= DayHead(x)
  <2> SUFFICES ASSUME k < j PROVE DayHead(y) + Day <= DayHead(x)
    OBVIOUS
  <2>1. k + 1 \in Int /\ k + 1 <= j
    BY <1>2
  <2>2. Day * (k + 1) <= Day * j
    BY <1>2, <2>1, Monotone
  <2>3. Day * (k + 1) = Day * k + Day
    BY <1>1, <1>2
  <2> QED
    BY <1>1, <1>2, <2>2, <2>3
<1>5. j = k <=> DayHead(x) = DayHead(y)
  BY <1>1, <1>2, <1>3, <1>4
<1>6. x <= y => DayHead(x) <= DayHead(y)
  BY <1>1, <1>2, <1>3, <1>4
<1>7. DayHead(x) < DayHead(y) => DayHead(x) + Day <= DayHead(y)
  BY <1>1, <1>2, <1>3, <1>4
<1> QED
  BY <1>5, <1>6, <1>7 DEF j, k

\* A moment after a head, by a whole day, is a head; so is one at which the day changes.
LEMMA NextHead ==
    ASSUME NEW x \in Int
    PROVE  /\ DayHead(DayHead(x)) = DayHead(x) /\ DayHead(DayHead(x) + Day) = DayHead(x) + Day
           /\ (x + 1) \div Day # x \div Day => x + 1 = DayHead(x) + Day
<1>1. Day \in Nat /\ Day > 0
  BY EpgAssumption
<1>2. DayHead(x) \in Int /\ DayHead(x) <= x /\ x < DayHead(x) + Day
  BY Heads
<1>3. DayHead(DayHead(x)) = DayHead(x)
  <2>1. /\ DayHead(DayHead(x)) \in Int /\ DayHead(DayHead(x)) <= DayHead(x)
        /\ DayHead(x) < DayHead(DayHead(x)) + Day
        /\ DayHead(DayHead(x)) < DayHead(x) => DayHead(DayHead(x)) + Day <= DayHead(x)
    BY <1>2, Heads, HeadOrder
  <2> QED
    BY <1>1, <1>2, <2>1
<1>4. DayHead(DayHead(x) + Day) = DayHead(x) + Day
  <2>1. DayHead(x) = Day * (x \div Day) /\ x \div Day \in Int
    BY Heads
  <2>2. (DayHead(x) + Day) \div Day \in Int /\ DayHead(x) + Day \in Int
    BY <1>1, <1>2
  <2> DEFINE j == x \div Day
             k == (DayHead(x) + Day) \div Day
  <2>3. /\ DayHead(DayHead(x) + Day) = Day * k /\ Day * k <= DayHead(x) + Day
        /\ DayHead(x) + Day < Day * k + Day /\ Day * k \in Int
    BY <2>2, Heads
  <2>4. j \in Int /\ k \in Int /\ DayHead(x) = Day * j
    BY <2>1, <2>2
  <2> HIDE DEF j, k
  <2>5. Day * (j + 1) = DayHead(x) + Day
    BY <1>1, <2>4
  <2>6. ~(k <= j)
    <3>1. k <= j => Day * k <= Day * j
      BY <2>4, Monotone
    <3> QED
      BY <1>1, <1>2, <2>3, <2>4, <3>1
  <2>7. ~(j + 2 <= k)
    <3>1. j + 2 <= k => Day * (j + 2) <= Day * k
      BY <2>4, Monotone
    <3>2. Day * (j + 2) = Day * j + Day + Day
      BY <1>1, <2>4
    <3> QED
      BY <1>1, <1>2, <2>3, <2>4, <3>1, <3>2
  <2>8. k = j + 1
    BY <2>4, <2>6, <2>7
  <2> QED
    BY <2>3, <2>5, <2>8
<1>5. (x + 1) \div Day # x \div Day => x + 1 = DayHead(x) + Day
  <2>1. /\ DayHead(x + 1) \in Int /\ DayHead(x + 1) <= x + 1 /\ x + 1 < DayHead(x + 1) + Day
        /\ x \div Day = (x + 1) \div Day <=> DayHead(x) = DayHead(x + 1)
        /\ DayHead(x) < DayHead(x + 1) => DayHead(x) + Day <= DayHead(x + 1)
        /\ DayHead(x) <= DayHead(x + 1)
    BY Heads, HeadOrder
  <2> QED
    BY <1>1, <1>2, <2>1
<1> QED
  BY <1>3, <1>4, <1>5

\* What is assumed of the change, in terms of the day of UTC it is in.
ChangeHead == DayHead(ChangeTime)

LEMMA Change ==
    /\ Day \in Nat /\ Day > 0
    /\ UtcBefore \in Nat /\ UtcAfter \in Nat /\ ChangeTime \in Nat
    /\ ChangeHead \in Int /\ ChangeHead <= ChangeTime /\ DayHead(ChangeHead) = ChangeHead
    /\ UtcBefore # UtcAfter => /\ ChangeTime + UtcBefore < ChangeHead + Day
                               /\ ChangeTime + UtcAfter < ChangeHead + Day
                               /\ UtcBefore <= (ChangeTime % Day) + UtcAfter
                               /\ UtcBefore < Day /\ UtcAfter < Day
<1>1. /\ UtcBefore \in Nat /\ UtcAfter \in Nat /\ ChangeTime \in Nat
      /\ Day \in Nat /\ Day > 0
  BY EpgAssumption, ChangeAssumption
<1>2. /\ ChangeHead \in Int /\ ChangeHead <= ChangeTime /\ DayHead(ChangeHead) = ChangeHead
      /\ ChangeTime = ChangeHead + (ChangeTime % Day)
      /\ ChangeTime % Day \in 0 .. Day - 1
  <2>1. ChangeTime \in Int
    BY <1>1
  <2>2. DayHead(DayHead(ChangeTime)) = DayHead(ChangeTime)
    BY <2>1, NextHead
  <2>3. /\ DayHead(ChangeTime) \in Int /\ DayHead(ChangeTime) <= ChangeTime
        /\ ChangeTime % Day \in 0 .. Day - 1
        /\ ChangeTime = DayHead(ChangeTime) + (ChangeTime % Day)
    BY <2>1, Heads
  <2> QED
    BY <2>2, <2>3 DEF ChangeHead
<1> QED
  BY <1>1, <1>2, ChangeAssumption

LEMMA ChangeOrder ==
    ASSUME NEW y \in Int
    PROVE  /\ DayHead(y) \in Int
           /\ ChangeHead < DayHead(y) => ChangeHead + Day <= DayHead(y)
           /\ DayHead(y) < ChangeHead => DayHead(y) + Day <= ChangeHead
           /\ ChangeHead <= y => ChangeHead <= DayHead(y)
<1>1. ChangeHead \in Int /\ DayHead(ChangeHead) = ChangeHead
  BY Change
<1>2. /\ DayHead(ChangeHead) < DayHead(y) => DayHead(ChangeHead) + Day <= DayHead(y)
      /\ ChangeHead <= y => DayHead(ChangeHead) <= DayHead(y)
  BY <1>1, HeadOrder
<1>3. DayHead(y) < DayHead(ChangeHead) => DayHead(y) + Day <= DayHead(ChangeHead)
  BY <1>1, HeadOrder
<1> QED
  BY <1>1, <1>2, <1>3, Heads

\* What LoadEPGJob makes of t: if both offsets are those of one side of the change,
\* the start of t's day; if the way there goes over the change, the start of the
\* day the change is in, in the new time.
LEMMA DayStartValue ==
    ASSUME NEW t \in Int
    PROVE  \/ /\ t < ChangeTime
              /\ DayStart(t) = DayHead(t + UtcBefore) - UtcBefore
           \/ /\ t >= ChangeTime
              /\ DayStart(t) = DayHead(t + UtcAfter) - UtcAfter
           \/ /\ UtcBefore # UtcAfter /\ t < ChangeTime /\ ChangeTime <= t + UtcBefore
              /\ DayStart(t) = ChangeHead - UtcAfter
<1> DEFINE x == t + UtcDiff(t)
<1>1. DayStart(t) = DayHead(x) - UtcDiff(x)
  BY DEF DayStart, DayHead
<1>2. CASE t >= ChangeTime
  BY <1>1, <1>2, Change DEF UtcDiff
<1>3. CASE t < ChangeTime /\ (x < ChangeTime \/ UtcBefore = UtcAfter)
  BY <1>1, <1>3, Change DEF UtcDiff
<1>4. CASE t < ChangeTime /\ x >= ChangeTime /\ UtcBefore # UtcAfter
  <2>1. x = t + UtcBefore /\ UtcDiff(x) = UtcAfter /\ x \in Int
    BY <1>4, Change DEF UtcDiff
  <2> HIDE DEF x
  <2>2. x < ChangeHead + Day
    BY <1>4, <2>1, Change
  <2>3. DayHead(x) \in Int /\ x < DayHead(x) + Day /\ ChangeHead <= DayHead(x) /\ DayHead(x) <= x
        /\ (ChangeHead < DayHead(x) => ChangeHead + Day <= DayHead(x))
    BY <1>4, <2>1, Change, Heads, HeadOrder DEF ChangeHead
  <2>4. DayHead(x) = ChangeHead
    BY <2>1, <2>2, <2>3, Change
  <2> QED
    BY <1>1, <1>4, <2>1, <2>4
<1>5. x \in Int
  BY Change DEF UtcDiff
<1> QED
  BY <1>2, <1>3, <1>4, <1>5, Change

\* LoadEPGJob's rounding: the day it finds for t starts at or before it and less
\* than a day before it, on whichever sides of the change the two offsets are
\* taken.  So the load that follows the window begins inside it and goes beyond.
THEOREM DayStartBounds ==
    ASSUME NEW t \in Int
    PROVE  /\ DayStart(t) \in Int
           /\ DayStart(t) <= t
           /\ t < DayStart(t) + Day
<1>1. /\ DayHead(t + UtcBefore) \in Int
      /\ DayHead(t + UtcBefore) <= t + UtcBefore /\ t + UtcBefore < DayHead(t + UtcBefore) + Day
      /\ DayHead(t + UtcAfter) \in Int
      /\ DayHead(t + UtcAfter) <= t + UtcAfter /\ t + UtcAfter < DayHead(t + UtcAfter) + Day
      /\ t + UtcBefore \in Int /\ t + UtcAfter \in Int
  <2>1. t + UtcBefore \in Int /\ t + UtcAfter \in Int
    BY Change
  <2> QED
    BY <2>1, Heads
<1>2. CASE t < ChangeTime /\ DayStart(t) = DayHead(t + UtcBefore) - UtcBefore
  BY <1>1, <1>2, Change
<1>3. CASE t >= ChangeTime /\ DayStart(t) = DayHead(t + UtcAfter) - UtcAfter
  BY <1>1, <1>3, Change
<1>4. CASE /\ UtcBefore # UtcAfter /\ t < ChangeTime /\ ChangeTime <= t + UtcBefore
           /\ DayStart(t) = ChangeHead - UtcAfter
  <2>1. ChangeTime = ChangeHead + (ChangeTime % Day)
    BY Change, Heads DEF ChangeHead
  <2> QED
    BY <1>4, <2>1, Change
<1> QED
  BY <1>2, <1>3, <1>4, DayStartValue

-----------------------------------------------------------------------------
(* Guides *)

LEMMA NoGuideIsGuide == IsGuide(NoGuide) /\ DOMAIN NoGuide = {}
  BY DEF IsGuide, NoGuide, Entry

\* Merging programmes into a guide gives a guide of the programmes of both.
LEMMA MergeIsGuide ==
    ASSUME NEW f, NEW g, IsGuide(f), IsGuide(g)
    PROVE  IsGuide(Merge(f, g)) /\ DOMAIN Merge(f, g) = DOMAIN f \cup DOMAIN g
  BY DEF IsGuide, Merge

\* Dropping programmes from a guide leaves a guide of the others.
LEMMA RestrictIsGuide ==
    ASSUME NEW g, IsGuide(g), NEW S, S \subseteq DOMAIN g
    PROVE  IsGuide(Restrict(g, S)) /\ DOMAIN Restrict(g, S) = S
  BY DEF IsGuide, Restrict

\* Setting the record id of a programme keeps the programmes.
LEMMA ExceptIsGuide ==
    ASSUME NEW g, IsGuide(g), NEW e \in DOMAIN g
    PROVE  IsGuide([g EXCEPT ![e] = TRUE]) /\ DOMAIN [g EXCEPT ![e] = TRUE] = DOMAIN g
  BY DEF IsGuide

LEMMA AnswerIsGuide ==
    ASSUME NEW start \in Int, NEW step \in Int
    PROVE  IsGuide(Answer(start, step))
  BY DEF IsGuide, Answer, Entry

-----------------------------------------------------------------------------
(* Type correctness *)

USE DEF Keep

LEMMA NatTimes == ASSUME NEW m \in Nat, NEW n \in Nat PROVE m * n \in Nat
  OBVIOUS

LEMMA LoadJobIsJob ==
    ASSUME NEW min \in Int, NEW max \in Int, NEW start \in Int, NEW step \in Int,
           NEW then \in {"lower", "release"}
    PROVE  LoadJob(min, max, start, step, then) \in Job
  BY DEF LoadJob, Job

LEMMA RefreshJobIsJob ==
    ASSUME NEW future \in Nat, NEW past \in Nat
    PROVE  RefreshJob(future, past) \in Job /\ NoJob \in Job
  BY DEF RefreshJob, NoJob, Job

LEMMA JobFields ==
    ASSUME NEW j \in Job
    PROVE  /\ j.min \in Int /\ j.max \in Int /\ j.start \in Int /\ j.step \in Int
           /\ j.then \in {"lower", "release"}
           /\ j.future \in Nat /\ j.past \in Nat
  BY DEF Job

LEMMA TypeInit == Init => TypeOK
<1> SUFFICES ASSUME Init PROVE TypeOK
  OBVIOUS
<1>1. IsGuide(NoGuide)
  BY NoGuideIsGuide
<1>2. \A h \in Handlers : IsTimer(timer[h])
  BY <1>1 DEF Init, IsTimer, Locals
<1>3. NoJob \in Job
  BY RefreshJobIsJob
<1>4. /\ m_epgMaxFutureDays \in Nat /\ m_epgMaxPastDays \in Nat
      /\ StartTime \in Nat /\ Day \in Nat /\ MaxCalls \in Nat
  BY EpgAssumption DEF Init
<1>5. m_epgMaxFutureDays * Day \in Nat /\ m_epgMaxPastDays * Day \in Nat
  BY <1>4, NatTimes
<1>6. m_epgMinTime \in Int /\ m_epgMaxTime \in Int
  BY <1>4, <1>5 DEF Init
<1>7. now \in Nat /\ calls \in 0..MaxCalls
  BY <1>4 DEF Init
<1>8. /\ IsGuide(m_epg) /\ IsGuide(fresh) /\ IsGuide(epg)
      /\ pc \in Labels /\ job \in Job /\ DOMAIN timer = Handlers
  BY <1>1, <1>3 DEF Init, Labels
<1>9. /\ m_channels \subseteq Channels /\ covered \subseteq Channels
      /\ kodiEpg \subseteq Entry /\ recorded \subseteq Entry
      /\ m_iLastStart \in Int /\ m_iLastEnd \in Int
  BY DEF Init
<1>10. /\ m_bLoadPlayList \in BOOLEAN /\ m_bLoadRecordings \in BOOLEAN
       /\ m_bEGPLoaded \in BOOLEAN
       /\ epg_updated \in BOOLEAN /\ clobbered \in BOOLEAN
  BY DEF Init
<1> QED
  BY <1>2, <1>4, <1>6, <1>7, <1>8, <1>9, <1>10 DEF TypeOK

LEMMA CallsType ==
    ASSUME calls \in 0..MaxCalls, calls < MaxCalls, calls' = calls + 1
    PROVE  calls' \in 0..MaxCalls
  BY EpgAssumption

\* The limits and the day counts stay numbers.
LEMMA LimitsType ==
    ASSUME TypeOK, NEW f \in Nat \cup {Keep}, NEW p \in Nat \cup {Keep}, SetEPGMaxDays(f, p)
    PROVE  /\ m_epgMinTime' \in Int /\ m_epgMaxTime' \in Int
           /\ m_epgMaxFutureDays' \in Nat /\ m_epgMaxPastDays' \in Nat
<1>1. m_epgMaxFutureDays' \in Nat /\ m_epgMaxPastDays' \in Nat
  BY DEF TypeOK, SetEPGMaxDays
<1>2. m_epgMaxFutureDays' * Day \in Nat /\ m_epgMaxPastDays' * Day \in Nat
  BY <1>1, NatTimes, EpgAssumption
<1> QED
  BY <1>1, <1>2 DEF TypeOK, SetEPGMaxDays

LEMMA TypeStep == TypeOK /\ [Next]_vars => TypeOK'
<1> SUFFICES ASSUME TypeOK, [Next]_vars PROVE TypeOK'
  OBVIOUS
<1> USE DEF kodiVars, flags, windowVars, workerVars
<1>1. CASE Tick
  BY <1>1 DEF Tick, TypeOK
<1>2. CASE SetEPGMaxFutureDays
  <2>1. PICK f \in FutureDays : SetEPGMaxDays(f, Keep)
    BY <1>2 DEF SetEPGMaxFutureDays
  <2>2. f \in Nat
    BY EpgAssumption
  <2> QED
    BY <1>2, <2>1, <2>2, LimitsType, CallsType DEF SetEPGMaxFutureDays, KodiCall, TypeOK
<1>3. CASE SetEPGMaxPastDays
  <2>1. PICK p \in PastDays : SetEPGMaxDays(Keep, p)
    BY <1>3 DEF SetEPGMaxPastDays
  <2>2. p \in Nat
    BY EpgAssumption
  <2> QED
    BY <1>3, <2>1, <2>2, LimitsType, CallsType DEF SetEPGMaxPastDays, KodiCall, TypeOK
<1>4. CASE GetEPGForChannel
  <2>1. PICK span \in Requests : /\ m_epgMinTime' = MinOf(span[1], m_epgMinTime)
                                 /\ m_epgMaxTime' = MaxOf(m_epgMaxTime, span[2])
    BY <1>4 DEF GetEPGForChannel
  <2>2. span[1] \in Nat /\ span[2] \in Nat
    BY EpgAssumption
  <2> QED
    BY <1>4, <2>1, <2>2, CallsType DEF GetEPGForChannel, KodiCall, TypeOK, MinOf, MaxOf
<1>5. CASE PinCheckUnlock
  BY <1>5, CallsType DEF PinCheckUnlock, KodiCall, TypeOK
<1>6. CASE LoadPlayList
  BY <1>6, EpgAssumption DEF LoadPlayList, TypeOK, Labels
<1>7. CASE ReloadPlayList
  BY <1>7 DEF ReloadPlayList, TypeOK, Labels
<1>8. CASE LoadRecordings
  BY <1>8 DEF LoadRecordings, TypeOK
<1>9. CASE TriggerFullRefresh
  <2>1. job' \in Job
    BY <1>9, RefreshJobIsJob DEF TriggerFullRefresh, TypeOK
  <2> QED
    BY <1>9, <2>1, CallsType DEF TriggerFullRefresh, TypeOK, Labels
<1>10. CASE RefreshLimits
  <2>1. NoJob \in Job /\ job.future \in Nat /\ job.past \in Nat
    BY RefreshJobIsJob, JobFields DEF TypeOK
  <2> QED
    BY <1>10, <2>1, LimitsType DEF RefreshLimits, TypeOK, Labels
<1>11. CASE LoadEPGJob
  <2>1. /\ now \in Int /\ SmallStep \in Int /\ Day \in Int
        /\ m_iLastEnd \in Int /\ DayStart(m_iLastEnd) \in Int
    BY EpgAssumption, DayStartBounds DEF TypeOK
  <2>2. job' \in Job /\ pc' \in Labels
    BY <1>11, <2>1, LoadJobIsJob DEF LoadEPGJob, CallLoadEPG, TypeOK, Labels
  <2>3. epg_updated' \in BOOLEAN
    BY <1>11 DEF LoadEPGJob, CallLoadEPG
  <2> QED
    BY <1>11, <2>2, <2>3 DEF LoadEPGJob, TypeOK
<1>12. CASE LoadEarlier
  <2>1. Day \in Int /\ m_iLastStart - Day \in Int /\ DayStart(m_iLastStart - Day) \in Int
    BY EpgAssumption, DayStartBounds DEF TypeOK
  <2>2. job' \in Job /\ pc' \in Labels
    <3>1. job.min \in Int /\ job.max \in Int
      BY JobFields DEF TypeOK
    <3> QED
      BY <1>12, <2>1, <3>1, LoadJobIsJob DEF LoadEarlier, EarlierStart, TypeOK, Labels
  <2>3. epg_updated' \in BOOLEAN
    BY <1>12 DEF LoadEarlier, TypeOK
  <2> QED
    BY <1>12, <2>2, <2>3 DEF LoadEarlier, TypeOK
<1>13. CASE LoadEPGFails
  <2>1. pc' \in Labels
    BY <1>13, JobFields DEF LoadEPGFails, TypeOK, Labels
  <2> QED
    BY <1>13, <2>1 DEF LoadEPGFails, TypeOK
<1>14. CASE LoadEPGAnswered
  <2>1. job.start \in Int /\ job.step \in Int
    BY JobFields DEF TypeOK
  <2>2. IsGuide(fresh')
    BY <1>14, <2>1, AnswerIsGuide DEF LoadEPGAnswered
  <2> QED
    BY <1>14, <2>2 DEF LoadEPGAnswered, TypeOK, Labels
<1>15. CASE LoadEPGMerges
  <2>1. job.start \in Int /\ job.step \in Int
    BY JobFields DEF TypeOK
  <2>2. m_iLastStart' \in Int /\ m_iLastEnd' \in Int
    BY <1>15, <2>1 DEF LoadEPGMerges, TypeOK, MinOf, MaxOf
  <2>3. m_epgMinTime' \in Int /\ m_epgMaxTime' \in Int
    BY <1>15, <2>2 DEF LoadEPGMerges, TypeOK, MinOf, MaxOf
  <2>4. IsGuide(fresh') /\ DOMAIN fresh' \subseteq Entry
    <3>1. IsGuide(fresh)
      BY DEF TypeOK
    <3>2. IsGuide(fresh')
      BY <1>15, <3>1, RestrictIsGuide DEF LoadEPGMerges
    <3> QED
      BY <3>2 DEF IsGuide
  <2>5. kodiEpg' \subseteq Entry /\ covered' \subseteq Channels
    BY <1>15, <2>4 DEF LoadEPGMerges, Announce, TypeOK
  <2> QED
    BY <1>15, <2>2, <2>3, <2>4, <2>5 DEF LoadEPGMerges, TypeOK, Labels
<1>16. CASE LoadEPGStores
  <2>1. IsGuide(m_epg')
    BY <1>16, MergeIsGuide DEF LoadEPGStores, TypeOK
  <2>2. pc' \in Labels
    BY <1>16, JobFields DEF LoadEPGStores, TypeOK, Labels
  <2> QED
    BY <1>16, <2>1, <2>2, NoGuideIsGuide DEF LoadEPGStores, TypeOK
<1>17. CASE ReleaseUnneededEPG
  <2>1. job' \in Job
    BY <1>17, LoadJobIsJob, RefreshJobIsJob DEF ReleaseUnneededEPG, TypeOK
  <2>2. m_iLastStart' \in Int /\ m_iLastEnd' \in Int
    BY <1>17 DEF ReleaseUnneededEPG, NarrowWindow, TypeOK, MinOf, MaxOf
  <2>3. IsGuide(epg') /\ kodiEpg' \subseteq Entry /\ pc' \in Labels
    BY <1>17 DEF ReleaseUnneededEPG, TypeOK, Labels
  <2> QED
    BY <1>17, <2>1, <2>2, <2>3 DEF ReleaseUnneededEPG, TypeOK
<1>18. CASE ReleaseStores
  <2>1. IsGuide(m_epg')
    BY <1>18, RestrictIsGuide DEF ReleaseStores, TypeOK
  <2>2. m_iLastStart' \in Int /\ m_iLastEnd' \in Int
    BY <1>18, JobFields DEF ReleaseStores, NarrowWindow, TypeOK, MinOf, MaxOf
  <2>3. NoJob \in Job
    BY RefreshJobIsJob
  <2> QED
    BY <1>18, <2>1, <2>2, <2>3, NoGuideIsGuide DEF ReleaseStores, TypeOK, Labels
<1>19. ASSUME NEW h \in Handlers, AddTimerFinds(h) PROVE TypeOK'
  <2>1. PICK e \in DOMAIN m_epg : timer' = [timer EXCEPT ![h] = Locals("call", e, m_epg)]
    BY <1>19 DEF AddTimerFinds
  <2>2. IsTimer(Locals("call", e, m_epg))
    BY DEF TypeOK, IsTimer, Locals, IsGuide
  <2>3. DOMAIN timer' = Handlers /\ \A i \in Handlers : IsTimer(timer'[i])
    BY <2>1, <2>2 DEF TypeOK
  <2> QED
    BY <1>19, <2>3 DEF AddTimerFinds, TypeOK
<1>20. ASSUME NEW h \in Handlers, AddTimerCalls(h) PROVE TypeOK'
  <2>1. timer[h].pc = "call" /\ IsTimer(timer[h])
    BY <1>20 DEF AddTimerCalls, TypeOK
  <2>2. timer[h].entry \in Entry
    BY <2>1 DEF IsTimer
  <2>3. /\ IsTimer(Locals("store", timer[h].entry, timer[h].epg))
        /\ IsTimer(Locals("failed", timer[h].entry, NoGuide))
    BY <2>1, <2>2, NoGuideIsGuide DEF IsTimer, Locals
  <2>4. DOMAIN timer' = Handlers /\ \A i \in Handlers : IsTimer(timer'[i])
    BY <1>20, <2>3 DEF AddTimerCalls, TypeOK
  <2> QED
    BY <1>20, <2>2, <2>4 DEF AddTimerCalls, TypeOK
<1>21. ASSUME NEW h \in Handlers, AddTimerStores(h) PROVE TypeOK'
  <2>1. timer[h].pc = "store" /\ IsTimer(timer[h])
    BY <1>21 DEF AddTimerStores, TypeOK
  <2>2. timer[h].entry \in DOMAIN timer[h].epg /\ IsGuide(timer[h].epg)
    BY <2>1 DEF IsTimer
  <2>3. IsGuide(m_epg')
    BY <1>21, <2>2, ExceptIsGuide DEF AddTimerStores
  <2>4. IsTimer(Locals("done", timer[h].entry, NoGuide))
    BY <2>1, NoGuideIsGuide DEF IsTimer, Locals
  <2>5. DOMAIN timer' = Handlers /\ \A i \in Handlers : IsTimer(timer'[i])
    BY <1>21, <2>4 DEF AddTimerStores, TypeOK
  <2> QED
    BY <1>21, <2>3, <2>5 DEF AddTimerStores, TypeOK
<1>22. CASE UNCHANGED vars
  BY <1>22 DEF vars, TypeOK
<1> QED
  BY <1>1, <1>2, <1>3, <1>4, <1>5, <1>6, <1>7, <1>8, <1>9, <1>10, <1>11, <1>12, <1>13,
     <1>14, <1>15, <1>16, <1>17, <1>18, <1>19, <1>20, <1>21, <1>22
     DEF Next, Worker, Kodi

\* Every reachable state of the guide, its window and its callers is well formed.
THEOREM TypeCorrect == Spec => []TypeOK
<1>1. Init => TypeOK
  BY TypeInit
<1>2. TypeOK /\ [Next]_vars => TypeOK'
  BY TypeStep
<1> QED
  BY <1>1, <1>2, PTL DEF Spec

-----------------------------------------------------------------------------
(* Kodi's copy of the guide *)

\* What Kodi knows at each point of the worker.  Between the events and the
\* publication it is ahead of m_epg by what is about to be published; an AddTimer
\* that publishes in that gap from an up-to-date copy leaves the programmes alone,
\* so the copy the worker holds still has the programmes of m_epg.
SyncAt ==
    /\ pc = "store"     => /\ DOMAIN epg = DOMAIN m_epg
                           /\ kodiEpg = DOMAIN m_epg \cup DOMAIN fresh
    /\ pc = "releasing" => /\ DOMAIN epg = DOMAIN m_epg
                           /\ kodiEpg = DOMAIN m_epg \ Unneeded(epg, job.min, job.max)
    /\ ~Publishing      => kodiEpg = DOMAIN m_epg

SyncInv == ~clobbered => SyncAt

LEMMA SyncInit == Init => SyncInv
  BY NoGuideIsGuide DEF Init, SyncInv, SyncAt, Publishing

\* A step that touches none of the guides, nor the worker's place, keeps SyncInv.
LEMMA SyncFrame ==
    ASSUME SyncInv, UNCHANGED <<m_epg, workerVars, kodiEpg, clobbered>>
    PROVE  SyncInv'
  BY DEF SyncInv, SyncAt, Publishing, Unneeded, workerVars

\* Nor does a step between two places outside of the publications.
LEMMA SyncElsewhere ==
    ASSUME SyncInv, ~Publishing, ~Publishing', UNCHANGED <<m_epg, kodiEpg, clobbered>>
    PROVE  SyncInv'
  BY DEF SyncInv, SyncAt, Publishing

LEMMA SyncStep == TypeOK /\ SyncInv /\ [Next]_vars => SyncInv'
<1> SUFFICES ASSUME TypeOK, SyncInv, [Next]_vars PROVE SyncInv'
  OBVIOUS
<1>1. CASE Tick
  BY <1>1, SyncFrame DEF Tick
<1>2. CASE SetEPGMaxFutureDays \/ SetEPGMaxPastDays \/ GetEPGForChannel \/ PinCheckUnlock
  BY <1>2, SyncFrame
     DEF SetEPGMaxFutureDays, SetEPGMaxPastDays, GetEPGForChannel, PinCheckUnlock, KodiCall
<1>3. CASE LoadPlayList
  BY <1>3, SyncElsewhere DEF LoadPlayList, Publishing
<1>4. CASE ReloadPlayList
  BY <1>4, SyncElsewhere DEF ReloadPlayList, Publishing
<1>5. CASE LoadRecordings
  BY <1>5, SyncFrame DEF LoadRecordings
<1>6. CASE TriggerFullRefresh
  BY <1>6, SyncElsewhere DEF TriggerFullRefresh, Publishing
<1>7. CASE RefreshLimits
  BY <1>7, SyncElsewhere DEF RefreshLimits, Publishing
<1>8. CASE LoadEPGJob
  BY <1>8, SyncElsewhere DEF LoadEPGJob, CallLoadEPG, Publishing
<1>9. CASE LoadEarlier
  BY <1>9, SyncElsewhere DEF LoadEarlier, Publishing
<1>10. CASE LoadEPGFails
  <2>1. job.then \in {"lower", "release"}
    BY JobFields DEF TypeOK
  <2> QED
    BY <1>10, <2>1, SyncElsewhere DEF LoadEPGFails, Publishing
<1>11. CASE LoadEPGAnswered
  BY <1>11, SyncElsewhere DEF LoadEPGAnswered, Publishing
<1>12. CASE LoadEPGMerges
  BY <1>12 DEF LoadEPGMerges, Announce, SyncInv, SyncAt, Publishing
<1>13. CASE LoadEPGStores
  <2>1. DOMAIN m_epg' = DOMAIN fresh \cup DOMAIN epg
    BY <1>13, MergeIsGuide DEF LoadEPGStores, TypeOK
  <2>2. job.then \in {"lower", "release"}
    BY JobFields DEF TypeOK
  <2> QED
    BY <1>13, <2>1, <2>2 DEF LoadEPGStores, SyncInv, SyncAt, Publishing
<1>14. CASE ReleaseUnneededEPG
  <2>1. CASE pc' = "idle"
    BY <1>14, <2>1, SyncElsewhere DEF ReleaseUnneededEPG, Publishing
  <2>2. CASE pc' = "releasing"
    <3>1. /\ job'.min = m_epgMinTime /\ job'.max = m_epgMaxTime
          /\ epg' = m_epg /\ m_epg' = m_epg /\ clobbered' = clobbered
          /\ kodiEpg' = kodiEpg \ Unneeded(m_epg, m_epgMinTime, m_epgMaxTime)
      BY <1>14, <2>2 DEF ReleaseUnneededEPG, LoadJob
    <3>2. ~clobbered => kodiEpg = DOMAIN m_epg
      BY <1>14 DEF ReleaseUnneededEPG, SyncInv, SyncAt, Publishing
    <3> QED
      BY <2>2, <3>1, <3>2 DEF SyncInv, SyncAt, Publishing
  <2> QED
    BY <1>14, <2>1, <2>2 DEF ReleaseUnneededEPG
<1>15. CASE ReleaseStores
  <2>1. DOMAIN m_epg' = DOMAIN epg \ Unneeded(epg, job.min, job.max)
    BY <1>15 DEF ReleaseStores, Restrict
  <2> QED
    BY <1>15, <2>1 DEF ReleaseStores, SyncInv, SyncAt, Publishing
<1>16. CASE \E h \in Handlers : AddTimerFinds(h) \/ AddTimerCalls(h)
  BY <1>16, SyncFrame DEF AddTimerFinds, AddTimerCalls
<1>17. ASSUME NEW h \in Handlers, AddTimerStores(h) PROVE SyncInv'
  <2> SUFFICES ASSUME ~clobbered' PROVE SyncAt'
    BY DEF SyncInv
  <2>1. ~clobbered /\ m_epg = timer[h].epg
    BY <1>17 DEF AddTimerStores
  <2>2. timer[h].entry \in DOMAIN timer[h].epg /\ IsGuide(timer[h].epg)
    BY <1>17 DEF AddTimerStores, TypeOK, IsTimer
  <2>3. DOMAIN m_epg' = DOMAIN m_epg
    BY <1>17, <2>1, <2>2, ExceptIsGuide DEF AddTimerStores
  <2>4. SyncAt
    BY <2>1 DEF SyncInv
  <2> QED
    BY <1>17, <2>3, <2>4 DEF AddTimerStores, SyncAt, Publishing, Unneeded, workerVars
<1>18. CASE UNCHANGED vars
  BY <1>18, SyncFrame DEF vars
<1> QED
  BY <1>1, <1>2, <1>3, <1>4, <1>5, <1>6, <1>7, <1>8, <1>9, <1>10, <1>11, <1>12, <1>13,
     <1>14, <1>15, <1>16, <1>17, <1>18
     DEF Next, Worker, Kodi

\* Whatever Kodi calls and whenever the backend fails, the events the worker
\* sends keep Kodi's copy equal to the published guide, unless AddTimer has
\* published over a guide it had not copied.
THEOREM KodiStaysInSync == Spec => []KodiInSync
<1>1. Init => SyncInv
  BY SyncInit
<1>2. TypeOK /\ TypeOK' /\ SyncInv /\ [Next]_vars => SyncInv'
  BY SyncStep
<1>3. SyncInv => KodiInSync
  BY DEF SyncInv, SyncAt, KodiInSync
<1> QED
  BY <1>1, <1>2, <1>3, TypeCorrect, PTL DEF Spec

-----------------------------------------------------------------------------
(* Holes in the window *)

\* No load of an earlier day ends in the day that q ends and leaves q out: the
\* hole such a load leaves, between its end and the window it extends, lies between
\* DayStart(x) + Day and x + Day for an x.
Kept(q) == \A x \in Int : x >= q + 1 - Day => DayStart(x) >= q + 1 - Day

\* The last moment of a day is kept if no change comes ...
LEMMA KeptPlain ==
    ASSUME UtcBefore = UtcAfter, NEW k \in Int, DayHead(k) = k
    PROVE  Kept(k + Day - UtcBefore - 1)
<1> SUFFICES ASSUME NEW x \in Int, x >= k - UtcBefore
             PROVE  DayStart(x) >= k - UtcBefore
  BY Change DEF Kept
<1>1. DayStart(x) = DayHead(x + UtcBefore) - UtcBefore
  BY DayStartValue
<1>2. x + UtcBefore \in Int /\ k <= x + UtcBefore
  BY Change
<1>3. k <= DayHead(x + UtcBefore) /\ DayHead(x + UtcBefore) \in Int
  BY <1>2, Heads, HeadOrder
<1> QED
  BY <1>1, <1>3, Change

\* ... in a day before the change, as long as it is not after the start in new time
\* of the day of the change ...
LEMMA KeptBefore ==
    ASSUME UtcBefore # UtcAfter, NEW k \in Int, DayHead(k) = k,
           k - UtcBefore <= ChangeHead - UtcAfter, k <= ChangeHead
    PROVE  Kept(k + Day - UtcBefore - 1)
<1> SUFFICES ASSUME NEW x \in Int, x >= k - UtcBefore
             PROVE  DayStart(x) >= k - UtcBefore
  BY Change DEF Kept
<1>1. CASE x < ChangeTime /\ DayStart(x) = DayHead(x + UtcBefore) - UtcBefore
  <2>1. x + UtcBefore \in Int /\ k <= x + UtcBefore
    BY Change
  <2>2. k <= DayHead(x + UtcBefore) /\ DayHead(x + UtcBefore) \in Int
    BY <2>1, Heads, HeadOrder
  <2> QED
    BY <1>1, <2>2, Change
<1>2. CASE x >= ChangeTime /\ DayStart(x) = DayHead(x + UtcAfter) - UtcAfter
  <2>1. x + UtcAfter \in Int /\ ChangeHead <= x + UtcAfter
    BY <1>2, Change
  <2>2. ChangeHead <= DayHead(x + UtcAfter) /\ DayHead(x + UtcAfter) \in Int
    BY <2>1, Heads, HeadOrder, Change
  <2> QED
    BY <1>2, <2>2, Change
<1>3. CASE DayStart(x) = ChangeHead - UtcAfter
  BY <1>3, Change
<1> QED
  BY <1>1, <1>2, <1>3, DayStartValue

\* ... and in a day after that of the change.
LEMMA KeptAfter ==
    ASSUME UtcBefore # UtcAfter, NEW k \in Int, DayHead(k) = k, k >= ChangeHead + Day
    PROVE  Kept(k + Day - UtcAfter - 1)
<1> SUFFICES ASSUME NEW x \in Int, x >= k - UtcAfter
             PROVE  DayStart(x) >= k - UtcAfter
  BY Change DEF Kept
<1>1. x >= ChangeTime
  BY Change
<1>2. DayStart(x) = DayHead(x + UtcAfter) - UtcAfter
  BY <1>1, Change, DayStartValue
<1>3. x + UtcAfter \in Int /\ k <= x + UtcAfter
  BY Change
<1>4. k <= DayHead(x + UtcAfter) /\ DayHead(x + UtcAfter) \in Int
  BY <1>3, Heads, HeadOrder
<1> QED
  BY <1>2, <1>4, Change

\* The days other than that of the change end before it or begin after it.
LEMMA OtherDays ==
    ASSUME UtcBefore # UtcAfter, NEW t \in Int, ~ChangeDay(t)
    PROVE  /\ t < ChangeTime  => /\ UtcDiff(t) = UtcBefore
                                 /\ DayHead(t + UtcBefore) + Day <= ChangeHead
           /\ t >= ChangeTime => /\ UtcDiff(t) = UtcAfter
                                 /\ DayHead(t + UtcAfter) >= ChangeHead + Day
<1> DEFINE y == t + UtcDiff(t)
           z == ChangeTime + UtcAfter
<1>1. y \in Int /\ z \in Int
  BY Change DEF UtcDiff
<1>2. DayHead(z) = ChangeHead
  <2>1. /\ DayHead(z) \in Int /\ DayHead(z) <= z /\ z < DayHead(z) + Day
        /\ ChangeHead <= DayHead(z)
        /\ ChangeHead < DayHead(z) => ChangeHead + Day <= DayHead(z)
    BY <1>1, Change, Heads, HeadOrder DEF ChangeHead
  <2> QED
    BY <2>1, Change
<1>3. DayHead(y) # ChangeHead
  <2>1. UtcDiff(ChangeTime) = UtcAfter
    BY Change DEF UtcDiff
  <2>2. y \div Day # z \div Day
    BY <2>1 DEF ChangeDay, LocalDay
  <2> QED
    BY <1>1, <1>2, <2>2, HeadOrder
<1>4. DayHead(y) \in Int /\ DayHead(y) <= y /\ y < DayHead(y) + Day
  BY <1>1, Heads
<1>5. CASE t < ChangeTime
  <2>1. UtcDiff(t) = UtcBefore
    BY <1>5 DEF UtcDiff
  <2>2. DayHead(y) < ChangeHead
    <3>1. y < ChangeHead + Day
      BY <1>5, <2>1, Change
    <3>2. ChangeHead < DayHead(y) => ChangeHead + Day <= DayHead(y)
      BY <1>1, ChangeOrder
    <3> HIDE DEF y
    <3> QED
      BY <1>1, <1>3, <1>4, <3>1, <3>2, Change
  <2>3. DayHead(y) + Day <= ChangeHead
    BY <1>1, <2>2, Change, HeadOrder DEF ChangeHead
  <2> QED
    BY <1>5, <2>1, <2>3, Change
<1>6. CASE t >= ChangeTime
  <2>1. UtcDiff(t) = UtcAfter
    BY <1>6, Change DEF UtcDiff
  <2>2. ChangeHead <= DayHead(y)
    <3>1. ChangeTime <= y
      BY <1>6, <2>1, Change
    <3> QED
      BY <1>1, <3>1, Change, HeadOrder DEF ChangeHead
  <2>3. ChangeHead + Day <= DayHead(y)
    <3>1. ChangeHead < DayHead(y) => ChangeHead + Day <= DayHead(y)
      BY <1>1, ChangeOrder
    <3> HIDE DEF y
    <3> QED
      BY <1>3, <1>4, <2>2, <3>1, Change
  <2> QED
    BY <1>6, <2>1, <2>3, Change
<1> QED
  BY <1>5, <1>6, Change

\* On every day but that of the change LoadEPGJob's rounding is exact: what it finds
\* for t is the first moment of t's local day.
THEOREM DayStartExact ==
    ASSUME NEW t \in Int, ~ChangeDay(t)
    PROVE  /\ LocalDay(DayStart(t)) = LocalDay(t)
           /\ LocalDay(DayStart(t) - 1) # LocalDay(t)
<1> DEFINE y == t + UtcDiff(t)
           s == DayStart(t)
<1>1. y \in Int /\ UtcDiff(t) \in Int
  BY Change DEF UtcDiff
<1>2. /\ DayHead(y) \in Int /\ DayHead(y) <= y /\ y < DayHead(y) + Day
      /\ DayHead(DayHead(y)) = DayHead(y)
  BY <1>1, Heads, NextHead
<1>3. s = DayHead(y) - UtcDiff(t) /\ UtcDiff(s) = UtcDiff(t) /\ UtcDiff(s - 1) = UtcDiff(t)
  <2>1. CASE UtcBefore = UtcAfter
    <3>1. s = DayHead(t + UtcBefore) - UtcBefore /\ UtcDiff(t) = UtcBefore
      BY <2>1, DayStartValue DEF UtcDiff
    <3> QED
      BY <2>1, <3>1 DEF UtcDiff
  <2>2. CASE UtcBefore # UtcAfter /\ t < ChangeTime
    <3>1. UtcDiff(t) = UtcBefore /\ DayHead(y) + Day <= ChangeHead
      BY <2>2, OtherDays
    <3>2. t + UtcBefore < ChangeTime
      <4>1. y = t + UtcBefore
        BY <3>1
      <4> HIDE DEF y
      <4> QED
        BY <1>1, <1>2, <3>1, <4>1, Change
    <3>3. s = DayHead(y) - UtcBefore
      BY <2>2, <3>1, <3>2, Change, DayStartValue
    <3>4. s \in Int /\ s < ChangeTime
      <4> HIDE DEF y, s
      <4> QED
        BY <1>2, <3>1, <3>3, Change
    <3> HIDE DEF s
    <3> QED
      BY <3>1, <3>3, <3>4, Change DEF UtcDiff
  <2>3. CASE UtcBefore # UtcAfter /\ t >= ChangeTime
    <3>1. UtcDiff(t) = UtcAfter /\ DayHead(y) >= ChangeHead + Day
      BY <2>3, OtherDays
    <3>2. s = DayHead(y) - UtcAfter
      BY <2>3, <3>1, Change, DayStartValue
    <3>3. s \in Int /\ s - 1 >= ChangeTime
      <4> HIDE DEF y, s
      <4> QED
        BY <2>3, <1>2, <3>1, <3>2, Change
    <3> HIDE DEF s
    <3> QED
      BY <3>1, <3>2, <3>3, Change DEF UtcDiff
  <2> QED
    BY <2>1, <2>2, <2>3, Change
<1>4. s + UtcDiff(s) = DayHead(y) /\ s - 1 + UtcDiff(s - 1) = DayHead(y) - 1
  <2> HIDE DEF y, s
  <2> QED
    BY <1>1, <1>2, <1>3
<1>5. DayHead(y) \div Day = y \div Day
  BY <1>1, <1>2, HeadOrder
<1>6. (DayHead(y) - 1) \div Day # y \div Day
  <2>1. DayHead(y) - 1 \in Int
    BY <1>2
  <2>2. DayHead(DayHead(y) - 1) \in Int /\ DayHead(DayHead(y) - 1) <= DayHead(y) - 1
    BY <2>1, Heads
  <2>3. DayHead(DayHead(y) - 1) # DayHead(y)
    <3> HIDE DEF y
    <3> QED
      BY <1>2, <2>2
  <2> QED
    BY <1>1, <2>1, <2>3, HeadOrder
<1> QED
  BY <1>4, <1>5, <1>6 DEF LocalDay

\* The last moment of a day other than that of the change is kept.
LEMMA MidnightKept ==
    ASSUME NEW t \in Int, LocalDay(t + 1) # LocalDay(t), ~ChangeDay(t)
    PROVE  Kept(t)
<1>1. CASE UtcBefore = UtcAfter
  <2> DEFINE y == t + UtcBefore
  <2>1. UtcDiff(t) = UtcBefore /\ UtcDiff(t + 1) = UtcBefore /\ y \in Int
    BY <1>1, Change DEF UtcDiff
  <2>2. (y + 1) \div Day # y \div Day
    <3>1. t + 1 + UtcBefore = y + 1
      BY Change
    <3> QED
      BY <2>1, <3>1 DEF LocalDay
  <2>3. y + 1 = DayHead(y) + Day /\ DayHead(DayHead(y)) = DayHead(y) /\ DayHead(y) \in Int
    BY <2>1, <2>2, NextHead, Heads
  <2>4. t = DayHead(y) + Day - UtcBefore - 1
    BY <2>3, Change
  <2> QED
    BY <1>1, <2>3, <2>4, KeptPlain
<1>2. CASE UtcBefore # UtcAfter /\ t < ChangeTime
  <2> DEFINE y == t + UtcBefore
  <2>1. y \in Int /\ UtcDiff(t) = UtcBefore /\ DayHead(y) + Day <= ChangeHead
    BY <1>2, Change, OtherDays
  <2>2. /\ DayHead(y) \in Int /\ DayHead(y) <= y /\ y < DayHead(y) + Day
        /\ DayHead(DayHead(y)) = DayHead(y)
    BY <2>1, Heads, NextHead
  <2>3. y + 1 = DayHead(y) + Day
    <3>1. CASE t + 1 < ChangeTime
      <4>1. t + 1 + UtcDiff(t + 1) = y + 1
        BY <3>1, Change DEF UtcDiff
      <4>2. (y + 1) \div Day # y \div Day
        BY <2>1, <4>1 DEF LocalDay
      <4> QED
        BY <2>1, <4>2, NextHead
    <3>2. CASE t + 1 >= ChangeTime
      BY <2>1, <2>2, <3>2, <1>2, Change
    <3> QED
      BY <3>1, <3>2, Change
  <2>4. t = DayHead(y) + Day - UtcBefore - 1
    BY <2>2, <2>3, Change
  <2>5. DayHead(y) - UtcBefore <= ChangeHead - UtcAfter /\ DayHead(y) <= ChangeHead
    <3> HIDE DEF y
    <3> QED
      BY <1>2, <2>1, <2>2, Change
  <2> QED
    BY <1>2, <2>2, <2>4, <2>5, KeptBefore
<1>3. CASE UtcBefore # UtcAfter /\ t >= ChangeTime
  <2> DEFINE y == t + UtcAfter
  <2>1. y \in Int /\ UtcDiff(t) = UtcAfter /\ ChangeHead + Day <= DayHead(y)
    <3>1. DayHead(y) \in Int
      BY Change, Heads
    <3> QED
      BY <1>3, <3>1, Change, OtherDays
  <2>2. DayHead(y) \in Int /\ DayHead(DayHead(y)) = DayHead(y)
    BY <2>1, Heads, NextHead
  <2>3. t + 1 + UtcDiff(t + 1) = y + 1
    BY <1>3, Change DEF UtcDiff
  <2>4. (y + 1) \div Day # y \div Day
    BY <2>1, <2>3 DEF LocalDay
  <2>5. y + 1 = DayHead(y) + Day
    BY <2>1, <2>4, NextHead
  <2>6. t = DayHead(y) + Day - UtcAfter - 1
    BY <2>2, <2>5, Change
  <2> QED
    BY <1>3, <2>1, <2>2, <2>6, Change, KeptAfter
<1> QED
  BY <1>1, <1>2, <1>3, Change

\* A kept moment comes in less than a day, from the day of the change in less than two.
LEMMA KeptSoon ==
    ASSUME NEW t \in Int
    PROVE  \E u \in Int : /\ t <= u /\ Kept(u)
                          /\ u < t + (IF ChangeDay(t) THEN 2 * Day ELSE Day)
<1>1. CASE UtcBefore = UtcAfter
  <2> DEFINE y == t + UtcBefore
             u == DayHead(y) + Day - UtcBefore - 1
  <2>1. /\ y \in Int /\ DayHead(y) \in Int /\ DayHead(y) <= y /\ y < DayHead(y) + Day
        /\ DayHead(DayHead(y)) = DayHead(y)
    <3>1. y \in Int
      BY Change
    <3> QED
      BY <3>1, Heads, NextHead
  <2>2. Kept(u)
    BY <1>1, <2>1, KeptPlain
  <2>3. u \in Int /\ t <= u /\ u < t + Day
    BY <2>1, Change
  <2>4. ~ChangeDay(t)
    BY <1>1 DEF ChangeDay
  <2> QED
    BY <2>2, <2>3, <2>4
<1>2. CASE UtcBefore # UtcAfter /\ t < ChangeTime /\ ~ChangeDay(t)
  <2> DEFINE y == t + UtcBefore
             u == DayHead(y) + Day - UtcBefore - 1
  <2>1. /\ y \in Int /\ DayHead(y) \in Int /\ DayHead(y) <= y /\ y < DayHead(y) + Day
        /\ DayHead(DayHead(y)) = DayHead(y)
    <3>1. y \in Int
      BY Change
    <3> QED
      BY <3>1, Heads, NextHead
  <2>2. DayHead(y) + Day <= ChangeHead
    BY <1>2, OtherDays
  <2>3. DayHead(y) - UtcBefore <= ChangeHead - UtcAfter /\ DayHead(y) <= ChangeHead
    <3> HIDE DEF y
    <3> QED
      BY <1>2, <2>1, <2>2, Change
  <2>4. Kept(u)
    BY <1>2, <2>1, <2>3, KeptBefore
  <2>5. u \in Int /\ t <= u /\ u < t + Day
    BY <2>1, Change
  <2> QED
    BY <1>2, <2>4, <2>5
<1>3. CASE UtcBefore # UtcAfter /\ t >= ChangeTime /\ ~ChangeDay(t)
  <2> DEFINE y == t + UtcAfter
             u == DayHead(y) + Day - UtcAfter - 1
  <2>1. /\ y \in Int /\ DayHead(y) \in Int /\ DayHead(y) <= y /\ y < DayHead(y) + Day
        /\ DayHead(DayHead(y)) = DayHead(y)
    <3>1. y \in Int
      BY Change
    <3> QED
      BY <3>1, Heads, NextHead
  <2>2. DayHead(y) >= ChangeHead + Day
    BY <1>3, OtherDays
  <2>3. Kept(u)
    BY <1>3, <2>1, <2>2, KeptAfter
  <2>4. u \in Int /\ t <= u /\ u < t + Day
    BY <2>1, Change
  <2> QED
    BY <1>3, <2>3, <2>4
<1>4. CASE UtcBefore # UtcAfter /\ ChangeDay(t)
  <2> DEFINE y == t + UtcDiff(t)
             z == ChangeTime + UtcAfter
  <2>1. y \in Int /\ z \in Int
    BY Change DEF UtcDiff
  <2>2. ChangeHead <= y /\ y < ChangeHead + Day
    <3>1. y \div Day = z \div Day
      <4>1. UtcDiff(ChangeTime) = UtcAfter
        BY Change DEF UtcDiff
      <4> QED
        BY <1>4, <4>1 DEF ChangeDay, LocalDay
    <3>2. DayHead(y) = DayHead(z)
      BY <2>1, <3>1, HeadOrder
    <3>3. /\ DayHead(z) \in Int /\ DayHead(z) <= z /\ ChangeHead <= DayHead(z)
          /\ ChangeHead < DayHead(z) => ChangeHead + Day <= DayHead(z)
      <4>1. ChangeHead <= z
        BY <1>4, Change
      <4> QED
        BY <2>1, <4>1, Heads, ChangeOrder
    <3>4. z < ChangeHead + Day
      BY <1>4, Change
    <3>5. DayHead(z) = ChangeHead
      BY <2>1, <3>3, <3>4, Change
    <3>6. DayHead(y) <= y /\ y < DayHead(y) + Day
      BY <2>1, Heads
    <3> QED
      BY <3>2, <3>5, <3>6
  <2>3. CASE t >= ChangeHead - UtcAfter
    <3> DEFINE k == ChangeHead + Day
               u == k + Day - UtcAfter - 1
    <3>1. k \in Int /\ DayHead(k) = k /\ k >= ChangeHead + Day
      <4>1. DayHead(ChangeHead + Day) = ChangeHead + Day
        BY Change, NextHead DEF ChangeHead
      <4> QED
        BY <4>1, Change
    <3>2. Kept(u)
      BY <1>4, <3>1, KeptAfter
    <3>3. u \in Int /\ t <= u
      BY <1>4, <2>2, Change DEF UtcDiff
    <3>4. u < t + 2 * Day
      BY <2>3, Change
    <3> QED
      BY <1>4, <3>2, <3>3, <3>4
  <2>4. CASE t < ChangeHead - UtcAfter
    <3> DEFINE u == ChangeHead + Day - UtcBefore - 1
    <3>1. t < ChangeTime /\ UtcDiff(t) = UtcBefore
      BY <2>4, Change DEF UtcDiff
    <3>2. ChangeHead - UtcBefore <= t
      BY <2>2, <3>1, Change
    <3>3. ChangeHead - UtcBefore <= ChangeHead - UtcAfter
      BY <2>4, <3>2, Change
    <3>4. Kept(u)
      BY <1>4, <3>3, Change, KeptBefore
    <3>5. u \in Int /\ t <= u /\ u < t + 2 * Day
      BY <1>4, <2>4, <3>2, Change
    <3> QED
      BY <1>4, <3>4, <3>5
  <2> QED
    BY <2>3, <2>4, Change
<1> QED
  BY <1>1, <1>2, <1>3, <1>4, Change

\* The merge of the day that follows or precedes the window: every kept moment of
\* the wider window is in the old one or in the span loaded.
LEMMA Widened ==
    ASSUME NEW first \in Int, NEW last \in Int, NEW start \in Int,
           start \in {DayStart(last), DayStart(first - Day)},
           NEW t \in MinOf(first, start) .. MaxOf(last, start + Day) - 1, Kept(t)
    PROVE  t \in first .. last - 1 \/ t \in start .. start + Day - 1
<1>1. Day \in Nat /\ t \in Int
  BY EpgAssumption DEF MinOf, MaxOf
<1>2. MinOf(first, start) <= t /\ t < MaxOf(last, start + Day)
  BY <1>1 DEF MinOf, MaxOf
<1>3. CASE start = DayStart(last)
  <2>1. start <= last /\ last < start + Day
    BY <1>3, DayStartBounds
  <2> QED
    BY <1>1, <1>2, <2>1 DEF MinOf, MaxOf
<1>4. CASE start = DayStart(first - Day)
  <2>1. first - Day \in Int
    BY <1>1
  <2>2. start <= first - Day /\ first - Day < start + Day
    BY <1>4, <2>1, DayStartBounds
  <2>3. ~(start + Day <= t /\ t < first)
    <3> SUFFICES ASSUME start + Day <= t, t < first PROVE FALSE
      OBVIOUS
    <3>1. first - Day >= t + 1 - Day
      BY <1>1
    <3>2. start >= t + 1 - Day
      BY <1>4, <2>1, <3>1 DEF Kept
    <3> QED
      BY <1>1, <3>2
  <2> QED
    BY <1>1, <1>2, <2>2, <2>3 DEF MinOf, MaxOf
<1> QED
  BY <1>3, <1>4

\* What LoadEPG is called with once there is a window, and what it was answered.
SpanInv ==
    /\ pc \in {"fetch", "merge"} /\ m_iLastEnd # 0 =>
          /\ job.step = Day
          /\ job.start \in {DayStart(m_iLastEnd), DayStart(m_iLastStart - Day)}
    /\ pc = "merge" => DOMAIN fresh = Channels \X (job.start .. job.start + job.step - 1)

LEMMA SpanInit == Init => SpanInv
  BY DEF Init, SpanInv

LEMMA SpanElsewhere ==
    ASSUME pc' \notin {"fetch", "merge"}
    PROVE  SpanInv'
  BY DEF SpanInv

LEMMA SpanFrame ==
    ASSUME SpanInv, UNCHANGED <<windowVars, workerVars>>
    PROVE  SpanInv'
  BY DEF SpanInv, windowVars, workerVars

LEMMA LoadJobFields ==
    ASSUME NEW min, NEW max, NEW start, NEW step, NEW then
    PROVE  /\ LoadJob(min, max, start, step, then).start = start
           /\ LoadJob(min, max, start, step, then).step = step
  BY DEF LoadJob

LEMMA SpanStep == TypeOK /\ SpanInv /\ [Next]_vars => SpanInv'
<1> SUFFICES ASSUME TypeOK, SpanInv, [Next]_vars PROVE SpanInv'
  OBVIOUS
<1>1. CASE Tick \/ Kodi \/ LoadRecordings
  BY <1>1, SpanFrame
     DEF Tick, Kodi, LoadRecordings, SetEPGMaxFutureDays, SetEPGMaxPastDays,
         GetEPGForChannel, PinCheckUnlock, KodiCall, AddTimerFinds, AddTimerCalls,
         AddTimerStores
<1>2. CASE \/ LoadPlayList \/ ReloadPlayList \/ TriggerFullRefresh \/ RefreshLimits
           \/ LoadEPGMerges \/ ReleaseUnneededEPG \/ ReleaseStores
  BY <1>2, SpanElsewhere
     DEF LoadPlayList, ReloadPlayList, TriggerFullRefresh, RefreshLimits,
         LoadEPGMerges, ReleaseUnneededEPG, ReleaseStores
<1>3. CASE LoadEPGFails \/ LoadEPGStores
  <2>1. job.then \in {"lower", "release"}
    BY JobFields DEF TypeOK
  <2> QED
    BY <1>3, <2>1, SpanElsewhere DEF LoadEPGFails, LoadEPGStores
<1>4. CASE LoadEPGJob
  <2>1. CASE m_iLastEnd = 0
    BY <1>4, <2>1 DEF LoadEPGJob, CallLoadEPG, SpanInv, windowVars
  <2>2. CASE m_iLastEnd # 0 /\ m_epgMaxTime > m_iLastEnd
    <3>1. /\ job' = LoadJob(m_epgMinTime, m_epgMaxTime, DayStart(m_iLastEnd), Day, "lower")
          /\ pc' = "fetch" /\ m_iLastEnd' = m_iLastEnd
      BY <1>4, <2>2 DEF LoadEPGJob, CallLoadEPG, windowVars, TypeOK
    <3>2. job'.start = DayStart(m_iLastEnd) /\ job'.step = Day
      BY <3>1, LoadJobFields
    <3>3. DayStart(m_iLastEnd)' = DayStart(m_iLastEnd)
      BY <3>1 DEF DayStart, UtcDiff
    <3> QED
      BY <3>1, <3>2, <3>3 DEF SpanInv
  <2>3. CASE m_iLastEnd # 0 /\ m_epgMaxTime <= m_iLastEnd
    BY <1>4, <2>3, SpanElsewhere DEF LoadEPGJob, CallLoadEPG, TypeOK
  <2> QED
    BY <2>1, <2>2, <2>3 DEF TypeOK
<1>5. CASE LoadEarlier
  <2>1. CASE pc' = "fetch"
    <3>1. /\ job' = LoadJob(job.min, job.max, DayStart(m_iLastStart - Day), Day, "release")
          /\ m_iLastStart' = m_iLastStart
      BY <1>5, <2>1 DEF LoadEarlier, EarlierStart, windowVars
    <3>2. job'.start = DayStart(m_iLastStart - Day) /\ job'.step = Day
      BY <3>1, LoadJobFields
    <3>3. DayStart(m_iLastStart - Day)' = DayStart(m_iLastStart - Day)
      BY <3>1 DEF DayStart, UtcDiff
    <3> QED
      BY <2>1, <3>2, <3>3 DEF SpanInv
  <2>2. CASE pc' # "fetch"
    BY <1>5, <2>2, SpanElsewhere DEF LoadEarlier
  <2> QED
    BY <2>1, <2>2
<1>6. CASE LoadEPGAnswered
  <2>1. DOMAIN fresh' = Channels \X (job.start .. job.start + job.step - 1)
    BY <1>6 DEF LoadEPGAnswered, Answer
  <2> QED
    BY <1>6, <2>1 DEF LoadEPGAnswered, SpanInv, windowVars
<1>7. CASE UNCHANGED vars
  BY <1>7, SpanFrame DEF vars
<1> QED
  BY <1>1, <1>2, <1>3, <1>4, <1>5, <1>6, <1>7 DEF Next, Worker

\* Whatever the limits cut off the window and however loads fail, each load the
\* worker asks for reaches beyond it.
THEOREM LoadsReachFurther == Spec => []LoadsAskForMore
<1>1. TypeOK /\ SpanInv => LoadsAskForMore
  <2> SUFFICES ASSUME TypeOK, SpanInv, pc = "fetch", m_iLastEnd # 0
               PROVE  job.start < m_iLastStart \/ m_iLastEnd < job.start + job.step
    BY DEF LoadsAskForMore
  <2>1. Day \in Nat /\ Day > 0 /\ m_iLastStart \in Int /\ m_iLastEnd \in Int
    BY EpgAssumption DEF TypeOK
  <2>2. job.step = Day
    BY DEF SpanInv
  <2>3. CASE job.start = DayStart(m_iLastEnd)
    <3>1. job.start \in Int /\ m_iLastEnd < job.start + Day
      BY <2>1, <2>3, DayStartBounds
    <3> QED
      BY <2>2, <3>1
  <2>4. CASE job.start = DayStart(m_iLastStart - Day)
    <3>1. m_iLastStart - Day \in Int
      BY <2>1
    <3>2. job.start \in Int /\ job.start <= m_iLastStart - Day
      BY <2>4, <3>1, DayStartBounds
    <3> QED
      BY <2>1, <3>2
  <2> QED
    BY <2>3, <2>4 DEF SpanInv
<1> QED
  BY <1>1, SpanInit, SpanStep, TypeCorrect, PTL DEF Spec

\* The guide, with what is about to be published, has every kept moment of the window.
HoleAt ==
    \A c \in covered, t \in Window : Kept(t) =>
        <<c, t>> \in DOMAIN m_epg \cup (IF pc = "store" THEN DOMAIN fresh ELSE {})

HoleInv == ~clobbered => HoleAt

LEMMA HoleInit == Init => HoleInv
  BY DEF Init, HoleInv, HoleAt

\* A step between places outside of LoadEPG's publication that leaves guide and
\* window alone keeps HoleInv.
LEMMA HoleElsewhere ==
    ASSUME HoleInv, pc # "store", pc' # "store",
           UNCHANGED <<m_epg, m_iLastStart, m_iLastEnd, covered, clobbered>>
    PROVE  HoleInv'
<1> SUFFICES ASSUME ~clobbered', NEW c \in covered', NEW t \in Window', Kept(t)
             PROVE  <<c, t>> \in DOMAIN m_epg'
  BY DEF HoleInv, HoleAt, Kept, DayStart, UtcDiff
<1>1. Window' = Window
  BY DEF Window
<1> QED
  BY <1>1 DEF HoleInv, HoleAt

\* So does one that leaves the worker where it is.
LEMMA HoleFrame ==
    ASSUME HoleInv,
           UNCHANGED <<m_epg, m_iLastStart, m_iLastEnd, workerVars, covered, clobbered>>
    PROVE  HoleInv'
<1> SUFFICES ASSUME ~clobbered', NEW c \in covered', NEW t \in Window', Kept(t)
             PROVE  <<c, t>> \in DOMAIN m_epg \cup (IF pc = "store" THEN DOMAIN fresh ELSE {})
  BY DEF HoleInv, HoleAt, Kept, DayStart, UtcDiff, workerVars
<1>1. Window' = Window
  BY DEF Window
<1> QED
  BY <1>1 DEF HoleInv, HoleAt

LEMMA HoleStep ==
    TypeOK /\ SyncInv /\ SpanInv /\ HoleInv /\ [Next]_vars => HoleInv'
<1> SUFFICES ASSUME TypeOK, SyncInv, SpanInv, HoleInv, [Next]_vars PROVE HoleInv'
  OBVIOUS
<1>1. CASE Tick \/ LoadRecordings
  BY <1>1, HoleFrame DEF Tick, LoadRecordings, windowVars
<1>2. CASE SetEPGMaxFutureDays \/ SetEPGMaxPastDays \/ GetEPGForChannel \/ PinCheckUnlock
  BY <1>2, HoleFrame
     DEF SetEPGMaxFutureDays, SetEPGMaxPastDays, GetEPGForChannel, PinCheckUnlock,
         KodiCall, windowVars
<1>3. CASE \/ LoadPlayList \/ ReloadPlayList \/ RefreshLimits \/ LoadEPGJob
           \/ LoadEarlier \/ LoadEPGAnswered
  BY <1>3, HoleElsewhere
     DEF LoadPlayList, ReloadPlayList, RefreshLimits, LoadEPGJob, CallLoadEPG,
         LoadEarlier, LoadEPGAnswered, windowVars
<1>4. CASE TriggerFullRefresh
  BY <1>4 DEF TriggerFullRefresh, HoleInv, HoleAt, Window
<1>5. CASE LoadEPGFails
  <2>1. job.then \in {"lower", "release"}
    BY JobFields DEF TypeOK
  <2> QED
    BY <1>5, <2>1, HoleElsewhere DEF LoadEPGFails
<1>6. CASE LoadEPGMerges
  <2> SUFFICES ASSUME ~clobbered, NEW c \in covered', NEW t \in Window', Kept(t)
               PROVE  <<c, t>> \in DOMAIN m_epg \cup DOMAIN fresh'
    BY <1>6 DEF LoadEPGMerges, HoleInv, HoleAt, Kept, DayStart, UtcDiff
  <2>1. job.start \in Int /\ job.step \in Int
    BY JobFields DEF TypeOK
  <2>2. CASE m_iLastEnd = 0
    BY <1>6, <2>1, <2>2 DEF LoadEPGMerges, Window
  <2>3. CASE m_iLastEnd # 0
    <3>1. /\ job.step = Day /\ job.start \in {DayStart(m_iLastEnd), DayStart(m_iLastStart - Day)}
          /\ DOMAIN fresh = Channels \X (job.start .. job.start + Day - 1)
      BY <1>6, <2>3 DEF LoadEPGMerges, SpanInv
    <3>2. Window' = MinOf(m_iLastStart, job.start) .. MaxOf(m_iLastEnd, job.start + Day) - 1
      BY <1>6, <2>3, <3>1 DEF LoadEPGMerges, Window
    <3>3. t \in Window \/ t \in job.start .. job.start + Day - 1
      BY <2>1, <3>1, <3>2, Widened DEF Window, TypeOK
    <3>4. c \in covered /\ c \in m_channels /\ c \in Channels
      BY <1>6, <2>3 DEF LoadEPGMerges, TypeOK
    <3>5. CASE t \in Window
      BY <1>6, <3>4, <3>5 DEF LoadEPGMerges, HoleInv, HoleAt
    <3>6. CASE t \in job.start .. job.start + Day - 1
      <4>1. DOMAIN fresh' = {e \in DOMAIN fresh : e[1] \in m_channels}
        BY <1>6 DEF LoadEPGMerges, Restrict
      <4> QED
        BY <3>1, <3>4, <3>6, <4>1
    <3> QED
      BY <3>3, <3>5, <3>6
  <2> QED
    BY <2>2, <2>3
<1>7. CASE LoadEPGStores
  <2> SUFFICES ASSUME ~clobbered, NEW c \in covered, NEW t \in Window, Kept(t)
               PROVE  <<c, t>> \in DOMAIN m_epg'
    BY <1>7 DEF LoadEPGStores, HoleInv, HoleAt, Window, Kept, DayStart, UtcDiff
  <2>1. DOMAIN m_epg' = DOMAIN fresh \cup DOMAIN epg
    BY <1>7, MergeIsGuide DEF LoadEPGStores, TypeOK
  <2>2. DOMAIN epg = DOMAIN m_epg
    BY <1>7 DEF LoadEPGStores, SyncInv, SyncAt
  <2> QED
    BY <1>7, <2>1, <2>2 DEF LoadEPGStores, HoleInv, HoleAt
<1>8. CASE ReleaseUnneededEPG
  <2>1. CASE UNCHANGED <<m_iLastStart, m_iLastEnd>>
    BY <1>8, <2>1, HoleElsewhere DEF ReleaseUnneededEPG
  <2>2. CASE NarrowWindow(m_epgMinTime, m_epgMaxTime) /\ pc' = "idle"
    <3> SUFFICES ASSUME ~clobbered, NEW c \in covered, NEW t \in Window', Kept(t)
                 PROVE  <<c, t>> \in DOMAIN m_epg
      BY <1>8, <2>2 DEF ReleaseUnneededEPG, HoleInv, HoleAt, Kept, DayStart, UtcDiff
    <3>1. t \in Window
      BY <2>2 DEF NarrowWindow, Window, MinOf, MaxOf, TypeOK
    <3> QED
      BY <1>8, <3>1 DEF ReleaseUnneededEPG, HoleInv, HoleAt
  <2> QED
    BY <1>8, <2>1, <2>2 DEF ReleaseUnneededEPG
<1>9. CASE ReleaseStores
  <2> SUFFICES ASSUME ~clobbered, NEW c \in covered, NEW t \in Window', Kept(t)
               PROVE  <<c, t>> \in DOMAIN m_epg'
    BY <1>9 DEF ReleaseStores, HoleInv, HoleAt, Kept, DayStart, UtcDiff
  <2>1. job.min \in Int /\ job.max \in Int
    BY JobFields DEF TypeOK
  <2>2. t \in Window /\ job.min <= t /\ t < job.max
    BY <1>9, <2>1 DEF ReleaseStores, NarrowWindow, Window, MinOf, MaxOf, TypeOK
  <2>3. <<c, t>> \in DOMAIN epg
    BY <1>9, <2>2 DEF ReleaseStores, HoleInv, HoleAt, SyncInv, SyncAt
  <2>4. <<c, t>> \notin Unneeded(epg, job.min, job.max)
    BY <2>1, <2>2 DEF Unneeded, Start, End, Window, TypeOK
  <2>5. DOMAIN m_epg' = DOMAIN epg \ Unneeded(epg, job.min, job.max)
    BY <1>9 DEF ReleaseStores, Restrict
  <2> QED
    BY <2>3, <2>4, <2>5
<1>10. CASE \E h \in Handlers : AddTimerFinds(h) \/ AddTimerCalls(h)
  BY <1>10, HoleFrame DEF AddTimerFinds, AddTimerCalls, windowVars
<1>11. ASSUME NEW h \in Handlers, AddTimerStores(h) PROVE HoleInv'
  <2> SUFFICES ASSUME ~clobbered', NEW c \in covered, NEW t \in Window, Kept(t)
               PROVE  <<c, t>> \in DOMAIN m_epg'
                                    \cup (IF pc = "store" THEN DOMAIN fresh ELSE {})
    BY <1>11 DEF AddTimerStores, HoleInv, HoleAt, Window, windowVars, workerVars,
                 Kept, DayStart, UtcDiff
  <2>1. ~clobbered /\ m_epg = timer[h].epg
    BY <1>11 DEF AddTimerStores
  <2>2. timer[h].entry \in DOMAIN timer[h].epg /\ IsGuide(timer[h].epg)
    BY <1>11 DEF AddTimerStores, TypeOK, IsTimer
  <2>3. DOMAIN m_epg' = DOMAIN m_epg
    BY <1>11, <2>1, <2>2, ExceptIsGuide DEF AddTimerStores
  <2> QED
    BY <2>1, <2>3 DEF HoleInv, HoleAt
<1>12. CASE UNCHANGED vars
  BY <1>12, HoleFrame DEF vars, windowVars
<1> QED
  BY <1>1, <1>2, <1>3, <1>4, <1>5, <1>6, <1>7, <1>8, <1>9, <1>10, <1>11, <1>12
     DEF Next, Worker, Kodi

LEMMA HoleInvariant == Spec => [](TypeOK /\ HoleInv)
<1>1. Init => SyncInv /\ SpanInv /\ HoleInv
  BY SyncInit, SpanInit, HoleInit
<1>2. TypeOK /\ SyncInv /\ SpanInv /\ HoleInv /\ [Next]_vars
      => SyncInv' /\ SpanInv' /\ HoleInv'
  BY SyncStep, SpanStep, HoleStep
<1> QED
  BY <1>1, <1>2, TypeCorrect, PTL DEF Spec

\* No load or release, in whatever order Kodi moves the limits and loads fail,
\* leaves a hole in the window that goes over a midnight, the end of the day of the
\* change aside.
THEOREM HolesStayInTheirDay == Spec => []HolesEndInTheirDay
<1>1. TypeOK /\ HoleInv => HolesEndInTheirDay
  <2> SUFFICES ASSUME TypeOK, HoleInv, ~clobbered, ~Publishing,
                      NEW c \in covered, NEW t \in Window,
                      LocalDay(t + 1) # LocalDay(t), ~ChangeDay(t)
               PROVE  ~Missing(c, t)
    BY DEF HolesEndInTheirDay
  <2>1. t \in Int
    BY DEF Window, TypeOK
  <2>2. Kept(t)
    BY <2>1, MidnightKept
  <2> QED
    BY <2>2 DEF HoleInv, HoleAt, Publishing, Missing
<1> QED
  BY <1>1, HoleInvariant, PTL

\* Nor a hole as long as a day or, from the day of the change on, as two.
THEOREM HolesStayShort == Spec => []HolesAreShort
<1>1. TypeOK /\ HoleInv => HolesAreShort
  <2> DEFINE length(t) == IF ChangeDay(t) THEN 2 * Day ELSE Day
  <2> SUFFICES ASSUME TypeOK, HoleInv, ~clobbered, ~Publishing,
                      NEW c \in covered, NEW t \in Window, t + length(t) - 1 \in Window
               PROVE  \E u \in t .. t + length(t) - 1 : ~Missing(c, u)
    BY DEF HolesAreShort
  <2>1. t \in Int /\ length(t) \in Int
    BY EpgAssumption DEF Window, TypeOK
  <2>2. PICK u \in Int : t <= u /\ Kept(u) /\ u < t + length(t)
    BY <2>1, KeptSoon
  <2> HIDE DEF length
  <2>3. u \in t .. t + length(t) - 1 /\ u \in Window
    BY <2>1, <2>2 DEF Window, TypeOK
  <2>4. ~Missing(c, u)
    BY <2>2, <2>3 DEF HoleInv, HoleAt, Publishing, Missing
  <2> QED
    BY <2>3, <2>4
<1> QED
  BY <1>1, HoleInvariant, PTL

=============================================================================
