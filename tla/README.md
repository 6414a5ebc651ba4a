# Verification of pvr.sledovanitv.cz

TLA+ models of the Kodi PVR client add-on for sledovanitv.cz (`src/src/`), the
TLC configurations that check them on small instances, and TLAPS proofs of what
holds for every instance.

## The system

The add-on is one object of class `Data` per configured instance. Its
constructor starts one worker thread (`Data::Process`); Kodi calls the other
methods on threads of its own. All talk to the backend goes through one
`ApiManager`, which keeps the pairing of the device and the session.

| Part | State | Operations |
|---|---|---|
| Worker (`Data::Process`) | its place in the round, `epg_updated`, four `CallLimiter`s | log in; load playlist, recordings; full refresh; guide; keep-alive; stop |
| Playlist and PIN (`Data`) | `m_channels`, `m_bLoadPlayList`, `m_bChannelsLoaded`, `m_waitCond`, `m_drmCertificate` | `LoadPlayList`, `GetChannels`, `GetChannelStreamProperties`, `PinCheckUnlock`, `SetLoadPlaylist`, `WaitForChannels`, `registerDrm` |
| Channel numbers and groups (`Data`) | `iUniqueId` of each channel in `m_channels`, `m_groups` | `LoadPlayList`, `GetChannels`, `GetChannelGroups`, `GetChannelGroupMembers` |
| Programme guide (`Data`) | `m_epg`, `m_epgMinTime`, `m_epgMaxTime`, the day counts, the window `m_iLastStart`, `m_iLastEnd` | `LoadEPGJob`, `LoadEPG`, `ReleaseUnneededEPG`, `TriggerFullRefresh`, `SetEPGMax*Days`, `GetEPGForChannel`, `AddTimer` |
| Recordings and timers (`Data`) | `m_recordings`, `m_timers`, durations | `LoadRecordings`, `DeleteRecording`, `DeleteTimer`, `GetRecordings`, `GetTimers` |
| Pairing (`ApiManager`) | `m_deviceId`, `m_password`, `m_serial`, `m_sessionId`, the pairing file | `login`, `pairDevice`, `deletePairing`, `createPairFile`, `readPairFile` |
| Requests (`ApiManager`) | `m_pinUnlocked` | `apiCall` and one method per request; `urlEncode`, JSON |
| `CallLimiter` | `mNextCall` | `Call` |
| `Addon`, `base64`, `picosha2` | none | instance creation, settings migration, conversions |

How the parts interact:

* `m_mutex` guards what the worker and Kodi share in `Data`. The containers are
  immutable behind `shared_ptr`s: a reader takes the pointer under the lock, a
  writer works on a copy without the lock and publishes the pointer under it.
  Nothing checks that the copied version is still the published one.
* Kodi's threads leave requests (`m_bLoadPlayList`, `m_bLoadRecordings`) that
  the worker takes in its next round (`SimpleLoadJob`), and may wait up to five
  seconds for the channels (`m_waitCond`).
* The worker reports back by callbacks: `EpgEventStateChange` for each
  programme, `TriggerChannelUpdate` and the like for the lists.
* `m_sessionId` is an atomic pointer and `m_pinUnlocked` a plain flag: the
  worker logs in while other threads send requests.
* The pairing file is all that survives a restart.

What is hard to get right here, and hardly reached by a test: copies published
over newer ones; the window of the guide, moved by whole days in one place and
to any moment in another, across a change of daylight saving; flags lowered
before the work they stand for is done; an answer from before a PIN or a login
used after it; requests that were carried out without an answer; a pairing file
that is stale, unwritten or of another account; numbers that stand for channels
while the list they count is replaced; jobs that delay one another; a worker that
must stop from wherever it is, and soon. `PROJECT.json` lists these
hazards one by one, at their lines, with the properties aimed at each.

## Modules

| Module | What it is |
|---|---|
| `Mirror` | abstract: what is promised of a list mirrored from the backend to Kodi |
| `MirrorProofs` | theorem of `Mirror` |
| `Epg` | the programme guide, its window and limits, and `AddTimer`'s write |
| `EpgProofs` | theorems of `Epg` |
| `Playlist` | session, playlist, PIN, DRM certificate and shutdown; implements `Mirror` |
| `PlaylistProofs` | theorems of `Playlist` |
| `Pairing` | pairing, device login and the pairing file across restarts |
| `PairingProofs` | theorems of `Pairing` |
| `Recordings` | recordings and timers: what `LoadRecordings` publishes while Kodi schedules, deletes and unlocks; implements `Mirror` twice |
| `RecordingsProofs` | theorems of `Recordings` |
| `Rounds` | the worker's rounds in time, with `CallLimiter` and `LoginLoop` |
| `RoundsProofs` | theorems of `Rounds` |
| `Lineup` | the numbers of the channels, the groups, and what Kodi makes of both |
| `LineupProofs` | theorems of `Lineup` |
| `MCEpg`, `MCPlaylist`, `MCPairing`, `MCRecordings`, `MCRounds`, `MCLineup` | instances for TLC |

The definitions whose comment begins with "Mutant" are not part of a
specification. Each is a definition of the model changed as a plausible bug
would change it, and serves to see that a property tells the two apart.

### Mirror

The channels, the recordings and the timers go the same way: the worker asks the
backend for the list, takes the answer, publishes it in place of the old one, and
Kodi, told so by a trigger, asks for it. `Mirror` says what all three promise:
the published list is only ever replaced by a list the backend had at one moment
of the load, whole; never without an announcement unless it is the same; a
request is spent by the beginning of a load and not by what happens in its
course. Its steps are `Change` (the backend's list), `Request`, `Begin`, `Take`,
`Fail`, `Publish` and `Show`. A load may begin without a request (the full
refresh), a request of the one list may be spent by a load of both.

`Playlist` maps to it with `root` as the list taken and `Answer`, what the
backend says in the current session, as its list; `Recordings` with the two
halves of its one load, where a half that compares equal is published as it was.
The mappings are `ChannelList`, `RecordingList` and `TimerList`; that the
detailed specifications implement the abstract one is checked in the runs
`playlist` and `recordings` (`ChannelsMirrored`, `RecordingsMirrored`,
`TimersMirrored`) and proved for all constants.

### Epg

One action is one critical section together with the thread-local work next to
it; a request to the backend ends an action. `LoadEPGJob` reads the limits and
decides on a load (`LoadEPGJob`, `LoadEarlier`); the load is answered or fails
(`LoadEPGAnswered`, `LoadEPGFails`), copies the guide, merges and reports the
programmes to Kodi (`LoadEPGMerges`), and publishes (`LoadEPGStores`);
`ReleaseUnneededEPG` copies and reports deletions, `ReleaseStores` publishes.
`TriggerFullRefresh` zeroes the window and reads the day counts, `RefreshLimits`
sets them again. Kodi's calls and `AddTimer` (`AddTimerFinds`, `AddTimerCalls`,
`AddTimerStores`) come between any two of these.

Abstractions: a programme lasts one unit of time and starts on a unit; a day is
`Day` units and the hour of the first load `SmallStep`. A programme keeps its
channel, start and whether it has a record id. `UtcDiff`, the offset of local
time, changes once, at `ChangeTime`; `ChangeAssumption` says that it does so early
in a day of UTC and within a local day, as in Europe. `DayStart` takes the two
offsets of `LoadEPGJob` at the moments the code takes them at. `kodiEpg` collects what `EpgEventStateChange` has told Kodi.
`covered` and `clobbered` are history variables.

Properties. `KodiInSync`: the events keep Kodi's copy equal to the published
guide, as long as no `AddTimer` has published over a newer one; that this happens is
`RecordIdKept`'s. `HolesEndInTheirDay`: where the window claims programmes the guide lacks,
the last one of the local day is there, so that no hole goes over a midnight; the
day of the change of daylight saving is left to `HolesAreShort`: a hole is shorter
than a day or, if it begins on the day of the change, than two. Less would not be
true of the code. A hole need not be the head of its day: after the change to
summer time the load of the day before can bring the start of the day and not the
middle, and a full refresh keeps the programme the refresh before began with, in
the middle of what the window then claims. And a hole that begins on the day of the
change can be longer than a day, if limits cut the window twice. `LoadsAskForMore`: each load reaches beyond the window, so the test
for a span already loaded (`Data.cpp:465`) never succeeds. `EventuallyLoaded` and
`EventuallyReleased`: the window comes to span Kodi's limits and the guide to hold
nothing outside.

### Playlist

The worker is always at one of the labels of `WorkerLabels`, one per step of
`Process`, `LoginLoop` and `LoadPlayList`; each call of
`GetChannelStreamProperties` is at one of `HandlerLabels`. The playlist lists one
channel, of an adaptive type, with DRM and behind the PIN; it is `"locked"` or
`"open"`, as the session was when the backend answered. An iterator into a
replaced container is `dangling`, and reading through it gives anything.
Sessions are numbered up to `MaxSessions`. A `CallLimiter` may or may not let
its job run, in any round.

Properties. `DrmReady`: `StreamProperties` never dereferences a missing
certificate. `ReloadNotLost`: a requested playlist is requested, being loaded,
or failed. `PinFlagTruthful`: `m_pinUnlocked` is about the current session
unless the PIN was answered across a login. `RegetUnlocked`: after the PIN, the
channel read again is the unlocked one, save in the cases it names (the wait
timed out, an older load was about to be published, a login intervened).
`WorkerStops`: the join in `~Data` returns. `KodiListsChannels`: Kodi's list
comes to be the published one and stays so.

### Pairing

`login` is split where it asks the backend or touches the disk: `LoginBegins`,
`ReadPairFile`, `DeletePairing`, `CreatePairing`, `CreatePairFile`, `LoggedIn`,
`LoginRejected`. Each request may be refused, unanswered, or carried out without
an answer; a write may fail and leave the file as it was or unreadable. `Restart`
ends the process between any two steps and starts it with other settings. Device
id and password are one number; a file without a `deviceId` is `NoPairing`.
The error "not logged" of `delete-pairing`, which `ApiManager.cpp:269` takes for
success, is taken to mean what "no device" does: the backend does not know the
pairing.
`mishaps` counts what takes a pairing away from the add-on: restarts, lost
answers to `create-pairing`, rejections of a good pairing, and removals at the
backend.

Properties. `SessionIsOurs`: a session is one of the current account, device and
provider. `PairingsBounded`: a device takes no second place in the account
without a mishap, however often anything is retried. `ReplacedIsDeleted`: it is
paired anew only when the backend in use has forgotten the stored pairing.
`LogsInAgain`: the login loop gets through in the end.

### Recordings

The worker takes the request (`LoadRecordingsBegins`), is answered or not
(`LoadRecordingsAnswered`, `LoadRecordingsFails`), asks for one stream address
after the other (`GetRecordingUrl`, `GetRecordingUrlFails`) and publishes
(`LoadRecordingsPublishes`). Between these, records end (`Tick`), Kodi adds and
deletes them (`AddTimer`, `DeleteRecord`, and `SetLoadRecordings` when the
backend's answer is there), a PIN unlocks the session, and Kodi reads the lists
after a trigger. A deletion may be carried out without an answer.

Abstractions: the backend lists records in one order, so lists are sets of ids;
of an address there is only whether there is one, which decides the comparison;
the state of a timer decides nothing and is left out, as are the channels. A
recording behind the PIN (`Locked`) has no address until the session is
unlocked: that is how the backend is taken to behave, from the comment at
`Data.cpp:1499`. `deleted` and `load_failed` are history variables.

Properties. `NeverBoth`: no record is published as a recording and as a timer.
`DeletedIsReloaded`: a published record that Kodi was told to be deleted is
followed by a load without it, or the last load failed. `KodiListsRecords`:
Kodi's lists come to be the backend's.

### Rounds

`Rounds` is about time and leaves to the other modules what the jobs do. A
limiter's `mNextCall` is kept as `due`, how far it lies ahead of now; a limited job
is passed over (`NotDue`) or called (`Call`), which moves `mNextCall` by whole
intervals until it is not in the past (`NextCall`). The look at `m_bKeepAlive` that
begins a job is a step (`LoadPlayList`, `LoadRecordings`, `LoadEPGJob`,
`KeepAliveJob` and so on), and each request of it another (`GetPlaylist`, `GetPvr`,
`GetRecordingUrl`, `GetEpg`, `KeepAlive`), so that the destructor (`Destruct`) can come
between. A login is the requests of `ApiManager::login`, which follow one another
without a look (`DeletePairing`, `CreatePairing`, `DeviceLogin`; it begins with any
of them, as the pairing kept has it), and those of `registerDrm`
(`DrmRegistration`, `Certificate`); after a failed one `LoginLoop` waits.

A request takes any time up to `MaxCall`, and a round one unit besides: its sleep, or,
when work was done and it does not sleep, what its own code takes. The settings'
minima (`instance-settings.xml`) make every interval positive. The first `LoginLoop`
of `Process` comes before the limiters exist; the model begins where it is done.
`ages`, `held`, `lateRequests` and `lateCount` are history: how long ago a limiter's
last three calls were, how much of the time it has been due the worker was in
`LoginLoop`, and which and how many requests began after `m_bKeepAlive` had fallen.

Properties. `OncePerInterval` is what the comments of `CallLimiter` say, and is not
true (see the findings): `mNextCall` stays on a grid, so a late call is followed by
one that comes sooner, and a call exactly on the grid does not move it at all. What
the grid does give is `PacedCalls`: of four calls the last comes an interval or more
after the first, so that calls missed during a long login are not made up for.
`JobsInTime`: a job waits for at most one round of requests, the keep-alive at its
end above all, apart from what `LoginLoop` takes of that time. A login holds up
every job, and a backend that refuses logins for hours holds them up for hours:
`held` is what makes this exception explicit. `StopsSoon`: the requests that begin
after the destructor has lowered `m_bKeepAlive` all belong to the one job that had
looked at it before; they are one request, or at most the list of recordings and
all their addresses, or at most the five of one login.

### Lineup

`LoadPlayList` numbers the channels by their place in the backend's list
(`NewChannels`), hides the locked ones the settings want hidden (`Hidden`) and
collects the groups (`NewGroups`); `Publish` replaces both at once, `TellChannels`
and `TellGroups` are the two triggers. Kodi asks for television, radio, groups and
each group's members in calls of their own, between which other lists may be
published. The backend locks, reorders and regroups (`Relock`, `Relist`,
`Regroup`) up to `MaxChanges` times; the two settings are chosen at the start.

Properties. `ShownIsPlayed`: unless a trigger is still to be followed, the number
Kodi shows a channel under is the one the add-on finds it by. `LocksRenumberNothing`:
even before that, locks that come or go give no number to another channel.
`MembersListed`: what Kodi got as members of a group are channels it lists.

`Members` is what the code does: the unique ids of a group (from 1, with gaps) are
used as indices (from 0, without), so Kodi gets the channel after each member or
none. No comment, test or document of the repository says which members it is to
get, so that no property here says so, and `MembersListed` only that they exist.

## Runs

| Run | Instance | Shows |
|---|---|---|
| `epg` | 1 channel, listed before a PIN or only after it, 1 `AddTimer` call, days of 4 units, change to summer time, 1 call of Kodi, fairness | `TypeOK`, `KodiInSync`, `HolesEndInTheirDay`, `HolesAreShort`, `LoadsAskForMore`, `EventuallyLoaded`, `EventuallyReleased` hold |
| `epg_gap` | 1 channel, change to summer time | `WindowLoaded` is violated |
| `epg_record` | 1 channel, 1 `AddTimer` call | `RecordIdKept` is violated |
| `playlist` | 1 stream request, 1 listing thread, 2 sessions, fairness | the five invariants, `WorkerStops`, `KodiListsChannels` and `ChannelsMirrored` hold |
| `playlist_reget` | 1 stream request | `RegetFresh` is violated |
| `pairing` | 2 accounts, providers and serials, 2 mishaps, fairness | the four invariants and `LogsInAgain` hold |
| `pairing_reject` | the same with 1 mishap | `RejectedStaysStored` is violated |
| `recordings` | 2 records, 1 of them behind the PIN, fairness | the three invariants, `KodiListsRecords`, `RecordingsMirrored` and `TimersMirrored` hold |
| `recordings_pin` | 1 record, behind the PIN, fairness | `UnlockingUnlocks` is violated, for a recording published before the PIN |
| `rounds` | intervals of 2 to 4 units, requests of up to 2, 1 address, 1 failed login | `TypeOK`, `PacedCalls`, `JobsInTime`, `StopsSoon` hold |
| `rounds_once` | the same | `OncePerInterval` is violated |
| `lineup` | 3 television channels and a radio in 2 groups, 3 orders, 2 changes | `TypeOK`, `ShownIsPlayed`, `LocksRenumberNothing`, `MembersListed` hold |

Why the bounds are enough. A day of 4 units has a head, a middle and an end, so
a limit can fall inside a day, and the offsets 1 and 2 make local days begin
inside UTC days and one of them a unit shorter. In `epg` the add-on starts in the
second day after the change. Limits of 0 and 1 past days, and an earlier start asked
for by `GetEPGForChannel`, cut the window inside a day and take it back over the day
of the change, so that both kinds of hole occur: in an ordinary day, and all of the
short one. Ahead of now, whole days are loaded and cut off again at the limit.
One stream request and one listing thread meet all the places of the worker; what two requests do to one another is in the proofs,
which are of any number of threads. Two sessions are one before and one after a
renewed login. Two accounts, two providers and two serials give one of each that
is not the current one, and two mishaps allow changing settings or losing a
pairing, and changing back; the invariants are proved for any number. Two records
are one that ends, or is deleted, while the other is scheduled, which leaves the
number of timers as it was. In `rounds` a round may be shorter and longer
than each interval, so that a limiter is late by less and by more than one; one
address is enough to have the worker past its last look with two requests to make;
one failed login makes it wait, with limiters due, before the next. The four
invariants are proved for all settings. In
`lineup` two changes are one before a load and one between Kodi's questions, and
the orders move a channel across the radio channel or take one out.

No run uses symmetry. Deadlock is checked in all of them; in `Playlist` and
`Rounds` the one state without a next step is that where the worker has stopped,
which `Terminated` makes explicit.

### Fairness

* `Epg!FairSpec`: the worker goes on, since `Process` loops as long as the
  add-on runs and each request ends; and a guide asked for again and again is
  answered some time. Nothing is assumed of Kodi.
* `Playlist!FairSpec`: the worker goes on; a full refresh is due again and again
  (`trigger_full_refresh`); logins and playlists asked for again and again are
  answered some time; Kodi follows a `TriggerChannelUpdate`. Nothing is assumed
  of the user.
* `Pairing!FairSpec`: `LoginLoop` tries again every 30 seconds; each kind of
  request tried again and again is answered some time, and a file written again
  and again is stored. Mishaps are finitely many.
* `Recordings!FairSpec`: the worker goes on; a load is due again and again
  (`trigger_load_recordings`); lists and addresses asked for again and again are
  answered some time; a call that was answered returns, and Kodi follows a
  trigger. Nothing is assumed of when records end, are added or deleted.

## What is proved

The proofs are of the specifications without fairness and use only the
assumptions named in the modules: `EpgAssumption` and `ChangeAssumption` (positive
day, limits and offsets in Nat, the change within a day), `PlaylistAssumption`,
`UsersAssumption` (no account has the empty name), `MishapsAssumption`,
`RoundsAssumption` (positive delays) and `LineupAssumption`.

* `MirrorProofs!NeverStaleUntold`: in every implementation of `Mirror`, Kodi
  shows the published list or has been told to get it.
* `EpgProofs!TypeCorrect`. `DayStartBounds`, on the rounding to a local day, is
  proved for any offsets and day length: the day found begins at or before the
  moment and less than a day before it, on both sides of the change. `DayStartExact`:
  on every day but that of the change it is the first moment of the local day.
* `EpgProofs!KodiStaysInSync`. `KodiInSync` says nothing of the moments between
  the events and the publication; the invariant proved adds what the local copy
  and the events sent have to do with each other there.
* `EpgProofs!HolesStayInTheirDay` and `HolesStayShort`. Neither property is
  inductive: what a load of an earlier day leaves out depends on where the limits
  have cut the window. The invariant (`HoleInv`) speaks of the moments that no such
  load can leave out wherever it starts from (`Kept`): all of those in the window
  are in the guide, or in what is about to be published. That rests on what a load
  under way was called with (`SpanInv`, `Widened`), and on the invariant of
  `KodiStaysInSync` for the copies LoadEPG and ReleaseUnneededEPG publish. The rest
  is arithmetic of the two offsets: the last moment of each day but that of the
  change is kept (`MidnightKept`), and a kept moment comes within a day, or two
  (`KeptSoon`).
* `EpgProofs!LoadsReachFurther`, from `SpanInv` and `DayStartBounds`. It is the safe
  half of `EventuallyLoaded`: each answer takes the window further.
* `PlaylistProofs!DrmAlwaysReady`, by the invariant that there are no channels,
  and no load of them, before the certificate.
* `PlaylistProofs!ReloadNeverLost`; the property is inductive.
* `PlaylistProofs!PinFlagStaysTruthful`, by an invariant that adds that the flag
  is down while a login is under way and that an accepted PIN has unlocked the
  session it was sent to.
* `PlaylistProofs!ChannelsAreMirrored`, step by step: logins and PINs are
  `Change`s of what the backend would answer, `SetLoadPlaylist` a `Request`, and
  only the steps of a load and `GetChannels` touch the lists. The invariant used
  is that of `DrmAlwaysReady`. `ChannelsNeverStale` is what the channels inherit
  from `Mirror`: Kodi lists the published ones, or an announcement is on its way.
* `PlaylistProofs!TypesHold`, and `RegetGetsUnlocked`. What a call reads again
  depends on a load that began after its PIN; the invariant follows it from the
  request: no locked playlist is about to be published as long as the session the
  PIN has unlocked is the current one, so the wait ends with an open one published,
  and it stays until the channel is read from it or the iterator dangles.
* `PairingProofs!TypeCorrect`.
* `PairingProofs!PairingsStayBounded`. The invariant counts: a pairing in use
  that the backend knows has cost no mishap, one that is missing, gone or of
  another provider has already cost one.
* `PairingProofs!SessionStaysOurs`, by the invariant that the file, the cached
  id and the session agree with what the backend has noted of their pairing.
* `PairingProofs!ReplacedStaysDeleted`.
* `RecordingsProofs!TypesHold`.
* `RecordingsProofs!NeverPublishedAsBoth`. What is about to be published is
  disjoint, but each list is replaced only if it has changed; the invariant adds
  that a list found unchanged has the ids of the published one.
* `RecordingsProofs!DeletedStaysReloaded`, by the invariant that a deleted record
  is in a list about to be published only while a load is requested.
* `RecordingsProofs!RecordingsAreMirrored` and `TimersAreMirrored`, by the
  invariant that a list found unchanged is the published one, so that leaving it
  is publishing it; `RecordingsNeverStale` and `TimersNeverStale` follow.
* `RoundsProofs!TypesHold`.
* `RoundsProofs!LimitersArePaced`. The invariant `Paced` of one limiter says that
  its next call is not due before the last one was; an interval after the one
  before that, unless it is due exactly where the last one was; and always an
  interval after the third last. It rests on `NextOnGrid`, what the loop of
  `CallLimiter::Call` comes to, and on time passing between two looks at a limiter.
* `RoundsProofs!JobsAreInTime`. The invariant bounds, for each place of the
  worker and each limiter, how late it can be there, less what `held` counts, by
  what the round has requested since that limiter was last looked at (`Budget`).
* `RoundsProofs!ShutdownIsShort`. The invariant `LateInv` says that nothing is late
  where a job has its first request still to make, since it has looked at
  `m_bKeepAlive` just before; and further on, that what is late is of the same job and,
  with the requests the job has left (`Left`, or `urls`), within its bound.
* `LineupProofs!TypesHold`.
* `LineupProofs!IdsAreRight`, `OnlyOrderRenumbers` and `GroupsAreListed`, by the
  invariant that every channel, published or Kodi's, is at the place of its number
  in the order its list was built from, and that what Kodi has is the published
  list or a trigger is on its way.

Only model-checked are the liveness properties: the prover does not reason about
fairness and ENABLED. Every invariant, action property and refinement that a
passing run checks is proved. Nothing here is recursive.

## Findings

1. `epg_gap`: the earlier day is found by going back 86400 seconds from
   `m_iLastStart` (`Data.cpp:208-210`). From the midnight after the 23-hour day of
   the change to summer time that is an hour before its beginning: the day before
   it is loaded, the window is moved to the start of that (`Data.cpp:281` calls it
   "the loaded time info"), and the day of the change is never loaded, until the
   next full refresh. `HolesEndInTheirDay` delimits a smaller gap of the same
   kind, without a change of offset: `ReleaseUnneededEPG` narrows the window to the
   middle of a day (281-283), and after the past days went from 1 to 0 and back to 1
   the head of that day is claimed as loaded and not asked for again.
2. `epg_record`: the record id `AddTimer` puts into the guide (`Data.cpp:1358`)
   is lost when a load or release under way publishes its older copy.
3. `playlist_reget`: "reget the data" (`Data.cpp:919`) gets the locked data when
   a playlist from before the PIN is published during the wait.
4. `pairing_reject`: the comment of `ApiManager.cpp:405` speaks of changing the
   `userName` in the stored pairing; with a cached device id the whole stored
   pairing is replaced, and its device can no longer be deleted.
5. `recordings_pin`: `PinCheckUnlock` requests a load since "unlocking can lead
   to unlock of recordings" (`Data.cpp:1499`). A recording published before the PIN has
   no address; the load after it, and each later one, compares the answer, which has no
   addresses yet, with the published list, finds them equal (`Data.cpp:693-703`) and
   asks for none.
6. `rounds_once`: "Limit calls ... to once per interval", "only if the configured
   inteval is passed" (`CallLimiter.hh:28-31`), "if the period after previous passed"
   (54-55). `mNextCall` is advanced from where it was and not from the call
   (66-67): the call after a late one comes before an interval has passed.

Seen in passing and in no run: `LoadEPGJob` is to return "true if actual update was
performed" (`Data.h:191`) and returns true for loads that failed too
(`Data.cpp:196,203,210`), as `CallLoadEPG` has it; `Process` then repeats the job in
each round, without the delay of `epg_dummy_trigger`.

## What is not modelled, and the plan

Not modelled: `Addon::TryMigrate` (copies settings once), `base64`, `picosha2`
(conversions), formatting and JSON, resources and packaging. Of `Data`, the
streams of recordings and programmes (`GetRecordingStreamUrl`, `GetEPGStreamUrl`),
which read a published list once and change nothing but what `PinCheckUnlock`
does, the properties of single programmes, and the drive space.

Planned, in this order:

1. The streams of recordings and programmes, with the PIN and the two looks at
   `m_recordings` (`Data.cpp:1121`), in `Recordings`.
2. The guide's entries under the numbers of an older list (`Data.cpp:525`): `Epg`
   and `Lineup` composed.
3. An abstract session (logged out, logging in, logged in) that both `Playlist`
   and `Pairing` are shown to implement.
