------------------------------ MODULE Pairing ------------------------------
(***************************************************************************)
(* The pairing of the device and its logins: ApiManager::login, pairDevice,*)
(* deletePairing, createPairFile and readPairFile, as LoginLoop calls them *)
(* again and again and after each failed keep-alive, across restarts of    *)
(* the add-on with other settings.                                         *)
(*                                                                         *)
(* The backend hands out pairings; the pairing file remembers one of them  *)
(* between two runs.  Each request may be refused, lost, or carried out    *)
(* with its answer lost; a write of the file may fail; the process may end *)
(* between any two steps.                                                  *)
(*                                                                         *)
(* Abstractions.  A pairing is a number, which stands for the device id    *)
(* and its password together; a session is the pairing it was opened with. *)
(* Ids of different providers are different numbers.  A file that is not   *)
(* there, that is not JSON or that holds no deviceId is NoPairing: pairing *)
(* treats the three alike.  A new pairing has a password, and a file that  *)
(* is there can be read.                                                   *)
(***************************************************************************)
EXTENDS Naturals

CONSTANTS
    Users,          \* the settings userName ...
    Providers,      \* ... and serviceProvider may be set to
    Serials,        \* hashes of the MAC addresses the device may have or be given
    Empty,          \* the empty string
    MaxMishaps      \* bound: see mishaps

ASSUME UsersAssumption == Empty \notin Users

ASSUME MishapsAssumption == MaxMishaps \in Nat

VARIABLES
    \* ApiManager
    m_userName,
    m_serviceProvider,
    m_serial,
    m_deviceId,        \* 0 is the empty string; m_password is set and cleared with it
    m_sessionId,       \* the pairing of the session, 0 when it is the empty string
    \* login
    pc,
    pairing_root,      \* what login knows of the stored pairing
    \* the disk
    file,
    \* the backend
    created,           \* the pairings made so far are 1..created
    pairings,          \* for whom each was made
    live,              \* those the backend still knows
    \* history
    mishaps            \* restarts, pairings taken away, rejected or not heard of

settings == <<m_userName, m_serviceProvider>>
backend  == <<created, pairings, live>>
vars == <<settings, m_serial, m_deviceId, m_sessionId, pc, pairing_root, file, backend, mishaps>>

-----------------------------------------------------------------------------
(* Values *)

Labels == {"out", "pair", "delete", "create", "store", "deviceLogin", "unpair", "in"}

\* The JSON of a pairing, as far as it is looked at.
Stored(user, serial, id) == [userName |-> user, serial |-> serial, deviceId |-> id]
NoPairing == Stored(Empty, Empty, 0)

\* For whom the backend has made a pairing.
Made(user, serial, provider) == [userName |-> user, serial |-> serial, provider |-> provider]

\* The backend in use knows this pairing.
Known(id) == id \in live /\ pairings[id].provider = m_serviceProvider

Init ==
    /\ m_userName \in Users
    /\ m_serviceProvider \in Providers
    /\ m_serial = Empty
    /\ m_deviceId = 0
    /\ m_sessionId = 0
    /\ pc = "out"
    /\ pairing_root = NoPairing
    /\ file = NoPairing
    /\ created = 0
    /\ pairings = [p \in {} |-> NoPairing]
    /\ live = {}
    /\ mishaps = 0

-----------------------------------------------------------------------------
(* login and pairDevice *)

\* LoginLoop calls login: the device id it has in memory, or else pairDevice.
LoginBegins ==
    /\ pc = "out"
    /\ pc' = IF m_deviceId = 0 THEN "pair" ELSE "deviceLogin"
    /\ pairing_root' = NoPairing
    /\ UNCHANGED <<settings, m_serial, m_deviceId, m_sessionId, file, backend, mishaps>>

\* Mutant: the stored pairing is taken whoever it was made for.
ReadPairFile_AnyUser ==
    /\ pc = "pair"
    /\ pairing_root' = file
    /\ m_serial' \in Serials
    /\ \/ /\ file.deviceId # 0 /\ file.serial = m_serial'
          /\ m_deviceId' = file.deviceId
          /\ pc' = "deviceLogin"
       \/ /\ file.deviceId = 0 \/ file.serial # m_serial'
          /\ pc' = IF file.deviceId = 0 THEN "create" ELSE "delete"
          /\ UNCHANGED m_deviceId
    /\ UNCHANGED <<settings, m_sessionId, file, backend, mishaps>>

\* Mutant: a MAC address that cannot be read gets no substitute.
ReadPairFile_NoSubstitute ==
    /\ pc = "pair"
    /\ pairing_root' = file
    /\ m_serial' \in Serials \cup {"hash of nothing"}
    /\ \/ /\ file.userName = m_userName /\ file.serial = m_serial'
          /\ m_deviceId' = file.deviceId
          /\ pc' = "deviceLogin"
       \/ /\ file.userName # m_userName \/ file.serial # m_serial'
          /\ pc' = IF file.deviceId = 0 THEN "create" ELSE "delete"
          /\ UNCHANGED m_deviceId
    /\ UNCHANGED <<settings, m_sessionId, file, backend, mishaps>>

\* The stored pairing is used if it was made for this user and this device, of
\* which the MAC address is asked for again each time, or a substitute drawn.
ReadPairFile ==
    /\ pc = "pair"
    /\ pairing_root' = file
    /\ m_serial' \in Serials
    /\ \/ /\ file.userName = m_userName /\ file.serial = m_serial'
          /\ m_deviceId' = file.deviceId
          /\ pc' = "deviceLogin"
       \/ /\ file.userName # m_userName \/ file.serial # m_serial'
          /\ pc' = IF file.deviceId = 0 THEN "create" ELSE "delete"
          /\ UNCHANGED m_deviceId
    /\ UNCHANGED <<settings, m_sessionId, file, backend, mishaps>>

\* What a delete-pairing request does where it is carried out.
Deleted == live \ {id \in {pairing_root.deviceId} : Known(id)}

\* The previous pairing is deleted, or there is no such device, which the backend may
\* also call "not logged": the code takes both errors for success.
DeletePairing ==
    /\ pc = "delete"
    /\ live' = Deleted
    /\ pc' = "create"
    /\ UNCHANGED <<settings, m_serial, m_deviceId, m_sessionId, pairing_root, file, created,
                   pairings, mishaps>>

\* Mutant: a failed deletion does not keep the device from being paired anew.
DeletePairingFails_Ignored ==
    /\ pc = "delete"
    /\ live' \in {live, Deleted}
    /\ pc' = "create"
    /\ UNCHANGED <<settings, m_serial, m_deviceId, m_sessionId, pairing_root, file, created,
                   pairings, mishaps>>

\* An error or no answer, and with no answer it may have been deleted.
DeletePairingFails ==
    /\ pc = "delete"
    /\ live' \in {live, Deleted}
    /\ pc' = "out"
    /\ UNCHANGED <<settings, m_serial, m_deviceId, m_sessionId, pairing_root, file, created,
                   pairings, mishaps>>

\* A create-pairing request is carried out.
BackendPairs ==
    /\ created' = created + 1
    /\ live' = live \cup {created'}
    /\ pairings' = [p \in 1..created' |->
                       IF p = created' THEN Made(m_userName, m_serial, m_serviceProvider)
                                       ELSE pairings[p]]

CreatePairing ==
    /\ pc = "create"
    /\ BackendPairs
    /\ m_deviceId' = created'
    /\ pairing_root' = Stored(m_userName, m_serial, created')
    /\ pc' = "store"
    /\ UNCHANGED <<settings, m_serial, m_sessionId, file, mishaps>>

CreatePairingFails ==
    /\ pc = "create"
    /\ pc' = "out"
    /\ UNCHANGED <<settings, m_serial, m_deviceId, m_sessionId, pairing_root, file, backend, mishaps>>

\* The device is paired but is not told.
CreatePairingUnanswered ==
    /\ pc = "create"
    /\ mishaps < MaxMishaps
    /\ mishaps' = mishaps + 1
    /\ BackendPairs
    /\ pc' = "out"
    /\ UNCHANGED <<settings, m_serial, m_deviceId, m_sessionId, pairing_root, file>>

-----------------------------------------------------------------------------
(* device-login *)

\* createPairFile comes after a pairing, and then the device logs in; or after
\* a rejection, and then login fails.
PairFileDone ==
    /\ pc' = IF pc = "store" THEN "deviceLogin" ELSE "out"
    /\ m_sessionId' = IF pc = "store" THEN m_sessionId ELSE 0
    /\ UNCHANGED <<settings, m_serial, m_deviceId, pairing_root, backend, mishaps>>

\* Mutant: nothing is written after a rejection.
CreatePairFile_OnlyPaired ==
    /\ pc \in {"store", "unpair"}
    /\ file' = IF pc = "store" THEN pairing_root ELSE file
    /\ PairFileDone

CreatePairFile ==
    /\ pc \in {"store", "unpair"}
    /\ file' = pairing_root
    /\ PairFileDone

\* The file cannot be opened, or what is written to it is lost.
CreatePairFileFails ==
    /\ pc \in {"store", "unpair"}
    /\ file' \in {file, NoPairing}
    /\ PairFileDone

LoggedIn ==
    /\ pc = "deviceLogin"
    /\ Known(m_deviceId)
    /\ m_sessionId' = m_deviceId
    /\ pc' = "in"
    /\ UNCHANGED <<settings, m_serial, m_deviceId, pairing_root, file, backend, mishaps>>

\* Refused, or accepted without a PHPSESSID.  The pairing is given up: what is
\* stored next is pairing_root, which is empty unless this login has read or
\* made the pairing itself.
LoginRejected ==
    /\ pc = "deviceLogin"
    /\ Known(m_deviceId) => mishaps < MaxMishaps
    /\ mishaps' = IF Known(m_deviceId) THEN mishaps + 1 ELSE mishaps
    /\ m_deviceId' = 0
    /\ pairing_root' = Stored(Empty, pairing_root.serial, pairing_root.deviceId)
    /\ pc' = "unpair"
    /\ UNCHANGED <<settings, m_serial, m_sessionId, file, backend>>

\* Mutant: silence is taken for a rejection.
LoginUnanswered_GivesUp ==
    /\ pc = "deviceLogin"
    /\ m_deviceId' = 0
    /\ pc' = "out"
    /\ UNCHANGED <<settings, m_serial, m_sessionId, pairing_root, file, backend, mishaps>>

\* No answer: the state is left as it is for another try.
LoginUnanswered ==
    /\ pc = "deviceLogin"
    /\ pc' = "out"
    /\ UNCHANGED <<settings, m_serial, m_deviceId, m_sessionId, pairing_root, file, backend, mishaps>>

\* KeepAliveJob: no success, so the device is logged in again.
KeepAliveFails ==
    /\ pc = "in"
    /\ pc' = "out"
    /\ UNCHANGED <<settings, m_serial, m_deviceId, m_sessionId, pairing_root, file, backend, mishaps>>

-----------------------------------------------------------------------------
(* The surroundings *)

\* The user removes the device from the account, or the backend does.
Revoke(id) ==
    /\ id \in live
    /\ mishaps < MaxMishaps
    /\ mishaps' = mishaps + 1
    /\ live' = live \ {id}
    /\ UNCHANGED <<settings, m_serial, m_deviceId, m_sessionId, pc, pairing_root, file, created,
                   pairings>>

\* The add-on goes down, in the middle of a write perhaps, and comes up with
\* the settings of then.
Restart ==
    /\ mishaps < MaxMishaps
    /\ mishaps' = mishaps + 1
    /\ m_userName' \in Users
    /\ m_serviceProvider' \in Providers
    /\ m_serial' = Empty
    /\ m_deviceId' = 0
    /\ m_sessionId' = 0
    /\ pairing_root' = NoPairing
    /\ pc' = "out"
    /\ file' \in IF pc \in {"store", "unpair"} THEN {file, NoPairing} ELSE {file}
    /\ UNCHANGED backend

-----------------------------------------------------------------------------
PairDevice ==
    \/ ReadPairFile
    \/ DeletePairing
    \/ DeletePairingFails
    \/ CreatePairing
    \/ CreatePairingFails
    \/ CreatePairingUnanswered

Login ==
    \/ LoginBegins
    \/ PairDevice
    \/ CreatePairFile
    \/ CreatePairFileFails
    \/ LoggedIn
    \/ LoginRejected
    \/ LoginUnanswered

Next ==
    \/ Login
    \/ KeepAliveFails
    \/ \E id \in live : Revoke(id)
    \/ Restart

Spec == Init /\ [][Next]_vars

\* LoginLoop goes round as long as the add-on runs; a request made again and
\* again is answered some time, and a file written again and again is stored.
FairSpec ==
    /\ Spec
    /\ WF_vars(Login)
    /\ SF_vars(DeletePairing)
    /\ SF_vars(CreatePairing)
    /\ SF_vars(CreatePairFile)
    /\ SF_vars(LoggedIn \/ LoginRejected)

-----------------------------------------------------------------------------
(* Properties *)

Ids == 0..created
StoredPairing == [userName : Users \cup {Empty}, serial : Serials \cup {Empty}, deviceId : Ids]
MadePairing == [userName : Users, serial : Serials, provider : Providers]

\* Every variable keeps its shape; the ids around are of pairings that were made.
TypeOK ==
    /\ m_userName \in Users /\ m_serviceProvider \in Providers
    /\ m_serial \in Serials \cup {Empty}
    /\ m_deviceId \in Ids /\ m_sessionId \in Ids
    /\ pc \in Labels
    /\ pairing_root \in StoredPairing /\ file \in StoredPairing
    /\ created \in Nat /\ mishaps \in 0..MaxMishaps
    /\ pairings \in [1..created -> MadePairing]
    /\ live \subseteq 1..created

\* A session is one of the account, the device and the provider of the current
\* settings, whatever pairing the file of an earlier run held.
SessionIsOurs ==
    m_sessionId # 0 => pairings[m_sessionId] = Made(m_userName, m_serial, m_serviceProvider)

\* The device takes a new place in the account only after a mishap: retries of
\* any of the requests, renewed logins and unwritten files cost none.
PairingsBounded == created <= mishaps + 1

\* Before the device is paired anew, the stored pairing is not left behind: the
\* backend in use has forgotten it.
ReplacedIsDeleted == pc = "create" => ~Known(file.deviceId)

\* login gets through in the end, whatever the file holds and whatever has been
\* refused, lost or taken away before.
LogsInAgain == pc = "out" ~> pc = "in"

\* On a rejection, the pairing that is given up stays stored with its userName
\* changed, so that the next pairing can delete it.
RejectedStaysStored ==
    [][ pc = "deviceLogin" /\ pc' = "unpair" /\ file.deviceId = m_deviceId
        => pairing_root' = Stored(Empty, file.serial, file.deviceId) ]_vars
=============================================================================
