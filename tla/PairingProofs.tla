--------------------------- MODULE PairingProofs ---------------------------
(***************************************************************************)
(* What holds of Pairing for any accounts, providers and serials and any   *)
(* number of mishaps.                                                      *)
(***************************************************************************)
EXTENDS Pairing, TLAPS

-----------------------------------------------------------------------------
(* Types *)

\* What holds of the ids stays so when one more pairing is made.
LEMMA BackendPairsType ==
    ASSUME TypeOK, BackendPairs, m_serial \in Serials,
           UNCHANGED <<m_userName, m_serviceProvider, m_serial>>
    PROVE  /\ created' \in Nat /\ created' \in Ids' /\ Ids \subseteq Ids'
           /\ StoredPairing \subseteq StoredPairing'
           /\ pairings' \in [1..created' -> MadePairing]
           /\ live' \subseteq 1..created'
<1>1. created \in Nat /\ created' = created + 1
  BY DEF TypeOK, BackendPairs
<1>2. created' \in Nat /\ created' \in Ids' /\ Ids \subseteq Ids' /\ 1..created' = 1..created \cup {created'}
  BY <1>1 DEF Ids
<1>3. StoredPairing \subseteq StoredPairing'
  BY <1>2 DEF StoredPairing
<1>4. Made(m_userName, m_serial, m_serviceProvider) \in MadePairing
  BY DEF TypeOK, Made, MadePairing
<1>5. pairings' \in [1..created' -> MadePairing]
  BY <1>2, <1>4 DEF TypeOK, BackendPairs
<1>6. live' \subseteq 1..created'
  BY <1>2 DEF TypeOK, BackendPairs
<1> QED
  BY <1>2, <1>3, <1>5, <1>6

\* The serial is known before a pairing is asked for.
TypeInv == TypeOK /\ (pc \in {"delete", "create", "store"} => m_serial \in Serials)

\* A stored pairing keeps its shape when it is marked for pairing anew.
LEMMA StoredType ==
    TypeOK =>
    /\ 0 \in Ids
    /\ NoPairing \in StoredPairing
    /\ Stored(Empty, pairing_root.serial, pairing_root.deviceId) \in StoredPairing
<1>1. TypeOK => created \in Nat /\ pairing_root \in StoredPairing
  BY DEF TypeOK
<1>2. TypeOK => 0 \in Ids
  BY <1>1 DEF Ids
<1> QED
  BY <1>1, <1>2 DEF NoPairing, Stored, StoredPairing

\* Below the bound there is room for one more mishap.
LEMMA MishapType ==
    ASSUME TypeOK, mishaps < MaxMishaps
    PROVE  mishaps + 1 \in 0..MaxMishaps
<1>1. MaxMishaps \in Nat /\ mishaps \in 0..MaxMishaps
  BY MishapsAssumption DEF TypeOK
<1> QED
  BY <1>1

LEMMA TypeStep == TypeInv /\ [Next]_vars => TypeInv'
<1> SUFFICES ASSUME TypeInv, [Next]_vars PROVE TypeInv'
  OBVIOUS
<1>0. ASSUME created' = created
      PROVE  Ids' = Ids /\ StoredPairing' = StoredPairing
  BY <1>0 DEF Ids, StoredPairing
<1> USE DEF TypeInv, TypeOK, Labels, settings, backend
<1>1. CASE LoginBegins
  BY <1>0, <1>1, StoredType DEF LoginBegins
<1>2. CASE LoginUnanswered \/ CreatePairingFails \/ KeepAliveFails
  BY <1>0, <1>2 DEF LoginUnanswered, CreatePairingFails, KeepAliveFails
<1>3. CASE ReadPairFile
  <2>1. file.deviceId \in Ids
    BY DEF StoredPairing
  <2> QED
    BY <1>0, <1>3, <2>1 DEF ReadPairFile
<1>4. CASE DeletePairing \/ DeletePairingFails
  BY <1>0, <1>4 DEF DeletePairing, DeletePairingFails, Deleted
<1>5. CASE CreatePairing
  <2>1. Stored(m_userName, m_serial, created') \in StoredPairing'
    BY <1>5, BackendPairsType DEF CreatePairing, Stored, StoredPairing
  <2> QED
    BY <1>5, <2>1, BackendPairsType DEF CreatePairing
<1>6. CASE CreatePairingUnanswered
  <2>1. mishaps' \in 0..MaxMishaps
    BY <1>6, MishapType DEF CreatePairingUnanswered
  <2> QED
    BY <1>6, <2>1, BackendPairsType DEF CreatePairingUnanswered
<1>7. CASE CreatePairFile \/ CreatePairFileFails
  <2>1. file' \in StoredPairing /\ 0 \in Ids
    BY <1>7, StoredType DEF CreatePairFile, CreatePairFileFails, Ids
  <2>2. PairFileDone /\ pc \in {"store", "unpair"}
    BY <1>7 DEF CreatePairFile, CreatePairFileFails
  <2> QED
    BY <1>0, <2>1, <2>2 DEF PairFileDone
<1>8. CASE LoggedIn
  BY <1>0, <1>8 DEF LoggedIn
<1>9. CASE LoginRejected
  <2>1. mishaps' \in 0..MaxMishaps
    BY <1>9, MishapType DEF LoginRejected
  <2> QED
    BY <1>0, <1>9, <2>1, StoredType DEF LoginRejected
<1>10. ASSUME NEW id \in live, Revoke(id) PROVE TypeInv'
  <2>1. mishaps' \in 0..MaxMishaps /\ live' \subseteq live
    BY <1>10, MishapType DEF Revoke
  <2> QED
    BY <1>0, <1>10, <2>1 DEF Revoke
<1>11. CASE Restart
  <2>1. mishaps' \in 0..MaxMishaps
    BY <1>11, MishapType DEF Restart
  <2>2. file' \in StoredPairing
    BY <1>11, StoredType DEF Restart
  <2> QED
    BY <1>0, <1>11, <2>1, <2>2, StoredType DEF Restart
<1>12. CASE UNCHANGED vars
  BY <1>0, <1>12 DEF vars
<1> QED
  BY <1>1, <1>2, <1>3, <1>4, <1>5, <1>6, <1>7, <1>8, <1>9, <1>10, <1>11, <1>12
     DEF Next, Login, PairDevice

LEMMA InitType == Init => TypeInv
<1> SUFFICES ASSUME Init PROVE TypeInv
  OBVIOUS
<1>1. MaxMishaps \in Nat /\ created = 0 /\ mishaps = 0
  BY MishapsAssumption DEF Init
<1>2. 0 \in 0..MaxMishaps /\ Ids = {0}
  BY <1>1 DEF Ids
<1>3. NoPairing \in StoredPairing
  BY <1>2 DEF NoPairing, Stored, StoredPairing
<1>4. 1..created = {}
  BY <1>1
<1>5. pairings \in [1..created -> MadePairing]
  BY <1>4 DEF Init
<1> QED
  BY <1>1, <1>2, <1>3, <1>5 DEF Init, TypeInv, TypeOK, Labels

LEMMA TypeInvariant == Spec => []TypeInv
  BY InitType, TypeStep, PTL DEF Spec

\* Every reachable state of the pairing, its file and the backend is well
\* formed: no id is around that the backend has not made.
THEOREM TypeCorrect == Spec => []TypeOK
<1>1. TypeInv => TypeOK
  BY DEF TypeInv
<1> QED
  BY <1>1, TypeInvariant, PTL

-----------------------------------------------------------------------------
(* Pairings and sessions *)

\* A pairing in use costs no mishap; one that is not there, is gone or belongs to
\* another provider has already cost one, so that the next may be made.  What is
\* stored for a user has an id.
BudgetInv ==
    /\ TypeInv
    /\ PairingsBounded
    /\ m_deviceId = 0 \/ ~Known(m_deviceId) => created <= mishaps
    /\ file.userName # Empty => file.deviceId # 0
    /\ pairing_root.userName # Empty => pairing_root.deviceId # 0
    /\ pc \in {"pair", "delete", "create"} => m_deviceId = 0
    /\ pc \in {"store", "deviceLogin"} => m_deviceId # 0

LEMMA BudgetStep == BudgetInv /\ [Next]_vars => BudgetInv'
<1> SUFFICES ASSUME BudgetInv, [Next]_vars PROVE BudgetInv'
  OBVIOUS
<1>0. TypeInv /\ TypeInv'
  BY TypeStep DEF BudgetInv
<1>a. created \in Nat /\ mishaps \in Nat /\ m_userName # Empty
  <2>1. created \in Nat /\ mishaps \in 0..MaxMishaps /\ m_userName \in Users
    BY <1>0 DEF TypeInv, TypeOK
  <2> QED
    BY <2>1, UsersAssumption, MishapsAssumption
<1> USE <1>0, <1>a DEF BudgetInv, PairingsBounded, Known, settings, backend
<1>1. CASE LoginBegins \/ LoginUnanswered \/ CreatePairingFails \/ KeepAliveFails
  BY <1>1 DEF LoginBegins, LoginUnanswered, CreatePairingFails, KeepAliveFails, NoPairing, Stored
<1>2. CASE ReadPairFile
  BY <1>2 DEF ReadPairFile
<1>3. CASE DeletePairing \/ DeletePairingFails
  BY <1>3 DEF DeletePairing, DeletePairingFails
<1>4. CASE CreatePairing
  BY <1>4 DEF CreatePairing, BackendPairs, Made, Stored
<1>5. CASE CreatePairingUnanswered
  BY <1>5 DEF CreatePairingUnanswered, BackendPairs
<1>6. CASE CreatePairFile \/ CreatePairFileFails
  BY <1>6 DEF CreatePairFile, CreatePairFileFails, PairFileDone, NoPairing, Stored
<1>7. CASE LoggedIn \/ LoginRejected
  BY <1>7 DEF LoggedIn, LoginRejected, Stored
<1>8. ASSUME NEW id \in live, Revoke(id) PROVE BudgetInv'
  BY <1>8 DEF Revoke
<1>9. CASE Restart
  BY <1>9 DEF Restart, NoPairing, Stored
<1>10. CASE UNCHANGED vars
  BY <1>10 DEF vars
<1> QED
  BY <1>1, <1>2, <1>3, <1>4, <1>5, <1>6, <1>7, <1>8, <1>9, <1>10 DEF Next, Login, PairDevice

\* However often the requests of pairing and login are retried, and whatever
\* becomes of the file, a device takes no second place in the account unless a
\* pairing was lost, rejected or taken away, or the add-on restarted.
THEOREM PairingsStayBounded == Spec => []PairingsBounded
<1>1. Init => BudgetInv
  BY InitType DEF Init, BudgetInv, PairingsBounded, NoPairing, Stored
<1>2. BudgetInv => PairingsBounded
  BY DEF BudgetInv
<1> QED
  BY <1>1, <1>2, BudgetStep, PTL DEF Spec

\* What the backend knows of a stored pairing that has a user.
Truthful(stored) ==
    stored.userName # Empty =>
        /\ stored.deviceId \in 1..created
        /\ pairings[stored.deviceId].userName = stored.userName
        /\ pairings[stored.deviceId].serial = stored.serial

\* The device id and the session are of the current account and serial; pairDevice
\* draws a new serial only when there is neither.
SessionInv ==
    /\ TypeInv
    /\ SessionIsOurs
    /\ m_deviceId # 0 => /\ pairings[m_deviceId].userName = m_userName
                         /\ pairings[m_deviceId].serial = m_serial
    /\ m_sessionId # 0 => m_deviceId = m_sessionId \/ pc = "unpair"
    /\ pc \in {"pair", "delete", "create"} => m_deviceId = 0
    /\ pc \in {"store", "deviceLogin"} => m_deviceId # 0
    /\ Truthful(file) /\ Truthful(pairing_root)

\* A pairing made for three settings is known by them.
LEMMA MadeEquals ==
    ASSUME NEW m \in MadePairing, NEW u, NEW s, NEW p,
           m.userName = u, m.serial = s, m.provider = p
    PROVE  m = Made(u, s, p)
  BY DEF Made, MadePairing

\* One more pairing leaves what is known of the others.
LEMMA BackendPairsKeeps ==
    ASSUME TypeOK, BackendPairs
    PROVE  /\ created \in Nat /\ created' = created + 1
           /\ \A id \in 1..created : id \in 1..created' /\ pairings'[id] = pairings[id]
           /\ pairings'[created'] = Made(m_userName, m_serial, m_serviceProvider)
  BY DEF TypeOK, BackendPairs

LEMMA SessionStep == SessionInv /\ [Next]_vars => SessionInv'
<1> SUFFICES ASSUME SessionInv, [Next]_vars PROVE SessionInv'
  OBVIOUS
<1>0. TypeInv /\ TypeInv' /\ TypeOK
  BY TypeStep DEF SessionInv, TypeInv
<1>a. /\ m_userName # Empty /\ 0 \notin 1..created
      /\ m_deviceId # 0 => m_deviceId \in 1..created
      /\ m_sessionId # 0 => m_sessionId \in 1..created
  BY <1>0, UsersAssumption DEF TypeOK, Ids
<1> USE <1>0, <1>a DEF SessionInv, SessionIsOurs, settings, backend
<1>1. CASE LoginBegins \/ LoginUnanswered \/ CreatePairingFails \/ KeepAliveFails
  BY <1>1 DEF LoginBegins, LoginUnanswered, CreatePairingFails, KeepAliveFails, NoPairing, Stored,
     Truthful
<1>2. CASE ReadPairFile
  BY <1>2 DEF ReadPairFile, Truthful
<1>3. CASE DeletePairing \/ DeletePairingFails
  BY <1>3 DEF DeletePairing, DeletePairingFails, Truthful
<1>4. ASSUME BackendPairs, CreatePairing \/ CreatePairingUnanswered PROVE SessionInv'
  <2>1. Truthful(file)' /\ (Truthful(pairing_root) /\ pairing_root' = pairing_root => Truthful(pairing_root)')
    BY <1>4, BackendPairsKeeps DEF CreatePairing, CreatePairingUnanswered, Truthful
  <2>2. CASE CreatePairing
    <3>1. Truthful(pairing_root)'
      BY <1>4, <2>2, BackendPairsKeeps DEF CreatePairing, Truthful, Stored, Made
    <3> QED
      BY <1>4, <2>1, <2>2, <3>1, BackendPairsKeeps DEF CreatePairing, Made
  <2>3. CASE CreatePairingUnanswered
    BY <1>4, <2>1, <2>3, BackendPairsKeeps DEF CreatePairingUnanswered
  <2> QED
    BY <1>4, <2>2, <2>3
<1>5. CASE CreatePairFile \/ CreatePairFileFails
  BY <1>5 DEF CreatePairFile, CreatePairFileFails, PairFileDone, NoPairing, Stored, Truthful
<1>6. CASE LoggedIn
  <2>1. pairings[m_deviceId] = Made(m_userName, m_serial, m_serviceProvider)
    BY <1>6, MadeEquals DEF LoggedIn, Known, TypeOK
  <2> QED
    BY <1>6, <2>1 DEF LoggedIn, Truthful
<1>7. CASE LoginRejected
  BY <1>7 DEF LoginRejected, Stored, Truthful
<1>8. ASSUME NEW id \in live, Revoke(id) PROVE SessionInv'
  BY <1>8 DEF Revoke, Truthful
<1>9. CASE Restart
  BY <1>9 DEF Restart, NoPairing, Stored, Truthful
<1>10. CASE UNCHANGED vars
  BY <1>10 DEF vars, Truthful
<1> QED
  BY <1>1, <1>2, <1>3, <1>4, <1>5, <1>6, <1>7, <1>8, <1>9, <1>10
     DEF Next, Login, PairDevice, CreatePairing, CreatePairingUnanswered

\* Whatever pairing an earlier run has stored, for another account, device or
\* provider, the session is one of the current settings.
THEOREM SessionStaysOurs == Spec => []SessionIsOurs
<1>1. Init => SessionInv
  BY InitType DEF Init, SessionInv, SessionIsOurs, NoPairing, Stored, Truthful
<1>2. SessionInv => SessionIsOurs
  BY DEF SessionInv
<1> QED
  BY <1>1, <1>2, SessionStep, PTL DEF Spec

\* Between the deletion and the new pairing, pairing_root is still the file.
ReplaceInv ==
    /\ TypeInv
    /\ ReplacedIsDeleted
    /\ pc \in {"delete", "create"} => pairing_root = file

LEMMA ReplaceStep == ReplaceInv /\ [Next]_vars => ReplaceInv'
<1> SUFFICES ASSUME ReplaceInv, [Next]_vars PROVE ReplaceInv'
  OBVIOUS
<1>0. TypeInv' /\ 0 \notin live
  BY TypeStep DEF ReplaceInv, TypeInv, TypeOK
<1> USE <1>0 DEF ReplaceInv, ReplacedIsDeleted, Known, settings, backend
<1>1. CASE LoginBegins \/ LoginUnanswered \/ CreatePairingFails \/ KeepAliveFails
  BY <1>1 DEF LoginBegins, LoginUnanswered, CreatePairingFails, KeepAliveFails
<1>2. CASE ReadPairFile
  BY <1>2 DEF ReadPairFile
<1>3. CASE DeletePairing \/ DeletePairingFails
  BY <1>3 DEF DeletePairing, DeletePairingFails, Deleted
<1>4. CASE CreatePairing \/ CreatePairingUnanswered
  BY <1>4 DEF CreatePairing, CreatePairingUnanswered
<1>5. CASE CreatePairFile \/ CreatePairFileFails
  BY <1>5 DEF CreatePairFile, CreatePairFileFails, PairFileDone
<1>6. CASE LoggedIn \/ LoginRejected
  BY <1>6 DEF LoggedIn, LoginRejected
<1>7. ASSUME NEW id \in live, Revoke(id) PROVE ReplaceInv'
  BY <1>7 DEF Revoke
<1>8. CASE Restart
  BY <1>8 DEF Restart
<1>9. CASE UNCHANGED vars
  BY <1>9 DEF vars
<1> QED
  BY <1>1, <1>2, <1>3, <1>4, <1>5, <1>6, <1>7, <1>8, <1>9 DEF Next, Login, PairDevice

\* pairDevice asks for a new pairing only when the stored one is deleted where
\* it was made, if that is the provider in use.
THEOREM ReplacedStaysDeleted == Spec => []ReplacedIsDeleted
<1>1. Init => ReplaceInv
  BY InitType DEF Init, ReplaceInv, ReplacedIsDeleted
<1>2. ReplaceInv => ReplacedIsDeleted
  BY DEF ReplaceInv
<1> QED
  BY <1>1, <1>2, ReplaceStep, PTL DEF Spec
=============================================================================
