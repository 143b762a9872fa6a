------------------------- MODULE HostSession_proofs -------------------------
(***************************************************************************)
(* Theorems about HostSession, for every set of profiles.                  *)
(*                                                                         *)
(* TypeInv makes the types inductive.  SessionInv is the invariant behind  *)
(* every safety property: the host's flags say what the SDK holds, each    *)
(* call is made in the SDK state it needs, and what a failed stop leaves   *)
(* behind is visible to the SDK - a session that is not clean either still *)
(* has its keystore registered or an SDK that is not stopped, and such an  *)
(* SDK registers nothing new.  ObedientInv adds what holds when the user   *)
(* retries Stop before starting again.                                     *)
(***************************************************************************)
EXTENDS HostSession, TLAPS

TypeInv ==
    /\ TypeOK
    /\ pc \in StartSteps \/ keystore => requested \in Owners
    /\ pc = "flock" => profile = requested /\ requested \in Profiles

\* The profile start() was asked for.
Wanted == IF requested = MemoryOnly THEN None ELSE requested

\* Nothing of an earlier session is left.
Clean == profile = None /\ lock = None /\ key = None

\* The host's flags say what the SDK holds; the store stands on the keystore.
FlagsAgree ==
    /\ registered = keystore
    /\ storeOpen = (store # "closed")
    /\ started => sdk # "stopped"
    /\ storeOpen => registered
    /\ loaded = logCallback
    /\ ~loaded => sdk = "stopped" /\ ~registered

\* What is known of the SDK when a call is made.
CallsInOrder ==
    /\ pc \in {"lock", "flock", "prepare", "register"} => ~started /\ ~registered /\ ~storeOpen
    /\ pc \in {"openStore", "awaitStore", "init"} => registered /\ ~started /\ sdk = "stopped"
    /\ pc = "openStore" => ~storeOpen
    /\ pc = "awaitStore" => storeOpen
    /\ pc \in {"init", "identity"} => registered /\ (profile # None => store = "open")
    /\ pc \in {"storeClose", "detach", "unlock", "release", "destroyed"} => sdk = "stopped" /\ ~started
    /\ pc \in {"detach", "unlock", "release", "destroyed"} => ~storeOpen
    /\ pc = "detach" => registered
    /\ pc \in {"unlock", "release", "destroyed"} => ~registered
    /\ pc \in {"release", "destroyed"} => Clean
    /\ pc \notin {"idle", "destroyed"} => loaded
    /\ caller = "dtor" => pc \in StopSteps \cup {"release", "destroyed"}
    /\ pc = "release" => caller = "dtor"

\* What is left behind by a failed stop keeps the SDK from being stopped or
\* its keystore registered; with a stopped SDK each step of start() has
\* exactly what the steps before it acquired.
NoHiddenLeftovers ==
    /\ pc \in {"idle", "lock"} /\ sdk = "stopped" /\ ~registered => Clean
    /\ pc = "flock" /\ sdk = "stopped" => lock = None /\ key = None
    /\ pc = "prepare" /\ sdk = "stopped" => profile = Wanted /\ lock = profile
                                           /\ (profile = None => key = None)
    /\ pc = "register" /\ sdk = "stopped" => profile = Wanted /\ lock = profile /\ key = profile
    /\ registered => profile = Wanted /\ lock = profile /\ key = profile

LockHeld == lock # None => flocks[lock] = "self"

\* With a user who retries Stop before a new start, every start begins with
\* nothing left of the session before, whatever the SDK does.
ObedientInv ==
    /\ IsolatedProfiles /\ NoLockLeak
    /\ pc = "idle" /\ ~registered /\ ~retryStop => Clean /\ records = {}
    /\ pc = "lock" => Clean /\ records = {}
    /\ pc = "flock" => lock = None /\ records = {}
    /\ pc = "prepare" => profile = Wanted /\ records = {}
    /\ pc = "register" => profile = Wanted /\ records \subseteq {requested}
    /\ registered => records \subseteq {requested}

SessionInv == FlagsAgree /\ CallsInOrder /\ NoHiddenLeftovers /\ LockHeld

---------------------------------------------------------------------------

\* Type correctness is inductive once the argument of start() is known to be
\* a path while lock_profile looks at it (lifecycle.cpp: start; profile.cpp: lock_profile).
LEMMA TypeInvStep == TypeInv /\ [Next]_vars => TypeInv'
<1> SUFFICES ASSUME TypeInv, [Next]_vars
             PROVE  TypeInv'
    OBVIOUS
<1> USE SessionAssumption
        DEF TypeInv, TypeOK, MemberTypes, CallTypes, SdkTypes, MachineTypes,
            Owners, StartSteps, StopSteps, flagVars, profileVars, callVars,
            sdkVars, diskVars, Throw, GoTo, StopReturns, OnlyControl
<1>1. CASE Load
      BY <1>1 DEF Load
<1>2. CASE Start
  <2>1. ASSUME NEW p \in Owners, StartCall(p) PROVE TypeInv'
        BY <2>1 DEF StartCall
  <2>2. CASE LockDirectory
        BY <2>2 DEF LockDirectory
  <2>3. CASE TakeLock
        BY <2>3 DEF TakeLock
  <2>4. CASE LockRefused
        BY <2>4 DEF LockRefused
  <2>5. CASE PrepareMemoryOnly
        BY <2>5 DEF PrepareMemoryOnly
  <2>6. CASE UnlockVault
        BY <2>6 DEF UnlockVault
  <2>7. CASE CreateVault
        BY <2>7 DEF CreateVault
  <2>8. CASE Register
    <3>1. MemberTypes' /\ MachineTypes'
          BY <2>8 DEF Register
    <3>2. CallTypes' /\ SdkTypes' /\ pc' # "flock" /\ (pc' \in StartSteps \/ keystore' => requested' \in Owners)
          BY <2>8 DEF Register
    <3> QED
          BY <3>1, <3>2
  <2>9. CASE OpenStore
    <3>1. MemberTypes' /\ MachineTypes'
          BY <2>9 DEF OpenStore
    <3>2. CallTypes' /\ SdkTypes' /\ pc' # "flock" /\ (pc' \in StartSteps \/ keystore' => requested' \in Owners)
          BY <2>9 DEF OpenStore
    <3> QED
          BY <3>1, <3>2
  <2>10. CASE AwaitStore
        BY <2>10 DEF AwaitStore
  <2>11. CASE InitSdk
    <3>1. MemberTypes' /\ MachineTypes'
          BY <2>11 DEF InitSdk
    <3>2. CallTypes' /\ SdkTypes' /\ pc' # "flock" /\ (pc' \in StartSteps \/ keystore' => requested' \in Owners)
          BY <2>11 DEF InitSdk
    <3> QED
          BY <3>1, <3>2
  <2>12. CASE Identity
        BY <2>12 DEF Identity
  <2> QED
        BY <1>2, <2>1, <2>2, <2>3, <2>4, <2>5, <2>6, <2>7, <2>8, <2>9, <2>10, <2>11, <2>12 DEF Start
<1>3. CASE Stop
  <2>1. CASE StopCall
        BY <2>1 DEF StopCall
  <2>2. CASE ShutdownDone
    <3>1. MemberTypes' /\ MachineTypes'
          BY <2>2 DEF ShutdownDone
    <3>2. CallTypes' /\ SdkTypes' /\ pc' # "flock" /\ (pc' \in StartSteps \/ keystore' => requested' \in Owners)
          BY <2>2 DEF ShutdownDone
    <3> QED
          BY <3>1, <3>2
  <2>3. CASE ShutdownFails
        BY <2>3 DEF ShutdownFails
  <2>4. CASE StoreCloseDone
    <3>1. MemberTypes' /\ MachineTypes'
          BY <2>4 DEF StoreCloseDone
    <3>2. CallTypes' /\ SdkTypes' /\ pc' # "flock" /\ (pc' \in StartSteps \/ keystore' => requested' \in Owners)
          BY <2>4 DEF StoreCloseDone
    <3> QED
          BY <3>1, <3>2
  <2>5. CASE StoreCloseFails
        BY <2>5 DEF StoreCloseFails
  <2>6. CASE DetachDone
    <3>1. MemberTypes' /\ MachineTypes'
          BY <2>6 DEF DetachDone
    <3>2. CallTypes' /\ SdkTypes' /\ pc' # "flock" /\ (pc' \in StartSteps \/ keystore' => requested' \in Owners)
          BY <2>6 DEF DetachDone
    <3> QED
          BY <3>1, <3>2
  <2>7. CASE DetachFails
        BY <2>7 DEF DetachFails
  <2>8. CASE Unlock
        BY <2>8 DEF Unlock, UnlockProfile, ReleaseLock
  <2> QED
        BY <1>3, <2>1, <2>2, <2>3, <2>4, <2>5, <2>6, <2>7, <2>8 DEF Stop
<1>4. CASE Quit
      BY <1>4 DEF Quit
<1>5. CASE Release
  <2>1. MemberTypes' /\ MachineTypes'
        BY <1>5 DEF Release
  <2>2. CallTypes' /\ SdkTypes' /\ pc' # "flock" /\ (pc' \in StartSteps \/ keystore' => requested' \in Owners)
        BY <1>5 DEF Release
  <2> QED
        BY <2>1, <2>2
<1>6. CASE Environment
  <2>1. CASE ApiCall
        BY <2>1 DEF ApiCall
  <2>2. CASE StoreFinishes
        BY <2>2 DEF StoreFinishes
  <2>3. CASE KeystoreChange
    <3>1. MemberTypes' /\ MachineTypes'
          BY <2>3 DEF KeystoreChange, CallbackSteps
    <3>2. CallTypes' /\ SdkTypes' /\ pc' # "flock" /\ (pc' \in StartSteps \/ keystore' => requested' \in Owners)
          BY <2>3 DEF KeystoreChange, CallbackSteps
    <3> QED
          BY <3>1, <3>2
  <2>4. ASSUME NEW p \in Profiles, OtherOpens(p) PROVE TypeInv'
        BY <2>4 DEF OtherOpens
  <2>5. ASSUME NEW p \in Profiles, OtherCloses(p) PROVE TypeInv'
        BY <2>5 DEF OtherCloses
  <2>6. CASE Restart
        BY <2>6 DEF Restart
  <2> QED
        BY <1>6, <2>1, <2>2, <2>3, <2>4, <2>5, <2>6 DEF Environment
<1>7. CASE UNCHANGED vars
      BY <1>7 DEF vars
<1> QED
      BY <1>1, <1>2, <1>3, <1>4, <1>5, <1>6, <1>7 DEF Next

\* The types, with what is known of the profile asked for, are inductive.
THEOREM TypeInvariant == Spec => []TypeInv
<1>1. Init => TypeInv
      BY SessionAssumption
      DEF Init, FreshProcess, TypeInv, TypeOK, MemberTypes, CallTypes, SdkTypes, MachineTypes,
          Owners, StartSteps, StopSteps
<1>2. QED
      BY <1>1, TypeInvStep, PTL DEF Spec

\* Every member, the call in progress, the SDK and the profile files keep their
\* types: only a profile directory is ever locked (profile.cpp: lock_profile).
THEOREM TypeCorrect == Spec => []TypeOK
<1>1. TypeInv => TypeOK
      BY DEF TypeInv
<1>2. QED
      BY <1>1, TypeInvariant, PTL

\* The invariant of the session is inductive: no call of start, stop or the
\* destructor, no failure of one, and no other process breaks it.
LEMMA SessionInvStep == TypeInv /\ SessionInv /\ [Next]_vars => SessionInv'
<1> SUFFICES ASSUME TypeInv, SessionInv, [Next]_vars
             PROVE  SessionInv'
    OBVIOUS
<1> USE SessionAssumption
        DEF TypeInv, TypeOK, MemberTypes, CallTypes, SdkTypes, MachineTypes, Owners,
            StartSteps, StopSteps, flagVars, profileVars, callVars, sdkVars, diskVars,
            Throw, GoTo, StopReturns, OnlyControl,
            SessionInv, FlagsAgree, CallsInOrder, NoHiddenLeftovers, LockHeld, Clean, Wanted
<1>1. CASE Load
      BY <1>1 DEF Load
<1>2. CASE Start
  <2>1. ASSUME NEW p \in Owners, StartCall(p) PROVE SessionInv'
        BY <2>1 DEF StartCall
  <2>2. CASE LockDirectory
        BY <2>2 DEF LockDirectory
  <2>3. CASE TakeLock
        BY <2>3 DEF TakeLock
  <2>4. CASE LockRefused
        BY <2>4 DEF LockRefused
  <2>5. CASE PrepareMemoryOnly
        BY <2>5 DEF PrepareMemoryOnly
  <2>6. CASE UnlockVault
        BY <2>6 DEF UnlockVault
  <2>7. CASE CreateVault
        BY <2>7 DEF CreateVault
  <2>8. CASE Register
    <3>1. FlagsAgree' /\ LockHeld'
          BY <2>8 DEF Register
    <3>2. CallsInOrder'
          BY <2>8 DEF Register
    <3>3. NoHiddenLeftovers'
          BY <2>8 DEF Register
    <3> QED
          BY <3>1, <3>2, <3>3
  <2>9. CASE OpenStore
        BY <2>9 DEF OpenStore
  <2>10. CASE AwaitStore
        BY <2>10 DEF AwaitStore
  <2>11. CASE InitSdk
        BY <2>11 DEF InitSdk
  <2>12. CASE Identity
        BY <2>12 DEF Identity
  <2> QED
        BY <1>2, <2>1, <2>2, <2>3, <2>4, <2>5, <2>6, <2>7, <2>8, <2>9, <2>10, <2>11, <2>12 DEF Start
<1>3. CASE Stop
  <2>1. CASE StopCall
        BY <2>1 DEF StopCall
  <2>2. CASE ShutdownDone
        BY <2>2 DEF ShutdownDone
  <2>3. CASE ShutdownFails
        BY <2>3 DEF ShutdownFails
  <2>4. CASE StoreCloseDone
        BY <2>4 DEF StoreCloseDone
  <2>5. CASE StoreCloseFails
        BY <2>5 DEF StoreCloseFails
  <2>6. CASE DetachDone
        BY <2>6 DEF DetachDone
  <2>7. CASE DetachFails
        BY <2>7 DEF DetachFails
  <2>8. CASE Unlock
        BY <2>8 DEF Unlock, UnlockProfile, ReleaseLock
  <2> QED
        BY <1>3, <2>1, <2>2, <2>3, <2>4, <2>5, <2>6, <2>7, <2>8 DEF Stop
<1>4. CASE Quit
      BY <1>4 DEF Quit
<1>5. CASE Release
      BY <1>5 DEF Release
<1>6. CASE Environment
  <2>1. CASE ApiCall
        BY <2>1 DEF ApiCall
  <2>2. CASE StoreFinishes
        BY <2>2 DEF StoreFinishes
  <2>3. CASE KeystoreChange
        BY <2>3 DEF KeystoreChange, CallbackSteps
  <2>4. ASSUME NEW p \in Profiles, OtherOpens(p) PROVE SessionInv'
        BY <2>4 DEF OtherOpens
  <2>5. ASSUME NEW p \in Profiles, OtherCloses(p) PROVE SessionInv'
        BY <2>5 DEF OtherCloses
  <2>6. CASE Restart
        BY <2>6 DEF Restart
  <2> QED
        BY <1>6, <2>1, <2>2, <2>3, <2>4, <2>5, <2>6 DEF Environment
<1>7. CASE UNCHANGED vars
      BY <1>7 DEF vars
<1> QED
      BY <1>1, <1>2, <1>3, <1>4, <1>5, <1>6, <1>7 DEF Next

\* The invariant behind the safety of the session, in every reachable state.
THEOREM SessionInvariant == Spec => []SessionInv
<1>1. Init => SessionInv
      BY SessionAssumption
      DEF Init, FreshProcess, SessionInv, FlagsAgree, CallsInOrder, NoHiddenLeftovers, LockHeld,
          Clean, Wanted, StopSteps
<1>2. QED
      BY <1>1, TypeInvariant, SessionInvStep, PTL DEF Spec

\* Every SDK call of start and stop is made in the order the SDK requires,
\* whatever fails (lifecycle.cpp: start, OpenStore, stop).
THEOREM CallsKeepOrder == Spec => []CallOrder
<1>1. TypeInv /\ SessionInv => CallOrder
  <2> SUFFICES ASSUME TypeInv, SessionInv PROVE CallOrder
      OBVIOUS
  <2> USE DEF TypeInv, TypeOK, MemberTypes, SdkTypes, SessionInv, FlagsAgree, CallsInOrder, Attached
  <2>1. pc \in {"init", "identity"} => keystore /\ (profile # None => store = "open")
        OBVIOUS
  <2>2. pc \in {"storeClose", "detach", "unlock"} => sdk = "stopped"
        OBVIOUS
  <2>3. pc \in {"detach", "unlock"} => store = "closed"
        OBVIOUS
  <2>4. pc \in {"unlock", "release", "destroyed"} => ~Attached /\ sdk = "stopped"
        OBVIOUS
  <2> QED
        BY <2>1, <2>2, <2>3, <2>4 DEF CallOrder
<1>2. QED
      BY <1>1, TypeInvariant, SessionInvariant, PTL

\* A registered keystore is encrypted with the key of the profile it belongs
\* to, that of the session asked for, whose lock this process holds
\* (profile.cpp: lock_profile, PrepareProfile, persist).
THEOREM SessionExclusive == Spec => [](KeyMatchesProfile /\ LockedWhileAttached /\ SessionAsRequested)
<1>1. TypeInv /\ SessionInv => KeyMatchesProfile /\ LockedWhileAttached /\ SessionAsRequested
  <2> SUFFICES ASSUME TypeInv, SessionInv
               PROVE  KeyMatchesProfile /\ LockedWhileAttached /\ SessionAsRequested
      OBVIOUS
  <2>1. Attached => registered
        BY DEF TypeInv, TypeOK, MemberTypes, SdkTypes, SessionInv, FlagsAgree, Attached
  <2>2. registered => profile = Wanted /\ lock = profile /\ key = profile
        BY DEF SessionInv, NoHiddenLeftovers
  <2>3. lock # None => flocks[lock] = "self"
        BY DEF SessionInv, LockHeld
  <2> QED
        BY <2>1, <2>2, <2>3
        DEF KeyMatchesProfile, LockedWhileAttached, SessionAsRequested, Attached, Wanted
<1>2. QED
      BY <1>1, TypeInvariant, SessionInvariant, PTL

\* No record is encrypted with a wiped or with another profile's key
\* (profile.cpp: persist, unlock_profile).
THEOREM KeyIsTheProfiles == Spec => []KeyMatchesProfile
<1>1. KeyMatchesProfile /\ LockedWhileAttached /\ SessionAsRequested => KeyMatchesProfile
      OBVIOUS
<1>2. QED
      BY <1>1, SessionExclusive, PTL

\* The SDK works on the profile start() was asked for, a memory-only session on
\* none (lifecycle.cpp: start; profile.cpp: PrepareProfile).
THEOREM SessionIsTheOneAsked == Spec => []SessionAsRequested
<1>1. KeyMatchesProfile /\ LockedWhileAttached /\ SessionAsRequested => SessionAsRequested
      OBVIOUS
<1>2. QED
      BY <1>1, SessionExclusive, PTL

---------------------------------------------------------------------------

\* The obedient user's invariant is inductive.
LEMMA ObedientInvStep == Obedient /\ TypeInv /\ SessionInv /\ ObedientInv /\ [Next]_vars => ObedientInv'
<1> SUFFICES ASSUME Obedient, TypeInv, SessionInv, ObedientInv, [Next]_vars
             PROVE  ObedientInv'
    OBVIOUS
<1> USE SessionAssumption
        DEF TypeInv, TypeOK, MemberTypes, CallTypes, SdkTypes, MachineTypes, Owners,
            StartSteps, StopSteps, flagVars, profileVars, callVars, sdkVars, diskVars,
            Throw, GoTo, StopReturns, OnlyControl,
            SessionInv, FlagsAgree, CallsInOrder, NoHiddenLeftovers, LockHeld, Clean, Wanted,
            ObedientInv, IsolatedProfiles, NoLockLeak
<1>1. CASE Load
      BY <1>1 DEF Load
<1>2. CASE Start
  <2>1. ASSUME NEW p \in Owners, StartCall(p) PROVE ObedientInv'
        BY <2>1 DEF StartCall
  <2>2. CASE LockDirectory
        BY <2>2 DEF LockDirectory
  <2>3. CASE TakeLock
        BY <2>3 DEF TakeLock
  <2>4. CASE LockRefused
        BY <2>4 DEF LockRefused
  <2>5. CASE PrepareMemoryOnly
        BY <2>5 DEF PrepareMemoryOnly
  <2>6. CASE UnlockVault
        BY <2>6 DEF UnlockVault
  <2>7. CASE CreateVault
        BY <2>7 DEF CreateVault
  <2>8. CASE Register
        BY <2>8 DEF Register
  <2>9. CASE OpenStore
        BY <2>9 DEF OpenStore
  <2>10. CASE AwaitStore
        BY <2>10 DEF AwaitStore
  <2>11. CASE InitSdk
        BY <2>11 DEF InitSdk
  <2>12. CASE Identity
        BY <2>12 DEF Identity
  <2> QED
        BY <1>2, <2>1, <2>2, <2>3, <2>4, <2>5, <2>6, <2>7, <2>8, <2>9, <2>10, <2>11, <2>12 DEF Start
<1>3. CASE Stop
  <2>1. CASE StopCall
        BY <2>1 DEF StopCall
  <2>2. CASE ShutdownDone
        BY <2>2 DEF ShutdownDone
  <2>3. CASE ShutdownFails
        BY <2>3 DEF ShutdownFails
  <2>4. CASE StoreCloseDone
        BY <2>4 DEF StoreCloseDone
  <2>5. CASE StoreCloseFails
        BY <2>5 DEF StoreCloseFails
  <2>6. CASE DetachDone
        BY <2>6 DEF DetachDone
  <2>7. CASE DetachFails
        BY <2>7 DEF DetachFails
  <2>8. CASE Unlock
        BY <2>8 DEF Unlock, UnlockProfile, ReleaseLock
  <2> QED
        BY <1>3, <2>1, <2>2, <2>3, <2>4, <2>5, <2>6, <2>7, <2>8 DEF Stop
<1>4. CASE Quit
      BY <1>4 DEF Quit
<1>5. CASE Release
      BY <1>5 DEF Release
<1>6. CASE Environment
  <2>1. CASE ApiCall
        BY <2>1 DEF ApiCall
  <2>2. CASE StoreFinishes
        BY <2>2 DEF StoreFinishes
  <2>3. CASE KeystoreChange
        BY <2>3 DEF KeystoreChange, CallbackSteps
  <2>4. ASSUME NEW p \in Profiles, OtherOpens(p) PROVE ObedientInv'
        BY <2>4 DEF OtherOpens
  <2>5. ASSUME NEW p \in Profiles, OtherCloses(p) PROVE ObedientInv'
        BY <2>5 DEF OtherCloses
  <2>6. CASE Restart
        BY <2>6 DEF Restart
  <2> QED
        BY <1>6, <2>1, <2>2, <2>3, <2>4, <2>5, <2>6 DEF Environment
<1>7. CASE UNCHANGED vars
      BY <1>7 DEF vars
<1> QED
      BY <1>1, <1>2, <1>3, <1>4, <1>5, <1>6, <1>7 DEF Next

\* With a user who retries Stop as told, the keystore of a profile only ever
\* contains that profile's identity, and every lock file held can still be
\* released (profile.cpp: lock_profile, persist, unlock_profile).
THEOREM ProfilesIsolated ==
    ASSUME Obedient
    PROVE  Spec => [](IsolatedProfiles /\ NoLockLeak)
<1>1. Init => ObedientInv
      BY SessionAssumption
      DEF Init, FreshProcess, ObedientInv, IsolatedProfiles, NoLockLeak, Clean
<1>2. ObedientInv => IsolatedProfiles /\ NoLockLeak
      BY DEF ObedientInv
<1>3. TypeInv /\ SessionInv /\ ObedientInv /\ [Next]_vars => ObedientInv'
      BY ObedientInvStep
<1>4. QED
      BY <1>1, <1>2, <1>3, TypeInvariant, SessionInvariant, PTL DEF Spec

\* No lock file of this process is forgotten by a user who retries Stop
\* (profile.cpp: lock_profile, unlock_profile).
THEOREM LocksAreReleasable ==
    ASSUME Obedient
    PROVE  Spec => []NoLockLeak
<1>1. Spec => [](IsolatedProfiles /\ NoLockLeak)
      BY ProfilesIsolated
<1>2. IsolatedProfiles /\ NoLockLeak => NoLockLeak
      OBVIOUS
<1>3. QED
      BY <1>1, <1>2, PTL

---------------------------------------------------------------------------

\* A step that leaves profile, lock, key, what is lent and the object's life
\* alone is a stutter of the loan; one that changes only the first three while
\* nothing is lent is its ChangeSecrets.
LEMMA LoanStep == TypeInv /\ SessionInv /\ TypeInv' /\ [Next]_vars => [Loan!Next]_(Loan!loanVars)
<1> SUFFICES ASSUME TypeInv, SessionInv, TypeInv', [Next]_vars
             PROVE  [Loan!Next]_(Loan!loanVars)
    OBVIOUS
<1> USE DEF flagVars, profileVars, callVars, sdkVars, diskVars, Throw, GoTo, StopReturns, OnlyControl
<1> DEFINE SameSecrets == UNCHANGED <<profile, lock, key>>
           SameLent == UNCHANGED <<keystore, store, logCallback>>
<1>1. SameSecrets /\ SameLent /\ pc # "destroyed" /\ pc' # "destroyed" => [Loan!Next]_(Loan!loanVars)
      BY DEF Loan!loanVars, Lent
<1>2. SameLent /\ ~keystore /\ store = "closed" /\ pc # "destroyed" /\ pc' # "destroyed"
        => [Loan!Next]_(Loan!loanVars)
  <2> SUFFICES ASSUME SameLent, ~keystore, store = "closed", pc # "destroyed", pc' # "destroyed"
               PROVE  Loan!ChangeSecrets
      BY DEF Loan!Next
  <2>1. Lent \cap {"keystore", "store"} = {} /\ Lent' = Lent
        BY DEF Lent
  <2>2. <<profile, lock, key>>' \in MaybeProfile \X MaybeProfile \X MaybeProfile
        BY DEF TypeInv, TypeOK, MemberTypes, MaybeProfile
  <2> QED
        BY <2>1, <2>2 DEF Loan!ChangeSecrets
<1>3. pc \in StartSteps \cap {"lock", "flock", "prepare", "register"} \/ pc = "unlock"
        => ~keystore /\ store = "closed"
      BY DEF SessionInv, FlagsAgree, CallsInOrder, TypeInv, TypeOK, MemberTypes, SdkTypes
<1>4. CASE Load
  <2>1. Lent' = Lent \cup {"log"}
        BY <1>4 DEF Load, Lent
  <2>2. Loan!Lend("log")
        BY <1>4, <2>1 DEF Load, Loan!Lend
  <2> QED
        BY <2>2 DEF Loan!Next
<1>5. CASE Start
  <2>1. ASSUME NEW p \in Owners, StartCall(p) PROVE [Loan!Next]_(Loan!loanVars)
        BY <2>1, <1>1 DEF StartCall
  <2>2. CASE LockDirectory
        BY <2>2, <1>2, <1>3 DEF LockDirectory, StartSteps
  <2>3. CASE TakeLock
        BY <2>3, <1>2, <1>3 DEF TakeLock, StartSteps
  <2>4. CASE LockRefused
        BY <2>4, <1>1 DEF LockRefused
  <2>5. CASE PrepareMemoryOnly
        BY <2>5, <1>1 DEF PrepareMemoryOnly
  <2>6. CASE UnlockVault
        BY <2>6, <1>2, <1>3 DEF UnlockVault, StartSteps
  <2>7. CASE CreateVault
        BY <2>7, <1>2, <1>3 DEF CreateVault, StartSteps
  <2>8. CASE Register
    <3>1. CASE UNCHANGED keystore
          BY <2>8, <3>1, <1>1 DEF Register
    <3>2. CASE keystore' = TRUE
      <4>1. Lent' = Lent \cup {"keystore"}
            BY <2>8, <3>2 DEF Register, Lent
      <4>2. Loan!Lend("keystore")
            BY <2>8, <4>1 DEF Register, Loan!Lend
      <4> QED
            BY <4>2 DEF Loan!Next
    <3> QED
          BY <2>8, <3>1, <3>2 DEF Register
  <2>9. CASE OpenStore
    <3>1. CASE UNCHANGED store
          BY <2>9, <3>1, <1>1 DEF OpenStore
    <3>2. CASE store' = "opening"
      <4>1. Lent' = Lent \cup {"store"}
            BY <2>9, <3>2 DEF OpenStore, Lent
      <4>2. "keystore" \in Lent
            BY <2>9 DEF OpenStore, Lent, SessionInv, FlagsAgree, CallsInOrder
      <4>3. Loan!Lend("store")
            BY <2>9, <4>1, <4>2 DEF OpenStore, Loan!Lend
      <4> QED
            BY <4>3 DEF Loan!Next
    <3> QED
          BY <2>9, <3>1, <3>2 DEF OpenStore
  <2>10. CASE AwaitStore
        BY <2>10, <1>1 DEF AwaitStore
  <2>11. CASE InitSdk
        BY <2>11, <1>1 DEF InitSdk
  <2>12. CASE Identity
        BY <2>12, <1>1 DEF Identity
  <2> QED
        BY <1>5, <2>1, <2>2, <2>3, <2>4, <2>5, <2>6, <2>7, <2>8, <2>9, <2>10, <2>11, <2>12 DEF Start
<1>6. CASE Stop
  <2>1. CASE StopCall
        BY <2>1, <1>1 DEF StopCall
  <2>2. CASE ShutdownDone
        BY <2>2, <1>1 DEF ShutdownDone
  <2>3. CASE ShutdownFails
        BY <2>3, <1>1 DEF ShutdownFails
  <2>4. CASE StoreCloseDone
    <3>1. Lent' = Lent \ {"store"}
          BY <2>4 DEF StoreCloseDone, Lent
    <3>2. Loan!Recall("store")
          BY <2>4, <3>1 DEF StoreCloseDone, Loan!Recall
    <3> QED
          BY <3>2 DEF Loan!Next
  <2>5. CASE StoreCloseFails
        BY <2>5, <1>1 DEF StoreCloseFails
  <2>6. CASE DetachDone
    <3>1. Lent' = Lent \ {"keystore"} /\ "store" \notin Lent
          BY <2>6 DEF DetachDone, Lent
    <3>2. Loan!Recall("keystore")
          BY <2>6, <3>1 DEF DetachDone, Loan!Recall
    <3> QED
          BY <3>2 DEF Loan!Next
  <2>7. CASE DetachFails
        BY <2>7, <1>1 DEF DetachFails
  <2>8. CASE Unlock
        BY <2>8, <1>2, <1>3 DEF Unlock
  <2> QED
        BY <1>6, <2>1, <2>2, <2>3, <2>4, <2>5, <2>6, <2>7, <2>8 DEF Stop
<1>7. CASE Quit
  <2>1. CASE loaded
        BY <1>7, <2>1, <1>1 DEF Quit
  <2>2. CASE ~loaded
    <3>1. Clean /\ Lent = {} /\ Lent' = {}
          BY <1>7, <2>2 DEF Quit, Lent, SessionInv, FlagsAgree, NoHiddenLeftovers,
                            TypeInv, TypeOK, MemberTypes, SdkTypes
    <3>2. Loan!Destroy
          BY <1>7, <2>2, <3>1 DEF Quit, Loan!Destroy, Clean
    <3> QED
          BY <3>2 DEF Loan!Next
  <2> QED
        BY <2>1, <2>2
<1>8. CASE Release
  <2>1. Clean /\ Lent \subseteq {"log"} /\ Lent' = {}
        BY <1>8 DEF Release, Lent, SessionInv, FlagsAgree, CallsInOrder,
                    TypeInv, TypeOK, MemberTypes, SdkTypes
  <2>2. Loan!Destroy
        BY <1>8, <2>1 DEF Release, Loan!Destroy, Clean
  <2> QED
        BY <2>2 DEF Loan!Next
<1>9. CASE Environment
  <2>1. CASE ApiCall
        BY <2>1, <1>1 DEF ApiCall
  <2>2. CASE StoreFinishes
    <3>1. Lent' = Lent
          BY <2>2 DEF StoreFinishes, Lent
    <3> QED
          BY <2>2, <3>1 DEF StoreFinishes, Loan!loanVars
  <2>3. CASE KeystoreChange
        BY <2>3, <1>1 DEF KeystoreChange, CallbackSteps
  <2>4. ASSUME NEW p \in Profiles, OtherOpens(p) \/ OtherCloses(p)
        PROVE  [Loan!Next]_(Loan!loanVars)
        BY <2>4 DEF OtherOpens, OtherCloses, Loan!loanVars, Lent
  <2>5. CASE Restart
    <3>1. Lent' = {}
          BY <2>5 DEF Restart, Lent
    <3>2. Loan!NewProcess
          BY <2>5, <3>1 DEF Restart, Loan!NewProcess
    <3> QED
          BY <3>2 DEF Loan!Next
  <2> QED
        BY <1>9, <2>1, <2>2, <2>3, <2>4, <2>5 DEF Environment
<1>10. CASE UNCHANGED vars
      BY <1>10 DEF vars, Loan!loanVars, Lent
<1> QED
      BY <1>4, <1>5, <1>6, <1>7, <1>8, <1>9, <1>10 DEF Next

\* The session keeps the promise of CallbackLoan: what is lent is recalled in
\* the SDK's order, and its secrets outlive it (sdk.cpp: load, ~Sdk;
\* lifecycle.cpp: start, stop; profile.cpp: unlock_profile).
THEOREM LoanIsKept == Spec => LoanKept
<1>1. Init => Loan!Init
      BY DEF Init, FreshProcess, Loan!Init, Lent
<1>2. QED
      BY <1>1, LoanStep, TypeInvariant, SessionInvariant, PTL DEF Spec, LoanKept, Loan!Spec

---------------------------------------------------------------------------

\* Whoever runs a call is known to its end; an object that never loaded has no
\* stop to retry.
CallerInv ==
    /\ pc \in StartSteps => caller = "start"
    /\ pc \in StopSteps => caller \in {"user", "start", "dtor"}
    /\ pc = "idle" /\ ~loaded => ~retryStop

\* The caller is set with the first step of a call, kept by the next ones and
\* cleared with the last (lifecycle.cpp: start, stop; sdk.cpp: ~Sdk).
LEMMA CallerInvStep == TypeInv /\ SessionInv /\ CallerInv /\ [Next]_vars => CallerInv'
<1> SUFFICES ASSUME TypeInv, SessionInv, CallerInv, [Next]_vars
             PROVE  CallerInv'
    OBVIOUS
<1> USE DEF CallerInv, StartSteps, StopSteps, flagVars, profileVars, callVars, sdkVars,
            diskVars, Throw, GoTo, StopReturns, OnlyControl
<1>1. pc \notin {"idle", "destroyed"} => loaded
      BY DEF SessionInv, CallsInOrder
<1>2. CASE Load
      BY <1>2 DEF Load
<1>3. CASE Start
  <2>1. ASSUME NEW p \in Owners, StartCall(p) PROVE CallerInv'
        BY <2>1 DEF StartCall
  <2>2. CASE LockDirectory \/ TakeLock \/ LockRefused
        BY <2>2 DEF LockDirectory, TakeLock, LockRefused
  <2>3. CASE PrepareMemoryOnly \/ UnlockVault \/ CreateVault
        BY <2>3 DEF PrepareMemoryOnly, UnlockVault, CreateVault
  <2>4. CASE Register \/ OpenStore
        BY <2>4 DEF Register, OpenStore
  <2>5. CASE AwaitStore \/ InitSdk \/ Identity
        BY <2>5, <1>1 DEF AwaitStore, InitSdk, Identity
  <2> QED
        BY <1>3, <2>1, <2>2, <2>3, <2>4, <2>5 DEF Start
<1>4. CASE Stop
      BY <1>4, <1>1 DEF Stop, StopCall, ShutdownDone, ShutdownFails, StoreCloseDone,
                        StoreCloseFails, DetachDone, DetachFails, Unlock
<1>5. CASE Quit \/ Release
      BY <1>5 DEF Quit, Release
<1>6. CASE Environment
      BY <1>6 DEF Environment, ApiCall, StoreFinishes, KeystoreChange, OtherOpens,
                  OtherCloses, Restart
<1>7. CASE UNCHANGED vars
      BY <1>7 DEF vars
<1> QED
      BY <1>2, <1>3, <1>4, <1>5, <1>6, <1>7 DEF Next

\* Each step is one of the object its callers know, or hidden from them.
LEMMA CallsStep ==
    TypeInv /\ SessionInv /\ CallerInv /\ TypeInv' /\ SessionInv' /\ CallerInv' /\ [Next]_vars
        => [Calls!Next]_Summary
<1> SUFFICES ASSUME TypeInv, SessionInv, CallerInv, TypeInv', SessionInv', CallerInv', [Next]_vars
             PROVE  [Calls!Next]_Summary
    OBVIOUS
<1> DEFINE Doing == [start |-> "starting", user |-> "stopping", dtor |-> "ending"]
<1>1. /\ pc = "idle" => Summary = BetweenCalls
      /\ pc = "destroyed" => Summary = "released"
      /\ pc \in StartSteps => Summary = "starting"
      /\ pc \in StopSteps => Summary = Doing[caller]
      /\ pc = "release" => Summary = "ending"
      BY DEF Summary, StartSteps, StopSteps, CallerInv, SessionInv, CallsInOrder
<1>2. /\ pc' = "idle" => Summary' = BetweenCalls'
      /\ pc' = "destroyed" => Summary' = "released"
      /\ pc' \in StartSteps => Summary' = "starting"
      /\ pc' \in StopSteps => Summary' = Doing[caller']
      /\ pc' = "release" => Summary' = "ending"
      BY DEF Summary, StartSteps, StopSteps, CallerInv, SessionInv, CallsInOrder
<1> HIDE DEF Doing
<1>3. Doing["start"] = "starting" /\ Doing["user"] = "stopping" /\ Doing["dtor"] = "ending"
      BY DEF Doing
<1>4. /\ pc \notin {"idle", "destroyed"} => loaded
      /\ ~loaded => sdk = "stopped"
      /\ started => sdk # "stopped"
      /\ pc \in {"storeClose", "detach", "unlock"} => sdk = "stopped"
      BY DEF SessionInv, CallsInOrder, FlagsAgree
<1>5. loaded' => BetweenCalls' \in {"started", "stopped", "unclean"}
      BY DEF BetweenCalls
<1> USE DEF flagVars, profileVars, callVars, sdkVars, diskVars, GoTo, OnlyControl
\* A step inside start() stays there, or leaves through the catch block.
<1>6. pc \in StartSteps /\ (Throw \/ (pc' \in StartSteps /\ caller' = caller)) => UNCHANGED Summary
  <2> SUFFICES ASSUME pc \in StartSteps, Throw \/ pc' \in StartSteps
               PROVE  Summary' = Summary
      OBVIOUS
  <2>1. Summary = "starting"
        BY <1>1
  <2>2. Summary' = "starting"
        BY <1>2, <1>3 DEF Throw, StopSteps
  <2> QED
        BY <2>1, <2>2
\* The end of a stop() that left no service running.
<1>7. ASSUME NEW ok \in BOOLEAN, pc \in StopSteps, StopReturns(ok), sdk' # "running", UNCHANGED loaded
      PROVE  [Calls!Next]_Summary
  <2>1. CASE caller = "dtor"
        BY <1>7, <2>1, <1>1, <1>2, <1>3 DEF StopReturns, StopSteps
  <2>2. CASE caller = "start"
    <3>1. Calls!StartReturns
          BY <1>7, <2>2, <1>1, <1>2, <1>3, <1>4, <1>5 DEF StopReturns, StopSteps, Calls!StartReturns
    <3> QED
          BY <3>1 DEF Calls!Next
  <2>3. CASE caller = "user"
    <3>1. BetweenCalls' \in {"stopped", "unclean"}
          BY <1>7, <1>4 DEF BetweenCalls, StopSteps
    <3>2. Calls!StopReturns
          BY <1>7, <2>3, <3>1, <1>1, <1>2, <1>3 DEF StopReturns, StopSteps, Calls!StopReturns
    <3> QED
          BY <3>2 DEF Calls!Next
  <2> QED
        BY <1>7, <2>1, <2>2, <2>3 DEF CallerInv
\* A step inside stop().
<1>8. pc \in StopSteps /\ pc' \in StopSteps /\ caller' = caller => UNCHANGED Summary
      BY <1>1, <1>2
<1>9. CASE Load
  <2>1. BetweenCalls = "unloaded" /\ BetweenCalls' = "stopped"
        BY <1>9, <1>4 DEF Load, BetweenCalls, CallerInv
  <2>2. Calls!Load
        BY <1>9, <2>1, <1>1, <1>2 DEF Load, Calls!Load
  <2> QED
        BY <2>2 DEF Calls!Next
<1>10. CASE Start
  <2>1. ASSUME NEW p \in Owners, StartCall(p) PROVE [Calls!Next]_Summary
    <3>1. BetweenCalls \in {"stopped", "unclean"}
          BY <2>1 DEF StartCall, BetweenCalls
    <3>2. Calls!Start
          BY <2>1, <3>1, <1>1, <1>2 DEF StartCall, StartSteps, Calls!Start
    <3> QED
          BY <3>2 DEF Calls!Next
  <2>2. CASE LockDirectory \/ TakeLock \/ LockRefused
        BY <2>2, <1>6 DEF LockDirectory, TakeLock, LockRefused, StartSteps
  <2>3. CASE PrepareMemoryOnly \/ UnlockVault \/ CreateVault
        BY <2>3, <1>6 DEF PrepareMemoryOnly, UnlockVault, CreateVault, StartSteps
  <2>4. CASE Register \/ OpenStore
        BY <2>4, <1>6 DEF Register, OpenStore, StartSteps
  <2>5. CASE AwaitStore \/ InitSdk
        BY <2>5, <1>6 DEF AwaitStore, InitSdk, StartSteps
  <2>6. CASE Identity
    <3>1. CASE Throw
          BY <2>6, <3>1, <1>6 DEF Identity, StartSteps
    <3>2. CASE pc' = "idle"
      <4>1. Calls!StartReturns
            BY <2>6, <3>2, <1>1, <1>2, <1>4, <1>5 DEF Identity, StartSteps, Calls!StartReturns
      <4> QED
            BY <4>1 DEF Calls!Next
    <3> QED
          BY <2>6, <3>1, <3>2 DEF Identity
  <2> QED
        BY <1>10, <2>1, <2>2, <2>3, <2>4, <2>5, <2>6 DEF Start
<1>11. CASE Stop
  <2>1. CASE StopCall
    <3>1. BetweenCalls \in {"stopped", "started", "unclean"}
          BY <2>1 DEF StopCall, BetweenCalls
    <3>2. Calls!Stop
          BY <2>1, <3>1, <1>1, <1>2, <1>3 DEF StopCall, StopSteps, Calls!Stop, Calls!Idle
    <3> QED
          BY <3>2 DEF Calls!Next
  <2>2. CASE ShutdownDone \/ StoreCloseDone \/ DetachDone
        BY <2>2, <1>8 DEF ShutdownDone, StoreCloseDone, DetachDone, StopSteps
  <2>3. CASE ShutdownFails
        BY <2>3, <1>7 DEF ShutdownFails, StopSteps
  <2>4. CASE StoreCloseFails \/ DetachFails
        BY <2>4, <1>4, <1>7 DEF StoreCloseFails, DetachFails, StopSteps
  <2>5. CASE Unlock
        BY <2>5, <1>4, <1>7 DEF Unlock, StopSteps
  <2> QED
        BY <1>11, <2>1, <2>2, <2>3, <2>4, <2>5 DEF Stop
<1>12. CASE Quit
  <2>1. BetweenCalls \in (IF loaded THEN {"stopped", "started", "unclean"} ELSE {"unloaded"})
        BY DEF BetweenCalls
  <2>2. Calls!Destroy
        BY <1>12, <2>1, <1>1, <1>2, <1>3 DEF Quit, StopSteps, Calls!Destroy, Calls!Idle
  <2> QED
        BY <2>2 DEF Calls!Next
<1>13. CASE Release
  <2>1. Calls!Release
        BY <1>13, <1>1, <1>2 DEF Release, Calls!Release
  <2> QED
        BY <2>1 DEF Calls!Next
<1>14. CASE Environment
  <2>1. CASE ApiCall
        BY <2>1, <1>1, <1>2, <1>4 DEF ApiCall, BetweenCalls
  <2>2. CASE StoreFinishes \/ KeystoreChange
        BY <2>2 DEF StoreFinishes, KeystoreChange, Summary, BetweenCalls
  <2>3. ASSUME NEW p \in Profiles, OtherOpens(p) \/ OtherCloses(p)
        PROVE  [Calls!Next]_Summary
        BY <2>3 DEF OtherOpens, OtherCloses, Summary, BetweenCalls
  <2>4. CASE Restart
    <3>1. Calls!NewProcess
          BY <2>4, <1>2 DEF Restart, BetweenCalls, Calls!NewProcess
    <3> QED
          BY <3>1 DEF Calls!Next
  <2> QED
        BY <1>14, <2>1, <2>2, <2>3, <2>4 DEF Environment
<1>15. CASE UNCHANGED vars
      BY <1>15 DEF vars, Summary, BetweenCalls
<1> QED
      BY <1>9, <1>10, <1>11, <1>12, <1>13, <1>14, <1>15 DEF Next

\* The session is the object its callers know: whatever fails inside, a call
\* ends in one of the ways Workbench, SdkCalls and Console are built on
\* (sdk.cpp: load, ~Sdk; lifecycle.cpp: start, stop).
THEOREM CallsAreKept == Spec => CallsKept
<1>1. Init => Calls!Init /\ CallerInv
      BY DEF Init, FreshProcess, Calls!Init, Summary, BetweenCalls, CallerInv, StartSteps, StopSteps
<1>2. Spec => []CallerInv
      BY <1>1, CallerInvStep, TypeInvariant, SessionInvariant, PTL DEF Spec
<1>3. QED
      BY <1>1, <1>2, CallsStep, TypeInvariant, SessionInvariant, PTL DEF Spec, CallsKept, Calls!Spec
=============================================================================
