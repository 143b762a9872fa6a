---------------------------- MODULE HostSession ----------------------------
(***************************************************************************)
(* One Sdk object of sovkit-devtools: the host side of a SovKit session.   *)
(* src/sdk/lifecycle.cpp starts and stops the session one SDK call at a    *)
(* time, src/sdk/profile.cpp owns the profile directory, its lock and the  *)
(* secrets the SDK reads through callbacks, src/sdk.cpp destroys the       *)
(* object.  All of it runs on one thread; pc says which call comes next,   *)
(* so the SDK's own threads, the other processes that use a profile and a  *)
(* crash interleave with it.  Any SDK call may fail whenever the code has  *)
(* a path for its failure.                                                 *)
(***************************************************************************)
CONSTANTS
    Profiles,     \* profile directories a user may choose
    MemoryOnly,   \* the empty profile path: a session kept in memory
    None,         \* no profile, no lock, no key
    Obedient      \* the user retries Stop after being told to, before a new start

ASSUME SessionAssumption ==
    /\ MemoryOnly \notin Profiles
    /\ None \notin Profiles \cup {MemoryOnly}
    /\ Obedient \in BOOLEAN

VARIABLES
    \* members of class Sdk
    loaded, started, registered, storeOpen,
    profile,      \* profile_: the directory in use, None when empty
    lock,         \* lock_: the directory whose lock file the descriptor locks
    key,          \* key_: the profile whose vault key it holds
    records,      \* records_: whose identities the decrypted keystore contains
    \* the call in progress
    pc,           \* the next call to make, "idle" between two requests
    caller,       \* who runs stop(): the user, a failed start(), the destructor
    requested,    \* the profile argument of the last start()
    retryStop,    \* the last stop() failed and said to retry
    \* the SDK, external
    sdk,          \* its services: stopped, running, or stop pending
    keystore,     \* it holds the host's keystore callbacks
    store,        \* its business store
    logCallback,  \* it holds the host's log callback
    \* the machine
    vault,        \* files of each profile: none, vault.enc only, keystore.enc too
    stored,       \* whose identities each keystore.enc contains
    flocks        \* who holds each .devtools.lock

flagVars == <<loaded, started, registered, storeOpen>>
profileVars == <<profile, lock, key, records>>
callVars == <<pc, caller, requested, retryStop>>
sdkVars == <<sdk, keystore, store, logCallback>>
diskVars == <<vault, stored, flocks>>
vars == <<flagVars, profileVars, callVars, sdkVars, diskVars>>

Owners == Profiles \cup {MemoryOnly}

StartSteps == {"lock", "flock", "prepare", "register", "openStore", "awaitStore", "init", "identity"}
StopSteps == {"shutdown", "storeClose", "detach", "unlock"}

MemberTypes ==
    /\ loaded \in BOOLEAN /\ started \in BOOLEAN
    /\ registered \in BOOLEAN /\ storeOpen \in BOOLEAN
    /\ profile \in Profiles \cup {None}
    /\ lock \in Profiles \cup {None}
    /\ key \in Profiles \cup {None}
    /\ records \subseteq Owners

CallTypes ==
    /\ pc \in {"idle", "release", "destroyed"} \cup StartSteps \cup StopSteps
    /\ caller \in {"none", "user", "start", "dtor"}
    /\ requested \in Owners \cup {None}
    /\ retryStop \in BOOLEAN

SdkTypes ==
    /\ sdk \in {"stopped", "running", "pending"}
    /\ keystore \in BOOLEAN
    /\ store \in {"closed", "opening", "open", "failed"}
    /\ logCallback \in BOOLEAN

MachineTypes ==
    /\ vault \in [Profiles -> {"absent", "envelope", "complete"}]
    /\ stored \in [Profiles -> SUBSET Owners]
    /\ flocks \in [Profiles -> {"free", "self", "other"}]

\* Every member, the call in progress, the SDK and the profile files stay
\* within their types: in particular only a profile directory, never the empty
\* path, is canonicalised, locked or opened (profile.cpp: lock_profile).
TypeOK == MemberTypes /\ CallTypes /\ SdkTypes /\ MachineTypes

FreshProcess ==
    /\ loaded = FALSE /\ started = FALSE /\ registered = FALSE /\ storeOpen = FALSE
    /\ profile = None /\ lock = None /\ key = None /\ records = {}
    /\ pc = "idle" /\ caller = "none" /\ requested = None /\ retryStop = FALSE
    /\ sdk = "stopped" /\ keystore = FALSE /\ store = "closed" /\ logCallback = FALSE

Init ==
    /\ FreshProcess
    /\ vault = [p \in Profiles |-> "absent"]
    /\ stored = [p \in Profiles |-> {}]
    /\ flocks = [p \in Profiles |-> "free"]

---------------------------------------------------------------------------
(* Control flow shared by the calls *)

\* start() is left through its catch block, which first runs stop().
Throw == pc' = "shutdown" /\ caller' = "start"

\* stop() returns a code to its caller; the destructor alone tries again.
StopReturns(ok) ==
    /\ retryStop' = ~ok
    /\ IF caller = "dtor"
         THEN /\ pc' = IF ok THEN "release" ELSE "shutdown"
              /\ caller' = caller
         ELSE pc' = "idle" /\ caller' = "none"

\* The call changes nothing but what comes next.
OnlyControl == UNCHANGED <<requested, retryStop, flagVars, profileVars, sdkVars, diskVars>>

GoTo(step) == pc' = step /\ caller' = caller

---------------------------------------------------------------------------
(* Sdk::load *)

\* A load that fails leaves the object unloaded, as it was.
Load ==
    /\ pc = "idle" /\ ~loaded
    /\ loaded' = TRUE /\ logCallback' = TRUE
    /\ UNCHANGED <<started, registered, storeOpen, profileVars>>
    /\ UNCHANGED <<callVars, sdk, keystore, store, diskVars>>

---------------------------------------------------------------------------
(* Sdk::start *)

\* Mutant: a session that could not be detached does not stop a new start.
StartCall_IgnoresRegistered(p) ==
    /\ pc = "idle" /\ loaded
    /\ ~started /\ ~storeOpen
    /\ Obedient => ~retryStop
    /\ requested' = p
    /\ pc' = "lock" /\ caller' = "start"
    /\ UNCHANGED <<retryStop, flagVars, profileVars, sdkVars, diskVars>>

StartCall(p) ==
    /\ pc = "idle" /\ loaded
    /\ ~started /\ ~registered /\ ~storeOpen
    /\ Obedient => ~retryStop
    /\ requested' = p
    /\ pc' = "lock" /\ caller' = "start"
    /\ UNCHANGED <<retryStop, flagVars, profileVars, sdkVars, diskVars>>

\* Mutant: an empty path is locked like any other.
LockDirectory_NoMemoryOnly ==
    /\ pc = "lock"
    /\ profile' = requested
    /\ GoTo("flock") \/ Throw
    /\ UNCHANGED <<flagVars, lock, key, records>>
    /\ UNCHANGED <<requested, retryStop, sdkVars, diskVars>>

\* lock_profile up to the lock file: an empty path returns at once.
LockDirectory ==
    /\ pc = "lock"
    /\ IF requested = MemoryOnly
         THEN GoTo("prepare") /\ profile' = profile
         ELSE \/ profile' = requested /\ GoTo("flock")
              \* cannot be created, or cannot be protected
              \/ profile' \in {profile, requested} /\ Throw
              \* somebody else's directory: not empty, no DevTools marker
              \/ vault[requested] = "absent" /\ profile' = None /\ Throw
    /\ UNCHANGED <<flagVars, lock, key, records>>
    /\ UNCHANGED <<requested, retryStop, sdkVars, diskVars>>

\* The exclusive lock, then the marker of a new profile, which may fail to be written.
TakeLock ==
    /\ pc = "flock"
    /\ flocks[profile] = "free"
    /\ flocks' = [flocks EXCEPT ![profile] = "self"]
    /\ lock' = profile
    /\ \/ GoTo("prepare")
       \/ vault[profile] = "absent" /\ Throw
    /\ UNCHANGED <<flagVars, profile, key, records>>
    /\ UNCHANGED <<requested, retryStop, sdkVars, vault, stored>>

\* Mutant: the result of flock is not looked at.
LockRefused_Ignored ==
    /\ pc = "flock"
    /\ GoTo("prepare")
    /\ OnlyControl

LockRefused ==
    /\ pc = "flock"
    /\ Throw
    /\ OnlyControl

PrepareMemoryOnly ==
    /\ pc = "prepare" /\ profile = None
    /\ GoTo("register")
    /\ OnlyControl

\* An existing vault: unlock the key, then decrypt the keystore.
UnlockVault ==
    /\ pc = "prepare" /\ profile # None
    /\ vault[profile] # "absent"
    /\ \/ Throw /\ UNCHANGED <<key, records>>              \* no or wrong password
       \/ key' = profile /\ Throw /\ UNCHANGED records     \* keystore missing or damaged
       \/ /\ vault[profile] = "complete"
          /\ key' = profile /\ records' = stored[profile]
          /\ GoTo("register")
    /\ UNCHANGED <<flagVars, profile, lock>>
    /\ UNCHANGED <<requested, retryStop, sdkVars, diskVars>>

\* A new vault: write the envelope, then the keystore; a failure stops anywhere.
CreateVault ==
    /\ pc = "prepare" /\ profile # None
    /\ vault[profile] = "absent"
    /\ \/ Throw /\ UNCHANGED <<key, vault, stored>>        \* no password, no envelope
       \/ \E reached \in {"absent", "envelope", "complete"} :
             /\ key' = profile
             /\ vault' = [vault EXCEPT ![profile] = reached]
             /\ stored' = IF reached = "complete"
                            THEN [stored EXCEPT ![profile] = records] ELSE stored
             /\ Throw \/ (reached = "complete" /\ GoTo("register"))
    /\ UNCHANGED <<flagVars, profile, lock, records>>
    /\ UNCHANGED <<requested, retryStop, sdkVars, flocks>>

\* The SDK refuses a keystore unless it is stopped and its store is closed.
Register ==
    /\ pc = "register"
    /\ \/ /\ sdk = "stopped" /\ store = "closed"
          /\ registered' = TRUE /\ keystore' = TRUE
          /\ GoTo("openStore")
       \/ Throw /\ UNCHANGED <<registered, keystore>>
    /\ UNCHANGED <<loaded, started, storeOpen, profileVars>>
    /\ UNCHANGED <<requested, retryStop, sdk, store, logCallback, diskVars>>

\* OpenStore up to the submission; its reply may be unreadable.
OpenStore ==
    /\ pc = "openStore"
    /\ \/ profile = None /\ GoTo("init") /\ UNCHANGED <<storeOpen, store>>
       \/ profile # None /\ Throw /\ UNCHANGED <<storeOpen, store>>
       \/ /\ profile # None /\ store = "closed"
          /\ storeOpen' = TRUE /\ store' = "opening"
          /\ GoTo("awaitStore") \/ Throw
    /\ UNCHANGED <<loaded, started, registered, profileVars>>
    /\ UNCHANGED <<requested, retryStop, sdk, keystore, logCallback, diskVars>>

\* Mutant: the submission is taken for the completion.
AwaitStore_Submitted ==
    /\ pc = "awaitStore"
    /\ (store # "failed" /\ GoTo("init")) \/ Throw
    /\ OnlyControl

\* Mutant: the polling loop has no deadline.
AwaitStore_NoDeadline ==
    /\ pc = "awaitStore" /\ store # "opening"
    /\ (store = "open" /\ GoTo("init")) \/ Throw
    /\ OnlyControl

\* The polling loop: done when the store is open, failed, or after 30 seconds.
AwaitStore ==
    /\ pc = "awaitStore"
    /\ (store = "open" /\ GoTo("init")) \/ Throw
    /\ OnlyControl

\* ISovKit::Init: a failed one may leave services to be stopped.
InitSdk ==
    /\ pc = "init"
    /\ \/ started' = TRUE /\ sdk' = "running" /\ GoTo("identity")
       \/ started' = started /\ sdk' \in {sdk, "pending"} /\ Throw
    /\ UNCHANGED <<loaded, registered, storeOpen, profileVars>>
    /\ UNCHANGED <<requested, retryStop, keystore, store, logCallback, diskVars>>

\* IdentityOpen, IdentityCreate when there is none; start() returns.
Identity ==
    /\ pc = "identity"
    /\ (pc' = "idle" /\ caller' = "none") \/ Throw
    /\ OnlyControl

---------------------------------------------------------------------------
(* Sdk::stop *)

StopCall ==
    /\ pc = "idle" /\ loaded
    /\ pc' = "shutdown" /\ caller' = "user"
    /\ OnlyControl

ShutdownDone ==
    /\ pc = "shutdown"
    /\ sdk' = "stopped" /\ started' = FALSE
    /\ GoTo("storeClose")
    /\ UNCHANGED <<loaded, registered, storeOpen, profileVars>>
    /\ UNCHANGED <<requested, retryStop, keystore, store, logCallback, diskVars>>

\* Services that do not end in time leave the SDK stop-pending.
ShutdownFails ==
    /\ pc = "shutdown" /\ sdk # "stopped"
    /\ sdk' = "pending"
    /\ StopReturns(FALSE)
    /\ UNCHANGED <<requested, flagVars, profileVars, keystore, store, logCallback, diskVars>>

\* The SDK refuses to close the store while its services run.
StoreCloseDone ==
    /\ pc = "storeClose" /\ sdk = "stopped"
    /\ store' = "closed" /\ storeOpen' = FALSE
    /\ IF registered THEN GoTo("detach") ELSE GoTo("unlock")
    /\ UNCHANGED <<loaded, started, registered, profileVars>>
    /\ UNCHANGED <<requested, retryStop, sdk, keystore, logCallback, diskVars>>

StoreCloseFails ==
    /\ pc = "storeClose" /\ store # "closed"
    /\ StopReturns(FALSE)
    /\ UNCHANGED <<requested, flagVars, profileVars, sdkVars, diskVars>>

\* Four null callbacks: refused unless the SDK is stopped and its store is closed.
DetachDone ==
    /\ pc = "detach" /\ sdk = "stopped" /\ store = "closed"
    /\ registered' = FALSE /\ keystore' = FALSE
    /\ GoTo("unlock")
    /\ UNCHANGED <<loaded, started, storeOpen, profileVars>>
    /\ UNCHANGED <<requested, retryStop, sdk, store, logCallback, diskVars>>

\* Mutant: the result of the detach is not looked at.
DetachFails_Ignored ==
    /\ pc = "detach"
    /\ GoTo("unlock")
    /\ OnlyControl

DetachFails ==
    /\ pc = "detach"
    /\ StopReturns(FALSE)
    /\ UNCHANGED <<requested, flagVars, profileVars, sdkVars, diskVars>>

ReleaseLock == flocks' = IF lock # None THEN [flocks EXCEPT ![lock] = "free"] ELSE flocks

\* Mutants: the path, the records, or the open descriptor of the last session is kept.
UnlockProfile_KeepsPath ==
    ReleaseLock /\ lock' = None /\ records' = {} /\ key' = None /\ profile' = profile
UnlockProfile_KeepsRecords ==
    ReleaseLock /\ lock' = None /\ records' = records /\ key' = None /\ profile' = None
UnlockProfile_KeepsDescriptor ==
    flocks' = flocks /\ lock' = None /\ records' = {} /\ key' = None /\ profile' = None

\* Release the lock, then wipe the records, the key and the path.
UnlockProfile ==
    ReleaseLock /\ lock' = None /\ records' = {} /\ key' = None /\ profile' = None

Unlock ==
    /\ pc = "unlock"
    /\ UnlockProfile
    /\ StopReturns(TRUE)
    /\ UNCHANGED <<flagVars, requested, sdkVars, vault, stored>>

---------------------------------------------------------------------------
(* Sdk::~Sdk *)

\* Called when no request runs; an object that never loaded has nothing to stop.
Quit ==
    /\ pc = "idle"
    /\ IF loaded THEN pc' = "shutdown" /\ caller' = "dtor"
                 ELSE pc' = "destroyed" /\ caller' = caller
    /\ OnlyControl

\* The last callback is withdrawn; withdrawing it waits for a running one.
Release ==
    /\ pc = "release"
    /\ logCallback' = FALSE /\ loaded' = FALSE
    /\ GoTo("destroyed")
    /\ UNCHANGED <<started, registered, storeOpen, profileVars>>
    /\ UNCHANGED <<requested, retryStop, sdk, keystore, store, diskVars>>

---------------------------------------------------------------------------
(* The SDK and the machine *)

\* A business call to a stopped SDK may load its services again.
ApiCall ==
    /\ pc = "idle" /\ loaded
    /\ sdk = "stopped" /\ sdk' = "running"
    /\ UNCHANGED <<flagVars, profileVars, callVars, keystore, store, logCallback, diskVars>>

StoreFinishes ==
    /\ store = "opening" /\ store' \in {"open", "failed"}
    /\ UNCHANGED <<flagVars, profileVars, callVars, sdk, keystore, logCallback, diskVars>>

\* Calls during which the SDK runs the write and remove callbacks on this thread.
CallbackSteps == {"init", "identity", "idle", "shutdown"}

\* Sdk::write and Sdk::remove with persist(): the file and the memory follow,
\* or, when the file was replaced but its directory not synced, the file alone.
KeystoreChange ==
    /\ keystore /\ pc \in CallbackSteps
    /\ \E after \in {records \cup {requested}} \cup {records \ {o} : o \in records} :
          /\ stored' = IF profile = None THEN stored
                                         ELSE [stored EXCEPT ![profile] = after]
          /\ records' = after \/ (profile # None /\ records' = records)
    /\ UNCHANGED <<flagVars, profile, lock, key>>
    /\ UNCHANGED <<callVars, sdkVars, vault, flocks>>

\* Another DevTools process opens a free profile, perhaps creates its vault, and leaves.
OtherOpens(p) ==
    /\ flocks[p] = "free"
    /\ flocks' = [flocks EXCEPT ![p] = "other"]
    /\ UNCHANGED <<flagVars, profileVars, callVars, sdkVars, vault, stored>>

OtherCloses(p) ==
    /\ flocks[p] = "other"
    /\ flocks' = [flocks EXCEPT ![p] = "free"]
    /\ \/ UNCHANGED <<vault, stored>>
       \/ /\ vault[p] # "envelope"
          /\ vault' = [vault EXCEPT ![p] = "complete"]
          /\ stored' = [stored EXCEPT ![p] = @ \cup {p}]
    /\ UNCHANGED <<flagVars, profileVars, callVars, sdkVars>>

\* The process ends, killed or after the destructor, and the tool is started again.
Restart ==
    /\ loaded' = FALSE /\ started' = FALSE /\ registered' = FALSE /\ storeOpen' = FALSE
    /\ profile' = None /\ lock' = None /\ key' = None /\ records' = {}
    /\ pc' = "idle" /\ caller' = "none" /\ requested' = None /\ retryStop' = FALSE
    /\ sdk' = "stopped" /\ keystore' = FALSE /\ store' = "closed" /\ logCallback' = FALSE
    /\ flocks' = [p \in Profiles |-> IF flocks[p] = "self" THEN "free" ELSE flocks[p]]
    /\ UNCHANGED <<vault, stored>>

---------------------------------------------------------------------------

Start ==
    \/ \E p \in Owners : StartCall(p)
    \/ LockDirectory \/ TakeLock \/ LockRefused
    \/ PrepareMemoryOnly \/ UnlockVault \/ CreateVault
    \/ Register \/ OpenStore \/ AwaitStore \/ InitSdk \/ Identity

Stop ==
    \/ StopCall
    \/ ShutdownDone \/ ShutdownFails
    \/ StoreCloseDone \/ StoreCloseFails
    \/ DetachDone \/ DetachFails
    \/ Unlock

Environment ==
    \/ ApiCall \/ StoreFinishes \/ KeystoreChange
    \/ \E p \in Profiles : OtherOpens(p) \/ OtherCloses(p)
    \/ Restart

Next == Load \/ Start \/ Stop \/ Quit \/ Release \/ Environment

Spec == Init /\ [][Next]_vars

\* The thread goes on with a call it began: start and stop wait for nobody but
\* the SDK, whose calls return.
CallProgress == pc \notin {"idle", "destroyed"} /\ (Start \/ Stop \/ Release)

\* An SDK asked to stop again and again stops in the end.
Fairness ==
    /\ WF_vars(CallProgress)
    /\ SF_vars(ShutdownDone) /\ SF_vars(StoreCloseDone) /\ SF_vars(DetachDone)

FairSpec == Spec /\ Fairness

---------------------------------------------------------------------------
(* The promise this object keeps: CallbackLoan *)

Lent ==
    (IF logCallback THEN {"log"} ELSE {})
    \cup (IF keystore THEN {"keystore"} ELSE {})
    \cup (IF store # "closed" THEN {"store"} ELSE {})

MaybeProfile == Profiles \cup {None}

Loan == INSTANCE CallbackLoan WITH
            Secrets <- MaybeProfile \X MaybeProfile \X MaybeProfile,
            Nothing <- <<None, None, None>>,
            held    <- <<profile, lock, key>>,
            lent    <- Lent,
            alive   <- pc # "destroyed"

\* The session implements the loan: every call sequence, with every failure,
\* lends and recalls in the order the SDK requires and never changes or drops
\* the secrets of a lent keystore (sdk.cpp, lifecycle.cpp, profile.cpp).
LoanKept == Loan!Spec

---------------------------------------------------------------------------
(* What its callers rely on: SessionCalls *)

\* What is known of the session between two calls.
BetweenCalls ==
    IF ~loaded THEN "unloaded"
    ELSE IF started /\ sdk = "running" THEN "started"
    ELSE IF retryStop THEN "unclean" ELSE "stopped"

\* The session as its callers know it.
Summary ==
    CASE pc = "destroyed" -> "released"
      [] pc = "idle"      -> BetweenCalls
      [] OTHER            -> [start |-> "starting", user |-> "stopping", dtor |-> "ending"][caller]

Calls == INSTANCE SessionCalls WITH session <- Summary

\* Whatever fails inside, a call ends in one of the ways its callers know, and
\* start, stop and the destructor always come back: also when the SDK never
\* finishes opening its store (lifecycle.cpp: start, OpenStore, stop; sdk.cpp).
CallsKept == Calls!Spec
CallsReturn == Calls!FairSpec

---------------------------------------------------------------------------
(* Properties *)

Attached == keystore \/ store # "closed"

\* The order the SDK requires of its host: Init only with the keystore
\* registered and, for a persistent profile, the store fully open; the store
\* closed only after Shutdown; the keystore detached only after both; the
\* profile wiped only when the SDK holds neither callbacks nor store
\* (lifecycle.cpp: start, stop).
CallOrder ==
    /\ pc \in {"init", "identity"} => keystore /\ (profile # None => store = "open")
    /\ pc \in {"storeClose", "detach", "unlock"} => sdk = "stopped"
    /\ pc \in {"detach", "unlock"} => store = "closed"
    /\ pc \in {"unlock", "release", "destroyed"} => ~Attached /\ sdk = "stopped"

\* While the SDK may call the keystore back, the host still has the vault key
\* of the profile the records are saved to: no record is encrypted with a
\* wiped or with another profile's key (profile.cpp: persist, unlock_profile).
KeyMatchesProfile == keystore => key = profile

\* A persistent session is exclusive: no other process can hold its profile
\* while the SDK uses it, and the session holds the lock it relies on.
LockedWhileAttached ==
    Attached /\ profile # None => lock = profile /\ flocks[profile] = "self"

\* The session is the one asked for: in particular a memory-only session
\* never works on a profile directory.
SessionAsRequested ==
    keystore => profile = (IF requested = MemoryOnly THEN None ELSE requested)

\* Profiles are isolated: no keystore file contains the identity of another
\* profile or of a memory-only session.
IsolatedProfiles == \A p \in Profiles : stored[p] \subseteq {p}

\* Every lock file this process holds is one it can release.
NoLockLeak == \A p \in Profiles : flocks[p] = "self" => lock = p
=============================================================================
