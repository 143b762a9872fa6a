------------------------------ MODULE SdkLoader ------------------------------
(***************************************************************************)
(* Loading an SDK binary: SdkLibrary (src/sdk/library.cpp) and Sdk::load    *)
(* (src/sdk.cpp), step by step.  Every step may fail; the user may then     *)
(* choose another file, or the same one again.                              *)
(***************************************************************************)
EXTENDS Naturals, FiniteSets

CONSTANTS
    Binaries,    \* SDK files the user may choose
    None,
    MaxLoads     \* bound of the model: calls of load

ASSUME LoaderAssumption == None \notin Binaries /\ MaxLoads \in Nat

VARIABLES
    \* SdkLibrary
    module,      \* module_
    retained,    \* retained_
    \* Sdk
    handle,      \* handle_, named by its binary
    step,        \* how far load has come
    \* the process
    refs,        \* dlopen count of each binary
    listening,   \* binaries whose log callback points to this Sdk
    \* history, not in the code
    given,       \* binaries that handed out their process-wide handle
    loads

vars == <<module, retained, handle, step, refs, listening, given, loads>>

TypeOK ==
    /\ module \in Binaries \cup {None}
    /\ retained \in BOOLEAN
    /\ handle \in Binaries \cup {None}
    /\ step \in {"idle", "opened", "resolved", "obtained", "destroyed"}
    /\ refs \in [Binaries -> 0..MaxLoads]
    /\ listening \subseteq Binaries /\ given \subseteq Binaries
    /\ loads \in 0..MaxLoads
    /\ handle # None => module = handle      \* a handle comes with its module

Init ==
    /\ module = None /\ retained = FALSE
    /\ handle = None /\ step = "idle"
    /\ refs = [b \in Binaries |-> 0]
    /\ listening = {} /\ given = {} /\ loads = 0

\* load is refused while a handle is there, Open while a module is.
MayLoad == step = "idle" /\ handle = None /\ module = None /\ loads < MaxLoads

\* Mutant: Close unloads the module whether a handle was obtained or not.
Close_Always ==
    /\ refs' = IF module # None THEN [refs EXCEPT ![module] = @ - 1] ELSE refs
    /\ module' = None

\* The module is unloaded unless it is retained, and forgotten either way.
Close ==
    /\ refs' = IF module # None /\ ~retained THEN [refs EXCEPT ![module] = @ - 1] ELSE refs
    /\ module' = None

\* The file is missing or not a library.
OpenFails ==
    /\ MayLoad
    /\ retained' \in {retained, FALSE}
    /\ loads' = loads + 1
    /\ UNCHANGED <<module, handle, step, refs, listening, given>>

Open(b) ==
    /\ MayLoad
    /\ retained' = FALSE
    /\ module' = b /\ refs' = [refs EXCEPT ![b] = @ + 1]
    /\ step' = "opened"
    /\ loads' = loads + 1
    /\ UNCHANGED <<handle, listening, given>>

\* ABI version and exports.
Resolve ==
    /\ step = "opened"
    /\ step' = "resolved"
    /\ UNCHANGED <<module, retained, handle, refs, listening, given, loads>>

\* Mutant: the exception leaves the module open.
ResolveFails_KeepsModule ==
    /\ step = "opened"
    /\ step' = "idle" /\ module' = None
    /\ UNCHANGED <<retained, handle, refs, listening, given, loads>>

ResolveFails ==
    /\ step = "opened"
    /\ Close /\ step' = "idle"
    /\ UNCHANGED <<retained, handle, listening, given, loads>>

\* sovkit_init_cpp, then Retain.
Obtain ==
    /\ step = "resolved"
    /\ handle' = module /\ given' = given \cup {module}
    /\ retained' = TRUE
    /\ step' = "obtained"
    /\ UNCHANGED <<module, refs, listening, loads>>

ObtainFails ==
    /\ step = "resolved"
    /\ handle' = None /\ Close /\ step' = "idle"
    /\ UNCHANGED <<retained, listening, given, loads>>

Listen ==
    /\ step = "obtained"
    /\ listening' = listening \cup {handle}
    /\ step' = "idle"
    /\ UNCHANGED <<module, retained, handle, refs, given, loads>>

\* Mutant: the exception forgets the module and keeps the handle.
ListenFails_KeepsHandle ==
    /\ step = "obtained"
    /\ Close /\ step' = "idle"
    /\ UNCHANGED <<retained, handle, listening, given, loads>>

ListenFails ==
    /\ step = "obtained"
    /\ handle' = None /\ Close /\ step' = "idle"
    /\ UNCHANGED <<retained, listening, given, loads>>

\* Mutant: the log callback is not taken back.
Unlisten_No == listening

\* RegisterLogCallback(nullptr) through the handle.
Unlisten == listening \ {handle}

\* ~Sdk once stop has succeeded, and ~SdkLibrary.
Destroy ==
    /\ step = "idle"
    /\ listening' = IF handle # None THEN Unlisten ELSE listening
    /\ handle' = None
    /\ Close /\ step' = "destroyed"
    /\ UNCHANGED <<retained, given, loads>>

Next ==
    \/ OpenFails \/ \E b \in Binaries : Open(b)
    \/ Resolve \/ ResolveFails
    \/ Obtain \/ ObtainFails
    \/ Listen \/ ListenFails
    \/ Destroy

Spec == Init /\ [][Next]_vars

---------------------------------------------------------------------------
(* Properties *)

\* A binary that handed out its process-wide handle stays mapped for good,
\* whatever is loaded, refused or closed afterwards (library.cpp: Close, Open;
\* sdk.cpp: load).
HandleCodeMapped == \A b \in given : refs[b] > 0

\* A binary that failed before it gave a handle is unloaded again: outside
\* load nothing is mapped but what gave a handle (library.cpp: Open, Close).
RefusedUnloaded == step \in {"idle", "destroyed"} => \A b \in Binaries : refs[b] > 0 => b \in given

\* No SDK logs into a destroyed Sdk, nor one that is not loaded.
ListensToLoaded == listening \subseteq {handle}

\* To switch SDK binaries the tool must be restarted: one process never gets
\* the handles of two (sdk.cpp: load; library.cpp: Open).
OneBinary == Cardinality(given) <= 1
=============================================================================
