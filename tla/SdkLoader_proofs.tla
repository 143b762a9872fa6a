--------------------------- MODULE SdkLoader_proofs ---------------------------
(***************************************************************************)
(* Theorems about SdkLoader, for every set of binaries and any number of   *)
(* loads.                                                                  *)
(***************************************************************************)
EXTENDS SdkLoader, TLAPS

\* load has opened the module and may still give it back.
Opening(b) == step \in {"opened", "resolved"} /\ module = b

\* What SdkLibrary and Sdk agree on at each point of load.
MembersAgree ==
    /\ step \in {"idle", "destroyed"} => module = handle
    /\ step \in {"opened", "resolved"} => handle = None /\ module # None /\ ~retained
    /\ step = "obtained" => handle = module /\ module # None
    /\ handle # None => retained /\ handle \in given
    /\ step # "idle" => listening = {}
    /\ listening \subseteq {handle}

\* A mapping stands for a handle that was given, or for the load under way,
\* which opens the file once more when its handle was given before.
MappingsCounted ==
    /\ \A b \in given : refs[b] > IF Opening(b) THEN 1 ELSE 0
    /\ \A b \in Binaries \ given : refs[b] = IF Opening(b) THEN 1 ELSE 0
    /\ \A b \in Binaries : refs[b] <= loads

LoaderInv == TypeOK /\ MembersAgree /\ MappingsCounted

---------------------------------------------------------------------------

\* Every step of load, also one that fails, and the destructor keep the
\* mappings in step with the handles that were given (sdk.cpp: load, ~Sdk;
\* library.cpp: Open, Close, Retain).
LEMMA LoaderInvStep == LoaderInv /\ [Next]_vars => LoaderInv'
<1> SUFFICES ASSUME LoaderInv, [Next]_vars
             PROVE  LoaderInv'
    OBVIOUS
<1> USE LoaderAssumption DEF LoaderInv, TypeOK, MembersAgree, MappingsCounted, Opening
<1>1. CASE OpenFails
  <2> USE <1>1 DEF OpenFails, MayLoad
  <2>1. /\ retained' \in BOOLEAN
        /\ loads' \in 0..MaxLoads
    <3>1. retained' \in BOOLEAN
          BY ZenonT(20)
    <3>2. loads' \in 0..MaxLoads
          OBVIOUS
    <3> QED
          BY <3>1, <3>2
  <2>2. refs' \in [Binaries -> 0..MaxLoads]
        OBVIOUS
  <2>3. TypeOK'
        BY <2>1, <2>2
  <2>4. MembersAgree' /\ MappingsCounted'
        OBVIOUS
  <2> QED
        BY <2>3, <2>4
<1>2. ASSUME NEW b \in Binaries, Open(b)
      PROVE  LoaderInv'
  <2> USE <1>2 DEF Open, MayLoad
  <2>1. refs[b] + 1 \in 0..MaxLoads
        OBVIOUS
  <2>2. TypeOK'
    <3>1. refs' \in [Binaries -> 0..MaxLoads]
          BY <2>1
    <3>2. loads' \in 0..MaxLoads
          OBVIOUS
    <3> QED
          BY <3>1, <3>2
  <2>3. MembersAgree'
        OBVIOUS
  <2>4. MappingsCounted'
        OBVIOUS
  <2> QED
        BY <2>2, <2>3, <2>4
<1>3. CASE Resolve
      BY <1>3 DEF Resolve
<1>4. CASE ResolveFails
      BY <1>4 DEF ResolveFails, Close
<1>5. CASE Obtain
      BY <1>5 DEF Obtain
<1>6. CASE ObtainFails
      BY <1>6 DEF ObtainFails, Close
<1>7. CASE Listen
      BY <1>7 DEF Listen
<1>8. CASE ListenFails
      BY <1>8 DEF ListenFails, Close
<1>9. CASE Destroy
      BY <1>9 DEF Destroy, Close, Unlisten
<1>10. CASE UNCHANGED vars
      BY <1>10 DEF vars
<1> QED
      BY <1>1, <1>2, <1>3, <1>4, <1>5, <1>6, <1>7, <1>8, <1>9, <1>10 DEF Next

\* What SdkLibrary and Sdk agree on, and what the mappings stand for, holds
\* through every sequence of loads (sdk.cpp: load, ~Sdk; library.cpp).
THEOREM LoaderInvariant == Spec => []LoaderInv
<1>1. ASSUME Init
      PROVE  LoaderInv
  <2> USE <1>1, LoaderAssumption DEF Init
  <2>1. refs \in [Binaries -> 0..MaxLoads] /\ loads \in 0..MaxLoads
        OBVIOUS
  <2>2. TypeOK
        BY <2>1 DEF TypeOK
  <2>3. MembersAgree /\ MappingsCounted
        BY DEF MembersAgree, MappingsCounted, Opening
  <2> QED
        BY <2>2, <2>3 DEF LoaderInv
<1>2. QED
      BY <1>1, LoaderInvStep, PTL DEF Spec

\* The members stay consistent, a handle never without its module
\* (sdk.cpp: load; library.cpp: Open, Close).
THEOREM TypeCorrect == Spec => []TypeOK
<1>1. LoaderInv => TypeOK
      BY DEF LoaderInv
<1>2. QED
      BY <1>1, LoaderInvariant, PTL

\* The code behind a handle that was given out stays mapped, whatever is
\* loaded, refused or closed afterwards (library.cpp: Close, Retain).
THEOREM HandleStaysMapped == Spec => []HandleCodeMapped
<1>1. LoaderInv => HandleCodeMapped
      BY DEF LoaderInv, TypeOK, MappingsCounted, HandleCodeMapped
<1>2. QED
      BY <1>1, LoaderInvariant, PTL

\* A file that gave no handle leaves nothing mapped once load has returned
\* (library.cpp: Open, Close; sdk.cpp: load).
THEOREM RefusedIsUnloaded == Spec => []RefusedUnloaded
<1>1. LoaderInv => RefusedUnloaded
      BY DEF LoaderInv, TypeOK, MappingsCounted, Opening, RefusedUnloaded
<1>2. QED
      BY <1>1, LoaderInvariant, PTL

\* No SDK logs into an Sdk that has not loaded it or is destroyed
\* (sdk.cpp: load, ~Sdk).
THEOREM ListensOnlyToLoaded == Spec => []ListensToLoaded
<1>1. LoaderInv => ListensToLoaded
      BY DEF LoaderInv, MembersAgree, ListensToLoaded
<1>2. QED
      BY <1>1, LoaderInvariant, PTL
=============================================================================
