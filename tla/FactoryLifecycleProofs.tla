----------------------- MODULE FactoryLifecycleProofs -----------------------
(***************************************************************************)
(* Proofs about FactoryLifecycle for every bound on the handles: the two   *)
(* reference counts always equal their holders, and neither the ADM nor    *)
(* the C++ factory is dropped while something still uses it.               *)
(***************************************************************************)
EXTENDS FactoryLifecycle, TLAPS

TypeOK ==
    /\ made \in {"no", "err", "ok"}
    /\ admState \in {"none", "live", "dropped"}
    /\ pcfState \in {"none", "live", "destroyed"}
    /\ admRc \in Nat /\ pcfRc \in Nat
    /\ facs \in Nat /\ objs \in Nat /\ sources \in Nat
    /\ cxxAdm \in BOOLEAN /\ hasAdm \in BOOLEAN
    /\ last \in {"none", "ok", "err"}

(* An object is live exactly while its count is positive: the last Release *)
(* drops it and nothing is revived.                                        *)
LiveIffCounted ==
    /\ admState = "live" <=> admRc > 0
    /\ pcfState = "live" <=> pcfRc > 0

(* Before PeerConnectionFactory::new nobody holds anything.                *)
NothingBeforeNew ==
    made = "no" => facs = 0 /\ objs = 0 /\ ~cxxAdm /\ ~hasAdm

(* Each count equals the number of its holders: the ADM's Arc is held by  *)
(* every factory value whose `adm` is Some and by C++ until free_adm_cb;   *)
(* the C++ factory's handle by every factory value, track and peer         *)
(* connection.  Drops never miss nor double a reference.                   *)
RefCountsMatchHolders ==
    /\ admRc = (IF hasAdm THEN facs ELSE 0) + (IF cxxAdm THEN 1 ELSE 0)
    /\ pcfRc = facs + objs

(* The inductive invariant.                                                *)
IInv == TypeOK /\ RefCountsMatchHolders /\ LiveIffCounted /\ NothingBeforeNew

LEMMA InitIInv == Init => IInv
<1> SUFFICES ASSUME Init PROVE IInv
    OBVIOUS
<1>1. TypeOK
    BY Zenon DEF Init, TypeOK
<1>2. RefCountsMatchHolders
    BY DEF Init, RefCountsMatchHolders
<1>3. LiveIffCounted
    BY DEF Init, LiveIffCounted
<1>4. NothingBeforeNew
    BY DEF Init, NothingBeforeNew
<1> QED BY <1>1, <1>2, <1>3, <1>4 DEF IInv

LEMMA NextIInv == IInv /\ [Next]_vars => IInv'
<1> SUFFICES ASSUME IInv, [Next]_vars PROVE IInv'
    OBVIOUS
<1> USE DEF IInv, TypeOK, RefCountsMatchHolders, LiveIffCounted, NothingBeforeNew
<1>1. ASSUME NEW ringrtc \in BOOLEAN, NEW files \in BOOLEAN, NEW admOk \in BOOLEAN,
             NEW regOk \in BOOLEAN, NEW cxxOk \in BOOLEAN,
             New(ringrtc, files, admOk, regOk, cxxOk)
      PROVE IInv'
    <2>1. facs = 0 /\ objs = 0 /\ ~cxxAdm /\ ~hasAdm /\ admRc = 0 /\ pcfRc = 0
        BY <1>1 DEF New
    <2>2. CASE RffiErr(ringrtc, files, admOk, regOk)
        BY <1>1, <2>1, <2>2 DEF New
    <2>3. CASE ~RffiErr(ringrtc, files, admOk, regOk)
        BY <1>1, <2>1, <2>3 DEF New, AdmCountShared, Release
    <2> QED BY <2>2, <2>3
<1>2. CASE CloneFactory
    BY <1>2 DEF CloneFactory, Handles
<1>3. CASE DropFactory
    BY <1>3 DEF DropFactory, Release, StateAfter, DropAdmRef
<1>4. ASSUME NEW needsSource \in BOOLEAN, CreateObject(needsSource)
      PROVE IInv'
    BY <1>4 DEF CreateObject, HoldFactory, Handles
<1>5. CASE CreateVideoSource
    BY <1>5 DEF CreateVideoSource, Handles
<1>6. CASE DropObject
    BY <1>6 DEF DropObject, Release, StateAfter
<1>7. CASE DropSource
    BY <1>7 DEF DropSource
<1>8. CASE CxxFreeAdm
    <2>1. cxxAdm /\ cxxAdm' = FALSE /\ made # "no" /\ UNCHANGED <<hasAdm, facs, made>>
        BY <1>8, Zenon DEF CxxFreeAdm
    <2>2. admRc > 0 /\ admRc' = admRc - 1
        BY <1>8 DEF CxxFreeAdm, Release
    <2>3. admState' = IF admRc' = 0 THEN "dropped" ELSE "live"
        BY <1>8 DEF CxxFreeAdm, StateAfter
    <2>4. UNCHANGED <<pcfState, pcfRc, objs, sources, last>>
        BY <1>8 DEF CxxFreeAdm
    <2>5. (IF cxxAdm THEN 1 ELSE 0) = 1 /\ (IF cxxAdm' THEN 1 ELSE 0) = 0
        BY <2>1
    <2>6. TypeOK'
        <3>1. admRc' \in Nat
            BY <2>2
        <3>2. admState' \in {"none", "live", "dropped"}
            BY <2>3
        <3>3. cxxAdm' \in BOOLEAN
            BY <2>1
        <3> QED BY <2>1, <2>4, <3>1, <3>2, <3>3
    <2>7. RefCountsMatchHolders'
        BY <2>1, <2>2, <2>4, <2>5
    <2>8. LiveIffCounted'
        BY <2>2, <2>3, <2>4
    <2>9. NothingBeforeNew'
        BY <2>1
    <2> QED BY <2>6, <2>7, <2>8, <2>9
<1>9. CASE UNCHANGED vars
    BY <1>9 DEF vars
<1> QED BY <1>1, <1>2, <1>3, <1>4, <1>5, <1>6, <1>7, <1>8, <1>9 DEF Next

(* The ADM's Arc count and the C++ factory's handle count always equal the *)
(* number of their holders: no clone, drop, constructor error path or      *)
(* free_adm_cb misses or doubles a reference (peer_connection_factory.rs   *)
(* lines 316-329, 409-448, 539-543).                                       *)
THEOREM RefCountsCorrect == Spec => []RefCountsMatchHolders
<1>1. IInv => RefCountsMatchHolders
    BY DEF IInv
<1> QED BY <1>1, InitIInv, NextIInv, PTL DEF Spec

(* The ADM is alive whenever C++ still holds the pointer into_raw gave it  *)
(* (peer_connection_factory.rs line 325), whatever the order of drops.      *)
THEOREM AdmAlive == Spec => []AdmAliveWhileUsed
<1>1. IInv => AdmAliveWhileUsed
    BY DEF IInv, TypeOK, RefCountsMatchHolders, LiveIffCounted, AdmAliveWhileUsed
<1> QED BY <1>1, InitIInv, NextIInv, PTL DEF Spec

(* The C++ factory outlives every Rust factory value, track and peer       *)
(* connection made from it (the Some(self.rffi.clone()) of the create_*    *)
(* constructors).                                                           *)
THEOREM FactoryOutlives == Spec => []FactoryOutlivesObjects
<1>1. IInv => FactoryOutlivesObjects
    BY DEF IInv, TypeOK, RefCountsMatchHolders, LiveIffCounted, FactoryOutlivesObjects
<1> QED BY <1>1, InitIInv, NextIInv, PTL DEF Spec
=============================================================================
