------------------------- MODULE SoemShimLegacyProofs -------------------------
(***************************************************************************)
(* Proofs about SoemShimLegacy for every set of slaves, every mapping,     *)
(* every bus order and every fault bound: type correctness.               *)
(***************************************************************************)
EXTENDS SoemShimLegacy, EtherCATBusProofs, FiniteSetTheorems, TLAPS

USE BusAssumption, LegacyAssumption
USE DEF NONE, INIT, PREOP, SAFEOP, OP, ERRBIT, EC_NOFRAME

\* Every set of slaves has a natural number of elements.
LEMMA SubsetCard ==
    ASSUME NEW g \in SUBSET Slaves
    PROVE  Cardinality(g) \in Nat
BY FS_Subset, FS_CardinalityType

\* The working counter of a frame over a group of slaves is a number.
LEMMA WkcInt ==
    ASSUME NEW g \in SUBSET Slaves
    PROVE  Wkc(g) \in Int
<1>1. /\ Cardinality({s \in g : online[s] /\ SlaveObytes[s] > 0
                                /\ al[s] = OP}) \in Nat
      /\ Cardinality({s \in g : online[s] /\ SlaveIbytes[s] > 0
                                /\ al[s] \in {SAFEOP, OP}}) \in Nat
  BY SubsetCard
<1>2. QED
  BY <1>1 DEF Wkc

-----------------------------------------------------------------------------
(* Type correctness.                                                       *)

LEMMA InitTyped == Init => TypeOK
<1> SUFFICES ASSUME Init PROVE TypeOK
  OBVIOUS
<1>1. BusTypeOK
  BY DEF Init, BusInit, BusTypeOK, NoReq, AlStates, AlRequests
<1>2. busOk \in BOOLEAN /\ session \in BOOLEAN
  BY Zenon DEF Init
<1>3. QED
  BY <1>1, <1>2 DEF Init, TypeOK, OutRecords, Ops

LEMMA InitConfigureTyped ==
    ASSUME TypeOK, InitConfigure PROVE TypeOK'
<1> DEFINE F == {x \in Slaves : online[x]}
           Q == [st |-> SAFEOP, ack |-> FALSE]
<1>1. /\ al' \in {al, [s \in Slaves |-> IF online[s] THEN PREOP ELSE al[s]]}
      /\ err' \in {err, [s \in Slaves |-> err[s] /\ ~online[s]]}
      /\ alctl' \in {alctl, [s \in Slaves |-> IF s \in F THEN Q
                                              ELSE alctl[s]]}
      /\ outImg' \in {outImg, [s \in Slaves |-> "Zero"]}
      /\ found' \in {found, F}
      /\ pc' \in {"idle", "init_op"}
      /\ ret' \in {ret, Ret("initialize", 0)}
      /\ UNCHANGED <<online, faults, session, busOk, covered>>
  BY Zenon DEF InitConfigure, busVars
<1>2. Q \in AlRequests /\ PREOP \in AlStates
  BY DEF AlRequests, AlStates
<1>3. err' \in [Slaves -> BOOLEAN] /\ session' \in BOOLEAN
      /\ busOk' \in BOOLEAN
  BY <1>1, Zenon DEF TypeOK, BusTypeOK
<1>4. al' \in [Slaves -> AlStates]
  <2>1. al' = al \/ al' = [s \in Slaves |-> IF online[s] THEN PREOP ELSE al[s]]
    BY <1>1, Zenon
  <2>2. QED
    BY <2>1, <1>2 DEF TypeOK, BusTypeOK
<1>8. alctl' \in [Slaves -> AlRequests \cup {NoReq}]
  <2>1. alctl' = alctl \/ alctl' = [s \in Slaves |-> IF s \in F THEN Q
                                                   ELSE alctl[s]]
    BY <1>1, Zenon
  <2>2. QED
    BY <2>1, <1>2 DEF TypeOK, BusTypeOK
<1>9. online' \in [Slaves -> BOOLEAN] /\ faults' \in 0..MaxFaults
  BY <1>1 DEF TypeOK, BusTypeOK
<1>5. /\ outImg' \in [Slaves -> OutRecords]
      /\ found' \subseteq Slaves
      /\ covered' \subseteq Slaves
  BY <1>1 DEF TypeOK, OutRecords
<1>6. pc' \in {"idle", "init_op"} /\ ret' \in [op : Ops, rc : Int]
  BY <1>1 DEF TypeOK, Ret, Ops
<1>7. QED
  BY <1>3, <1>4, <1>5, <1>6, <1>8, <1>9 DEF TypeOK, BusTypeOK

LEMMA InitRequestOpTyped ==
    ASSUME TypeOK, InitRequestOp PROVE TypeOK'
<1>1. /\ alctl' = BroadcastAlControl(OP)
      /\ pc' = "idle" /\ session' = TRUE /\ ret' = Ret("initialize", 1)
      /\ UNCHANGED <<al, err, online, faults, found, outImg, busOk,
                     covered>>
  BY Zenon DEF InitRequestOp
<1>2. BroadcastAlControl(OP) \in [Slaves -> AlRequests \cup {NoReq}]
  <2>1. OP \in AlStates
    BY DEF AlStates
  <2>2. QED
    BY <2>1, BroadcastTyped DEF TypeOK
<1>3. err' \in [Slaves -> BOOLEAN] /\ session' \in BOOLEAN
      /\ busOk' \in BOOLEAN
  BY <1>1, Zenon DEF TypeOK, BusTypeOK
<1>4. QED
  BY <1>1, <1>2, <1>3 DEF TypeOK, BusTypeOK, Ret, Ops

LEMMA ShutdownTyped ==
    ASSUME TypeOK, Shutdown PROVE TypeOK'
<1>1. /\ alctl' = BroadcastAlControl(INIT)
      /\ session' = FALSE /\ found' = {} /\ ret' = Ret("shutdown", 0)
      /\ UNCHANGED <<al, err, online, faults, pc, outImg, busOk, covered>>
  BY Zenon DEF Shutdown
<1>2. BroadcastAlControl(INIT) \in [Slaves -> AlRequests \cup {NoReq}]
  <2>1. INIT \in AlStates
    BY DEF AlStates
  <2>2. QED
    BY <2>1, BroadcastTyped DEF TypeOK
<1>3. err' \in [Slaves -> BOOLEAN] /\ session' \in BOOLEAN
      /\ busOk' \in BOOLEAN
  BY <1>1, Zenon DEF TypeOK, BusTypeOK
<1>4. QED
  BY <1>1, <1>2, <1>3 DEF TypeOK, BusTypeOK, Ret, Ops

\* A call that only sets ret to a number keeps the type.
LEMMA ReturnOnlyTyped ==
    ASSUME TypeOK, NEW op \in Ops, NEW rc \in Int, ret' = Ret(op, rc),
           UNCHANGED <<busVars, pc, session, found, outImg, busOk, covered>>
    PROVE  TypeOK'
<1>1. err' \in [Slaves -> BOOLEAN] /\ session' \in BOOLEAN
      /\ busOk' \in BOOLEAN
  BY Zenon DEF TypeOK, BusTypeOK, busVars
<1>2. QED
  BY <1>1 DEF TypeOK, BusTypeOK, busVars, Ret

LEMMA GetterTyped ==
    ASSUME TypeOK,
           \/ GetSlaveCount
           \/ \E ok \in BOOLEAN : GetProcessSizes(ok)
           \/ \E max \in 0..Cardinality(Slaves) + 1 : ScanSlaves(max)
    PROVE  TypeOK'
<1>1. Cardinality(found) \in Nat
  BY SubsetCard DEF TypeOK
<1>2. CASE GetSlaveCount
  BY <1>1, <1>2, ReturnOnlyTyped DEF GetSlaveCount, Ops
<1>3. CASE \E ok \in BOOLEAN : GetProcessSizes(ok)
  BY <1>3, ReturnOnlyTyped DEF GetProcessSizes, Ops
<1>4. CASE \E max \in 0..Cardinality(Slaves) + 1 : ScanSlaves(max)
  <2>1. PICK max \in 0..Cardinality(Slaves) + 1 : ScanSlaves(max)
    BY <1>4
  <2>2. (IF max <= 0 THEN 0
         ELSE IF Cardinality(found) > max THEN max
         ELSE Cardinality(found)) \in Int
    BY <1>1
  <2>3. QED
    BY <2>1, <2>2, ReturnOnlyTyped DEF ScanSlaves, Ops
<1>5. QED
  BY <1>2, <1>3, <1>4

\* One exchange keeps the type, whatever its caller buffer reaches.
LEMMA ExchangeProcessDataTyped ==
    ASSUME TypeOK, NEW reach \in SUBSET Slaves,
           NEW img \in [Slaves -> OutRecords],
           ExchangeProcessData(reach, img), UNCHANGED <<pc, session, found>>
    PROVE  TypeOK'
<1>1. /\ outImg' = [s \in Slaves |-> IF s \in reach THEN img[s]
                                     ELSE outImg[s]]
      /\ covered' \in {found, reach}
      /\ UNCHANGED <<al, err, online, alctl>>
  BY Zenon DEF ExchangeProcessData
<1>2. \/ /\ faults < MaxFaults /\ faults' = faults + 1
         /\ ret' = Ret("exchange", EC_NOFRAME) /\ busOk' = busOk
      \/ /\ faults' = faults /\ ret' = Ret("exchange", Wkc(found))
         /\ busOk' = AllExchanging
  BY Zenon DEF ExchangeProcessData
<1>3. Wkc(found) \in Int
  BY WkcInt DEF TypeOK
<1>4. busOk' \in BOOLEAN /\ err' \in [Slaves -> BOOLEAN]
  BY <1>1, <1>2, Zenon DEF TypeOK, BusTypeOK, AllExchanging
<1>5. faults' \in 0..MaxFaults /\ ret' \in [op : Ops, rc : Int]
  BY <1>2, <1>3 DEF TypeOK, BusTypeOK, Ret, Ops
<1>6. /\ outImg' \in [Slaves -> OutRecords]
      /\ covered' \subseteq Slaves
  BY <1>1 DEF TypeOK
<1>7. QED
  <2>1. pc' = pc /\ session' = session /\ found' = found
    OBVIOUS
  <2>2. QED
    BY <1>1, <1>4, <1>5, <1>6, <2>1 DEF TypeOK, BusTypeOK

LEMMA ExchangeTyped ==
    ASSUME TypeOK, Exchange PROVE TypeOK'
<1>1. UNCHANGED <<pc, session, found>>
  BY Zenon DEF Exchange
<1>2. CASE ExchangeProcessData({}, outImg)
  BY <1>1, <1>2, ExchangeProcessDataTyped DEF TypeOK
<1>3. CASE \E p \in {Position[s] : s \in OutSlaves},
             img \in [Slaves -> CallerRecords \cup {"Zero"}] :
             ExchangeProcessData(Prefix(p), img)
  <2>1. PICK p \in {Position[s] : s \in OutSlaves},
             img \in [Slaves -> CallerRecords \cup {"Zero"}] :
             ExchangeProcessData(Prefix(p), img)
    BY <1>3
  <2>2. Prefix(p) \in SUBSET Slaves /\ img \in [Slaves -> OutRecords]
    BY DEF Prefix, OutSlaves, TypeOK, OutRecords
  <2>3. TypeOK'
    BY <1>1, <2>1, <2>2, ExchangeProcessDataTyped
  <2>4. QED
    BY <2>3
<1>4. QED
  BY <1>2, <1>3 DEF Exchange

LEMMA BusTyped ==
    ASSUME TypeOK, BusNext, UNCHANGED legacyVars PROVE TypeOK'
<1>1. BusTypeOK'
  BY BusStepTyped DEF TypeOK
<1>2. QED
  BY <1>1, Zenon DEF TypeOK, legacyVars

LEMMA TypedStep == TypeOK /\ [Next]_vars => TypeOK'
<1> SUFFICES ASSUME TypeOK, [Next]_vars PROVE TypeOK'
  OBVIOUS
<1>1. CASE UNCHANGED vars
  BY <1>1, Zenon DEF vars, busVars, legacyVars, TypeOK, BusTypeOK
<1>2. QED
  BY <1>1, InitConfigureTyped, InitRequestOpTyped, ShutdownTyped,
     ExchangeTyped, GetterTyped, BusTyped DEF Next

\* Type correctness of the legacy shim: the bus, the handle, the output
\* image and the last result keep the types of TypeOK in every reachable
\* state.
THEOREM LegacyTypeCorrect == Spec => []TypeOK
BY InitTyped, TypedStep, PTL DEF Spec

=============================================================================
