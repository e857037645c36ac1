---------------------------- MODULE SoemShimProofs ----------------------------
(***************************************************************************)
(* Proofs about SoemShim for every set of slaves, every PDO mapping and    *)
(* every fault bound: the type invariant, and the working-counter          *)
(* integrity of soem_exchange_process_data.                                *)
(***************************************************************************)
EXTENDS SoemShim, EtherCATBusProofs, FiniteSetTheorems, TLAPS

\* The assumptions on the constants hold throughout, and the numeric codes
\* are read as the numbers they stand for.
USE BusAssumption, ShimAssumption
USE DEF NONE, INIT, PREOP, SAFEOP, OP, ERRBIT, SOEM_ERR_WKC_LOW,
        SOEM_ERR_SEND_FAIL, SOEM_ERR_RECV_FAIL, EC_NOFRAME

\* Every set of slaves is finite and has a natural number of elements.
LEMMA SlaveSetCard ==
    ASSUME NEW g \in SUBSET Slaves
    PROVE  IsFiniteSet(g) /\ Cardinality(g) \in Nat
BY BusAssumption, FS_Subset, FS_CardinalityType

\* The working counter of a frame and the expected working counter of a
\* group of slaves are natural numbers.
LEMMA WkcNat ==
    ASSUME NEW g \in SUBSET Slaves
    PROVE  Wkc(g) \in Nat /\ ExpectedWkc(g) \in Nat
<1>1. ExpectedWkc(g) = FullWkc(g)
  BY DEF ExpectedWkc, FullWkc
<1>2. QED
  BY <1>1, WkcBounded

\* The counting argument behind the WKC check: a frame whose working counter
\* reaches the expected one over a group was written by every slave of the
\* group with outputs and read by every slave with inputs, since no slave
\* adds more than its own share.
LEMMA WkcReachesExpected ==
    ASSUME NEW g \in SUBSET Slaves,
           Wkc(g) >= ExpectedWkc(g)
    PROVE  \A s \in g :
              /\ SlaveObytes[s] > 0 => online[s] /\ al[s] = OP
              /\ SlaveIbytes[s] > 0 => online[s] /\ al[s] \in {SAFEOP, OP}
<1>1. Wkc(g) >= FullWkc(g)
  BY DEF ExpectedWkc, FullWkc
<1>2. QED
  BY <1>1, FullWkcExchanging DEF Exchanging

\* The converse: a group every slave of which is exchanging its mapped
\* regions gives a frame exactly the expected working counter, so a count
\* below it means some slave was not.
LEMMA WkcMatchesExpected ==
    ASSUME NEW g \in SUBSET Slaves,
           \A s \in g :
              /\ SlaveObytes[s] > 0 => online[s] /\ al[s] = OP
              /\ SlaveIbytes[s] > 0 => online[s] /\ al[s] \in {SAFEOP, OP}
    PROVE  Wkc(g) = ExpectedWkc(g)
<1>1. Exchanging(g)
  BY DEF Exchanging
<1>2. QED
  BY <1>1, ExchangingFullWkc DEF ExpectedWkc, FullWkc

-----------------------------------------------------------------------------
(* Type correctness.                                                       *)
(* Each action lemma first reads off, with Zenon, what the action does to  *)
(* a variable, and then shows that the new value has its type.             *)

\* The strengthening that makes the type invariant inductive: try_recover's
\* loop is entered with its counter below the three cycles it runs.
TypeInv ==
    /\ TypeOK
    /\ pc = "rec_cycle" => cycles \in 0..2

\* The codes and requests the actions write have their types.
LEMMA CodeTypes ==
    /\ NONE \in StatusCodes /\ PREOP \in StatusCodes
    /\ SAFEOP + ERRBIT \in StatusCodes
    /\ INIT \in AlStates /\ PREOP \in AlStates
    /\ SAFEOP \in AlStates /\ OP \in AlStates
    /\ -1 \in Int
BY DEF StatusCodes, AlStates

\* The status words a read of the AL status returns are status codes.
LEMMA AlStatusType ==
    ASSUME BusTypeOK, NEW s \in Slaves
    PROVE  AlStatus(s) \in StatusCodes
BY DEF BusTypeOK, AlStatus, StatusCodes, AlStates

\* ecx_readstate yields status codes.
LEMMA ReadStateType ==
    ASSUME TypeOK
    PROVE  ReadState \in [Slaves -> StatusCodes]
<1>1. \A s \in Slaves : AlStatus(s) \in StatusCodes
  BY AlStatusType DEF TypeOK
<1>2. QED
  BY <1>1 DEF ReadState, TypeOK

\* Writing one request to the AL control registers of a set of slaves
\* leaves every register with a request or none.
LEMMA AlControlWriteType ==
    ASSUME alctl \in [Slaves -> AlRequests \cup {NoReq}],
           NEW q \in AlRequests \cup {NoReq}, NEW f \in SUBSET Slaves
    PROVE  [s \in Slaves |-> IF s \in f THEN q ELSE alctl[s]]
             \in [Slaves -> AlRequests \cup {NoReq}]
OBVIOUS

\* A caller's output buffer laid over the zeroed image is an output image.
LEMMA CallerImageType ==
    ASSUME NEW img \in [Slaves -> CallerRecords \cup {"Zero"}]
    PROVE  img \in [Slaves -> OutRecords]
BY ShimAssumption DEF OutRecords

\* A process-data exchange (a caller's, or bring-up's probe) keeps the type.
LEMMA ExchangeType ==
    ASSUME TypeOK, NEW wo \in BOOLEAN,
           NEW img \in [Slaves -> OutRecords],
           ExchangeProcessData(wo, img)
    PROVE  /\ outImg' \in [Slaves -> OutRecords]
           /\ faults' \in 0..MaxFaults
           /\ lastWkc' \in Int
           /\ lastExpWkc' \in Int
           /\ ret' \in [op : Ops, rc : Int, val : Int]
           /\ busOk' \in BOOLEAN
           /\ UNCHANGED <<al, err, online, alctl>>
<1>1. \/ outImg' = outImg
      \/ outImg' = [s \in Slaves |-> IF s \in found /\ SlaveObytes[s] > 0
                                     THEN img[s] ELSE outImg[s]]
  BY Zenon DEF ExchangeProcessData
<1>2. outImg' \in [Slaves -> OutRecords]
  BY <1>1 DEF TypeOK, OutRecords
<1>3. \/ faults' = faults
      \/ faults' = faults + 1 /\ faults < MaxFaults
  BY Zenon DEF ExchangeProcessData
<1>4. /\ lastWkc' \in {lastWkc, EC_NOFRAME, Wkc(found)}
      /\ lastExpWkc' \in {lastExpWkc, ExpectedWkc(found)}
  BY Zenon DEF ExchangeProcessData
<1>5. ret' \in {Ret("exchange", SOEM_ERR_SEND_FAIL),
                Ret("exchange", SOEM_ERR_RECV_FAIL),
                Ret("exchange", ExchangeResult(Wkc(found), ExpectedWkc(found)))}
  BY Zenon DEF ExchangeProcessData
<1>6. Wkc(found) \in Nat /\ ExpectedWkc(found) \in Nat
  BY WkcNat DEF TypeOK
<1>7. ExchangeResult(Wkc(found), ExpectedWkc(found)) \in Int
  BY <1>6 DEF ExchangeResult
<1>8. ret' \in [op : Ops, rc : Int, val : Int]
  <2>1. "exchange" \in Ops
    BY DEF Ops
  <2>2. /\ Ret("exchange", SOEM_ERR_SEND_FAIL) \in [op : Ops, rc : Int, val : Int]
        /\ Ret("exchange", SOEM_ERR_RECV_FAIL) \in [op : Ops, rc : Int, val : Int]
        /\ Ret("exchange", ExchangeResult(Wkc(found), ExpectedWkc(found)))
             \in [op : Ops, rc : Int, val : Int]
    BY <1>7, <2>1 DEF Ret
  <2>3. QED
    BY <1>5, <2>2
<1>9. busOk' = busOk \/ busOk' = AllExchanging
  BY Zenon DEF ExchangeProcessData
<1>11. busOk' \in BOOLEAN
  BY <1>9, Zenon DEF TypeOK, AllExchanging
<1>12. UNCHANGED <<al, err, online, alctl>>
  BY Zenon DEF ExchangeProcessData
<1>10. QED
  BY <1>2, <1>3, <1>4, <1>6, <1>8, <1>11, <1>12 DEF TypeOK, BusTypeOK


LEMMA InitTypeInv == Init => TypeInv
<1> SUFFICES ASSUME Init PROVE TypeInv
  OBVIOUS
<1>1. BusTypeOK
  BY DEF Init, BusInit, BusTypeOK, NoReq, AlStates, AlRequests
<1>2. cache \in [Slaves -> StatusCodes] /\ outImg \in [Slaves -> OutRecords]
  BY CodeTypes DEF Init, OutRecords
<1>3. ret \in [op : Ops, rc : Int, val : Int]
  BY DEF Init, Ops
<1>4. /\ pc \in {"idle", "init_probe", "init_op", "rec_op", "rec_cycle",
                "rec_check"}
      /\ pc # "rec_cycle"
      /\ found \subseteq Slaves
      /\ lastWkc \in Int /\ lastExpWkc \in Int /\ cycles \in 0..3
  BY CodeTypes DEF Init
<1>5. session \in BOOLEAN /\ busOk \in BOOLEAN
  BY Zenon DEF Init
<1>6. QED
  BY <1>1, <1>2, <1>3, <1>4, <1>5 DEF TypeInv, TypeOK

LEMMA InitConfigureType ==
    ASSUME TypeInv, InitConfigure PROVE TypeInv'
<1>1. al' \in [Slaves -> AlStates]
  <2>1. al' = al \/ al' = [s \in Slaves |-> IF online[s] THEN PREOP ELSE al[s]]
    BY Zenon DEF InitConfigure, busVars
  <2>2. QED
    BY <2>1, CodeTypes DEF TypeInv, TypeOK, BusTypeOK
<1>2. alctl' \in [Slaves -> AlRequests \cup {NoReq}]
  <2>1. \/ alctl' = alctl
        \/ alctl' = [s \in Slaves |-> IF s \in {x \in Slaves : online[x]}
                                      THEN NoReq ELSE alctl[s]]
        \/ alctl' = [s \in Slaves |-> IF s \in {x \in Slaves : online[x]}
                                      THEN [st |-> SAFEOP, ack |-> FALSE]
                                      ELSE alctl[s]]
    BY Zenon DEF InitConfigure, busVars
  <2>2. [st |-> SAFEOP, ack |-> FALSE] \in AlRequests
    BY DEF AlRequests, AlStates
  <2>3. alctl \in [Slaves -> AlRequests \cup {NoReq}]
    BY DEF TypeInv, TypeOK, BusTypeOK
  <2> DEFINE F == {x \in Slaves : online[x]}
  <2>4. F \in SUBSET Slaves
    OBVIOUS
  <2>5. /\ [s \in Slaves |-> IF s \in F THEN NoReq ELSE alctl[s]]
           \in [Slaves -> AlRequests \cup {NoReq}]
        /\ [s \in Slaves |-> IF s \in F THEN [st |-> SAFEOP, ack |-> FALSE]
                                        ELSE alctl[s]]
           \in [Slaves -> AlRequests \cup {NoReq}]
    BY <2>2, <2>3, <2>4, AlControlWriteType
  <2>6. QED
    BY <2>1, <2>3, <2>5, Zenon
<1>3. /\ err' \in [Slaves -> BOOLEAN]
      /\ online' \in [Slaves -> BOOLEAN]
      /\ faults' \in 0..MaxFaults
  <2>1. /\ err' = err \/ err' = [s \in Slaves |-> err[s] /\ ~online[s]]
        /\ UNCHANGED <<online, faults>>
    BY Zenon DEF InitConfigure, busVars
  <2>2. QED
    BY <2>1, Zenon DEF TypeInv, TypeOK, BusTypeOK
<1>4. /\ cache' \in [Slaves -> StatusCodes]
      /\ outImg' \in [Slaves -> OutRecords]
  <2>1. /\ \/ cache' = cache
           \/ cache' = [s \in Slaves |-> IF s \in {x \in Slaves : online[x]}
                                          THEN PREOP ELSE NONE]
        /\ outImg' \in {outImg, StagedOutputs({x \in Slaves : online[x]})}
    BY Zenon DEF InitConfigure, busVars
  <2>2. QED
    BY <2>1, CodeTypes DEF TypeInv, TypeOK, StagedOutputs, OutRecords
<1>5. ret' \in [op : Ops, rc : Int, val : Int]
  <2>1. ret' = ret \/ ret' = Ret("initialize", 0)
    BY Zenon DEF InitConfigure
  <2>2. Ret("initialize", 0) \in [op : Ops, rc : Int, val : Int]
    BY DEF Ret, Ops
  <2>3. QED
    BY <2>1, <2>2 DEF TypeInv, TypeOK
<1>6. /\ pc' \in {"idle", "init_probe", "init_op", "rec_op", "rec_cycle",
                 "rec_check"}
      /\ pc' # "rec_cycle"
      /\ session' \in BOOLEAN /\ busOk' \in BOOLEAN
      /\ found' \subseteq Slaves
      /\ lastWkc' \in Int /\ lastExpWkc' \in Int /\ cycles' \in 0..3
  <2>1. /\ pc' \in {"idle", "init_probe"}
        /\ lastWkc' \in {lastWkc, -1} /\ lastExpWkc' \in {lastExpWkc, 0}
        /\ found' \in {found, {x \in Slaves : online[x]}}
        /\ UNCHANGED <<session, cycles, busOk>>
    BY Zenon DEF InitConfigure, busVars
  <2>2. session' \in BOOLEAN /\ busOk' \in BOOLEAN
    BY <2>1, Zenon DEF TypeInv, TypeOK
  <2>3. QED
    BY <2>1, <2>2 DEF TypeInv, TypeOK
<1>7. QED
  BY <1>1, <1>2, <1>3, <1>4, <1>5, <1>6 DEF TypeInv, TypeOK, BusTypeOK

LEMMA InitProbeType ==
    ASSUME TypeInv, InitProbe PROVE TypeInv'
<1>1. /\ outImg' \in [Slaves -> OutRecords]
      /\ faults' \in 0..MaxFaults
      /\ lastWkc' \in Int /\ lastExpWkc' \in Int
      /\ ret' \in [op : Ops, rc : Int, val : Int]
      /\ busOk' \in BOOLEAN
      /\ UNCHANGED <<al, err, online, alctl>>
  <2>1. ExchangeProcessData(FALSE, outImg)
    BY Zenon DEF InitProbe
  <2>2. QED
    BY <2>1, ExchangeType DEF TypeInv, TypeOK
<1>2. /\ pc' = "init_op"
      /\ UNCHANGED <<session, found, cache, cycles>>
  BY Zenon DEF InitProbe
<1>3. QED
  BY <1>1, <1>2 DEF TypeInv, TypeOK, BusTypeOK

LEMMA ExchangeStepType ==
    ASSUME TypeInv, Exchange PROVE TypeInv'
<1>1. /\ outImg' \in [Slaves -> OutRecords]
      /\ faults' \in 0..MaxFaults
      /\ lastWkc' \in Int /\ lastExpWkc' \in Int
      /\ ret' \in [op : Ops, rc : Int, val : Int]
      /\ busOk' \in BOOLEAN
      /\ UNCHANGED <<al, err, online, alctl>>
  <2>1. CASE ExchangeProcessData(FALSE, outImg)
    BY <2>1, ExchangeType DEF TypeInv, TypeOK
  <2>2. CASE \E img \in [Slaves -> CallerRecords \cup {"Zero"}] :
               ExchangeProcessData(TRUE, img)
    <3>1. PICK img \in [Slaves -> CallerRecords \cup {"Zero"}] :
                 ExchangeProcessData(TRUE, img)
      BY <2>2
    <3>2. img \in [Slaves -> OutRecords]
      BY ShimAssumption DEF OutRecords
    <3>3. QED
      BY <3>1, <3>2, ExchangeType DEF TypeInv
  <2>3. QED
    BY <2>1, <2>2, Zenon DEF Exchange
<1>2. UNCHANGED <<pc, session, found, cache, cycles>>
  BY Zenon DEF Exchange
<1>3. QED
  BY <1>1, <1>2 DEF TypeInv, TypeOK, BusTypeOK

LEMMA InitRequestOpType ==
    ASSUME TypeInv, InitRequestOp PROVE TypeInv'
<1>1. alctl' \in [Slaves -> AlRequests \cup {NoReq}]
  <2>1. alctl' = BroadcastAlControl(OP)
    BY Zenon DEF InitRequestOp
  <2>2. QED
    BY <2>1, BroadcastTyped, CodeTypes DEF TypeInv, TypeOK
<1>2. ret' \in [op : Ops, rc : Int, val : Int]
  <2>1. ret' = Ret("initialize", 1)
    BY Zenon DEF InitRequestOp
  <2>2. QED
    BY <2>1 DEF Ret, Ops
<1>3. /\ pc' = "idle" /\ session' \in BOOLEAN
      /\ UNCHANGED <<al, err, online, faults, found, cache, outImg,
                     lastWkc, lastExpWkc, cycles, busOk>>
  BY Zenon DEF InitRequestOp
<1>4. QED
  BY <1>1, <1>2, <1>3 DEF TypeInv, TypeOK, BusTypeOK

LEMMA ShutdownType ==
    ASSUME TypeInv, Shutdown PROVE TypeInv'
<1>1. alctl' \in [Slaves -> AlRequests \cup {NoReq}]
  <2>1. alctl' = BroadcastAlControl(INIT)
    BY Zenon DEF Shutdown
  <2>2. QED
    BY <2>1, BroadcastTyped, CodeTypes DEF TypeInv, TypeOK
<1>2. ret' \in [op : Ops, rc : Int, val : Int]
  <2>1. ret' = Ret("shutdown", 0)
    BY Zenon DEF Shutdown
  <2>2. QED
    BY <2>1 DEF Ret, Ops
<1>3. cache' \in [Slaves -> StatusCodes]
  <2>1. cache' = [s \in Slaves |-> NONE]
    BY Zenon DEF Shutdown
  <2>2. QED
    BY <2>1, CodeTypes
<1>4. /\ session' \in BOOLEAN /\ found' = {}
      /\ UNCHANGED <<al, err, online, faults, pc, outImg, lastWkc,
                     lastExpWkc, cycles, busOk>>
  BY Zenon DEF Shutdown
<1>5. QED
  BY <1>1, <1>2, <1>3, <1>4 DEF TypeInv, TypeOK, BusTypeOK


LEMMA WriteRxPdoType ==
    ASSUME TypeInv, NEW s \in Slaves, NEW r \in CallerRecords, WriteRxPdo(s, r)
    PROVE  TypeInv'
<1>1. outImg' \in [Slaves -> OutRecords]
  <2>1. outImg' = outImg \/ outImg' = [outImg EXCEPT ![s] = r]
    BY Zenon DEF WriteRxPdo
  <2>2. QED
    BY <2>1, ShimAssumption DEF TypeInv, TypeOK
<1>2. ret' \in [op : Ops, rc : Int, val : Int]
  <2>1. ret' = Ret("write_rxpdo", 1) \/ ret' = Ret("write_rxpdo", 0)
    BY Zenon DEF WriteRxPdo
  <2>2. QED
    BY <2>1 DEF Ret, Ops
<1>3. UNCHANGED <<busVars, pc, session, found, cache, lastWkc, lastExpWkc,
                  cycles, busOk>>
  BY Zenon DEF WriteRxPdo
<1>4. QED
  BY <1>1, <1>2, <1>3 DEF TypeInv, TypeOK, BusTypeOK, busVars

LEMMA ReadTxPdoType ==
    ASSUME TypeInv, NEW s \in Slaves, ReadTxPdo(s) PROVE TypeInv'
<1>1. ret' \in [op : Ops, rc : Int, val : Int]
  <2>1. ret' = Ret("read_txpdo", 1) \/ ret' = Ret("read_txpdo", 0)
    BY Zenon DEF ReadTxPdo
  <2>2. QED
    BY <2>1 DEF Ret, Ops
<1>2. UNCHANGED <<busVars, pc, session, found, cache, outImg, lastWkc,
                  lastExpWkc, cycles, busOk>>
  BY Zenon DEF ReadTxPdo
<1>3. QED
  BY <1>1, <1>2 DEF TypeInv, TypeOK, BusTypeOK, busVars

LEMMA RecoverAckType ==
    ASSUME TypeInv, RecoverAck PROVE TypeInv'
<1>1. cache' \in [Slaves -> StatusCodes]
  <2>1. cache' = [s \in Slaves |-> IF s \in found /\ ReadState[s] >= ERRBIT
                                   THEN SAFEOP + ERRBIT ELSE ReadState[s]]
    BY Zenon DEF RecoverAck
  <2>2. QED
    BY <2>1, ReadStateType, CodeTypes DEF TypeInv
<1>2. alctl' \in [Slaves -> AlRequests \cup {NoReq}]
  <2>1. alctl' = WriteAlControl({s \in found : ReadState[s] >= ERRBIT},
                                [st |-> SAFEOP, ack |-> TRUE])
    BY Zenon DEF RecoverAck
  <2>2. [st |-> SAFEOP, ack |-> TRUE] \in AlRequests
    BY DEF AlRequests, AlStates
  <2>3. QED
    BY <2>1, <2>2, WriteAlControlTyped DEF TypeInv, TypeOK
<1>3. /\ pc' = "rec_op"
      /\ UNCHANGED <<al, err, online, faults, session, found, outImg,
                     lastWkc, lastExpWkc, cycles, ret, busOk>>
  BY Zenon DEF RecoverAck
<1>4. QED
  BY <1>1, <1>2, <1>3 DEF TypeInv, TypeOK, BusTypeOK

LEMMA RecoverRequestOpType ==
    ASSUME TypeInv, RecoverRequestOp PROVE TypeInv'
<1>1. alctl' \in [Slaves -> AlRequests \cup {NoReq}]
  <2>1. alctl' = BroadcastAlControl(OP)
    BY Zenon DEF RecoverRequestOp
  <2>2. QED
    BY <2>1, BroadcastTyped, CodeTypes DEF TypeInv, TypeOK
<1>2. /\ cycles' = 0 /\ pc' = "rec_cycle"
      /\ UNCHANGED <<al, err, online, faults, session, found, cache,
                     outImg, lastWkc, lastExpWkc, ret, busOk>>
  BY Zenon DEF RecoverRequestOp
<1>3. QED
  BY <1>1, <1>2 DEF TypeInv, TypeOK, BusTypeOK

LEMMA RecoverCycleType ==
    ASSUME TypeInv, RecoverCycle PROVE TypeInv'
<1>1. /\ pc = "rec_cycle"
      /\ \/ faults' = faults
         \/ faults' = faults + 1 /\ faults < MaxFaults
      /\ cycles' = cycles + 1
      /\ pc' = IF cycles + 1 = 3 THEN "rec_check" ELSE "rec_cycle"
  BY Zenon DEF RecoverCycle
<1>2. UNCHANGED <<al, err, online, alctl, session, found, cache, outImg,
                  lastWkc, lastExpWkc, ret, busOk>>
  BY Zenon DEF RecoverCycle
<1>3. QED
  BY <1>1, <1>2 DEF TypeInv, TypeOK, BusTypeOK

LEMMA RecoverCheckType ==
    ASSUME TypeInv, RecoverCheck PROVE TypeInv'
<1>1. ret' \in [op : Ops, rc : Int, val : Int]
  <2>1. ret' = [op |-> "recover",
                rc |-> IF AlStatusOr = OP /\ \A s \in found : cache[s] = OP
                       THEN 1 ELSE 0,
                val |-> AlStatusOr]
    BY Zenon DEF RecoverCheck
  <2>2. AlStatusOr \in Int
    BY DEF AlStatusOr
  <2>3. QED
    BY <2>1, <2>2 DEF Ops
<1>2. busOk' = AllFoundOp
  BY Zenon DEF RecoverCheck
<1>3. busOk' \in BOOLEAN
  BY <1>2, Zenon DEF AllFoundOp
<1>4. /\ pc' = "idle"
      /\ UNCHANGED <<busVars, session, found, cache, outImg, lastWkc,
                     lastExpWkc, cycles>>
  BY Zenon DEF RecoverCheck
<1>5. QED
  BY <1>1, <1>3, <1>4 DEF TypeInv, TypeOK, BusTypeOK, busVars

LEMMA GetHealthType ==
    ASSUME TypeInv, GetHealth PROVE TypeInv'
<1>1. cache' = ReadState
  BY Zenon DEF GetHealth
<1>2. ret' \in [op : Ops, rc : Int, val : Int]
  <2>1. ret' = [op |-> "health", rc |-> 1,
                val |-> Cardinality({s \in found : ReadState[s] = OP})]
    BY Zenon DEF GetHealth
  <2>2. Cardinality({s \in found : ReadState[s] = OP}) \in Nat
    BY SlaveSetCard DEF TypeInv, TypeOK
  <2>3. QED
    BY <2>1, <2>2 DEF Ops
<1>3. UNCHANGED <<busVars, pc, session, found, outImg, lastWkc, lastExpWkc,
                  cycles, busOk>>
  BY Zenon DEF GetHealth
<1>4. QED
  BY <1>1, <1>2, <1>3, ReadStateType DEF TypeInv, TypeOK, BusTypeOK, busVars


LEMMA BusStepType ==
    ASSUME TypeInv, BusNext, UNCHANGED shimVars PROVE TypeInv'
<1>1. BusTypeOK'
  BY BusStepTyped DEF TypeInv, TypeOK
<1>2. QED
  BY <1>1, Zenon DEF TypeInv, TypeOK, shimVars

\* Every step of the shim or of the bus keeps TypeInv.
LEMMA TypeCorrectStep == TypeInv /\ [Next]_vars => TypeInv'
<1> SUFFICES ASSUME TypeInv, [Next]_vars PROVE TypeInv'
  OBVIOUS
<1>1. CASE UNCHANGED vars
  BY <1>1, Zenon DEF vars, busVars, shimVars, TypeInv, TypeOK, BusTypeOK
<1>2. CASE \E s \in Slaves, r \in CallerRecords : WriteRxPdo(s, r)
  BY <1>2, WriteRxPdoType
<1>3. CASE \E s \in Slaves : ReadTxPdo(s)
  BY <1>3, ReadTxPdoType
<1>4. QED
  BY <1>1, <1>2, <1>3, InitConfigureType, InitProbeType,
     InitRequestOpType, ShutdownType, ExchangeStepType, RecoverAckType,
     RecoverRequestOpType, RecoverCycleType, RecoverCheckType,
     GetHealthType, BusStepType DEF Next, ShimNext

\* Type correctness: in every reachable state the bus, the shim's session,
\* its master-side copy of the slave states, the output image, the working
\* counters, try_recover's loop counter and the last result have the types
\* of TypeOK.
THEOREM TypeCorrect == Spec => []TypeOK
<1>1. TypeInv => TypeOK
  BY DEF TypeInv
<1>2. QED
  BY InitTypeInv, TypeCorrectStep, <1>1, PTL DEF Spec

-----------------------------------------------------------------------------
(* Working-counter integrity.  The ghost busOk is written only where a     *)
(* frame comes back, so the invariant is carried by every other step; at   *)
(* a received frame the WKC check and the counting lemma give it.          *)

\* A received frame that passes the WKC check against a positive expected
\* working counter was exchanged by every discovered slave.
LEMMA ExchangeIntegrity ==
    ASSUME TypeOK, NEW wo \in BOOLEAN, NEW img \in [Slaves -> OutRecords],
           ExchangeProcessData(wo, img)
    PROVE  WkcIntegrity'
<1> DEFINE W == Wkc(found)
           E == ExpectedWkc(found)
<1>1. \/ ret' = Ret("exchange", SOEM_ERR_SEND_FAIL)
      \/ ret' = Ret("exchange", SOEM_ERR_RECV_FAIL)
      \/ /\ lastExpWkc' = E
         /\ ret' = Ret("exchange", ExchangeResult(W, E))
         /\ busOk' = AllExchanging
  BY Zenon DEF ExchangeProcessData
<1>2. W \in Nat /\ E \in Nat
  BY WkcNat DEF TypeOK
<1>3. CASE \/ ret' = Ret("exchange", SOEM_ERR_SEND_FAIL)
           \/ ret' = Ret("exchange", SOEM_ERR_RECV_FAIL)
  BY <1>3 DEF WkcIntegrity, Ret
<1>4. CASE /\ lastExpWkc' = E
           /\ ret' = Ret("exchange", ExchangeResult(W, E))
           /\ busOk' = AllExchanging
  <2> SUFFICES ASSUME ret'.rc >= 0, lastExpWkc' > 0 PROVE busOk'
    BY DEF WkcIntegrity
  <2>1. W >= E
    BY <1>2, <1>4 DEF Ret, ExchangeResult
  <2>2. AllExchanging
    BY <2>1, WkcReachesExpected DEF TypeOK, AllExchanging
  <2>3. QED
    BY <1>4, <2>2, Zenon
<1>5. QED
  BY <1>1, <1>3, <1>4

\* The inductive invariant of the integrity proof.
IntegrityInv == TypeInv /\ WkcIntegrity

\* A step that changes none of ret, lastExpWkc and busOk keeps the property.
LEMMA IntegrityFrame ==
    ASSUME WkcIntegrity, UNCHANGED <<ret, lastExpWkc, busOk>>
    PROVE  WkcIntegrity'
BY Zenon DEF WkcIntegrity

\* A step whose result is not an exchange keeps the property.
LEMMA IntegrityOtherOp ==
    ASSUME ret'.op # "exchange"
    PROVE  WkcIntegrity'
BY Zenon DEF WkcIntegrity

\* The steps whose result is a call other than an exchange.
OtherResultStep ==
    \/ InitRequestOp \/ Shutdown \/ RecoverCheck \/ GetHealth
    \/ \E s \in Slaves, r \in CallerRecords : WriteRxPdo(s, r)
    \/ \E t \in Slaves : ReadTxPdo(t)

\* The steps that leave the last result, the expected working counter and
\* the ghost of the last frame as they were: try_recover's steps before
\* its check, the bus, and stuttering.
ReportKeepingStep ==
    \/ RecoverAck \/ RecoverRequestOp \/ RecoverCycle
    \/ BusNext /\ UNCHANGED shimVars
    \/ UNCHANGED vars

LEMMA OtherResult ==
    ASSUME OtherResultStep PROVE ret'.op # "exchange"
<1>1. CASE InitRequestOp
  <2>1. ret' = Ret("initialize", 1)
    BY <1>1, Zenon DEF InitRequestOp
  <2>2. QED
    BY <2>1 DEF Ret
<1>2. CASE Shutdown
  <2>1. ret' = Ret("shutdown", 0)
    BY <1>2, Zenon DEF Shutdown
  <2>2. QED
    BY <2>1 DEF Ret
<1>3. CASE RecoverCheck
  BY <1>3, Zenon DEF RecoverCheck
<1>4. CASE GetHealth
  BY <1>4, Zenon DEF GetHealth
<1>5. CASE \E s \in Slaves, r \in CallerRecords : WriteRxPdo(s, r)
  <2>1. ret' = Ret("write_rxpdo", 1) \/ ret' = Ret("write_rxpdo", 0)
    BY <1>5, Zenon DEF WriteRxPdo
  <2>2. QED
    BY <2>1 DEF Ret
<1>6. CASE \E t \in Slaves : ReadTxPdo(t)
  <2>1. ret' = Ret("read_txpdo", 1) \/ ret' = Ret("read_txpdo", 0)
    BY <1>6, Zenon DEF ReadTxPdo
  <2>2. QED
    BY <2>1 DEF Ret
<1>7. QED
  BY <1>1, <1>2, <1>3, <1>4, <1>5, <1>6 DEF OtherResultStep

LEMMA ReportKept ==
    ASSUME ReportKeepingStep PROVE UNCHANGED <<ret, lastExpWkc, busOk>>
BY Zenon DEF ReportKeepingStep, RecoverAck, RecoverRequestOp, RecoverCycle,
             shimVars, vars

\* Working-counter integrity (soem_exchange_process_data, lines 284-318):
\* for every set of slaves, PDO mapping and fault bound, when the last
\* exchange reported success against a positive expected working counter,
\* every discovered slave with a mapped region was online and in the state
\* its region needs when the frame went round.
THEOREM WkcIntegrityHolds == Spec => []WkcIntegrity
<1>1. Init => IntegrityInv
  <2>1. Init => WkcIntegrity
    BY DEF Init, WkcIntegrity
  <2>2. QED
    BY <2>1, InitTypeInv DEF IntegrityInv
<1>2. IntegrityInv /\ [Next]_vars => IntegrityInv'
  <2> SUFFICES ASSUME IntegrityInv, [Next]_vars PROVE IntegrityInv'
    OBVIOUS
  <2>1. TypeInv'
    BY TypeCorrectStep DEF IntegrityInv
  <2>2. TypeOK /\ WkcIntegrity
    BY DEF IntegrityInv, TypeInv
  <2> SUFFICES WkcIntegrity'
    BY <2>1 DEF IntegrityInv
  <2>3. CASE InitConfigure
    <3>1. \/ ret' = Ret("initialize", 0)
          \/ lastExpWkc' = 0
      BY <2>3, Zenon DEF InitConfigure
    <3>2. QED
      BY <3>1 DEF WkcIntegrity, Ret
  <2>4. CASE InitProbe
    <3>1. ExchangeProcessData(FALSE, outImg)
      BY <2>4, Zenon DEF InitProbe
    <3>2. outImg \in [Slaves -> OutRecords]
      BY <2>2 DEF TypeOK
    <3>3. QED
      BY <2>2, <3>1, <3>2, ExchangeIntegrity, Zenon
  <2>5. CASE Exchange
    <3>1. CASE ExchangeProcessData(FALSE, outImg)
      <4>1. outImg \in [Slaves -> OutRecords]
        BY <2>2 DEF TypeOK
      <4>2. QED
        BY <2>2, <3>1, <4>1, ExchangeIntegrity, Zenon
    <3>2. CASE \E img \in [Slaves -> CallerRecords \cup {"Zero"}] :
                 ExchangeProcessData(TRUE, img)
      <4>1. PICK img \in [Slaves -> CallerRecords \cup {"Zero"}] :
                   ExchangeProcessData(TRUE, img)
        BY <3>2, Zenon
      <4>2. img \in [Slaves -> OutRecords]
        BY CallerImageType, Zenon
      <4>3. QED
        BY <2>2, <4>1, <4>2, ExchangeIntegrity, Zenon
    <3>3. QED
      BY <2>5, <3>1, <3>2, Zenon DEF Exchange
  <2>6. CASE OtherResultStep
    BY <2>6, OtherResult, IntegrityOtherOp
  <2>7. CASE ReportKeepingStep
    BY <2>2, <2>7, ReportKept, IntegrityFrame
  <2>8. QED
    BY <2>3, <2>4, <2>5, <2>6, <2>7 DEF Next, ShimNext, OtherResultStep,
                                      ReportKeepingStep
<1>3. IntegrityInv => WkcIntegrity
  BY DEF IntegrityInv
<1>4. QED
  BY <1>1, <1>2, <1>3, PTL DEF Spec

-----------------------------------------------------------------------------
(* No false dropout alarm.  The same frame argument: busOk and a WKC_LOW   *)
(* result are written together only where a frame comes back, and there   *)
(* the converse counting lemma says a group that is exchanging gives       *)
(* exactly the expected count, which the check does not call low.          *)

\* A received frame reported as WKC_LOW was not exchanged by every
\* discovered slave; a failed send or receive is never reported as WKC_LOW.
LEMMA ExchangeDropout ==
    ASSUME TypeOK, NEW wo \in BOOLEAN, NEW img \in [Slaves -> OutRecords],
           ExchangeProcessData(wo, img)
    PROVE  WkcLowMeansDropout'
<1> DEFINE W == Wkc(found)
           E == ExpectedWkc(found)
<1>1. \/ ret' = Ret("exchange", SOEM_ERR_SEND_FAIL)
      \/ ret' = Ret("exchange", SOEM_ERR_RECV_FAIL)
      \/ /\ ret' = Ret("exchange", ExchangeResult(W, E))
         /\ busOk' = AllExchanging
  BY Zenon DEF ExchangeProcessData
<1>2. CASE \/ ret' = Ret("exchange", SOEM_ERR_SEND_FAIL)
           \/ ret' = Ret("exchange", SOEM_ERR_RECV_FAIL)
  BY <1>2 DEF WkcLowMeansDropout, Ret
<1>3. CASE /\ ret' = Ret("exchange", ExchangeResult(W, E))
           /\ busOk' = AllExchanging
  <2> SUFFICES ASSUME ret'.rc = SOEM_ERR_WKC_LOW, AllExchanging PROVE FALSE
    BY <1>3, Zenon DEF WkcLowMeansDropout
  <2>1. W = E
    BY WkcMatchesExpected DEF TypeOK, AllExchanging
  <2>2. E \in Nat
    BY WkcNat DEF TypeOK
  <2>3. ExchangeResult(W, E) = E
    BY <2>1, <2>2 DEF ExchangeResult
  <2>4. QED
    BY <1>3, <2>2, <2>3 DEF Ret
<1>4. QED
  BY <1>1, <1>2, <1>3

\* The inductive invariant of the no-false-alarm proof.
DropoutInv == TypeInv /\ WkcLowMeansDropout

\* A step that changes neither ret nor busOk keeps the property.
LEMMA DropoutFrame ==
    ASSUME WkcLowMeansDropout, UNCHANGED <<ret, busOk>>
    PROVE  WkcLowMeansDropout'
BY Zenon DEF WkcLowMeansDropout

\* No false dropout alarm (soem_exchange_process_data, lines 284-318): for
\* every set of slaves, PDO mapping and fault bound, when the last exchange
\* returned SOEM_ERR_WKC_LOW, some discovered slave with a mapped region was
\* offline or short of the state its region needs when the frame went
\* round; a lost frame is reported with its own code, never as WKC_LOW.
THEOREM WkcLowMeansDropoutHolds == Spec => []WkcLowMeansDropout
<1>1. Init => DropoutInv
  <2>1. Init => WkcLowMeansDropout
    BY DEF Init, WkcLowMeansDropout
  <2>2. QED
    BY <2>1, InitTypeInv DEF DropoutInv
<1>2. DropoutInv /\ [Next]_vars => DropoutInv'
  <2> SUFFICES ASSUME DropoutInv, [Next]_vars PROVE DropoutInv'
    OBVIOUS
  <2>1. TypeInv'
    BY TypeCorrectStep DEF DropoutInv
  <2>2. TypeOK /\ WkcLowMeansDropout
    BY DEF DropoutInv, TypeInv
  <2> SUFFICES WkcLowMeansDropout'
    BY <2>1 DEF DropoutInv
  <2>3. CASE InitConfigure
    <3>1. \/ ret' = Ret("initialize", 0)
          \/ UNCHANGED <<ret, busOk>>
      BY <2>3, Zenon DEF InitConfigure
    <3>2. QED
      BY <2>2, <3>1, DropoutFrame DEF WkcLowMeansDropout, Ret
  <2>4. CASE InitProbe
    <3>1. ExchangeProcessData(FALSE, outImg)
      BY <2>4, Zenon DEF InitProbe
    <3>2. outImg \in [Slaves -> OutRecords]
      BY <2>2 DEF TypeOK
    <3>3. QED
      BY <2>2, <3>1, <3>2, ExchangeDropout, Zenon
  <2>5. CASE Exchange
    <3>1. CASE ExchangeProcessData(FALSE, outImg)
      <4>1. outImg \in [Slaves -> OutRecords]
        BY <2>2 DEF TypeOK
      <4>2. QED
        BY <2>2, <3>1, <4>1, ExchangeDropout, Zenon
    <3>2. CASE \E img \in [Slaves -> CallerRecords \cup {"Zero"}] :
                 ExchangeProcessData(TRUE, img)
      <4>1. PICK img \in [Slaves -> CallerRecords \cup {"Zero"}] :
                   ExchangeProcessData(TRUE, img)
        BY <3>2, Zenon
      <4>2. img \in [Slaves -> OutRecords]
        BY CallerImageType, Zenon
      <4>3. QED
        BY <2>2, <4>1, <4>2, ExchangeDropout, Zenon
    <3>3. QED
      BY <2>5, <3>1, <3>2, Zenon DEF Exchange
  <2>6. CASE OtherResultStep
    <3>1. ret'.op # "exchange"
      BY <2>6, OtherResult
    <3>2. QED
      BY <3>1, Zenon DEF WkcLowMeansDropout
  <2>7. CASE ReportKeepingStep
    BY <2>2, <2>7, ReportKept, DropoutFrame
  <2>8. QED
    BY <2>3, <2>4, <2>5, <2>6, <2>7 DEF Next, ShimNext, OtherResultStep,
                                      ReportKeepingStep
<1>3. DropoutInv => WkcLowMeansDropout
  BY DEF DropoutInv
<1>4. QED
  BY <1>1, <1>2, <1>3, PTL DEF Spec

=============================================================================
