------------------------------- MODULE SoemShim -------------------------------
(***************************************************************************)
(* The session and cyclic-exchange core of the Linux shim                  *)
(* (src/native/soemshim-linux/soem_shim.c) driving the bus of EtherCATBus.  *)
(*                                                                         *)
(* One caller drives one handle (the header forbids concurrent use), so    *)
(* the shim's operations never overlap each other; what interleaves with   *)
(* them are the slaves.  An operation that makes several round trips on    *)
(* the bus (initialize, try_recover) is split at those round trips, with   *)
(* pc naming where it is; every other operation is one step.  A bounded    *)
(* wait (ecx_statecheck) is the environment's steps before the step that   *)
(* reads the bus, so a timeout is a read that finds the state not reached. *)
(***************************************************************************)
EXTENDS EtherCATBus

CONSTANTS
    CallerRecords  \* the records a caller puts in an output region

\* What one output region holds, abstracted to what the model tells apart:
\* all zero, the benign NOP command staged at bring-up, a motion command.
OutRecords == {"Zero", "Nop", "Move"}

ASSUME ShimAssumption == CallerRecords \subseteq OutRecords

\* Expected raw region sizes of a Xeryon drive (IO_RX_BYTES, IO_TX_BYTES).
IO_RX_BYTES == 20
IO_TX_BYTES == 8

\* Result codes of soem_exchange_process_data, and SOEM's EC_NOFRAME.
SOEM_ERR_WKC_LOW  == -10
SOEM_ERR_SEND_FAIL == -11
SOEM_ERR_RECV_FAIL == -12
EC_NOFRAME == -1

Ops == {"none", "initialize", "shutdown", "exchange", "write_rxpdo",
        "read_txpdo", "recover", "health"}

VARIABLES
    pc,          \* where the running operation is; "idle" between calls
    session,     \* a handle has been returned and not yet shut down
    found,       \* the slaves ecx_config_init discovered (slavelist[1..])
    cache,       \* cache[s]: slavelist[s].state, the master's copy
    outImg,      \* outImg[s]: the output region of s in the IOmap
    lastWkc,     \* handle->last_wkc
    lastExpWkc,  \* handle->last_expected_wkc
    cycles,      \* blind cycles done by try_recover
    ret,         \* the last operation and what it returned
    busOk        \* ghost: what the bus really was at the read the result
                 \* of ret is based on (see the properties)

shimVars == <<pc, session, found, cache, outImg, lastWkc, lastExpWkc,
              cycles, ret, busOk>>
vars == <<busVars, shimVars>>

StatusCodes == {NONE} \cup {a + e : a \in AlStates, e \in {0, ERRBIT}}

TypeOK ==
    /\ BusTypeOK
    /\ pc \in {"idle", "init_probe", "init_op", "rec_op", "rec_cycle",
               "rec_check"}
    /\ session \in BOOLEAN
    /\ found \subseteq Slaves
    /\ cache \in [Slaves -> StatusCodes]
    /\ outImg \in [Slaves -> OutRecords]
    /\ lastWkc \in Int
    /\ lastExpWkc \in Int
    /\ cycles \in 0..3
    /\ ret \in [op : Ops, rc : Int, val : Int]
    /\ busOk \in BOOLEAN

Init ==
    /\ BusInit
    /\ pc = "idle"
    /\ session = FALSE
    /\ found = {}
    /\ cache = [s \in Slaves |-> NONE]
    /\ outImg = [s \in Slaves |-> "Zero"]
    /\ lastWkc = -1
    /\ lastExpWkc = 0
    /\ cycles = 0
    /\ ret = [op |-> "none", rc |-> 0, val |-> 0]
    /\ busOk = FALSE

Ret(op, rc) == [op |-> op, rc |-> rc, val |-> 0]

-----------------------------------------------------------------------------
(* Helpers.                                                                *)

\* Mutant of ExpectedWkc: the output contribution counted once, not twice.
ExpectedWkcSingleOutputs(group) ==
    Cardinality({s \in group : SlaveObytes[s] > 0})
    + Cardinality({s \in group : SlaveIbytes[s] > 0})

\* expected = outputsWKC * 2 + inputsWKC of group 0.
ExpectedWkc(group) ==
    2 * Cardinality({s \in group : SlaveObytes[s] > 0})
    + Cardinality({s \in group : SlaveIbytes[s] > 0})

\* Mutant of ExchangeResult: a count equal to the expected one taken as low.
ExchangeResultAtMost(wkc, expected) ==
    IF expected <= 0 THEN wkc
    ELSE IF wkc <= expected THEN SOEM_ERR_WKC_LOW
    ELSE wkc

\* The working-counter policy of soem_exchange_process_data.
ExchangeResult(wkc, expected) ==
    IF expected <= 0 THEN wkc
    ELSE IF wkc < expected THEN SOEM_ERR_WKC_LOW
    ELSE wkc

\* The guards of soem_write_rxpdo / soem_read_txpdo on the slave index,
\* the region pointer and the region size.
RxPdoFits(s) ==
    s \in found /\ SlaveObytes[s] > 0 /\ SlaveObytes[s] >= IO_RX_BYTES
TxPdoFits(s) ==
    s \in found /\ SlaveIbytes[s] > 0 /\ SlaveIbytes[s] >= IO_TX_BYTES

\* The IOmap after memset(0) and the NOP staging loop of soem_initialize.
StagedOutputs(group) ==
    [s \in Slaves |-> IF s \in group /\ SlaveObytes[s] > 0
                         /\ SlaveObytes[s] >= IO_RX_BYTES
                      THEN "Nop" ELSE "Zero"]

\* ecx_readstate: the master's copy of every discovered slave's AL status.
ReadState ==
    [s \in Slaves |-> IF s \in found THEN AlStatus(s) ELSE cache[s]]

\* Every discovered slave with a mapped region is online and in the state
\* that region needs: OP for outputs, SAFEOP or OP for inputs.
AllExchanging ==
    \A s \in found :
        /\ SlaveObytes[s] > 0 => online[s] /\ al[s] = OP
        /\ SlaveIbytes[s] > 0 => online[s] /\ al[s] \in {SAFEOP, OP}

\* Every discovered slave is online, in OP, without error.
AllFoundOp ==
    \A s \in found : online[s] /\ al[s] = OP /\ ~err[s]

-----------------------------------------------------------------------------
(* soem_exchange_process_data(h, outputs, .., inputs, .., timeout).        *)
(* withOutputs: the caller passes an output buffer, whose content laid     *)
(* over the zeroed output image is img.  The timeout is the window in      *)
(* which the frame may be lost.                                            *)
ExchangeProcessData(withOutputs, img) ==
    LET out == IF withOutputs /\ \E s \in found : SlaveObytes[s] > 0
               THEN [s \in Slaves |-> IF s \in found /\ SlaveObytes[s] > 0
                                      THEN img[s] ELSE outImg[s]]
               ELSE outImg
        expected == ExpectedWkc(found)
    IN
    /\ outImg' = out
    /\ \/ /\ faults < MaxFaults          \* ecx_send_processdata < 0
          /\ faults' = faults + 1
          /\ ret' = Ret("exchange", SOEM_ERR_SEND_FAIL)
          /\ UNCHANGED <<lastWkc, lastExpWkc, busOk>>
       \/ /\ faults < MaxFaults          \* no frame back within timeout
          /\ faults' = faults + 1
          /\ lastWkc' = EC_NOFRAME
          /\ lastExpWkc' = expected
          /\ ret' = Ret("exchange", SOEM_ERR_RECV_FAIL)
          /\ UNCHANGED busOk
       \/ /\ lastWkc' = Wkc(found)
          /\ lastExpWkc' = expected
          /\ ret' = Ret("exchange", ExchangeResult(Wkc(found), expected))
          /\ busOk' = AllExchanging
          /\ UNCHANGED faults
    /\ UNCHANGED <<al, err, online, alctl>>

Exchange ==
    /\ pc = "idle"
    /\ session
    /\ \/ ExchangeProcessData(FALSE, outImg)
       \/ \E img \in [Slaves -> CallerRecords \cup {"Zero"}] :
             ExchangeProcessData(TRUE, img)
    /\ UNCHANGED <<pc, session, found, cache, cycles>>

-----------------------------------------------------------------------------
(* soem_initialize, split at its bus round trips.                          *)

\* calloc, ecx_init, ecx_config_init, the IOmap, ecx_config_map_group,
\* ecx_configdc and the NOP staging.  ecx_config_init brings every slave
\* that answers to PREOP and discovers it; ecx_config_map_group requests
\* SAFEOP of the discovered slaves.
InitConfigure ==
    LET f == {s \in Slaves : online[s]}
        preop == [s \in Slaves |-> IF online[s] THEN PREOP ELSE al[s]]
        clear == [s \in Slaves |-> err[s] /\ ~online[s]]
        safeReq == [s \in Slaves |-> IF s \in f
                                     THEN [st |-> SAFEOP, ack |-> FALSE]
                                     ELSE alctl[s]]
    IN
    /\ pc = "idle"
    /\ ~session
    /\ \/ /\ ret' = Ret("initialize", 0)  \* calloc or ecx_init fails
          /\ UNCHANGED <<busVars, pc, found, cache, outImg, lastWkc,
                         lastExpWkc>>
       \/ /\ f # {}
          /\ al' = preop
          /\ err' = clear
          /\ \/ /\ alctl' = [s \in Slaves |-> IF s \in f THEN NoReq
                                              ELSE alctl[s]]
                \* malloc fails, or ecx_config_map_group returns <= 0
             \/ alctl' = safeReq  \* mapped size exceeds the IOmap
          /\ ret' = Ret("initialize", 0)
          /\ UNCHANGED <<online, faults, pc, found, cache,
                         outImg, lastWkc, lastExpWkc>>
       \/ /\ f # {}
          /\ \E s \in f : SlaveObytes[s] + SlaveIbytes[s] > 0  \* mapped > 0
          /\ al' = preop
          /\ err' = clear
          /\ alctl' = safeReq
          /\ found' = f
          /\ cache' = [s \in Slaves |-> IF s \in f THEN PREOP ELSE NONE]
          /\ outImg' = StagedOutputs(f)
          /\ lastWkc' = -1
          /\ lastExpWkc' = 0
          /\ pc' = "init_probe"
          /\ UNCHANGED <<online, faults, ret>>
    /\ UNCHANGED <<session, cycles, busOk>>

\* The probe cycle on the staged image; its result is only logged.
InitProbe ==
    /\ pc = "init_probe"
    /\ ExchangeProcessData(FALSE, outImg)
    /\ pc' = "init_op"
    /\ UNCHANGED <<session, found, cache, cycles>>

\* Mutant of InitRequestOp: the OP write goes out without the SAFEOP wait.
InitRequestOpNoWait ==
    /\ pc = "init_op"
    /\ alctl' = BroadcastAlControl(OP)
    /\ pc' = "idle"
    /\ session' = TRUE
    /\ ret' = Ret("initialize", 1)
    /\ UNCHANGED <<al, err, online, faults, found, cache, outImg,
                   lastWkc, lastExpWkc, cycles, busOk>>

\* Wait for SAFEOP, write OP to the group, wait for OP; neither wait can
\* fail the call, and the handle is returned.  The SAFEOP wait lasts up to
\* 4 * EC_TIMEOUTSTATE, far longer than a slave takes to read its AL
\* control, so it ends with every answering slave having read the SAFEOP
\* request, whether or not it reached SAFEOP.
InitRequestOp ==
    /\ pc = "init_op"
    /\ RequestsTaken(found)
    /\ alctl' = BroadcastAlControl(OP)
    /\ pc' = "idle"
    /\ session' = TRUE
    /\ ret' = Ret("initialize", 1)
    /\ UNCHANGED <<al, err, online, faults, found, cache, outImg,
                   lastWkc, lastExpWkc, cycles, busOk>>

\* soem_shutdown: INIT written to the group, port closed, handle freed.
Shutdown ==
    /\ pc = "idle"
    /\ session
    /\ alctl' = BroadcastAlControl(INIT)
    /\ session' = FALSE
    /\ found' = {}
    /\ cache' = [s \in Slaves |-> NONE]
    /\ ret' = Ret("shutdown", 0)
    /\ UNCHANGED <<al, err, online, faults, pc, outImg, lastWkc,
                   lastExpWkc, cycles, busOk>>

-----------------------------------------------------------------------------
(* Record access: soem_write_rxpdo packs a record into s's output region,  *)
(* soem_read_txpdo unpacks s's input region (no state changes).            *)

WriteRxPdo(s, r) ==
    /\ pc = "idle"
    /\ session
    /\ \/ /\ RxPdoFits(s)
          /\ outImg' = [outImg EXCEPT ![s] = r]
          /\ ret' = Ret("write_rxpdo", 1)
       \/ /\ ~RxPdoFits(s)
          /\ ret' = Ret("write_rxpdo", 0)
          /\ UNCHANGED outImg
    /\ UNCHANGED <<busVars, pc, session, found, cache, lastWkc, lastExpWkc,
                   cycles, busOk>>

ReadTxPdo(s) ==
    /\ pc = "idle"
    /\ session
    /\ ret' = Ret("read_txpdo", IF TxPdoFits(s) THEN 1 ELSE 0)
    /\ UNCHANGED <<busVars, pc, session, found, cache, outImg, lastWkc,
                   lastExpWkc, cycles, busOk>>

-----------------------------------------------------------------------------
(* soem_try_recover(h, timeout_ms), split at its bus round trips.          *)

\* ecx_readstate, then SAFEOP+ACK written to every slave read in error.
RecoverAck ==
    LET rd == ReadState IN
    /\ pc = "idle"
    /\ session
    /\ cache' = [s \in Slaves |-> IF s \in found /\ rd[s] >= ERRBIT
                                  THEN SAFEOP + ERRBIT ELSE rd[s]]
    /\ alctl' = WriteAlControl({s \in found : rd[s] >= ERRBIT},
                                [st |-> SAFEOP, ack |-> TRUE])
    /\ pc' = "rec_op"
    /\ UNCHANGED <<al, err, online, faults, session, found, outImg,
                   lastWkc, lastExpWkc, cycles, ret, busOk>>

\* OP written to the group.
RecoverRequestOp ==
    /\ pc = "rec_op"
    /\ alctl' = BroadcastAlControl(OP)
    /\ cycles' = 0
    /\ pc' = "rec_cycle"
    /\ UNCHANGED <<al, err, online, faults, session, found, cache,
                   outImg, lastWkc, lastExpWkc, ret, busOk>>

\* Mutant of RecoverCycle: the loop runs for k <= 3 instead of k < 3.
RecoverCycleOneMore ==
    /\ pc = "rec_cycle"
    /\ \/ /\ faults < MaxFaults
          /\ faults' = faults + 1
       \/ UNCHANGED faults
    /\ cycles' = cycles + 1
    /\ pc' = IF cycles + 1 = 4 THEN "rec_check" ELSE "rec_cycle"
    /\ UNCHANGED <<al, err, online, alctl, session, found, cache, outImg,
                   lastWkc, lastExpWkc, ret, busOk>>

\* One of three blind send/receive cycles; their results are ignored.
RecoverCycle ==
    /\ pc = "rec_cycle"
    /\ \/ /\ faults < MaxFaults          \* the frame is lost
          /\ faults' = faults + 1
       \/ UNCHANGED faults
    /\ cycles' = cycles + 1
    /\ pc' = IF cycles + 1 = 3 THEN "rec_check" ELSE "rec_cycle"
    /\ UNCHANGED <<al, err, online, alctl, session, found, cache, outImg,
                   lastWkc, lastExpWkc, ret, busOk>>

\* ecx_statecheck of the group for OP (a broadcast read), then the check of
\* every slave's state in slavelist.
RecoverCheck ==
    LET st == AlStatusOr IN
    /\ pc = "rec_check"
    /\ ret' = [op |-> "recover",
               rc |-> IF st = OP /\ \A s \in found : cache[s] = OP
                      THEN 1 ELSE 0,
               val |-> st]
    /\ busOk' = AllFoundOp
    /\ pc' = "idle"
    /\ UNCHANGED <<busVars, session, found, cache, outImg, lastWkc,
                   lastExpWkc, cycles>>

-----------------------------------------------------------------------------
(* soem_get_health: ecx_readstate and the count of slaves read in OP.      *)
GetHealth ==
    LET rd == ReadState IN
    /\ pc = "idle"
    /\ session
    /\ cache' = rd
    /\ ret' = [op |-> "health", rc |-> 1,
               val |-> Cardinality({s \in found : rd[s] = OP})]
    /\ UNCHANGED <<busVars, pc, session, found, outImg, lastWkc, lastExpWkc,
                   cycles, busOk>>

-----------------------------------------------------------------------------
ShimNext ==
    \/ InitConfigure
    \/ InitProbe
    \/ InitRequestOp
    \/ Shutdown
    \/ Exchange
    \/ \E s \in Slaves, r \in CallerRecords : WriteRxPdo(s, r)
    \/ \E s \in Slaves : ReadTxPdo(s)
    \/ RecoverAck
    \/ RecoverRequestOp
    \/ RecoverCycle
    \/ RecoverCheck
    \/ GetHealth

Next ==
    \/ ShimNext
    \/ BusNext /\ UNCHANGED shimVars

Spec == Init /\ [][Next]_vars

\* Every call of the shim runs to its end once started: each step of
\* initialize and try_recover after the first is taken (the C function does
\* not wait on the caller).  A slave eventually handles a request written to
\* its AL control register (the slave's firmware polls it).  The caller,
\* faults and link changes get no fairness.
Fairness ==
    /\ WF_vars(InitProbe)
    /\ WF_vars(InitRequestOp)
    /\ WF_vars(RecoverRequestOp)
    /\ WF_vars(RecoverCycle)
    /\ WF_vars(RecoverCheck)
    /\ \A s \in Slaves : WF_vars(SlaveAlControl(s) /\ UNCHANGED shimVars)

FairSpec == Spec /\ Fairness

-----------------------------------------------------------------------------
(* Properties.                                                             *)

\* Bring-up reaches OP (soem_initialize, lines 409-413): once initialize has
\* mapped the bus, a discovered slave that answers, is not in error (bring-up
\* never acknowledges) and meets no further fault reaches OP, unless the session is shut down first.  It needs the
\* SAFEOP wait before the OP write: an OP write over an unread SAFEOP
\* request is refused and the slave stops in SAFEOP.
InitReachesOp ==
    \A s \in Slaves :
        (pc = "init_op" /\ s \in found /\ online[s] /\ ~err[s]
            /\ faults = MaxFaults)
        ~> (al[s] = OP \/ (pc = "idle" /\ ~session))

\* Recovery restores OP (soem_try_recover, spec 4.2): a slave that
\* try_recover acknowledged, which answers and meets no further fault,
\* reaches OP without another call, unless the session is shut down.
RecoverRestoresOp ==
    \A s \in Slaves :
        (pc = "rec_op" /\ alctl[s].ack /\ online[s] /\ faults = MaxFaults)
            ~> (al[s] = OP \/ (pc = "idle" /\ ~session))

\* Working-counter integrity (soem_exchange_process_data): when an exchange
\* reports success against a positive expected WKC, every discovered slave
\* with a mapped region really was online and exchanging that region in the
\* frame: a dropout or a slave fallen out of OP always shows as WKC_LOW.
WkcIntegrity ==
    (ret.op = "exchange" /\ ret.rc >= 0 /\ lastExpWkc > 0) => busOk

\* No false dropout alarm (soem_exchange_process_data, spec 4.3: WKC_LOW is
\* "the primary signal of a slave dropout or desync"): an exchange reports
\* WKC_LOW only when some discovered slave really was not exchanging a
\* mapped region in that frame.
WkcLowMeansDropout ==
    (ret.op = "exchange" /\ ret.rc = SOEM_ERR_WKC_LOW) => ~busOk

\* Recovery completeness (soem_try_recover, spec 4.2): when the group check
\* finds OP and every discovered slave really is in OP, recovery reports
\* success.
RecoverComplete ==
    (ret.op = "recover" /\ ret.val = OP /\ busOk) => ret.rc = 1

\* Recovery soundness (soem_try_recover, spec 4.2): recovery reports
\* success only if every discovered slave really was in OP at the check.
RecoverSound ==
    (ret.op = "recover" /\ ret.rc = 1) => busOk

=============================================================================
