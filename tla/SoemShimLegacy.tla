---------------------------- MODULE SoemShimLegacy ----------------------------
(***************************************************************************)
(* The legacy shim (src/native/soemshim/soem_shim.c), the fixed-buffer     *)
(* variant kept beside the Linux shim, driving the same bus.  Its handle   *)
(* holds a 4096-byte IOmap that calloc zeroes; it has no NOP staging, no   *)
(* probe cycle, no recovery and no record access, and its exchange         *)
(* returns SOEM's raw working counter without comparing it to the         *)
(* expected one.                                                           *)
(*                                                                         *)
(* As in SoemShim one caller drives one handle, so calls never overlap;    *)
(* soem_initialize is split at its bounded wait for SAFEOP, during which   *)
(* the slaves move.  The caller's output buffer is a prefix of the output  *)
(* image: SOEM lays the output regions out in slave position order, and a  *)
(* buffer of outputs_length bytes reaches the regions of the first slaves. *)
(* A buffer that ends inside a region is taken to reach all of it.         *)
(***************************************************************************)
EXTENDS EtherCATBus

CONSTANTS
    CallerRecords, \* the records a caller puts in an output region
    Position       \* Position[s]: the bus position of slave s

OutRecords == {"Zero", "Nop", "Move"}

ASSUME LegacyAssumption ==
    /\ CallerRecords \subseteq OutRecords
    /\ Position \in [Slaves -> Nat]

\* ecx_receive_processdata's result when no frame came back; the legacy
\* exchange also returns the negative result of a failed send as it is,
\* which the model takes to be the same value.
EC_NOFRAME == -1

Ops == {"none", "initialize", "shutdown", "exchange", "slave_count",
        "process_sizes", "scan_slaves"}

VARIABLES
    pc,          \* "idle" between calls, "init_op" in soem_initialize
    session,     \* a handle has been returned and not yet shut down
    found,       \* the slaves ecx_config_init discovered
    outImg,      \* outImg[s]: the output region of s in the IOmap
    ret,         \* the last call and what it returned
    busOk,       \* ghost: every discovered slave was exchanging its
                 \* regions when the last frame came back
    covered      \* ghost: the regions the last exchange's caller buffer
                 \* reached (every discovered slave when it passed none)

legacyVars == <<pc, session, found, outImg, ret, busOk, covered>>
vars == <<busVars, legacyVars>>

TypeOK ==
    /\ BusTypeOK
    /\ pc \in {"idle", "init_op"}
    /\ session \in BOOLEAN
    /\ found \subseteq Slaves
    /\ outImg \in [Slaves -> OutRecords]
    /\ ret \in [op : Ops, rc : Int]
    /\ busOk \in BOOLEAN
    /\ covered \subseteq Slaves

Init ==
    /\ BusInit
    /\ pc = "idle"
    /\ session = FALSE
    /\ found = {}
    /\ outImg = [s \in Slaves |-> "Zero"]
    /\ ret = [op |-> "none", rc |-> 0]
    /\ busOk = FALSE
    /\ covered = {}

Ret(op, rc) == [op |-> op, rc |-> rc]

\* Every discovered slave with a mapped region is online and in the state
\* that region needs: OP for outputs, SAFEOP or OP for inputs.
AllExchanging ==
    \A s \in found :
        /\ SlaveObytes[s] > 0 => online[s] /\ al[s] = OP
        /\ SlaveIbytes[s] > 0 => online[s] /\ al[s] \in {SAFEOP, OP}

\* The discovered slaves with an output region in group 0.
OutSlaves == {s \in found : SlaveObytes[s] > 0}

\* The regions a caller buffer reaching the region at position p covers.
Prefix(p) == {s \in OutSlaves : Position[s] <= p}

-----------------------------------------------------------------------------
(* soem_initialize, split at ecx_statecheck(SAFE_OP).                      *)

\* calloc, ecx_init and ecx_config_init; a failure of either returns NULL
\* and leaves the bus as it was (ecx_config_init fails only when no slave
\* answers).  Otherwise every slave that answers is brought to PREOP and
\* discovered, ecx_config_map_group maps the zeroed IOmap and requests
\* SAFEOP, and ecx_configdc changes nothing the model tells apart.
InitConfigure ==
    LET f == {s \in Slaves : online[s]} IN
    /\ pc = "idle"
    /\ ~session
    /\ \/ /\ ret' = Ret("initialize", 0)
          /\ UNCHANGED <<busVars, pc, found, outImg>>
       \/ /\ f # {}
          /\ al' = [s \in Slaves |-> IF online[s] THEN PREOP ELSE al[s]]
          /\ err' = [s \in Slaves |-> err[s] /\ ~online[s]]
          /\ alctl' = [s \in Slaves |-> IF s \in f
                                        THEN [st |-> SAFEOP, ack |-> FALSE]
                                        ELSE alctl[s]]
          /\ found' = f
          /\ outImg' = [s \in Slaves |-> "Zero"]
          /\ pc' = "init_op"
          /\ UNCHANGED <<online, faults, ret>>
    /\ UNCHANGED <<session, busOk, covered>>

\* Mutant of InitRequestOp: the OP write goes out without the SAFEOP wait.
InitRequestOpNoWait ==
    /\ pc = "init_op"
    /\ alctl' = BroadcastAlControl(OP)
    /\ pc' = "idle"
    /\ session' = TRUE
    /\ ret' = Ret("initialize", 1)
    /\ UNCHANGED <<al, err, online, faults, found, outImg, busOk, covered>>

\* The wait for SAFEOP has ended, reached or not (its result is ignored);
\* OP is written to the group, the wait for OP is ignored as well, and the
\* handle is returned.  The wait (4 * EC_TIMEOUTSTATE) outlasts a slave's
\* read of its AL control, so every answering slave has read the request.
InitRequestOp ==
    /\ pc = "init_op"
    /\ RequestsTaken(found)
    /\ alctl' = BroadcastAlControl(OP)
    /\ pc' = "idle"
    /\ session' = TRUE
    /\ ret' = Ret("initialize", 1)
    /\ UNCHANGED <<al, err, online, faults, found, outImg, busOk, covered>>

\* soem_shutdown: INIT written to the group, port closed, handle freed.
Shutdown ==
    /\ pc = "idle"
    /\ session
    /\ alctl' = BroadcastAlControl(INIT)
    /\ session' = FALSE
    /\ found' = {}
    /\ ret' = Ret("shutdown", 0)
    /\ UNCHANGED <<al, err, online, faults, pc, outImg, busOk, covered>>

-----------------------------------------------------------------------------
(* The getters read the handle and change nothing.                         *)

GetSlaveCount ==
    /\ pc = "idle"
    /\ session
    /\ ret' = Ret("slave_count", Cardinality(found))
    /\ UNCHANGED <<busVars, pc, session, found, outImg, busOk, covered>>

\* ptrsOk: the caller passed both out-pointers.
GetProcessSizes(ptrsOk) ==
    /\ pc = "idle"
    /\ session
    /\ ret' = Ret("process_sizes", IF ptrsOk THEN 1 ELSE 0)
    /\ UNCHANGED <<busVars, pc, session, found, outImg, busOk, covered>>

\* max: max_count; a NULL buffer is a max_count the call refuses.
ScanSlaves(max) ==
    /\ pc = "idle"
    /\ session
    /\ ret' = Ret("scan_slaves", IF max <= 0 THEN 0
                                 ELSE IF Cardinality(found) > max THEN max
                                 ELSE Cardinality(found))
    /\ UNCHANGED <<busVars, pc, session, found, outImg, busOk, covered>>

-----------------------------------------------------------------------------
(* soem_exchange_process_data(h, outputs, len, inputs, len, timeout).      *)
(* reach: the regions the caller's buffer reaches (none: no buffer), whose *)
(* records are img.  The copy happens before the send, whatever follows.   *)
ExchangeProcessData(reach, img) ==
    /\ outImg' = [s \in Slaves |-> IF s \in reach THEN img[s]
                                   ELSE outImg[s]]
    /\ covered' = IF reach = {} THEN found ELSE reach
    /\ \/ /\ faults < MaxFaults          \* ecx_send_processdata < 0
          /\ faults' = faults + 1
          /\ ret' = Ret("exchange", EC_NOFRAME)
          /\ UNCHANGED busOk
       \/ /\ faults < MaxFaults          \* no frame back within timeout
          /\ faults' = faults + 1
          /\ ret' = Ret("exchange", EC_NOFRAME)
          /\ UNCHANGED busOk
       \/ /\ ret' = Ret("exchange", Wkc(found))
          /\ busOk' = AllExchanging
          /\ UNCHANGED faults
    /\ UNCHANGED <<al, err, online, alctl>>

Exchange ==
    /\ pc = "idle"
    /\ session
    /\ \/ ExchangeProcessData({}, outImg)
       \/ \E p \in {Position[s] : s \in OutSlaves},
             img \in [Slaves -> CallerRecords \cup {"Zero"}] :
             ExchangeProcessData(Prefix(p), img)
    /\ UNCHANGED <<pc, session, found>>

-----------------------------------------------------------------------------
Next ==
    \/ InitConfigure
    \/ InitRequestOp
    \/ Shutdown
    \/ Exchange
    \/ GetSlaveCount
    \/ \E ok \in BOOLEAN : GetProcessSizes(ok)
    \/ \E max \in 0..Cardinality(Slaves) + 1 : ScanSlaves(max)
    \/ BusNext /\ UNCHANGED legacyVars

Spec == Init /\ [][Next]_vars

\* soem_initialize runs to its end once started, and a slave eventually
\* reads a request written to its AL control register (its firmware polls
\* the register).  The caller and the faults get no fairness.
Fairness ==
    /\ WF_vars(InitRequestOp)
    /\ \A s \in Slaves : WF_vars(SlaveAlControl(s) /\ UNCHANGED legacyVars)

FairSpec == Spec /\ Fairness

-----------------------------------------------------------------------------
(* Properties.                                                             *)

\* Bring-up reaches OP (soem_initialize, lines 53-56): once initialize has
\* mapped the bus, a discovered slave that answers, is not in error and
\* meets no further fault reaches OP, unless the session is shut down
\* first.  It needs the SAFEOP wait before the OP write.
InitReachesOp ==
    \A s \in Slaves :
        (pc = "init_op" /\ s \in found /\ online[s] /\ ~err[s]
            /\ faults = MaxFaults)
        ~> (al[s] = OP \/ (pc = "idle" /\ ~session))

\* The spec's exchange contract (zero the output region, then copy the
\* caller's bytes): after an exchange with a caller buffer, a discovered
\* slave's region holds a motion command only if that buffer reached it.
NoStaleMotion ==
    ret.op = "exchange" =>
        \A s \in found : outImg[s] = "Move" => s \in covered

\* The spec's WKC policy: an exchange that returns a non-negative count
\* was answered by every discovered slave with the state its regions need.
LegacyWkcChecked ==
    (ret.op = "exchange" /\ ret.rc >= 0) => busOk
=============================================================================
