----------------------------- MODULE EtherCATBus -----------------------------
(***************************************************************************)
(* The slaves on the wire, as the shim sees them through the SOEM stack.   *)
(* This is the external collaborator of the shim (spec section 1): it is   *)
(* not code of this repository, so nothing here is translated from src/.   *)
(* It states what the shim relies on: each slave runs the EtherCAT         *)
(* application-layer (AL) state machine INIT < PREOP < SAFEOP < OP with an *)
(* orthogonal error flag, takes state requests through its AL control      *)
(* register, answers process-data frames according to its state, and may  *)
(* lose its link or drop to SAFEOP+ERROR at any time (bounded by           *)
(* MaxFaults so that the models stay finite).                              *)
(***************************************************************************)
EXTENDS Integers, FiniteSets

CONSTANTS
    Slaves,        \* the devices on the bus
    SlaveObytes,   \* per slave: bytes of its output (RxPDO) region
    SlaveIbytes,   \* per slave: bytes of its input (TxPDO) region
    MaxFaults      \* bound on link losses, watchdog faults and lost frames

ASSUME BusAssumption ==
    /\ IsFiniteSet(Slaves)
    /\ SlaveObytes \in [Slaves -> Nat]
    /\ SlaveIbytes \in [Slaves -> Nat]
    /\ MaxFaults \in Nat

\* AL state codes (ec_state in SOEM); EC_STATE_ACK has the value of ERRBIT.
NONE   == 0
INIT   == 1
PREOP  == 2
SAFEOP == 4
OP     == 8
ERRBIT == 16

AlStates == {INIT, PREOP, SAFEOP, OP}

\* A pending write to a slave's AL control register: the requested state and
\* the acknowledge bit.  NoReq: nothing written since the slave last read it.
AlRequests == [st : AlStates, ack : BOOLEAN]
NoReq == [st |-> NONE, ack |-> FALSE]

VARIABLES
    al,       \* al[s]: AL state of slave s
    err,      \* err[s]: error indication flag of slave s
    online,   \* online[s]: slave s answers frames
    alctl,    \* alctl[s]: request written to s's AL control, not yet handled
    faults    \* faults injected so far

busVars == <<al, err, online, alctl, faults>>

BusTypeOK ==
    /\ al \in [Slaves -> AlStates]
    /\ err \in [Slaves -> BOOLEAN]
    /\ online \in [Slaves -> BOOLEAN]
    /\ alctl \in [Slaves -> AlRequests \cup {NoReq}]
    /\ faults \in 0..MaxFaults

BusInit ==
    /\ al = [s \in Slaves |-> INIT]
    /\ err = [s \in Slaves |-> FALSE]
    /\ online = [s \in Slaves |-> TRUE]
    /\ alctl = [s \in Slaves |-> NoReq]
    /\ faults = 0

\* The AL transitions a slave accepts: any step down, and one step up.
ValidTransition(from, to) ==
    \/ to <= from
    \/ <<from, to>> \in {<<INIT, PREOP>>, <<PREOP, SAFEOP>>, <<SAFEOP, OP>>}

\* The status word a read of s's AL status returns (0 when s does not answer).
AlStatus(s) ==
    IF online[s] THEN al[s] + (IF err[s] THEN ERRBIT ELSE 0) ELSE NONE

\* A broadcast read of the AL status returns the OR of the status words of
\* the slaves that answer; SOEM masks it with 0x0f.  The states are distinct
\* powers of two, so the OR of the present ones is their sum.
AlStatusOr ==
    LET Present(st) == IF \E s \in Slaves : online[s] /\ al[s] = st
                       THEN st ELSE 0
    IN  Present(INIT) + Present(PREOP) + Present(SAFEOP) + Present(OP)

\* A write of request req to the AL control registers of the slaves in
\* `targets`.  It reaches only the slaves that are online, and an ESC whose
\* register still holds a request its firmware has not read (AL control
\* with device emulation off) refuses the write: that slave keeps the
\* earlier request and the new one is lost.
WriteAlControl(targets, req) ==
    [s \in Slaves |-> IF s \in targets /\ online[s] /\ alctl[s] = NoReq
                     THEN req ELSE alctl[s]]

\* Broadcast write of state st to every AL control register (ecx_writestate
\* of slave 0): it reaches the slaves that are online, discovered or not.
BroadcastAlControl(st) == WriteAlControl(Slaves, [st |-> st, ack |-> FALSE])

\* Every slave of S that answers has read its AL control register.
RequestsTaken(S) == \A s \in S : online[s] => alctl[s] = NoReq

\* The working counter of one LRW process-data frame over the slaves in
\* `group`: +2 for each slave that writes its outputs (in OP), +1 for each
\* slave that returns its inputs (in SAFEOP or OP).
Wkc(group) ==
    2 * Cardinality({s \in group : online[s] /\ SlaveObytes[s] > 0
                                   /\ al[s] = OP})
    + Cardinality({s \in group : online[s] /\ SlaveIbytes[s] > 0
                                 /\ al[s] \in {SAFEOP, OP}})

-----------------------------------------------------------------------------
(* Environment steps.                                                      *)

\* Slave s handles the request in its AL control register: without ACK it
\* is ignored while the error flag is up; an invalid transition raises the
\* flag and leaves the state; a valid one is taken and clears the flag.
SlaveAlControl(s) ==
    LET r == alctl[s] IN
    /\ r # NoReq
    /\ alctl' = [alctl EXCEPT ![s] = NoReq]
    /\ \/ /\ err[s] /\ ~r.ack
          /\ UNCHANGED <<al, err>>
       \/ /\ ~err[s] \/ r.ack
          /\ ValidTransition(al[s], r.st)
          /\ al' = [al EXCEPT ![s] = r.st]
          /\ err' = [err EXCEPT ![s] = FALSE]
       \/ /\ ~err[s] \/ r.ack
          /\ ~ValidTransition(al[s], r.st)
          /\ err' = [err EXCEPT ![s] = TRUE]
          /\ UNCHANGED al
    /\ UNCHANGED <<online, faults>>

\* A watchdog or synchronisation fault: SAFEOP or OP drops to SAFEOP+ERROR.
SlaveFault(s) ==
    /\ faults < MaxFaults
    /\ al[s] \in {SAFEOP, OP}
    /\ ~err[s]
    /\ al' = [al EXCEPT ![s] = SAFEOP]
    /\ err' = [err EXCEPT ![s] = TRUE]
    /\ faults' = faults + 1
    /\ UNCHANGED <<online, alctl>>

\* The link to s is lost; s keeps its state but no longer answers.
LinkLoss(s) ==
    /\ faults < MaxFaults
    /\ online[s]
    /\ online' = [online EXCEPT ![s] = FALSE]
    /\ faults' = faults + 1
    /\ UNCHANGED <<al, err, alctl>>

\* The link to s comes back.
LinkRestore(s) ==
    /\ ~online[s]
    /\ online' = [online EXCEPT ![s] = TRUE]
    /\ UNCHANGED <<al, err, alctl, faults>>

BusNext ==
    \E s \in Slaves :
        \/ SlaveAlControl(s)
        \/ SlaveFault(s)
        \/ LinkLoss(s)
        \/ LinkRestore(s)

=============================================================================
