--------------------------- MODULE EtherCATBusProofs ---------------------------
(***************************************************************************)
(* Facts about the bus that every shim model's proofs rest on.             *)
(***************************************************************************)
EXTENDS EtherCATBus, FiniteSetTheorems, TLAPS

USE BusAssumption
USE DEF NONE, INIT, PREOP, SAFEOP, OP, ERRBIT

\* A write of a request to AL control registers leaves every register with
\* a request or none.
LEMMA WriteAlControlTyped ==
    ASSUME BusTypeOK, NEW targets, NEW req \in AlRequests
    PROVE  WriteAlControl(targets, req) \in [Slaves -> AlRequests \cup {NoReq}]
BY DEF WriteAlControl, BusTypeOK

\* A broadcast write of an AL state leaves every register with a request.
LEMMA BroadcastTyped ==
    ASSUME BusTypeOK, NEW st \in AlStates
    PROVE  BroadcastAlControl(st) \in [Slaves -> AlRequests \cup {NoReq}]
<1>1. [st |-> st, ack |-> FALSE] \in AlRequests
  BY DEF AlRequests
<1>2. QED
  BY <1>1, WriteAlControlTyped DEF BroadcastAlControl

\* Every step of the slaves keeps the bus well typed.
LEMMA BusStepTyped ==
    ASSUME BusTypeOK, BusNext PROVE BusTypeOK'
<1>1. PICK s \in Slaves : \/ SlaveAlControl(s) \/ SlaveFault(s)
                          \/ LinkLoss(s) \/ LinkRestore(s)
  BY Zenon DEF BusNext
<1>2. CASE SlaveAlControl(s)
  <2>1. alctl[s] \in AlRequests
    BY <1>2, Zenon DEF SlaveAlControl, BusTypeOK
  <2>2. al' \in [Slaves -> AlStates]
    <3>1. al' = al \/ al' = [al EXCEPT ![s] = alctl[s].st]
      BY <1>2, Zenon DEF SlaveAlControl
    <3>2. QED
      BY <2>1, <3>1 DEF BusTypeOK, AlRequests
  <2>3. err' \in [Slaves -> BOOLEAN]
    <3>1. \/ err' = err
          \/ err' = [err EXCEPT ![s] = FALSE]
          \/ err' = [err EXCEPT ![s] = TRUE]
      BY <1>2, Zenon DEF SlaveAlControl
    <3>2. QED
      BY <3>1, Zenon DEF BusTypeOK
  <2>4. alctl' \in [Slaves -> AlRequests \cup {NoReq}]
    <3>1. alctl' = [alctl EXCEPT ![s] = NoReq]
      BY <1>2, Zenon DEF SlaveAlControl
    <3>2. QED
      BY <3>1 DEF BusTypeOK
  <2>5. UNCHANGED <<online, faults>>
    BY <1>2, Zenon DEF SlaveAlControl
  <2>6. QED
    BY <2>2, <2>3, <2>4, <2>5 DEF BusTypeOK
<1>3. CASE SlaveFault(s)
  <2>1. /\ faults < MaxFaults /\ faults' = faults + 1
        /\ al' = [al EXCEPT ![s] = SAFEOP]
        /\ UNCHANGED <<online, alctl>>
    BY <1>3, Zenon DEF SlaveFault
  <2>2. err' \in [Slaves -> BOOLEAN]
    <3>1. err' = [err EXCEPT ![s] = TRUE]
      BY <1>3, Zenon DEF SlaveFault
    <3>2. QED
      BY <3>1, Zenon DEF BusTypeOK
  <2>3. al' \in [Slaves -> AlStates]
    <3>1. SAFEOP \in AlStates
      BY DEF AlStates
    <3>2. QED
      BY <2>1, <3>1 DEF BusTypeOK
  <2>4. faults' \in 0..MaxFaults
    BY <2>1 DEF BusTypeOK
  <2>5. QED
    BY <2>1, <2>2, <2>3, <2>4 DEF BusTypeOK
<1>4. CASE LinkLoss(s)
  <2>1. /\ faults < MaxFaults /\ faults' = faults + 1
        /\ UNCHANGED <<al, err, alctl>>
    BY <1>4, Zenon DEF LinkLoss
  <2>2. online' \in [Slaves -> BOOLEAN]
    <3>1. online' = [online EXCEPT ![s] = FALSE]
      BY <1>4, Zenon DEF LinkLoss
    <3>2. QED
      BY <3>1, Zenon DEF BusTypeOK
  <2>3. QED
    BY <2>1, <2>2 DEF BusTypeOK
<1>5. CASE LinkRestore(s)
  <2>1. UNCHANGED <<al, err, alctl, faults>>
    BY <1>5, Zenon DEF LinkRestore
  <2>2. online' \in [Slaves -> BOOLEAN]
    <3>1. online' = [online EXCEPT ![s] = TRUE]
      BY <1>5, Zenon DEF LinkRestore
    <3>2. QED
      BY <3>1, Zenon DEF BusTypeOK
  <2>3. QED
    BY <2>1, <2>2 DEF BusTypeOK
<1>6. QED
  BY <1>1, <1>2, <1>3, <1>4, <1>5
-----------------------------------------------------------------------------
(* The working counter of a frame.  Each slave adds at most its own share  *)
(* (2 for writing its outputs, 1 for returning its inputs), so a group's   *)
(* frame reaches the sum of the shares, SOEM's outputsWKC * 2 + inputsWKC, *)
(* exactly when every slave with a mapped region is exchanging it.         *)

\* The working counter of a frame that every slave of g exchanges.
FullWkc(g) ==
    2 * Cardinality({s \in g : SlaveObytes[s] > 0})
    + Cardinality({s \in g : SlaveIbytes[s] > 0})

\* Every slave of g with a mapped region is online and in the state that
\* region needs.
Exchanging(g) ==
    \A s \in g :
        /\ SlaveObytes[s] > 0 => online[s] /\ al[s] = OP
        /\ SlaveIbytes[s] > 0 => online[s] /\ al[s] \in {SAFEOP, OP}

\* The slaves of g that write their outputs into a frame, and that return
\* their inputs in it; and the slaves of g with an output, an input region.
Writers(g) == {s \in g : online[s] /\ SlaveObytes[s] > 0 /\ al[s] = OP}
Readers(g) == {s \in g : online[s] /\ SlaveIbytes[s] > 0
                         /\ al[s] \in {SAFEOP, OP}}
OutMapped(g) == {s \in g : SlaveObytes[s] > 0}
InMapped(g) == {s \in g : SlaveIbytes[s] > 0}

\* The sets the working counter counts, and what the counting needs of them.
LEMMA WkcSets ==
    ASSUME NEW g \in SUBSET Slaves
    PROVE  /\ Cardinality(Writers(g)) \in Nat
           /\ Cardinality(Readers(g)) \in Nat
           /\ Cardinality(OutMapped(g)) \in Nat
           /\ Cardinality(InMapped(g)) \in Nat
           /\ Cardinality(Writers(g)) <= Cardinality(OutMapped(g))
           /\ Cardinality(Readers(g)) <= Cardinality(InMapped(g))
           /\ Cardinality(Writers(g)) = Cardinality(OutMapped(g))
                => Writers(g) = OutMapped(g)
           /\ Cardinality(Readers(g)) = Cardinality(InMapped(g))
                => Readers(g) = InMapped(g)
<1>1. IsFiniteSet(OutMapped(g)) /\ IsFiniteSet(InMapped(g))
  BY FS_Subset DEF OutMapped, InMapped
<1>2. Writers(g) \subseteq OutMapped(g) /\ Readers(g) \subseteq InMapped(g)
  BY DEF Writers, Readers, OutMapped, InMapped
<1>3. QED
  BY <1>1, <1>2, FS_Subset, FS_CardinalityType

\* Both counters in terms of those sets.
LEMMA WkcShape ==
    ASSUME NEW g \in SUBSET Slaves
    PROVE  /\ Wkc(g) = 2 * Cardinality(Writers(g)) + Cardinality(Readers(g))
           /\ FullWkc(g) = 2 * Cardinality(OutMapped(g))
                           + Cardinality(InMapped(g))
BY DEF Wkc, FullWkc, Writers, Readers, OutMapped, InMapped

\* The working counter of a frame and the full one are natural numbers, and
\* the first never exceeds the second.
LEMMA WkcBounded ==
    ASSUME NEW g \in SUBSET Slaves
    PROVE  Wkc(g) \in Nat /\ FullWkc(g) \in Nat /\ Wkc(g) <= FullWkc(g)
<1>1. /\ Cardinality(Writers(g)) \in Nat /\ Cardinality(Readers(g)) \in Nat
      /\ Cardinality(OutMapped(g)) \in Nat /\ Cardinality(InMapped(g)) \in Nat
      /\ Cardinality(Writers(g)) <= Cardinality(OutMapped(g))
      /\ Cardinality(Readers(g)) <= Cardinality(InMapped(g))
  BY WkcSets
<1>2. QED
  BY <1>1, WkcShape

\* A frame that reaches the full working counter of g was exchanged by
\* every slave of g: no slave adds more than its own share.
LEMMA FullWkcExchanging ==
    ASSUME NEW g \in SUBSET Slaves, Wkc(g) >= FullWkc(g)
    PROVE  Exchanging(g)
<1>0. /\ Cardinality(Writers(g)) \in Nat /\ Cardinality(Readers(g)) \in Nat
      /\ Cardinality(OutMapped(g)) \in Nat /\ Cardinality(InMapped(g)) \in Nat
      /\ Cardinality(Writers(g)) <= Cardinality(OutMapped(g))
      /\ Cardinality(Readers(g)) <= Cardinality(InMapped(g))
  BY WkcSets
<1>1. 2 * Cardinality(Writers(g)) + Cardinality(Readers(g))
        >= 2 * Cardinality(OutMapped(g)) + Cardinality(InMapped(g))
  BY WkcShape
<1>2. /\ Cardinality(Writers(g)) = Cardinality(OutMapped(g))
      /\ Cardinality(Readers(g)) = Cardinality(InMapped(g))
  BY <1>0, <1>1
<1>3. Writers(g) = OutMapped(g) /\ Readers(g) = InMapped(g)
  BY <1>2, WkcSets
<1>4. QED
  BY <1>3 DEF Exchanging, Writers, Readers, OutMapped, InMapped

\* A group that is exchanging gives exactly its full working counter.
LEMMA ExchangingFullWkc ==
    ASSUME NEW g \in SUBSET Slaves, Exchanging(g)
    PROVE  Wkc(g) = FullWkc(g)
<1>1. {s \in g : online[s] /\ SlaveObytes[s] > 0 /\ al[s] = OP}
        = {s \in g : SlaveObytes[s] > 0}
  BY DEF Exchanging
<1>2. {s \in g : online[s] /\ SlaveIbytes[s] > 0 /\ al[s] \in {SAFEOP, OP}}
        = {s \in g : SlaveIbytes[s] > 0}
  BY DEF Exchanging
<1>3. QED
  BY <1>1, <1>2 DEF Wkc, FullWkc
=============================================================================
