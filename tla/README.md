# Formal model of the Xeryon EtherCAT shim

This directory holds TLA+ models of the native EtherCAT shim in `src/native/`, TLC configurations that model-check them, and TLAPS proofs about them. The shim is a thin C library over the SOEM master stack. It brings a bus of Xeryon drives to OP, exchanges process data cyclically, packs and unpacks the drives' PDO records, and recovers the bus after faults.

## 1. Inventory

### Components

| Component | Source | State it keeps | Operations |
|---|---|---|---|
| Session lifecycle | `soemshim-linux/soem_shim.c` `soem_initialize`, `soem_shutdown` | the handle, with its SOEM context (the slave list and its cached AL states, group 0's sizes and WKC counts), the IOmap, `last_wkc`, `last_expected_wkc` | initialize: ecx_init, config_init, the IOmap, config_map_group, configdc, NOP staging, a probe cycle, then a wait for SAFEOP, an OP request and a wait for OP. shutdown: INIT to the group, close, free |
| Cyclic exchange | `soem_exchange_process_data` | the output and input images in the IOmap, `last_wkc`, `last_expected_wkc` | an optional caller output buffer (zero-tail and copy), send, receive, an input copy, and the WKC policy (SEND_FAIL, RECV_FAIL, expected <= 0 pass-through, WKC_LOW) |
| PDO record access | `soem_write_rxpdo`, `soem_read_txpdo` | one slave's output or input region | index, pointer and size guards, then the little-endian pack or unpack of `DriveRxPDO`/`DriveTxPDO` |
| Recovery | `soem_try_recover` | the cached states in the slave list | readstate; SAFE_OP+ACK to every slave read in error; OP to the group; three blind cycles; group statecheck; per-slave check of the cache |
| Health and introspection | `soem_get_health`, `soem_get_slave_count`, `soem_get_process_sizes`, `soem_scan_slaves` | nothing of their own (get_health refreshes the cache) | get_health runs readstate and counts the slaves read in OP. The others are getters |
| Logging | `log_message`, `soem_drain_error_list`, `soem_get_network_adapters` | the log callback | formatting and I/O |
| Legacy shim (Windows) | `soemshim/soem_shim.c` | the same, with a fixed 4096-byte IOmap | the same API. Its exchange does not zero the output tail |
| Environment: SOEM and the slaves | not in this repository | each slave's AL state, error flag, link and AL control register | AL requests, watchdog faults, link loss and restore, the working counter of each frame |

### How the components interact

The header says a handle is not thread-safe, so one caller drives it. The shim's operations therefore never overlap each other. What runs concurrently with them is the bus: slaves handle AL requests asynchronously, fall to SAFEOP+ERROR on a watchdog, and drop off the wire.

The shim and the slaves share two things:
- the AL control and status registers (ecx_writestate, ecx_readstate, ecx_statecheck);
- the process-data frame, whose working counter (WKC) is the shim's only per-cycle evidence of who answered.

The shim also keeps a cache of each slave's state in `slavelist[i].state`. It writes that cache itself: recovery sets `SAFE_OP|ACK` at line 430. It reads the cache later, at line 455 and in get_health.

### What is hard

- **Interleaving with the slaves.** State read before a round trip is used after it. A slave's AL control register takes one request at a time, so the ACK of line 431 races the OP broadcast of line 436, and the SAFEOP request of bring-up must be read before the OP write of line 412.
- **Faults.** A lost frame, a link loss or a watchdog drop can come between any two round trips.
- **Stale state.**
  - The cache read at line 425 is what recovery trusts at line 455.
  - `last_wkc` is not updated on a send failure (287-289) or by the recovery cycles (438-441).
  - Inputs are copied before the WKC check (302-305).
- **Ignored results.** The two statechecks of initialize (409, 413) are ignored. The SAFEOP wait still matters, because it gives the slaves time to read their SAFEOP request.
- **Counting.** The WKC must reveal any slave that is missing.

### Properties that make each component correct

- **Exchange.**
  - A success against a positive expected WKC means every discovered slave with a mapped region was online and in the state that region needs (`WkcIntegrity`).
  - Conversely, `SOEM_ERR_WKC_LOW` is never a false alarm: it means some such slave was not (`WkcLowMeansDropout`). A lost frame has its own codes, as spec 4.3 requires.
- **Recovery.**
  - A success means every slave really is in OP (`RecoverSound`).
  - If the group really is in OP, recovery succeeds (`RecoverComplete`).
  - A slave that recovery acknowledges reaches OP in that call, if nothing else goes wrong (`RecoverRestoresOp`).
- **Bring-up.** A discovered slave that answers and meets no further fault reaches OP after initialize, in both shims (`InitReachesOp`).
- **Legacy shim.** The spec's exchange contract (`NoStaleMotion`) and WKC policy (`LegacyWkcChecked`) are checked against it.
- **Exchange with staged records.** What a drive receives is what the caller last wrote or passed, never an old motion command (planned: no unintended motion).
- **Health.** `last_wkc` describes the last frame (planned).
- **Codec.** Unpack inverts pack on the fields the record carries (planned).

The full list of hazards, each at its source line, is under `hazards` in `PROJECT.json`.

## 2. Modules and how they map to the code

### `EtherCATBus`: the environment

This module is not translated from `src/`; it states what the shim relies on.

State:
- `al[s]`: the AL state.
- `err[s]`: the error flag.
- `online[s]`: whether the slave answers frames.
- `alctl[s]`: a request written to the slave's AL control register and not yet read by its firmware.
- `faults`: faults injected so far, capped by `MaxFaults`.

Actions:
- `SlaveAlControl`: the slave handles its AL control request. Without ACK the request is ignored while the error flag is up. An invalid transition sets the flag.
- `SlaveFault`: SAFEOP or OP drops to SAFEOP+ERROR.
- `LinkLoss` and `LinkRestore`.

A write of the master to AL control goes through `WriteAlControl(targets, req)`. It reaches the targets that are online, and a slave whose register still holds an unread request refuses it: the new request is lost. This is the AL control handshake of an ESC without device emulation, which is what a drive with its own firmware, such as a Xeryon drive, has. `BroadcastAlControl(st)` is the write to every slave (slave 0 in SOEM). `RequestsTaken(S)` says that every answering slave of `S` has read its register.

`Wkc(group)` is the working counter: +2 per slave in OP with outputs, +1 per slave in SAFEOP or OP with inputs. `AlStatusOr` is the masked OR that a broadcast statecheck reads.

### `SoemShim`: the Linux shim, driving the bus

State:
- `pc`: where a multi-round-trip operation is.
- `session`: a handle is live.
- `found`: the discovered slaves.
- `cache`: `slavelist[s].state`.
- `outImg[s]`: the kind of record in s's output region: `"Zero"`, `"Nop"` or `"Move"`.
- `lastWkc`, `lastExpWkc`.
- `cycles`: the recovery loop counter.
- `ret`: the last operation and its return value.
- `busOk`: a ghost, the truth about the bus at the read that the result in `ret` is based on.

Each operation is one action, or a chain of actions split at its bus round trips. Between two links of a chain the bus may take any number of steps, and that is how a statecheck timeout is modelled. The `map` section of `PROJECT.json` gives the lines for each definition.

- **`InitConfigure`** (330-384) covers every early return of initialize. ecx_init fails; malloc or config_map_group fails, with the slaves left in PREOP; or the mapped size exceeds the IOmap, with SAFEOP already requested. Success needs a mapped size above 0 (line 365), and does the NOP staging.
- **`InitProbe`** (396-406) is the probe exchange, whose result is only logged.
- **`InitRequestOp`** (408-420) is the ignored SAFEOP wait, the OP write and the ignored OP wait. The SAFEOP wait lasts up to `4 * EC_TIMEOUTSTATE`, far longer than a slave takes to read its AL control. So the action is enabled once every answering discovered slave has read its SAFEOP request (`RequestsTaken(found)`), whether or not it reached SAFEOP. The OP wait is not modelled this way: the caller may act before a slave has read the OP request, which only adds behaviours.
- **`Exchange`** and **`ExchangeProcessData`** (261-321) cover:
  - the output image with or without a caller buffer;
  - send failure, which leaves `last_wkc` alone;
  - a frame lost within the timeout, which sets `last_wkc = EC_NOFRAME`;
  - a received frame, whose result follows the WKC policy `ExchangeResult`.
- **`WriteRxPdo`** and **`ReadTxPdo`** model the guards and the region written. The byte codec is abstracted.
- **`RecoverAck`**, **`RecoverRequestOp`**, **`RecoverCycle`** (three times) and **`RecoverCheck`** are `soem_try_recover`. `RecoverCheck` compares the group OR with OP, then the cached per-slave states.
- **`GetHealth`** refreshes the cache and counts the slaves in OP.

The AL state and error codes are SOEM's numbers, so `SAFE_OP|ACK` is `SAFEOP + ERRBIT`, as in the C code.

### `SoemShimLegacy`: the legacy shim

The legacy shim is `soemshim/soem_shim.c`, driving the same `EtherCATBus`. Its state is `pc`, `session`, `found`, `outImg` and `ret`, plus two ghosts:
- `busOk`: the truth about the bus when the last frame came back;
- `covered`: the regions the last caller buffer reached.

Its actions:
- **`InitConfigure`** (29-53): calloc, ecx_init and config_init failures, or the slaves brought to PREOP, discovered, the zeroed IOmap mapped and SAFEOP requested.
- **`InitRequestOp`** (53-63): the ignored SAFEOP wait, the OP write, the ignored OP wait. It waits for `RequestsTaken(found)`, as the Linux shim's does.
- **`Shutdown`** (66-77).
- **`GetSlaveCount`**, **`GetProcessSizes`** and **`ScanSlaves`**: they only return.
- **`Exchange`** and **`ExchangeProcessData`** (128-166).

The caller's buffer is a prefix of the output image. SOEM lays the output regions out in slave position order, so a buffer reaches the regions of the slaves at positions up to some `p` (`Prefix(p)`); the constant `Position` gives the order. A buffer that ends inside a region is taken to reach all of it.

There is no WKC check: a frame that comes back returns `Wkc(found)` as it is.

### `MC_SoemShim` and `MC_SoemShimLegacy`: the TLC instances

The drives are model values, each with 20 output bytes and 8 input bytes (a Xeryon drive), so the permutations of `Slaves` are a sound symmetry for the safety runs of `MC_SoemShim`. The liveness runs do not use it, since TLC can miss liveness violations under symmetry. `MC_SoemShimLegacy` puts the two drives at positions 1 and 2. The position tells them apart, so it has no symmetry.

### The proof modules

- `EtherCATBusProofs`: that bus steps keep the bus well typed, and that AL control writes leave a request or none in every register. It also holds the counting argument about the working counter that both shims' proofs use (section 5).
- `SoemShimProofs`, `SoemShimLegacyProofs`: see section 5.

## 3. Runs

| Run | cfg | Checks | Result |
|---|---|---|---|
| `shim_main` | `MC_SoemShim.cfg` | `TypeOK`, `WkcIntegrity`, `WkcLowMeansDropout` | passes: 1,886,362 distinct states, about 80 seconds |
| `recover_complete` | `MC_SoemShim_RecoverComplete.cfg` | `RecoverComplete` | violated (finding) |
| `recover_sound` | `MC_SoemShim_RecoverSound.cfg` | `RecoverSound` | violated (finding) |
| `init_reaches_op` | `MC_SoemShim_Fair.cfg` | `InitReachesOp` under `FairSpec` | passes: 491,053 distinct states, about 90 seconds |
| `recover_ack_race` | `MC_SoemShim_AckRace.cfg` | `RecoverRestoresOp` under `FairSpec` | violated (finding) |
| `legacy_main` | `MC_SoemShimLegacy.cfg` | `InitReachesOp` under `FairSpec` | passes: 57,469 distinct states, about 20 seconds |
| `legacy_stale_tail` | `MC_SoemShimLegacy_NoStaleMotion.cfg` | `NoStaleMotion` | violated (finding) |
| `legacy_wkc_unchecked` | `MC_SoemShimLegacy_LegacyWkcChecked.cfg` | `LegacyWkcChecked` | violated (finding) |

The first three runs use the same bounds:
- two slaves;
- `MaxFaults = 2`;
- callers that write `"Move"` records.

Two slaves is the smallest bus on which one slave can be missing while another answers, which is what WKC masking needs. Two faults allow a fault followed by a second one during recovery, such as a link loss after the ACK. The caller's records add motion commands to the NOP and zero images.

The other runs use smaller bounds, to keep within a few minutes:
- **The Linux fair runs** have one fault. That is enough for a slave to fault, or to drop off, before or during bring-up or recovery, and for the fault budget to be used up, which is the premise of both liveness properties. `recover_ack_race` has callers that pass no motion commands, since the question is about AL states, not what is sent.
- **`legacy_main`** has two faults, so a fault can come in each of two sessions.
- **The legacy violation runs** need none.

### Findings

Both findings are at `soem_shim.c:455`. `try_recover` checks each slave against `slavelist[i].state`. That cache was filled by the readstate at line 425 and overwritten with `SAFE_OP|ACK` at line 430, and it is never refreshed after the group statecheck. This gives two failures:

- **`RecoverComplete`.** A slave that was acknowledged, or was read in SAFEOP before it reached OP, keeps its stale cached value. Recovery returns 0 although every slave is in OP.
- **`RecoverSound`.** The group statecheck ORs only the slaves that answer. A slave that has dropped off is invisible to it, while its cache still says OP. Recovery returns 1 with a slave off the bus.

**`RecoverRestoresOp`, at `soem_shim.c:436`.** The counterexample:
1. After bring-up, s1 is in OP and a watchdog drops it to SAFEOP+ERROR. This uses up the fault budget.
2. `try_recover` reads s1 in error and writes SAFE_OP+ACK to it (430-431).
3. It then writes OP to the group at once (436), before s1 has read the acknowledge. s1's register still holds the ACK, so it refuses the OP write.
4. s1 reads the ACK, clears its error and goes to SAFEOP. No OP request ever reaches it.
5. The three blind cycles and the group statecheck follow, and the call returns 0. s1 stays in SAFEOP for as long as the caller does not call `try_recover` again.

In practice a slave's firmware takes far longer to read its register than the master takes to send the next frame, so this is the normal outcome of one call. A second `try_recover` finds s1 in SAFEOP without error and brings it to OP. Spec 4.2 describes one call that clears the flag and then requests OPERATIONAL. A fix would wait for the acknowledged slaves to leave error (a statecheck on each of them) before the OP write.

The legacy shim has two divergences from the spec, which calls it a strict subset of the Linux shim:
- **`NoStaleMotion`, at `soemshim/soem_shim.c:144`.** The exchange copies the caller's bytes without zeroing the image first (spec: "zeroed first … stale bytes beyond the caller's payload do not leak"). A buffer that reaches only s1 leaves s2's previous `Move` in place, and it is sent again.
- **`LegacyWkcChecked`, at `soemshim/soem_shim.c:165`.** The raw WKC is returned. Right after a bring-up whose ignored waits (53, 57) timed out, the exchange returns 0, a count that looks like success, with both drives in PREOP. The spec requires WKC_LOW here.

### Mutants

Each property of a passing run is shown to catch a plausible bug:
- **`WkcIntegrity`** fails when the expected WKC counts outputs once instead of twice (`ExpectedWkcSingleOutputs`).
- **`WkcLowMeansDropout`** fails when the check reports a count equal to the expected one as low (`wkc <= expected`, `ExchangeResultAtMost`).
- **`TypeOK`** fails when the recovery loop runs one cycle too many (`RecoverCycleOneMore`).
- **`InitReachesOp`** fails, in both shims, when the OP write goes out without the SAFEOP wait (`InitRequestOpNoWait`): a slave still holding its unread SAFEOP request refuses the OP write and stops in SAFEOP.

### Fairness

`FairSpec` (in both shim modules) adds weak fairness on two kinds of step:
- **The continuation steps of the shim's multi-step calls** (`InitProbe`, `InitRequestOp`, `RecoverRequestOp`, `RecoverCycle`, `RecoverCheck`; only `InitRequestOp` in the legacy shim). Once a C call has started it runs to its end, and its waits are bounded, so these steps are always taken.
- **Each slave's handling of its AL control** (`SlaveAlControl`). A slave eventually reads a request written to its AL control; that is the EtherCAT slave's contract, not the shim's.

There is no fairness on the caller's calls, on faults or on link restores. Nothing in the code makes a caller call, or the link come back.

## 4. What is not modelled

- **The byte-level PDO codec.** This is planned as its own module.
- **Logging, the error-list drain and adapter listing.** They are I/O with no effect on the session.
- **Memory safety.** This covers buffer lengths, the IOmap overflow itself and NULL arguments. It is out of TLC's reach. The size guards appear only as the conditions under which a call succeeds.
- **DC configuration.** `ecx_configdc` has no effect the shim relies on.
- **ESCs with device emulation.** Simple I/O slaves whose ESC emulates the AL state machine take every AL control write; the bus models the handshake of a slave with its own firmware, which is what the drives on this bus are.
- **Timeout values.** Time is abstracted to "the bus may or may not have moved".
- **The legacy shim's NULL-handle paths and the 4096-byte IOmap bound.** The model has one caller holding a live handle. The overflow of the fixed IOmap is memory safety.

## 5. What is proved (TLAPS)

Four theorems are proved. The theorems of `SoemShimProofs.tla` hold for every finite set of slaves, every pair of region-size functions and every fault bound. The assumptions are `BusAssumption` and `ShimAssumption`.

### `TypeCorrect == Spec => []TypeOK`

`TypeOK` alone is not inductive: a recovery cycle taken with `cycles = 3` would leave `0..3`. The inductive invariant is therefore `TypeInv == TypeOK /\ (pc = "rec_cycle" => cycles \in 0..2)`.

The proof has three parts:
- `InitTypeInv` shows that the initial state satisfies `TypeInv`.
- One lemma per action shows that the action preserves it. Bus steps are handled in `BusStepType`.
- `TypeCorrectStep` combines them.

### `WkcIntegrityHolds == Spec => []WkcIntegrity`

The inductive invariant is `TypeInv /\ WkcIntegrity`.

The core step is `ExchangeIntegrity`: an exchange that returns success with `expected > 0` has `Wkc(found) >= ExpectedWkc(found)`. The counting lemma `WkcReachesExpected` shows that this forces every discovered slave with outputs into OP, online, and every one with inputs into SAFEOP or OP. Each slave contributes at most its expected share, so the total reaches the expected value only if every slave contributes all of it. This is the property that a single-output-count bug breaks.

The other steps are covered by two lemmas:
- `IntegrityOtherOp`: steps that return another operation make the premise false. `OtherResult` lists those steps.
- `IntegrityFrame`: steps that leave `ret`, `lastExpWkc` and `busOk` alone preserve the invariant. `ReportKept` lists those steps: recovery before its check, the bus, and stuttering.

### The counting argument (`EtherCATBusProofs.tla`)

`FullWkc(g)` is the working counter of a frame that every slave of `g` exchanges, `2 * |outputs| + |inputs|`. This is SOEM's `outputsWKC * 2 + inputsWKC`, which the shim's `ExpectedWkc` computes. `Exchanging(g)` says that every slave of `g` with a mapped region is online and in the state that region needs.

Three lemmas hold for every subset `g` of the slaves:
- `WkcBounded`: `Wkc(g) <= FullWkc(g)`.
- `FullWkcExchanging`: `Wkc(g) >= FullWkc(g)` implies `Exchanging(g)`.
- `ExchangingFullWkc`: `Exchanging(g)` implies `Wkc(g) = FullWkc(g)`.

All three rest on `WkcSets`. The slaves that write and the slaves that read are subsets of those with output and input regions. So their counts are bounded by those regions, and an equal count means an equal set. `WkcReachesExpected` and `WkcMatchesExpected` in `SoemShimProofs` restate the last two for `ExpectedWkc`.

### `WkcLowMeansDropoutHolds == Spec => []WkcLowMeansDropout`

The inductive invariant is `TypeInv /\ WkcLowMeansDropout`, and the proof follows the same pattern as the integrity proof. `busOk` and a `WKC_LOW` result are written together only where a frame comes back. `ExchangeDropout` covers that case: if `AllExchanging` held, `ExchangingFullWkc` gives `Wkc(found) = ExpectedWkc(found)`, which the check does not call low. A send or receive failure returns `-11` or `-12`, never `-10`. `InitConfigure` either returns `initialize` or leaves `ret` and `busOk` alone.

### Legacy shim (`SoemShimLegacyProofs.tla`)

- **`LegacyTypeCorrect == Spec => []TypeOK`.** `TypeOK` is inductive as it stands. Bus steps use `BusStepTyped` from `EtherCATBusProofs`, and AL control writes use `WriteAlControlTyped`.

### Left to TLC

TLC alone checks the following:
- liveness under fairness (`InitReachesOp`, `RecoverRestoresOp`), and anything stated with ENABLED;
- properties of recursive definitions over all inputs, such as the planned codec;
- the violation runs.

## 6. Plan

Done so far:
- `SoemShimLegacy`, with its type proof and two divergence runs;
- the AL control handshake of the bus, with the bring-up liveness it needs and the recovery race it exposes;
- `WkcIntegrity` and `WkcLowMeansDropout`, checked and proved, with the counting argument shared in `EtherCATBusProofs`.

Next:
1. **An `applied` ghost** records what each drive last received. It comes with a no-unintended-motion property covering two cases:
   - the blind recovery cycles re-send the last motion command (438-441);
   - a caller buffer wipes staged records (277).
2. **Health** (287): a property relating `last_wkc` in the health report to the last frame.
3. **`PdoCodec`**: pack and unpack of the 20-byte and 8-byte records as functions over byte sequences, checked against a field-wise reference over bounded values. This module is TLC only.
4. **A second MC configuration** with mixed mappings: one slave without outputs, and a region smaller than `IO_RX_BYTES`. It exercises the size guards.
