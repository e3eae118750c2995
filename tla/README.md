# Verification of the MCUXpresso connectivity framework

TLA+ models of the connectivity framework: the middleware that gives NXP
wireless MCUs their work queues, non-volatile storage, over-the-air update,
low-power control, inter-core link, cryptography and serial command interface.
The framework is C code; it runs in the tasks, the idle task and the interrupts
of an MCU and keeps state that must survive resets. The models are made from
that code. Line numbers below refer to this commit of the repository.

1. The system · 2. Modules · 3. How the models correspond to the code ·
4. What is checked and proved · 5. Where the code disagrees with its text, and
other limits found · 6. Not modelled · 7. Plan

## 1. The system

Components, the state each keeps and who calls it.

| Component | Source | State | Operations | Talks to |
|---|---|---|---|---|
| System work queue | `services/WorkQ` | per queue: FIFO list, event, thread, state; per item: flags | `WORKQ_Start`, `WORKQ_SubmitToQueue`, thread loop | RNG, Sensors, ICS submit from tasks and ISRs |
| NVM | `services/NVM` | two flash pages, table of data sets in flash and RAM, pending-save queue, erase and copy requests, save policies | saves (idle, sync, count, interval, atomic), restore, register, erase, format, `NvIdle`, `NvShutdown`, start-up with upgrade | application, flash HAL, idle task |
| OTA support | `services/OtaSupport` | image state machine, transaction queue, storage position, write buffer, erased sectors | start, push chunk, make headroom, commit, cancel, idle-time operations | external or internal flash, boot loader |
| OTW | `services/OTW` | firmware update of an attached transceiver | download: compare, erase, write, verify, close | serial line, boot loader of the transceiver |
| RNG | `services/SecLib_RNG/RNG*.c` | seed state, request count, entropy | init, get number, reseed | work queue, TRNG, entropy of the other core |
| SecLib | `services/SecLib_RNG/SecLib*.c` | contexts of hashes; key objects; segmented multiplication | AES modes, CMAC, CCM, EAX, hashes, HMAC, ECDH, Bluetooth functions | secure subsystem, mbedTLS, PSA |
| Low power | `services/LowPower`, `platform/*/fwk_platform_lowpower*` | disallow counts, tick compensation, wake-up timer, RAM retention | `PWR_EnterLowPower`, allow and disallow | PM of the SDK, timers, radio core |
| MWS coexistence | `services/MWSCoexistence` | owner, lock count, priorities, callbacks | acquire, release, signal idle, abort | protocol stacks |
| Sensors | `services/Sensors` | ADC status, values, mutex | trigger and refresh measurements | work queue, low power |
| SFC | `services/SFC` | filter, trimming value, constraint on the host | measure, calibrate, switch to the crystal | idle task of the radio core |
| FSCI | `services/FSCI` | receive framing, packet slot, ack wait, retries, modes | receive, transmit, request handlers, monitor, log | serial manager, host, NVM |
| ICS and remote activity | `platform/wireless_mcu`, `platform/wireless_nbu` | message endpoints, wake-up counters shared by two cores | send and receive, request and release the other core | both cores |
| CPU2 of the RW61x | `platform/rw61x` | two controllers on one core, its sleep | start, end, reset, HCI and HDLC messages | image loader, IMU |
| HW parameters | `services/HWParameter` | parameters, factory data and a reserved area in one sector | read, write, erase | flash |
| File system | `services/FileSystem` | user count, mount | whole-file write, read, delete | littlefs |
| NVS and settings | `zephyr/subsys` | ring of flash sectors; named values and handlers | mount, write, read, delete, garbage collection; save, load | flash |
| FunctionLib, ModuleInfo, Snoop, SWO, factory data, ports | `services/*`, `platform/*` | small or none | utilities | |

### What is hard

* **Interleaving.** Submissions to a work queue from interrupts while its thread
  removes items; the application writing to a data set while it is programmed;
  a timer that expires while the last byte of a frame is received; two tasks that
  draw random numbers while the generator is seeded again.
* **Crashes.** Power may be lost between any two flash operations and inside one.
  Whatever NVM, NVS, settings, OTA, hardware parameters and files promise must be
  readable from the flash alone afterwards.
* **Deferred work.** Saves, page erases and copies, OTA writes and work items are
  queued now and done later, when the state they were queued in has changed.
* **Partial failure.** A call to the secure subsystem is up to ten commands, a
  start of CPU2 up to seven calls, a request of the host up to three allocations;
  any of them fails and the rest must be undone.
* **Limits.** A full pending-save queue, a full page, a transaction pool used up,
  a counter that saturates or wraps, a timer shorter than the timeout.
* **Two cores.** Wake-up requests, seeds and messages cross between cores that
  sleep.

`PROJECT.json` lists the hazards, each at the line where it bites, with the
properties that would catch it.

## 2. Modules

| Module | Models | Uses |
|---|---|---|
| `WorkQService` | abstract FIFO service of handlers | |
| `WorkQ`, `WorkQ_proofs` | `fwk_workq.c` | implements `WorkQService` |
| `NvStore` | abstract storage: one stored value per element, atomic saves | |
| `NvFlash`, `MCNvFlash`, `NvFlash_proofs` | the flash side of `NV_Flash.c` | implements `NvStore` |
| `NvSaves`, `NvSaves_proofs` | the RAM side of `NV_Flash.c` | the flash as `NvFlash` shows it |
| `NvTable` | its extended feature set: tables of two firmwares, run-time entries, dual image, the legacy format | page copies as `NvFlash` shows them |
| `OtaFlash` | `OtaExternalFlash.c`, `OtaInternalFlash.c` as operators | |
| `Ota`, `Ota_proofs`, `OtaImage_proofs` | `OtaSupport.c` and the request to the boot loader | extends `OtaFlash` |
| `MCServices` | one instance of each of the modules below | all of them |
| `Mws`, `Services_proofs` | `MWS.c` | |
| `Pwr`, `LowPower_proofs` | `PWR.c`, `PWR_systicks.c`, `PWR_systicks_bm.c` | |
| `SleepTime`, `HostSleep_proofs` | `fwk_platform_lowpower.c` of RW61x and MIMXRT595S, wake-up timer of the wireless MCUs | |
| `HostSleep`, `HostSleep_proofs` | `fwk_platform_lowpower.c`, time stamps of `fwk_platform.c` (wireless MCUs) | |
| `RemoteActive`, `LowPower_proofs` | host and radio core: who keeps the radio domain awake | |
| `Ics`, `Services_proofs` | `fwk_platform_ics.c` of both cores | a work queue as `WorkQ` gives it |
| `Cpu2` | `platform/rw61x`: BLE and 802.15.4 controllers on CPU2 | |
| `Rng` | `RNG.c` on two cores with the seed messages | a work queue |
| `RngSource`, `Services_proofs` | `RNG.c`, `RNG_mbedTLS.c`, `RNG_psa.c` on one core | a work queue |
| `Sensors`, `Services_proofs` | `sensors.c`, `fwk_platform_sensors.c` | a work queue |
| `Sfc`, `Services_proofs` | `fwk_rf_sfc.c` | |
| `HwParam`, `Services_proofs` | `HWParameter.c` | |
| `Files`, `Services_proofs` | `fwk_filesystem.c` | |
| `Nvs` | `zephyr/subsys/fs/nvs/nvs.c` | |
| `Settings` | `zephyr/subsys/settings` | what `Nvs` promises |
| `SecBlock` | the modes of operation as their standards define them | |
| `SecLibSw`, `SecLibMbed`, `SecLibSss` | the AES functions of three back ends | extend `SecBlock` |
| `SecModes` | two devices with any two back ends; the AES functions of the fourth, `SecLib_psa.c` | instances of the three |
| `SecHashSw` | digests as their standards define them, and those of `SecLib.c` and `SecLib_aes_mmo.c` | |
| `SecHash` | those of `SecLib_mbedTLS.c` and `SecLib_sss.c`; contexts fed, copied and finished | an instance of `SecHashSw` |
| `SecKeyStore` | key objects in the secure subsystem, `SecLib_sss.c` | |
| `SecEcdh` | agreement on a secret, three back ends, in chunks | |
| `FsciLink`; `FsciAck`, `Services_proofs` | `FsciCommunication.c`: framing; acknowledgements | |
| `FsciCommands` | `FsciMain.c`, `FsciCommands.c`, `FsciLogging.c`, `NV_FsciCommands.c` | |
| `Otw` | `fwk_otw.c` and the line to the transceiver | |

`MCServices` puts services that share no state side by side: `chosen` is the one a
behaviour is of, and stays. A service keeps its state in the shared variables
`s1`, `s2`, …, as many as it has; those with an action property have variables of
their own, since `[A]_v` needs them. `Next` lets only the actions of the chosen
service happen. A group of properties is a conjunction of the properties of the
services it names, each under `chosen = …`. So the twenty-four instances are
explored one after another in one run, and no product of them is.

## 3. How the models correspond to the code

The `map` of `PROJECT.json` names, for every definition, the lines it stands
for. In all modules an argument check, a log line, a statistic and a layout
detail are left out unless a property needs it. What a hazard does when it
strikes and the model cannot or need not go on from there is recorded in a
variable of the history (`leaked`, `missed`, `loose`, `torn`, `misread`, `stale`,
`broken`, `spoiled`, …) that excludes the rest of such a behaviour from a property; section 5
says what each one is.

### WorkQService, WorkQ (`services/WorkQ/fwk_workq.c`)

`WorkQ` cuts the code where the critical section is left or an OSA call may
switch threads. `StartInit`, `StartTask`, `StartFlag` are the steps of
`WORKQ_Start`; `SubmitAccept`/`SubmitRefuse` are the critical section of
`WORKQ_SubmitToQueue` (the target of a running item is its own queue, an item
already queued is refused) and `Notify` is the `OSA_EventSet` after it. The
thread is `Wake`, `Remove`, `Claim`, `Return`, `Clear`: between `Remove` and
`Claim` an item is out of the list and still flagged queued, between `Return`
and `Clear` its handler has returned and it is still flagged running. Callers
are tasks or interrupts; they may submit to a queue that was never started
(refused) and to one that is being started.

`WorkQService` is what a user of a queue relies on: items run in the order of
acceptance, wait at most once, and run where they already run.

### NvStore, NvFlash (`services/NVM/Source/NV_Flash.c`, the flash side)

A page is a row of cells; the counter at each end, a tag and an element each
take one cell, so the layout, tags growing up and records growing down, is that
of the code. `WriteRecord` is the decision of `NvWriteRecord`: the record fits,
past whatever an interrupted write left (`Place` stands for
`NvMetaAndRecordAddressRegulate`), or a copy is asked for. The record is then
written cell by cell (`WriteData`), read from a RAM that the application may
change (`ChangeRam`) and made valid by its tag (`WriteMeta`). `BeginCopy`,
`EraseMirror`, `Scan`, `CopyData`, `CopyMeta`, `WriteTop`, `WriteBottom` are
`NvCopyPage` with the merge of single elements into the last full save
(`NvInternalDefragmentedCopy`). `IdleTask` is `__NvIdle`: a copy, else one
sector of an erase, else the queue. `Format…`, `Maintain`, `BootFormat`, `Boot`,
`Restore` are `NvFormat` and `NvInitStorageSystem`. `PowerLoss` may come between
any two flash operations, and tears the cell or the sector being written. All
that survives is `flash`.

Three specifications differ in the formats they admit, because of the defects
of section 5: `Spec` admits all; `QuietSpec` those that begin while no erase is
requested; `StoreSpec` besides those that begin while the other page is not
valid (an interrupted format would leave that page to the next start-up).

`NvStore` is the promise: an element has one stored value, a save captures the
RAM values of its elements and commits them at once, nothing else changes a
stored value.

### NvSaves (`services/NVM/Source/NV_Flash.c`, the RAM side)

What happens to a request between the call and the write. The flash is reduced
to what `NvFlash` shows of it: a write succeeds, or asks for a copy; after a
copy the first `Room` writes succeed. Requests: `SaveOnIdle`, `SaveOnCount`,
`SaveOnInterval`, `SyncSave`, `AtomicSave`, `TimerTick`; `Complete` is
`NvShutdown` and `NvRestoreDataSet`, which loop on `__NvIdle`
(`NvCompletePendingOperationsUnsafe`). `Enqueue`, `MakeRoom` and `Rejected` are
`NvAddSaveRequestToQueue`. `due` is a history variable: the elements of accepted
requests that were not written since. Critical sections (`SetCritical`,
`ClearCritical`) and time (`Elapse`) move between any two steps, also inside a
call: they do not take the mutex.

### NvTable (`services/NVM/Source/NV_Flash.c`, `gNvUseExtendedFeatureSet_d`)

The active page begins with a copy of the table of data sets. `ModuleInit` is
`NvModuleInit` for a firmware, or one of two images, with its own table:
it finds the table in flash (`UpgradeLegacyTable` converts a page of the old format),
compares it, decides on an upgrade and copies the page with each record kept,
resized or dropped as its entry says. `Register`, `EraseEntry` and `Save` are
`NvRegisterTableEntry`, `NvEraseEntryFromStorage` and the saves. A copy is one
step here; a value is named by the data set, element and save it came from, so a
byte read with another geometry shows as `Garbage`. `TwoFirmwares` is two firmwares
the second of which has an entry less.

### OtaFlash, Ota (`services/OtaSupport`)

`OtaFlash` holds the drivers as operators from a storage to a storage: the write
buffer of a page (external) or phrase (internal), the sectors the internal
driver remembers as erased, programming that can only clear bits. A fault names the
page or sector where an operation fails: what it did before that place stays done,
and the buffer is left as the code leaves it. `Ota` is the
state machine: `StartImage`, `PushImageChunk`, `HeadRoom`, `Commit`,
`CancelImage`, the posted operations with their pool, and `Worker`, the treatment
of one of them by the application or the idle task. A call that has to
wait for the queue is cut there (`Calls`). `Reset` keeps the flash and what the
boot loader was told.

### Services on one core: Mws, Pwr, Sensors, Sfc, RngSource

* `Mws`: acquire and release run with interrupts off, so each is one step with the
  callbacks it makes; `SignalIdle` offers the transceiver to each waiting protocol in turn.
  `MWS_Abort` leaves interrupts on and is three steps of each thread that calls it: the
  callback, the clearing of the owner, and that of the count.
* `Pwr`: `lag` is how far the ticks are behind real time, `remaining` the ticks to
  the next timeout. `EnterLowPower` cuts at the sleep; the correction of either time base follows it.
* `Sensors`: threads are tasks and the thread of the work queue, each cut at the
  ADC mutex: a call looks at the status before it takes the lock (`Call`) and, for
  a temperature, again with it (`StartTemperature`). `Refresh`, `Wait`, `Restart`,
  `Finish` are `SENSORS_RefreshTemperatureValue`, which reads the interval twice.
  Interrupt, timer and request of the radio core are `Converted`, `Expire`, `Request`.
* `Sfc`: the idle task's `SFC_Process` is cut where the measurement unit may
  interrupt, with a result or a failure; errors count in steps of the trimming value.
* `RngSource`: a thread is cut before the request is counted, before the seed is read and
  before it is updated, and in `TRNG_GoToSleep` around the test of the TRNG; its
  interrupt and the seeding by the work queue come anywhere. `read` is what a thread has
  read and may write back over another's change; `clashed` notes which state two
  threads have used at once without a lock.

### Two cores: RemoteActive, Ics, Rng, Cpu2

* `RemoteActive`: the host's poll with interrupts off and the radio core's entry
  into low power, register by register; an event of the link layer about to expire
  (`expiring`) keeps an active radio from entering it.
* `Ics`: messages in order; deferred ones go through the pending list and a work
  item, others are answered in the interrupt; `PM` counts the constraints.
* `Rng`: flags and the count of requests of each core, and the two messages; an
  `RNG_SetSeed` of the host is cut at its message.
* `Cpu2`: `host` is what the start and reset functions keep, `power` what CPU2
  does; a call that fails leaves the state its early return leaves. A sender is cut at
  the check, the wake-up bit, the wait, each chunk, and the release.

### Sleep: HostSleep, SleepTime

* `HostSleep`: RAM is an array of half banks, `ram` what each holds; a sleep takes
  away what the retention mask leaves out, reading ECC RAM that was off and not
  rewritten is an error. A time stamp is the counter modulo `Moments`.
* `SleepTime`: time in counts of the time stamp's clock; the wake-up timer counts
  one `Unit` of them. What measured a sleep is compared with what it lasted.

### Storage: HwParam, Files, Nvs, Settings

* `HwParam`: a sector with three areas; an area is blank, a value, torn or
  unreadable. A call is cut at its flash operations, each may fail.
* `Files`: each call of littlefs is a step and may fail; a file changes when it is
  closed.
* `Nvs`: the ring cell by cell; a cell being written at a reset is left bad.
  `nvs_write` is cut at each flash operation, the garbage collection too.
* `Settings`: two entries a name and a counter, each write a step.

### SecLib: SecModes, SecHash, SecKeyStore, SecEcdh

* `SecBlock` has the modes and tags as the standards define them over a cipher
  that is any permutation for each key. The back ends' functions are translated over it. `SecModes` lets two devices
  pass a message in chunks, each with its own back end.
* `SecHashSw` takes a digest to be the sequence of blocks that was compressed, so
  two are equal only if the same blocks were, and keeps buffer and count as the code
  does.
* `SecKeyStore`: a call is the sequence of commands it gives to the subsystem, the
  first failure ends it and what the code takes down is taken down. Objects, contexts, buffers and
  requests for the radio core are sets and counts.
* `SecEcdh`: the curve is external, a secret is the set of the two private keys;
  `SecLib_HandleMultiplyStep` runs when the application's queue does.

### Serial links: FsciLink, FsciAck, FsciCommands, Otw

* `FsciLink`: host and device run the same framing; the device's interrupt, the
  timer's callback and `FSCI_Task` interleave.
* `FsciAck`: a packet, its acknowledgement and the timeout.
* `FsciCommands`: what becomes of buffers and answers of each kind of request.
* `Otw`: requests, responses and resets of both sides.

## 4. What is checked and proved

### Runs

| Run | Question | Bounds |
|---|---|---|
| `workq` | invariants, refinement of `WorkQService`, every item runs | 2 queues, 2 items, an interrupt and a task: the least that has redirection, two lists and concurrent submission |
| `nvm_flash` | what holds of pages, tags, copies through power losses; queued saves are written | a page of 11 cells, one data set of 2 elements, queue of 2, 3 calls, 2 losses: full and single saves, both kinds of copy, a copy interrupted and resumed, a format |
| `nvm_store` | the flash implements `NvStore`, also on the queue-full path | as above, with a queue of 1 and the smallest page the start-up check accepts |
| `nv_saves` | no request forgotten; a shutdown leaves nothing queued | a pair and a single data set, queue of 2, one tick, one count, room for 1 record after a copy, 1 critical section: the queue fills, the page fills, and a section begins at any step |
| `nv_saves_live` | the save of the whole table; the loop of shutdown and restore ends; saves of the policies are made after all | two single data sets, queue of 2, room for 2: see section 5 for smaller ones |
| `ota` | an image offered to the boot loader is the one pushed; the pool; commits end | 2 images of 5 units, pages of 2, sectors of 4, a partition of 12, pool of 3, one fault |
| `services` | one instance of each service, properties in groups | below |
| `nvm_format_erases_active`, `nv_saves_shutdown`, `nv_saves_atomic`, `ota_page_chunk`, `nv_table_upgrade` | expected to fail: section 5 | |

The bounds that are not of the code count calls, copies, images, packets or
faults (`MaxSaves`, `MaxPages`, `MaxCrashes`, `MaxImages`, `MaxFaults`,
`MaxFailures`, `MaxEvents`, `MaxSent`, `MaxLost`, `MaxPairs`, `MaxKeys`, `MaxBoots`,
`MaxChanges`, `MaxKey`), the nesting of critical sections (`MaxCritical`), or stop a count that
section 5 shows running away (`MaxConstraint`, `MaxLag`, `MaxPending`). Three
synchronous saves fill the page of 11 cells, hence a copy, and two losses interrupt
it and what recovers from it; a further save repeats what a first did to an
equally filled page. `MaxPages` is never reached in `nvm_flash`; in `nvm_store`
it is: the copies there repeat for ever (section 5).

Deadlock is not checked: the application may stop calling, `NvShutdown` ends the
system, `WorkQ` stops when nobody submits, and behaviours of bounded instances end.

The instances of `services`, and what their bounds let happen:

| Service | Instance |
|---|---|
| `mws` | three protocols, each of another priority, preemption by priority, two locks, two threads that abort |
| `pwr` | two users, ticks of three counts, radio events before, at and after a timeout, both time bases |
| `rng`, `remote`, `ics` | three requests before a new seed and one overtaking it; two users of the radio domain; one caller, two pending messages, one failing allocation |
| `sensorsAll`, `sensorsPeriod` | two tasks with every call; two tasks that start measurements, with invalid readings |
| `hwparam`, `sfc` | two failures or resets; errors of up to two steps |
| `nvs`, `settings` | two sectors of six cells, two ids, values of one and two cells; three names, one below the other, one failing write |
| `sechash`, `secmodes` | blocks of four units, texts shorter and longer than one; blocks of two bytes of two bits, messages of up to five bytes |
| `seckeys`, `ecdh` | two pairs, one failing command; two devices, three pairs, chunks of two of four steps |
| `fscilink`, `fscicmds`, `fsciack` | two packets, one lost byte or allocation; three events, one failure; three packets, two lost frames |
| `otw` | two images of two blocks, two faults |
| `table` | two firmwares, three starts, two saves, one change of the table |
| `cpu2` | one failing call, HDLC in two chunks, two packets to the host |
| `hostsleep`, `sleeptime` | four banks, three with ECC, time stamps of 64 values; a timer of three ticks, time stamps of 32 values |
| `rngsource`, `rngtrue` | two tasks, three requests before a new seed, two failures, numbers of two chunks; the TRNG with two requests, one failure |
| `files` | two users, two files, two failures |

### Fairness

* WorkQ: threads are scheduled and handlers return; a caller that queued an item
  goes on to set the event. Nobody has to start a queue or to submit.
* NvFlash: the processor runs (`Running`) and the idle task calls `NvIdle`
  (`IdleTask`), in every specification; power may fail.
* NvSaves: a call that holds the mutex goes on (weak), critical sections end and
  seconds pass (weak). `NvIdle` is strong: a critical section may begin and end
  again and again, and the idle task, which runs whenever no other task does,
  finds a moment outside one. Nothing obliges the application to call.
* Ota: calls and pauses end (weak), and whoever works the queue off finds it
  workable again and again (strong): the idle task runs between any two chunks.
* Services: weak for each thread, timer or message of the service that is
  chosen (`Fairness` of `MCServices` joins the n-th condition of every service
  into one, which is the same since one service is chosen for good); strong only for
  the host's poll in `RemoteActive`, which hardware answers again and again, and for a
  measurement of `Sfc` with a result: not every one of them fails.

### Proofs

`WorkQ_proofs` proves for any sets of queues, items and callers: `TypeOK`,
`HandlerNotReentered`, `NodeLinkedOnce`, `NoLostWakeup`, and that `WorkQ`
implements the safety part of `WorkQService`. The properties are not inductive:
that an item is in one list follows from what the flags say, so the inductive
invariant `IInv` adds that a linked or detached item is flagged queued, a running
one running, that `work->queue` names the queue that holds either (`FlagsInv`),
that a queue not started is empty (`StartInv`), and that within one queue an
item has one place (`LinkInv`). The refinement proof shows the step of each action
under the mapping of `Service`, with lemmas on what `Append` and `Tail` do to the
abstract backlog.

`NvSaves_proofs` proves for any table, queue size, tick and count limits, room and
calls: `TypeOK`; `TableSaveAlone` and `AtomicOwnsQueue`; and, provided
`NvAtomicSave` is not called, `NoRequestLost` and `ShutdownComplete`. The proviso
is a hypothesis of these two theorems (`"atomic" \notin Calls`), because with
that call they are false (section 5). `KeptInv` strengthens `NoRequestLost` by: no
request in the queue is invalid and no call is inside `__NvAtomicSave`.
`TableSaveAlone` is inductive over
well-typed states; its lemmas say why: the request
for the whole table enters only an empty queue, since an invalidated slot absorbs
it otherwise, and a later request takes its slot, since it has the number of an
invalidated one. (So later requests are safe from it, and it is not from them:
section 5.)
`ShutdownComplete` needs that the loop is left only when nothing is pending
(`OffInv`), and `KeptInv` for what is then still due.

`NvFlash_proofs` proves for any data sets, page size, queue size and calls, in every
execution whose formats begin with no page erase requested (`QuietSpec`; without
that `ActivePageValid` is false, section 5): `TypeOK`, `ActivePageValid`,
`TagsFound` and `OnlyBlankProgrammed`. A power loss may come between any two
programmed cells, and in the middle of one, so the invariant `IInv` says of every
program point what is on the flash:

- `ValidSound`: a page whose two counters agree is sound inside, whichever it is. A
  start-up may choose either page, so it is not enough to know this of the active one.
- `ActiveSound`: the page a start-up would choose is `active`, its last tag is where
  `lastMeta` says, and `pageCounter` is its counter, or the next one while a copy
  ends. `ActivePageValid` and `TagsFound` are its consequences between operations.
- `RecordWritten`, `MirrorScanned`, `MirrorWritten`, `MirrorComplete`: while a record
  or a copy is written, which cells are blank, and that records and tags do not
  meet. For the copy this needs a count: at most one tag, and exactly one
  data cell, per element covered (`RoomUsed`), and `PageAssumption`, that a page
  has room for them, which `NvModuleInit` checks. `SinglesLast` says that a single
  element is on the mirror only if no full save below it is still to come; without it
  the count would not hold.
- `EraseBehind`, `Formatting`, `Holder`: the erase request is of the other page,
  what a format has done, and for whom the mutex is held.

Its second part is about the page copy. The invariant `CInv` says what a page copy has
done at each of its steps: the tags passed are superseded by a tag on the mirror
or by a queued save (`TagsDone`), the records on the mirror hold the newest
values (`ValuesDone`, `RecordDone`), and the counters left the rest alone
(`CopyDone`, `RoomDone`). From it follow `CopyKeepsSettled` and, provided that
`Size(r) + 2 < MinimumFree` for every save `r`, `CopyMakesRoom`. The code does not
check the proviso: `NvModuleInit` compares the sum of the table with the page and
`gNvMinimumFreeBytesCountStart_c` but no record with the latter; 128 bytes are its
default. With the proviso a hypothesis the theorem says when the
configuration is sound; `nvm_flash` meets it and `nvm_store` does not.
`StoreImplemented` is that `NvFlash` implements `NvStore`, under the restrictions
of the run `nvm_store`: formats as above and of a last valid page (`StoreSpec`), and a
queue of one save. With a longer queue a copy omits an element that a queued
save would write, so a power loss after it can lose the stored value: then
`CopyKeepsSettled` is what holds. The proof takes the steps one by one: programming a
data cell, a copy up to its bottom counter, an erase, a restore, and a power loss in any of
them change nothing that a start-up would find (`RestoredKept`, `RestoredTorn`); the
tag of a record stores all its elements at once (`RestoredTag`); the bottom counter
of a copy stutters.

`Ota_proofs` proves for any configurations, geometry of the flash, pool, lengths and
chunks: `TypeOK`, `PoolSound` and `PagesInOrder`. `IInv` adds to `TypeOK` that each
transaction has one place, none twice (`Places`, of which `PoolSound` is a
consequence); that the operation under way is the head of the queue
(`HeadTreated`: without it `Finish` would release another transaction than it
dequeues); that something is queued only for an image that is acquired, and nothing any
more when the boot loader is notified (`PostedInv`); and that the chunk a call waits
with is part of the image (`LengthInv`). `PostHas` and `PostQueue` say what
`OTA_PostWriteToFlash` does to the transactions, whatever the length of the chunk
and the number of free ones. For `PagesInOrder`, `OrderInv` says that the
addresses of the pages still to be written go up by a page from
`StorageAddressWritten` to the page being filled, or to where the next one will
begin, erase operations standing between them. It holds until a chunk is queued in
part (`spoiled`). An operation released under way ends the model (`broken`).

`OtaImage_proofs` goes on to what the storage holds: `CandidateIntact`
(`CandidateKept`), and `ErasedAhead` as far as the image goes (`HeadRoomErased`) and
altogether (`AheadErased`). Their hypotheses name the configurations for which they
are false:

- `WindowsInside`: no window of headroom is a multiple of a sector. Rounding the end of an
  area up (`OtaExternalFlash.c:504`, `OtaInternalFlash.c:488`) vouches for a sector
  behind such a window that was never erased.
- `ChunksBuffered`: no chunk written at once is exactly a page of the external driver,
  which passes the write buffer; `ota_page_chunk` shows the image with the hole.
- `LengthsInside`, for `AheadErased` only: no image ends on the boundary of a
  sector. The sector passed over lies behind the image then, and `CandidateKept` does
  not need this.

`Ota.cfg` meets all three. A posted write or erase ends any number of steps after the call
that queued it, and a buffer of a driver holds a part of the image meanwhile, so the
invariant `ImageInv` (with `IInv` and `OrderInv`) says at every step where each unit is:

- `DirectInv`: written at once, the units below `current` are in whole pages of the
  flash or in the buffer at their place, and all above, as far as was vouched for, is
  blank (`ExternalHolds`). The internal driver may also have the rest of a phrase
  still open, and the sectors it remembers as erased hold nothing but the image
  (`InternalHolds`): those it skips when asked again.
- `QueueText`: each page queued holds the units of its address, and at most one erase is
  queued, of the area that begins at `erased`; `QueueFlash`: what was written is the image,
  and what will be is erased. `Pushed` counts the chunk a call waits with. That pages
  come in order, none left out, is `OrderInv`: without it `written` would not bound them.
- `DoneInv`: the image is whole from the flush at the commit, or from the last page taken off
  the queue, until it is no longer offered; `BookInv` keeps the driver, the
  lengths and the states of the calls in step.

The lemmas say what a driver's operation does to such a storage, for any area and data:
`SectorsOfArea` which sectors an area covers, `InternalWriteIs` which phrases a write
programs and what it leaves buffered. Nothing is said of an image that is `spoiled`:
a flush failed at its commit, a chunk was queued in part, or the external driver failed in the
middle of one (section 5).

Of the services, `MCServices` checks one small instance each; twelve have proofs for
all values of their constants, on their own specifications, of the safety and action
properties they contribute to the groups of that run. Their hypotheses (`Constants`,
`AckConstants`, `RemoteConstants` and so on) type the constants and make the users finite; what
they say beyond that is named below.

- `Services_proofs`, of `Mws`: `TypeOK`, `AccessesAgree`, `FreeIsOffered`, `HandedByPriority`, for
  any protocols, priorities and threads that abort. The invariant is that the chain has every
  registered protocol once and is sorted by priority (`Chained`, `Sorted`); `Insert` is shown
  to keep both wherever it puts a protocol. So the first that waits, to which
  `MWS_SignalIdle` gives the transceiver, has no other one waiting before it. `Returnable` bounds how
  far the count may be behind the accesses of an owner whose count was cleared.
- of `FsciAck`: `TypeOK` and `AckedIsReceived`. An answer names no packet, so the
  invariant is that of stop-and-wait: as long as no timeout comes before the answer,
  one frame or answer is under way at most, that of the packet being sent
  (`OneUnderWay`), and a packet that counts as answered is with the receiver.
- of `Sfc`: `ConstrainedWhileEnabled`. `ClockInv` says where `SFC_Process` may be
  interrupted: it has left the constraint and not yet cleared `enable`.
- of `Sensors`: `TypeOK`, `ConstrainedOnce`, `MeasurementEnds` and `ValueConverted`.
  `LockInv` says that a thread that waits for a conversion or takes its value has the mutex
  and the ADC is measuring the temperature for it; `HeldInv` that a measurement has its
  constraint until it is refreshed. `ConstrainedOnce` is proved for tasks that do not
  measure the battery, which leave a constraint behind (section 5), and
  `MeasurementEnds` for readings that are valid: both hypotheses are those of the
  instances the run has for them.
- of `HwParam`: `TypeOK`, `NothingElseLost` and `BlankWhenInvalid`. `SavedInv` follows the area
  that is not written through the erase: it is in the sector up to it, in RAM from
  there on, and in both where the sector was not erased. Values are told from an
  erased and from an invalid area, as magic number and CRC do.
- of `Files`: `TypeOK`, `StoredIsWritten` and `MountedForUsers`. `CountInv` has
  `filesystem_init_done` as the cardinality of the users counted, and at most one user mounting,
  before any is; `CallInv` has no file in two calls, so that one whose removal failed
  is made anew as it was.
- of `Ics`: `TypeOK`, `ConstraintFollows` and `AnswerIsOwn`, under `FairSpec`. `FollowInv` says that
  serving the messages of the radio core that are left, the deferred ones first, takes the
  host's constraint to what the radio core wants. `AnswerIsOwn` is proved for one caller,
  as the instance of the run has: no lock keeps the calls of two callers apart.
- of `RngSource`: `NumbersDiffer`, for any tasks and each back end. The invariant is that one draws
  at a time (`OneDraws`), which the mutex grants or, at `RNG.c`, the condition that no two
  tasks have drawn at once (`Apart`), and that every number given is from an earlier state than
  the one being drawn from (`GivenInv`). What it draws from (`DrawsSeeded`), when a seed
  is asked for (`ReseedAsked`) and the sleep of the chip are only checked.
- `LowPower_proofs`, first part: `TypeOK`, `ErrorIsLag`, `SleepAllowed` and `TimeoutWakes`
  of `Pwr`. `lpDisallowCount` is a count of calls of all users, so the
  invariant relates it to a cardinality (`CountInv`, with `OneMore` and `OneLess`);
  `LagInv` says what the ticks are behind between a wake-up and its correction, and
  `IdleInv` that the idle time is that of the tasks: without it the ticks could be
  stepped past a timeout. `TypeOK` bounds a sleep and needs that no radio event is
  further away than the longest timeout (`Near`, which `Wakes` of the run meets).
- second part: `TypeOK`, `HeldIsActive` and `NotWokenEntering` of `RemoteActive`. The cores agree
  through registers only: `HostInv` says that `BLE_WKUP` is set while there is a
  request and the radio active once the first is granted, `NbuInv` that the radio core
  has announced its sleep (`WKUP_TIME`) before the radio leaves the active state.

- `HostSleep_proofs`, first part: `TypeOK`, `RamKept`, `PowerDownTold`, `NotDeeper` and
  `TimesRight` of `HostSleep`. `MaskInv` says that a bank with data is on in every sleep
  and that one with ECC stays recorded as on, or was written anew, until the next; `LostInv`
  that the content of a bank with ECC is lost only while the mask has it off. `HoldInv` relates the counts of the
  power manager to the holders of constraints, `NbuInv` the warning of the radio core
  to its flag, and `TimeInv` the ratio to the frequency the FRO has locked on.
  `Constants` has either all banks used selectable or none with ECC, which are the two
  settings of `gPlatformShutdownEccRamInLowPower`, and time stamps of any number of values.
- second part: `TypeOK`, `DurationRight`, `WokenInTime` and `ControllerPaired` of
  `SleepTime`, on all three platforms. `TimerInv` says that the timer was started with no
  more than the timeout, `DownInv` that a power down is noted for as long as it lasts,
  `PairInv` that the controller knows of the sleep under way. That `DurationRight`
  holds is arithmetic: both times are rounded down to microseconds, and a time
  stamp that has wrapped is one count short (`StampError`); the timer is read with a
  tick begun and the latency in it (`TimerError`). A tick of the timer is `Unit`
  counts, any integer above one (32 or 33 in the code, whose clocks divide to 32.768).

Assumptions: `SizesAssumption`, which the table's declaration and the
configuration constants satisfy; `ElementsAssumption`, `PageAssumption` and
`CellAssumption` of `NvFlash`, that the table is finite, that a page holds it, that values, tags and
counters are told from blank and torn cells, and values from tags; and those of the
constants of `WorkQ`, and of `Ota` and its storage (`ConfigAssumption`,
`GeometryAssumption`: pages, sectors, pool and chunks are not empty, images fit the
partition).

Only model-checked: all liveness (`PendingSavesWritten` and the like), and what the
services other than these twelve promise. Out of the prover's reach: liveness under fairness,
`ENABLED`, induction over data.

## 5. Where the code disagrees with its text, and other limits found

With a run of their own, expected to fail:

1. **A format can lose its own page** (`nvm_format_erases_active`).
   `NvInternalFormat` leaves a requested erase as it is (`NV_Flash.c:5350`). When
   the first page is still to be erased after a copy, the format makes it active
   and the next `NvIdle` erases it.
2. **NvShutdown leaves a save on interval unmade** (`nv_saves_shutdown`). It sets
   the event, but `__NvIdle` makes a tick only when a second has passed since the
   time stamp (`NV_Flash.c:2138`); the assertion at `NV_Flash.c:6675` fails.
3. **NvAtomicSave skips table entries** (`nv_saves_atomic`). The loop over the
   table starts with the counter of the loop over the queue (`NV_Flash.c:1840`).
4. **A chunk of exactly a page passes the write buffer** (`ota_page_chunk`,
   `OtaExternalFlash.c:296`): the bytes still buffered are never programmed.
5. **A table of another length loses the values** (`nv_table_upgrade`,
   `NV_Flash.c:4973`): tags are copied to where the old table ended.

Found by changing a constant of a run, or recorded in a history variable that
excludes the behaviour from a property. NVM:

* A copy drops the last saved value of a pending element: a single element
  with a pending save is not copied (`NV_Flash.c:5082`); if power fails before the
  pending save is made, a restart finds neither. With a queue of 2 in `NvStore.cfg`,
  `ImplementsStore` fails. Hence `CopyKeepsSettled` speaks of elements without a queued save.
* A tick's retry can wait for ever. A tick whose request is rejected (queue
  full in a critical section) sets `saveNextInterval` again but not the event
  (`NV_Flash.c:2345`). `PolicySavesSettle` fails on a table with more elements
  than the queue has slots.
* `NvAtomicSave` in a critical section can be absorbed. The request for the
  whole table has the number of an invalidated slot (`gNvCopyAll_c` and
  `gNvInvalidDataEntry_c` are both 0xFFFF, `NV_Flash.h:75`, `NVM_Interface.h:251`):
  such a slot absorbs it, and a later request overwrites it, although
  `NVM_Interface.h:895` has every save put in the queue until the section ends.
  `NoRequestLost` fails with `"atomic"` among the calls.
* Saves on interval can starve the queue: with room for one record after a
  copy, a tick takes it each time. `PolicySavesSettle` fails with `Room = 1`.
* The smallest page accepted is too small. With `PageSize = 10` and
  `MinimumFree = 4` (`nvm_store`), a copy may not leave room for the record it was
  made for, and the loop of `NvAddSaveRequestToQueue` (`NV_Flash.c:6572`) repeats
  copies: `CopyMakesRoom` fails there. An integrator has to set
  `gNvMinimumFreeBytesCountStart_c` above the largest record and two tags.
* `NvTable` marks as `loose` the entries overwritten or erased in a critical
  section (the postponed copy does not skip their records, `NV_Flash.c:1318`), on an
  empty page, or registered in a dual image with another geometry than stored. An entry
  added without a change of version goes unnoticed (without dual image);
  registering without overwrite takes the first free slot before it looks for the
  id; a legacy page without records makes the upgrade program before the page;
  the format path of the update leaves `mNvModuleInitialized` FALSE.

OTA and OTW:

* A window that ends on a sector boundary skips a sector; the internal driver
  forgets what it has erased only when the storage is selected again.
* Cancelling from a callback, or while an operation is under way, releases a
  transaction twice (`broken`); a pool used up in the middle of a chunk leaves it
  queued in part (`spoiled`); a flush that fails at the commit is only asserted.
* When the external driver fails after the first page of a chunk that crosses two
  ends of pages (`OtaExternalFlash.c:336`), its buffer belongs to a later page. If the
  chunk is pushed again, the units buffered there go in front of it to the first page,
  and the verification, which looks at the chunk only, agrees (`spoiled`). After a failing
  program the internal driver may have an empty buffer although the chunk did not
  count; writes at that offset then fail with an alignment error until the
  image is cancelled.
* `OTA_CancelImage` does not withdraw the request to the boot loader.
* OTW: an erasure cut off leaves the old signature, with which the old firmware is
  later "not required" (`torn`); a signature that cannot be read may be compared
  with what the buffer held (`misread`). Any failure but of the comparison counts
  as "not required". A failed `Otw_Init` leaves what it had set up; the result of CLOSE
  is ignored; `otwIsBusy` is tested and set without a lock.

Low power, sensors, coexistence, clocks:

* A battery measurement may overrun a temperature measurement: it does not
  look at the status again with the lock (`sensors.c:367`), and the low-power
  constraint is entered twice and left once. `ConstrainedOnce` fails with
  `"battery"` among the calls of `sensorsPeriod`.
* A task's refresh may stop the periodic measurement: the timer is restarted
  by whoever refreshes (`sensors.c:336`); one that began before the interval was
  set stops it. An invalid reading leaves the measurement ongoing
  (`fwk_platform_sensors.c:114`), the exception `~Attended` in `MeasurementDone`.
* `SFC_Enable(false)` clears `measureAvailable` before `enable`
  (`fwk_rf_sfc.c:278`), so that a measurement in between sets it again.
  `SFC_UpdateConfig` accepts more samples than the filter has; `fro_trim` wraps.
* MIMXRT595S: the timer count is cut to 16 bits, so that 65.536 s starts it with 0.
  RW61x: a power down without the timer is measured with the counts of an earlier
  sleep (`stale`). A wrap of the time stamps loses a count; the time to wake up
  after a power down is not counted.
* Wireless MCUs: a reinitialised range whose end is outside the table of banks
  is left out; the warning of the radio core is sent once.
* CPU2: `fwk_platform_ble.h` says wake-up requests nest, they share one bit;
  `PLATFORM_InitBle` creates its mutex at each call; an HCI message given up after its
  timeout leaves the bit set; a controller found awake is not held; an end that
  fails after the power-off leaves `initialized` TRUE.
* MWS: `MWS_Abort` clears the owner and the count after the callback with interrupts
  on (`MWS.c:345`). A protocol that acquires in between has its access erased and is told
  nothing; one that acquires between the two assignments owns a transceiver with a
  count of 0. `AccessesAgree` excepts it until it is given the transceiver anew (`misled`).
  If the owner releases between the two reads of `mActiveProtocol`, the callback of
  `gMWS_None_c` is called; this, and a release callback that acquires again, are not modelled.

Random numbers:

* Two tasks at once may get the same number from the generator of `RNG.c`, which
  takes no lock (`RNG.c:401`): with `"seed" \in clashed` dropped from `NumbersDiffer` TLC
  finds it. So may two requests step past the maximum that asks for a new seed
  (`RNG.c:388`), for which `ReseedAsked` excepts `"count" \in clashed`. In `Rng`,
  `RNG_SetSeed` runs against requests (`RNG.c:578`): `Overtaking` bounds them.
* Two threads in `TRNG_GoToSleep` at once may leave the chip free to sleep while the TRNG makes
  entropy (`"trng" \in clashed`); the interrupt alone may only leave it awake until
  the next number. The flag and the call of the power manager are one step of the model.
* The RNG adapter returns 0 bytes on success, so only its other path works;
  after a failed seed `RNG.c` never asks again while mbedTLS does at the next maximum;
  `RNG_mbedTLS.c` hands out its generator without the mutex;
  the Lehmer generator's modulus, as a state, reproduces itself.

Cryptography:

* mbedTLS ignores lengths that are not whole blocks in CTR, ECB and OFB;
  `CBC_Encrypt_And_Pad` of less than a block returns 0; the count of CMAC blocks
  is 16 bits; the sss CMAC of reversed input writes nothing without memory.
* Digests: lengths of 32 bits, MMO ignores text past a maximum, the blocks of one
  SHA update are counted in 16 bits.
* `SecLib_sss.c`: `ExportA2B`, `ImportA2B` and `FreeDhKeyDataSecure` free objects
  outside the mutex; the buffer of a failed `ComputeDhKey` and the object of a pair that
  cannot be imported are lost; `ComputeDhKey` returns success when the pair cannot be
  brought back; `ComputeA2BKeySecure` does not bring it back after low power.
* ECDH: psa always returns success, mbedTLS also without memory or generator
  (`misreported`); the buffer of a segmented multiplication is freed by nobody.

Serial commands:

* A packet of the largest payload is refused; a packet that comes before the task
  has read the slot is lost or treated twice (`hasty`, `leaked`); a late timeout
  clears the critical section of another (`late`); a packet of the host hides the
  next message of a stack (`FsciMain.c:122`); several handlers lose buffers
  (`leaked`); a print that never fits is never sent; escape sequences are broken
  and not modelled; an acknowledgement names no packet (`FsciAck`: `late`).

Storage:

* HwParam: saved copies are programmed over areas not erased when the erase fails;
  the write of factory data and the erase after an ECC fault do not preserve the reserved area.
* Files: `FS_InitGetHandle` does not count a user that finds the file system
  initialised; a mount that fails once formats everything; `FS_DeleteFile` ignores
  a removal that fails and closes a file that was not opened; nothing locks littlefs.
* Nvs: the recovery of a sector with a torn closing entry misses a deletion
  directly above the data (`missed`); an interrupted erase may leave cells unchanged. The
  erasure of a sector with unused space (`nvs.c:928`) compares an address of the whole store
  with the size of one sector, so that it comes about in sector 0 only.
* Settings: with `CountMayFail = TRUE`, `SavedSurvive` fails: the largest id is
  raised in RAM before it is written.
* Ics: two callers share one flag; a failing allocation overtakes.

Seen in reading, with no property: `WORKQ_SubmitToQueue` returns 2 for a redirected
item, a result `fwk_workq.h:97-101` does not list; `Otw_Init` returns OK when the
event cannot be created; `AES_128_CMAC_HW` declares `n` twice.

## 6. Not modelled

Inside the modelled components:

* NVM: content of data sets not mirrored in RAM, external flash, failing flash
  operations, ECC faults, `NvModuleDeInit`, the setters of the policies.
* OTA: `OTA_PullImageChunk`, `OTA_EraseStorageMemory`, an image at an offset, the
  CRC, `OTA_ServiceDeInit`, the formatting of a partition. `OtaServerSupport.c` is compiled out.
* Sensors: `SENSORS_Deinit`, the ADC's calibration wait and conversion of values.
* Low power: the mode constraints, which PM counts; trimming of crystals, start of the
  cores, wake-up sources, reset causes; RTC callbacks, PMIC, clocks.
* RNG: seed in flash, generators of other chips, arithmetic of the NIST generator.
* SecLib: hardware AES of `SecLib.c`; compression functions, cipher and curve are
  external; the debug-key variant.
* FSCI: MAC requests, allocation test, escape sequences, synchronous wait of a host, RPMSG.
* Cpu2: contents of vendor commands, WLAN, extended address, `PLATFORM_TerminateOt`
  called directly.
* OTW: failures of the HAL and of the event, calls of the single functions.
* Settings: name cache, export and commit handlers, loading of a subtree.
* Nvs: lookup cache, failing flash operations without a reset, reads during a write.

Other components (`PROJECT.json` has them with their reasons): a shell for tests,
constant tables, debugging aids, start-up code that writes registers through a
HAL that is not in the repository, headers of binary libraries, forwarding to drivers.

## 7. Plan

1. Proofs about more of the services: `PowerKnown` and `HeldAwake` of `Cpu2`, `DrawsSeeded` of
   `RngSource`.
2. Data sets not mirrored in RAM; the image at an offset and the CRC of OTA.
