# A TLA+ model of the Edgehog device library

This directory holds TLA+ modules that model the C library of
`lib/edgehog_device/` (the Edgehog device manager for Zephyr), the configurations
that model-check them with TLC, and theorems about them whose proofs TLAPS checks.
Paths below are relative to `lib/edgehog_device/` unless they start with `doc/`,
`include/` or `samples/`.

| Module | What it is |
|---|---|
| `OtaUpdate` | what an update promises to the server: the abstract specification |
| `Ota` | `ota.c` with the threads, settings, flash, boot loader and semaphore around it |
| `OtaProofs` | theorems of `Ota`, among them that it implements `OtaUpdate` |
| `Telemetry` | `telemetry.c` and `telemetry_entry.c` with timers, queue, threads and settings |
| `TelemetryProofs` | theorems of `Telemetry` |
| `FileTransfer` | `file_transfer/core.c`, `download.c`, `upload.c` and `stream.c`, with the stream threads of the sample application |
| `FileTransferProofs` | theorems of `FileTransfer` |
| `WifiScan`, `Led` | `wifi_scan.c` and `led.c`, with timers, events of the radio and threads |
| `WifiScanProofs` | theorems of `WifiScan` |
| `Device` | `device.c`: its life cycle over full instances of `WifiScan` and `Led`, and the RUN bits and threads of the services |
| `DeviceProofs` | theorems of `Device` |
| `Transfer` | what the two directions of a file system transfer share: request, paths, progress, response, blocks of TAR (`file_transfer/utils.c`, `filesystem_utils.c`) |
| `Extraction` | what a download to the file system promises: the abstract specification |
| `Download`, `Upload` | `file_transfer/download.c`, `upload.c`, `filesystem.c`, `decompression.c`, `http.c`, `ztar/unpack.c`, `ztar/pack.c` |
| `Archive` | both directions, and the download of what was uploaded |
| `ArchiveProofs` | theorems of `Archive` |
| `ExtractionProofs` | that `Archive` implements `Extraction`, and what an upload sends |
| `GoodTransferProofs` | that a transfer of what is in order succeeds, and sends all of its source |
| `MCOta`, `MCTelemetry`, `MCFileTransfer`, `MCWifiScan`, `MCDevice`, `MCArchive` | small instances for TLC, with one `.cfg` per question |
| `PROJECT.json` | which definition models which lines, runs, mutants, findings, hazards, theorems |

## 1. Inventory

The application calls `edgehog_device_new`, `_start`, `_poll` in a loop, `_stop` and
`_destroy`, all from one thread (`samples/edgehog_app/src/main.c:314-331`). The poll runs
the handlers of what the server sends. Each service then works in threads of its own.
Settings (Zephyr settings over NVS) outlive a reset. Nothing but atomic bits, message
queues, semaphores and joins orders the threads, and most results of settings and
publishing calls are dropped.

**OTA update** (`ota.c`). State: `ota_run_state` (one RUN bit), `ota_thread_data`, one thread
handle and stack, the settings `ota/state` and `ota/req_id`, the flash slots and the boot
loader's flags. Operations: the Update and Cancel handlers (poll thread), the OTA thread
(download with retries, deploy, reboot), and `edgehog_ota_init` at the first connected poll
after a boot, which gives the verdict. It takes `sync_ota_ft_sem` against file transfers.
Hard: a reset at any point, a Cancel between any two chunks, a second Update while the
thread ends, errors nobody looks at. Correct when: events follow
`doc/architecture/OTA Updates.md`; every request told Downloading gets one verdict that
agrees with the image that runs; a cancelled update is never deployed; the boot loader
installs only the whole image of the remembered request; the semaphore is given back.

**Telemetry** (`telemetry.c`, `telemetry_entry.c`). State: one entry per type (period,
flag, kernel timer), a message queue, one RUN bit and thread, the keys
`telemetry/<type>/periods` and `/enable`. Operations: load (settings, then the
application's configuration), start, set and unset handlers, expiry of a timer, the service
thread, stop with a join, destroy. Hard: timers that outlive a stop, handlers while the
service is stopped, two-key stores cut by a reset, a full queue, stops that time out.
Correct when: the timers of a running service are those configured last, what is in RAM is
what a reset loads, an enabled entry is published for ever, a stop ends and leaves nothing
running.

**File transfer service** (`file_transfer/core.c`). State: RUN bit, thread, allocated
queue, and the shared semaphore. Operations: queue a request, run transfers one by one,
stop: join, else *abort* the thread, then drain the queue. Hard: an aborted thread keeps the
semaphore; a popped or drained request gets no response; a stop races the wait for the
semaphore. Correct when: one response per request, never two transfers, always the
semaphore back.

**Streams** (`file_transfer/stream.c`). A pipe and an event object between the transfer
thread and the application. Hard: both sides time out, both are freed by one of them, end and
failure are told by the same bit. Correct when: the reader gets all bytes before the end,
a failed transfer is not taken for a whole file, nothing is used after it was freed.

**Download, upload and messages** (`file_transfer/download.c`, `upload.c`, `utils.c`).
Contexts with digest, progress, optional (de)compression and archive, and error paths that
close and remove files. Correct when: a wrong digest never leaves a file, every exit frees
and closes once.

**File system, compression** (`file_transfer/filesystem*.c`, `compression.c`,
`decompression.c`). Path checks, directory walks, LZ4 frames; sequential and mostly I/O.

**Archives** (`ztar/`). `unpack.c` is a state machine fed with chunks of any size. Correct
when: its callbacks do not depend on where the chunks are cut.

**HTTP** (`http.c`). Requests with payload callbacks; sequential. A callback may refuse a
chunk, which must end the request with an error.

**WiFi scan** (`wifi_scan.c`). Four state bits shared by the caller, a timer, the network
callback and the scan thread. Hard: bits cleared one by one, results before the thread
exists, a destroy with no scan. Correct when: a scan that was started ends and the next
one may start.

**LED** (`led.c`). Blink thread, timer, one bit, restarted by each event. Hard: a stale timer
and a thread that is still asleep.

**Device lifecycle** (`device.c`). New, start, poll, connection callbacks, stop, destroy.
Hard: partly failed stops, failure paths of `edgehog_device_new`, reconnections.

**Settings** (`settings.c`): save, load and delete of single keys, not atomic together.

**Status publishers** (`base_image.c`, `battery_status.c`, `hardware_info.c`,
`network_properties.c`, `os_info.c`, `runtime_info.c`, `storage_usage.c`, `system_info.c`,
`system_status.c`, `system_time.c`), **command** (`command.c`: compare and reboot) and
**generated interfaces**: no state and no interaction; not modelled.

The hazards, each at its line with the properties that guard it, are in `PROJECT.json`;
those without a property say why.

## 2. Plan

1. `OtaUpdate`, `Ota`, `OtaProofs`: done. The update can brick or misreport a device, and
   has most of the hard behaviour.
2. `Telemetry`, `TelemetryProofs`: done.
3. `FileTransfer`, `FileTransferProofs`: done. Service, handlers and streams are one module, as
   every property that matters spans them: whether a context may be freed depends on where
   the handler *and* the application are.
4. `WifiScan`, `Led` and `WifiScanProofs`: done. Bit protocols of three or four actors each.
5. `Device` and `DeviceProofs`: done. The life cycle with stops that fail half-way, over whole
   instances of the two modules before.
6. `Transfer`, `Download`, `Upload`, `Extraction`, `Archive`, `ArchiveProofs`: done. The file system
   backend with the archives, down to where a chunk is cut, and that a download implements
   `Extraction`.
7. Open: `FtDevice`, that is `Ota` and `FileTransfer` over one semaphore and one polling thread, in
   place of the three `Ft` actions of `Ota` and the two `Ota` actions of `FileTransfer`.
8. `ExtractionProofs`: done. `Archive` implements `Extraction`, with an invariant that relates every
   cell of a chunk to the entry that it came from.
9. `GoodTransferProofs`: done. `GoodTransfers` for every content and tree, which is the converse:
   what is in order is never refused, and the walk over a tree misses nothing.
10. Open: the abstract specification of a streamed transfer, with `FileTransfer` proved to implement
   it.

Properties come first from the hazard list. Modules that are to be proved about use no
recursive operator; parameters are constants with a named assumption.

## 3. The OTA model

Both threads run on one core at different priorities. A step is what a thread does from
one call that may block it (publish, flash, settings, HTTP, sleep, semaphore) to the next;
between those no other thread runs that touches this state, except that an interrupted
`atomic` bit operation is one step anyway. `app` and `thr` say where the poll thread and
the OTA thread are.

| Model | Code |
|---|---|
| `InitLoadFails` ... `InitSave` | `edgehog_ota_init`, `ota.c:207-269` |
| `UpdateRefused`, `UpdateDropped`, `UpdateAccepted` | `edgehog_ota_event_update`, 333-406: refused while the RUN bit is set; dropped or accepted by the results of its calls |
| `CancelRefused` ... `CancelClear` | `edgehog_ota_event_cancel`, 644-714, one step per settings call |
| `TakeSem` ... `GiveSem` | `ota_thread_entry_point`, 408-508; `Erase` ... `Backoff` are `perform_ota` (529-574), `Chunk` and `Attempt*` one HTTP request (583-650) |
| `Reset`, `Reboot`, `PowerFails` | loss of RAM and the boot loader (external): an armed slot overwrites the running image, which then is not confirmed |
| `FtTake`, `FtGive`, `FtAbort` | `file_transfer/core.c:345-373` and 244-252, as far as the semaphore sees them |

An image is named by the request that brought it; a chunk has no content, so an image is
whole when `written` equals `ImageChunks`. `UpdateAccepted` may overwrite a live thread,
which is recorded in `overrun`: the model goes on as the kernel would with the handle and
the stack reused, the old thread gone with what it held.
`status` holds what `edgehog_ota_init` and the OTA thread published; the answers
of the handlers are kept apart in `refused`.

`OtaUpdate` is the promise: arrows of the flowchart, `Install` by the boot loader, `Succeed`
only on the image of the request, `Fail` only on another one. `Ota` implements it with the
identity mapping of `status` and `running` (`KeepsPromise`).

### Runs

| Run | Bounds | Shows |
|---|---|---|
| `ota_any` | 2 requests, 3 attempts, 2 chunks, 2 resets, all faults | exclusion, RUN bit, cancel, armed upgrades, whatever fails |
| `ota_promise` | 2 requests, 2 attempts, 2 chunks, 2 resets, no dropped error | refinement of `OtaUpdate`, accountability, verdict and semaphore under fairness |
| `ota_overrun` | no reset | a second update is accepted over a live thread |

Two requests are the least for one to meet what another left; a third would add nothing
that the second does not, as the code keeps one request at a time. Two chunks tell a first, a
middle and a last moment of an attempt apart; three attempts a first, a middle and a last;
two resets allow one during what the other caused. The theorems lift these bounds.

### Fairness

Weak for the boot sequence, the handler that has begun, the OTA thread, the reboot and the
end of a transfer: the scheduler runs each and all waits have timeouts. Strong for `TakeSem`: a
`k_sem_give` hands the semaphore to the waiter of highest priority, the OTA thread. None for
the server, the power, or `edgehog_device_stop`.

## 4. The telemetry model

| Model | Code |
|---|---|
| `New`, `NewUnloaded` | `edgehog_telemetry_new`, `telemetry.c:143-172`; the result of loading is dropped |
| `Start`, `StartEntry` | `edgehog_telemetry_start`, 174-216, then `schedule_entry` for each entry |
| `SetEnable` ... `UnsetPeriod` over `Configure` | the set and unset handlers, 218-295 |
| `SavePeriod`, `SaveEnable`, `SaveFails` | `telemetry_entry_store`, `telemetry_entry.c:181-203` |
| `ScheduleStopped`, `Schedule`, `Unschedule` | the timer part of `schedule_entry` (356-386) and `unschedule_entry` (435-454) |
| `StopBegin`, `StopJoined`, `StopTimeout` | `edgehog_telemetry_stop`, 297-311 |
| `Expire`, `ExpireDropped` | `entry_timer_expiry_fn`, `telemetry_entry.c:61-67` |
| `TestRunBit`, `Get`, `GetTimeout`, `PublishTelemetry` | the service thread, 124-137 |

A timer is `off`, `armed` or `due`. `due` is its last millisecond, in which
`k_timer_remaining_get` already says 0; this is the one thing about time that the code's
guards can tell apart. Timers keep running over a stop, as in the code, where only
`edgehog_telemetry_destroy` and the handlers stop them. `dropped` records the types of
whose store or load an error was dropped; without such a record "the settings hold what is
in RAM" would be false for a reason the code accepts.

### Runs

| Run | Bounds | Shows |
|---|---|---|
| `telemetry_any` | 2 types (one configured), 1 period, queue of 1, all faults, stop timeouts, any number of power failures | types, RUN bit, timers and settings follow the entries |
| `telemetry_fair` | 1 type, 2 periods, queue of 2, unlimited stops, fairness | no live thread is overwritten; an enabled entry is published again and again; a stop of a started service ends |

One type is enough for an entry's own history, two for a loop over the entries in which one is
refused and the next is not; besides positive periods there are 0 and the -1 of an unset
type. A queue shorter than the number of types makes it full. The state space is finite
without a bound on power failures. Fairness: the application ends a call it has begun, the
service thread runs, a timer fires; a timer is not unlucky for ever in finding the queue
full (strong fairness of `Expire`: periods are whole seconds, and the real queue holds one
message more than there are types). None for starting, stopping or configuring.

Starting over a live thread after a stop *with* a limit is possible and is what
`include/edgehog_device/device.h:147` warns of; it is therefore not reported, and
`StopsBeforeStart` says that it cannot happen otherwise.

## 5. The file transfer model

Three kinds of threads meet: the one that polls and stops the device (`caller`), the service
thread (`thr`, with the request `cur`), and two of the application, one per
direction (`app`, `appReq`). A step is what a thread does from one call on shared
state (queue, semaphore, RUN bit, pipe, event, heap) to the next. Unlike an OTA chunk, a byte
is counted here: `body` received, `moved` through the library, `ctx[r].pipe` in
the pipe, `fill` in the application's buffer. A pipe neither loses nor reorders bytes, so
the counts say which bytes are where.

| Model | Code (`file_transfer/`) |
|---|---|
| `Start`, `StopBegin`, `StopJoined`, `StopTimeout` | `edgehog_ft_start` and `edgehog_ft_stop`, `core.c`; a stop that times out aborts the thread, which keeps the semaphore and leaves its context |
| `Accept`, `Refuse` | the handlers of a request up to the queue, `core.c:277-325` |
| `TestRunBit` ... `TakeTimeout` | the service thread, `core.c:328-375`: the RUN bit is tested before each wait for the semaphore |
| `InitFails` ... `HttpFails` | the part that `download.c` and `upload.c` share: `file_init`, HTTP data, digest, request, and the exit each failure jumps to |
| `Chunk` ... `DigestMismatch` | the response callback of a download over `write_append` of `stream.c`, one round of its loop per step |
| `ReadChunk` ... `Rejected` | the payload callback of an upload over `read_append`: the pipe first, the flags after it |
| `Finish`, `Free`, `Reply` | `write_complete` and `write_abort` post EOF and wait for the ACK, `read_complete` and `read_abort` free at once; response; semaphore |
| `AppRead` ... `AppStray` | `samples/edgehog_app/src/file_transfer.c` |
| `OtaTake`, `OtaGive` | `ota.c:423` and `ota.c:507`, as far as the semaphore sees them |

`prompt` is chosen once and is an assumption on the environment: no thread of the application is
ever kept from running for the two seconds that the library waits for it. Without
it every wait may end at any time (`Overdue`). An application whose context was freed under it
is `stray` and says nothing more: what freed memory holds is not modelled. `lost` is
history: the requests whose transfer a stop aborted.

### Runs

| Run | Bounds | Shows |
|---|---|---|
| `ft_any` | 2 downloads, 1 upload, queue of 1, pipe of 2, application chunk of 1, files of 0 or 3 bytes, all faults, stops that abort | types, semaphore, one response at most, no byte lost, teardown of downloads, the leaks are the known ones |
| `ft_fair` | 1 download, 1 upload, unlimited stops, fairness | accepted requests are answered, a stop ends while an update holds the semaphore, the reader learns of the end |
| `ft_teardown` | 1 download, 1 upload | a failed upload frees pipe and event under the writer |

Three requests let one be served, one wait and one be refused; two downloads let the second
reuse the application's thread while the first still runs. A file of three bytes fills the pipe of
two and leaves a rest, so partial writes and reads both happen; the application's chunk is
smaller than the pipe, as in the sample (256 against 1024). The upload has the length of what
was downloaded before. The two downloads are interchangeable (symmetry, in the safety run
only).

### Fairness

Weak for the service thread, for the threads of the application and for the end of a join: the
scheduler runs each thread, every wait of the library has a timeout. None for the
server, the network, an update, or for stopping: `Answered` is about behaviours in which no
update takes the semaphore for ever, and a request that waits when the service is stopped
has no response, which `Answered` excepts since `core.c:355` and `core.c:259` drop it.

## 6. The scan, the LED and the device

A step of `WifiScan` is one operation on the shared bits, or what a thread does up to the next
call that may block it. Those who ask for a scan (`Starters`: the polling thread with its
initial publish, and the telemetry thread) race with the scan thread, the timer, the events of
the radio and `edgehog_wifi_scan_destroy`.

| Model | Code |
|---|---|
| `StartRefused` ... `ArmTimer` | `edgehog_wifi_scan_start`, `wifi_scan.c`: bit, callback, request, thread, timer, each with its way out |
| `Destroy`, `Joined`, `JoinTimesOut` | `edgehog_wifi_scan_destroy` |
| `Loop` ... `Exit` | `wifi_scan_thread_entry_point`, which clears STOP, KILL and START in three steps |
| `ScanResult`, `ScanDone`, `TellThread`, `Timeout` | `wifi_mgmt_scan_event_handler` and `scan_timeout_handler` |
| `Unready` ... `Accepted`, `SetTimer` | `edgehog_led_event`, `led.c`; the new thread preempts it before the timer is set |
| `Toggle` ... `BlinkEnd`, `Expire` | the three blink threads and `expiry_blink_timer` |
| `New`, `NewFails`, `StartDevice`, `StartFails` | `edgehog_device_new` and `_start`, `device.c` |
| `PollNothing` ... `StartFileTransfer` | `edgehog_device_poll`: callbacks, initial publish, start of the services |
| `StopDevice` ... `DisconnectFails` | `edgehog_device_stop`: telemetry, file transfer, scan, connection, each of which may end it |
| `Destroy` | `edgehog_device_destroy`, only after a stop that succeeded, as in the sample |

A scan result is the number of the scan that found it, which is what tells whether a thread
transmits the results of another scan. `undisturbed` records that no request failed and no scan
was cut short: after a timeout the radio may still deliver results of the old scan to the new
callback, which the code accepts. The end of a scan takes two steps, as removing the callback
waits for a lock: the timer may expire, a request start and the thread leave before it is told
(`TellThread`). `trampled` records that a LED request took the handle of a blink thread that
still slept. In `Device` the services are their RUN bit and thread; what they do in between is
in the modules of sections 4 and 5, except for the one call that crosses over, the scan that the
telemetry thread starts.

### Runs

| Run | Bounds | Shows |
|---|---|---|
| `scan` | 2 starters, queue of 2, 3 scans that the radio accepts, 2 results of a scan; any number of refused and failed scans and of destroys | START has one owner, a thread in its loop will be told, results go out with their own scan, a scan ends |
| `device` | 1 scan that the radio accepts, without results; any number of polls, scans that fail, stops, LED requests and lost connections | a stop that succeeded left no thread, no LED bit without a timer, every join returns, a blink ends |

Two starters collide; a third adds another one that is refused. Three scans let one start behind
one that ended early while its timer or its results are still about, and two results fill the
queue of two or leave one behind. In `device` the one scan is that of the initial publish or
that of the telemetry, and carries no result since `scan` is about those. Nothing else is
bounded. Fairness is weak for each thread, that of network management included, for the timers,
and for a starter or handler that has begun. In `Device` the steps with which the application
comes back from a handler or a join are one condition, as it is in one of them at a time.
Nothing is assumed of the radio, which may never report the end of a scan; of the application
only that it returns from a handler and from a join whose thread has ended.

## 7. Transfers to and from the file system

`Archive` follows one request from its arrival to its response: `Download` or `Upload`, and
after a successful upload of a directory the download of what the server has stored
(`Handover`), so that writer and reader of archives are checked against each other. A byte is a
cell that says where it came from: the k-th byte of the header, or of the data, of the i-th
entry; a zero; or junk. A header is one block of such cells, so what it *says* is a look into
the entry, and whether the reader recognises it is whether its cells are the right ones in the
right order: this stands for magic, version and checksum.

| Model | Code |
|---|---|
| `ValidRequest`, `RefuseRequest` | `edgehog_ft_msg_init` and what the event handlers do with its result, `file_transfer/utils.c`, `core.c` |
| `SafePath`, `PartitionOk` | `filesystem_utils.c`: paths, and the first partition that holds one decides |
| `UpdateProgress`, `Work`, `DataDestroy` | progress over the system work queue, `utils.c` |
| `CheckSize` ... `SetupDigest` | `download.c` up to the request, `write_init` of `filesystem.c` |
| `Receive`, `Append*`, `Decompress*` | the HTTP callback with the digest, plain or through `decompression.c`, which may hold bytes back, and may have written some before it finds the frame broken |
| `Header*`, `Read*`, `Tar*` | `ztar_unpack_process`, one pass of its loop per step, with the callbacks of `download.c:80-130` |
| `Close` | `fs_close` in `write_append_next_entry`, `write_complete` and `write_abort`, whose result is ignored (`filesystem.c:206`, `:290`, `:315`) |
| `VerifyDigest`, `WriteComplete`, `WriteAbort` | the end of the handler, `write_complete` and `write_abort` |
| `ReadInit`, `Walked` | `read_init` and the walk for the size, whose failure is only logged |
| `Pack*`, `Ascend`, `EnterDirectory`, `NextFile`, `NoMoreFiles` | `ztar_pack_read_stream` over `read_get_next_entry`, `pack.c`, `filesystem.c` |
| `SendChunk`, `Server*` | socket and server (external): the server keeps as many bytes as were announced |
| `Change` | the application changes the size of a file while it is read |

`hurt` says that a call outside of the library failed, `disturbed` that the source changed, and
`kept` that something stays behind on purpose: they are what the properties except. `lost` has
the files that `fs_close` failed for. The code looks at no result of it and calls no `fs_sync`,
so a file system that keeps what is written until then has an empty file; the transfer goes on,
and success may be answered all the same. `Close` therefore fails or not as it likes when there
are faults, and `Stays` is what is really at the destination: `disk`, with the lost files empty.

`EndsClean` is about every way out of either handler. `GoodTransfers` is the other direction:
without such a cause nothing in order is refused, and what the server stored is exactly an
archive of the tree. `ExtractsReference` says that a download implements `Extraction`, wherever
the chunks are cut: below the destination there is never a byte that the content does not have
there, files only grow unless they are lost, success means all of the others, and a failure
takes everything back. That a lost file is left out of what success means is no promise of the
repository: it is what the code does, and section 9 lists it.

### Runs

| Run | Bounds | Shows |
|---|---|---|
| `archive` | blocks of 2 bytes, chunks of 0 to 5, 7 and 11 bytes cut anywhere, read buffer of 2, directories 2 deep, 3 names, 2 changes of a file, all faults; good and bad archives, requests, destinations and trees | types, progress, clean ends, good transfers succeed, downloads implement `Extraction`, uploads come back whole |
| `archive_foreign` | one archive: a file followed by an entry of another kind with data; no faults | the data of the entry ends up in the file |

A block of two bytes is the smallest that can be split, so that a header, the padding and the
trailer are each cut in the middle and at both ends; sizes from 0 to 4 give files without data,
with less than a block, a whole block and more. The pieces reach from one byte at a time to
several entries in one chunk. `SizeMax` stands for `SIZE_MAX`: 30 is above the partition sizes
at the boundary (20 and 21), and one request, of 31 for a partition of 99, is refused by it
alone. One directory more than `MaxDepth` is in `Deep`. The progress is followed in a few
scenarios only, as each published value multiplies the states. There is no fairness: every
property is about what a transfer may do, and a handler has no loop that does not consume its
input.

## 8. What is proved

TLAPS checks every proof. The assumptions are those named `...Assumption` in the modules (sets
and numbers of the right kind; of `Archive` also that requests and contents have the shape the
parser gives them), which TLC evaluates in the runs.

*OTA, whatever fails* (`OtaProofs`, part 1): `TypeCorrect`, `Exclusion`, `CancelStops`,
`ArmedIsAccountable`, `RunBitOwned`. The inductive invariant `IInv` adds to the properties: no
thread before `edgehog_ota_init` ends; requests are known before they are used; where the thread
stands determines its request, what it wrote and whether the slot is whole; a stopped request is
never one that is deployed. `SyncExclusion` alone, for one, is not inductive: it needs that a
thread past `TakeSem` holds the semaphore whoever clears its RUN bit. `RunBitHasThread` is
inductive by itself, given the types.

*OTA, no dropped error* (part 2, under `Benign`: no faults, no reset inside `edgehog_ota_init`,
shipped image confirmed): `AlwaysAccountable` and `Refinement` (`Spec => Promise!Spec`). `PInv`
adds who owns a remembered request, which state is saved before an upgrade is armed, that an
unconfirmed image is the one waited for, and what was told of the image that runs. Each action
maps to one arrow or to a stutter.

*Telemetry* (`TelemetryProofs`): `TypeCorrect`, `RunningIsAlive`, `NoLiveOverwrite`,
`TimersCorrect`, `SettingsCorrect`, for any types, periods, configuration and queue. The
inductive invariant says, within a call too, that an entry has its timer, waits in `todo`, or is
being scheduled, and that an entry is saved, refused, or being saved.

*File transfer* (`FileTransferProofs`): `TypeCorrect`, `Exclusion`, `OneAnswer`, `NoByteLost`,
`Teardown`, `NoLeak`, for any requests, sizes, queue and pipe, whatever fails and however stops
end. The inductive invariant `IInv` has two halves. `Requesting` is about requests: `Serving`
ties the place of the thread to its request and says that none transfers after an abort (the
semaphore is gone); `Pending` that a request is in one place, and nowhere before it arrived;
`Contexts` at which places a context exists. Without `Contexts`, `OnlyKnownLeaks` says nothing
about the step that starts a transfer. `Streaming` is about bytes and teardown: `Streams` says
that the application's thread is on the stream of the transfer, that the ACK is the last thing
it does and that a prompt application still holds what it uses; `Counted` that no more is
written than was received. `SafeTeardown` alone is not inductive, as it does not see that an ACK
means the thread is done.

*WiFi scan* (`WifiScanProofs`): `TypeCorrect`, `OneOwner`, `Bounded`, `OwnResults`, for any set
of threads that ask, any queue and any number of scans and stops. `StartHasOneOwner` and
`ScanIsBounded` carry themselves, with the types. `ResultsOfOwnScan` needs `Orderly`: while
nothing was cut short, the radio performs only the scan that was accepted last, with its
callback in place and a thread, or a starter about to create one, to hear it (`Heard`); before a
scan is requested, and when its thread leaves, queue and radio are empty and STOP is clear
(`Before`); and a scan that is over has left STOP for the thread to find, even when it ended
before the thread existed (`Told`).

*Device* (`DeviceProofs`): `TypeCorrect`, `NoThreadLeft`, `LedTimed`, for any queue and any
number of scans and results. `StoppedIsQuiet` alone does not see how a stop gets there:
`Stopping` says that what a stop has passed stays stopped until it returns, `Asks` that only a
live telemetry thread is in the middle of asking for a scan. The invariant of the LED lifts to
the device: its steps are those of `Led` or leave it alone, and a handler that is about to arm
the timer has the thread that polls (`LedSteps`).

*Archive* (`ArchiveProofs`): `TypeCorrect`, `CleanEnd` and `SafeProgress`, for any contents,
trees, chunk and block sizes, with faults or without. `Control` ties the place of the handler to
what it holds: `Owned` the HTTP data and its work item, `Answers` the errors (none before an
abort, one behind it, none behind a completion), `Released` context, files and directories,
`Coded` hash and decompression, `Placed` the destination. `SafeProgress` adds `UpTypes` and
`Counted`, as the progress grows by lengths that the walk and the packer determine. `TypeOK` is
not inductive: the invariant behind it, `TypesInv`, adds which part of the reader and of the
packer is in use where (`DownTypes`, `UpTypes`), and that what a packer still has to read fits
in its entry (`Filled`).

*Extraction* (`ExtractionProofs`): `Extracts` and `PacksArchive`. An archive is `FlattenSeq` of
pieces whose lengths are a sum, both recursive functions over the entries. What they compute is
proved, not assumed: each equation holds up to every n because no n is the least counterexample
(`NoCounterexample`), which needs no induction theorem. From that come where an entry starts
(`Start`), which cell is at which place, and what the files are after the first i entries. Two
invariants rest on it:

- `Packing` is about uploads: what was sent and what waits to be sent is together the pieces of
  the files listed so far and the beginning of the last one, as long as the packer says
  (`Laid`). `PacksArchive` says that an upload that ended well has sent `Archived(listing)`,
  whatever the application did to its files meanwhile. The download of what the server stored so
  starts with content of which `Offer` holds.
- `Reader` is about downloads: the chunk is the content from the place where the reader is
  (`Fed`), that place is in the header, data or padding of the entry that `tar` names, and the
  files are those of the entries before it, plus the read part of the data if the entry is a
  file (`TarRead`); or the file and what the decompression holds back is the content up to there
  (`PlainRead`). `PromiseStep` then maps each action to a step of `Extraction` or a stutter.

`Extracts` has one hypothesis, `Offered`: of every content, `Offer` holds. The cells of an
archive are those of its entries, of which any header, padding or trailer cell may be wrong and
any tail may be missing, anything may follow, names may repeat and paths escape; there is no
wrong byte of data, as what the archive has there is the content. A compressed file may have a
broken frame, whose bytes from there on are not written. What is left out is an entry that is no
file, has data, and comes behind a file: there the theorem is false, which is the finding
`archive_foreign`. `MCArchive` has both facts as assumptions that TLC evaluates: `Offer` holds
of all the contents in run `archive`, and not of the one in `archive_foreign`.

*Good transfers* (`GoodTransferProofs`): `TransfersWell`. The property goes both ways at once,
so its invariant has to know that nothing is missed and that nothing is refused. Of an upload,
`Uploading` says:

- `Walks`: there is a set of positions, one per directory, such that the stack of the walk is
  what is left of the open directories behind them, every other directory that was entered was
  read to its end (`Walking`), and the listing has the files before them, each once (`Listed`).
  The positions are no variable of the code and none of the model: the invariant says that they
  exist. When the stack is empty they are at the ends of all directories, as each is in one that
  is nearer to the root, and so the listing is the whole source.
- `Announces`: the size that was added up before the request is the length of the archive that
  is packed. It is a sum over a set of files, and the listing reaches it in the order of the
  walk; that the order does not matter is proved from the fold (`AddsUp`).
- `SendsFile`: the same for a source that is one file.
- `UpFine`: a source in order has met no error, unless a call outside of the library failed or
  the source changed under the walk.

Of a download, `Ordered` says that a request in order with good content has met no error
(`DownFine`), with `Reader` of `ExtractionProofs` for where the reader is. For each of the five
checks by which `ztar_unpack_process` and its callbacks refuse, a lemma has that a good archive
does not fail it (`HeaderIsGood`, `FileIsGood`, `DataIsGood`, `PaddingIsGood`, `TrailerIsGood`),
nor the check that the archive is over when the content is (`EndIsGood`, which needs `Arrived`:
the last chunk ends the content unless the connection broke). `AtTrailer` is there as `Reader`
says nothing of the place once the entries are over.

`TransfersWell` has three hypotheses about the instance, each an assumption that TLC evaluates
in `MCArchive`. `Offered` is that of `Extracts`. `Trusted` says what `good` means: the content
is all of an archive of files that are below the destination and have names of their own, in
which nothing else has data. `Sourced` is about what a file system gives to the walk: a path is
in one place, below the root, and each directory is in one that is nearer to the root. Without
it a walk could meet a directory twice or for ever.

*Model-checked only*: liveness (`RememberedGetsVerdict`, `NeverWedged`, `EnabledPublishes`, both
`StopEnds`, `Answered`, `ReaderEnds`, `ScanEnds`, `JoinEnds`, `BlinkEnds`), which is out of the
prover's reach. Every safety property of the passing runs is proved.

## 9. Findings

Each of three runs ends in a trace against what the repository says of itself; the texts with
the quoted lines are in `PROJECT.json`:

- `ota_overrun`, `ota.c:379`: an update is accepted while the thread of the one before still
  runs, and its handle and stack are used again.
- `ft_teardown`, `file_transfer/stream.c:321`: pipe and event of an upload are freed under the
  application.
- `archive_foreign`, `file_transfer/download.c:94`: the data of an archive entry that is to be
  skipped is appended to the file before it.

Seen while the code was translated, and no run is about them:

- `ota.c:261`: a power failure between publishing Success and deleting the request id makes the
  next boot publish Failure (`KeepsPromise` assumes that the power does not fail there).
- `ota.c:542`: what a failed attempt wrote stays counted in the flash context, so that after a
  retry a whole download is taken for a failed one.
- `telemetry_entry.c:194`: a reset between the two keys of an entry leaves a configured type
  disabled.
- `samples/edgehog_app/src/file_transfer.c:73`: the sample reports a success for a file that it
  has not read to its end.
- `file_transfer/filesystem.c:443` and `filesystem_utils.c:251`: a directory that cannot be
  opened or read counts as empty, so that an upload may succeed without a subtree (`disturbed`
  in `Upload`).
- `file_transfer/download.c:220`, `upload.c:176`: without memory for the HTTP data the file
  context stays on the heap and its file open (the exception of `EndsClean`).
- `file_transfer/download.c:277`: a request that breaks off between two chunks keeps the
  decompression context.
- `file_transfer/filesystem.c`: `write_init` makes the destination before it looks at the
  partition, and leaves it when that refuses; `is_valid_source` does not look at the length of a
  path that `read_init` (`:374`) then cuts.
- `file_transfer/filesystem.c:206`, `:290`: the result of `fs_close` is dropped, so that a file
  whose last bytes could not be flushed is reported as received (`lost` in `Download`).
- `file_transfer/filesystem.c:328`: a failed archive also deletes an empty directory that was at
  the destination before.
- `device.c:300-324`: `edgehog_device_new` may fail with `EDGEHOG_RESULT_OK` and keep the
  telemetry it had created.
- `device.c`: `edgehog_device_destroy` frees the struct in which the LED thread and its timer
  live without stopping them (`LedRound`, `LedExpire` have no behaviour after it).

## 10. What is not modelled

In the OTA, telemetry and stream models: delivery of messages to the server (the result of
publishing is dropped at `ota.c:816-821`; a publish is taken to arrive), the content of images,
two updates with the same UUID, `k_thread_create` failing (it cannot in Zephyr), allocation
failures of telemetry entries, periods too long for `K_SECONDS` (`telemetry.c:367`). `Destroy`
of `Telemetry` comes only after the service has ended, which `edgehog_device_destroy`
(`device.c:366-381`) leaves to its caller, and turns every timer off; `telemetry.c:316-318`
frees the entry of a timer with no time remaining without stopping it, so that one in its last
millisecond still fires on freed memory. `UpdateDropped` is only taken with no live thread,
though the `memset` of `ota.c:352` also comes before it under one; `UpdateAccepted` has that
case. Likewise `Unsupported` of `Led` takes a thread that still sleeps as gone once its handle
is cleared (`led.c:184`), and records it. A timer in its last millisecond is in `Telemetry`
(`due`), but how long it stays there is not. The server of an upload (external) answers well
once it has the length announced, whatever else is sent, and waits in vain for what is not.
`FileTransfer` is about streams; the file system, archives, malformed requests and progress are
in `Archive`, where a handler runs without a stop that aborts it, as that is in `FileTransfer`.
The published capabilities are left out.

In `Archive`: a compressed file that is offered without the end of its frame, which
`decompression.c` does not notice, what a failed `fs_close` leaves other than an empty or a
whole file, directories above the destination, links, two entries of one directory with the same
name, the fields of a header other than type, name and size (its checksum is the identity of its
cells), and the 32-bit overflow of the progress, which changes only when a report is sent. An
upload compressed with LZ4 cannot be asked for: `edgehog_ft_msg_init` refuses it, so
`upload.c:226-365` and `compression.c` never run.

In `Device`: the queue in which network management hands on events (they act at once), the OTA
thread, which neither start nor stop touches, a `k_mutex` taken in the timer's interrupt
(`wifi_scan.c:115`, which Zephyr forbids and the model takes as one step), the dispatch of
objects and properties to their handlers, and the application's own callbacks. The handler of
the scan's timer (`wifi_scan.c:111-117`) runs in an interrupt, so no thread runs between its
calls; and the stop of the timer and the STOP bit of `TellThread` are one step, as no one reads
the timer between them. `edgehog_device_stop` is represented by the abort of a transfer in
`Ota`, and by the stop of the service in `Telemetry` and `FileTransfer`.

Not modelled at all: the status publishers and `command.c`, which read the platform and publish
or reboot, with no state and no interaction; the generated interfaces; sockets, TLS and MQTT.
