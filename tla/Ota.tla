-------------------------------- MODULE Ota --------------------------------
(***************************************************************************)
(* The over-the-air update of lib/edgehog_device/ota.c: the application    *)
(* thread that polls the device and runs the handlers of the Update and    *)
(* Cancel requests, the OTA thread, the settings and the boot loader that  *)
(* outlive a reset, and the semaphore shared with the file transfer.       *)
(*                                                                         *)
(* Both threads run on one core.  A step of the model is what a thread     *)
(* does from one call that may block it (publishing, flash, settings,      *)
(* HTTP, sleeping, the semaphore) to the next.                             *)
(***************************************************************************)
EXTENDS Integers, FiniteSets

CONSTANTS
  Requests,          \* the UUIDs of the update requests the server may send
  None,              \* no request
  Factory,           \* the image the device was shipped with
  MaxRetry,          \* MAX_OTA_RETRY
  ImageChunks,       \* chunks the server sends for one image
  Faults,            \* may a settings or boot call fail whose error the code drops?
  InitCrashes,       \* may the power fail between lines 251 and 265?
  FactoryConfirmed,  \* is the shipped image marked as confirmed?
  DeviceStops,       \* may edgehog_device_stop abort a file transfer?
  MaxCrashes         \* bound: power failures in a behaviour

ASSUME OtaAssumption ==
  /\ None \notin Requests /\ Factory \notin Requests /\ Factory # None
  /\ MaxRetry \in Nat \ {0} /\ ImageChunks \in Nat \ {0} /\ MaxCrashes \in Nat
  /\ Faults \in BOOLEAN /\ InitCrashes \in BOOLEAN
  /\ FactoryConfirmed \in BOOLEAN /\ DeviceStops \in BOOLEAN

VARIABLES
  \* What outlives a reset.
  nvState,    \* settings "ota/state"
  nvReq,      \* settings "ota/req_id"
  running,    \* the request whose image is in the primary slot
  confirmed,  \* boot_is_img_confirmed()
  slot,       \* the request whose whole image is in the secondary slot
  pending,    \* boot_request_upgrade() was called since the last boot
  \* The application thread.
  app,        \* where it is
  \* The OTA thread and its ota_thread_data.
  runBit,     \* OTA_STATE_RUN_BIT of ota_run_state
  thr,        \* where it is
  thrReq,     \* ota_request.uuid
  attempt,    \* update_attempts
  got,        \* chunks received in this attempt
  written,    \* chunks given to flash_ctx since flash_img_init
  \* sync_ota_ft_sem and the file transfer thread.
  sem, ft,
  \* History: what the server saw, and what happened.
  status,     \* last event published for a request by ota_init or the OTA thread
  issued,     \* requests sent by the server
  refused,    \* requests a handler answered with a FAILURE event
  stopped,    \* requests whose RUN bit a Cancel cleared while they downloaded
  overrun,    \* a live OTA thread was overwritten since the last reset
  crashes     \* power failures so far

nvVars   == <<nvState, nvReq>>
bootVars == <<running, confirmed, slot, pending>>
dlVars   == <<attempt, got, written>>
syncVars == <<sem, ft>>
histVars == <<issued, refused, stopped, overrun, crashes>>
vars == <<nvVars, bootVars, app, runBit, thr, thrReq, dlVars, syncVars, status, histVars>>

\* The promise to the server, and its vocabulary of events.
Promise == INSTANCE OtaUpdate

-----------------------------------------------------------------------------
\* Places of the OTA thread.
Preparing   == {"ack", "settings", "in_progress", "erase", "save_req"}
Downloading == {"attempt", "get", "backoff"}
Deploying   == {"deploying", "save_reboot", "upgrade", "deployed", "rebooting", "wait"}
Failing     == {"failure", "save_idle", "clear", "delete", "idle", "give"}
\* Where it holds sync_ota_ft_sem.
Holding     == Preparing \cup Downloading \cup Deploying \cup Failing
ThreadPlace == {"none", "take"} \cup Holding

AppPlace == {"boot", "init_publish", "init_delete", "init_save",
             "ready", "cancel_load", "cancel_clear"}

\* edgehog_settings_save of the state and edgehog_settings_delete of the request id;
\* every caller drops the error.
SaveState(s) == nvState' \in IF Faults THEN {s, nvState} ELSE {s}
DeleteReq    == nvReq' \in IF Faults THEN {None, nvReq} ELSE {None}

\* pub_ota_event
Publish(r, event) == status' = [status EXCEPT ![r] = event]

Init ==
  /\ nvState = "unset" /\ nvReq = None
  /\ running = Factory /\ confirmed = FactoryConfirmed /\ slot = None /\ pending = FALSE
  /\ app = "boot"
  /\ runBit = FALSE /\ thr = "none" /\ thrReq = None
  /\ attempt = 0 /\ got = 0 /\ written = 0
  /\ sem = 1 /\ ft = "idle"
  /\ status = [r \in Requests |-> "None"]
  /\ issued = {} /\ refused = {} /\ stopped = {}
  /\ overrun = FALSE /\ crashes = 0
-----------------------------------------------------------------------------
(***************************************************************************)
(* edgehog_ota_init, called by the first poll that finds the device        *)
(* connected: it gives the verdict on the update that led to this boot.    *)
(***************************************************************************)
InitKeeps == UNCHANGED <<nvState, runBit, thr, thrReq, dlVars, syncVars, histVars>>

\* The settings cannot be loaded: nothing is told and nothing cleaned.
InitLoadFails ==
  /\ app = "boot" /\ Faults
  /\ app' = "ready"
  /\ UNCHANGED <<nvReq, bootVars, status>> /\ InitKeeps

InitNothingPending ==
  /\ app = "boot" /\ nvReq = None
  /\ app' = "init_delete"
  /\ UNCHANGED <<nvReq, bootVars, status>> /\ InitKeeps

\* Not the boot of a new image.  A swap type other than NONE, or an error while the
\* image is confirmed, fails an update whatever its state.
InitFailure ==
  /\ app = "boot" /\ nvReq # None
  /\ nvState # "reboot" \/ confirmed \/ Faults
  /\ Publish(nvReq, "Failure")
  /\ app' = "init_delete"
  /\ UNCHANGED <<nvReq, bootVars>> /\ InitKeeps

\* Mutant: boot_is_img_confirmed is not asked.
InitConfirmUnasked ==
  /\ app = "boot" /\ nvReq # None
  /\ nvState = "reboot"
  /\ confirmed' = TRUE
  /\ app' = "init_publish"
  /\ UNCHANGED <<nvReq, running, slot, pending, status>> /\ InitKeeps

InitConfirm ==
  /\ app = "boot" /\ nvReq # None
  /\ nvState = "reboot" /\ ~confirmed
  /\ confirmed' = TRUE
  /\ app' = "init_publish"
  /\ UNCHANGED <<nvReq, running, slot, pending, status>> /\ InitKeeps

InitPublish ==
  /\ app = "init_publish"
  /\ Publish(nvReq, "Success")
  /\ app' = "init_delete"
  /\ UNCHANGED <<nvReq, bootVars>> /\ InitKeeps

\* Mutant: the request id is left in the settings.
InitDeleteForgotten ==
  /\ app = "init_delete"
  /\ app' = "init_save"
  /\ UNCHANGED <<nvReq, bootVars, status>> /\ InitKeeps

InitDelete ==
  /\ app = "init_delete"
  /\ DeleteReq
  /\ app' = "init_save"
  /\ UNCHANGED <<bootVars, status>> /\ InitKeeps

InitSave ==
  /\ app = "init_save"
  /\ SaveState("idle")
  /\ app' = "ready"
  /\ UNCHANGED <<nvReq, bootVars, runBit, thr, thrReq, dlVars, syncVars, status, histVars>>

OtaInit == \/ InitLoadFails \/ InitNothingPending \/ InitFailure
           \/ InitConfirm \/ InitPublish \/ InitDelete \/ InitSave

-----------------------------------------------------------------------------
(***************************************************************************)
(* The handlers of edgehog_ota_event.  The server gives every update       *)
(* request a UUID of its own.                                              *)
(***************************************************************************)
HandlerKeeps == UNCHANGED <<nvVars, bootVars, syncVars, status, crashes>>

\* edgehog_ota_event_update while an update is in progress.
UpdateRefused(r) ==
  /\ app = "ready" /\ r \notin issued
  /\ runBit
  /\ issued' = issued \cup {r}
  /\ refused' = refused \cup {r}
  /\ UNCHANGED <<app, runBit, thr, thrReq, dlVars, stopped, overrun>> /\ HandlerKeeps

\* Out of memory: the request is dropped and nothing is told.  The thread data was
\* cleared, which only a thread that is still alive would notice: the model leaves that
\* case to UpdateAccepted.
UpdateDropped(r) ==
  /\ app = "ready" /\ r \notin issued
  /\ ~runBit /\ thr = "none"
  /\ issued' = issued \cup {r}
  /\ UNCHANGED <<app, runBit, thr, thrReq, dlVars, refused, stopped, overrun>> /\ HandlerKeeps

\* The thread data is cleared and a thread created with the only handle and the only
\* stack, whether the previous thread has ended or not.  Of a thread that has not, the
\* build keeps nothing: it never runs again, and what it holds is never given back (or
\* the kernel faults, and that is a PowerFails).
UpdateAccepted(r) ==
  /\ app = "ready" /\ r \notin issued
  /\ ~runBit
  /\ issued' = issued \cup {r}
  /\ runBit' = TRUE
  /\ thr' = "take" /\ thrReq' = r
  /\ attempt' = 0 /\ got' = 0 /\ written' = 0
  /\ overrun' = (overrun \/ thr # "none")
  /\ UNCHANGED <<app, refused, stopped>> /\ HandlerKeeps

\* edgehog_ota_event_cancel, whatever the UUID it carries.
CancelRefused(r) ==
  /\ app = "ready" /\ r \in issued
  /\ ~runBit
  /\ refused' = refused \cup {r}
  /\ UNCHANGED <<app, runBit, thr, thrReq, dlVars, issued, stopped, overrun>> /\ HandlerKeeps

CancelBegin ==
  /\ app = "ready" /\ issued # {}
  /\ runBit
  /\ app' = "cancel_load"
  /\ UNCHANGED <<runBit, thr, thrReq, dlVars, issued, refused, stopped, overrun>> /\ HandlerKeeps

\* The settings cannot be read, or hold no request id yet, or no longer.
CancelFails(r) ==
  /\ app = "cancel_load" /\ r \in issued
  /\ nvReq = None \/ Faults
  /\ refused' = refused \cup {r}
  /\ app' = "ready"
  /\ UNCHANGED <<runBit, thr, thrReq, dlVars, issued, stopped, overrun>> /\ HandlerKeeps

CancelLoad ==
  /\ app = "cancel_load" /\ nvReq # None
  /\ app' = "cancel_clear"
  /\ UNCHANGED <<runBit, thr, thrReq, dlVars, issued, refused, stopped, overrun>> /\ HandlerKeeps

CancelClear ==
  /\ app = "cancel_clear"
  /\ runBit' = FALSE
  /\ stopped' = IF thr \in Downloading THEN stopped \cup {thrReq} ELSE stopped
  /\ app' = "ready"
  /\ UNCHANGED <<thr, thrReq, dlVars, issued, refused, overrun>> /\ HandlerKeeps

OtaEvent == \/ \E r \in Requests : \/ UpdateRefused(r) \/ UpdateDropped(r) \/ UpdateAccepted(r)
                                   \/ CancelRefused(r) \/ CancelFails(r)
            \/ CancelBegin \/ CancelLoad \/ CancelClear

-----------------------------------------------------------------------------
(***************************************************************************)
(* The OTA thread: ota_thread_entry_point, perform_ota,                    *)
(* perform_ota_attempt and http_download_payload_cbk.                      *)
(***************************************************************************)
At(here, next) == thr = here /\ thr' = next
ThreadKeeps == UNCHANGED <<app, thrReq, ft, histVars>>
Tell(here, event, next) ==
  /\ At(here, next) /\ Publish(thrReq, event)
  /\ UNCHANGED <<nvVars, bootVars, runBit, dlVars, sem>> /\ ThreadKeeps

\* Mutant: k_sem_take without a wait, its result unread.
TakeSemNoWait ==
  /\ At("take", "ack")
  /\ sem' = 0
  /\ UNCHANGED <<nvVars, bootVars, runBit, dlVars, status>> /\ ThreadKeeps

TakeSem ==
  /\ At("take", "ack") /\ sem = 1
  /\ sem' = 0
  /\ UNCHANGED <<nvVars, bootVars, runBit, dlVars, status>> /\ ThreadKeeps

PubAcknowledged == Tell("ack", "Acknowledged", "settings")

\* edgehog_settings_init, whose failure ends the thread.
InitSettings ==
  /\ At("settings", "in_progress")
  /\ UNCHANGED <<nvVars, bootVars, runBit, dlVars, sem, status>> /\ ThreadKeeps

\* Mutant: jumps behind the line that clears the RUN bit.
InitSettingsFailsEarly == Tell("settings", "Failure", "delete")

InitSettingsFails == Tell("settings", "Failure", "clear")

SaveInProgress ==
  /\ At("in_progress", "erase") /\ SaveState("in_progress")
  /\ UNCHANGED <<nvReq, bootVars, runBit, dlVars, sem, status>> /\ ThreadKeeps

\* boot_erase_img_bank and, when it succeeds, flash_img_init: once for all attempts.
Erase ==
  /\ thr = "erase" /\ thr' \in {"save_req", "failure"}
  /\ slot' = None
  /\ UNCHANGED <<nvVars, running, confirmed, pending, runBit, dlVars, sem, status>> /\ ThreadKeeps

SaveReq ==
  /\ At("save_req", "attempt") /\ nvReq' = thrReq
  /\ UNCHANGED <<nvState, bootVars, runBit, dlVars, sem, status>> /\ ThreadKeeps

\* Mutant: the error is logged and the update goes on.
SaveReqFailsIgnored ==
  /\ At("save_req", "attempt")
  /\ UNCHANGED <<nvVars, bootVars, runBit, dlVars, sem, status>> /\ ThreadKeeps

SaveReqFails ==
  /\ At("save_req", "failure")
  /\ UNCHANGED <<nvVars, bootVars, runBit, dlVars, sem, status>> /\ ThreadKeeps

StartAttempt ==
  /\ At("attempt", "get") /\ Publish(thrReq, "Downloading")
  /\ got' = 0
  /\ UNCHANGED <<nvVars, bootVars, runBit, attempt, written, sem>> /\ ThreadKeeps

\* A chunk goes behind what flash_ctx already holds.  The slot has the image once the
\* last chunk is written where it belongs.
Chunk ==
  /\ thr = "get" /\ runBit /\ got < ImageChunks
  /\ got' = got + 1 /\ written' = written + 1
  /\ slot' = IF got' = ImageChunks /\ written' = got' THEN thrReq ELSE slot
  /\ UNCHANGED <<nvVars, running, confirmed, pending, runBit, thr, attempt, sem, status>>
  /\ ThreadKeeps

\* The RUN bit is found cleared, by the callback or after the request.
AttemptCanceled ==
  /\ At("get", "failure") /\ ~runBit
  /\ UNCHANGED <<nvVars, bootVars, runBit, dlVars, sem, status>> /\ ThreadKeeps

\* Mutant: the RUN bit is not read again after the HTTP request.
AttemptDoneCanceled ==
  /\ At("get", "deploying")
  /\ got = ImageChunks /\ written = got
  /\ UNCHANGED <<nvVars, bootVars, runBit, dlVars, sem, status>> /\ ThreadKeeps

\* Mutant: the bytes written are not compared with the size of the image.
AttemptDoneUnsized ==
  /\ At("get", "deploying") /\ runBit
  /\ got = ImageChunks
  /\ UNCHANGED <<nvVars, bootVars, runBit, dlVars, sem, status>> /\ ThreadKeeps

AttemptDone ==
  /\ At("get", "deploying") /\ runBit
  /\ got = ImageChunks /\ written = got
  /\ UNCHANGED <<nvVars, bootVars, runBit, dlVars, sem, status>> /\ ThreadKeeps

\* An error of the network, before or behind the last chunk, or of the flash, or bytes written
\* other than the image size.
AttemptFails ==
  /\ At("get", "backoff") /\ runBit
  /\ UNCHANGED <<nvVars, bootVars, runBit, dlVars, sem, status>> /\ ThreadKeeps

\* Mutant: one attempt too many.
BackoffOnceMore ==
  /\ thr = "backoff" /\ Publish(thrReq, "Error")
  /\ attempt' = attempt + 1
  /\ thr' = IF attempt' <= MaxRetry THEN "attempt" ELSE "failure"
  /\ UNCHANGED <<nvVars, bootVars, runBit, got, written, sem>> /\ ThreadKeeps

\* k_msleep, the Error event and the loop's test.
Backoff ==
  /\ thr = "backoff" /\ Publish(thrReq, "Error")
  /\ attempt' = attempt + 1
  /\ thr' = IF attempt' < MaxRetry THEN "attempt" ELSE "failure"
  /\ UNCHANGED <<nvVars, bootVars, runBit, got, written, sem>> /\ ThreadKeeps

PubDeploying == Tell("deploying", "Deploying", "save_reboot")

SaveReboot ==
  /\ At("save_reboot", "upgrade") /\ SaveState("reboot")
  /\ UNCHANGED <<nvReq, bootVars, runBit, dlVars, sem, status>> /\ ThreadKeeps

\* boot_read_bank_header and boot_request_upgrade(BOOT_UPGRADE_TEST).
RequestUpgrade ==
  /\ At("upgrade", "deployed")
  /\ pending' = TRUE
  /\ UNCHANGED <<nvVars, running, confirmed, slot, runBit, dlVars, sem, status>> /\ ThreadKeeps

RequestUpgradeFails == Tell("upgrade", "Failure", "clear")

PubDeployed  == Tell("deployed", "Deployed", "rebooting")
PubRebooting == Tell("rebooting", "Rebooting", "wait")

PubFailure == Tell("failure", "Failure", "save_idle")

SaveIdle ==
  /\ \/ At("save_idle", "clear")
     \/ At("idle", "give")
  /\ SaveState("idle")
  /\ UNCHANGED <<nvReq, bootVars, runBit, dlVars, sem, status>> /\ ThreadKeeps

ClearRunBit ==
  /\ At("clear", "delete") /\ runBit' = FALSE
  /\ UNCHANGED <<nvVars, bootVars, dlVars, sem, status>> /\ ThreadKeeps

DeleteReqId ==
  /\ At("delete", "idle") /\ DeleteReq
  /\ UNCHANGED <<nvState, bootVars, runBit, dlVars, sem, status>> /\ ThreadKeeps

\* Mutant: the thread ends and keeps the semaphore.
GiveSemForgotten ==
  /\ At("give", "none")
  /\ UNCHANGED <<nvVars, bootVars, runBit, dlVars, sem, status>> /\ ThreadKeeps

GiveSem ==
  /\ At("give", "none") /\ sem' = 1
  /\ UNCHANGED <<nvVars, bootVars, runBit, dlVars, status>> /\ ThreadKeeps

OtaThread ==
  \/ PubAcknowledged \/ InitSettings \/ InitSettingsFails \/ SaveInProgress
  \/ Erase \/ SaveReq \/ SaveReqFails
  \/ StartAttempt \/ Chunk \/ AttemptCanceled \/ AttemptDone \/ AttemptFails \/ Backoff
  \/ PubDeploying \/ SaveReboot \/ RequestUpgrade \/ RequestUpgradeFails
  \/ PubDeployed \/ PubRebooting
  \/ PubFailure \/ SaveIdle \/ ClearRunBit \/ DeleteReqId \/ GiveSem

-----------------------------------------------------------------------------
(***************************************************************************)
(* A reset, and the rest of the device.                                    *)
(***************************************************************************)
\* The boot loader, built with overwrite-only, copies the secondary slot over the
\* primary one when it was asked to and accepts the image.  RAM starts afresh.
Reset ==
  /\ \/ /\ pending /\ slot # None
        /\ running' = slot /\ confirmed' = FALSE /\ slot' = None
     \/ /\ pending
        /\ slot' = None
        /\ UNCHANGED <<running, confirmed>>
     \/ /\ ~pending
        /\ UNCHANGED <<running, confirmed, slot>>
  /\ pending' = FALSE
  /\ app' = "boot"
  /\ runBit' = FALSE /\ thr' = "none" /\ thrReq' = None
  /\ attempt' = 0 /\ got' = 0 /\ written' = 0
  /\ sem' = 1 /\ ft' = "idle"
  /\ overrun' = FALSE
  /\ UNCHANGED <<nvVars, status, issued, refused, stopped>>

\* wait_for_reboot and sys_reboot
Reboot == thr = "wait" /\ Reset /\ UNCHANGED crashes

PowerFails ==
  /\ crashes < MaxCrashes /\ crashes' = crashes + 1
  /\ InitCrashes \/ app \notin {"init_publish", "init_delete"}
  /\ Reset

\* The file transfer thread around one transfer.
FtKeeps == UNCHANGED <<nvVars, bootVars, app, runBit, thr, thrReq, dlVars, status, histVars>>
FtTake == ft = "idle" /\ sem = 1 /\ ft' = "transfer" /\ sem' = 0 /\ FtKeeps
FtGive == ft = "transfer" /\ ft' = "idle" /\ sem' = 1 /\ FtKeeps
\* edgehog_ft_stop aborts the thread, with what it holds, when it does not end in time.
FtAbort == DeviceStops /\ ft = "transfer" /\ ft' = "idle" /\ UNCHANGED sem /\ FtKeeps

Next == OtaInit \/ OtaEvent \/ TakeSem \/ OtaThread \/ Reboot
        \/ PowerFails \/ FtTake \/ FtGive \/ FtAbort

Spec == Init /\ [][Next]_vars

(***************************************************************************)
(* The scheduler runs every ready thread: the polls, the OTA thread and    *)
(* the transfer all go on (HTTP requests and sleeps time out).  k_sem_give *)
(* hands the semaphore to the waiting thread of highest priority, which is *)
(* the OTA thread: it cannot be overtaken for ever.  Nothing makes the     *)
(* server send, the power fail or the device stop.                         *)
(***************************************************************************)
Fairness == /\ WF_vars(OtaInit) /\ WF_vars(CancelLoad \/ CancelClear)
            /\ WF_vars(OtaThread) /\ WF_vars(Reboot)
            /\ SF_vars(TakeSem) /\ WF_vars(FtGive)

FairSpec == Spec /\ Fairness
-----------------------------------------------------------------------------
\* The types of the variables.
TypeOK ==
  /\ nvState \in {"unset", "idle", "in_progress", "reboot"}
  /\ nvReq \in Requests \cup {None}
  /\ running \in Requests \cup {Factory} /\ confirmed \in BOOLEAN
  /\ slot \in Requests \cup {None} /\ pending \in BOOLEAN
  /\ app \in AppPlace
  /\ runBit \in BOOLEAN /\ thr \in ThreadPlace /\ thrReq \in Requests \cup {None}
  /\ attempt \in 0..MaxRetry /\ got \in 0..ImageChunks /\ written \in Nat
  /\ sem \in {0, 1} /\ ft \in {"idle", "transfer"}
  /\ status \in [Requests -> Promise!Status]
  /\ issued \subseteq Requests /\ refused \subseteq Requests /\ stopped \subseteq Requests
  /\ overrun \in BOOLEAN /\ crashes \in 0..MaxCrashes

\* While the OTA thread holds sync_ota_ft_sem no file transfer runs, and the semaphore is
\* free only when neither does: whatever is cancelled, overwritten, aborted or reset.
SyncExclusion ==
  /\ sem = 1 => thr \notin Holding /\ ft # "transfer"
  /\ ft = "transfer" => thr \notin Holding

\* The RUN bit is never left set behind a thread that has ended: every later update would
\* be refused until a reset, and nothing but a reset would clear it.
RunBitHasThread == runBit => thr \notin {"none", "delete", "idle", "give"}

\* An update whose Cancel was accepted while it downloaded, be it between two attempts, is
\* not deployed.
CanceledNotDeployed ==
  \A r \in stopped : status[r] \notin Promise!Deploy

\* When the boot loader is told to install, the secondary slot holds the whole image of
\* the request that the settings remember: the next boot can tell whose verdict it is.
PendingIsAccountable == pending => slot \in Requests /\ nvReq = slot

\* From its first Downloading to its verdict the request is the one in the settings, so
\* that the server is told of it after any reset.
Accountable ==
  \A r \in Requests :
    status[r] \in {"Downloading", "Error"} \cup Promise!Deploy => nvReq = r

\* The code keeps the promise of OtaUpdate.
KeepsPromise == Promise!Spec

\* A request that the settings remember gets its verdict and is forgotten, over resets
\* too, provided no OTA thread is overwritten and no transfer is aborted.
RememberedGetsVerdict ==
  [](~overrun) => \A r \in Requests :
    nvReq = r ~> (nvReq # r /\ status[r] \in Promise!Verdict)

\* An update thread that waits for the semaphore goes on, and in the end gives it back.
NeverWedged == [](~overrun) => []<>(thr = "none")

\* No update is accepted while the thread of another one is alive
\* (EDGEHOG_RESULT_OTA_ALREADY_IN_PROGRESS).
NoOverrun == ~overrun
=============================================================================
