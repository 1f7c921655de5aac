----------------------------- MODULE OtaProofs -----------------------------
(***************************************************************************)
(* Theorems of Ota, for any set of requests, any number of attempts,       *)
(* chunks and power failures.                                              *)
(*                                                                         *)
(* Part 1 holds whatever fails: the types, the exclusion of transfers, no  *)
(* deployment after a cancel, and whose image the boot loader installs.    *)
(* Part 2 assumes that no dropped error occurs, that the power does not    *)
(* fail in the window of edgehog_ota_init, and that the shipped image is   *)
(* confirmed: then the code implements OtaUpdate.                          *)
(***************************************************************************)
EXTENDS Ota, TLAPS

InitPlace == {"boot", "init_publish", "init_delete", "init_save"}

\* edgehog_ota_init runs before any handler can start a thread.
InitAlone == app \in InitPlace => thr = "none"

\* Only requests that the server sent are remembered, worked on, stopped or told of.
Known ==
  /\ nvReq \in issued \cup {None}
  /\ app = "init_publish" => nvReq # None
  /\ thr # "none" => thrReq \in issued
  /\ stopped \subseteq issued
  /\ \A r \in Requests \ issued : status[r] = "None"

\* What the server was last told of the request that the thread works on.
Told ==
  /\ thr \in {"take", "ack"} => status[thrReq] = "None"
  /\ thr \in Preparing \ {"ack"} => status[thrReq] = "Acknowledged"
  /\ thr = "attempt" => status[thrReq] \in {"Acknowledged", "Error"}
  /\ thr \in {"get", "backoff", "deploying"} => status[thrReq] = "Downloading"
  /\ thr \in {"save_reboot", "upgrade", "deployed"} => status[thrReq] = "Deploying"
  /\ thr = "rebooting" => status[thrReq] = "Deployed"
  /\ thr = "wait" => status[thrReq] = "Rebooting"
  /\ thr = "failure" => status[thrReq] \in {"Acknowledged", "Downloading", "Error"}
  /\ thr \in Failing \ {"failure"} => status[thrReq] = "Failure"

\* Attempts are counted from the start of the thread.
Counted == thr \in {"take"} \cup Preparing \cup Downloading => attempt < MaxRetry

\* The settings remember the request while its image is downloaded and deployed.
Remembered == thr \in Downloading \cup Deploying => nvReq = thrReq

\* The thread leaves the download with the whole image in the slot.
Downloaded ==
  /\ thr = "get" /\ got = ImageChunks /\ written = got => slot = thrReq
  /\ thr \in Deploying => slot = thrReq

\* An armed upgrade is followed by the reboot.  Should a new update overwrite the thread
\* that waits for it, the semaphore stays taken and the new thread does nothing.
Armed == pending =>
  /\ slot \in Requests /\ nvReq = slot
  /\ sem = 0 /\ ft = "idle"
  /\ thr \in {"take", "deployed", "rebooting", "wait"}

\* The thread of a stopped request finds its RUN bit cleared or is on its way out.
StoppedEnds ==
  \A r \in stopped :
    /\ status[r] \notin Promise!Deploy
    /\ thr # "none" /\ thrReq = r => thr \in Failing \/ (thr \in Downloading /\ ~runBit)

IInv == /\ TypeOK /\ SyncExclusion /\ InitAlone /\ Known /\ Told /\ Counted
        /\ Remembered /\ Downloaded /\ Armed /\ StoppedEnds


-----------------------------------------------------------------------------
\* RAM starts afresh with values of its types, and the slots hold images.
LEMMA ResetTypes ==
  ASSUME TypeOK, Reset, crashes' \in 0..MaxCrashes
  PROVE  TypeOK'
<1> USE DEF TypeOK, Reset, nvVars
<1>1. (nvState \in {"unset", "idle", "in_progress", "reboot"} /\ nvReq \in Requests \cup {None})'
  OBVIOUS
<1>2. (running \in Requests \cup {Factory} /\ slot \in Requests \cup {None})'
  OBVIOUS
<1>3. (/\ confirmed \in BOOLEAN /\ pending \in BOOLEAN
       /\ runBit \in BOOLEAN /\ overrun \in BOOLEAN)'
  OBVIOUS
<1>4. (app \in AppPlace /\ thr \in ThreadPlace)'
  BY DEF AppPlace, ThreadPlace
<1>5. (/\ thrReq \in Requests \cup {None} /\ attempt \in 0..MaxRetry
       /\ got \in 0..ImageChunks /\ written \in Nat)'
  BY OtaAssumption
<1>6. (/\ sem \in {0, 1} /\ ft \in {"idle", "transfer"}
       /\ status \in [Requests -> Promise!Status])'
  OBVIOUS
<1>7. (issued \subseteq Requests /\ refused \subseteq Requests /\ stopped \subseteq Requests)'
  OBVIOUS
<1> QED
  BY <1>1, <1>2, <1>3, <1>4, <1>5, <1>6, <1>7

\* The initial state: nothing is known, told, armed or running.
LEMMA InvInit == Init => IInv
<1> SUFFICES ASSUME Init PROVE IInv
  OBVIOUS
<1> USE OtaAssumption DEF Init
<1>1. TypeOK
  <2>1. /\ nvState \in {"unset", "idle", "in_progress", "reboot"} /\ nvReq \in Requests \cup {None}
        /\ running \in Requests \cup {Factory} /\ slot \in Requests \cup {None}
    OBVIOUS
  <2>2. /\ confirmed \in BOOLEAN /\ pending \in BOOLEAN
        /\ runBit \in BOOLEAN /\ overrun \in BOOLEAN
    OBVIOUS
  <2>3. app \in AppPlace /\ thr \in ThreadPlace /\ thrReq \in Requests \cup {None}
    BY DEF AppPlace, ThreadPlace
  <2>4. attempt \in 0..MaxRetry /\ got \in 0..ImageChunks /\ written \in Nat
    OBVIOUS
  <2>5. /\ sem \in {0, 1} /\ ft \in {"idle", "transfer"} /\ crashes \in 0..MaxCrashes
        /\ issued \subseteq Requests /\ refused \subseteq Requests /\ stopped \subseteq Requests
    OBVIOUS
  <2>6. status \in [Requests -> Promise!Status]
    BY DEF Promise!Status
  <2> QED
    BY <2>1, <2>2, <2>3, <2>4, <2>5, <2>6 DEF TypeOK
<1>2. SyncExclusion /\ InitAlone /\ Known
  BY DEF SyncExclusion, InitAlone, Known, InitPlace, Holding, Preparing, Downloading,
     Deploying, Failing
<1>3. Told /\ Counted /\ Remembered /\ Downloaded
  BY DEF Told, Counted, Remembered, Downloaded, Preparing, Downloading, Deploying, Failing
<1>4. Armed /\ StoppedEnds
  BY DEF Armed, StoppedEnds
<1> QED
  BY <1>1, <1>2, <1>3, <1>4 DEF IInv

\* Every step keeps the invariant, whatever fails and whoever is overwritten.
LEMMA InvStep == IInv /\ [Next]_vars => IInv'
<1> SUFFICES ASSUME IInv, [Next]_vars PROVE IInv'
  OBVIOUS
<1> USE OtaAssumption DEF IInv, TypeOK, SyncExclusion, InitAlone, Known, Told, Counted,
        Remembered, Downloaded, Armed, StoppedEnds, InitPlace, AppPlace, ThreadPlace, Holding,
        Preparing, Downloading, Deploying, Failing,
        Promise!Status, Promise!Deploy, Promise!Verdict,
        nvVars, bootVars, dlVars, syncVars, histVars, InitKeeps, HandlerKeeps, ThreadKeeps, FtKeeps,
        At, Tell, Publish, SaveState, DeleteReq
<1>1. CASE InitLoadFails
  BY <1>1 DEF InitLoadFails
<1>2. CASE InitNothingPending
  BY <1>2 DEF InitNothingPending
<1>3. CASE InitFailure
  BY <1>3 DEF InitFailure
<1>4. CASE InitConfirm
  BY <1>4 DEF InitConfirm
<1>5. CASE InitPublish
  BY <1>5 DEF InitPublish
<1>6. CASE InitDelete
  BY <1>6 DEF InitDelete
<1>7. CASE InitSave
  BY <1>7 DEF InitSave
<1>8. ASSUME NEW r \in Requests, UpdateRefused(r) PROVE IInv'
  BY <1>8 DEF UpdateRefused
<1>9. ASSUME NEW r \in Requests, UpdateDropped(r) PROVE IInv'
  BY <1>9 DEF UpdateDropped
<1>10. ASSUME NEW r \in Requests, UpdateAccepted(r) PROVE IInv'
  BY <1>10 DEF UpdateAccepted
<1>11. ASSUME NEW r \in Requests, CancelRefused(r) PROVE IInv'
  BY <1>11 DEF CancelRefused
<1>12. CASE CancelBegin
  BY <1>12 DEF CancelBegin
<1>13. ASSUME NEW r \in Requests, CancelFails(r) PROVE IInv'
  BY <1>13 DEF CancelFails
<1>14. CASE CancelLoad
  BY <1>14 DEF CancelLoad
<1>15. CASE CancelClear
  <2>1. TypeOK'
    <3>1. (stopped \subseteq Requests)'
      BY <1>15 DEF CancelClear
    <3>2. (runBit \in BOOLEAN)'
      BY <1>15 DEF CancelClear
    <3> QED
      BY <1>15, <3>1, <3>2 DEF CancelClear
  <2>2. (SyncExclusion /\ InitAlone /\ Known /\ Told)'
    BY <1>15 DEF CancelClear
  <2>3. (Counted /\ Remembered /\ Downloaded /\ Armed)'
    BY <1>15 DEF CancelClear
  <2>4. StoppedEnds'
    BY <1>15 DEF CancelClear
  <2> QED
    BY <2>1, <2>2, <2>3, <2>4
<1>16. CASE TakeSem
  BY <1>16 DEF TakeSem
<1>17. CASE PubAcknowledged
  BY <1>17 DEF PubAcknowledged
<1>18. CASE InitSettings
  BY <1>18 DEF InitSettings
<1>19. CASE InitSettingsFails
  BY <1>19 DEF InitSettingsFails
<1>20. CASE SaveInProgress
  BY <1>20 DEF SaveInProgress
<1>21. CASE Erase
  BY <1>21 DEF Erase
<1>22. CASE SaveReq
  BY <1>22 DEF SaveReq
<1>23. CASE SaveReqFails
  BY <1>23 DEF SaveReqFails
<1>24. CASE StartAttempt
  BY <1>24 DEF StartAttempt
<1>25. CASE Chunk
  BY <1>25 DEF Chunk
<1>26. CASE AttemptCanceled
  BY <1>26 DEF AttemptCanceled
<1>27. CASE AttemptDone
  BY <1>27 DEF AttemptDone
<1>28. CASE AttemptFails
  BY <1>28 DEF AttemptFails
<1>29. CASE Backoff
  BY <1>29 DEF Backoff
<1>30. CASE PubDeploying
  BY <1>30 DEF PubDeploying
<1>31. CASE SaveReboot
  BY <1>31 DEF SaveReboot
<1>32. CASE RequestUpgrade
  BY <1>32 DEF RequestUpgrade
<1>33. CASE RequestUpgradeFails
  BY <1>33 DEF RequestUpgradeFails
<1>34. CASE PubDeployed
  BY <1>34 DEF PubDeployed
<1>35. CASE PubRebooting
  BY <1>35 DEF PubRebooting
<1>36. CASE PubFailure
  BY <1>36 DEF PubFailure
<1>37. CASE SaveIdle
  BY <1>37 DEF SaveIdle
<1>38. CASE ClearRunBit
  <2>1. TypeOK'
    BY <1>38 DEF ClearRunBit
  <2>2. (SyncExclusion /\ InitAlone /\ Known /\ Told)'
    BY <1>38 DEF ClearRunBit
  <2>3. (Counted /\ Remembered /\ Downloaded /\ Armed)'
    BY <1>38 DEF ClearRunBit
  <2>4. StoppedEnds'
    BY <1>38 DEF ClearRunBit
  <2> QED
    BY <2>1, <2>2, <2>3, <2>4
<1>39. CASE DeleteReqId
  BY <1>39 DEF DeleteReqId
<1>40. CASE GiveSem
  BY <1>40 DEF GiveSem
<1>41. CASE Reboot
  <2>1. TypeOK'
    <3>1. Reset /\ crashes' \in 0..MaxCrashes
      BY <1>41 DEF Reboot
    <3> QED
      BY <3>1, ResetTypes
  <2>2. SyncExclusion'
    BY <1>41 DEF Reboot, Reset
  <2>3. InitAlone'
    BY <1>41 DEF Reboot, Reset
  <2>4. Known'
    BY <1>41 DEF Reboot, Reset
  <2>5. Told'
    BY <1>41 DEF Reboot, Reset
  <2>6. Counted'
    BY <1>41 DEF Reboot, Reset
  <2>7. Remembered'
    BY <1>41 DEF Reboot, Reset
  <2>8. Downloaded'
    BY <1>41 DEF Reboot, Reset
  <2>9. Armed'
    BY <1>41 DEF Reboot, Reset
  <2>10. StoppedEnds'
    BY <1>41 DEF Reboot, Reset
  <2> QED
    BY <2>1, <2>2, <2>3, <2>4, <2>5, <2>6, <2>7, <2>8, <2>9, <2>10
<1>42. CASE PowerFails
  <2>1. TypeOK'
    <3>1. Reset /\ crashes' \in 0..MaxCrashes
      BY <1>42 DEF PowerFails
    <3> QED
      BY <3>1, ResetTypes
  <2>2. SyncExclusion'
    BY <1>42 DEF PowerFails, Reset
  <2>3. InitAlone'
    BY <1>42 DEF PowerFails, Reset
  <2>4. Known'
    BY <1>42 DEF PowerFails, Reset
  <2>5. Told'
    BY <1>42 DEF PowerFails, Reset
  <2>6. Counted'
    BY <1>42 DEF PowerFails, Reset
  <2>7. Remembered'
    BY <1>42 DEF PowerFails, Reset
  <2>8. Downloaded'
    BY <1>42 DEF PowerFails, Reset
  <2>9. Armed'
    BY <1>42 DEF PowerFails, Reset
  <2>10. StoppedEnds'
    BY <1>42 DEF PowerFails, Reset
  <2> QED
    BY <2>1, <2>2, <2>3, <2>4, <2>5, <2>6, <2>7, <2>8, <2>9, <2>10
<1>43. CASE FtTake
  BY <1>43 DEF FtTake
<1>44. CASE FtGive
  BY <1>44 DEF FtGive
<1>45. CASE FtAbort
  BY <1>45 DEF FtAbort
<1>46. CASE UNCHANGED vars
  BY <1>46 DEF vars
<1> QED
  BY <1>1, <1>2, <1>3, <1>4, <1>5, <1>6, <1>7, <1>8, <1>9, <1>10, <1>11, <1>12, <1>13,
     <1>14, <1>15, <1>16, <1>17, <1>18, <1>19, <1>20, <1>21, <1>22, <1>23, <1>24, <1>25,
     <1>26, <1>27, <1>28, <1>29, <1>30, <1>31, <1>32, <1>33, <1>34, <1>35, <1>36, <1>37,
     <1>38, <1>39, <1>40, <1>41, <1>42, <1>43, <1>44, <1>45, <1>46
     DEF Next, OtaInit, OtaEvent, OtaThread

\* The invariant holds in every behaviour of the code.
THEOREM Invariant == Spec => []IInv
  BY InvInit, InvStep, PTL DEF Spec

\* Every variable keeps its type.
THEOREM TypeCorrect == Spec => []TypeOK
  BY Invariant, PTL DEF IInv

\* ota.c:423 and core.c:348: the OTA thread and a file transfer never overlap, and
\* sync_ota_ft_sem is never free while one of them is at work, for any faults, cancels,
\* overwritten threads, aborted transfers and resets.
THEOREM Exclusion == Spec => []SyncExclusion
  BY Invariant, PTL DEF IInv

-----------------------------------------------------------------------------
\* Each step that sets the RUN bit starts a thread, and the thread ends only after the
\* bit is cleared: the places of the thread alone decide it.
LEMMA RunBitStep == TypeOK /\ RunBitHasThread /\ [Next]_vars => RunBitHasThread'
<1> SUFFICES ASSUME TypeOK, RunBitHasThread, [Next]_vars PROVE RunBitHasThread'
  OBVIOUS
<1> USE DEF RunBitHasThread, ThreadKeeps, InitKeeps, HandlerKeeps, FtKeeps, syncVars, At, Tell
<1>1. CASE InitLoadFails
  BY <1>1 DEF InitLoadFails
<1>2. CASE InitNothingPending
  BY <1>2 DEF InitNothingPending
<1>3. CASE InitFailure
  BY <1>3 DEF InitFailure
<1>4. CASE InitConfirm
  BY <1>4 DEF InitConfirm
<1>5. CASE InitPublish
  BY <1>5 DEF InitPublish
<1>6. CASE InitDelete
  BY <1>6 DEF InitDelete
<1>7. CASE InitSave
  BY <1>7 DEF InitSave
<1>8. ASSUME NEW r \in Requests, UpdateRefused(r) PROVE RunBitHasThread'
  BY <1>8 DEF UpdateRefused
<1>9. ASSUME NEW r \in Requests, UpdateDropped(r) PROVE RunBitHasThread'
  BY <1>9 DEF UpdateDropped
<1>10. ASSUME NEW r \in Requests, UpdateAccepted(r) PROVE RunBitHasThread'
  BY <1>10 DEF UpdateAccepted
<1>11. ASSUME NEW r \in Requests, CancelRefused(r) PROVE RunBitHasThread'
  BY <1>11 DEF CancelRefused
<1>12. CASE CancelBegin
  BY <1>12 DEF CancelBegin
<1>13. ASSUME NEW r \in Requests, CancelFails(r) PROVE RunBitHasThread'
  BY <1>13 DEF CancelFails
<1>14. CASE CancelLoad
  BY <1>14 DEF CancelLoad
<1>15. CASE CancelClear
  BY <1>15 DEF CancelClear
<1>16. CASE TakeSem
  BY <1>16 DEF TakeSem
<1>17. CASE PubAcknowledged
  BY <1>17 DEF PubAcknowledged
<1>18. CASE InitSettings
  BY <1>18 DEF InitSettings
<1>19. CASE InitSettingsFails
  BY <1>19 DEF InitSettingsFails
<1>20. CASE SaveInProgress
  BY <1>20 DEF SaveInProgress
<1>21. CASE Erase
  BY <1>21 DEF Erase
<1>22. CASE SaveReq
  BY <1>22 DEF SaveReq
<1>23. CASE SaveReqFails
  BY <1>23 DEF SaveReqFails
<1>24. CASE StartAttempt
  BY <1>24 DEF StartAttempt
<1>25. CASE Chunk
  BY <1>25 DEF Chunk
<1>26. CASE AttemptCanceled
  BY <1>26 DEF AttemptCanceled
<1>27. CASE AttemptDone
  BY <1>27 DEF AttemptDone
<1>28. CASE AttemptFails
  BY <1>28 DEF AttemptFails
<1>29. CASE Backoff
  BY <1>29 DEF Backoff
<1>30. CASE PubDeploying
  BY <1>30 DEF PubDeploying
<1>31. CASE SaveReboot
  BY <1>31 DEF SaveReboot
<1>32. CASE RequestUpgrade
  BY <1>32 DEF RequestUpgrade
<1>33. CASE RequestUpgradeFails
  BY <1>33 DEF RequestUpgradeFails
<1>34. CASE PubDeployed
  BY <1>34 DEF PubDeployed
<1>35. CASE PubRebooting
  BY <1>35 DEF PubRebooting
<1>36. CASE PubFailure
  BY <1>36 DEF PubFailure
<1>37. CASE SaveIdle
  BY <1>37 DEF SaveIdle
<1>38. CASE ClearRunBit
  BY <1>38 DEF ClearRunBit
<1>39. CASE DeleteReqId
  BY <1>39 DEF DeleteReqId
<1>40. CASE GiveSem
  BY <1>40 DEF GiveSem
<1>41. CASE Reboot
  BY <1>41 DEF Reboot, Reset
<1>42. CASE PowerFails
  BY <1>42 DEF PowerFails, Reset
<1>43. CASE FtTake
  BY <1>43 DEF FtTake
<1>44. CASE FtGive
  BY <1>44 DEF FtGive
<1>45. CASE FtAbort
  BY <1>45 DEF FtAbort
<1>46. CASE UNCHANGED vars
  BY <1>46 DEF vars
<1> QED
  BY <1>1, <1>2, <1>3, <1>4, <1>5, <1>6, <1>7, <1>8, <1>9, <1>10, <1>11, <1>12, <1>13,
     <1>14, <1>15, <1>16, <1>17, <1>18, <1>19, <1>20, <1>21, <1>22, <1>23, <1>24, <1>25,
     <1>26, <1>27, <1>28, <1>29, <1>30, <1>31, <1>32, <1>33, <1>34, <1>35, <1>36, <1>37,
     <1>38, <1>39, <1>40, <1>41, <1>42, <1>43, <1>44, <1>45, <1>46
     DEF Next, OtaInit, OtaEvent, OtaThread

\* ota.c:361, ota.c:498: the RUN bit is set only while a thread works on an update, so that
\* a device that lost or ended its thread never refuses every later update.
THEOREM RunBitOwned == Spec => []RunBitHasThread
<1>1. Init => RunBitHasThread
  BY DEF Init, RunBitHasThread
<1> QED
  BY <1>1, RunBitStep, TypeCorrect, PTL DEF Spec

\* ota.c:589: an update whose Cancel was accepted while it downloaded is not deployed.
THEOREM CancelStops == Spec => []CanceledNotDeployed
<1>1. IInv => CanceledNotDeployed
  BY DEF IInv, StoppedEnds, CanceledNotDeployed
<1> QED
  BY <1>1, Invariant, PTL

\* ota.c:470: an armed upgrade installs the whole image of the remembered request.
THEOREM ArmedIsAccountable == Spec => []PendingIsAccountable
<1>1. IInv => PendingIsAccountable
  BY DEF IInv, Armed, PendingIsAccountable
<1> QED
  BY <1>1, Invariant, PTL

-----------------------------------------------------------------------------
\* Part 2: the errors that ota.c drops do not occur, nor a power failure between the lines
\* of edgehog_ota_init, and the shipped image was confirmed at the factory.
Benign == Faults = FALSE /\ InitCrashes = FALSE /\ FactoryConfirmed = TRUE

\* The semaphore is taken and nobody will give it back.
Lost == sem = 0 /\ ft = "idle" /\ thr \notin Holding

\* Once edgehog_ota_init has ended, a remembered request belongs to the thread, up to the
\* deletion of its id, or to a thread that was overwritten.
Owned ==
  /\ app = "init_save" => nvReq = None
  /\ app \notin InitPlace /\ nvReq # None =>
       \/ thr \in (Downloading \cup Deploying \cup Failing) \ {"idle", "give"} /\ nvReq = thrReq
       \/ Lost

\* A remembered request was told of, and holds a verdict only until it is forgotten.
RememberedTold ==
  /\ nvReq # None => status[nvReq] # "None"
  /\ nvReq # None /\ status[nvReq] = "Success" => app = "init_delete"
  /\ app = "init_delete" /\ nvReq # None => status[nvReq] \in Promise!Verdict

\* The state saved before the upgrade is armed is the one that the next boot reads.
RebootSaved ==
  /\ thr \in {"upgrade", "deployed", "rebooting", "wait"} => nvState = "reboot"
  /\ pending => /\ nvState = "reboot" /\ running # slot
                /\ status[slot] \in Promise!Deploy

\* An image that is not confirmed is the one the settings wait for.
Unconfirmed ==
  ~confirmed => /\ app = "boot" /\ nvState = "reboot"
                /\ nvReq = running /\ running \in Requests
                /\ status[running] \in Promise!Deploy

\* The image that runs was deployed, is not the one being worked on, and its request is
\* remembered only while the boot gives its verdict.
RunningDeployed ==
  /\ running \in Requests => status[running] \in Promise!Deploy \cup {"Success"}
  /\ thr # "none" => thrReq # running
  /\ running \in Requests /\ nvReq = running =>
       \/ app = "boot" /\ ~confirmed
       \/ app = "init_publish"
       \/ app = "init_delete" /\ status[running] = "Success"
  /\ app = "init_publish" =>
       nvReq = running /\ running \in Requests /\ status[running] \in Promise!Deploy

PInv == /\ IInv /\ Accountable /\ Owned /\ RememberedTold
        /\ RebootSaved /\ Unconfirmed /\ RunningDeployed

\* The shipped image is confirmed and owes no verdict.
LEMMA PInvInit == Benign /\ Init => PInv
<1> SUFFICES ASSUME Benign, Init PROVE PInv
  OBVIOUS
<1>1. IInv
  BY InvInit
<1> USE OtaAssumption DEF Benign, Init, Promise!Deploy
<1>2. Accountable /\ Owned /\ RememberedTold
  BY DEF Accountable, Owned, RememberedTold, InitPlace
<1>3. confirmed
  OBVIOUS
<1>4. RebootSaved
  BY DEF RebootSaved
<1>5. Unconfirmed /\ RunningDeployed
  BY <1>3 DEF Unconfirmed, RunningDeployed
<1> QED
  BY <1>1, <1>2, <1>4, <1>5 DEF PInv

\* Every step keeps the stronger invariant, power failures included.
LEMMA PInvStep == Benign /\ PInv /\ [Next]_vars => PInv'
<1> SUFFICES ASSUME Benign, PInv, [Next]_vars PROVE PInv'
  OBVIOUS
<1>0. IInv'
  BY InvStep DEF PInv
<1> USE OtaAssumption, <1>0 DEF Benign, PInv, IInv, TypeOK, SyncExclusion, InitAlone, Known, Told,
        Remembered, Downloaded, Armed, InitPlace, Holding,
        Preparing, Downloading, Deploying, Failing, Accountable, Owned, Lost, RememberedTold,
        RebootSaved, Unconfirmed, RunningDeployed,
        Promise!Status, Promise!Deploy, Promise!Verdict,
        nvVars, bootVars, dlVars, syncVars, histVars, InitKeeps, HandlerKeeps, ThreadKeeps, FtKeeps,
        At, Tell, Publish, SaveState, DeleteReq
<1>1. CASE InitLoadFails
  BY <1>1 DEF InitLoadFails
<1>2. CASE InitNothingPending
  BY <1>2 DEF InitNothingPending
<1>3. CASE InitFailure
  BY <1>3 DEF InitFailure
<1>4. CASE InitConfirm
  BY <1>4 DEF InitConfirm
<1>5. CASE InitPublish
  BY <1>5 DEF InitPublish
<1>6. CASE InitDelete
  BY <1>6 DEF InitDelete
<1>7. CASE InitSave
  BY <1>7 DEF InitSave
<1>8. ASSUME NEW r \in Requests, UpdateRefused(r) PROVE PInv'
  BY <1>8 DEF UpdateRefused
<1>9. ASSUME NEW r \in Requests, UpdateDropped(r) PROVE PInv'
  BY <1>9 DEF UpdateDropped
<1>10. ASSUME NEW r \in Requests, UpdateAccepted(r) PROVE PInv'
  BY <1>10 DEF UpdateAccepted
<1>11. ASSUME NEW r \in Requests, CancelRefused(r) PROVE PInv'
  BY <1>11 DEF CancelRefused
<1>12. CASE CancelBegin
  BY <1>12 DEF CancelBegin
<1>13. ASSUME NEW r \in Requests, CancelFails(r) PROVE PInv'
  BY <1>13 DEF CancelFails
<1>14. CASE CancelLoad
  BY <1>14 DEF CancelLoad
<1>15. CASE CancelClear
  BY <1>15 DEF CancelClear
<1>16. CASE TakeSem
  BY <1>16 DEF TakeSem
<1>17. CASE PubAcknowledged
  BY <1>17 DEF PubAcknowledged
<1>18. CASE InitSettings
  BY <1>18 DEF InitSettings
<1>19. CASE InitSettingsFails
  BY <1>19 DEF InitSettingsFails
<1>20. CASE SaveInProgress
  BY <1>20 DEF SaveInProgress
<1>21. CASE Erase
  BY <1>21 DEF Erase
<1>22. CASE SaveReq
  BY <1>22 DEF SaveReq
<1>23. CASE SaveReqFails
  BY <1>23 DEF SaveReqFails
<1>24. CASE StartAttempt
  BY <1>24 DEF StartAttempt
<1>25. CASE Chunk
  BY <1>25 DEF Chunk
<1>26. CASE AttemptCanceled
  BY <1>26 DEF AttemptCanceled
<1>27. CASE AttemptDone
  BY <1>27 DEF AttemptDone
<1>28. CASE AttemptFails
  BY <1>28 DEF AttemptFails
<1>29. CASE Backoff
  BY <1>29 DEF Backoff
<1>30. CASE PubDeploying
  BY <1>30 DEF PubDeploying
<1>31. CASE SaveReboot
  BY <1>31 DEF SaveReboot
<1>32. CASE RequestUpgrade
  BY <1>32 DEF RequestUpgrade
<1>33. CASE RequestUpgradeFails
  BY <1>33 DEF RequestUpgradeFails
<1>34. CASE PubDeployed
  BY <1>34 DEF PubDeployed
<1>35. CASE PubRebooting
  BY <1>35 DEF PubRebooting
<1>36. CASE PubFailure
  BY <1>36 DEF PubFailure
<1>37. CASE SaveIdle
  BY <1>37 DEF SaveIdle
<1>38. CASE ClearRunBit
  BY <1>38 DEF ClearRunBit
<1>39. CASE DeleteReqId
  BY <1>39 DEF DeleteReqId
<1>40. CASE GiveSem
  BY <1>40 DEF GiveSem
<1>41. CASE Reboot
  BY <1>41 DEF Reboot, Reset
<1>42. CASE PowerFails
  BY <1>42 DEF PowerFails, Reset
<1>43. CASE FtTake
  BY <1>43 DEF FtTake
<1>44. CASE FtGive
  BY <1>44 DEF FtGive
<1>45. CASE FtAbort
  BY <1>45 DEF FtAbort
<1>46. CASE UNCHANGED vars
  BY <1>46 DEF vars
<1> QED
  BY <1>1, <1>2, <1>3, <1>4, <1>5, <1>6, <1>7, <1>8, <1>9, <1>10, <1>11, <1>12, <1>13,
     <1>14, <1>15, <1>16, <1>17, <1>18, <1>19, <1>20, <1>21, <1>22, <1>23, <1>24, <1>25,
     <1>26, <1>27, <1>28, <1>29, <1>30, <1>31, <1>32, <1>33, <1>34, <1>35, <1>36, <1>37,
     <1>38, <1>39, <1>40, <1>41, <1>42, <1>43, <1>44, <1>45, <1>46
     DEF Next, OtaInit, OtaEvent, OtaThread
-----------------------------------------------------------------------------
\* Benign is a statement about constants, so it may be assumed once for a whole behaviour.
THEOREM PromiseInvariant ==
  ASSUME Benign
  PROVE  Spec => []PInv
<1>1. Init => PInv
  BY PInvInit
<1>2. PInv /\ [Next]_vars => PInv'
  BY PInvStep
<1> QED
  BY <1>1, <1>2, PTL DEF Spec

\* ota.c:549 and 439: from its first Downloading to its verdict a request is the one in the
\* settings, whenever the power fails, so that the next boot answers it.
THEOREM AlwaysAccountable ==
  ASSUME Benign
  PROVE  Spec => []Accountable
<1>1. PInv => Accountable
  BY DEF PInv
<1>2. Spec => []PInv
  BY PromiseInvariant
<1> QED
  BY <1>1, <1>2, PTL

-----------------------------------------------------------------------------
\* The initial state of the code is the initial state of the promise.
LEMMA PromiseInit == Init => Promise!Init
  BY DEF Init, Promise!Init

\* A step that leaves the events and the primary slot alone is a stutter of the promise.
LEMMA PromiseStutter ==
  ASSUME UNCHANGED <<status, running>>
  PROVE  [Promise!Next]_Promise!vars
  BY DEF Promise!vars

\* An event published along an arrow of the flowchart is an Advance of the promise.
LEMMA PromiseAdvance ==
  ASSUME NEW r \in Requests, NEW event, <<status[r], event>> \in Promise!Arrows,
         Publish(r, event), UNCHANGED running
  PROVE  Promise!Next
<1>1. PICK a \in Promise!Arrows : a[1] = status[r] /\ a[2] = event
  OBVIOUS
<1>2. Promise!Advance(r)
  BY <1>1 DEF Promise!Advance, Publish
<1> QED
  BY <1>2 DEF Promise!Next

\* A Failure published for a request whose image is not running is a Fail of the promise.
LEMMA PromiseFail ==
  ASSUME NEW r \in Requests, status[r] \notin Promise!Verdict \cup {"None"}, running # r,
         Publish(r, "Failure"), UNCHANGED running
  PROVE  Promise!Next
<1>1. Promise!Fail(r)
  BY DEF Promise!Fail, Publish
<1> QED
  BY <1>1 DEF Promise!Next

\* After any reset that installs an image, the image is that of a request being deployed.
LEMMA PromiseReset ==
  ASSUME Benign, PInv, Reset
  PROVE  [Promise!Next]_Promise!vars
<1>1. CASE UNCHANGED running
  BY <1>1, PromiseStutter DEF Reset
<1>2. CASE pending /\ slot # None /\ running' = slot
  <2>1. slot \in Requests /\ running # slot /\ status[slot] \in Promise!Deploy
    BY <1>2 DEF PInv, IInv, Armed, RebootSaved
  <2>2. Promise!Install(slot)
    BY <1>2, <2>1 DEF Promise!Install, Reset
  <2> QED
    BY <2>1, <2>2 DEF Promise!Next
<1> QED
  BY <1>1, <1>2 DEF Reset

\* Every step of the code is a step of the promise or a stutter.
LEMMA PromiseStep ==
  ASSUME Benign, PInv, [Next]_vars
  PROVE  [Promise!Next]_Promise!vars
<1> USE DEF bootVars, InitKeeps, HandlerKeeps, ThreadKeeps, FtKeeps, At, Tell
<1>0. thr # "none" => thrReq \in Requests /\ running # thrReq
  BY DEF PInv, IInv, TypeOK, Known, RunningDeployed
<1>1. CASE InitLoadFails \/ InitNothingPending \/ InitConfirm \/ InitDelete \/ InitSave
  <2>1. UNCHANGED <<status, running>>
    BY <1>1 DEF InitLoadFails, InitNothingPending, InitConfirm, InitDelete, InitSave
  <2> QED
    BY <2>1, PromiseStutter
<1>2. CASE InitFailure
  <2>1. nvReq \in Requests /\ running # nvReq /\ status[nvReq] \notin {"None", "Success"}
    BY <1>2 DEF InitFailure, Benign, PInv, IInv, TypeOK, Unconfirmed, RunningDeployed, RememberedTold
  <2>2. Publish(nvReq, "Failure") /\ UNCHANGED running
    BY <1>2 DEF InitFailure
  <2>3. CASE status[nvReq] = "Failure"
    <3>1. status' = status
      BY <2>1, <2>2, <2>3 DEF Publish, PInv, IInv, TypeOK
    <3> QED
      BY <2>2, <3>1, PromiseStutter
  <2>4. CASE status[nvReq] # "Failure"
    BY <2>1, <2>2, <2>4, PromiseFail DEF Promise!Verdict
  <2> QED
    BY <2>3, <2>4
<1>3. CASE InitPublish
  <2>1. nvReq \in Requests /\ running = nvReq /\ status[nvReq] \in Promise!Deploy
    BY <1>3 DEF InitPublish, PInv, RunningDeployed
  <2>2. Promise!Succeed(nvReq)
    BY <1>3, <2>1 DEF InitPublish, Publish, Promise!Succeed
  <2> QED
    BY <2>1, <2>2 DEF Promise!Next
<1>4. CASE OtaEvent
  <2>1. UNCHANGED <<status, running>>
    BY <1>4 DEF OtaEvent, UpdateRefused, UpdateDropped, UpdateAccepted, CancelRefused,
       CancelFails, CancelBegin, CancelLoad, CancelClear
  <2> QED
    BY <2>1, PromiseStutter
<1>5. CASE \/ TakeSem \/ InitSettings \/ SaveInProgress \/ Erase \/ SaveReq \/ SaveReqFails
            \/ Chunk \/ AttemptCanceled \/ AttemptDone \/ AttemptFails
            \/ SaveReboot \/ RequestUpgrade \/ SaveIdle \/ ClearRunBit \/ DeleteReqId \/ GiveSem
  <2>1. UNCHANGED <<status, running>>
    BY <1>5 DEF TakeSem, InitSettings, SaveInProgress, Erase, SaveReq, SaveReqFails, Chunk,
       AttemptCanceled, AttemptDone, AttemptFails, SaveReboot, RequestUpgrade, SaveIdle,
       ClearRunBit, DeleteReqId, GiveSem
  <2> QED
    BY <2>1, PromiseStutter
<1>6. CASE PubAcknowledged
  <2>1. thrReq \in Requests /\ <<status[thrReq], "Acknowledged">> \in Promise!Arrows
    BY <1>0, <1>6 DEF PubAcknowledged, PInv, IInv, Told, Preparing, Promise!Arrows
  <2>2. Publish(thrReq, "Acknowledged") /\ UNCHANGED running
    BY <1>6 DEF PubAcknowledged
  <2> QED
    BY <2>1, <2>2, PromiseAdvance
<1>7. CASE StartAttempt
  <2>1. thrReq \in Requests /\ <<status[thrReq], "Downloading">> \in Promise!Arrows
    BY <1>0, <1>7 DEF StartAttempt, PInv, IInv, Told, Preparing, Promise!Arrows
  <2>2. Publish(thrReq, "Downloading") /\ UNCHANGED running
    BY <1>7 DEF StartAttempt
  <2> QED
    BY <2>1, <2>2, PromiseAdvance
<1>8. CASE Backoff
  <2>1. thrReq \in Requests /\ <<status[thrReq], "Error">> \in Promise!Arrows
    BY <1>0, <1>8 DEF Backoff, PInv, IInv, Told, Preparing, Promise!Arrows
  <2>2. Publish(thrReq, "Error") /\ UNCHANGED running
    BY <1>8 DEF Backoff
  <2> QED
    BY <2>1, <2>2, PromiseAdvance
<1>9. CASE PubDeploying
  <2>1. thrReq \in Requests /\ <<status[thrReq], "Deploying">> \in Promise!Arrows
    BY <1>0, <1>9 DEF PubDeploying, PInv, IInv, Told, Preparing, Promise!Arrows
  <2>2. Publish(thrReq, "Deploying") /\ UNCHANGED running
    BY <1>9 DEF PubDeploying
  <2> QED
    BY <2>1, <2>2, PromiseAdvance
<1>10. CASE PubDeployed
  <2>1. thrReq \in Requests /\ <<status[thrReq], "Deployed">> \in Promise!Arrows
    BY <1>0, <1>10 DEF PubDeployed, PInv, IInv, Told, Preparing, Promise!Arrows
  <2>2. Publish(thrReq, "Deployed") /\ UNCHANGED running
    BY <1>10 DEF PubDeployed
  <2> QED
    BY <2>1, <2>2, PromiseAdvance
<1>11. CASE PubRebooting
  <2>1. thrReq \in Requests /\ <<status[thrReq], "Rebooting">> \in Promise!Arrows
    BY <1>0, <1>11 DEF PubRebooting, PInv, IInv, Told, Preparing, Promise!Arrows
  <2>2. Publish(thrReq, "Rebooting") /\ UNCHANGED running
    BY <1>11 DEF PubRebooting
  <2> QED
    BY <2>1, <2>2, PromiseAdvance
<1>12. CASE InitSettingsFails
  <2>1. thrReq \in Requests /\ running # thrReq
    BY <1>0, <1>12 DEF InitSettingsFails
  <2>2. status[thrReq] \notin Promise!Verdict \cup {"None"}
    BY <1>12 DEF InitSettingsFails, PInv, IInv, Told, Preparing, Promise!Verdict
  <2>3. Publish(thrReq, "Failure") /\ UNCHANGED running
    BY <1>12 DEF InitSettingsFails
  <2> QED
    BY <2>1, <2>2, <2>3, PromiseFail
<1>13. CASE RequestUpgradeFails
  <2>1. thrReq \in Requests /\ running # thrReq
    BY <1>0, <1>13 DEF RequestUpgradeFails
  <2>2. status[thrReq] \notin Promise!Verdict \cup {"None"}
    BY <1>13 DEF RequestUpgradeFails, PInv, IInv, Told, Preparing, Promise!Verdict
  <2>3. Publish(thrReq, "Failure") /\ UNCHANGED running
    BY <1>13 DEF RequestUpgradeFails
  <2> QED
    BY <2>1, <2>2, <2>3, PromiseFail
<1>14. CASE PubFailure
  <2>1. thrReq \in Requests /\ running # thrReq
    BY <1>0, <1>14 DEF PubFailure
  <2>2. status[thrReq] \notin Promise!Verdict \cup {"None"}
    BY <1>14 DEF PubFailure, PInv, IInv, Told, Preparing, Promise!Verdict
  <2>3. Publish(thrReq, "Failure") /\ UNCHANGED running
    BY <1>14 DEF PubFailure
  <2> QED
    BY <2>1, <2>2, <2>3, PromiseFail
<1>15. CASE Reboot \/ PowerFails
  BY <1>15, PromiseReset DEF Reboot, PowerFails
<1>16. CASE FtTake \/ FtGive \/ FtAbort
  <2>1. UNCHANGED <<status, running>>
    BY <1>16 DEF FtTake, FtGive, FtAbort
  <2> QED
    BY <2>1, PromiseStutter
<1>17. CASE UNCHANGED vars
  <2>1. UNCHANGED <<status, running>>
    BY <1>17 DEF vars
  <2> QED
    BY <2>1, PromiseStutter
<1> QED
  BY <1>1, <1>2, <1>3, <1>4, <1>5, <1>6, <1>7, <1>8, <1>9, <1>10, <1>11, <1>12, <1>13, <1>14, <1>15, <1>16, <1>17
     DEF Next, OtaInit, OtaThread

\* ota.c implements the promise of OtaUpdate: the flowchart of OTA Updates.md, one verdict
\* for each update, and a verdict that agrees with the image that runs, over resets.
THEOREM Refinement ==
  ASSUME Benign
  PROVE  Spec => KeepsPromise
<1>1. Spec => []PInv
  BY PromiseInvariant
<1>2. Init => Promise!Init
  BY PromiseInit
<1>3. PInv /\ [Next]_vars => [Promise!Next]_Promise!vars
  BY PromiseStep
<1> QED
  BY <1>1, <1>2, <1>3, PTL DEF Spec, KeepsPromise, Promise!Spec
=============================================================================
