----------------------------- MODULE DeviceProofs -----------------------------
(***************************************************************************)
(* Theorems of Device, for any bounds: when a stop has succeeded nothing   *)
(* is left running, and the LED is never on a bit that nobody clears.  The    *)
(* types of the scan driver come from WifiScanProofs, for the two threads  *)
(* that ask for scans here.                                                *)
(***************************************************************************)
EXTENDS Device, TLAPS

Driver == INSTANCE WifiScanProofs WITH Starters <- {"app", "telemetry"}, Destroyer <- "app"

Types ==
  /\ at \in [{"app", "telemetry"} -> Wifi!StarterPlace]
  /\ teleBit \in BOOLEAN /\ ftBit \in BOOLEAN

\* Where edgehog_device_stop has seen the end of the telemetry thread, and where it has
\* cleared the RUN bit of the file transfer.
PastTelemetry    == {"ft_stop", "join_ft", "scan_stop", "join_scan", "disconnect"}
PastFileTransfer == {"join_ft", "scan_stop", "join_scan", "disconnect"}

\* Only a live telemetry thread asks for scans, and the application only in two places.
Asks ==
  /\ ~Live(tele) => at["telemetry"] = "idle"
  /\ at["app"] # "idle" => app \in {"publish", "join_scan"}

\* What was stopped is not started again before the stop returns.
Stopping ==
  /\ app \in PastTelemetry => ~Live(tele)
  /\ app \in PastFileTransfer => ~ftBit
  /\ ~ftBit /\ app # "join_ft" => ~Live(ft)
  /\ app = "disconnect" => thr = "ended"

Quiet ==
  quiet => app \in {"ready", "done"} /\ ~Live(tele) /\ ~ftBit /\ thr = "ended"

\* The inductive invariant.
LibInv == Types /\ Asks /\ Stopping /\ Quiet
IInv   == LibInv /\ runBit \in BOOLEAN /\ LedIsTimed
-----------------------------------------------------------------------------
LEMMA InvInit == Init => IInv
BY DEF Init, Wifi!Init, Lamp!Init, IInv, LibInv, Types, Asks, Stopping, Quiet, LedIsTimed, Lamp!RunIsTimed,
       Live, PastTelemetry, PastFileTransfer, Wifi!StarterPlace

\* What a step of the device does to the LED: an operation of Led, and a handler that is about
\* to arm the timer has the thread that polls.
LEMMA LedSteps ==
  ASSUME Next
  PROVE  \/ Lamp!Request /\ app' = "led"
         \/ Lamp!SetTimer
         \/ /\ Lamp!Round \/ Lamp!ToggleAgain \/ Lamp!Expire \/ UNCHANGED Lamp!vars
            /\ app = "led" => app' = "led" \/ handler # "timer"
<1> USE DEF ledVars, Lamp!vars
<1>1. CASE New \/ NewFails \/ StartDevice \/ StartFails \/ Destroy
  BY <1>1 DEF New, NewFails, StartDevice, StartFails, Destroy, LibKeeps
<1>2. CASE Poll
  BY <1>2 DEF Poll, Polls, PollNothing, Connected, Disconnected, LedRequest, LedHandled, NotConnected,
     AlreadyPublished, InitialPublish, InitialScan, InitialPublished, StartTelemetry,
     StartFileTransfer, LibKeeps, PollKeeps
<1>3. CASE Stop
  BY <1>3 DEF Stop, StopDevice, TeleJoined, TeleJoinTimesOut, StopFileTransfer, FtJoined,
     FtJoinTimesOut, StopScan, ScanJoined, ScanJoinTimesOut, Disconnect, DisconnectFails, StopKeeps
<1>4. CASE TelemetryScan \/ TelemetryEnds \/ FileTransferEnds \/ Scan
  BY <1>4 DEF TelemetryScan, TelemetryEnds, FileTransferEnds, Scan, OthersKeep
<1>5. CASE LedRound \/ LedToggle \/ LedExpire
  BY <1>5 DEF LedRound, LedToggle, LedExpire, OthersKeep
<1> QED
  BY <1>1, <1>2, <1>3, <1>4, <1>5 DEF Next

LEMMA LedStep ==
  ASSUME runBit \in BOOLEAN, LedIsTimed, [Next]_vars
  PROVE  runBit' \in BOOLEAN /\ LedIsTimed'
<1> USE DEF LedIsTimed, Lamp!RunIsTimed
<1>1. CASE UNCHANGED <<runBit, ledTimer, handler>>
  BY <1>1
<1>2. CASE Lamp!Unready \/ Lamp!Refused \/ Lamp!Unsupported
  BY <1>2, <1>1 DEF Lamp!Unready, Lamp!Refused, Lamp!Unsupported
<1>3. CASE Lamp!Accepted
  <2>1. /\ ~runBit /\ runBit' = TRUE
        /\ handler' = "timer" /\ ledTimer' = ledTimer
    BY <1>3 DEF Lamp!Accepted
  <2>2. ~ledTimer
    BY <2>1
  <2> QED
    BY <2>1, <2>2
<1>4. CASE Lamp!SetTimer
  <2>1. /\ handler = "timer" /\ handler' = "idle"
        /\ ledTimer' = TRUE /\ runBit' = runBit
    BY <1>4 DEF Lamp!SetTimer
  <2>2. handler' # "timer"
    BY <2>1
  <2> QED
    BY <2>1, <2>2
<1>5. CASE Lamp!Expire
  <2>1. /\ ledTimer /\ ledTimer' = FALSE
        /\ runBit' = FALSE /\ handler' = handler
    BY <1>5 DEF Lamp!Expire
  <2> QED
    BY <2>1
<1>6. CASE Lamp!Round \/ Lamp!ToggleAgain
  BY <1>6, <1>1 DEF Lamp!Round, Lamp!Toggle, Lamp!Awake, Lamp!BlinkEnd, Lamp!ToggleAgain, Lamp!BlinkKeeps
<1>7. CASE UNCHANGED vars \/ UNCHANGED Lamp!vars
  BY <1>7, <1>1 DEF vars, ledVars, Lamp!vars
<1> QED
  BY <1>1, <1>2, <1>3, <1>4, <1>5, <1>6, <1>7, LedSteps DEF Lamp!Request

-----------------------------------------------------------------------------
\* What a thread that asks for a scan does to itself, to the others, and to the scan thread.
LEMMA StarterSteps ==
  ASSUME Types, NEW p \in {"app", "telemetry"}, Wifi!Starter(p)
  PROVE  /\ at' \in [{"app", "telemetry"} -> Wifi!StarterPlace]
         /\ \A q \in {"app", "telemetry"} \ {p} : at'[q] = at[q]
         /\ thr' = thr \/ at[p] = "create"
<1> USE DEF Types, Wifi!StarterPlace, Wifi!Goto, Wifi!StarterKeeps, Wifi!thrVars
<1>1. CASE Wifi!StartRefused(p)
  BY <1>1 DEF Wifi!StartRefused
<1>2. CASE Wifi!Start(p)
  BY <1>2 DEF Wifi!Start
<1>3. CASE Wifi!NoInterface(p)
  BY <1>3 DEF Wifi!NoInterface
<1>4. CASE Wifi!AddCallback(p)
  BY <1>4 DEF Wifi!AddCallback
<1>5. CASE Wifi!RequestFails(p)
  BY <1>5 DEF Wifi!RequestFails
<1>6. CASE Wifi!Request(p)
  BY <1>6 DEF Wifi!Request
<1>7. CASE Wifi!Create(p)
  BY <1>7 DEF Wifi!Create
<1>8. CASE Wifi!ArmTimer(p)
  BY <1>8 DEF Wifi!ArmTimer
<1> QED
  BY <1>1, <1>2, <1>3, <1>4, <1>5, <1>6, <1>7, <1>8 DEF Wifi!Starter

\* A scan thread that has ended does not run again.
LEMMA ScanSteps ==
  ASSUME Scan
  PROVE  UNCHANGED at /\ (thr = "ended" => thr' = "ended")
<1>1. CASE Wifi!Thread
  BY <1>1 DEF Wifi!Thread, Wifi!ThreadKeeps, Wifi!Loop, Wifi!Got, Wifi!GetTimesOut, Wifi!Transmit,
     Wifi!ClearStop, Wifi!ClearKill, Wifi!ClearStart, Wifi!Exit
<1>2. CASE Wifi!Event
  BY <1>2 DEF Wifi!Event, Wifi!ScanResult, Wifi!ScanDone, Wifi!TellThread, Wifi!Timeout,
     Wifi!EventKeeps, Wifi!thrVars
<1> QED
  BY <1>1, <1>2 DEF Scan
-----------------------------------------------------------------------------
LEMMA PollStep == ASSUME LibInv, Poll PROVE LibInv'
<1> USE DEF LibInv, Types, Asks, Stopping, Quiet, PastTelemetry, PastFileTransfer, Live,
        Wifi!StarterPlace
<1>1. CASE PollNothing \/ Connected \/ Disconnected
  BY <1>1 DEF PollNothing, Connected, Disconnected, Polls, LibKeeps, svcVars, wifiVars
<1>2. CASE LedRequest \/ LedHandled
  BY <1>2 DEF LedRequest, LedHandled, Polls, svcVars, wifiVars
<1>3. CASE NotConnected \/ AlreadyPublished \/ InitialPublished
  BY <1>3 DEF NotConnected, AlreadyPublished, InitialPublished, PollKeeps, svcVars, wifiVars
<1>4. CASE InitialPublish
  <2>1. CASE Wifi!StartRefused("app") \/ Wifi!Start("app")
    <3>1. Wifi!Starter("app")
      BY <2>1 DEF Wifi!Starter
    <3>2. at["app"] = "idle"
      BY <2>1 DEF Wifi!StartRefused, Wifi!Start
    <3> QED
      BY <1>4, <3>1, <3>2, StarterSteps DEF InitialPublish, PollKeeps, svcVars
  <2>2. CASE UNCHANGED wifiVars
    BY <1>4, <2>2 DEF InitialPublish, PollKeeps, svcVars, wifiVars
  <2> QED
    BY <1>4, <2>1, <2>2 DEF InitialPublish
<1>5. CASE InitialScan
  <2>1. Wifi!Starter("app")
    BY <1>5 DEF InitialScan, Wifi!Starter
  <2> QED
    BY <1>5, <2>1, StarterSteps DEF InitialScan, PollKeeps, svcVars
<1>6. CASE StartTelemetry
  <2>1. at' \in [{"app", "telemetry"} -> Wifi!StarterPlace] /\ at'["app"] = at["app"]
    BY <1>6 DEF StartTelemetry, Wifi!StarterPlace
  <2>2. ~Live(tele') => at'["telemetry"] = "idle"
    BY <1>6 DEF StartTelemetry
  <2> QED
    BY <1>6, <2>1, <2>2 DEF StartTelemetry, PollKeeps
<1>7. CASE StartFileTransfer
  BY <1>7 DEF StartFileTransfer, PollKeeps, wifiVars
<1> QED
  BY <1>1, <1>2, <1>3, <1>4, <1>5, <1>6, <1>7 DEF Poll

LEMMA StopStep == ASSUME LibInv, Stop PROVE LibInv'
<1> USE DEF LibInv, Types, Asks, Stopping, Quiet, PastTelemetry, PastFileTransfer, Live,
        Wifi!StarterPlace, StopKeeps
<1>1. CASE StopDevice
  BY <1>1 DEF StopDevice, wifiVars
<1>2. CASE TeleJoined \/ TeleJoinTimesOut
  BY <1>2 DEF TeleJoined, TeleJoinTimesOut, svcVars, wifiVars
<1>3. CASE StopFileTransfer
  BY <1>3 DEF StopFileTransfer, wifiVars
<1>4. CASE FtJoined \/ FtJoinTimesOut
  BY <1>4 DEF FtJoined, FtJoinTimesOut, svcVars, wifiVars
<1>5. CASE StopScan
  BY <1>5 DEF StopScan, Wifi!Destroy, Wifi!DestroyKeeps, Wifi!Goto, Wifi!thrVars,
     Wifi!StarterPlace, svcVars
<1>6. CASE ScanJoined
  BY <1>6 DEF ScanJoined, Wifi!Joined, Wifi!DestroyKeeps, Wifi!Goto, Wifi!thrVars,
     Wifi!StarterPlace, svcVars
<1>7. CASE ScanJoinTimesOut
  BY <1>7 DEF ScanJoinTimesOut, Wifi!JoinTimesOut, Wifi!DestroyKeeps, Wifi!Goto, Wifi!thrVars,
     Wifi!StarterPlace, svcVars
<1>8. CASE Disconnect \/ DisconnectFails
  BY <1>8 DEF Disconnect, DisconnectFails, svcVars, wifiVars
<1> QED
  BY <1>1, <1>2, <1>3, <1>4, <1>5, <1>6, <1>7, <1>8 DEF Stop

LEMMA LibStep == ASSUME LibInv, [Next]_vars PROVE LibInv'
<1> USE DEF LibInv, Types, Asks, Stopping, Quiet, PastTelemetry, PastFileTransfer, Live,
        Wifi!StarterPlace
<1>1. CASE New \/ NewFails \/ StartDevice \/ StartFails
  BY <1>1 DEF New, NewFails, StartDevice, StartFails, LibKeeps, svcVars, wifiVars
<1>2. CASE Destroy
  BY <1>2 DEF Destroy, svcVars, wifiVars
<1>3. CASE TelemetryScan
  BY <1>3, StarterSteps DEF TelemetryScan, OthersKeep, svcVars
<1>4. CASE TelemetryEnds \/ FileTransferEnds
  BY <1>4 DEF TelemetryEnds, FileTransferEnds, OthersKeep, wifiVars
<1>5. CASE Scan
  BY <1>5, ScanSteps DEF Scan, OthersKeep, svcVars
<1>6. CASE LedRound \/ LedToggle \/ LedExpire
  BY <1>6 DEF LedRound, LedToggle, LedExpire, OthersKeep, svcVars, wifiVars
<1>7. CASE UNCHANGED vars
  BY <1>7 DEF vars, svcVars, wifiVars
<1> QED
  BY <1>1, <1>2, <1>3, <1>4, <1>5, <1>6, <1>7, PollStep, StopStep DEF Next
-----------------------------------------------------------------------------
\* The driver that the device is composed of and the one of WifiScanProofs are the same.
LEMMA DriverStarter ==
  ASSUME NEW p, Wifi!Starter(p)
  PROVE  Driver!Starter(p)
BY DEF Wifi!Starter, Wifi!StartRefused, Wifi!Start, Wifi!NoInterface, Wifi!AddCallback, Wifi!RequestFails,
       Wifi!Request, Wifi!Create, Wifi!ArmTimer, Wifi!Goto, Wifi!StarterKeeps, Wifi!bitVars, Wifi!thrVars,
       Wifi!histVars,
       Driver!Starter, Driver!StartRefused, Driver!Start, Driver!NoInterface, Driver!AddCallback,
       Driver!RequestFails, Driver!Request, Driver!Create, Driver!ArmTimer, Driver!Goto,
       Driver!StarterKeeps, Driver!bitVars, Driver!thrVars, Driver!histVars

LEMMA DriverDestroy ==
  ASSUME Wifi!Destroy \/ Wifi!Joined \/ Wifi!JoinTimesOut
  PROVE  Driver!Destroy \/ Driver!Joined \/ Driver!JoinTimesOut
BY DEF Wifi!Destroy, Wifi!Joined, Wifi!JoinTimesOut, Wifi!Goto, Wifi!DestroyKeeps, Wifi!thrVars,
       Driver!Destroy, Driver!Joined, Driver!JoinTimesOut, Driver!Goto, Driver!DestroyKeeps, Driver!thrVars

LEMMA DriverScan ==
  ASSUME Scan
  PROVE  Driver!Thread \/ Driver!Event
<1>1. CASE Wifi!Thread
  BY <1>1
  DEF Wifi!Thread, Wifi!Loop, Wifi!Continues, Wifi!Got, Wifi!GetTimesOut, Wifi!Transmit, Wifi!ClearStop,
      Wifi!ClearKill, Wifi!ClearStart, Wifi!Exit, Wifi!ThreadKeeps, Wifi!bitVars,
      Driver!Thread, Driver!Loop, Driver!Continues, Driver!Got, Driver!GetTimesOut, Driver!Transmit,
      Driver!ClearStop, Driver!ClearKill, Driver!ClearStart, Driver!Exit, Driver!ThreadKeeps, Driver!bitVars
<1>2. CASE Wifi!Event
  BY <1>2
  DEF Wifi!Event, Wifi!ScanResult, Wifi!ScanDone, Wifi!TellThread, Wifi!Timeout, Wifi!EventKeeps,
      Wifi!thrVars,
      Driver!Event, Driver!ScanResult, Driver!ScanDone, Driver!TellThread, Driver!Timeout,
      Driver!EventKeeps, Driver!thrVars
<1> QED
  BY <1>1, <1>2 DEF Scan

\* Every step of the device is one of the driver or leaves it alone, except that a telemetry
\* thread that is created again is wherever it begins.
LEMMA DriverSteps ==
  ASSUME [Next]_vars
  PROVE  \/ [Driver!Next]_(Driver!vars)
         \/ StartTelemetry
<1> USE DEF Driver!Next
<1>1. Wifi!Starter("app") => Driver!Next
  BY DriverStarter
<1>2. ASSUME UNCHANGED wifiVars PROVE UNCHANGED Driver!vars
  BY <1>2 DEF wifiVars, Driver!vars, Driver!bitVars, Driver!thrVars, Driver!histVars
<1>3. CASE New \/ NewFails \/ StartDevice \/ StartFails \/ Destroy
  BY <1>3, <1>2 DEF New, NewFails, StartDevice, StartFails, Destroy, LibKeeps
<1>4. CASE Poll
  <2>1. CASE InitialPublish
    BY <2>1, <1>1, <1>2 DEF InitialPublish, Wifi!Starter
  <2>2. CASE InitialScan
    BY <2>2, <1>1 DEF InitialScan, Wifi!Starter
  <2> QED
    BY <1>4, <2>1, <2>2, <1>2 DEF Poll, PollNothing, Connected, Disconnected, LedRequest, LedHandled,
       NotConnected, AlreadyPublished, InitialPublished, StartFileTransfer, LibKeeps, PollKeeps
<1>5. CASE Stop
  BY <1>5, <1>2, DriverDestroy DEF Stop, StopDevice, TeleJoined, TeleJoinTimesOut, StopFileTransfer,
     FtJoined, FtJoinTimesOut, StopScan, ScanJoined, ScanJoinTimesOut, Disconnect, DisconnectFails
<1>6. CASE TelemetryScan
  BY <1>6, DriverStarter DEF TelemetryScan
<1>7. CASE Scan
  BY <1>7, DriverScan
<1>8. CASE TelemetryEnds \/ FileTransferEnds \/ LedRound \/ LedToggle \/ LedExpire \/ UNCHANGED vars
  BY <1>8, <1>2 DEF TelemetryEnds, FileTransferEnds, LedRound, LedToggle, LedExpire, vars
<1> QED
  BY <1>3, <1>4, <1>5, <1>6, <1>7, <1>8 DEF Next

LEMMA DriverTypes == (Wifi!TypeOK <=> Driver!TypeOK) /\ (Wifi!TypeOK' <=> Driver!TypeOK')
BY DEF Wifi!TypeOK, Wifi!StarterPlace, Wifi!ThreadPlace, Wifi!Looping, Wifi!Leaving, Wifi!Transmissions,
       Driver!TypeOK, Driver!StarterPlace, Driver!ThreadPlace, Driver!Looping, Driver!Leaving,
       Driver!Transmissions

LEMMA DriverTypeStep ==
  ASSUME Wifi!TypeOK, [Next]_vars
  PROVE  Wifi!TypeOK'
<1>1. CASE [Driver!Next]_(Driver!vars)
  <2>1. Driver!ScanAssumption
    BY DeviceAssumption DEF DeviceAssumption, Driver!ScanAssumption
  <2>2. Driver!TypeOK'
    BY <2>1, <1>1, DriverTypes, Driver!TypeStep
  <2> QED
    BY <2>2, DriverTypes
<1>2. CASE StartTelemetry
  <2>1. at' \in [{"app", "telemetry"} -> Wifi!StarterPlace]
    BY <1>2 DEF StartTelemetry, Wifi!TypeOK, Wifi!StarterPlace
  <2> QED
    BY <1>2, <2>1 DEF StartTelemetry, Wifi!TypeOK
<1> QED
  BY <1>1, <1>2, DriverSteps
-----------------------------------------------------------------------------
\* What a step of Led changes keeps its type, and only a request starts the handler.
LEMMA LampTypeStep ==
  ASSUME Lamp!TypeOK, [Lamp!Next]_(Lamp!vars)
  PROVE  Lamp!TypeOK'
<1> USE DEF Lamp!TypeOK, Lamp!BlinkPlace, Lamp!Blinking
<1>1. CASE Lamp!Request
  BY <1>1 DEF Lamp!Request, Lamp!Unready, Lamp!Refused, Lamp!Unsupported, Lamp!Accepted
<1>2. CASE Lamp!SetTimer \/ Lamp!Expire
  BY <1>2 DEF Lamp!SetTimer, Lamp!Expire
<1>3. CASE Lamp!Round \/ Lamp!ToggleAgain
  BY <1>3 DEF Lamp!Round, Lamp!Toggle, Lamp!Awake, Lamp!BlinkEnd, Lamp!ToggleAgain, Lamp!BlinkKeeps
<1>4. CASE UNCHANGED Lamp!vars
  BY <1>4 DEF Lamp!vars
<1> QED
  BY <1>1, <1>2, <1>3, <1>4 DEF Lamp!Next

\* The types of the device's own variables.
LibTypes ==
  /\ dev \in {"none", "made", "freed"}
  /\ state \in {"stopped", "started", "connected"}
  /\ link \in {"down", "connecting", "up"}
  /\ published \in BOOLEAN /\ quiet \in BOOLEAN
  /\ teleBit \in BOOLEAN /\ tele \in {"none", "on", "ended"}
  /\ ftBit \in BOOLEAN /\ ft \in {"none", "on", "ended"}
  /\ app \in AppPlace

LEMMA LibTypeStep ==
  ASSUME LibTypes, [Next]_vars
  PROVE  LibTypes'
<1> USE DEF LibTypes, AppPlace, Joining
<1>1. CASE New \/ NewFails \/ StartDevice \/ StartFails \/ Destroy
  BY <1>1 DEF New, NewFails, StartDevice, StartFails, Destroy, LibKeeps, svcVars
<1>2. CASE PollNothing \/ Connected \/ Disconnected \/ LedRequest \/ LedHandled
  BY <1>2 DEF PollNothing, Connected, Disconnected, LedRequest, LedHandled, LibKeeps, svcVars
<1>3. CASE NotConnected \/ AlreadyPublished \/ InitialPublish \/ InitialScan \/ InitialPublished
  BY <1>3
  DEF NotConnected, AlreadyPublished, InitialPublish, InitialScan, InitialPublished, PollKeeps, svcVars
<1>4. CASE StartTelemetry \/ StartFileTransfer
  BY <1>4 DEF StartTelemetry, StartFileTransfer, PollKeeps
<1>5. CASE StopDevice \/ TeleJoined \/ TeleJoinTimesOut \/ StopFileTransfer \/ FtJoined \/ FtJoinTimesOut
  BY <1>5 DEF StopDevice, TeleJoined, TeleJoinTimesOut, StopFileTransfer, FtJoined, FtJoinTimesOut,
     StopKeeps, svcVars
<1>6. CASE StopScan \/ ScanJoined \/ ScanJoinTimesOut \/ Disconnect \/ DisconnectFails
  BY <1>6 DEF StopScan, ScanJoined, ScanJoinTimesOut, Disconnect, DisconnectFails, StopKeeps, svcVars
<1>7. CASE TelemetryScan \/ TelemetryEnds \/ FileTransferEnds \/ Scan
  BY <1>7 DEF TelemetryScan, TelemetryEnds, FileTransferEnds, Scan, OthersKeep, svcVars
<1>8. CASE LedRound \/ LedToggle \/ LedExpire
  BY <1>8 DEF LedRound, LedToggle, LedExpire, OthersKeep, svcVars
<1>9. CASE UNCHANGED vars
  BY <1>9 DEF vars, svcVars
<1> QED
  BY <1>1, <1>2, <1>3, <1>4, <1>5, <1>6, <1>7, <1>8, <1>9 DEF Next, Poll, Stop
-----------------------------------------------------------------------------
THEOREM Invariant == Spec => []IInv
<1>1. ASSUME IInv, [Next]_vars PROVE IInv'
  BY <1>1, LibStep, LedStep DEF IInv
<1> QED
  BY InvInit, <1>1, PTL DEF Spec

(***************************************************************************)
(* When edgehog_device_stop has returned EDGEHOG_RESULT_OK, and until the  *)
(* application calls the library again, neither the telemetry nor the file *)
(* transfer nor the scan thread runs: whatever connections were lost,      *)
(* whatever stops failed half-way before, and however many results the     *)
(* scan had queued.                                                        *)
(***************************************************************************)
THEOREM NoThreadLeft == Spec => []StoppedIsQuiet
<1>1. IInv => StoppedIsQuiet
  BY DEF IInv, LibInv, Asks, Stopping, Quiet, StoppedIsQuiet, Live, Wifi!Scanning, Wifi!Looping,
     Wifi!Leaving
<1> QED
  BY Invariant, <1>1, PTL

(***************************************************************************)
(* The RUN bit of the LED is set exactly while the handler of a request is *)
(* about to arm the timer, or the timer is armed, so that no request and   *)
(* no failure of one blocks the LED for ever.                              *)
(***************************************************************************)
THEOREM LedTimed == Spec => []LedIsTimed
<1>1. IInv => LedIsTimed
  BY DEF IInv
<1> QED
  BY Invariant, <1>1, PTL

\* Every variable of the device, of its scan driver and of its LED keeps its type, the timer of
\* a blink is only armed by the poll that accepted it, and the application is in the driver only
\* while it publishes or stops (device.c:286, 360, 407).
THEOREM TypeCorrect == Spec => []TypeOK
<1> DEFINE Typed == LibTypes /\ Wifi!TypeOK /\ Lamp!TypeOK /\ (handler = "timer" => app = "led")
<1>1. Init => Typed
  <2>1. ASSUME Init PROVE Wifi!TypeOK
    <3>1. queue \in Seq(Nat) /\ Len(queue) <= QueueLen /\ scans \in 0 .. MaxScans /\ found \in 0 .. MaxFound
      BY <2>1, DeviceAssumption DEF Init, Wifi!Init, DeviceAssumption
    <3> QED
      BY <2>1, <3>1
      DEF Init, Wifi!Init, Wifi!TypeOK, Wifi!StarterPlace, Wifi!ThreadPlace, Wifi!Looping, Wifi!Leaving
  <2> QED
    BY <2>1 DEF Init, LibTypes, AppPlace, Lamp!Init, Lamp!TypeOK, Lamp!BlinkPlace
<1>2. Typed /\ [Next]_vars => Typed'
  <2> SUFFICES ASSUME Typed, [Next]_vars PROVE Typed'
    OBVIOUS
  <2>1. [Lamp!Next]_(Lamp!vars)
    <3>1. UNCHANGED vars => UNCHANGED Lamp!vars
      BY DEF vars, ledVars, Lamp!vars
    <3> QED
      BY <3>1, LedSteps DEF Lamp!Next
  <2>2. handler' = "timer" => app' = "led"
    <3>1. CASE Lamp!SetTimer
      BY <3>1 DEF Lamp!SetTimer
    <3>2. CASE /\ Lamp!Round \/ Lamp!ToggleAgain \/ Lamp!Expire \/ UNCHANGED Lamp!vars
               /\ app = "led" => app' = "led" \/ handler # "timer"
      <4>1. handler' = handler
        BY <3>2 DEF Lamp!Round, Lamp!Toggle, Lamp!Awake, Lamp!BlinkEnd, Lamp!ToggleAgain, Lamp!Expire,
           Lamp!BlinkKeeps, Lamp!vars
      <4> QED
        BY <3>2, <4>1
    <3>3. CASE UNCHANGED vars
      BY <3>3 DEF vars, ledVars
    <3> QED
      BY <3>1, <3>2, <3>3, LedSteps
  <2> QED
    BY <2>1, <2>2, LibTypeStep, DriverTypeStep, LampTypeStep
<1>3. Typed /\ IInv => TypeOK
  BY DEF IInv, LibInv, Asks, LibTypes, TypeOK
<1> QED
  BY <1>1, <1>2, <1>3, Invariant, PTL DEF Spec
=============================================================================
