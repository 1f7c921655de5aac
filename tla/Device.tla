------------------------------- MODULE Device -------------------------------
(***************************************************************************)
(* The device of lib/edgehog_device/device.c, as an application uses it:   *)
(* it creates the device, starts it, polls it, stops it and, after a stop  *)
(* that succeeded, destroys it (samples/edgehog_app/src/main.c).  Polling  *)
(* runs the callbacks of the Astarte library, the initial publish and the  *)
(* start of the services.                                                  *)
(*                                                                         *)
(* The WiFi scan driver and the LED live in the device struct and are      *)
(* composed in full.  The telemetry and file transfer services have        *)
(* modules of their own: here each is its RUN bit and its thread.          *)
(***************************************************************************)
EXTENDS Integers, Sequences

CONSTANTS
  QueueLen, MaxScans, MaxFound   \* of WifiScan

ASSUME DeviceAssumption ==
  /\ QueueLen \in Nat \ {0} /\ MaxScans \in Nat /\ MaxFound \in Nat

VARIABLES
  dev,        \* the device struct
  state,      \* edgehog_device_state_t
  link,       \* the connection of the Astarte device
  published,  \* initial_publish
  teleBit, tele,  \* RUN bit and thread of the telemetry service
  ftBit, ft,      \* RUN bit and thread of the file transfer service
  app,        \* where the application thread is
  quiet,      \* a stop succeeded, and nothing was called since
  \* wifi_scan_data
  start, stop, kill, callback, timer, queue, thr, own, held, at, radio, done,
  found, scans, sent, undisturbed,
  \* led_thread
  runBit, blink, lit, ledTimer, handler, trampled

svcVars  == <<teleBit, tele, ftBit, ft>>
wifiVars == <<start, stop, kill, callback, timer, queue, thr, own, held, at, radio, done,
              found, scans, sent, undisturbed>>
ledVars  == <<runBit, blink, lit, ledTimer, handler, trampled>>
vars == <<dev, state, link, published, svcVars, app, quiet, wifiVars, ledVars>>

Wifi == INSTANCE WifiScan WITH Starters <- {"app", "telemetry"}, Destroyer <- "app"
Lamp == INSTANCE Led

Joining  == {"join_tele", "join_ft", "join_scan"}
AppPlace == {"out", "ready", "led", "polled", "publish", "services", "ft_start",
             "ft_stop", "scan_stop", "disconnect", "done"} \cup Joining
\* A thread that was created and has not ended.
Live(t)  == t = "on"

Init ==
  /\ dev = "none" /\ state = "stopped" /\ link = "down"
  /\ published = FALSE
  /\ teleBit = FALSE /\ tele = "none" /\ ftBit = FALSE /\ ft = "none"
  /\ app = "out" /\ quiet = FALSE
  /\ Wifi!Init /\ Lamp!Init
-----------------------------------------------------------------------------
(***************************************************************************)
(* edgehog_device_new and edgehog_device_start.                            *)
(***************************************************************************)
LibKeeps == UNCHANGED <<published, svcVars, wifiVars, ledVars>>

New ==
  /\ app = "out"
  /\ dev' = "made" /\ state' = "stopped"
  /\ app' = "ready"
  /\ UNCHANGED <<link, quiet>> /\ LibKeeps

\* At the label failure the device is freed, and a telemetry that was created is not.  eres
\* is still EDGEHOG_RESULT_OK if it was the boot id, the telemetry or the file transfer that
\* failed: the application has to look at the handle.
NewFails ==
  /\ app = "out"
  /\ app' = "done"
  /\ UNCHANGED <<dev, state, link, quiet>> /\ LibKeeps

StartDevice ==
  /\ app = "ready" /\ link = "down"
  /\ link' = "connecting" /\ state' = "started"
  /\ quiet' = FALSE
  /\ UNCHANGED <<dev, app>> /\ LibKeeps

StartFails ==
  /\ app = "ready"
  /\ quiet' = FALSE
  /\ UNCHANGED <<dev, state, link, app>> /\ LibKeeps
-----------------------------------------------------------------------------
(***************************************************************************)
(* edgehog_device_poll: astarte_device_poll with the callbacks it runs,    *)
(* and then, in the state CONNECTED, the initial publish and the services. *)
(***************************************************************************)
\* A poll that fails changes nothing but the last Astarte error.
Polls == app = "ready" /\ ~quiet /\ link # "down"

PollNothing ==
  /\ Polls
  /\ app' = "polled"
  /\ UNCHANGED <<dev, state, link, quiet>> /\ LibKeeps

\* astarte_connection_cbk
Connected ==
  /\ Polls /\ link = "connecting"
  /\ link' = "up" /\ state' = "connected"
  /\ app' = "polled"
  /\ UNCHANGED <<dev, quiet>> /\ LibKeeps

\* astarte_disconnection_cbk; the Astarte library connects again by itself.
Disconnected ==
  /\ Polls /\ link = "up"
  /\ link' = "connecting"
  /\ state' = IF state # "stopped" THEN "started" ELSE state
  /\ app' = "polled"
  /\ UNCHANGED <<dev, quiet, published, svcVars, wifiVars, ledVars>>

\* astarte_datastream_individual_cbk: a request for the LED.
LedRequest ==
  /\ Polls /\ link = "up"
  /\ Lamp!Request
  /\ app' = "led"
  /\ UNCHANGED <<dev, state, link, published, svcVars, quiet, wifiVars>>

\* Mutant: the handler returns without arming the timer.
LedUnarmed ==
  /\ app = "led"
  /\ app' = "polled"
  /\ UNCHANGED <<dev, state, link, published, svcVars, quiet, wifiVars, ledVars>>

LedHandled ==
  /\ app = "led"
  /\ IF handler = "timer" THEN Lamp!SetTimer ELSE UNCHANGED ledVars
  /\ app' = "polled"
  /\ UNCHANGED <<dev, state, link, published, svcVars, quiet, wifiVars>>

PollKeeps == UNCHANGED <<dev, state, link, quiet, ledVars>>

NotConnected ==
  /\ app = "polled" /\ state # "connected"
  /\ app' = "ready"
  /\ UNCHANGED <<published, svcVars, wifiVars>> /\ PollKeeps

AlreadyPublished ==
  /\ app = "polled" /\ state = "connected" /\ published
  /\ app' = "services"
  /\ UNCHANGED <<published, svcVars, wifiVars>> /\ PollKeeps

\* edgehog_initial_publish: of what it calls, only the scan and edgehog_ota_init (in Ota)
\* keep state.
InitialPublish ==
  /\ app = "polled" /\ state = "connected" /\ ~published
  /\ \/ Wifi!StartRefused("app") \/ Wifi!Start("app")
  /\ app' = "publish"
  /\ UNCHANGED <<published, svcVars>> /\ PollKeeps

InitialScan ==
  /\ app = "publish"
  /\ \/ Wifi!NoInterface("app") \/ Wifi!AddCallback("app") \/ Wifi!RequestFails("app")
     \/ Wifi!Request("app") \/ Wifi!Create("app") \/ Wifi!ArmTimer("app")
  /\ UNCHANGED <<app, published, svcVars>> /\ PollKeeps

InitialPublished ==
  /\ app = "publish" /\ at["app"] = "idle"
  /\ published' = TRUE
  /\ app' = "services"
  /\ UNCHANGED <<svcVars, wifiVars>> /\ PollKeeps

\* edgehog_telemetry_start, over whatever is left of an earlier thread.
StartTelemetry ==
  /\ app = "services"
  /\ IF teleBit THEN UNCHANGED <<teleBit, tele, at>>
     ELSE /\ teleBit' = TRUE /\ tele' = "on"
          /\ at' = [at EXCEPT !["telemetry"] = "idle"]
  /\ app' = "ft_start"
  /\ UNCHANGED <<published, ftBit, ft, start, stop, kill, callback, timer, queue, thr,
                 own, held, radio, done, found, scans, sent, undisturbed>>
  /\ PollKeeps

\* edgehog_ft_start, which may find no memory for its queue.
StartFileTransfer ==
  /\ app = "ft_start"
  /\ \/ ~ftBit /\ ftBit' = TRUE /\ ft' = "on"
     \/ UNCHANGED <<ftBit, ft>>
  /\ app' = "ready"
  /\ UNCHANGED <<published, teleBit, tele, wifiVars>> /\ PollKeeps

Poll == \/ PollNothing \/ Connected \/ Disconnected
        \/ LedRequest \/ LedHandled
        \/ NotConnected \/ AlreadyPublished
        \/ InitialPublish \/ InitialScan \/ InitialPublished
        \/ StartTelemetry \/ StartFileTransfer
-----------------------------------------------------------------------------
(***************************************************************************)
(* edgehog_device_stop: telemetry, file transfer, scan, connection.  The   *)
(* first that fails ends it, and what was stopped before stays stopped     *)
(* until the next poll.                                                    *)
(***************************************************************************)
StopKeeps == UNCHANGED <<dev, published, ledVars>>

\* Mutant: the telemetry thread is joined before it is told to stop.
StopUntold ==
  /\ app = "ready"
  /\ app' = "join_tele"
  /\ quiet' = FALSE
  /\ UNCHANGED <<state, link, svcVars, wifiVars>> /\ StopKeeps

StopDevice ==
  /\ app = "ready"
  /\ teleBit' = FALSE
  /\ app' = "join_tele"
  /\ quiet' = FALSE
  /\ UNCHANGED <<state, link, tele, ftBit, ft, wifiVars>> /\ StopKeeps

TeleJoined ==
  /\ app = "join_tele" /\ tele = "ended"
  /\ app' = "ft_stop"
  /\ UNCHANGED <<state, link, svcVars, quiet, wifiVars>> /\ StopKeeps

\* edgehog_telemetry_stop times out, always if there never was a thread.
TeleJoinTimesOut ==
  /\ app = "join_tele" /\ tele # "ended"
  /\ app' = "ready"
  /\ UNCHANGED <<state, link, svcVars, quiet, wifiVars>> /\ StopKeeps

StopFileTransfer ==
  /\ app = "ft_stop"
  /\ app' = IF ftBit THEN "join_ft" ELSE "scan_stop"
  /\ ftBit' = FALSE
  /\ UNCHANGED <<state, link, teleBit, tele, ft, quiet, wifiVars>> /\ StopKeeps

FtJoined ==
  /\ app = "join_ft" /\ ft = "ended"
  /\ app' = "scan_stop"
  /\ UNCHANGED <<state, link, svcVars, quiet, wifiVars>> /\ StopKeeps

\* Mutant: the thread is not aborted.
FtJoinGivesUp ==
  /\ app = "join_ft" /\ ft # "ended"
  /\ app' = "ready"
  /\ UNCHANGED <<state, link, svcVars, quiet, wifiVars>> /\ StopKeeps

FtJoinTimesOut ==
  /\ app = "join_ft" /\ ft # "ended"
  /\ ft' = "ended"
  /\ app' = "ready"
  /\ UNCHANGED <<state, link, teleBit, tele, ftBit, quiet, wifiVars>> /\ StopKeeps

StopScan ==
  /\ app = "scan_stop"
  /\ Wifi!Destroy
  /\ app' = "join_scan"
  /\ UNCHANGED <<state, link, svcVars, quiet>> /\ StopKeeps

ScanJoined ==
  /\ app = "join_scan"
  /\ Wifi!Joined
  /\ app' = "disconnect"
  /\ UNCHANGED <<state, link, svcVars, quiet>> /\ StopKeeps

ScanJoinTimesOut ==
  /\ app = "join_scan"
  /\ Wifi!JoinTimesOut
  /\ app' = "ready"
  /\ UNCHANGED <<state, link, svcVars, quiet>> /\ StopKeeps

\* astarte_device_disconnect, with or without its callback; the state never goes back to
\* STOPPED.
Disconnect ==
  /\ app = "disconnect"
  /\ link' = "down" /\ state' \in {state, "started"}
  /\ quiet' = TRUE /\ app' = "ready"
  /\ UNCHANGED <<svcVars, wifiVars>> /\ StopKeeps

DisconnectFails ==
  /\ app = "disconnect"
  /\ app' = "ready"
  /\ UNCHANGED <<state, link, svcVars, quiet, wifiVars>> /\ StopKeeps

Stop == \/ StopDevice \/ TeleJoined \/ TeleJoinTimesOut
        \/ StopFileTransfer \/ FtJoined \/ FtJoinTimesOut
        \/ StopScan \/ ScanJoined \/ ScanJoinTimesOut
        \/ Disconnect \/ DisconnectFails

\* edgehog_device_destroy frees the struct, and stops nothing that uses it.
Destroy ==
  /\ app = "ready" /\ quiet
  /\ dev' = "freed" /\ app' = "done"
  /\ UNCHANGED <<state, link, published, svcVars, quiet, wifiVars, ledVars>>
-----------------------------------------------------------------------------
(***************************************************************************)
(* The other threads.                                                      *)
(***************************************************************************)
OthersKeep == UNCHANGED <<dev, state, link, published, app, quiet>>

\* publish_telemetry of the type WIFI_SCAN, in the loop of the service thread.
TelemetryScan ==
  /\ Live(tele)
  /\ teleBit \/ at["telemetry"] # "idle"
  /\ Wifi!Starter("telemetry")
  /\ UNCHANGED <<svcVars, ledVars>> /\ OthersKeep

TelemetryEnds ==
  /\ Live(tele) /\ ~teleBit /\ at["telemetry"] = "idle"
  /\ tele' = "ended"
  /\ UNCHANGED <<teleBit, ftBit, ft, wifiVars, ledVars>> /\ OthersKeep

FileTransferEnds ==
  /\ Live(ft) /\ ~ftBit
  /\ ft' = "ended"
  /\ UNCHANGED <<teleBit, tele, ftBit, wifiVars, ledVars>> /\ OthersKeep

\* Once the struct is freed, what still uses it has no defined behaviour.
Scan ==
  /\ dev = "made"
  /\ Wifi!Thread \/ Wifi!Event
  /\ UNCHANGED <<svcVars, ledVars>> /\ OthersKeep

LedRound ==
  /\ dev = "made"
  /\ Lamp!Round
  /\ UNCHANGED <<svcVars, wifiVars>> /\ OthersKeep

LedToggle ==
  /\ dev = "made"
  /\ Lamp!ToggleAgain
  /\ UNCHANGED <<svcVars, wifiVars>> /\ OthersKeep

LedExpire ==
  /\ dev = "made"
  /\ Lamp!Expire
  /\ UNCHANGED <<svcVars, wifiVars>> /\ OthersKeep

Next == \/ New \/ NewFails \/ StartDevice \/ StartFails
        \/ Poll \/ Stop \/ Destroy
        \/ TelemetryScan \/ TelemetryEnds \/ FileTransferEnds
        \/ Scan \/ LedRound \/ LedToggle \/ LedExpire

Spec == Init /\ [][Next]_vars

(***************************************************************************)
(* The scheduler runs the threads, and the armed timer of a blink expires. *)
(* The application is only known to return from a handler, and from the    *)
(* joins of a stop that the thread it waits for lets return: a timeout     *)
(* that never fires is K_FOREVER.                                          *)
(***************************************************************************)
Fairness ==
  /\ WF_vars(TelemetryEnds) /\ WF_vars(FileTransferEnds)
  /\ WF_vars(at["telemetry"] # "idle" /\ TelemetryScan)
  /\ WF_vars(dev = "made" /\ Wifi!Thread /\ UNCHANGED <<svcVars, ledVars>> /\ OthersKeep)
  /\ WF_vars(LedRound) /\ WF_vars(LedExpire)
  /\ WF_vars(LedHandled \/ TeleJoined \/ FtJoined \/ ScanJoined)

FairSpec == Spec /\ Fairness
-----------------------------------------------------------------------------
TypeOK ==
  /\ dev \in {"none", "made", "freed"}
  /\ state \in {"stopped", "started", "connected"}
  /\ link \in {"down", "connecting", "up"}
  /\ published \in BOOLEAN /\ quiet \in BOOLEAN
  /\ teleBit \in BOOLEAN /\ tele \in {"none", "on", "ended"}
  /\ ftBit \in BOOLEAN /\ ft \in {"none", "on", "ended"}
  /\ app \in AppPlace
  /\ handler = "timer" => app = "led"
  /\ at["app"] # "idle" => app \in {"publish", "join_scan"}
  /\ Wifi!TypeOK /\ Lamp!TypeOK

(***************************************************************************)
(* When a stop has returned EDGEHOG_RESULT_OK, no telemetry, file transfer *)
(* or scan thread is left, whatever stops failed half-way before it and    *)
(* whatever polls started again what they had stopped: the device may then *)
(* be destroyed under none of them.                                        *)
(***************************************************************************)
StoppedIsQuiet == quiet => /\ ~Live(tele) /\ ~Live(ft)
                           /\ ~Wifi!Scanning
                           /\ at["telemetry"] = "idle"

LedIsTimed == Lamp!RunIsTimed

(***************************************************************************)
(* Every join of a stop returns, even with K_FOREVER, once the telemetry   *)
(* and the scan had a thread to join.                                      *)
(***************************************************************************)
JoinEnds == app \in Joining ~> app \notin Joining \/ tele = "none" \/ thr = "none"

(***************************************************************************)
(* A blink that was accepted comes to an end and leaves the LED off,       *)
(* unless a later request took its thread away or the device is destroyed. *)
(***************************************************************************)
BlinkEnds == blink \in Lamp!Blinking ~> \/ blink = "ended" /\ ~lit
                                        \/ trampled \/ dev = "freed"
=============================================================================
