------------------------------ MODULE Telemetry ------------------------------
(***************************************************************************)
(* The telemetry service of lib/edgehog_device/telemetry.c and             *)
(* telemetry_entry.c: the application thread that loads the entries,       *)
(* starts and stops the service and applies what the server configures,    *)
(* the timer of each entry, the service thread that publishes, the message *)
(* queue between them, and the settings that outlive a reset.              *)
(*                                                                         *)
(* A step of the model is what a thread does from one call that another    *)
(* thread, a timer or a power failure can come between to the next.        *)
(***************************************************************************)
EXTENDS Integers, Sequences

CONSTANTS
  Types,         \* edgehog_telemetry_type_t
  None,          \* a settings key that does not exist
  Periods,       \* the positive values of periodSeconds
  Config,        \* telemetry_config of the application: a period for some types
  Served,        \* the types that the server configures
  QueueLen,      \* EDGEHOG_TELEMETRY_LEN
  Faults,        \* may a settings call fail? Every caller drops the error
  StopTimeouts   \* does the application stop the device with a finite timeout?

ASSUME TelemetryAssumption ==
  /\ Types \subseteq Int /\ None \notin Int \cup {"on", "off"}
  /\ Periods \subseteq Nat \ {0}
  /\ DOMAIN Config \subseteq Types /\ Served \subseteq Types
  /\ \A t \in DOMAIN Config : Config[t] \in Periods
  /\ QueueLen \in Nat \ {0}
  /\ Faults \in BOOLEAN /\ StopTimeouts \in BOOLEAN

VARIABLES
  nvPeriod,  \* settings "telemetry/<type>/periods"
  nvEnable,  \* settings "telemetry/<type>/enable"
  loaded,    \* the types whose entry exists
  period,    \* period_seconds of an entry
  enable,    \* enable of an entry
  timer,     \* its timer: off, armed, or due within the millisecond
  rate,      \* the period of a timer that is not off
  queue,     \* msgq
  runBit,    \* TELEMETRY_SERVICE_THREAD_RUNNING_BIT
  thr,       \* where the service thread is
  cur,       \* the type it publishes
  made,      \* k_thread_create was called for this telemetry struct
  app,       \* where the application thread is
  job,       \* the type of the entry that it schedules or unschedules
  todo,      \* the types that edgehog_telemetry_start has still to schedule
  \* History.
  dropped,   \* types of whose settings an error was dropped since the last good store
  overrun    \* a live service thread of this telemetry struct was overwritten

nvVars    == <<nvPeriod, nvEnable>>
entryVars == <<loaded, period, enable>>
timerVars == <<timer, rate>>
thrVars   == <<runBit, thr, cur, made>>
appVars   == <<app, job, todo>>
histVars  == <<dropped, overrun>>
vars == <<nvVars, entryVars, timerVars, queue, thrVars, appVars, histVars>>

\* TELEMETRY_UPDATE_DEFAULT, and what get_period_from_config says of an unknown type.
DefaultPeriod == 0
NoPeriod      == -1
Values        == Periods \cup {DefaultPeriod, NoPeriod}

AppPlace    == {"off", "ready", "start", "save_period", "save_enable", "timer", "join"}
ThreadPlace == {"none", "test", "get", "publish"}

\* A type has an entry if any of its settings keys was saved, or else if the application
\* configured it.
InSettings(t) == nvPeriod[t] # None \/ nvEnable[t] # None
LoadedPeriod(t) ==
  IF nvPeriod[t] # None THEN nvPeriod[t]
  ELSE IF ~InSettings(t) /\ t \in DOMAIN Config THEN Config[t] ELSE DefaultPeriod
LoadedEnable(t) ==
  IF nvEnable[t] # None THEN nvEnable[t] = "on"
  ELSE ~InSettings(t) /\ t \in DOMAIN Config

\* There is no telemetry struct.
Init ==
  /\ nvPeriod = [t \in Types |-> None] /\ nvEnable = [t \in Types |-> None]
  /\ loaded = {}
  /\ period = [t \in Types |-> DefaultPeriod] /\ enable = [t \in Types |-> FALSE]
  /\ timer = [t \in Types |-> "off"] /\ rate = [t \in Types |-> NoPeriod]
  /\ queue = <<>>
  /\ runBit = FALSE /\ thr = "none" /\ cur = None /\ made = FALSE
  /\ app = "off" /\ job = None /\ todo = {}
  /\ dropped = {} /\ overrun = FALSE

\* Nothing is left of the telemetry struct, of its timers and of its thread.
Forget ==
  /\ loaded' = {}
  /\ period' = [t \in Types |-> DefaultPeriod] /\ enable' = [t \in Types |-> FALSE]
  /\ timer' = [t \in Types |-> "off"] /\ rate' = [t \in Types |-> NoPeriod]
  /\ queue' = <<>>
  /\ runBit' = FALSE /\ thr' = "none" /\ cur' = None /\ made' = FALSE
  /\ app' = "off" /\ job' = None /\ todo' = {}
  /\ overrun' = FALSE
  /\ UNCHANGED <<nvVars, dropped>>
-----------------------------------------------------------------------------
(***************************************************************************)
(* The application thread: edgehog_device_new, edgehog_device_poll (which  *)
(* calls the handlers of the server's properties and starts the service    *)
(* whenever the device is connected and the RUN bit is clear),             *)
(* edgehog_device_stop and edgehog_device_destroy.                         *)
(***************************************************************************)
\* edgehog_telemetry_new.  The result of loading the settings is dropped.
New ==
  /\ app = "off"
  /\ loaded' = {t \in Types : InSettings(t)} \cup DOMAIN Config
  /\ period' = [t \in Types |-> LoadedPeriod(t)]
  /\ enable' = [t \in Types |-> LoadedEnable(t)]
  /\ app' = "ready"
  /\ dropped' = {}
  /\ UNCHANGED <<nvVars, timerVars, queue, thrVars, job, todo, overrun>>

NewUnloaded ==
  /\ app = "off" /\ Faults
  /\ loaded' = DOMAIN Config
  /\ period' = [t \in Types |-> IF t \in DOMAIN Config THEN Config[t] ELSE DefaultPeriod]
  /\ enable' = [t \in Types |-> t \in DOMAIN Config]
  /\ app' = "ready"
  /\ dropped' = Types
  /\ UNCHANGED <<nvVars, timerVars, queue, thrVars, job, todo, overrun>>

\* edgehog_telemetry_start: the only handle and the only stack, whether or not a thread
\* that was told to stop has ended; of that one nothing is left.
Start ==
  /\ app = "ready" /\ ~runBit
  /\ runBit' = TRUE /\ thr' = "test" /\ cur' = None /\ made' = TRUE
  /\ queue' = <<>>
  /\ overrun' = (overrun \/ thr # "none")
  /\ todo' = {t \in loaded : enable[t]}
  /\ app' = IF todo' = {} THEN "ready" ELSE "start"
  /\ UNCHANGED <<nvVars, entryVars, timerVars, job, dropped>>

\* Mutant: an entry that is refused ends the loop.
StartEntryReturns(t) ==
  /\ app = "start" /\ t \in todo /\ \A u \in todo : t <= u
  /\ \/ /\ period[t] > 0 /\ todo' = todo \ {t}
        /\ job' = t /\ app' = "save_period"
     \/ /\ period[t] <= 0 /\ todo' = {}
        /\ app' = "ready"
        /\ UNCHANGED job
  /\ UNCHANGED <<nvVars, entryVars, timerVars, queue, thrVars, histVars>>

\* The next enabled entry in the order of the types.  One whose period is not positive is
\* refused before anything is stored or timed.
StartEntry(t) ==
  /\ app = "start" /\ t \in todo /\ \A u \in todo : t <= u
  /\ todo' = todo \ {t}
  /\ \/ /\ period[t] > 0
        /\ job' = t /\ app' = "save_period"
     \/ /\ period[t] <= 0
        /\ app' = IF todo' = {} THEN "ready" ELSE "start"
        /\ UNCHANGED job
  /\ UNCHANGED <<nvVars, entryVars, timerVars, queue, thrVars, histVars>>

\* Mutant: an entry that is not enabled is not stored.
ConfigureStoresEnabled(t, p, e) ==
  /\ app = "ready"
  /\ loaded' = loaded \cup {t}
  /\ period' = [period EXCEPT ![t] = p] /\ enable' = [enable EXCEPT ![t] = e]
  /\ \/ /\ e /\ p <= 0
        /\ UNCHANGED <<app, job>>
     \/ /\ e /\ p > 0
        /\ app' = "save_period" /\ job' = t
     \/ /\ ~e
        /\ app' = "timer" /\ job' = t
  /\ UNCHANGED <<nvVars, timerVars, queue, thrVars, todo, histVars>>

\* The end of both handlers: the entry is scheduled or unscheduled.
Configure(t, p, e) ==
  /\ app = "ready"
  /\ loaded' = loaded \cup {t}
  /\ period' = [period EXCEPT ![t] = p] /\ enable' = [enable EXCEPT ![t] = e]
  /\ \/ /\ e /\ p <= 0
        /\ UNCHANGED <<app, job>>
     \/ /\ ~e \/ p > 0
        /\ app' = "save_period" /\ job' = t
  /\ UNCHANGED <<nvVars, timerVars, queue, thrVars, todo, histVars>>

\* edgehog_telemetry_config_set_event
SetEnable(t, e) == Configure(t, period[t], e)
SetPeriod(t, p) == Configure(t, p, enable[t])

\* edgehog_telemetry_config_unset_event: back to what the application configured.
UnsetEnable(t) ==
  /\ t \in loaded
  /\ Configure(t, period[t], t \in DOMAIN Config)
UnsetPeriod(t) ==
  /\ t \in loaded
  /\ Configure(t, IF t \in DOMAIN Config THEN Config[t] ELSE NoPeriod, enable[t])

\* telemetry_entry_store, whose result is dropped: the second key is not saved when the
\* first one could not be.
StoreKeeps == UNCHANGED <<entryVars, timerVars, queue, thrVars, job, todo, overrun>>
SavePeriod ==
  /\ app = "save_period"
  /\ nvPeriod' = [nvPeriod EXCEPT ![job] = period[job]]
  /\ app' = "save_enable"
  /\ UNCHANGED <<nvEnable, dropped>> /\ StoreKeeps
SaveEnable ==
  /\ app = "save_enable"
  /\ nvEnable' = [nvEnable EXCEPT ![job] = IF enable[job] THEN "on" ELSE "off"]
  /\ dropped' = dropped \ {job}
  /\ app' = "timer"
  /\ UNCHANGED nvPeriod /\ StoreKeeps
SaveFails ==
  /\ app \in {"save_period", "save_enable"} /\ Faults
  /\ dropped' = dropped \cup {job}
  /\ app' = "timer"
  /\ UNCHANGED nvVars /\ StoreKeeps

\* The end of schedule_entry and unschedule_entry.
TimerDone ==
  /\ app = "timer"
  /\ job' = None /\ app' = IF todo = {} THEN "ready" ELSE "start"
  /\ UNCHANGED <<nvVars, entryVars, queue, thrVars, todo, histVars>>

\* The timer is not touched while the service does not run.
ScheduleStopped == TimerDone /\ enable[job] /\ ~runBit /\ UNCHANGED timerVars

\* Started, or stopped and started again.
Schedule ==
  /\ TimerDone /\ enable[job] /\ runBit
  /\ timer' = [timer EXCEPT ![job] = "armed"]
  /\ rate' = [rate EXCEPT ![job] = period[job]]

\* k_timer_remaining_get says 0 of a timer that is off and, as it rounds to milliseconds,
\* of one that is about to fire: only another one is stopped.
Remaining(t) == timer[t] = "armed"
Unschedule ==
  /\ TimerDone /\ ~enable[job]
  /\ timer' = [timer EXCEPT ![job] = IF Remaining(job) THEN "off" ELSE @]
  /\ rate'  = [rate  EXCEPT ![job] = IF Remaining(job) THEN NoPeriod ELSE @]

\* Mutant: the service waits for its thread without telling it to stop.
StopSilent ==
  /\ app = "ready" /\ app' = "join"
  /\ UNCHANGED <<nvVars, entryVars, timerVars, queue, thrVars, job, todo, histVars>>

\* edgehog_telemetry_stop, whether the service runs or not.
StopBegin ==
  /\ app = "ready" /\ app' = "join"
  /\ runBit' = FALSE
  /\ UNCHANGED <<nvVars, entryVars, timerVars, queue, thr, cur, made, job, todo, histVars>>

\* Mutant: the thread is told to stop and not waited for.
StopNoJoin ==
  /\ app = "join" /\ app' = "ready"
  /\ UNCHANGED <<nvVars, entryVars, timerVars, queue, thrVars, job, todo, histVars>>

\* k_thread_join returns once the thread is dead.  A thread that was never created is not
\* dead: the join then ends by its timeout, if it has one.
StopJoined ==
  /\ app = "join" /\ app' = "ready"
  /\ made /\ thr = "none"
  /\ UNCHANGED <<nvVars, entryVars, timerVars, queue, thrVars, job, todo, histVars>>
StopTimeout ==
  /\ app = "join" /\ app' = "ready" /\ StopTimeouts
  /\ ~(made /\ thr = "none")
  /\ UNCHANGED <<nvVars, entryVars, timerVars, queue, thrVars, job, todo, histVars>>

\* edgehog_telemetry_destroy of a stopped device.  The application may make a new one.
Destroy ==
  /\ app = "ready" /\ ~runBit /\ thr = "none"
  /\ Forget

Handlers == \E t \in Served :
  \/ \E e \in BOOLEAN : SetEnable(t, e)
  \/ \E p \in Values \ {NoPeriod} : SetPeriod(t, p)
  \/ UnsetEnable(t) \/ UnsetPeriod(t)

\* The steps of a call of the application that has begun.
Calls ==
  \/ \E t \in Types : StartEntry(t)
  \/ SavePeriod \/ SaveEnable \/ SaveFails
  \/ ScheduleStopped \/ Schedule \/ Unschedule
  \/ StopJoined \/ StopTimeout
-----------------------------------------------------------------------------
(***************************************************************************)
(* The timers, the service thread and the power.                           *)
(***************************************************************************)
TimerKeeps == UNCHANGED <<nvVars, entryVars, rate, thrVars, appVars, histVars>>

Elapse(t) ==
  /\ timer[t] = "armed"
  /\ timer' = [timer EXCEPT ![t] = "due"]
  /\ UNCHANGED queue /\ TimerKeeps

\* Mutant: the queue is as long as the timers like.
ExpireUnbounded(t) ==
  /\ timer[t] = "due"
  /\ timer' = [timer EXCEPT ![t] = "armed"]
  /\ queue' = Append(queue, t)
  /\ Len(queue) <= QueueLen /\ TimerKeeps

\* Mutant: the timer is started without a period.
ExpireOnce(t) ==
  /\ timer[t] = "due" /\ Len(queue) < QueueLen
  /\ timer' = [timer EXCEPT ![t] = "off"]
  /\ queue' = Append(queue, t)
  /\ TimerKeeps

\* entry_timer_expiry_fn: put without waiting; a full queue drops the message.
Expire(t) ==
  /\ timer[t] = "due" /\ Len(queue) < QueueLen
  /\ timer' = [timer EXCEPT ![t] = "armed"]
  /\ queue' = Append(queue, t)
  /\ TimerKeeps
ExpireDropped(t) ==
  /\ timer[t] = "due" /\ Len(queue) >= QueueLen
  /\ timer' = [timer EXCEPT ![t] = "armed"]
  /\ UNCHANGED queue /\ TimerKeeps

\* telemetry_service_thread_entry_point
ThreadKeeps == UNCHANGED <<nvVars, entryVars, timerVars, runBit, made, appVars, histVars>>
TestRunBit ==
  /\ thr = "test" /\ thr' = IF runBit THEN "get" ELSE "none"
  /\ UNCHANGED <<queue, cur>> /\ ThreadKeeps
Get ==
  /\ thr = "get" /\ queue # <<>>
  /\ cur' = Head(queue) /\ queue' = Tail(queue)
  /\ thr' = "publish" /\ ThreadKeeps

\* Mutant: nothing to publish in time ends the thread.
GetTimeoutEnds ==
  /\ thr = "get" /\ queue = <<>>
  /\ thr' = "none"
  /\ UNCHANGED <<queue, cur>> /\ ThreadKeeps

GetTimeout ==
  /\ thr = "get" /\ queue = <<>>
  /\ thr' = "test"
  /\ UNCHANGED <<queue, cur>> /\ ThreadKeeps
PublishTelemetry ==
  /\ thr = "publish" /\ thr' = "test"
  /\ cur' = None
  /\ UNCHANGED queue /\ ThreadKeeps
ServiceThread == TestRunBit \/ Get \/ GetTimeout \/ PublishTelemetry

PowerFails == app # "off" /\ Forget

Next == \/ New \/ NewUnloaded \/ Start \/ Handlers \/ Calls \/ StopBegin \/ Destroy
        \/ \E t \in Types : Elapse(t) \/ Expire(t) \/ ExpireDropped(t)
        \/ ServiceThread \/ PowerFails

Spec == Init /\ [][Next]_vars

(***************************************************************************)
(* The application goes on with a call it has begun, the service thread    *)
(* is scheduled and the timers fire.  Periods are whole seconds and the    *)
(* queue has room for one message more than there are types, so a timer    *)
(* does not find it full each time.  Nothing makes the application start   *)
(* or stop the device, or the server configure it.                         *)
(***************************************************************************)
Fairness == /\ WF_vars(Calls) /\ WF_vars(ServiceThread)
            /\ \A t \in Types : WF_vars(Elapse(t)) /\ SF_vars(Expire(t))

FairSpec == Spec /\ Fairness
-----------------------------------------------------------------------------
\* The types of the variables.
TypeOK ==
  /\ nvPeriod \in [Types -> Values \cup {None}]
  /\ nvEnable \in [Types -> {"on", "off", None}]
  /\ loaded \subseteq Types
  /\ period \in [Types -> Values] /\ enable \in [Types -> BOOLEAN]
  /\ timer \in [Types -> {"off", "armed", "due"}] /\ rate \in [Types -> Values]
  /\ queue \in Seq(Types) /\ Len(queue) <= QueueLen
  /\ runBit \in BOOLEAN /\ thr \in ThreadPlace /\ cur \in Types \cup {None}
  /\ made \in BOOLEAN
  /\ app \in AppPlace /\ job \in Types \cup {None} /\ todo \subseteq Types
  /\ dropped \subseteq Types /\ overrun \in BOOLEAN

\* The service says it runs (edgehog_telemetry_is_running) only while its thread is alive:
\* the poll would never start it again.
RunBitHasThread == runBit => thr # "none"

\* Between two calls a service that runs has a timer, with the period configured last, for
\* each enabled entry with a period, whatever was set, unset, stopped and started before.
TimersFollow ==
  app = "ready" /\ runBit =>
    \A t \in loaded : enable[t] /\ period[t] > 0 => timer[t] # "off" /\ rate[t] = period[t]

\* Between two calls a reset would load the entry that is in RAM, unless an error of the
\* settings was dropped or the entry is enabled with a period that is refused.
Durable ==
  app = "ready" =>
    \A t \in loaded \ dropped :
      \/ enable[t] /\ period[t] <= 0
      \/ LoadedPeriod(t) = period[t] /\ LoadedEnable(t) = enable[t]

\* When the application waits for as long as it takes, the service is never started over a
\* thread that is still alive.
StopsBeforeStart == ~StopTimeouts => ~overrun

\* An entry that stays enabled in a running service is published again and again.
EnabledPublishes ==
  \A t \in Types :
    <>[](runBit /\ t \in loaded /\ enable[t] /\ period[t] > 0 /\ app = "ready")
      => []<>(thr = "publish" /\ cur = t)

\* Stopping a service that was started ends.
StopEnds == app = "join" /\ made ~> app # "join"
=============================================================================
