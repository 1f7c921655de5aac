-------------------------- MODULE TelemetryProofs --------------------------
(***************************************************************************)
(* Theorems of Telemetry, for any set of types and periods, any            *)
(* configuration of the application, any length of the queue, and whether  *)
(* or not settings calls fail and stops time out.                          *)
(***************************************************************************)
EXTENDS Telemetry, SequenceTheorems, TLAPS

\* Where an entry is being stored, and where it is being scheduled or unscheduled.
Storing    == {"save_period", "save_enable"}
Scheduling == Storing \cup {"timer"}

\* Without a telemetry struct nothing runs; the entry being scheduled exists, and entries
\* wait only behind it.
Jobs ==
  /\ app = "off" => ~runBit /\ loaded = {}
  /\ app \in Scheduling => job \in loaded
  /\ todo \subseteq loaded
  /\ todo # {} => app \in Scheduling \cup {"start"}

\* A service that was told to stop is waited for, or is not there.
Stopped == ~StopTimeouts /\ ~runBit /\ app # "join" => thr = "none"

\* A timed entry follows its configuration, or its turn is still to come.
Followed(t) ==
  \/ t \in todo
  \/ app \in Scheduling /\ job = t
  \/ timer[t] # "off" /\ rate[t] = period[t]
Following == runBit => \A t \in loaded : enable[t] /\ period[t] > 0 => Followed(t)

\* The settings hold an entry, or are about to.
Saved(t) == LoadedPeriod(t) = period[t] /\ LoadedEnable(t) = enable[t]
Kept(t) ==
  \/ enable[t] /\ period[t] <= 0
  \/ Saved(t)
  \/ app \in Storing /\ job = t
Stored ==
  /\ app = "save_enable" => nvPeriod[job] = period[job]
  /\ \A t \in loaded \ dropped : Kept(t)

\* The inductive invariant, the control of the threads first.
Control == RunBitHasThread /\ Jobs /\ Stopped /\ StopsBeforeStart
IInv    == TypeOK /\ Control /\ Following /\ Stored
-----------------------------------------------------------------------------
\* What the assumptions say of the constants.
LEMMA Constants ==
  /\ DefaultPeriod \in Values /\ NoPeriod \in Values /\ Periods \subseteq Values
  /\ Values \subseteq Int /\ Types \subseteq Int
  /\ \A t \in DOMAIN Config : t \in Types /\ Config[t] \in Values
  /\ None \notin Int /\ None \notin Values /\ None # "on" /\ None # "off" /\ "on" # "off"
<1>1. DefaultPeriod \in Values /\ NoPeriod \in Values /\ Periods \subseteq Values
  BY DEF Values
<1>2. Types \subseteq Int /\ Periods \subseteq Int /\ None \notin Int
  BY TelemetryAssumption DEF TelemetryAssumption
<1>3. DefaultPeriod \in Int /\ NoPeriod \in Int
  BY DEF DefaultPeriod, NoPeriod
<1>4. Values \subseteq Int
  BY <1>2, <1>3 DEF Values
<1>5. \A t \in DOMAIN Config : t \in Types /\ Config[t] \in Values
  BY <1>1, TelemetryAssumption
<1>6. None # "on" /\ None # "off" /\ "on" # "off"
  BY TelemetryAssumption
<1> QED
  BY <1>1, <1>2, <1>4, <1>5, <1>6

\* What the settings hold, or the configuration, is a period and a flag.
LEMMA LoadedTypes ==
  ASSUME TypeOK, NEW t \in Types
  PROVE  LoadedPeriod(t) \in Values /\ LoadedEnable(t) \in BOOLEAN
<1>1. nvPeriod[t] \in Values \cup {None}
  BY DEF TypeOK
<1>2. LoadedPeriod(t) \in Values
  BY <1>1, Constants DEF LoadedPeriod
<1>3. LoadedEnable(t) \in BOOLEAN
  BY DEF LoadedEnable
<1> QED
  BY <1>2, <1>3

\* Without a telemetry struct there is nothing to keep.
LEMMA InvInit == Init => IInv
<1> SUFFICES ASSUME Init PROVE IInv
  OBVIOUS
<1>1. queue \in Seq(Types) /\ Len(queue) <= QueueLen
  BY TelemetryAssumption DEF Init
<1>2. TypeOK
  BY <1>1, Constants DEF Init, TypeOK, ThreadPlace, AppPlace
<1> QED
  BY <1>2 DEF Init, IInv, Control, RunBitHasThread, Jobs, Stopped, StopsBeforeStart, Following, Stored,
              Scheduling, Storing

\* The four handlers end alike: the entry is changed and scheduled or unscheduled.
LEMMA HandlersConfigure ==
  ASSUME TypeOK, Handlers
  PROVE  \E t \in Types, p \in Values, e \in BOOLEAN : Configure(t, p, e)
<1>1. PICK t \in Types :
        \/ \E e \in BOOLEAN : SetEnable(t, e)
        \/ \E p \in Values \ {NoPeriod} : SetPeriod(t, p)
        \/ UnsetEnable(t) \/ UnsetPeriod(t)
  BY TelemetryAssumption DEF Handlers
<1>2. period[t] \in Values /\ enable[t] \in BOOLEAN
  BY DEF TypeOK
<1>3. CASE \E e \in BOOLEAN : SetEnable(t, e)
  BY <1>2, <1>3 DEF SetEnable
<1>4. CASE \E p \in Values \ {NoPeriod} : SetPeriod(t, p)
  BY <1>2, <1>4 DEF SetPeriod
<1>5. CASE UnsetEnable(t)
  <2> DEFINE e == t \in DOMAIN Config
  <2>1. e \in BOOLEAN /\ Configure(t, period[t], e)
    BY <1>5 DEF UnsetEnable
  <2> HIDE DEF e
  <2> QED
    BY <1>2, <2>1
<1>6. CASE UnsetPeriod(t)
  <2> DEFINE p == IF t \in DOMAIN Config THEN Config[t] ELSE NoPeriod
  <2>1. p \in Values /\ Configure(t, p, enable[t])
    BY <1>6, Constants DEF UnsetPeriod
  <2> HIDE DEF p
  <2> QED
    BY <1>2, <2>1
<1> QED
  BY <1>1, <1>3, <1>4, <1>5, <1>6

\* The actions one by one, for the lemmas about a step.
LEMMA Actions ==
  ASSUME TypeOK, [Next]_vars
  PROVE  \/ New \/ NewUnloaded \/ Start
         \/ \E t \in Types, p \in Values, e \in BOOLEAN : Configure(t, p, e)
         \/ \E t \in Types : StartEntry(t)
         \/ SavePeriod \/ SaveEnable \/ SaveFails
         \/ ScheduleStopped \/ Schedule \/ Unschedule
         \/ StopBegin \/ StopJoined \/ StopTimeout \/ Forget
         \/ \E t \in Types : Elapse(t) \/ Expire(t) \/ ExpireDropped(t)
         \/ TestRunBit \/ Get \/ GetTimeout \/ PublishTelemetry
         \/ UNCHANGED vars
<1>1. CASE Handlers
  BY <1>1, HandlersConfigure
<1> QED
  BY <1>1 DEF Next, Calls, ServiceThread, Destroy, PowerFails

\* The variables keep their types.
LEMMA TypeStep == TypeOK /\ Jobs /\ [Next]_vars => TypeOK'
<1> SUFFICES ASSUME TypeOK, Jobs, [Next]_vars PROVE TypeOK'
  OBVIOUS
<1> USE DEF TypeOK, AppPlace, ThreadPlace, nvVars, entryVars, timerVars, thrVars, appVars, histVars
<1>1. CASE New
  <2>1. period' \in [Types -> Values] /\ enable' \in [Types -> BOOLEAN]
    BY <1>1, LoadedTypes DEF New
  <2>2. loaded' \subseteq Types
    BY <1>1, Constants DEF New
  <2> QED
    BY <1>1, <2>1, <2>2 DEF New
<1>2. CASE NewUnloaded
  BY <1>2, Constants DEF NewUnloaded
<1>3. CASE Start
  <2>1. queue' \in Seq(Types) /\ Len(queue') <= QueueLen
    BY <1>3, TelemetryAssumption DEF Start
  <2> QED
    BY <1>3, <2>1 DEF Start
<1>4. ASSUME NEW t \in Types, NEW p \in Values, NEW e \in BOOLEAN, Configure(t, p, e)
      PROVE  TypeOK'
  BY <1>4 DEF Configure
<1>5. CASE \E t \in Types : StartEntry(t)
  BY <1>5 DEF StartEntry
<1>6. CASE SavePeriod
  BY <1>6 DEF SavePeriod, StoreKeeps
<1>7. CASE SaveEnable
  BY <1>7 DEF SaveEnable, StoreKeeps
<1>8. CASE SaveFails
  <2>1. job \in Types
    BY <1>8 DEF SaveFails, Jobs, Scheduling, Storing
  <2> QED
    BY <1>8, <2>1 DEF SaveFails, StoreKeeps
<1>9. CASE ScheduleStopped
  BY <1>9 DEF ScheduleStopped, TimerDone
<1>10. CASE Schedule
  BY <1>10 DEF Schedule, TimerDone
<1>11. CASE Unschedule
  BY <1>11, Constants DEF Unschedule, TimerDone
<1>12. CASE StopBegin
  BY <1>12 DEF StopBegin
<1>13. CASE StopJoined \/ StopTimeout
  BY <1>13 DEF StopJoined, StopTimeout
<1>14. CASE Forget
  <2>1. queue' \in Seq(Types) /\ Len(queue') <= QueueLen
    BY <1>14, TelemetryAssumption DEF Forget
  <2> QED
    BY <1>14, <2>1, Constants DEF Forget
<1>15. ASSUME NEW t \in Types, Elapse(t) \/ ExpireDropped(t) PROVE TypeOK'
  BY <1>15 DEF Elapse, ExpireDropped, TimerKeeps
<1>16. ASSUME NEW t \in Types, Expire(t) PROVE TypeOK'
  <2>1. Append(queue, t) \in Seq(Types) /\ Len(Append(queue, t)) = Len(queue) + 1
    BY AppendProperties
  <2>2. Len(queue) + 1 <= QueueLen
    BY <1>16, TelemetryAssumption, LenProperties DEF Expire
  <2> QED
    BY <1>16, <2>1, <2>2 DEF Expire, TimerKeeps
<1>17. CASE TestRunBit \/ GetTimeout \/ PublishTelemetry
  BY <1>17 DEF TestRunBit, GetTimeout, PublishTelemetry, ThreadKeeps
<1>18. CASE Get
  <2>1. Head(queue) \in Types /\ Tail(queue) \in Seq(Types) /\ Len(Tail(queue)) = Len(queue) - 1
    BY <1>18, HeadTailProperties DEF Get
  <2>2. Len(queue) - 1 <= QueueLen
    BY TelemetryAssumption, LenProperties
  <2> QED
    BY <1>18, <2>1, <2>2 DEF Get, ThreadKeeps
<1>19. CASE UNCHANGED vars
  BY <1>19 DEF vars
<1> QED
  BY <1>1, <1>2, <1>3, <1>4, <1>5, <1>6, <1>7, <1>8, <1>9, <1>10, <1>11, <1>12, <1>13, <1>14,
     <1>15, <1>16, <1>17, <1>18, <1>19, Actions

-----------------------------------------------------------------------------
\* The RUN bit, the thread behind it and the entry being scheduled.
LEMMA ControlStep == TypeOK /\ Control /\ [Next]_vars => Control'
<1> SUFFICES ASSUME TypeOK, Control, [Next]_vars PROVE Control'
  OBVIOUS
<1> USE DEF Control, RunBitHasThread, Jobs, Stopped, StopsBeforeStart, Scheduling, Storing,
            nvVars, entryVars, timerVars, thrVars, appVars, histVars
<1>1. CASE New \/ NewUnloaded
  BY <1>1 DEF New, NewUnloaded
<1>2. CASE Start
  BY <1>2 DEF Start
<1>3. ASSUME NEW t \in Types, NEW p \in Values, NEW e \in BOOLEAN, Configure(t, p, e)
      PROVE  Control'
  <2>1. app = "ready" /\ todo = {} /\ t \in loaded' /\ UNCHANGED <<runBit, thr, overrun, todo>>
    BY <1>3 DEF Configure
  <2>2. app' = "ready" \/ (app' \in Storing /\ job' = t)
    BY <1>3, <2>1 DEF Configure
  <2> QED
    BY <2>1, <2>2
<1>4. ASSUME NEW t \in Types, StartEntry(t) PROVE Control'
  BY <1>4 DEF StartEntry
<1>5. CASE SavePeriod \/ SaveEnable \/ SaveFails
  BY <1>5 DEF SavePeriod, SaveEnable, SaveFails, StoreKeeps
<1>6. CASE ScheduleStopped \/ Schedule \/ Unschedule
  BY <1>6 DEF ScheduleStopped, Schedule, Unschedule, TimerDone
<1>7. CASE StopBegin
  BY <1>7 DEF StopBegin
<1>8. CASE StopJoined \/ StopTimeout
  BY <1>8 DEF StopJoined, StopTimeout
<1>9. CASE Forget
  BY <1>9 DEF Forget
<1>10. ASSUME NEW t \in Types, Elapse(t) \/ Expire(t) \/ ExpireDropped(t) PROVE Control'
  BY <1>10 DEF Elapse, Expire, ExpireDropped, TimerKeeps
<1>11. CASE TestRunBit \/ Get \/ GetTimeout \/ PublishTelemetry
  BY <1>11 DEF TestRunBit, Get, GetTimeout, PublishTelemetry, ThreadKeeps
<1>12. CASE UNCHANGED vars
  BY <1>12 DEF vars
<1> QED
  BY <1>1, <1>2, <1>3, <1>4, <1>5, <1>6, <1>7, <1>8, <1>9, <1>10, <1>11, <1>12, Actions

\* The timers follow the entries, or their turn is to come.
LEMMA FollowingStep == TypeOK /\ Jobs /\ Following /\ [Next]_vars => Following'
<1> SUFFICES ASSUME TypeOK, Jobs, Following, [Next]_vars,
                    runBit', NEW u \in loaded', enable'[u] /\ period'[u] > 0
             PROVE  Followed(u)'
  BY DEF Following
<1>0. u \in loaded /\ runBit /\ enable[u] /\ period[u] > 0 => Followed(u)
  BY DEF Following
<1> USE <1>0 DEF TypeOK, Jobs, Followed, Scheduling, Storing,
            nvVars, entryVars, timerVars, thrVars, appVars, histVars
<1>1. CASE New \/ NewUnloaded
  BY <1>1 DEF New, NewUnloaded, RunBitHasThread
<1>2. CASE Start
  BY <1>2 DEF Start
<1>3. ASSUME NEW t \in Types, NEW p \in Values, NEW e \in BOOLEAN, Configure(t, p, e)
      PROVE  Followed(u)'
  <2>1. app = "ready" /\ todo = {} /\ UNCHANGED <<runBit, timer, rate>>
    BY <1>3 DEF Configure
  <2>2. CASE u # t
    <3>1. u \in loaded /\ UNCHANGED <<period[u], enable[u]>>
      BY <1>3, <2>2 DEF Configure
    <3> QED
      BY <2>1, <3>1
  <2>3. CASE u = t
    <3>1. period'[t] = p /\ enable'[t] = e /\ p \in Int
      BY <1>3, Constants DEF Configure
    <3>2. app' \in Storing /\ job' = t
      BY <1>3, <2>3, <3>1 DEF Configure
    <3> QED
      BY <2>3, <3>2
  <2> QED
    BY <2>2, <2>3
<1>4. ASSUME NEW t \in Types, StartEntry(t) PROVE Followed(u)'
  <2>1. period[t] \in Int
    BY Constants
  <2> QED
    BY <1>4, <2>1 DEF StartEntry
<1>5. CASE SavePeriod \/ SaveEnable \/ SaveFails
  BY <1>5 DEF SavePeriod, SaveEnable, SaveFails, StoreKeeps
<1>6. CASE ScheduleStopped
  BY <1>6 DEF ScheduleStopped, TimerDone
<1>7. CASE Schedule
  BY <1>7 DEF Schedule, TimerDone
<1>8. CASE Unschedule
  BY <1>8 DEF Unschedule, TimerDone
<1>9. CASE StopBegin \/ StopJoined \/ StopTimeout \/ Forget
  BY <1>9 DEF StopBegin, StopJoined, StopTimeout, Forget
<1>10. ASSUME NEW t \in Types, Elapse(t) \/ Expire(t) \/ ExpireDropped(t) PROVE Followed(u)'
  BY <1>10 DEF Elapse, Expire, ExpireDropped, TimerKeeps
<1>11. CASE TestRunBit \/ Get \/ GetTimeout \/ PublishTelemetry
  BY <1>11 DEF TestRunBit, Get, GetTimeout, PublishTelemetry, ThreadKeeps
<1>12. CASE UNCHANGED vars
  BY <1>12 DEF vars
<1> QED
  BY <1>1, <1>2, <1>3, <1>4, <1>5, <1>6, <1>7, <1>8, <1>9, <1>10, <1>11, <1>12, Actions

\* What is saved of an entry stays saved while neither changes.
LEMMA SavedKept ==
  ASSUME NEW t, UNCHANGED <<period[t], enable[t], nvPeriod[t], nvEnable[t]>>
  PROVE  Saved(t)' = Saved(t)
BY DEF Saved, LoadedPeriod, LoadedEnable, InSettings

\* The settings follow the entries, unless an error was dropped.
LEMMA StoredStep == TypeOK /\ TypeOK' /\ Jobs /\ Stored /\ [Next]_vars => Stored'
<1> SUFFICES ASSUME TypeOK, TypeOK', Jobs, Stored, [Next]_vars PROVE Stored'
  OBVIOUS
<1> USE DEF Stored, Jobs, Scheduling, Storing,
            nvVars, entryVars, timerVars, thrVars, appVars, histVars
<1>0. ASSUME UNCHANGED <<nvVars, entryVars, dropped>>,
             app \in Storing => UNCHANGED <<app, job>>, app' # "save_enable" \/ app' = app
      PROVE  Stored'
  <2>1. \A t : Saved(t)' = Saved(t)
    BY <1>0, SavedKept
  <2> QED
    BY <1>0, <2>1 DEF Kept
<1>1. CASE New
  <2>1. \A t \in Types : period'[t] = LoadedPeriod(t) /\ enable'[t] = LoadedEnable(t)
    BY <1>1 DEF New
  <2>2. \A t \in Types : LoadedPeriod(t)' = LoadedPeriod(t) /\ LoadedEnable(t)' = LoadedEnable(t)
    BY <1>1 DEF New, LoadedPeriod, LoadedEnable, InSettings
  <2>3. loaded' \subseteq Types
    BY DEF TypeOK
  <2>4. \A t \in Types : Saved(t)'
    BY <2>1, <2>2 DEF Saved
  <2> QED
    BY <1>1, <2>3, <2>4 DEF New, Kept
<1>2. CASE NewUnloaded
  BY <1>2 DEF NewUnloaded, TypeOK
<1>3. CASE Start
  BY <1>0, <1>3 DEF Start
<1>4. ASSUME NEW t \in Types, NEW p \in Values, NEW e \in BOOLEAN, Configure(t, p, e)
      PROVE  Stored'
  <2>1. app = "ready" /\ app' # "save_enable" /\ UNCHANGED <<nvVars, dropped>>
    BY <1>4 DEF Configure
  <2>2. ASSUME NEW u \in loaded' \ dropped', u # t PROVE Kept(u)'
    <3>1. u \in loaded /\ u \notin dropped /\ UNCHANGED <<period[u], enable[u], nvPeriod[u], nvEnable[u]>>
      BY <1>4, <2>1, <2>2 DEF Configure
    <3>2. Saved(u)' = Saved(u)
      BY <3>1, SavedKept
    <3>3. Kept(u)
      BY <3>1
    <3> QED
      BY <2>1, <3>1, <3>2, <3>3 DEF Kept
  <2>3. Kept(t)'
    <3>1. period'[t] = p /\ enable'[t] = e
      BY <1>4 DEF Configure, TypeOK
    <3>2. \/ e /\ p <= 0
          \/ app' = "save_period" /\ job' = t
      BY <1>4 DEF Configure
    <3> QED
      BY <3>1, <3>2 DEF Kept
  <2> QED
    BY <2>1, <2>2, <2>3
<1>5. ASSUME NEW t \in Types, StartEntry(t) PROVE Stored'
  BY <1>0, <1>5 DEF StartEntry
<1>6. CASE SavePeriod
  <2>1. /\ app = "save_period" /\ app' = "save_enable" /\ job \in Types
        /\ nvPeriod' = [nvPeriod EXCEPT ![job] = period[job]]
        /\ UNCHANGED <<nvEnable, entryVars, job, dropped>>
    BY <1>6 DEF SavePeriod, StoreKeeps, TypeOK
  <2>2. nvPeriod'[job'] = period'[job']
    BY <2>1 DEF TypeOK
  <2>3. ASSUME NEW u \in loaded' \ dropped', u # job PROVE Kept(u)'
    <3>1. u \in loaded /\ u \notin dropped /\ UNCHANGED <<period[u], enable[u], nvPeriod[u], nvEnable[u]>>
      BY <2>1, <2>3 DEF TypeOK
    <3>2. Saved(u)' = Saved(u)
      BY <3>1, SavedKept
    <3> QED
      BY <2>1, <2>3, <3>1, <3>2 DEF Kept
  <2>4. Kept(job)'
    BY <2>1 DEF Kept
  <2> QED
    BY <2>1, <2>2, <2>3, <2>4
<1>7. CASE SaveEnable
  <2>1. /\ app = "save_enable" /\ app' = "timer" /\ job \in Types
        /\ nvEnable' = [nvEnable EXCEPT ![job] = IF enable[job] THEN "on" ELSE "off"]
        /\ dropped' = dropped \ {job}
        /\ UNCHANGED <<nvPeriod, entryVars, job>>
    BY <1>7 DEF SaveEnable, StoreKeeps, TypeOK
  <2>2. ASSUME NEW u \in loaded' \ dropped', u # job PROVE Kept(u)'
    <3>1. u \in loaded /\ u \notin dropped /\ UNCHANGED <<period[u], enable[u], nvPeriod[u], nvEnable[u]>>
      BY <2>1, <2>2 DEF TypeOK
    <3>2. Saved(u)' = Saved(u)
      BY <3>1, SavedKept
    <3> QED
      BY <2>1, <2>2, <3>1, <3>2 DEF Kept
  <2>3. Kept(job)'
    <3>1. nvPeriod'[job] = period'[job]
      BY <2>1
    <3>2. nvEnable'[job] = IF enable'[job] THEN "on" ELSE "off"
      BY <2>1 DEF TypeOK
    <3>3. period'[job] \in Values /\ enable'[job] \in BOOLEAN
      BY <2>1 DEF TypeOK
    <3>4. nvPeriod'[job] # None /\ nvEnable'[job] # None
      BY <3>1, <3>2, <3>3, Constants
    <3>5. LoadedPeriod(job)' = period'[job] /\ LoadedEnable(job)' = enable'[job]
      BY <2>1, <3>1, <3>2, <3>3, <3>4, Constants DEF LoadedPeriod, LoadedEnable
    <3> QED
      BY <2>1, <3>5 DEF Kept, Saved
  <2> QED
    BY <2>1, <2>2, <2>3
<1>8. CASE SaveFails
  <2>1. /\ app' = "timer" /\ dropped' = dropped \cup {job}
        /\ UNCHANGED <<nvVars, entryVars, job>>
    BY <1>8 DEF SaveFails, StoreKeeps
  <2>2. ASSUME NEW u \in loaded' \ dropped' PROVE Kept(u)'
    <3>1. u \in loaded /\ u \notin dropped /\ u # job
      BY <2>1, <2>2
    <3>2. Saved(u)' = Saved(u)
      BY <2>1, SavedKept
    <3> QED
      BY <2>1, <3>1, <3>2 DEF Kept
  <2> QED
    BY <2>1, <2>2
<1>9. CASE ScheduleStopped \/ Schedule \/ Unschedule
  BY <1>0, <1>9 DEF ScheduleStopped, Schedule, Unschedule, TimerDone
<1>10. CASE StopBegin \/ StopJoined \/ StopTimeout
  BY <1>0, <1>10 DEF StopBegin, StopJoined, StopTimeout
<1>11. CASE Forget
  BY <1>11 DEF Forget
<1>12. ASSUME NEW t \in Types, Elapse(t) \/ Expire(t) \/ ExpireDropped(t) PROVE Stored'
  BY <1>0, <1>12 DEF Elapse, Expire, ExpireDropped, TimerKeeps
<1>13. CASE TestRunBit \/ Get \/ GetTimeout \/ PublishTelemetry
  BY <1>0, <1>13 DEF TestRunBit, Get, GetTimeout, PublishTelemetry, ThreadKeeps
<1>14. CASE UNCHANGED vars
  BY <1>0, <1>14 DEF vars
<1> QED
  BY <1>1, <1>2, <1>3, <1>4, <1>5, <1>6, <1>7, <1>8, <1>9, <1>10, <1>11, <1>12, <1>13, <1>14,
     Actions

-----------------------------------------------------------------------------
\* Every step keeps the inductive invariant.
LEMMA InvStep == IInv /\ [Next]_vars => IInv'
<1> SUFFICES ASSUME IInv, [Next]_vars PROVE IInv'
  OBVIOUS
<1>1. TypeOK'
  BY TypeStep DEF IInv, Control
<1>2. Control'
  BY ControlStep DEF IInv
<1>3. Following'
  BY FollowingStep DEF IInv, Control
<1>4. Stored'
  BY <1>1, StoredStep DEF IInv, Control
<1> QED
  BY <1>1, <1>2, <1>3, <1>4 DEF IInv

\* The inductive invariant holds for ever.
THEOREM Invariant == Spec => []IInv
BY InvInit, InvStep, PTL DEF Spec

\* telemetry_private.h: every field keeps its type and the queue its length.
THEOREM TypeCorrect == Spec => []TypeOK
<1>1. IInv => TypeOK
  BY DEF IInv
<1> QED
  BY <1>1, Invariant, PTL

\* telemetry.c:131-136 and 191: a RUN bit that is set has a live thread behind it.
THEOREM RunningIsAlive == Spec => []RunBitHasThread
<1>1. IInv => RunBitHasThread
  BY DEF IInv, Control
<1> QED
  BY <1>1, Invariant, PTL

\* telemetry.c:302: a stop without a limit leaves no thread for the next start to overwrite.
THEOREM NoLiveOverwrite == Spec => []StopsBeforeStart
<1>1. IInv => StopsBeforeStart
  BY DEF IInv, Control
<1> QED
  BY <1>1, Invariant, PTL

\* telemetry.c:208-213 and 362-379: between two calls the timers are those configured last.
THEOREM TimersCorrect == Spec => []TimersFollow
<1>1. IInv => TimersFollow
  <2> SUFFICES ASSUME IInv, app = "ready", runBit, NEW t \in loaded, enable[t], period[t] > 0
               PROVE  timer[t] # "off" /\ rate[t] = period[t]
    BY DEF TimersFollow
  <2>1. Followed(t) /\ todo = {}
    BY DEF IInv, Control, Jobs, Following, Scheduling, Storing
  <2> QED
    BY <2>1 DEF Followed, Scheduling, Storing
<1> QED
  BY <1>1, Invariant, PTL

\* telemetry_entry.c:194-202: between two calls the settings hold what is in RAM, unless one
\* of their errors was dropped or the entry is refused.
THEOREM SettingsCorrect == Spec => []Durable
<1>1. IInv => Durable
  BY DEF IInv, Stored, Kept, Saved, Storing, Durable
<1> QED
  BY <1>1, Invariant, PTL
=============================================================================
