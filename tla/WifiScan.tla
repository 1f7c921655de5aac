------------------------------ MODULE WifiScan ------------------------------
(***************************************************************************)
(* The WiFi scan driver of lib/edgehog_device/wifi_scan.c: the threads     *)
(* that ask for a scan, the scan thread that transmits the results, the    *)
(* one-shot timer that bounds a scan, the network management events of the *)
(* radio, and edgehog_wifi_scan_destroy.                                   *)
(*                                                                         *)
(* A step is what a thread does from one call that may block it, or one    *)
(* operation on the shared bits, to the next.  What the driver does with   *)
(* a result (formatting, the connected flag, the object sent) is left out; *)
(* a result is the number of the scan that produced it.                    *)
(***************************************************************************)
EXTENDS Integers, Sequences

CONSTANTS
  Starters,    \* the threads that call edgehog_wifi_scan_start
  Destroyer,   \* the one of them that calls edgehog_wifi_scan_destroy
  QueueLen,    \* WIFI_SCAN_MAX_SCAN_RESULT
  MaxScans,    \* bound: scans that the radio accepts
  MaxFound     \* bound: results of one scan

ASSUME ScanAssumption ==
  /\ Destroyer \in Starters
  /\ QueueLen \in Nat \ {0}
  /\ MaxScans \in Nat /\ MaxFound \in Nat

VARIABLES
  start, stop, kill,  \* the three bits of thread_state
  callback,           \* wifi_scan_cb is in the list of network management
  timer,              \* timeout_timer is armed
  queue,              \* msgq
  thr,                \* where the scan thread is
  own,                \* the scan it was created for
  held,               \* the result it transmits
  at,                 \* where each starter is
  radio,              \* the scan that the radio performs, 0 for none
  done,               \* is handle_wifi_scan_done about to stop the timer?
  \* Bounds and history.
  found,
  scans,              \* scans that the radio accepted
  sent,               \* <<scan of the thread, scan of the result>> transmitted
  undisturbed         \* no request failed, no scan was cut short by the timer or a stop

bitVars  == <<start, stop, kill>>
thrVars  == <<thr, own, held>>
histVars == <<found, scans, sent, undisturbed>>
vars == <<bitVars, callback, timer, queue, thrVars, at, radio, done, histVars>>

StarterPlace == {"idle", "callback", "request", "create", "timer", "join"}
Looping      == {"test", "wait", "send"}
Leaving      == {"clear_stop", "clear_kill", "clear_start"}
ThreadPlace  == {"none", "exit", "ended"} \cup Looping \cup Leaving

\* edgehog_wifi_scan_init.
Init ==
  /\ start = FALSE /\ stop = FALSE /\ kill = FALSE
  /\ callback = FALSE /\ timer = FALSE /\ queue = <<>>
  /\ thr = "none" /\ own = 0 /\ held = 0
  /\ at = [p \in Starters |-> "idle"]
  /\ radio = 0 /\ done = FALSE
  /\ found = 0 /\ scans = 0
  /\ sent = {} /\ undisturbed = TRUE

Goto(p, place) == at' = [at EXCEPT ![p] = place]
-----------------------------------------------------------------------------
(***************************************************************************)
(* edgehog_wifi_scan_start, by the thread that polls the device (the       *)
(* initial publish) and by the telemetry thread.                           *)
(***************************************************************************)
StarterKeeps == UNCHANGED <<queue, thrVars, done, found, sent>>

StartRefused(p) ==
  /\ at[p] = "idle"
  /\ start
  /\ UNCHANGED <<bitVars, callback, timer, at, radio, scans, undisturbed>> /\ StarterKeeps

\* Mutant: the bit is tested and never set.
StartUnmarked(p) ==
  /\ at[p] = "idle"
  /\ ~start
  /\ Goto(p, "callback")
  /\ UNCHANGED <<bitVars, callback, timer, radio, scans, undisturbed>> /\ StarterKeeps

Start(p) ==
  /\ at[p] = "idle"
  /\ ~start
  /\ start' = TRUE
  /\ Goto(p, "callback")
  /\ UNCHANGED <<stop, kill, callback, timer, radio, scans, undisturbed>> /\ StarterKeeps

NoInterface(p) ==
  /\ at[p] = "callback"
  /\ start' = FALSE
  /\ Goto(p, "idle")
  /\ UNCHANGED <<stop, kill, callback, timer, radio, scans, undisturbed>> /\ StarterKeeps

AddCallback(p) ==
  /\ at[p] = "callback"
  /\ callback' = TRUE
  /\ Goto(p, "request")
  /\ UNCHANGED <<bitVars, timer, radio, scans, undisturbed>> /\ StarterKeeps

\* The driver refuses a scan while it performs one, and may refuse any.  The callback stays.
RequestFails(p) ==
  /\ at[p] = "request"
  /\ start' = FALSE
  /\ Goto(p, "idle")
  /\ undisturbed' = FALSE
  /\ UNCHANGED <<stop, kill, callback, timer, radio, scans>> /\ StarterKeeps

Request(p) ==
  /\ at[p] = "request" /\ radio = 0 /\ scans < MaxScans
  /\ scans' = scans + 1
  /\ radio' = scans'
  /\ found' = 0
  /\ Goto(p, "create")
  /\ UNCHANGED <<bitVars, callback, timer, queue, thrVars, done, sent, undisturbed>>

\* k_thread_create always returns its handle: the branch of line 220 is never taken.
Create(p) ==
  /\ at[p] = "create"
  /\ thr' = "test" /\ own' = scans /\ held' = 0
  /\ Goto(p, "timer")
  /\ UNCHANGED <<bitVars, callback, timer, queue, radio, done, histVars>>

\* Mutant: nothing bounds the scan.
TimerForgotten(p) ==
  /\ at[p] = "timer"
  /\ Goto(p, "idle")
  /\ UNCHANGED <<bitVars, callback, timer, radio, scans, undisturbed>> /\ StarterKeeps

ArmTimer(p) ==
  /\ at[p] = "timer"
  /\ timer' = TRUE
  /\ Goto(p, "idle")
  /\ UNCHANGED <<bitVars, callback, radio, scans, undisturbed>> /\ StarterKeeps

Starter(p) == \/ StartRefused(p) \/ Start(p) \/ NoInterface(p) \/ AddCallback(p)
              \/ RequestFails(p) \/ Request(p) \/ Create(p) \/ ArmTimer(p)
-----------------------------------------------------------------------------
(***************************************************************************)
(* edgehog_wifi_scan_destroy.  It sets the KILL bit whether or not there   *)
(* is a thread to clear it, and joins a thread that may never have been    *)
(* created: then it returns only if it has a timeout.                      *)
(***************************************************************************)
DestroyKeeps == UNCHANGED <<start, stop, callback, timer, queue, thrVars, radio, done,
                            found, scans, sent>>

Destroy ==
  /\ at[Destroyer] = "idle"
  /\ kill' = TRUE
  /\ Goto(Destroyer, "join")
  /\ undisturbed' = FALSE
  /\ DestroyKeeps

\* The thread has ended: OK.  It has not: only a timeout ends the wait.
Joined ==
  /\ at[Destroyer] = "join" /\ thr = "ended"
  /\ Goto(Destroyer, "idle")
  /\ UNCHANGED <<kill, undisturbed>> /\ DestroyKeeps

JoinTimesOut ==
  /\ at[Destroyer] = "join" /\ thr # "ended"
  /\ Goto(Destroyer, "idle")
  /\ UNCHANGED <<kill, undisturbed>> /\ DestroyKeeps
-----------------------------------------------------------------------------
(***************************************************************************)
(* wifi_scan_thread_entry_point.                                           *)
(***************************************************************************)
ThreadKeeps == UNCHANGED <<callback, timer, own, at, radio, done,
                           found, scans, undisturbed>>

Continues == (~stop \/ queue # <<>>) /\ ~kill

\* Mutant: STOP ends the loop with results in the queue.
LoopUndrained ==
  /\ thr = "test"
  /\ IF stop \/ kill THEN thr' = "clear_stop" /\ UNCHANGED <<queue, held>>
     ELSE IF queue = <<>> THEN thr' = "wait" /\ UNCHANGED <<queue, held>>
     ELSE thr' = "send" /\ held' = Head(queue) /\ queue' = Tail(queue)
  /\ UNCHANGED <<bitVars, sent>> /\ ThreadKeeps

Loop ==
  /\ thr = "test"
  /\ IF ~Continues THEN thr' = "clear_stop" /\ UNCHANGED <<queue, held>>
     ELSE IF queue = <<>> THEN thr' = "wait" /\ UNCHANGED <<queue, held>>
     ELSE thr' = "send" /\ held' = Head(queue) /\ queue' = Tail(queue)
  /\ UNCHANGED <<bitVars, sent>> /\ ThreadKeeps

\* k_msgq_get: a result within 100 ms, or none.
Got ==
  /\ thr = "wait" /\ queue # <<>>
  /\ thr' = "send" /\ held' = Head(queue) /\ queue' = Tail(queue)
  /\ UNCHANGED <<bitVars, sent>> /\ ThreadKeeps

GetTimesOut ==
  /\ thr = "wait" /\ queue = <<>>
  /\ thr' = "test"
  /\ UNCHANGED <<bitVars, queue, held, sent>> /\ ThreadKeeps

\* transmit_wifi_scan_result: an error is only logged.
Transmit ==
  /\ thr = "send"
  /\ sent' = sent \cup {<<own, held>>}
  /\ thr' = "test" /\ held' = 0
  /\ UNCHANGED <<bitVars, queue>> /\ ThreadKeeps

ClearStop ==
  /\ thr = "clear_stop"
  /\ stop' = FALSE /\ thr' = "clear_kill"
  /\ UNCHANGED <<start, kill, queue, held, sent>> /\ ThreadKeeps

ClearKill ==
  /\ thr = "clear_kill"
  /\ kill' = FALSE /\ thr' = "clear_start"
  /\ UNCHANGED <<start, stop, queue, held, sent>> /\ ThreadKeeps

ClearStart ==
  /\ thr = "clear_start"
  /\ start' = FALSE /\ thr' = "exit"
  /\ UNCHANGED <<stop, kill, queue, held, sent>> /\ ThreadKeeps

Exit ==
  /\ thr = "exit"
  /\ thr' = "ended"
  /\ UNCHANGED <<bitVars, queue, held, sent>> /\ ThreadKeeps

Thread == \/ Loop \/ Got \/ GetTimesOut \/ Transmit
          \/ ClearStop \/ ClearKill \/ ClearStart \/ Exit
-----------------------------------------------------------------------------
(***************************************************************************)
(* wifi_mgmt_scan_event_handler and scan_timeout_handler.  The thread of   *)
(* network management handles one event after the other, and others run    *)
(* while it does; the timer expires in the interrupt of the clock, and its *)
(* handler is one step.  The events of a scan whose callback was removed   *)
(* are nobody's.                                                           *)
(***************************************************************************)
EventKeeps == UNCHANGED <<start, kill, thrVars, at, scans, sent>>

\* Mutant: the queue is not bounded.
ResultUnbounded ==
  /\ radio # 0 /\ ~done /\ found < MaxFound
  /\ found' = found + 1
  /\ queue' \in IF callback THEN {queue, Append(queue, radio)} ELSE {queue}
  /\ UNCHANGED <<stop, callback, timer, radio, done, undisturbed>> /\ EventKeeps

\* A malformed result is dropped, and so is one that finds the queue full.
ScanResult ==
  /\ radio # 0 /\ ~done /\ found < MaxFound
  /\ found' = found + 1
  /\ queue' \in IF callback /\ Len(queue) < QueueLen
                THEN {queue, Append(queue, radio)} ELSE {queue}
  /\ UNCHANGED <<stop, callback, timer, radio, done, undisturbed>> /\ EventKeeps

\* handle_wifi_scan_done waits for a lock before it removes the callback, and then goes on.
ScanDone ==
  /\ radio # 0 /\ ~done
  /\ radio' = 0
  /\ callback' = FALSE
  /\ done' = callback
  /\ UNCHANGED <<stop, timer, queue, found, undisturbed>> /\ EventKeeps

\* Mutant: the thread is not told that the scan is over.
TellNobody ==
  /\ done
  /\ done' = FALSE /\ timer' = FALSE
  /\ UNCHANGED <<stop, callback, radio, queue, found, undisturbed>> /\ EventKeeps

TellThread ==
  /\ done
  /\ done' = FALSE /\ timer' = FALSE
  /\ stop' = TRUE
  /\ UNCHANGED <<callback, radio, queue, found, undisturbed>> /\ EventKeeps

Timeout ==
  /\ timer
  /\ timer' = FALSE
  /\ callback' = FALSE
  /\ stop' = TRUE
  /\ undisturbed' = FALSE
  /\ UNCHANGED <<queue, radio, done, found>> /\ EventKeeps

Event == ScanResult \/ ScanDone \/ TellThread \/ Timeout
-----------------------------------------------------------------------------
Next == \/ \E p \in Starters : Starter(p)
        \/ Destroy \/ Joined \/ JoinTimesOut
        \/ Thread
        \/ Event

Spec == Init /\ [][Next]_vars

(***************************************************************************)
(* The scheduler runs every thread that is ready, the one of network       *)
(* management among them, and an armed timer expires.  Nothing is assumed  *)
(* of the radio, which may never report the end of a scan, and nothing     *)
(* makes anyone ask for a scan.                                            *)
(***************************************************************************)
Fairness ==
  /\ \A p \in Starters : WF_vars(\/ NoInterface(p) \/ AddCallback(p) \/ RequestFails(p)
                                 \/ Request(p) \/ Create(p) \/ ArmTimer(p))
  /\ WF_vars(Thread)
  /\ WF_vars(TellThread)
  /\ WF_vars(Timeout)

FairSpec == Spec /\ Fairness
-----------------------------------------------------------------------------
Transmissions == Nat \X Nat

TypeOK ==
  /\ start \in BOOLEAN /\ stop \in BOOLEAN /\ kill \in BOOLEAN
  /\ callback \in BOOLEAN /\ timer \in BOOLEAN
  /\ queue \in Seq(Nat) /\ Len(queue) <= QueueLen
  /\ thr \in ThreadPlace /\ own \in Nat /\ held \in Nat
  /\ at \in [Starters -> StarterPlace]
  /\ radio \in Nat /\ done \in BOOLEAN
  /\ found \in 0 .. MaxFound
  /\ scans \in 0 .. MaxScans
  /\ sent \subseteq Transmissions
  /\ undisturbed \in BOOLEAN

\* A starter that has the START bit and has not yet handed it to a thread.
Asking(p) == at[p] \in {"callback", "request", "create"}
\* The thread has the START bit.
Scanning  == thr \in Looping \cup Leaving

(***************************************************************************)
(* The START bit has exactly one owner: a single starter on its way to the *)
(* thread, or the thread until it clears the bit.  So a scan is refused    *)
(* only because of one that is going on, and the bits and the queue are    *)
(* never used by two scan threads.                                         *)
(***************************************************************************)
StartHasOneOwner ==
  /\ start <=> Scanning \/ \E p \in Starters : Asking(p)
  /\ \A p \in Starters : Asking(p) => ~Scanning
  /\ \A p, q \in Starters : Asking(p) /\ Asking(q) => p = q

(***************************************************************************)
(* A thread that is in its loop will leave it: it has been told to, or a   *)
(* timer is armed that will tell it, or a starter is about to arm it.      *)
(* Three contexts set and clear STOP and the timer (the end of the scan,   *)
(* the timeout, the thread), and a stop that is lost leaves START set for  *)
(* ever.                                                                   *)
(***************************************************************************)
ScanIsBounded ==
  thr \in Looping => stop \/ kill \/ timer \/ \E p \in Starters : at[p] = "timer"

(***************************************************************************)
(* While no request failed, no timer cut a scan short and no stop came,    *)
(* every result is transmitted by the thread of the scan that found it:    *)
(* even though a scan may end before its thread exists, and the queue is   *)
(* never emptied but by the thread.                                        *)
(***************************************************************************)
ResultsOfOwnScan == undisturbed => \A s \in sent : s[1] = s[2]

(***************************************************************************)
(* A scan comes to an end whatever the radio does, so that the next one is *)
(* not refused for ever.                                                   *)
(***************************************************************************)
ScanEnds == start ~> ~start
=============================================================================
