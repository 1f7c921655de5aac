---------------------------- MODULE WifiScanProofs ----------------------------
(***************************************************************************)
(* Theorems of WifiScan, for any number of threads that ask for scans, any *)
(* queue, and however often a scan is asked for, cut short or stopped.     *)
(***************************************************************************)
EXTENDS WifiScan, SequenceTheorems, TLAPS

\* What holds while no request failed and no scan was cut short by a timeout or a stop.  The
\* radio performs the scan that it accepted last, or none.
Calm == kill = FALSE /\ radio \in {0, scans}

\* The radio performs a scan, and the end of one is handled, only for a thread that transmits,
\* or for a starter that creates one.
Heard ==
  /\ radio # 0 => callback /\ ~done
  /\ radio # 0 \/ done => ~stop /\ (thr \in Looping \/ \E p \in Starters : at[p] = "create")

\* Before a scan is requested, and when its thread leaves, nothing is under way.
Clean == radio = 0 /\ ~done /\ queue = <<>>
Before ==
  /\ \A p \in Starters : at[p] \in {"callback", "request"} => Clean /\ ~stop
  /\ ~start => Clean /\ ~stop
  /\ thr \in Leaving => Clean
  /\ thr \in {"clear_kill", "clear_start"} => ~stop
  /\ \A p \in Starters : at[p] = "request" => callback

\* A scan that is over has told the thread, or will find it told.
Told ==
  /\ thr \in Looping => own = scans /\ (radio # 0 \/ done \/ stop)
  /\ \A p \in Starters : at[p] = "create" => radio # 0 \/ done \/ stop
  /\ thr = "send" => held = scans
  /\ \A i \in 1 .. Len(queue) : queue[i] = scans

Orderly == undisturbed => Calm /\ Heard /\ Before /\ Told

\* The inductive invariant.
IInv == TypeOK /\ StartHasOneOwner /\ ScanIsBounded /\ Orderly /\ ResultsOfOwnScan
-----------------------------------------------------------------------------
LEMMA InvInit == Init => IInv
<1> SUFFICES ASSUME Init PROVE IInv
  OBVIOUS
<1>1. TypeOK
  <2>1. queue \in Seq(Nat) /\ Len(queue) <= QueueLen
    BY ScanAssumption DEF Init, ScanAssumption
  <2>2. scans \in 0 .. MaxScans /\ found \in 0 .. MaxFound
    BY ScanAssumption DEF Init, ScanAssumption
  <2>3. sent \subseteq Transmissions
    BY DEF Init
  <2>4. at \in [Starters -> StarterPlace]
    BY DEF Init, StarterPlace
  <2> QED
    BY <2>1, <2>2, <2>3, <2>4 DEF Init, TypeOK, ThreadPlace, Looping, Leaving
<1>2. StartHasOneOwner /\ ScanIsBounded
  BY DEF Init, StartHasOneOwner, ScanIsBounded, Asking, Scanning, Looping, Leaving
<1>3. Orderly
  BY DEF Init, Orderly, Calm, Heard, Before, Clean, Told, Looping, Leaving
<1> QED
  BY <1>1, <1>2, <1>3 DEF IInv, ResultsOfOwnScan, Init

\* The variables keep their types.
LEMMA TypeStep == ASSUME TypeOK, [Next]_vars PROVE TypeOK'
<1> USE ScanAssumption DEF ScanAssumption, StarterPlace, ThreadPlace, Looping, Leaving
<1>1. ASSUME NEW p \in Starters, Starter(p) PROVE TypeOK'
  <2>1. CASE StartRefused(p) \/ Start(p)
    <3>1. at' \in [Starters -> StarterPlace] /\ start' \in BOOLEAN
      BY <2>1 DEF TypeOK, StartRefused, Start, Goto, bitVars
    <3> QED
      BY <2>1, <3>1 DEF TypeOK, StartRefused, Start, StarterKeeps, bitVars, thrVars
  <2>2. CASE NoInterface(p)
    BY <2>2 DEF TypeOK, NoInterface, StarterKeeps, Goto, thrVars
  <2>3. CASE AddCallback(p)
    BY <2>3 DEF TypeOK, AddCallback, StarterKeeps, Goto, bitVars, thrVars
  <2>4. CASE RequestFails(p)
    BY <2>4 DEF TypeOK, RequestFails, StarterKeeps, Goto, thrVars
  <2>5. CASE Request(p)
    BY <2>5 DEF TypeOK, Request, Goto, bitVars, thrVars
  <2>6. CASE Create(p)
    BY <2>6 DEF TypeOK, Create, Goto, bitVars, histVars
  <2>7. CASE ArmTimer(p)
    BY <2>7 DEF TypeOK, ArmTimer, StarterKeeps, Goto, bitVars, thrVars
  <2> QED
    BY <1>1, <2>1, <2>2, <2>3, <2>4, <2>5, <2>6, <2>7 DEF Starter
<1>2. CASE Destroy
  <2>1. at' \in [Starters -> StarterPlace]
    BY <1>2 DEF TypeOK, Destroy, Goto
  <2> QED
    BY <1>2, <2>1 DEF TypeOK, Destroy, DestroyKeeps, thrVars
<1>3. CASE Joined \/ JoinTimesOut
  BY <1>3 DEF TypeOK, Joined, JoinTimesOut, DestroyKeeps, Goto, thrVars
<1>4. CASE Loop \/ Got
  <2>1. queue # <<>> => Head(queue) \in Nat /\ Tail(queue) \in Seq(Nat) /\ Len(Tail(queue)) <= QueueLen
    BY HeadTailProperties DEF TypeOK
  <2> QED
    BY <1>4, <2>1 DEF TypeOK, Loop, Got, ThreadKeeps, bitVars
<1>5. CASE GetTimesOut \/ ClearStop \/ ClearKill \/ ClearStart \/ Exit
  <2>1. thr' \in ThreadPlace /\ start' \in BOOLEAN /\ stop' \in BOOLEAN /\ kill' \in BOOLEAN
    BY <1>5 DEF TypeOK, GetTimesOut, ClearStop, ClearKill, ClearStart, Exit, bitVars
  <2> QED
    BY <1>5, <2>1 DEF TypeOK, GetTimesOut, ClearStop, ClearKill, ClearStart, Exit, ThreadKeeps, bitVars
<1>6. CASE Transmit
  <2>1. <<own, held>> \in Transmissions
    BY DEF TypeOK, Transmissions
  <2> QED
    BY <1>6, <2>1 DEF TypeOK, Transmit, ThreadKeeps, bitVars
<1>7. CASE ScanResult
  <2>1. Len(queue) < QueueLen =>
          Append(queue, radio) \in Seq(Nat) /\ Len(Append(queue, radio)) <= QueueLen
    BY AppendProperties, LenProperties DEF TypeOK
  <2>2. found' \in 0 .. MaxFound
    BY <1>7 DEF TypeOK, ScanResult
  <2>3. queue' \in Seq(Nat) /\ Len(queue') <= QueueLen
    BY <1>7, <2>1 DEF TypeOK, ScanResult
  <2> QED
    BY <1>7, <2>2, <2>3 DEF TypeOK, ScanResult, EventKeeps, thrVars
<1>8. CASE ScanDone
  BY <1>8 DEF TypeOK, ScanDone, EventKeeps, thrVars
<1>9. CASE TellThread
  BY <1>9 DEF TypeOK, TellThread, EventKeeps, thrVars
<1>10. CASE Timeout
  BY <1>10 DEF TypeOK, Timeout, EventKeeps, thrVars
<1>11. CASE UNCHANGED vars
  BY <1>11 DEF TypeOK, vars, bitVars, thrVars, histVars
<1> QED
  BY <1>1, <1>2, <1>3, <1>4, <1>5, <1>6, <1>7, <1>8, <1>9, <1>10, <1>11 DEF Next, Thread, Event

\* Nobody takes a START bit that another has, and whoever clears it has it.
LEMMA OwnerStep == ASSUME TypeOK, StartHasOneOwner, [Next]_vars PROVE StartHasOneOwner'
<1> USE DEF StartHasOneOwner, Asking, Scanning, Looping, Leaving, StarterPlace
<1>1. ASSUME NEW p \in Starters, Starter(p) PROVE StartHasOneOwner'
  <2>1. CASE StartRefused(p)
    BY <2>1 DEF StartRefused, StarterKeeps, bitVars, thrVars
  <2>2. CASE Start(p)
    BY <2>2 DEF TypeOK, Start, StarterKeeps, Goto, thrVars
  <2>3. CASE NoInterface(p)
    BY <2>3 DEF TypeOK, NoInterface, StarterKeeps, Goto, thrVars
  <2>4. CASE AddCallback(p)
    BY <2>4 DEF TypeOK, AddCallback, StarterKeeps, Goto, bitVars, thrVars
  <2>5. CASE RequestFails(p)
    BY <2>5 DEF TypeOK, RequestFails, StarterKeeps, Goto, thrVars
  <2>6. CASE Request(p)
    BY <2>6 DEF TypeOK, Request, Goto, bitVars, thrVars
  <2>7. CASE Create(p)
    BY <2>7 DEF TypeOK, Create, Goto, bitVars
  <2>8. CASE ArmTimer(p)
    BY <2>8 DEF TypeOK, ArmTimer, StarterKeeps, Goto, bitVars, thrVars
  <2> QED
    BY <1>1, <2>1, <2>2, <2>3, <2>4, <2>5, <2>6, <2>7, <2>8 DEF Starter
<1>2. CASE Destroy \/ Joined \/ JoinTimesOut
  BY <1>2, ScanAssumption
  DEF TypeOK, ScanAssumption, Destroy, Joined, JoinTimesOut, DestroyKeeps, Goto, thrVars
<1>3. CASE Loop \/ Got \/ GetTimesOut \/ Transmit
  BY <1>3 DEF Loop, Got, GetTimesOut, Transmit, ThreadKeeps, bitVars
<1>4. CASE ClearStop \/ ClearKill
  BY <1>4 DEF ClearStop, ClearKill, ThreadKeeps
<1>5. CASE ClearStart \/ Exit
  BY <1>5 DEF ClearStart, Exit, ThreadKeeps, bitVars
<1>6. CASE Event
  BY <1>6 DEF Event, ScanResult, ScanDone, TellThread, Timeout, EventKeeps, thrVars
<1>7. CASE UNCHANGED vars
  BY <1>7 DEF vars, bitVars, thrVars
<1> QED
  BY <1>1, <1>2, <1>3, <1>4, <1>5, <1>6, <1>7 DEF Next, Thread

\* What is cleared (a stop, the timer) is cleared together with the loop, or for a stop.
LEMMA BoundStep ==
  ASSUME TypeOK, StartHasOneOwner, ScanIsBounded, [Next]_vars
  PROVE  ScanIsBounded'
<1> USE DEF ScanIsBounded, Looping
<1>1. ASSUME NEW p \in Starters, Starter(p) PROVE ScanIsBounded'
  <2>1. CASE StartRefused(p)
    BY <2>1 DEF StartRefused, StarterKeeps, bitVars, thrVars
  <2>2. CASE Start(p)
    BY <2>2 DEF TypeOK, Start, StarterKeeps, Goto, thrVars
  <2>3. CASE NoInterface(p) \/ AddCallback(p) \/ RequestFails(p) \/ Request(p)
    BY <2>3 DEF TypeOK, NoInterface, AddCallback, RequestFails, Request, StarterKeeps, Goto, bitVars, thrVars
  <2>4. CASE Create(p)
    BY <2>4 DEF TypeOK, Create, Goto
  <2>5. CASE ArmTimer(p)
    BY <2>5 DEF ArmTimer
  <2> QED
    BY <1>1, <2>1, <2>2, <2>3, <2>4, <2>5 DEF Starter
<1>2. CASE Destroy
  BY <1>2 DEF Destroy
<1>3. CASE Joined \/ JoinTimesOut
  BY <1>3 DEF TypeOK, Joined, JoinTimesOut, DestroyKeeps, Goto, thrVars
<1>4. CASE Loop
  BY <1>4 DEF Loop, ThreadKeeps, bitVars
<1>5. CASE Got \/ GetTimesOut \/ Transmit
  BY <1>5 DEF Got, GetTimesOut, Transmit, ThreadKeeps, bitVars
<1>6. CASE ClearStop \/ ClearKill \/ ClearStart \/ Exit
  BY <1>6 DEF ClearStop, ClearKill, ClearStart, Exit
<1>7. CASE Event
  BY <1>7 DEF Event, ScanResult, ScanDone, TellThread, Timeout, EventKeeps, thrVars
<1>8. CASE UNCHANGED vars
  BY <1>8 DEF vars, bitVars, thrVars
<1> QED
  BY <1>1, <1>2, <1>3, <1>4, <1>5, <1>6, <1>7, <1>8 DEF Next, Thread

\* What a thread takes from the queue, and what an event puts in.
LEMMA QueueOfScan ==
  ASSUME TypeOK, NEW s \in Nat, \A i \in 1 .. Len(queue) : queue[i] = s
  PROVE  /\ queue # <<>> => /\ Head(queue) = s
                           /\ \A i \in 1 .. Len(Tail(queue)) : Tail(queue)[i] = s
         /\ \A i \in 1 .. Len(Append(queue, s)) : Append(queue, s)[i] = s
<1>1. queue \in Seq(Nat)
  BY DEF TypeOK
<1>2. ASSUME queue # <<>>
      PROVE  Head(queue) = s /\ \A i \in 1 .. Len(Tail(queue)) : Tail(queue)[i] = s
  <2>1. Len(queue) \in Nat \ {0} /\ Head(queue) = queue[1]
    BY <1>1, <1>2, LenProperties, EmptySeq, HeadTailProperties
  <2>2. Len(Tail(queue)) = Len(queue) - 1 /\ \A i \in 1 .. Len(Tail(queue)) : Tail(queue)[i] = queue[i + 1]
    BY <1>1, <1>2, HeadTailProperties
  <2> QED
    BY <2>1, <2>2
<1>3. \A i \in 1 .. Len(Append(queue, s)) : Append(queue, s)[i] = s
  BY <1>1, AppendProperties, LenProperties
<1> QED
  BY <1>2, <1>3

\* A calm step of a starter: what its place says of the scan moves on with it.
LEMMA OrderlyStarter ==
  ASSUME TypeOK, StartHasOneOwner, Orderly, NEW p \in Starters, Starter(p)
  PROVE  Orderly'
<1> SUFFICES ASSUME undisturbed' PROVE (Calm /\ Heard /\ Before /\ Told)'
  BY DEF Orderly
<1> USE DEF StartHasOneOwner, Asking, Scanning, Looping, Leaving, StarterPlace
<1>1. CASE StartRefused(p)
  BY <1>1 DEF Orderly, Calm, Heard, Before, Clean, Told, StartRefused, StarterKeeps, bitVars, thrVars
<1>2. CASE Start(p)
  BY <1>2 DEF TypeOK, Orderly, Calm, Heard, Before, Clean, Told, Start, StarterKeeps, Goto, thrVars
<1>3. CASE NoInterface(p)
  BY <1>3 DEF TypeOK, Orderly, Calm, Heard, Before, Clean, Told, NoInterface, StarterKeeps, Goto, thrVars
<1>4. CASE AddCallback(p)
  BY <1>4
  DEF TypeOK, Orderly, Calm, Heard, Before, Clean, Told, AddCallback, StarterKeeps, Goto, bitVars, thrVars
<1>5. CASE RequestFails(p)
  BY <1>5 DEF RequestFails
<1>6. CASE Request(p)
  <2>1. Clean /\ ~stop /\ callback /\ ~kill /\ start /\ thr \notin Looping \cup Leaving
    BY <1>6 DEF Request, Orderly, Before, Calm
  <2>2. at'[p] = "create" /\ \A q \in Starters : q # p => at'[q] = at[q] /\ ~Asking(q)
    BY <1>6 DEF TypeOK, Request, Goto
  <2>3. Len(queue) = 0
    BY <2>1 DEF Clean
  <2>4. UNCHANGED <<start, stop, kill, callback, queue, thr, own, held, done>> /\ radio' = scans'
    BY <1>6 DEF Request, bitVars, thrVars
  <2>5. (Calm /\ Heard /\ Before)'
    BY <2>1, <2>2, <2>4 DEF Calm, Heard, Before, Clean
  <2>6. radio' # 0
    BY <1>6 DEF TypeOK, Request
  <2>7. Told'
    BY <2>1, <2>3, <2>4, <2>6 DEF Told
  <2> QED
    BY <2>5, <2>7
<1>7. CASE Create(p)
  <2>1. start /\ ~kill /\ radio \in {0, scans} /\ (radio # 0 \/ done \/ stop)
          /\ (radio # 0 => callback /\ ~done) /\ (radio # 0 \/ done => ~stop)
    BY <1>7 DEF Create, histVars, Orderly, Told, Calm, Heard
  <2>2. at'[p] = "timer" /\ \A q \in Starters : q # p => at'[q] = at[q] /\ ~Asking(q)
    BY <1>7 DEF TypeOK, Create, Goto
  <2>3. \A i \in 1 .. Len(queue) : queue[i] = scans
    BY <1>7 DEF Create, histVars, Orderly, Told
  <2> QED
    BY <1>7, <2>1, <2>2, <2>3 DEF Calm, Heard, Before, Clean, Told, Create, bitVars, histVars
<1>8. CASE ArmTimer(p)
  BY <1>8
  DEF TypeOK, Orderly, Calm, Heard, Before, Clean, Told, ArmTimer, StarterKeeps, Goto, bitVars, thrVars
<1> QED
  BY <1>1, <1>2, <1>3, <1>4, <1>5, <1>6, <1>7, <1>8 DEF Starter

\* The thread leaves its loop with an empty queue, and the bits only then.
LEMMA OrderlyThread ==
  ASSUME TypeOK, StartHasOneOwner, Orderly, Thread
  PROVE  Orderly'
<1> SUFFICES ASSUME undisturbed' PROVE (Calm /\ Heard /\ Before /\ Told)'
  BY DEF Orderly
<1> USE DEF StartHasOneOwner, Asking, Scanning, Looping, Leaving, StarterPlace
<1>1. undisturbed /\ UNCHANGED <<callback, own, at, radio, done, scans>>
  BY DEF Thread, Loop, Got, GetTimesOut, Transmit, ClearStop, ClearKill, ClearStart, Exit, ThreadKeeps
<1>2. Calm /\ Heard /\ Before /\ Told
  BY <1>1 DEF Orderly
<1>3. CASE Loop \/ Got
  <2>1. UNCHANGED bitVars /\ start
    BY <1>3 DEF Loop, Got
  <2>2. CASE thr' = "clear_stop"
    BY <1>1, <1>2, <1>3, <2>1, <2>2
    DEF Calm, Heard, Before, Clean, Told, Loop, Got, Continues, bitVars
  <2>3. CASE thr' = "wait"
    BY <1>1, <1>2, <1>3, <2>1, <2>3 DEF Calm, Heard, Before, Clean, Told, Loop, Got, bitVars
  <2>4. CASE thr' = "send"
    <3>1. queue # <<>> /\ held' = Head(queue) /\ queue' = Tail(queue) /\ thr \in Looping
      BY <1>3, <2>4 DEF Loop, Got
    <3>2. scans \in Nat
      BY DEF TypeOK
    <3>3. held' = scans /\ \A i \in 1 .. Len(queue') : queue'[i] = scans
      BY <1>2, <3>1, <3>2, QueueOfScan DEF Told
    <3> QED
      BY <1>1, <1>2, <2>1, <2>4, <3>1, <3>3 DEF Calm, Heard, Before, Clean, Told, bitVars
  <2> QED
    BY <1>3, <2>2, <2>3, <2>4 DEF Loop, Got
<1>4. CASE GetTimesOut \/ Transmit
  BY <1>1, <1>2, <1>4 DEF Calm, Heard, Before, Clean, Told, GetTimesOut, Transmit, bitVars
<1>5. CASE ClearStop \/ ClearKill
  BY <1>1, <1>2, <1>5 DEF Calm, Heard, Before, Clean, Told, ClearStop, ClearKill
<1>6. CASE ClearStart \/ Exit
  BY <1>1, <1>2, <1>6 DEF Calm, Heard, Before, Clean, Told, ClearStart, Exit, bitVars
<1> QED
  BY <1>3, <1>4, <1>5, <1>6 DEF Thread

\* An event is about the scan whose results the thread transmits.
LEMMA OrderlyEvent ==
  ASSUME TypeOK, Orderly, Event
  PROVE  Orderly'
<1> SUFFICES ASSUME undisturbed' PROVE (Calm /\ Heard /\ Before /\ Told)'
  BY DEF Orderly
<1> USE DEF Looping, Leaving
<1>1. CASE ScanResult
  <2>1. Calm /\ Heard /\ Before /\ Told /\ radio # 0 /\ radio = scans /\ scans \in Nat
    BY <1>1 DEF ScanResult, Orderly, Calm, TypeOK
  <2>2. \A i \in 1 .. Len(Append(queue, scans)) : Append(queue, scans)[i] = scans
    BY <2>1, QueueOfScan DEF Told
  <2>3. queue' = queue \/ queue' = Append(queue, scans)
    BY <1>1, <2>1 DEF ScanResult
  <2>4. \A i \in 1 .. Len(queue') : queue'[i] = scans
    BY <2>1, <2>2, <2>3 DEF Told
  <2> QED
    BY <1>1, <2>1, <2>4 DEF Calm, Heard, Before, Clean, Told, ScanResult, EventKeeps, thrVars
<1>2. CASE ScanDone
  <2>1. Calm /\ Heard /\ Before /\ Told /\ radio # 0 /\ callback
    BY <1>2 DEF ScanDone, Orderly, Heard
  <2>2. done' = TRUE /\ radio' = 0
    BY <1>2, <2>1 DEF ScanDone
  <2> QED
    BY <1>2, <2>1, <2>2 DEF Calm, Heard, Before, Clean, Told, ScanDone, EventKeeps, thrVars
<1>3. CASE TellThread
  <2>1. Calm /\ Heard /\ Before /\ Told /\ done /\ radio = 0
    BY <1>3 DEF TellThread, Orderly, Heard
  <2>2. stop' = TRUE /\ done' = FALSE /\ radio' = 0
    BY <1>3, <2>1 DEF TellThread
  <2> QED
    BY <1>3, <2>1, <2>2 DEF Calm, Heard, Before, Clean, Told, TellThread, EventKeeps, thrVars
<1>4. CASE Timeout
  BY <1>4 DEF Timeout
<1> QED
  BY <1>1, <1>2, <1>3, <1>4 DEF Event

LEMMA OrderlyStep ==
  ASSUME TypeOK, StartHasOneOwner, Orderly, [Next]_vars
  PROVE  Orderly'
<1>1. CASE Destroy
  BY <1>1 DEF Destroy, Orderly
<1>2. CASE Joined \/ JoinTimesOut
  BY <1>2 DEF TypeOK, Joined, JoinTimesOut, DestroyKeeps, Goto, thrVars, Orderly, Calm, Heard,
              Before, Clean, Told, StarterPlace
<1>3. CASE UNCHANGED vars
  BY <1>3 DEF vars, bitVars, thrVars, histVars, Orderly, Calm, Heard, Before, Clean, Told
<1> QED
  BY <1>1, <1>2, <1>3, OrderlyStarter, OrderlyThread, OrderlyEvent DEF Next

\* Results are only transmitted in Transmit.
LEMMA SentStep ==
  ASSUME Orderly, ResultsOfOwnScan, [Next]_vars
  PROVE  ResultsOfOwnScan'
<1>1. CASE Transmit
  BY <1>1 DEF Transmit, ThreadKeeps, ResultsOfOwnScan, Orderly, Told, Looping
<1>2. CASE ~Transmit
  <2>1. UNCHANGED sent /\ (undisturbed' => undisturbed)
    BY <1>2 DEF Next, Starter, Thread, StartRefused, Start, NoInterface, AddCallback, RequestFails,
         Request, Create, ArmTimer, Destroy, Joined, JoinTimesOut, Loop, Got, GetTimesOut, ClearStop,
         ClearKill, ClearStart, Exit, Event, ScanResult, ScanDone, TellThread, Timeout, StarterKeeps, DestroyKeeps,
         ThreadKeeps, EventKeeps, vars, histVars
  <2> QED
    BY <2>1 DEF ResultsOfOwnScan
<1> QED
  BY <1>1, <1>2
-----------------------------------------------------------------------------
THEOREM Invariant == Spec => []IInv
<1>1. IInv /\ [Next]_vars => IInv'
  BY TypeStep, OwnerStep, BoundStep, OrderlyStep, SentStep DEF IInv
<1> QED
  BY InvInit, <1>1, PTL DEF Spec

\* Every variable of the driver keeps its type and the queue its length (wifi_scan.c:316).
THEOREM TypeCorrect == Spec => []TypeOK
<1>1. IInv => TypeOK
  BY DEF IInv
<1> QED
  BY Invariant, <1>1, PTL

\* Of all threads that ask for a scan at most one has the START bit, or the scan thread has
\* it: no two scan threads ever use the bits and the queue (wifi_scan.c:191).
THEOREM OneOwner == Spec => []StartHasOneOwner
<1>1. IInv => StartHasOneOwner
  BY DEF IInv
<1> QED
  BY Invariant, <1>1, PTL

\* A scan thread in its loop has been told to leave it, or will be (wifi_scan.c:138, 233).
THEOREM Bounded == Spec => []ScanIsBounded
<1>1. IInv => ScanIsBounded
  BY DEF IInv
<1> QED
  BY Invariant, <1>1, PTL

\* While nothing disturbs a scan, no result is transmitted by the thread of another scan (wifi_scan.c:233).
THEOREM OwnResults == Spec => []ResultsOfOwnScan
<1>1. IInv => ResultsOfOwnScan
  BY DEF IInv
<1> QED
  BY Invariant, <1>1, PTL
=============================================================================
