------------------------- MODULE FileTransferProofs -------------------------
(***************************************************************************)
(* Theorems of FileTransfer, for any requests, sizes, queue and pipe,      *)
(* whatever fails and however stops end.                                   *)
(***************************************************************************)
EXTENDS FileTransfer, TLAPS

\* The message that the service thread holds, and where it may be with it.
Serving ==
  /\ cur # None <=> thr \in Transfer \cup {"sem", "take"}
  /\ thr \in {"append", "wait"} => cur \in Down
  /\ thr \in {"flags", "response"} => cur \in Up
  /\ ~runBit /\ caller = "ready" => thr = "none"
  /\ caller = "join" => ~runBit
  /\ thr \in Transfer => lost = {}

\* A request is in one place, and there only after it arrived.
Pending ==
  /\ \A r \in Requests \ asked : replies[r] = <<>> /\ ctx[r] = None /\ ~Waits(r)
  /\ \A i, j \in 1 .. Len(queue) : queue[i] = queue[j] => i = j
  /\ \A i \in 1 .. Len(queue) : queue[i] # cur

\* The places of a handler that hold a context.
Live == {"data", "http", "append", "flags", "response", "end", "wait"}

\* The context exists from file_init to the end of the transfer, and not before.
Contexts ==
  /\ thr \in Live => ctx[cur] # None
  /\ thr = "reply" /\ result # "nomem" => ctx[cur] = None
  /\ thr \in {"sem", "take", "init"} => ctx[cur] = None
  /\ \A i \in 1 .. Len(queue) : ctx[queue[i]] = None

\* The application has a thread on the stream of the transfer, and acknowledges last.
Streams ==
  /\ appReq["down"] \in Down \cup {None} /\ appReq["up"] \in Up \cup {None}
  /\ thr \in Transfer /\ ctx[cur] # None => appReq[Way(cur)] = cur
  /\ Holds("down") /\ "ack" \in AppFlags("down") => app["down"] = "done"
  /\ prompt /\ app["down"] \in AppAlive => Holds("down")

Counted == thr \in Live /\ cur \in Down => moved <= body

Requesting == Serving /\ SemaphoreKept /\ Pending /\ OneReply /\ Contexts /\ OnlyKnownLeaks
Streaming  == Streams /\ SafeTeardown /\ Counted /\ NothingLost
IInv       == TypeOK /\ Requesting /\ Streaming
-----------------------------------------------------------------------------
\* A context whose pipe or flags change is a context.
LEMMA ContextParts ==
  ASSUME TypeOK, NEW r \in Requests, ctx[r] # None
  PROVE  /\ ctx[r] \in Context
         /\ ctx[r].pipe \in 0 .. PipeSize /\ ctx[r].flags \in SUBSET {"eof", "ack", "error"}
         /\ \A n \in 0 .. PipeSize : [ctx[r] EXCEPT !.pipe = n] \in Context
         /\ \A f \in SUBSET {"eof", "ack", "error"} : [ctx[r] EXCEPT !.flags = f] \in Context
<1>1. ctx[r] \in Context
  BY DEF TypeOK
<1> QED
  BY <1>1 DEF Context

\* The request that is served.
LEMMA Served ==
  ASSUME IInv, thr \in Transfer
  PROVE  cur \in Requests /\ (thr \in Live => ctx[cur] # None)
<1> QED
  BY DEF IInv, Requesting, TypeOK, Serving, Contexts

\* No context comes or goes.
SameHeap ==
  /\ ctx' \in [Requests -> Context \cup {None}]
  /\ \A r \in Requests : ctx'[r] = None <=> ctx[r] = None

\* Neither does when a context changes.
LEMMA PutContext ==
  ASSUME TypeOK, NEW r \in Requests, ctx[r] # None, NEW c \in Context,
         ctx' = [ctx EXCEPT ![r] = c]
  PROVE  SameHeap
<1>1. c # None /\ ctx \in [Requests -> Context \cup {None}]
  BY FileTransferAssumption DEF TypeOK
<1> QED
  BY <1>1 DEF SameHeap

LEMMA PutPipe ==
  ASSUME TypeOK, NEW r \in Requests, ctx[r] # None, NEW n \in 0 .. PipeSize,
         ctx' = [ctx EXCEPT ![r].pipe = n]
  PROVE  SameHeap
<1>1. [ctx[r] EXCEPT !.pipe = n] \in Context
  BY ContextParts
<1> QED
  BY <1>1, PutContext

LEMMA PutFlags ==
  ASSUME TypeOK, NEW r \in Requests, ctx[r] # None, NEW f \in SUBSET {"eof", "ack", "error"},
         ctx' = [ctx EXCEPT ![r].flags = f]
  PROVE  SameHeap
<1>1. [ctx[r] EXCEPT !.flags = f] \in Context
  BY ContextParts
<1> QED
  BY <1>1, PutContext

\* What a thread of the application holds.
LEMMA Held ==
  ASSUME TypeOK, NEW d \in {"down", "up"}, Holds(d)
  PROVE  /\ appReq[d] \in Requests /\ ctx[appReq[d]] # None
         /\ AppPipe(d) \in 0 .. PipeSize /\ AppFlags(d) \in SUBSET {"eof", "ack", "error"}
<1>1. appReq[d] \in Requests /\ ctx[appReq[d]] # None
  BY DEF Holds, TypeOK
<1> QED
  BY <1>1, ContextParts DEF AppPipe, AppFlags

LEMMA InitInv == Init => IInv
<1> SUFFICES ASSUME Init PROVE IInv
  OBVIOUS
<1>1. queue = <<>> /\ Len(queue) = 0 /\ queue \in Seq(Requests)
  BY DEF Init
<1>2. replies \in [Requests -> Seq({"ok", "error", "nomem"})]
  BY DEF Init
<1>3. TypeOK
  <2>1. /\ ctx \in [Requests -> Context \cup {None}]
        /\ app \in [{"down", "up"} -> AppPlace]
        /\ appReq \in [{"down", "up"} -> Requests \cup {None}]
    BY DEF Init, AppPlace
  <2>2. Len(queue) <= QueueLen
    BY <1>1, FileTransferAssumption
  <2>3. thr \in Place /\ cur \in Requests \cup {None}
    BY DEF Init, Place
  <2> QED
    BY <1>1, <1>2, <2>1, <2>2, <2>3 DEF Init, TypeOK
<1>4. None \notin Requests
  BY FileTransferAssumption DEF FileTransferAssumption, Requests
<1>5. \A r \in Requests : Len(replies[r]) = 0 /\ replies[r] = <<>>
  BY DEF Init
<1> QED
  BY <1>1, <1>3, <1>4, <1>5 DEF Init, IInv, Requesting, Streaming, Serving, SemaphoreKept, Pending, OneReply, Contexts, OnlyKnownLeaks,
     Streams, SafeTeardown, Counted, NothingLost, Waits, Transfer, Live, Holds, AppAlive

\* Types: the thread that polls and stops.
LEMMA ControlType ==
  ASSUME IInv, Control
  PROVE  TypeOK'
<1> USE FileTransferAssumption
    DEF TypeOK, IInv, Place, AppPlace, FileTransferAssumption, askVars, svcVars, curVars, bytes, appVars
<1>1. CASE Start
  BY <1>1 DEF Start
<1>2. CASE StopBegin
  BY <1>2 DEF StopBegin
<1>3. CASE StopJoined
  BY <1>3 DEF StopJoined
<1>4. CASE StopTimeout
  BY <1>4 DEF StopTimeout, Requesting, Serving
<1>5. ASSUME NEW r \in Requests, Refuse(r)
      PROVE  TypeOK'
  BY <1>5 DEF Refuse
<1>6. ASSUME NEW r \in Requests, Accept(r)
      PROVE  TypeOK'
  BY <1>6 DEF Accept
<1> QED
  BY <1>1, <1>2, <1>3, <1>4, <1>5, <1>6 DEF Control

\* The steps of the handlers that change a context.
LEMMA WriteAppendPuts ==
  ASSUME IInv, WriteAppend
  PROVE  /\ SameHeap /\ cur \in Down /\ thr \in Live
         /\ ctx' = [ctx EXCEPT ![cur].pipe = Pipe + Min2(body - moved, PipeSize - Pipe)]
         /\ Min2(body - moved, PipeSize - Pipe) \in 0 .. body - moved
         /\ Pipe \in Nat
<1> DEFINE n == Min2(body - moved, PipeSize - Pipe)
           p == Pipe + n
<1>1. TypeOK /\ cur \in Requests /\ ctx[cur] # None /\ moved <= body /\ cur \in Down /\ thr \in Live
  BY Served DEF WriteAppend, Transfer, Live, IInv, Requesting, Streaming, Counted, Serving
<1>2. Pipe \in 0 .. PipeSize
  BY <1>1, ContextParts DEF Pipe
<1>3. body \in Nat /\ moved \in Nat
  BY <1>1 DEF TypeOK
<1>4. n \in 0 .. body - moved /\ p \in 0 .. PipeSize /\ Pipe \in Nat
  BY <1>1, <1>2, <1>3, FileTransferAssumption DEF Min2
<1>5. ctx' = [ctx EXCEPT ![cur].pipe = p]
  BY DEF WriteAppend, Pipe
<1> HIDE DEF p
<1>6. SameHeap
  BY <1>1, <1>4, <1>5, PutPipe
<1> QED
  BY <1>1, <1>4, <1>5, <1>6 DEF p

LEMMA ReadChunkPuts ==
  ASSUME IInv, ReadChunk
  PROVE  /\ SameHeap /\ cur \in Up /\ thr \in Live /\ Pipe \in Nat
         /\ ctx' = [ctx EXCEPT ![cur].pipe = 0]
<1>1. TypeOK /\ cur \in Requests /\ ctx[cur] # None /\ thr \in Live
  BY Served DEF ReadChunk, Transfer, Live, IInv
<1>2. Pipe \in Nat
  BY <1>1, ContextParts DEF Pipe
<1>3. 0 \in 0 .. PipeSize
  BY FileTransferAssumption
<1>4. ctx' = [ctx EXCEPT ![cur].pipe = 0]
  BY DEF ReadChunk
<1> QED
  BY <1>1, <1>2, <1>3, <1>4, PutPipe DEF ReadChunk

\* Types: the service thread.
LEMMA ServiceType ==
  ASSUME IInv, ServiceThread
  PROVE  TypeOK'
<1> USE FileTransferAssumption
    DEF TypeOK, Place, AppPlace, FileTransferAssumption, askVars, svcVars, curVars, bytes, appVars, At
<1> TypeOK
  BY DEF IInv
<1>1. CASE TestRunBit \/ GetTimeout \/ TestBeforeTake \/ Take \/ TakeTimeout
  <2>1. CASE TestRunBit
    BY <2>1 DEF TestRunBit
  <2>2. CASE GetTimeout
    BY <2>2 DEF GetTimeout
  <2>3. CASE TestBeforeTake
    BY <2>3 DEF TestBeforeTake
  <2>4. CASE Take
    BY <2>4 DEF Take, Transfer
  <2>5. CASE TakeTimeout
    BY <2>5 DEF TakeTimeout
  <2> QED
    BY <1>1, <2>1, <2>2, <2>3, <2>4, <2>5
<1>2. CASE Get
  BY <1>2 DEF Get
<1>3. ASSUME NEW here, NEW there \in Transfer, NEW res \in {"ok", "error", "nomem"}, Ends(here, there, res)
      PROVE  TypeOK'
  BY <1>3 DEF Ends
<1>4. CASE InitFails \/ DataFails \/ DigestFails \/ DataReady \/ HttpFails
  BY <1>3, <1>4 DEF InitFails, DataFails, DigestFails, DataReady, HttpFails, Transfer
<1>5. CASE WriteError \/ WriteTimeout \/ Received \/ DigestMismatch
  BY <1>3, <1>5 DEF WriteError, WriteTimeout, Received, DigestMismatch, Transfer
<1>6. CASE ReadNothing \/ ReadError \/ ReadEnd \/ ReadAgain \/ ReadTimeout \/ Response \/ Rejected
  BY <1>3, <1>6 DEF ReadNothing, ReadError, ReadEnd, ReadAgain, ReadTimeout, Response, Rejected, Transfer
<1>7. CASE FileInit
  <2>1. cur \in Requests
    BY <1>7, Served DEF FileInit, Transfer
  <2>2. [pipe |-> 0, flags |-> {}] \in Context
    BY DEF Context
  <2>3. ctx' \in [Requests -> Context \cup {None}]
    BY <1>7, <2>1, <2>2 DEF FileInit
  <2>4. /\ app' \in [{"down", "up"} -> AppPlace]
        /\ appReq' \in [{"down", "up"} -> Requests \cup {None}]
    BY <1>7, <2>1 DEF FileInit, AppAlive, Way
  <2>5. size' \in Nat /\ body' \in Nat /\ moved' \in Nat /\ fill' \in Nat /\ wrote' \in Nat
    <3>1. Sizes \subseteq Nat
      BY FileTransferAssumption
    <3>2. size \in Nat /\ fill \in Nat /\ wrote \in Nat
      OBVIOUS
    <3>3. CASE size' \in Sizes /\ fill' = 0 /\ wrote' = wrote
      BY <1>7, <3>1, <3>2, <3>3 DEF FileInit
    <3>4. CASE size' = fill /\ wrote' = 0 /\ fill' = fill
      BY <1>7, <3>2, <3>4 DEF FileInit
    <3> QED
      BY <1>7, <3>3, <3>4 DEF FileInit
  <2> QED
    BY <1>7, <2>3, <2>4, <2>5 DEF FileInit, Transfer
<1>8. CASE Chunk
  BY <1>8 DEF Chunk, Transfer
<1>9. CASE WriteAppend
  <2>1. ctx' \in [Requests -> Context \cup {None}]
    BY <1>9, WriteAppendPuts DEF SameHeap
  <2>2. moved' \in Nat
    BY <1>9, WriteAppendPuts, SMTT(40) DEF WriteAppend
  <2> QED
    BY <1>9, <2>1, <2>2 DEF WriteAppend, Transfer
<1>10. CASE ReadChunk
  <2>1. ctx' \in [Requests -> Context \cup {None}]
    BY <1>10, ReadChunkPuts DEF SameHeap
  <2>2. moved' \in Nat
    BY <1>10, ReadChunkPuts DEF ReadChunk
  <2> QED
    BY <1>10, <2>1, <2>2 DEF ReadChunk
<1>11. CASE Finish
  <2>1. cur \in Requests /\ ctx[cur] # None
    BY <1>11, Served DEF Finish, Transfer, Live
  <2>2. CASE cur \in Up
    BY <1>11, <2>2 DEF Finish, Transfer
  <2>3. CASE cur \notin Up
    <3>1. ctx' = [ctx EXCEPT ![cur] = [@ EXCEPT !.flags = ctx[cur].flags \cup {"eof"}]]
      BY <1>11, <2>3 DEF Finish
    <3>2. ctx' \in [Requests -> Context \cup {None}]
      BY <2>1, <3>1, ContextParts
    <3> QED
      BY <1>11, <2>3, <3>2 DEF Finish, Transfer
  <2> QED
    BY <2>2, <2>3
<1>12. CASE Free
  BY <1>12 DEF Free, Transfer
<1>13. CASE Reply
  <2>1. cur \in Requests
    BY <1>13, Served DEF Reply, Transfer
  <2>2. replies' = [replies EXCEPT ![cur] = Append(@, result)]
    BY <1>13 DEF Reply
  <2>3. replies' \in [Requests -> Seq({"ok", "error", "nomem"})]
    BY <2>1, <2>2
  <2> QED
    BY <1>13, <2>3 DEF Reply
<1> QED
  BY <1>1, <1>2, <1>4, <1>5, <1>6, <1>7, <1>8, <1>9, <1>10, <1>11, <1>12, <1>13 DEF ServiceThread, Handler

\* The application touches nothing of the service, and frees nothing.
AppOnly ==
  /\ TypeOK'
  /\ SameHeap
  /\ UNCHANGED <<askVars, svcVars, curVars, sem, bytes, appReq, prompt>>

LEMMA AppSteps ==
  ASSUME IInv, AppDown \/ AppUp \/ AppError("down") \/ AppError("up")
  PROVE  AppOnly
<1> USE DEF AppAt, SameHeap, AppOnly
<1> TypeOK
  BY DEF IInv
<1>0. ASSUME SameHeap, UNCHANGED <<askVars, svcVars, curVars, sem, bytes, appReq, prompt>>,
             app' \in [{"down", "up"} -> AppPlace], fill' \in Nat, wrote' \in Nat
      PROVE  AppOnly
  BY <1>0 DEF TypeOK, askVars, svcVars, curVars, bytes
<1>1. CASE AppRead
  <2> DEFINE n == Min2(AppChunk, AppPipe("down"))
             p == AppPipe("down") - n
  <2>1. n \in Nat /\ p \in 0 .. PipeSize
    BY <1>1, Held, FileTransferAssumption DEF AppRead, Min2
  <2>2. ctx' = [ctx EXCEPT ![appReq["down"]].pipe = p] /\ fill' = fill + n
    BY <1>1 DEF AppRead, AppPipe
  <2> HIDE DEF n, p, SameHeap, AppOnly
  <2>3. SameHeap
    BY <1>1, <2>1, <2>2, Held, PutPipe DEF AppRead
  <2> QED
    BY <1>0, <1>1, <2>1, <2>2, <2>3 DEF AppRead, AppPlace, AppAlive, TypeOK
<1>2. CASE AppTestEof \/ AppWritten \/ AppStray("down") \/ AppStray("up")
  BY <1>0, <1>2 DEF AppTestEof, AppWritten, AppStray, AppPlace, AppAlive, TypeOK
<1>3. CASE AppAck
  <2> DEFINE f == AppFlags("down") \cup {"ack"}
  <2>1. ctx' = [ctx EXCEPT ![appReq["down"]].flags = f] /\ f \in SUBSET {"eof", "ack", "error"}
    BY <1>3, Held DEF AppAck, Post, AppFlags
  <2> HIDE DEF f, SameHeap, AppOnly
  <2>2. SameHeap
    BY <1>3, <2>1, Held, PutFlags DEF AppAck
  <2> QED
    BY <1>0, <1>3, <2>2 DEF AppAck, AppPlace, TypeOK
<1>4. CASE AppWrite
  <2> DEFINE n == Min2(fill - wrote, PipeSize - AppPipe("up"))
             p == AppPipe("up") + n
  <2>1. fill \in Nat /\ wrote \in Nat
    BY DEF TypeOK
  <2>2. n \in Nat /\ p \in 0 .. PipeSize
    BY <1>4, <2>1, Held, FileTransferAssumption DEF AppWrite, Min2
  <2>3. ctx' = [ctx EXCEPT ![appReq["up"]].pipe = p] /\ wrote' = wrote + n
    BY <1>4 DEF AppWrite, AppPipe
  <2> HIDE DEF n, p, SameHeap, AppOnly
  <2>4. SameHeap
    BY <1>4, <2>2, <2>3, Held, PutPipe DEF AppWrite
  <2> QED
    BY <1>0, <1>4, <2>1, <2>2, <2>3, <2>4 DEF AppWrite, TypeOK
<1>5. CASE AppPostEof
  <2> DEFINE f == AppFlags("up") \cup {"eof"}
  <2>1. ctx' = [ctx EXCEPT ![appReq["up"]].flags = f] /\ f \in SUBSET {"eof", "ack", "error"}
    BY <1>5, Held DEF AppPostEof, Post, AppFlags
  <2> HIDE DEF f, SameHeap, AppOnly
  <2>2. SameHeap
    BY <1>5, <2>1, Held, PutFlags DEF AppPostEof
  <2> QED
    BY <1>0, <1>5, <2>2 DEF AppPostEof, AppPlace, TypeOK
<1>6. ASSUME NEW d \in {"down", "up"}, AppError(d)
      PROVE  AppOnly
  <2> DEFINE n == IF d = "down" THEN Min2(AppChunk, AppPipe(d)) ELSE 0
             c == [pipe |-> AppPipe(d) - n, flags |-> AppFlags(d) \cup {"error"}]
  <2>1. AppPipe(d) - n \in 0 .. PipeSize
    BY <1>6, Held, FileTransferAssumption DEF AppError, Min2
  <2>2. c \in Context
    BY <1>6, <2>1, Held DEF AppError, Context
  <2>3. ctx' = [ctx EXCEPT ![appReq[d]] = c]
    BY <1>6 DEF AppError, AppPipe, AppFlags
  <2> HIDE DEF n, c, SameHeap, AppOnly
  <2>4. SameHeap
    BY <1>6, <2>2, <2>3, Held, PutContext DEF AppError
  <2> QED
    BY <1>0, <1>6, <2>4 DEF AppError, AppPlace, TypeOK
<1> QED
  BY <1>1, <1>2, <1>3, <1>4, <1>5, <1>6 DEF AppDown, AppUp

LEMMA TypeStep ==
  ASSUME IInv, [Next]_vars
  PROVE  TypeOK'
<1>1. CASE UNCHANGED vars
  BY <1>1 DEF IInv, TypeOK, vars, askVars, svcVars, curVars, bytes, appVars
<1>2. CASE OtaTake \/ OtaGive
  BY <1>2 DEF OtaTake, OtaGive, IInv, TypeOK, askVars, svcVars, curVars, bytes, appVars
<1> QED
  BY <1>1, <1>2, ControlType, ServiceType, AppSteps DEF Next, AppOnly
-----------------------------------------------------------------------------
\* The steps of a handler that only go from one place to another.
Moves ==
  \/ InitFails \/ DataFails \/ DigestFails \/ DataReady \/ HttpFails
  \/ WriteError \/ WriteTimeout \/ Received \/ DigestMismatch
  \/ ReadNothing \/ ReadError \/ ReadEnd \/ ReadAgain \/ ReadTimeout \/ Response \/ Rejected

LEMMA MovesOnly ==
  ASSUME IInv, Moves
  PROVE  /\ UNCHANGED <<askVars, svcVars, cur, sem, ctx, bytes, appVars, prompt>>
         /\ thr \in Live \cup {"init"} /\ thr' \in Transfer \ {"init", "append", "wait"}
         /\ thr' \in {"flags", "response"} => cur \in Up
         /\ thr = "init" => thr' = "reply"
         /\ thr # "init" /\ thr' = "reply" => result' = "nomem"
<1> USE DEF Ends, At, Live, Transfer
<1>1. CASE InitFails \/ DataFails \/ DigestFails \/ DataReady \/ HttpFails
  BY <1>1 DEF InitFails, DataFails, DigestFails, DataReady, HttpFails
<1>2. CASE WriteError \/ WriteTimeout \/ Received \/ DigestMismatch
  BY <1>2 DEF WriteError, WriteTimeout, Received, DigestMismatch
<1>3. CASE ReadNothing \/ ReadError \/ ReadAgain \/ ReadTimeout \/ Response \/ Rejected
  BY <1>3 DEF ReadNothing, ReadError, ReadAgain, ReadTimeout, Response, Rejected
<1>4. CASE ReadEnd
  BY <1>4 DEF ReadEnd, IInv, Requesting, Serving
<1> QED
  BY <1>1, <1>2, <1>3, <1>4 DEF Moves

-----------------------------------------------------------------------------
\* A step that leaves the service alone, and the heap as it is, keeps what is said of requests.
LEMMA RequestingKept ==
  ASSUME IInv, UNCHANGED <<asked, replies, caller, runBit, queue, lost, cur, thr, result, sem>>,
         SameHeap
  PROVE  Requesting'
<1> USE DEF IInv, Requesting
<1>1. Serving' /\ SemaphoreKept' /\ OneReply'
  BY DEF Serving, SemaphoreKept, OneReply, Waits
<1>2. \A r \in Requests : (ctx[r])' = None <=> ctx[r] = None
  BY DEF SameHeap
<1>3. Pending'
  BY <1>2 DEF Pending, Waits
<1>4. Contexts'
  <2>1. \A i \in 1 .. Len(queue) : queue[i] \in Requests
    BY DEF TypeOK
  <2>2. thr \in Live \cup {"reply", "sem", "take", "init"} => cur \in Requests
    BY DEF Serving, TypeOK, Live, Transfer
  <2> QED
    BY <1>2, <2>1, <2>2 DEF Contexts
<1>5. OnlyKnownLeaks'
  BY <1>2 DEF OnlyKnownLeaks
<1> QED
  BY <1>1, <1>3, <1>4, <1>5

\* The thread that polls and stops.
LEMMA ControlRequesting ==
  ASSUME IInv, Control
  PROVE  Requesting'
<1> USE DEF IInv, Requesting
<1>0. /\ queue \in Seq(Requests) /\ Len(queue) \in Nat
      /\ \A i \in 1 .. Len(queue) : queue[i] \in Requests
      /\ None \notin Requests
  BY FileTransferAssumption DEF TypeOK, Requests
<1>1. CASE Start
  <2>1. thr = "none" /\ cur = None
    BY <1>1 DEF Start, Serving, Transfer, TypeOK
  <2>2. queue' = <<>> /\ Len(queue') = 0
    BY <1>1 DEF Start
  <2> QED
    BY <1>1, <2>1, <2>2 DEF Start, Serving, SemaphoreKept, OneReply, Pending, Contexts, OnlyKnownLeaks, Waits,
       Transfer, Live, svcVars, curVars, askVars, appVars, bytes
<1>2. CASE StopBegin
  BY <1>2 DEF StopBegin, Serving, SemaphoreKept, OneReply, Pending, Contexts, OnlyKnownLeaks, Waits,
     svcVars, curVars, askVars
<1>3. CASE StopJoined
  <2>1. queue' = <<>> /\ Len(queue') = 0
    BY <1>3 DEF StopJoined
  <2> QED
    BY <1>3, <2>1 DEF StopJoined, Serving, SemaphoreKept, OneReply, Pending, Contexts, OnlyKnownLeaks, Waits,
       Transfer, Live, svcVars, curVars, askVars
<1>4. CASE StopTimeout
  <2>1. queue' = <<>> /\ Len(queue') = 0
    BY <1>4 DEF StopTimeout
  <2>2. Serving' /\ SemaphoreKept'
    BY <1>4 DEF StopTimeout, Serving, SemaphoreKept, Transfer
  <2>3. Pending' /\ OneReply' /\ Contexts'
    BY <1>0, <1>4, <2>1 DEF StopTimeout, Pending, OneReply, Contexts, Waits, Live, Transfer, askVars
  <2>4. OnlyKnownLeaks'
    <3>1. thr \in Transfer \/ cur = None \/ ctx[cur] = None
      BY DEF Serving, Contexts
    <3> QED
      BY <1>0, <1>4, <3>1 DEF StopTimeout, OnlyKnownLeaks, askVars
  <2> QED
    BY <2>2, <2>3, <2>4
<1>5. ASSUME NEW r \in Requests, Refuse(r)
      PROVE  Requesting'
  <2>1. replies[r] = <<>> /\ ctx[r] = None /\ ~Waits(r) /\ r # cur
    BY <1>5 DEF Refuse, Pending, Waits
  <2>2. replies' = [replies EXCEPT ![r] = <<"error">>]
    BY <1>5, <2>1 DEF Refuse
  <2>3. Serving' /\ SemaphoreKept' /\ Contexts'
    BY <1>5 DEF Refuse, Serving, SemaphoreKept, Contexts, svcVars, curVars
  <2>4. OneReply'
    BY <1>5, <2>1, <2>2 DEF Refuse, OneReply, Waits, svcVars, curVars, TypeOK
  <2>5. Pending'
    BY <1>5, <2>2 DEF Refuse, Pending, Waits, svcVars, curVars, TypeOK
  <2>6. OnlyKnownLeaks'
    BY <1>5, <2>1, <2>2 DEF Refuse, OnlyKnownLeaks, svcVars, curVars, TypeOK
  <2> QED
    BY <2>3, <2>4, <2>5, <2>6
<1>6. ASSUME NEW r \in Requests, Accept(r)
      PROVE  Requesting'
  <2>1. replies[r] = <<>> /\ ctx[r] = None /\ ~Waits(r) /\ r # cur
    BY <1>6 DEF Accept, Pending, Waits
  <2>2. /\ Len(queue') = Len(queue) + 1
        /\ \A i \in 1 .. Len(queue) : queue'[i] = queue[i]
        /\ queue'[Len(queue) + 1] = r
    BY <1>0, <1>6 DEF Accept
  <2>3. \A s \in Requests : Waits(s)' => Waits(s) \/ s = r
    BY <1>0, <1>6, <2>2 DEF Waits, Accept, curVars
  <2>4. Serving' /\ SemaphoreKept'
    BY <1>6 DEF Accept, Serving, SemaphoreKept, curVars
  <2>5. OneReply'
    BY <1>6, <2>1, <2>3 DEF Accept, OneReply
  <2>6. \A i \in 1 .. Len(queue) : queue[i] # r
    BY <2>1 DEF Waits
  <2>7. Pending'
    <3>1. \A s \in Requests \ asked' : replies'[s] = <<>> /\ ctx'[s] = None /\ ~Waits(s)'
      BY <1>6, <2>3 DEF Accept, Pending
    <3>2. \A i, j \in 1 .. Len(queue') : queue'[i] = queue'[j] => i = j
      BY <1>0, <2>2, <2>6 DEF Pending
    <3>3. \A i \in 1 .. Len(queue') : queue'[i] # cur'
      BY <1>0, <1>6, <2>1, <2>2 DEF Accept, Pending, curVars
    <3> QED
      BY <3>1, <3>2, <3>3 DEF Pending
  <2>8. Contexts'
    <3>1. \A i \in 1 .. Len(queue') : ctx'[queue'[i]] = None
      BY <1>0, <1>6, <2>1, <2>2 DEF Accept, Contexts
    <3> QED
      BY <1>6, <3>1 DEF Accept, Contexts, curVars
  <2>9. OnlyKnownLeaks'
    BY <1>6 DEF Accept, OnlyKnownLeaks, curVars
  <2> QED
    BY <2>4, <2>5, <2>7, <2>8, <2>9
<1> QED
  BY <1>1, <1>2, <1>3, <1>4, <1>5, <1>6 DEF Control

\* Up to a transfer.
LEMMA LoopRequesting ==
  ASSUME IInv, TestRunBit \/ Get \/ GetTimeout \/ TestBeforeTake \/ Take \/ TakeTimeout
  PROVE  Requesting'
<1> USE DEF IInv, Requesting, At
<1>0. /\ queue \in Seq(Requests) /\ Len(queue) \in Nat
      /\ \A i \in 1 .. Len(queue) : queue[i] \in Requests
      /\ None \notin Requests
  BY FileTransferAssumption DEF TypeOK, Requests
<1>1. CASE TestRunBit \/ GetTimeout \/ TakeTimeout
  BY <1>1 DEF TestRunBit, GetTimeout, TakeTimeout, Serving, SemaphoreKept, OneReply, Pending, Contexts,
     OnlyKnownLeaks, Waits, Transfer, Live, svcVars, askVars
<1>2. CASE Take
  BY <1>2 DEF Take, Serving, SemaphoreKept, OneReply, Pending, Contexts,
     OnlyKnownLeaks, Waits, Transfer, Live, svcVars, askVars
<1>3. CASE TestBeforeTake
  <2>1. cur # None /\ ctx[cur] = None
    BY <1>3 DEF TestBeforeTake, Serving, Contexts
  <2>2. Serving' /\ SemaphoreKept'
    BY <1>3, <2>1 DEF TestBeforeTake, Serving, SemaphoreKept, Transfer, svcVars
  <2>3. OneReply' /\ Pending' /\ OnlyKnownLeaks'
    BY <1>0, <1>3, <2>1 DEF TestBeforeTake, OneReply, Pending, OnlyKnownLeaks, Waits, svcVars, askVars
  <2>4. Contexts'
    BY <1>3, <2>1 DEF TestBeforeTake, Contexts, Live, svcVars
  <2> QED
    BY <2>2, <2>3, <2>4
<1>4. CASE Get
  <2>1. /\ Len(queue) > 0 /\ cur' = queue[1] /\ cur' \in Requests
        /\ Len(queue') = Len(queue) - 1
        /\ \A i \in 1 .. Len(queue') : queue'[i] = queue[i + 1]
    BY <1>0, <1>4 DEF Get
  <2>2. \A s \in Requests : Waits(s)' => Waits(s)
    <3>1. ASSUME NEW i \in 1 .. Len(queue')
          PROVE  i + 1 \in 1 .. Len(queue) /\ queue'[i] = queue[i + 1]
      BY <1>0, <2>1
    <3>2. 1 \in 1 .. Len(queue)
      BY <1>0, <2>1
    <3> QED
      BY <2>1, <3>1, <3>2 DEF Waits
  <2>3. cur = None /\ thr' = "sem" /\ thr = "get"
    BY <1>4 DEF Get, Serving, Transfer
  <2>4. Serving' /\ SemaphoreKept'
    BY <1>0, <1>4, <2>1, <2>3 DEF Get, Serving, SemaphoreKept, Transfer
  <2>5. OneReply'
    BY <1>4, <2>2 DEF Get, OneReply, askVars
  <2>6. Pending'
    <3>1. \A s \in Requests \ asked' : replies'[s] = <<>> /\ ctx'[s] = None /\ ~Waits(s)'
      BY <1>4, <2>2 DEF Get, Pending, askVars
    <3>2. \A i, j \in 1 .. Len(queue') : queue'[i] = queue'[j] => i = j
      BY <1>0, <2>1, SMTT(40) DEF Pending
    <3>3. \A i \in 1 .. Len(queue') : queue'[i] # cur'
      BY <1>0, <2>1 DEF Pending
    <3> QED
      BY <3>1, <3>2, <3>3 DEF Pending
  <2>7. Contexts'
    <3>1. ctx'[cur'] = None /\ \A i \in 1 .. Len(queue') : ctx'[queue'[i]] = None
      BY <1>0, <1>4, <2>1 DEF Get, Contexts
    <3> QED
      BY <2>3, <3>1 DEF Contexts, Live
  <2>8. OnlyKnownLeaks'
    BY <1>0, <1>4, <2>3 DEF Get, OnlyKnownLeaks, askVars
  <2> QED
    BY <2>4, <2>5, <2>6, <2>7, <2>8
<1> QED
  BY <1>1, <1>2, <1>3, <1>4

\* The handlers.
LEMMA HandlerRequesting ==
  ASSUME IInv, TypeOK', Handler
  PROVE  Requesting'
<1> USE DEF IInv, Requesting, At
<1>0. /\ queue \in Seq(Requests) /\ Len(queue) \in Nat
      /\ \A i \in 1 .. Len(queue) : queue[i] \in Requests
      /\ None \notin Requests
  BY FileTransferAssumption, SMTT(40) DEF TypeOK, Requests
<1>1. CASE Moves
  <2>1. /\ UNCHANGED <<asked, replies, caller, runBit, queue, lost, cur, sem, ctx>>
        /\ thr \in Live \cup {"init"} /\ thr' \in Transfer \ {"init", "append", "wait"}
        /\ thr' \in {"flags", "response"} => cur \in Up
        /\ thr = "init" => thr' = "reply"
        /\ thr # "init" /\ thr' = "reply" => result' = "nomem"
    BY <1>1, MovesOnly DEF askVars, svcVars
  <2>2. Serving' /\ SemaphoreKept'
    BY <2>1 DEF Serving, SemaphoreKept, Transfer, Live
  <2>3. OneReply' /\ Pending' /\ OnlyKnownLeaks'
    BY <2>1 DEF OneReply, Pending, OnlyKnownLeaks, Waits
  <2>4. Contexts'
    BY <2>1 DEF Contexts, Live, Transfer
  <2> QED
    BY <2>2, <2>3, <2>4
<1>2. ASSUME SameHeap, UNCHANGED <<askVars, svcVars, cur, sem>>, thr \in Live, thr' \in Live,
             thr' \in {"append", "wait"} => cur \in Down, thr' \in {"flags", "response"} => cur \in Up
      PROVE  Requesting'
  <2>1. \A r \in Requests : (ctx[r])' = None <=> ctx[r] = None
    BY <1>2 DEF SameHeap
  <2>2. cur \in Requests
    BY <1>2, Served DEF Live, Transfer
  <2>3. Serving' /\ SemaphoreKept'
    BY <1>2 DEF Serving, SemaphoreKept, Transfer, Live, svcVars
  <2>4. OneReply' /\ Pending' /\ OnlyKnownLeaks'
    BY <1>2, <2>1 DEF OneReply, Pending, OnlyKnownLeaks, Waits, svcVars, askVars
  <2>5. Contexts'
    BY <1>0, <1>2, <2>1, <2>2 DEF Contexts, Live, svcVars
  <2> QED
    BY <2>3, <2>4, <2>5
<1>3. CASE Chunk
  <2>1. SameHeap
    BY <1>3 DEF Chunk, SameHeap, TypeOK
  <2> QED
    BY <1>2, <1>3, <2>1 DEF Chunk, Live
<1>4. CASE WriteAppend
  BY <1>2, <1>4, WriteAppendPuts DEF WriteAppend, Live
<1>5. CASE ReadChunk
  BY <1>2, <1>5, ReadChunkPuts DEF ReadChunk, Live, curVars
<1>6. CASE Finish /\ cur \in Down
  <2> DEFINE f == ctx[cur].flags \cup {"eof"}
  <2>1. cur \in Requests /\ ctx[cur] # None /\ thr \in Live
    BY <1>6, Served DEF Finish, Transfer, Live
  <2>2. f \in SUBSET {"eof", "ack", "error"} /\ ctx' = [ctx EXCEPT ![cur].flags = f] /\ thr' = "wait"
    <3>1. cur \notin Up
      BY <1>6, FileTransferAssumption
    <3> QED
      BY <1>6, <2>1, <3>1, ContextParts DEF Finish
  <2> HIDE DEF f
  <2>3. SameHeap
    BY <2>1, <2>2, PutFlags
  <2> QED
    BY <1>2, <1>6, <2>1, <2>2, <2>3 DEF Finish, Live
<1>7. CASE FileInit
  <2> DEFINE c == [pipe |-> 0, flags |-> {}]
  <2>1. cur \in Requests /\ c # None
    BY <1>7, Served, FileTransferAssumption DEF FileInit, Transfer, Context
  <2>2. ctx' = [ctx EXCEPT ![cur] = c]
    BY <1>7 DEF FileInit
  <2> HIDE DEF c
  <2>3. ctx'[cur] # None /\ \A r \in Requests \ {cur} : ctx'[r] = ctx[r]
    BY <2>1, <2>2 DEF TypeOK
  <2>4. Serving' /\ SemaphoreKept' /\ OneReply' /\ OnlyKnownLeaks'
    BY <1>7, <2>3 DEF FileInit, Serving, SemaphoreKept, OneReply, OnlyKnownLeaks, Waits, Transfer, svcVars, askVars
  <2>5. cur \in asked
    BY <2>1 DEF Pending, Waits
  <2>6. Pending'
    BY <1>7, <2>3, <2>5 DEF FileInit, Pending, Waits, svcVars, askVars
  <2>7. \A i \in 1 .. Len(queue) : ctx'[queue[i]] = None
    BY <1>0, <2>3 DEF Pending, Contexts
  <2>8. Contexts'
    BY <1>7, <2>3, <2>7 DEF FileInit, Contexts, Live, svcVars
  <2> QED
    BY <2>4, <2>6, <2>8
<1>8. CASE Free \/ (Finish /\ cur \notin Down)
  <2>1. /\ ctx' = [ctx EXCEPT ![cur] = None] /\ thr' = "reply" /\ thr \in Live
        /\ UNCHANGED <<askVars, svcVars, cur, result, sem>>
    BY <1>8 DEF Free, Finish, Live
  <2>2. cur \in Requests
    BY <2>1, Served DEF Live, Transfer
  <2>3. ctx'[cur] = None /\ \A r \in Requests \ {cur} : ctx'[r] = ctx[r]
    BY <2>1, <2>2 DEF TypeOK
  <2>4. Serving' /\ SemaphoreKept' /\ OneReply' /\ OnlyKnownLeaks'
    BY <2>1, <2>3 DEF Serving, SemaphoreKept, OneReply, OnlyKnownLeaks, Waits, Transfer, Live, svcVars, askVars
  <2>5. Pending'
    BY <2>1, <2>3 DEF Pending, Waits, svcVars, askVars
  <2>6. \A i \in 1 .. Len(queue) : ctx'[queue[i]] = None
    BY <1>0, <2>3 DEF Contexts
  <2>7. Contexts'
    BY <2>1, <2>3, <2>6 DEF Contexts, Live, svcVars
  <2> QED
    BY <2>4, <2>5, <2>7
<1>9. CASE Reply
  <2>1. /\ thr = "reply" /\ thr' = "test" /\ cur' = None /\ sem' = "free" /\ ctx' = ctx
        /\ UNCHANGED <<asked, svcVars, result>>
    BY <1>9 DEF Reply
  <2>2. cur \in Requests /\ lost = {}
    BY <2>1, Served DEF Transfer, Serving
  <2>3. replies[cur] = <<>> /\ cur \in asked
    BY <2>2 DEF OneReply, Waits, Pending
  <2>4. replies' = [replies EXCEPT ![cur] = <<result>>]
    BY <1>9, <2>3 DEF Reply
  <2>5. replies'[cur] = <<result>> /\ \A r \in Requests \ {cur} : replies'[r] = replies[r]
    BY <2>2, <2>4 DEF TypeOK
  <2>6. Serving' /\ SemaphoreKept' /\ Contexts'
    BY <2>1, <2>2 DEF Serving, SemaphoreKept, Contexts, Transfer, Live, svcVars
  <2>7. \A r \in Requests : Waits(r)' => Waits(r) /\ r # cur
    BY <1>0, <2>1, <2>2 DEF Waits, Pending, svcVars
  <2>8. OneReply' /\ Pending'
    <3>1. \A r \in Requests : Len(replies'[r]) <= 1 /\ (Waits(r)' => replies'[r] = <<>>)
      <4>1. Len(<<result>>) <= 1
        OBVIOUS
      <4>2. ASSUME NEW r \in Requests, Waits(r)'
            PROVE  replies'[r] = <<>>
        BY <2>5, <2>7, <4>2 DEF OneReply
      <4> QED
        BY <2>5, <4>1, <4>2 DEF OneReply
    <3>2. Pending'
      BY <1>0, <2>1, <2>3, <2>5, <2>7 DEF Pending, svcVars
    <3> QED
      BY <3>1, <3>2 DEF OneReply
  <2>9. OnlyKnownLeaks'
    BY <2>1, <2>2, <2>5 DEF OnlyKnownLeaks, Contexts, svcVars
  <2> QED
    BY <2>6, <2>8, <2>9
<1> QED
  BY <1>1, <1>3, <1>4, <1>5, <1>6, <1>7, <1>8, <1>9 DEF Handler, Moves

LEMMA RequestingStep ==
  ASSUME IInv, TypeOK', [Next]_vars
  PROVE  Requesting'
<1>1. CASE UNCHANGED vars
  <2>1. SameHeap
    BY <1>1 DEF SameHeap, IInv, TypeOK, vars
  <2> QED
    BY <1>1, <2>1, RequestingKept DEF vars, askVars, svcVars, curVars
<1>2. CASE OtaTake \/ OtaGive
  BY <1>2 DEF OtaTake, OtaGive, IInv, Requesting, Serving, SemaphoreKept, Pending, OneReply, Contexts,
     OnlyKnownLeaks, Waits, askVars, svcVars, curVars
<1>3. CASE AppDown \/ AppUp \/ AppError("down") \/ AppError("up")
  BY <1>3, AppSteps, RequestingKept DEF AppOnly, askVars, svcVars, curVars
<1> QED
  BY <1>1, <1>2, <1>3, ControlRequesting, LoopRequesting, HandlerRequesting DEF Next, ServiceThread
-----------------------------------------------------------------------------
\* A step that touches no stream, and enters a transfer at its start or not at all.
LEMMA StreamingKept ==
  ASSUME IInv, UNCHANGED <<ctx, app, appReq, wrote, fill, body, moved, prompt>>,
         thr' \in Transfer =>
           \/ thr \in Transfer /\ cur' = cur /\ (thr' \in Live => thr \in Live)
           \/ thr' = "init" /\ ctx[cur'] = None
  PROVE  Streaming'
<1> USE DEF IInv, Streaming
<1>1. "init" \notin Live
  BY DEF Live
<1>2. Streams' /\ SafeTeardown' /\ Counted'
  BY <1>1 DEF Streams, SafeTeardown, Counted, Holds, AppFlags, Live, Transfer
<1>3. NothingLost'
  BY DEF NothingLost, Pipe
<1> QED
  BY <1>2, <1>3

\* The streams of the two directions are apart.
LEMMA Apart ==
  ASSUME IInv
  PROVE  /\ None \notin Requests /\ Down \cap Up = {}
         /\ appReq["down"] \in Down \cup {None} /\ appReq["up"] \in Up \cup {None}
         /\ appReq["down"] # None => appReq["down"] # appReq["up"]
         /\ \A r \in Down : Way(r) = "down"
         /\ \A r \in Up : Way(r) = "up"
<1>1. None \notin Requests /\ Down \cap Up = {} /\ Streams
  BY FileTransferAssumption DEF Requests, IInv, Streaming
<1> QED
  BY <1>1 DEF Streams, Way, Requests

\* The application.
LEMMA AppStreaming ==
  ASSUME IInv, AppDown \/ AppUp \/ AppError("down") \/ AppError("up")
  PROVE  Streaming'
<1> USE DEF AppAt
<1> TypeOK /\ Streams /\ SafeTeardown /\ Counted /\ NothingLost
  BY DEF IInv, Streaming
<1>0. /\ None \notin Requests /\ Down \cap Up = {} /\ Requests = Down \cup Up
      /\ appReq["down"] \in Down \cup {None} /\ appReq["up"] \in Up \cup {None}
      /\ thr \in Transfer => cur \in Requests
  BY Apart, Served DEF Requests
<1>a. ctx \in [Requests -> Context \cup {None}] /\ app \in [{"down", "up"} -> AppPlace] /\ moved \in Nat
      /\ fill \in Nat /\ wrote \in Nat
  BY DEF TypeOK
<1>b. /\ SameHeap
      /\ UNCHANGED <<thr, cur, body, moved, appReq, prompt>>
  BY AppSteps DEF AppOnly, curVars, bytes
<1>c. Counted'
  BY <1>b DEF Counted
<1>d. ASSUME thr \in Transfer /\ cur \in Down /\ ctx[cur] # None /\ app'["down"] # "failed" =>
               app["down"] # "failed" /\ fill' + ctx'[cur].pipe = fill + ctx[cur].pipe,
             thr \in Transfer /\ cur \in Up /\ ctx[cur] # None /\ app'["up"] # "failed" =>
               app["up"] # "failed" /\ wrote' - ctx'[cur].pipe = wrote - ctx[cur].pipe
      PROVE  NothingLost'
  <2>1. SUFFICES ASSUME thr \in Transfer, ctx[cur] # None, app'[Way(cur)] # "failed"
                 PROVE  IF cur \in Down THEN moved = fill' + ctx'[cur].pipe /\ moved <= body
                        ELSE wrote' = moved + ctx'[cur].pipe
    BY <1>0, <1>b DEF NothingLost, Pipe, SameHeap, Way
  <2>2. ctx[cur].pipe \in Nat /\ ctx'[cur].pipe \in Nat /\ fill \in Nat /\ wrote \in Nat
    BY <1>0, <1>a, <1>b, <2>1 DEF TypeOK, SameHeap, Context
  <2>3. TypeOK'
    BY AppSteps DEF AppOnly
  <2>4. fill' \in Nat /\ wrote' \in Nat
    BY <2>3 DEF TypeOK
  <2>5. CASE cur \in Down
    BY <1>0, <1>a, <1>d, <2>1, <2>2, <2>4, <2>5 DEF NothingLost, Pipe, Way
  <2>6. CASE cur \notin Down
    BY <1>0, <1>a, <1>d, <2>1, <2>2, <2>4, <2>6 DEF NothingLost, Pipe, Way
  <2> QED
    BY <2>5, <2>6
<1>1. CASE AppRead
  <2> DEFINE n == Min2(AppChunk, AppPipe("down"))
             r == appReq["down"]
             p == AppPipe("down") - n
  <2>1. /\ r \in Down /\ ctx[r] # None /\ app["down"] = "io" /\ app' = [app EXCEPT !["down"] = "eof"]
        /\ ctx' = [ctx EXCEPT ![r].pipe = p] /\ fill' = fill + n /\ wrote' = wrote
    BY <1>0, <1>1 DEF AppRead, AppPipe, Holds
  <2>2. n \in Nat /\ p \in Nat /\ ctx[r].pipe = p + n /\ fill \in Nat
    BY <1>1, <1>a, Held, FileTransferAssumption DEF AppRead, Min2, AppPipe
  <2> HIDE DEF n, p
  <2>3. /\ ctx'[r].pipe = p /\ ctx'[r].flags = ctx[r].flags
        /\ \A s \in Requests \ {r} : ctx'[s] = ctx[s]
    BY <1>0, <1>a, <2>1, ContextParts DEF Context
  <2>4. Streams' /\ SafeTeardown'
    BY <1>0, <1>b, <2>1, <2>3 DEF Streams, SafeTeardown, SameHeap, Holds, AppFlags, AppAlive, AppPlace
  <2>5. thr \in Transfer /\ cur \in Down /\ ctx[cur] # None => cur = r
    BY DEF Streams, Way
  <2>6. NothingLost'
    BY <1>0, <1>d, <2>1, <2>2, <2>3, <2>5
  <2> QED
    BY <1>c, <2>4, <2>6 DEF Streaming
<1>2. CASE AppTestEof \/ AppWritten \/ AppStray("down") \/ AppStray("up")
  <2>1. /\ ctx' = ctx /\ fill' = fill /\ wrote' = wrote
        /\ \E d \in {"down", "up"} : app[d] \in AppAlive /\ \E a \in AppPlace : app' = [app EXCEPT ![d] = a]
    BY <1>2 DEF AppTestEof, AppWritten, AppStray, AppAlive, AppPlace
  <2>2. Streams' /\ SafeTeardown'
    <3>1. CASE AppTestEof
      BY <1>a, <1>b, <2>1, <3>1 DEF AppTestEof, Streams, SafeTeardown, Holds, AppFlags, AppAlive
    <3>2. CASE AppWritten \/ AppStray("up")
      BY <1>a, <1>b, <2>1, <3>2 DEF AppWritten, AppStray, Streams, SafeTeardown, Holds, AppFlags, AppAlive
    <3>3. CASE AppStray("down")
      BY <1>a, <1>b, <2>1, <3>3 DEF AppStray, Streams, SafeTeardown, Holds, AppFlags, AppAlive
    <3> QED
      BY <1>2, <3>1, <3>2, <3>3
  <2>3. app["down"] = "failed" => app'["down"] = "failed"
    BY <1>a, <2>1 DEF AppAlive
  <2>4. app["up"] = "failed" => app'["up"] = "failed"
    BY <1>a, <2>1 DEF AppAlive
  <2>5. NothingLost'
    BY <1>d, <2>1, <2>3, <2>4
  <2> QED
    BY <1>c, <2>2, <2>5 DEF Streaming
<1>3. CASE AppAck
  <2> DEFINE r == appReq["down"]
             f == AppFlags("down") \cup {"ack"}
  <2>1. /\ r \in Down /\ ctx[r] # None /\ app["down"] = "ack" /\ app' = [app EXCEPT !["down"] = "done"]
        /\ ctx' = [ctx EXCEPT ![r].flags = f] /\ fill' = fill /\ wrote' = wrote
    BY <1>0, <1>3 DEF AppAck, Post, AppFlags, Holds
  <2> HIDE DEF f
  <2>2. /\ ctx'[r].pipe = ctx[r].pipe
        /\ \A s \in Requests \ {r} : ctx'[s] = ctx[s]
    BY <1>0, <1>a, <2>1, ContextParts DEF Context
  <2>3. Streams' /\ SafeTeardown'
    BY <1>0, <1>a, <1>b, <2>1, <2>2 DEF Streams, SafeTeardown, SameHeap, Holds, AppFlags, AppAlive, AppPlace
  <2>4. NothingLost'
    BY <1>0, <1>a, <1>d, <2>1, <2>2
  <2> QED
    BY <1>c, <2>3, <2>4 DEF Streaming
<1>4. CASE AppWrite
  <2> DEFINE n == Min2(fill - wrote, PipeSize - AppPipe("up"))
             r == appReq["up"]
             p == AppPipe("up") + n
  <2>1. /\ r \in Up /\ ctx[r] # None /\ app["up"] = "io" /\ app' = app
        /\ ctx' = [ctx EXCEPT ![r].pipe = p] /\ wrote' = wrote + n /\ fill' = fill
    BY <1>0, <1>4 DEF AppWrite, AppPipe, Holds
  <2>2. n \in Nat /\ p \in Nat /\ ctx[r].pipe \in Nat /\ p = ctx[r].pipe + n
    BY <1>4, <1>a, Held, FileTransferAssumption DEF AppWrite, Min2, AppPipe
  <2> HIDE DEF n, p
  <2>3. /\ ctx'[r].pipe = p /\ ctx'[r].flags = ctx[r].flags
        /\ \A s \in Requests \ {r} : ctx'[s] = ctx[s]
    BY <1>0, <1>a, <2>1, ContextParts DEF Context
  <2>4. Streams' /\ SafeTeardown'
    BY <1>0, <1>b, <2>1, <2>3 DEF Streams, SafeTeardown, SameHeap, Holds, AppFlags, AppAlive, AppPlace
  <2>5. thr \in Transfer /\ cur \in Up /\ ctx[cur] # None => cur = r
    BY <1>0 DEF Streams, Way
  <2>6. NothingLost'
    BY <1>0, <1>a, <1>d, <2>1, <2>2, <2>3, <2>5
  <2> QED
    BY <1>c, <2>4, <2>6 DEF Streaming
<1>5. CASE AppPostEof
  <2> DEFINE r == appReq["up"]
             f == AppFlags("up") \cup {"eof"}
  <2>1. /\ r \in Up /\ ctx[r] # None /\ app["up"] = "eof" /\ app' = [app EXCEPT !["up"] = "done"]
        /\ ctx' = [ctx EXCEPT ![r].flags = f] /\ fill' = fill /\ wrote' = wrote
    BY <1>0, <1>5 DEF AppPostEof, Post, AppFlags, Holds
  <2> HIDE DEF f
  <2>2. /\ ctx'[r].pipe = ctx[r].pipe
        /\ \A s \in Requests \ {r} : ctx'[s] = ctx[s]
    BY <1>0, <1>a, <2>1, ContextParts DEF Context
  <2>3. Streams' /\ SafeTeardown'
    BY <1>0, <1>a, <1>b, <2>1, <2>2 DEF Streams, SafeTeardown, SameHeap, Holds, AppFlags, AppAlive, AppPlace
  <2>4. NothingLost'
    BY <1>0, <1>a, <1>d, <2>1, <2>2
  <2> QED
    BY <1>c, <2>3, <2>4 DEF Streaming
<1>6. ASSUME NEW d \in {"down", "up"}, AppError(d)
      PROVE  Streaming'
  <2> DEFINE n == IF d = "down" THEN Min2(AppChunk, AppPipe(d)) ELSE 0
             r == appReq[d]
             c == [pipe |-> AppPipe(d) - n, flags |-> AppFlags(d) \cup {"error"}]
  <2>1. /\ r \in Requests /\ ctx[r] # None /\ app[d] = "io" /\ app' = [app EXCEPT ![d] = "failed"]
        /\ ctx' = [ctx EXCEPT ![r] = c] /\ fill' = fill /\ wrote' = wrote
        /\ d = "down" => r \in Down
        /\ d = "up" => r \in Up
    BY <1>0, <1>6 DEF AppError, Holds, AppPipe, AppFlags
  <2>2. c.flags = ctx[r].flags \cup {"error"}
    BY DEF AppFlags
  <2> HIDE DEF c
  <2>3. ctx'[r] = c /\ \A s \in Requests \ {r} : ctx'[s] = ctx[s]
    BY <1>a, <2>1
  <2>4. Streams' /\ SafeTeardown'
    <3>1. CASE d = "down"
      BY <1>0, <1>a, <1>b, <2>1, <2>2, <2>3, <3>1 DEF Streams, SafeTeardown, SameHeap, Holds, AppFlags, AppAlive
    <3>2. CASE d = "up"
      BY <1>0, <1>a, <1>b, <2>1, <2>2, <2>3, <3>2 DEF Streams, SafeTeardown, SameHeap, Holds, AppFlags, AppAlive
    <3> QED
      BY <3>1, <3>2
  <2>5. NothingLost'
    <3>1. CASE d = "down"
      BY <1>0, <1>a, <1>d, <2>1, <2>3, <3>1
    <3>2. CASE d = "up"
      BY <1>0, <1>a, <1>d, <2>1, <2>3, <3>2
    <3> QED
      BY <3>1, <3>2
  <2> QED
    BY <1>c, <2>4, <2>5 DEF Streaming
<1> QED
  BY <1>1, <1>2, <1>3, <1>4, <1>5, <1>6 DEF AppDown, AppUp

\* The handlers.
LEMMA HandlerStreaming ==
  ASSUME IInv, Handler
  PROVE  Streaming'
<1> USE DEF At
<1> TypeOK /\ Streams /\ SafeTeardown /\ Counted /\ NothingLost
  BY DEF IInv, Streaming
<1>0. /\ None \notin Requests /\ Down \cap Up = {} /\ Requests = Down \cup Up
      /\ appReq["down"] \in Down \cup {None} /\ appReq["up"] \in Up \cup {None}
  BY Apart DEF Requests
<1>a. /\ ctx \in [Requests -> Context \cup {None}] /\ app \in [{"down", "up"} -> AppPlace]
      /\ body \in Nat /\ moved \in Nat /\ fill \in Nat /\ wrote \in Nat
  BY DEF TypeOK
<1>1. CASE Moves
  BY <1>1, MovesOnly, StreamingKept DEF bytes, appVars, Live, Transfer
<1>2. CASE Reply
  BY <1>2, StreamingKept DEF Reply, bytes, appVars, Transfer
<1>3. CASE Chunk
  <2>1. /\ thr \in Live /\ thr' \in Live /\ cur' = cur /\ ctx' = ctx /\ body' \in body + 1 .. size /\ moved' = moved
        /\ app' = app /\ appReq' = appReq /\ wrote' = wrote /\ fill' = fill /\ prompt' = prompt
    BY <1>3 DEF Chunk, Live, appVars
  <2>2. body' \in Nat /\ body <= body'
    BY <1>a, <2>1 DEF TypeOK
  <2>3. Counted'
    BY <1>a, <2>1, <2>2 DEF Counted
  <2>4. Streams' /\ SafeTeardown'
    BY <2>1 DEF Streams, SafeTeardown, Holds, AppFlags, Live, Transfer
  <2>5. NothingLost'
    BY <1>a, <2>1, <2>2 DEF NothingLost, Pipe, Live, Transfer
  <2> QED
    BY <2>3, <2>4, <2>5 DEF Streaming
<1>4. CASE WriteAppend
  <2> DEFINE n == Min2(body - moved, PipeSize - Pipe)
             p == Pipe + n
  <2>1. SameHeap /\ cur \in Down /\ thr \in Live /\ n \in 0 .. body - moved /\ p = Pipe + n /\ Pipe \in Nat
    BY <1>4, WriteAppendPuts
  <2>2. /\ cur' = cur /\ ctx' = [ctx EXCEPT ![cur].pipe = p] /\ moved' = moved + n /\ body' = body
        /\ app' = app /\ appReq' = appReq /\ wrote' = wrote /\ fill' = fill /\ prompt' = prompt
        /\ thr' \in Live
    BY <1>4, WriteAppendPuts DEF WriteAppend, appVars, Live
  <2> HIDE DEF n, p
  <2>3. ctx[cur] # None /\ moved <= body
    BY <2>1, Served DEF Live, Transfer, Counted
  <2>4. /\ ctx'[cur].pipe = p /\ ctx'[cur].flags = ctx[cur].flags
        /\ \A s \in Requests \ {cur} : ctx'[s] = ctx[s]
    BY <1>0, <1>a, <2>1, <2>2, <2>3, ContextParts DEF Context
  <2>5. moved' <= body'
    BY <1>a, <2>1, <2>2, <2>3
  <2>6. Counted'
    BY <2>5 DEF Counted
  <2>7. Streams' /\ SafeTeardown'
    BY <1>0, <2>1, <2>2, <2>4 DEF Streams, SafeTeardown, SameHeap, Holds, AppFlags, Live, Transfer
  <2>8. NothingLost'
    <3>1. app["down"] # "failed" => moved = fill + Pipe
      BY <1>0, <2>1, <2>3 DEF NothingLost, Way, Live, Transfer
    <3>2. app["down"] # "failed" => moved' = fill' + p
      BY <1>a, <2>1, <2>2, <3>1
    <3> QED
      BY <2>1, <2>2, <2>4, <2>5, <3>2 DEF NothingLost, Pipe, Way
  <2> QED
    BY <2>6, <2>7, <2>8 DEF Streaming
<1>5. CASE ReadChunk
  <2>1. SameHeap /\ cur \in Up /\ cur \notin Down /\ thr \in Live /\ Pipe \in Nat
    BY <1>0, <1>5, ReadChunkPuts
  <2>2. /\ thr' = thr /\ cur' = cur /\ ctx' = [ctx EXCEPT ![cur].pipe = 0] /\ moved' = moved + Pipe
        /\ app' = app /\ appReq' = appReq /\ wrote' = wrote /\ fill' = fill /\ prompt' = prompt
    BY <1>5 DEF ReadChunk, appVars, curVars
  <2>3. ctx[cur] # None
    BY <2>1, Served DEF Live, Transfer
  <2>4. /\ ctx'[cur].pipe = 0 /\ ctx'[cur].flags = ctx[cur].flags
        /\ \A s \in Requests \ {cur} : ctx'[s] = ctx[s]
    BY <1>0, <1>a, <2>1, <2>2, <2>3, ContextParts DEF Context
  <2>5. Counted'
    BY <2>1, <2>2 DEF Counted
  <2>6. Streams' /\ SafeTeardown'
    BY <1>0, <2>1, <2>2, <2>4 DEF Streams, SafeTeardown, SameHeap, Holds, AppFlags, Live, Transfer
  <2>7. NothingLost'
    <3>1. app["up"] # "failed" => wrote = moved + Pipe
      BY <1>0, <2>1, <2>3 DEF NothingLost, Way, Live, Transfer
    <3>2. app["up"] # "failed" => wrote' = moved' + 0
      BY <1>a, <2>1, <2>2, <3>1
    <3> QED
      BY <2>1, <2>2, <2>4, <3>2 DEF NothingLost, Pipe, Way
  <2> QED
    BY <2>5, <2>6, <2>7 DEF Streaming
<1>6. CASE Finish /\ cur \in Down
  <2> DEFINE f == ctx[cur].flags \cup {"eof"}
  <2>1. /\ thr = "end" /\ thr' = "wait" /\ cur' = cur /\ ctx' = [ctx EXCEPT ![cur].flags = f]
        /\ UNCHANGED <<bytes, appVars, prompt>>
    BY <1>0, <1>6 DEF Finish
  <2>2. ctx[cur] # None
    BY <2>1, Served DEF Live, Transfer
  <2>3. /\ ctx'[cur].pipe = ctx[cur].pipe /\ ctx'[cur].flags = f /\ ctx'[cur] # None
        /\ \A s \in Requests \ {cur} : ctx'[s] = ctx[s]
    <3>1. f \in SUBSET {"eof", "ack", "error"} /\ cur \in Requests
      BY <1>0, <1>6, <2>2, ContextParts
    <3> HIDE DEF f
    <3>2. SameHeap
      BY <2>1, <2>2, <3>1, PutFlags
    <3> QED
      BY <1>a, <2>1, <2>2, <3>1, <3>2, ContextParts DEF Context, SameHeap
  <2>4. Counted'
    BY <2>1 DEF Counted, bytes, Live
  <2>5. Streams' /\ SafeTeardown'
    BY <1>0, <2>1, <2>2, <2>3 DEF Streams, SafeTeardown, Holds, AppFlags, Transfer, appVars
  <2>6. NothingLost'
    BY <1>6, <2>1, <2>2, <2>3 DEF NothingLost, Pipe, Way, Transfer, bytes, appVars
  <2> QED
    BY <2>4, <2>5, <2>6 DEF Streaming
<1>7. CASE FileInit
  <2> DEFINE c == [pipe |-> 0, flags |-> {}]
  <2>1. cur \in Requests /\ c # None /\ c.pipe = 0 /\ c.flags = {}
    BY <1>7, Served, FileTransferAssumption DEF FileInit, Transfer, Context
  <2>2. /\ cur' = cur /\ ctx' = [ctx EXCEPT ![cur] = c] /\ thr' = "data" /\ thr = "init"
        /\ app' = [app EXCEPT ![Way(cur)] = "io"] /\ appReq' = [appReq EXCEPT ![Way(cur)] = cur]
        /\ body' = 0 /\ moved' = 0 /\ prompt' = prompt
        /\ cur \in Down => fill' = 0
        /\ cur \in Up => wrote' = 0
    BY <1>0, <1>7 DEF FileInit
  <2> HIDE DEF c
  <2>3. ctx'[cur] = c /\ \A s \in Requests \ {cur} : ctx'[s] = ctx[s]
    BY <1>a, <2>1, <2>2
  <2>4. Counted' /\ NothingLost'
    BY <1>0, <2>1, <2>2, <2>3 DEF Counted, NothingLost, Pipe
  <2>5. appReq \in [{"down", "up"} -> Requests \cup {None}]
    BY DEF TypeOK
  <2>6. Streams' /\ SafeTeardown'
    <3>1. CASE cur \in Down
      BY <1>0, <1>a, <2>1, <2>2, <2>3, <2>5, <3>1 DEF Streams, SafeTeardown, Holds, AppFlags, Way, AppAlive
    <3>2. CASE cur \in Up
      BY <1>0, <1>a, <2>1, <2>2, <2>3, <2>5, <3>2 DEF Streams, SafeTeardown, Holds, AppFlags, Way, AppAlive
    <3> QED
      BY <1>0, <2>1, <3>1, <3>2
  <2> QED
    BY <2>4, <2>6 DEF Streaming
<1>8. CASE Free \/ (Finish /\ cur \notin Down)
  <2>1. /\ ctx' = [ctx EXCEPT ![cur] = None] /\ thr' = "reply" /\ thr \in Live
        /\ cur' = cur /\ UNCHANGED <<bytes, appVars, prompt>>
    BY <1>8 DEF Free, Finish, Live
  <2>2. cur \in Requests /\ ctx[cur] # None
    BY <2>1, Served DEF Live, Transfer
  <2>3. ctx'[cur] = None /\ \A r \in Requests \ {cur} : ctx'[r] = ctx[r]
    BY <1>a, <2>1, <2>2
  <2>4. Counted' /\ NothingLost'
    BY <2>1, <2>3 DEF Counted, NothingLost, Live
  <2>5. appReq[Way(cur)] = cur
    BY <2>1, <2>2 DEF Streams, Live, Transfer
  <2>6. prompt /\ cur \in Down => app["down"] \notin AppAlive
    <3>1. CASE Free
      BY <2>2, <2>5, <3>1 DEF Free, Streams, Flags, AppFlags, Holds, Way, Overdue, AppAlive, Requests
    <3> QED
      BY <1>8, <3>1
  <2>7. Streams' /\ SafeTeardown'
    BY <1>0, <2>1, <2>2, <2>3, <2>5, <2>6 DEF Streams, SafeTeardown, Holds, AppFlags, Way, Transfer, appVars
  <2> QED
    BY <2>4, <2>7 DEF Streaming
<1> QED
  BY <1>1, <1>2, <1>3, <1>4, <1>5, <1>6, <1>7, <1>8 DEF Handler, Moves

LEMMA StreamingStep ==
  ASSUME IInv, [Next]_vars
  PROVE  Streaming'
<1>1. CASE UNCHANGED vars
  BY <1>1, StreamingKept DEF vars, curVars, bytes, appVars
<1>2. CASE OtaTake \/ OtaGive
  BY <1>2, StreamingKept DEF OtaTake, OtaGive, curVars, bytes, appVars
<1>3. CASE Control
  <2>1. CASE Start \/ StopBegin \/ StopJoined \/ StopTimeout
    BY <2>1, StreamingKept DEF Start, StopBegin, StopJoined, StopTimeout, curVars, bytes, appVars, Transfer
  <2>2. CASE \E r \in Requests : Refuse(r) \/ Accept(r)
    BY <2>2, StreamingKept DEF Refuse, Accept, curVars, bytes, appVars
  <2> QED
    BY <1>3, <2>1, <2>2 DEF Control
<1>4. CASE TestRunBit \/ Get \/ GetTimeout \/ TestBeforeTake \/ TakeTimeout
  BY <1>4, StreamingKept DEF TestRunBit, Get, GetTimeout, TestBeforeTake, TakeTimeout, At, bytes, appVars, Transfer
<1>5. CASE Take
  <2>1. ctx[cur] = None
    BY <1>5 DEF Take, At, IInv, Requesting, Contexts
  <2> QED
    BY <1>5, <2>1, StreamingKept DEF Take, At, bytes, appVars
<1> QED
  BY <1>1, <1>2, <1>3, <1>4, <1>5, HandlerStreaming, AppStreaming DEF Next, ServiceThread
-----------------------------------------------------------------------------
\* Every reachable state satisfies the inductive invariant.
THEOREM Inductive == Spec => []IInv
<1>1. Init => IInv
  BY InitInv
<1>2. IInv /\ [Next]_vars => IInv'
  BY TypeStep, RequestingStep, StreamingStep DEF IInv
<1> QED
  BY <1>1, <1>2, PTL DEF Spec

\* Types, and the queue within its bound.
THEOREM TypeCorrect == Spec => []TypeOK
<1>1. IInv => TypeOK
  BY DEF IInv
<1> QED
  BY <1>1, Inductive, PTL

\* The service holds the semaphore exactly while it transfers, or a stop aborted it there:
\* a transfer and an update exclude each other, and no path to the exit keeps it (core.c).
THEOREM Exclusion == Spec => []SemaphoreKept
<1>1. IInv => SemaphoreKept
  BY DEF IInv, Requesting
<1> QED
  BY <1>1, Inductive, PTL

\* No request gets two responses, and none has one while it is queued or served.
THEOREM OneAnswer == Spec => []OneReply
<1>1. IInv => OneReply
  BY DEF IInv, Requesting
<1> QED
  BY <1>1, Inductive, PTL

\* Whatever the pipe, the chunks and the interleaving, the pipe loses no byte (stream.c).
THEOREM NoByteLost == Spec => []NothingLost
<1>1. IInv => NothingLost
  BY DEF IInv, Streaming
<1> QED
  BY <1>1, Inductive, PTL

\* The library never frees a download under an application that keeps its deadlines.
THEOREM Teardown == Spec => []SafeTeardown
<1>1. IInv => SafeTeardown
  BY DEF IInv, Streaming
<1> QED
  BY <1>1, Inductive, PTL

\* A context leaks in the two known cases only.
THEOREM NoLeak == Spec => []OnlyKnownLeaks
<1>1. IInv => OnlyKnownLeaks
  BY DEF IInv, Requesting
<1> QED
  BY <1>1, Inductive, PTL
=============================================================================
