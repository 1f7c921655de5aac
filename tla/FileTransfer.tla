---------------------------- MODULE FileTransfer ----------------------------
(***************************************************************************)
(* The file transfer service of lib/edgehog_device/file_transfer: the      *)
(* thread that polls, stops and feeds the service (core.c), the service    *)
(* thread with the handlers of both directions (download.c, upload.c), the *)
(* stream backend (stream.c), and the threads of an application at the     *)
(* other end of a stream, as in samples/edgehog_app.                       *)
(*                                                                         *)
(* The bytes of a file are counted, as a pipe neither loses nor reorders   *)
(* them. A step is what a thread does from one call on shared state (pipe, *)
(* event, queue, semaphore, RUN bit, heap) to the next.                    *)
(***************************************************************************)
EXTENDS Integers, Sequences

CONSTANTS
  Down, Up,      \* requests of the server: server to device, device to server
  None,          \* no request, no context
  Sizes,         \* the bytes that an HTTP response may bring
  QueueLen,      \* EDGEHOG_DEVICE_FILE_TRANSFER_QUEUE_SIZE
  PipeSize,      \* STREAM_PIPE_BUFFER_SIZE
  AppChunk,      \* CHUNK_SIZE of the application
  Faults,        \* may memory, the network, a digest or the application fail?
  StopTimeouts   \* does the application stop the device with a finite timeout?

\* What there is on the heap for a stream.
Context == [pipe : 0 .. PipeSize, flags : SUBSET {"eof", "ack", "error"}]

ASSUME FileTransferAssumption ==
  /\ Down \cap Up = {} /\ None \notin Down \cup Up \cup Context
  /\ Sizes \subseteq Nat /\ Sizes # {}
  /\ QueueLen \in Nat \ {0} /\ PipeSize \in Nat \ {0} /\ AppChunk \in Nat \ {0}
  /\ Faults \in BOOLEAN /\ StopTimeouts \in BOOLEAN

VARIABLES
  asked,    \* the requests that arrived
  replies,  \* the responses sent for each
  caller,   \* the thread that polls and stops the device: ready, or joining
  runBit,   \* THREAD_RUNNING_BIT
  queue,    \* msgq
  thr,      \* where the service thread is
  cur,      \* msg_rcv
  result,   \* of the transfer: errno and message of its response
  sem,      \* sync_ota_ft_sem: free, or who took it
  ctx,      \* the stream contexts on the heap: bytes in the pipe, flags of the event
  size,     \* bytes the response will bring, or that the application announced
  body,     \* bytes received of the response
  moved,    \* bytes the library wrote to the pipe, or read from it
  app,      \* where the two stream threads of the application are
  appReq,   \* whose pipe and event they hold
  wrote,    \* total_written of the upload thread
  fill,     \* file_buffer_fill_level
  \* Environment and history.
  prompt,   \* the application is never kept from running for two seconds
  lost      \* the requests whose transfer edgehog_ft_stop aborted

askVars == <<asked, replies>>
svcVars == <<caller, runBit, queue, lost>>
curVars == <<thr, cur, result>>
bytes   == <<size, body, moved>>
appVars == <<app, appReq, wrote, fill>>
vars == <<askVars, svcVars, curVars, sem, ctx, bytes, appVars, prompt>>

Requests == Down \cup Up
Min2(a, b) == IF a < b THEN a ELSE b

Transfer   == {"init", "data", "http", "append", "flags", "response", "end", "wait", "reply"}
Place      == {"none", "test", "get", "sem", "take"} \cup Transfer
AppAlive   == {"io", "eof", "ack"}
AppPlace   == {"none", "done", "failed", "stray"} \cup AppAlive
Way(r)     == IF r \in Down THEN "down" ELSE "up"

Init ==
  /\ asked = {} /\ replies = [r \in Requests |-> <<>>]
  /\ caller = "ready" /\ runBit = FALSE /\ queue = <<>> /\ lost = {}
  /\ thr = "none" /\ cur = None /\ result = "ok" /\ sem = "free"
  /\ ctx = [r \in Requests |-> None]
  /\ size = 0 /\ body = 0 /\ moved = 0
  /\ app = [d \in {"down", "up"} |-> "none"] /\ appReq = [d \in {"down", "up"} |-> None]
  /\ wrote = 0 /\ fill = 0
  /\ prompt \in BOOLEAN

(***************************************************************************)
(* The thread that polls and stops the device.                             *)
(***************************************************************************)
Start ==
  /\ caller = "ready" /\ ~runBit
  /\ runBit' = TRUE /\ thr' = "test" /\ queue' = <<>>
  /\ UNCHANGED <<askVars, caller, lost, cur, result, sem, ctx, bytes, appVars, prompt>>

\* The service does not run, or its queue is full: the failure is the response.
Refuse(r) ==
  /\ caller = "ready" /\ r \notin asked
  /\ ~runBit \/ Len(queue) = QueueLen
  /\ asked' = asked \cup {r} /\ replies' = [replies EXCEPT ![r] = Append(@, "error")]
  /\ UNCHANGED <<svcVars, curVars, sem, ctx, bytes, appVars, prompt>>

\* Mutant: the queue takes as much as comes.
AcceptAlways(r) ==
  /\ caller = "ready" /\ r \notin asked /\ runBit
  /\ asked' = asked \cup {r} /\ queue' = Append(queue, r)
  /\ UNCHANGED <<replies, caller, runBit, lost, curVars, sem, ctx, bytes, appVars, prompt>>

\* Mutant: a request that is queued runs on into the failure response.
AcceptAnswers(r) ==
  /\ caller = "ready" /\ r \notin asked
  /\ runBit /\ Len(queue) < QueueLen
  /\ asked' = asked \cup {r} /\ queue' = Append(queue, r)
  /\ replies' = [replies EXCEPT ![r] = Append(@, "error")]
  /\ UNCHANGED <<caller, runBit, lost, curVars, sem, ctx, bytes, appVars, prompt>>

Accept(r) ==
  /\ caller = "ready" /\ r \notin asked
  /\ runBit /\ Len(queue) < QueueLen
  /\ asked' = asked \cup {r} /\ queue' = Append(queue, r)
  /\ UNCHANGED <<replies, caller, runBit, lost, curVars, sem, ctx, bytes, appVars, prompt>>

StopBegin ==
  /\ caller = "ready" /\ runBit
  /\ runBit' = FALSE /\ caller' = "join"
  /\ UNCHANGED <<askVars, queue, lost, curVars, sem, ctx, bytes, appVars, prompt>>

StopJoined ==
  /\ caller = "join" /\ thr = "none"
  /\ queue' = <<>> /\ caller' = "ready"
  /\ UNCHANGED <<askVars, runBit, lost, curVars, sem, ctx, bytes, appVars, prompt>>

\* k_thread_abort leaves the semaphore taken and the context allocated.
StopTimeout ==
  /\ StopTimeouts /\ caller = "join" /\ thr # "none"
  /\ thr' = "none" /\ cur' = None /\ queue' = <<>> /\ caller' = "ready"
  /\ lost' = IF thr \in Transfer THEN lost \cup {cur} ELSE lost
  /\ UNCHANGED <<askVars, runBit, result, sem, ctx, bytes, appVars, prompt>>

Control ==
  \/ Start \/ StopBegin \/ StopJoined \/ StopTimeout
  \/ \E r \in Requests : Refuse(r) \/ Accept(r)

(***************************************************************************)
(* The service thread up to a transfer.                                    *)
(***************************************************************************)
At(here, there) == thr = here /\ thr' = there

TestRunBit ==
  /\ At("test", IF runBit THEN "get" ELSE "none")
  /\ UNCHANGED <<askVars, svcVars, cur, result, sem, ctx, bytes, appVars, prompt>>

Get ==
  /\ At("get", "sem") /\ queue # <<>>
  /\ cur' = Head(queue) /\ queue' = Tail(queue)
  /\ UNCHANGED <<askVars, caller, runBit, lost, result, sem, ctx, bytes, appVars, prompt>>

GetTimeout ==
  /\ At("get", "test") /\ queue = <<>>
  /\ UNCHANGED <<askVars, svcVars, cur, result, sem, ctx, bytes, appVars, prompt>>

\* Mutant: the RUN bit is not tested again before the wait.
NoTestBeforeTake ==
  /\ At("sem", "take")
  /\ UNCHANGED <<askVars, svcVars, cur, result, sem, ctx, bytes, appVars, prompt>>

\* A thread stopped while it waits destroys the message that it popped, and ends.
TestBeforeTake ==
  /\ At("sem", IF runBit THEN "take" ELSE "none")
  /\ cur' = IF runBit THEN cur ELSE None
  /\ UNCHANGED <<askVars, svcVars, result, sem, ctx, bytes, appVars, prompt>>

Take ==
  /\ At("take", "init") /\ sem = "free"
  /\ sem' = "ft"
  /\ UNCHANGED <<askVars, svcVars, cur, result, ctx, bytes, appVars, prompt>>

\* Mutant: a request that waited for the semaphore in vain is dropped.
TakeOnce ==
  /\ At("take", "test") /\ sem # "free"
  /\ cur' = None
  /\ UNCHANGED <<askVars, svcVars, result, sem, ctx, bytes, appVars, prompt>>

TakeTimeout ==
  /\ At("take", "sem") /\ sem # "free"
  /\ UNCHANGED <<askVars, svcVars, cur, result, sem, ctx, bytes, appVars, prompt>>

(***************************************************************************)
(* Both handlers: the context, the data of the HTTP callbacks, the request.*)
(***************************************************************************)
\* The transfer goes on at there with the response res.
Ends(here, there, res) ==
  /\ At(here, there) /\ result' = res
  /\ UNCHANGED <<askVars, svcVars, cur, sem, ctx, bytes, appVars, prompt>>

\* No memory, or the application refuses the stream.
InitFails == Faults /\ Ends("init", "reply", "error")

\* The application starts its thread, over one that may still run. The first thing the
\* download thread does is to empty the file buffer.
FileInit ==
  /\ At("init", "data")
  /\ ctx' = [ctx EXCEPT ![cur] = [pipe |-> 0, flags |-> {}]]
  /\ app' = [app EXCEPT ![Way(cur)] = "io"] /\ appReq' = [appReq EXCEPT ![Way(cur)] = cur]
  /\ body' = 0 /\ moved' = 0
  /\ \/ cur \in Down /\ size' \in Sizes /\ fill' = 0 /\ UNCHANGED wrote
     \/ cur \in Up /\ size' = fill /\ wrote' = 0 /\ UNCHANGED fill
  /\ UNCHANGED <<askVars, svcVars, cur, result, sem, prompt>>

\* Without memory for the HTTP callbacks the handler jumps to its exit: no file_abort.
DataFails == Faults /\ Ends("data", "reply", "nomem")

\* Mutant: a digest that cannot be set up jumps to the exit like a lack of memory.
DigestNoAbort == Faults /\ cur \in Down /\ Ends("data", "reply", "error")

DigestFails == Faults /\ cur \in Down /\ Ends("data", "end", "error")

DataReady == Ends("data", "http", "ok")

HttpFails == Faults /\ Ends("http", "end", "error")

(***************************************************************************)
(* Server to device: chunks of the response go into the pipe.              *)
(***************************************************************************)
Pipe  == ctx[cur].pipe
Flags == ctx[cur].flags

\* A wait of two seconds for the application ends without it.
Overdue == prompt => app[Way(cur)] \notin AppAlive

Chunk ==
  /\ At("http", "append") /\ cur \in Down /\ body < size
  /\ body' \in body + 1 .. size
  /\ UNCHANGED <<askVars, svcVars, cur, result, sem, ctx, size, moved, appVars, prompt>>

\* Mutant: the pipe is taken to have accepted the whole chunk.
WriteWhole ==
  /\ thr = "append" /\ "error" \notin Flags /\ Pipe < PipeSize
  /\ ctx' = [ctx EXCEPT ![cur].pipe = @ + Min2(body - moved, PipeSize - Pipe)]
  /\ moved' = body /\ thr' = "http"
  /\ UNCHANGED <<askVars, svcVars, cur, result, sem, size, body, appVars, prompt>>

\* One round of the loop of write_append: as much of the chunk as the pipe holds.
WriteAppend ==
  LET n == Min2(body - moved, PipeSize - Pipe) IN
  /\ thr = "append" /\ "error" \notin Flags /\ Pipe < PipeSize
  /\ ctx' = [ctx EXCEPT ![cur].pipe = @ + n] /\ moved' = moved + n
  /\ thr' = IF moved + n = body THEN "http" ELSE "append"
  /\ UNCHANGED <<askVars, svcVars, cur, result, sem, size, body, appVars, prompt>>

WriteError == Ends("append", "end", "error") /\ "error" \in Flags

WriteTimeout ==
  /\ Ends("append", "end", "error")
  /\ "error" \notin Flags /\ Pipe = PipeSize /\ Overdue

Received == cur \in Down /\ body = size /\ Ends("http", "end", "ok")

DigestMismatch == Faults /\ cur \in Down /\ body = size /\ Ends("http", "end", "error")

(***************************************************************************)
(* Device to server: what comes out of the pipe goes into the request.     *)
(***************************************************************************)
ReadChunk ==
  /\ thr = "http" /\ cur \in Up /\ Pipe > 0
  /\ moved' = moved + Pipe /\ ctx' = [ctx EXCEPT ![cur].pipe = 0]
  /\ UNCHANGED <<askVars, svcVars, curVars, sem, size, body, appVars, prompt>>

\* The pipe is empty; the flags are tested after that.
ReadNothing == Ends("http", "flags", "ok") /\ cur \in Up /\ Pipe = 0

ReadError == Ends("flags", "end", "error") /\ "error" \in Flags

ReadEnd == Ends("flags", "response", "ok") /\ "error" \notin Flags /\ "eof" \in Flags

ReadAgain == Ends("flags", "http", "ok") /\ Flags \cap {"error", "eof"} = {}

ReadTimeout ==
  /\ Ends("flags", "end", "error")
  /\ Flags \cap {"error", "eof"} = {} /\ Overdue

\* The server answers once it has the length that was announced, and waits in vain for more
\* than there is.
Response == Ends("response", "end", IF moved >= size THEN "ok" ELSE "error")

Rejected == Faults /\ Ends("response", "end", "error")

(***************************************************************************)
(* Both: complete or abort the stream, respond, give the semaphore back.   *)
(***************************************************************************)
\* Mutant: the context is freed at once in both directions.
FinishAtOnce ==
  /\ At("end", "reply") /\ ctx' = [ctx EXCEPT ![cur] = None]
  /\ UNCHANGED <<askVars, svcVars, cur, result, sem, bytes, appVars, prompt>>

\* Mutant: write_abort does not post EOF.
FinishSilent ==
  /\ \/ cur \in Down /\ At("end", "wait")
        /\ ctx' = IF result = "ok" THEN [ctx EXCEPT ![cur].flags = @ \cup {"eof"}] ELSE ctx
     \/ cur \in Up /\ At("end", "reply") /\ ctx' = [ctx EXCEPT ![cur] = None]
  /\ UNCHANGED <<askVars, svcVars, cur, result, sem, bytes, appVars, prompt>>

\* write_complete and write_abort post EOF and wait for the ACK; the other direction frees
\* its context at once.
Finish ==
  /\ \/ cur \in Down /\ At("end", "wait")
        /\ ctx' = [ctx EXCEPT ![cur].flags = @ \cup {"eof"}]
     \/ cur \in Up /\ At("end", "reply") /\ ctx' = [ctx EXCEPT ![cur] = None]
  /\ UNCHANGED <<askVars, svcVars, cur, result, sem, bytes, appVars, prompt>>

\* The result of waiting is not looked at.
Free ==
  /\ At("wait", "reply")
  /\ "ack" \in Flags \/ Overdue
  /\ ctx' = [ctx EXCEPT ![cur] = None]
  /\ UNCHANGED <<askVars, svcVars, cur, result, sem, bytes, appVars, prompt>>

\* Mutant: a failed transfer leaves without giving the semaphore back.
ReplyKeeps ==
  /\ At("reply", "test")
  /\ replies' = [replies EXCEPT ![cur] = Append(@, result)]
  /\ cur' = None /\ sem' = IF result = "ok" THEN "free" ELSE sem
  /\ UNCHANGED <<asked, svcVars, result, ctx, bytes, appVars, prompt>>

Reply ==
  /\ At("reply", "test")
  /\ replies' = [replies EXCEPT ![cur] = Append(@, result)]
  /\ cur' = None /\ sem' = "free"
  /\ UNCHANGED <<asked, svcVars, result, ctx, bytes, appVars, prompt>>

Handler ==
  \/ InitFails \/ FileInit \/ DataFails \/ DigestFails \/ DataReady \/ HttpFails
  \/ Chunk \/ WriteAppend \/ WriteError \/ WriteTimeout \/ Received \/ DigestMismatch
  \/ ReadChunk \/ ReadNothing \/ ReadError \/ ReadEnd \/ ReadAgain \/ ReadTimeout \/ Response
  \/ Rejected \/ Finish \/ Free \/ Reply

ServiceThread ==
  \/ TestRunBit \/ Get \/ GetTimeout \/ TestBeforeTake \/ Take \/ TakeTimeout \/ Handler

(***************************************************************************)
(* The application. AppPipe(d) and AppFlags(d) are what its thread of      *)
(* direction d holds; when they are freed under it, nothing is said of     *)
(* what it does next: it is "stray" until the next thread replaces it.     *)
(***************************************************************************)
AppPipe(d)  == ctx[appReq[d]].pipe
AppFlags(d) == ctx[appReq[d]].flags
Holds(d)    == appReq[d] # None /\ ctx[appReq[d]] # None

AppAt(d, here, there) ==
  /\ app[d] = here /\ app' = [app EXCEPT ![d] = there]
  /\ UNCHANGED <<askVars, svcVars, curVars, sem, bytes, appReq, prompt>>

Post(d, flag) == ctx' = [ctx EXCEPT ![appReq[d]].flags = @ \cup {flag}]

\* The flag is tested after each read, whatever is left in the pipe.
AppRead ==
  LET n == Min2(AppChunk, AppPipe("down")) IN
  /\ AppAt("down", "io", "eof") /\ Holds("down")
  /\ ctx' = [ctx EXCEPT ![appReq["down"]].pipe = @ - n] /\ fill' = fill + n
  /\ UNCHANGED wrote

AppTestEof ==
  /\ Holds("down")
  /\ AppAt("down", "eof", IF "eof" \in AppFlags("down") THEN "ack" ELSE "io")
  /\ UNCHANGED <<ctx, wrote, fill>>

AppAck ==
  /\ Holds("down") /\ AppAt("down", "ack", "done") /\ Post("down", "ack")
  /\ UNCHANGED <<wrote, fill>>

AppWrite ==
  LET n == Min2(fill - wrote, PipeSize - AppPipe("up")) IN
  /\ app["up"] = "io" /\ Holds("up") /\ wrote < fill /\ AppPipe("up") < PipeSize
  /\ ctx' = [ctx EXCEPT ![appReq["up"]].pipe = @ + n] /\ wrote' = wrote + n
  /\ UNCHANGED <<askVars, svcVars, curVars, sem, bytes, app, appReq, fill, prompt>>

AppWritten ==
  /\ AppAt("up", "io", "eof") /\ wrote >= fill
  /\ UNCHANGED <<ctx, wrote, fill>>

AppPostEof ==
  /\ Holds("up") /\ AppAt("up", "eof", "done") /\ Post("up", "eof")
  /\ UNCHANGED <<wrote, fill>>

\* The file is larger than file_buffer, or its source fails. The sample reads the chunk that
\* does not fit before it finds out.
AppError(d) ==
  /\ Faults /\ Holds(d) /\ AppAt(d, "io", "failed")
  /\ LET n == IF d = "down" THEN Min2(AppChunk, AppPipe(d)) ELSE 0 IN
       /\ d = "down" => n > 0
       /\ ctx' = [ctx EXCEPT ![appReq[d]] =
                     [pipe |-> @.pipe - n, flags |-> @.flags \cup {"error"}]]
  /\ UNCHANGED <<wrote, fill>>

AppStray(d) ==
  /\ ~Holds(d) /\ app[d] \in AppAlive
  /\ ~(d = "up" /\ app[d] = "io" /\ wrote >= fill)
  /\ AppAt(d, app[d], "stray")
  /\ UNCHANGED <<ctx, wrote, fill>>

AppDown == AppRead \/ AppTestEof \/ AppAck \/ AppStray("down")
AppUp   == AppWrite \/ AppWritten \/ AppPostEof \/ AppStray("up")

\* The OTA thread shares the semaphore.
OtaTake ==
  /\ sem = "free" /\ sem' = "ota"
  /\ UNCHANGED <<askVars, svcVars, curVars, ctx, bytes, appVars, prompt>>

OtaGive ==
  /\ sem = "ota" /\ sem' = "free"
  /\ UNCHANGED <<askVars, svcVars, curVars, ctx, bytes, appVars, prompt>>

Next ==
  \/ Control \/ ServiceThread
  \/ AppDown \/ AppUp \/ AppError("down") \/ AppError("up")
  \/ OtaTake \/ OtaGive

Spec == Init /\ [][Next]_vars

(***************************************************************************)
(* The scheduler runs every thread, waits have timeouts, and a join        *)
(* returns once the thread has ended. Nothing is asked of the server, of   *)
(* the OTA or of the network: a request fails when they do not answer.     *)
(***************************************************************************)
Fairness ==
  /\ WF_vars(ServiceThread) /\ WF_vars(AppDown) /\ WF_vars(AppUp)
  /\ WF_vars(StopJoined)

FairSpec == Spec /\ Fairness

(***************************************************************************)
(* Properties.                                                             *)
(***************************************************************************)
TypeOK ==
  /\ asked \subseteq Requests /\ replies \in [Requests -> Seq({"ok", "error", "nomem"})]
  /\ caller \in {"ready", "join"} /\ runBit \in BOOLEAN
  /\ queue \in Seq(Requests) /\ Len(queue) <= QueueLen
  /\ thr \in Place /\ cur \in Requests \cup {None} /\ result \in {"ok", "error", "nomem"}
  /\ sem \in {"free", "ota", "ft"}
  /\ ctx \in [Requests -> Context \cup {None}]
  /\ size \in Nat /\ body \in Nat /\ moved \in Nat
  /\ app \in [{"down", "up"} -> AppPlace]
  /\ appReq \in [{"down", "up"} -> Requests \cup {None}]
  /\ wrote \in Nat /\ fill \in Nat
  /\ prompt \in BOOLEAN /\ lost \subseteq Requests

\* A transfer runs only with the semaphore that keeps the OTA out, and on every path to the
\* exit the semaphore comes back, unless a stop aborted the thread (core.c:348-371).
SemaphoreKept == sem = "ft" <=> (thr \in Transfer \/ lost # {})

\* The request r is in the queue or is served.
Waits(r) == r = cur \/ (\E i \in 1 .. Len(queue) : queue[i] = r)

\* A request gets one response at most, and none while it waits or is served, whichever of
\* the two threads sends it (core.c:277-325, and the exits of both handlers).
OneReply ==
  \A r \in Requests :
    /\ Len(replies[r]) <= 1
    /\ Waits(r) => replies[r] = <<>>

\* No byte is lost or counted twice between the response, the pipe and the buffer of the
\* application, over partial writes and reads (stream.c:147-189, 264-280).
NothingLost ==
  thr \in Transfer /\ cur # None /\ ctx[cur] # None /\ app[Way(cur)] # "failed" =>
    IF cur \in Down THEN moved = fill + Pipe /\ moved <= body
    ELSE wrote = moved + Pipe

\* If the application runs at least every two seconds, the context of a download is never
\* freed while its thread still uses the pipe or the event (stream.c:191-217).
SafeTeardown == prompt => app["down"] # "stray"

\* A context lives no longer than its transfer, on every path through the handlers, except
\* that it leaks when the HTTP data could not be allocated or a stop aborted the thread.
OnlyKnownLeaks ==
  \A r \in Requests :
    ctx[r] # None => r = cur \/ replies[r] = <<"nomem">> \/ r \in lost

\* When no update takes the semaphore any more, and no stop aborted the thread that held it,
\* every accepted request gets its response unless the service is stopped (core.c:342-373).
Answered ==
  <>[](sem # "ota") =>
    \A r \in Requests : Waits(r) ~> (replies[r] # <<>> \/ ~runBit \/ lost # {})

\* A stop without a limit ends, even while an OTA keeps the semaphore: the comment of
\* core.c:345 asks for it.
StopEnds == caller = "join" ~> caller = "ready"

\* The download thread of the application is told about the end of its stream in each case,
\* complete or aborted, unless the context leaked.
ReaderEnds ==
  \A r \in Down :
    appReq["down"] = r /\ app["down"] \in AppAlive
      ~> appReq["down"] # r \/ app["down"] \notin AppAlive
           \/ r \in lost \/ replies[r] = <<"nomem">>

\* The library frees the context of an upload only when the application is done with it
\* (doc/features/File Transfer.md: the ACK flag exists "so the library can safely tear down
\* memory").
SafeUploadTeardown == prompt => app["up"] # "stray"
=============================================================================
