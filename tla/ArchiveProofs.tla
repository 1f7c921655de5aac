---------------------------- MODULE ArchiveProofs ----------------------------
(***************************************************************************)
(* Theorems of Archive, for any requests, contents, trees, chunks and      *)
(* block sizes, with the faults and without.                               *)
(***************************************************************************)
EXTENDS Archive, SequenceTheorems, FiniteSetTheorems, NaturalsInduction, WellFoundedInduction,
        TLAPS

\* Before there is data for the HTTP callbacks, while there is, and afterwards.
Early == {"asked", "init", "readinit", "data"}
Busy  == {"digest", "request", "http", "chunk", "got", "complete", "abort",
          "put", "pack", "send", "answer"}
Late  == {"destroy", "reply", "end"}

\* Each of the two handlers keeps to its places.
Ways ==
  /\ at \in Early \cup Busy \cup Late
  /\ {"way", "encoding"} \subseteq DOMAIN req /\ req.way \in {"down", "up"}
  /\ at \in {"init", "digest", "http", "chunk", "got"} => req.way = "down"
  /\ at \in {"readinit", "put", "pack", "send", "answer"} => req.way = "up"

\* The work item lives in the data.
Owned ==
  /\ at \in Early => data = "none" /\ work = "idle"
  /\ at \in Busy => data = "live"
  /\ work = "queued" => data = "live"
  /\ at \in {"reply", "end"} => work = "idle"

\* No error before the abort, one behind it, and none behind a completion.
NoError == errno = "0" /\ eres = "OK"
Answers ==
  /\ errno \in Errnos
  /\ code # "none" <=> at = "end"
  /\ told => at \in Late /\ NoError
  /\ at \in Early \cup (Busy \ {"abort"}) => NoError
  /\ at = "abort" => ~NoError
  /\ at \in {"destroy", "reply"} => (NoError => told)
  /\ at = "end" => (told <=> code = "0")

\* Who still has a file context, open files or directories.
Released ==
  /\ at \in {"asked", "init", "readinit"} => ~ctx
  /\ at \in Late /\ ctx => errno = "ENOSR"
  /\ req.way = "down" /\ at \in {"asked", "init"} => open = Absent
  /\ req.way = "down" /\ at \in Late /\ open # Absent => errno = "ENOSR"
  /\ req.way = "up" /\ at \in {"asked", "readinit"} => reads = Absent /\ walk = <<>>
  /\ req.way = "up" /\ at \in Late /\ (reads # Absent \/ walk # <<>>) => errno = "ENOSR"

\* Who still has a hash operation or a decompression context.
Coded ==
  /\ hash => req.way = "down" /\ at \in {"request", "http", "chunk", "got", "abort"}
  /\ decomp => /\ req.way = "down" /\ req.encoding = "lz4" /\ ~told
               /\ at \in {"http", "chunk", "abort"} \cup Late
               /\ at \in {"abort"} \cup Late => hurt

\* What is at the destination.
Placed ==
  /\ req.way = "up" => disk = Nothing /\ open = Absent /\ before = "absent" /\ root = "absent"
  /\ at \in {"asked", "init"} => disk = Nothing /\ root = before
  /\ at \in Late /\ ~told => disk = Nothing \/ kept
  /\ before \in {"crowded", "file"} =>
       root = before /\ disk = Nothing /\ ~told /\ at \in {"asked", "init"} \cup Late

Control == Ways /\ Owned /\ Answers /\ Released /\ Coded /\ Placed
-----------------------------------------------------------------------------
LEMMA ControlInit == Init => Control
<1> USE DEF Control, Ways, Owned, Answers, NoError, Released, Coded, Placed, Early, Busy, Late, Errnos
<1>1. ASSUME NEW s \in Downloads, DownStarts(s.req, s.content, s.mounts, s.dest) PROVE Control
  <2>1. s.req \in Request /\ s.req.way = "down"
    BY ArchiveAssumption DEF ArchiveAssumption
  <2>2. {"way", "encoding"} \subseteq DOMAIN req
    BY <1>1, <2>1 DEF DownStarts, Request
  <2> QED
    BY <1>1, <2>1, <2>2 DEF DownStarts
<1>2. ASSUME NEW s \in Uploads, UpStarts(s.req, s.tree, s.mounts), DownIdle PROVE Control
  <2>1. s.req \in Request /\ s.req.way = "up"
    BY ArchiveAssumption DEF ArchiveAssumption
  <2>2. {"way", "encoding"} \subseteq DOMAIN req
    BY <1>2, <2>1 DEF UpStarts, Request
  <2> QED
    BY <1>2, <2>1, <2>2 DEF UpStarts, DownIdle
<1> QED
  BY <1>1, <1>2 DEF Init

\* The progress of a chunk changes only the data.
LEMMA ProgressKeeps ==
  ASSUME NEW n, NEW end, UpdateProgress(n, end)
  PROVE  data' = data /\ (work' = "queued" \/ work' = work)
BY DEF UpdateProgress, dataVars

LEMMA DownStartStep ==
  ASSUME Control, CheckSize \/ WriteInitRefuses \/ WriteInitFails \/ WriteInit \/ SetupDigest,
         UNCHANGED upVars
  PROVE  Control'
<1> USE DEF Control, Ways, Owned, Answers, NoError, Released, Coded, Placed, Early, Busy, Late, Errnos,
        upVars, readVars, dataVars, codecVars, diskVars, downVars, Goto, Proceed, FailsWith
<1>1. CASE CheckSize
  BY <1>1 DEF CheckSize
<1>2. CASE WriteInitRefuses
  BY <1>2 DEF WriteInitRefuses, DestinationOk, TarDestinationOk, FileDestinationOk
<1>3. CASE WriteInitFails
  BY <1>3 DEF WriteInitFails, DestinationOk, TarDestinationOk, FileDestinationOk
<1>4. CASE WriteInit
  BY <1>4 DEF WriteInit, DestinationOk, TarDestinationOk, FileDestinationOk
<1>5. CASE SetupDigest
  BY <1>5 DEF SetupDigest
<1> QED
  BY <1>1, <1>2, <1>3, <1>4, <1>5

LEMMA HttpStep ==
  ASSUME Control, Http, UNCHANGED upVars
  PROVE  Control'
<1> USE DEF Control, Ways, Owned, Answers, NoError, Released, Coded, Placed, Early, Busy, Late, Errnos,
        upVars, readVars, dataVars, codecVars, diskVars, downVars, streamVars,
        Goto, Proceed, FailsWith, Refuse, ChunkDone
<1>1. CASE HttpConnects
  BY <1>1 DEF HttpConnects
<1>2. CASE HttpGetFails
  BY <1>2 DEF HttpGetFails, HttpRefusals
<1>3. ASSUME NEW n \in Pieces, NEW final \in BOOLEAN, Receive(n, final) PROVE Control'
  BY <1>3 DEF Receive
<1>4. CASE ReceiveFails
  BY <1>4 DEF ReceiveFails
<1>5. CASE AppendChunk
  BY <1>5, ProgressKeeps DEF AppendChunk
<1>6. CASE AppendFails
  BY <1>6 DEF AppendFails
<1>7. ASSUME NEW n \in 0 .. Len(held) + Len(chunk), DecompressFails(n) PROVE Control'
  BY <1>7 DEF DecompressFails
<1>8. ASSUME NEW n \in 0 .. Len(held) + Len(chunk), Decompress(n) PROVE Control'
  BY <1>8, ProgressKeeps DEF Decompress
<1> QED
  BY <1>1, <1>2, <1>3, <1>4, <1>5, <1>6, <1>7, <1>8 DEF Http

LEMMA UnpackStep ==
  ASSUME Control, Unpack, UNCHANGED upVars
  PROVE  Control'
<1> USE DEF Control, Ways, Owned, Answers, NoError, Released, Coded, Placed, Early, Busy, Late, Errnos,
        upVars, readVars, dataVars, downVars, streamVars, codecVars, diskVars,
        Goto, Proceed, FailsWith, Refuse, ChunkDone, Tar, InTar, TarRest, TarRefuses, ReadHeader
<1>1. CASE HeaderPart
  BY <1>1 DEF HeaderPart
<1>2. CASE HeaderOfZeros
  BY <1>2 DEF HeaderOfZeros
<1>3. CASE HeaderRefused
  BY <1>3 DEF HeaderRefused
<1>4. ASSUME NEW i \in DOMAIN content.entries, HeaderSkipped(i) PROVE Control'
  BY <1>4 DEF HeaderSkipped
<1>5. ASSUME NEW i \in DOMAIN content.entries, HeaderOpens(i) PROVE Control'
  BY <1>5 DEF HeaderOpens
<1>6. ASSUME NEW i \in DOMAIN content.entries, HeaderOpenFails(i) PROVE Control'
  BY <1>6 DEF HeaderOpenFails
<1>7. CASE ReadData
  BY <1>7 DEF ReadData
<1>8. CASE ReadDataNowhere
  BY <1>8 DEF ReadDataNowhere
<1>9. CASE ReadPadding
  BY <1>9 DEF ReadPadding
<1>10. CASE ReadPaddingRefused
  BY <1>10 DEF ReadPaddingRefused
<1>11. CASE ReadTrailer
  BY <1>11 DEF ReadTrailer
<1>12. CASE ReadTrailerRefused
  BY <1>12 DEF ReadTrailerRefused
<1>13. CASE TarChunkEnds
  BY <1>13, ProgressKeeps DEF TarChunkEnds
<1>14. CASE TarNotExhausted
  BY <1>14 DEF TarNotExhausted
<1> QED
  BY <1>1, <1>2, <1>3, <1>4, <1>5, <1>6, <1>7, <1>8, <1>9, <1>10, <1>11, <1>12, <1>13, <1>14
  DEF Unpack

LEMMA DownEndStep ==
  ASSUME Control, VerifyDigest \/ WriteComplete \/ WriteAbort, UNCHANGED upVars
  PROVE  Control'
<1> USE DEF Control, Ways, Owned, Answers, NoError, Released, Coded, Placed, Early, Busy, Late, Errnos,
        upVars, readVars, dataVars, codecVars, diskVars, histVars, Goto, Proceed, FailsWith
<1>1. CASE VerifyDigest
  BY <1>1 DEF VerifyDigest
<1>2. CASE WriteComplete
  BY <1>2 DEF WriteComplete
<1>3. CASE WriteAbort
  BY <1>3 DEF WriteAbort
<1> QED
  BY <1>1, <1>2, <1>3

LEMMA UpStartStep ==
  ASSUME Control, (\E e \in AllFiles(tree) : Change(e.name)) \/ AskRead \/ ReadInitFails \/ ReadInit,
         UNCHANGED downVars
  PROVE  Control'
<1> USE DEF Control, Ways, Owned, Answers, NoError, Released, Coded, Placed, Early, Busy, Late, Errnos,
        downVars, codecVars, diskVars, dataVars, upVars, readVars, UpGoto, UpProceed
<1>1. CASE \E e \in AllFiles(tree) : Change(e.name)
  BY <1>1 DEF Change, commonVars, histVars
<1>2. CASE AskRead
  BY <1>2 DEF AskRead
<1>3. CASE ReadInitFails
  BY <1>3 DEF ReadInitFails
<1>4. CASE ReadInit
  BY <1>4 DEF ReadInit
<1> QED
  BY <1>1, <1>2, <1>3, <1>4

LEMMA PutStep ==
  ASSUME Control, PutRefused \/ PutConnects \/ PutTar \/ PutFile \/ ReadFails, UNCHANGED downVars
  PROVE  Control'
<1> USE DEF Control, Ways, Owned, Answers, NoError, Released, Coded, Placed, Early, Busy, Late, Errnos,
        downVars, codecVars, diskVars, dataVars, upVars, readVars, UpGoto, UpProceed, PutFailsWith
<1>1. CASE PutRefused
  BY <1>1 DEF PutRefused
<1>2. CASE PutConnects
  BY <1>2 DEF PutConnects
<1>3. CASE PutTar
  BY <1>3 DEF PutTar
<1>4. CASE PutFile
  BY <1>4, ProgressKeeps DEF PutFile
<1>5. CASE ReadFails
  BY <1>5 DEF ReadFails
<1> QED
  BY <1>1, <1>2, <1>3, <1>4, <1>5

LEMMA PackStep ==
  ASSUME Control, Pack, UNCHANGED downVars
  PROVE  Control'
<1> USE DEF Control, Ways, Owned, Answers, NoError, Released, Coded, Placed, Early, Busy, Late, Errnos,
        downVars, codecVars, diskVars, dataVars, UpGoto, UpProceed, PutFailsWith, InPack,
        Entering, PackRest, PackRefuses
<1>1. CASE PackStops
  BY <1>1, ProgressKeeps DEF PackStops
<1>2. CASE Ascend \/ EnterDirectory
  BY <1>2 DEF Ascend, EnterDirectory
<1>3. CASE PassOther \/ NextFile
  BY <1>3 DEF PassOther, NextFile
<1>4. CASE EntryFails
  BY <1>4 DEF EntryFails
<1>5. CASE NoMoreFiles \/ PackTrailer
  BY <1>5 DEF NoMoreFiles, PackTrailer
<1>6. CASE PackHeader \/ PackHeaderFails
  BY <1>6 DEF PackHeader, PackHeaderFails
<1>7. CASE PackData \/ PackDataTruncated
  BY <1>7 DEF PackData, PackDataTruncated
<1>8. CASE PackPadding
  BY <1>8 DEF PackPadding
<1> QED
  BY <1>1, <1>2, <1>3, <1>4, <1>5, <1>6, <1>7, <1>8 DEF Pack

LEMMA UpEndStep ==
  ASSUME Control, \/ SendChunk \/ SendFails \/ ServerAccepts \/ ServerRefuses
                  \/ ReadComplete \/ ReadAbort,
         UNCHANGED downVars
  PROVE  Control'
<1> USE DEF Control, Ways, Owned, Answers, NoError, Released, Coded, Placed, Early, Busy, Late, Errnos,
        downVars, codecVars, diskVars, dataVars, upVars, readVars, UpGoto, UpProceed, PutFailsWith
<1>1. CASE SendChunk \/ SendFails
  BY <1>1 DEF SendChunk, SendFails
<1>2. CASE ServerAccepts \/ ServerRefuses
  BY <1>2 DEF ServerAccepts, ServerRefuses
<1>3. CASE ReadComplete
  BY <1>3 DEF ReadComplete, histVars
<1>4. CASE ReadAbort
  BY <1>4 DEF ReadAbort
<1> QED
  BY <1>1, <1>2, <1>3, <1>4

LEMMA CodeOfError ==
  ASSUME errno \in Errnos
  PROVE  ResponseCode # "none" /\ (ResponseCode = "0" <=> NoError)
<1>1. CASE errno # "0"
  BY <1>1 DEF ResponseCode, NoError, Errnos
<1>2. CASE errno = "0" /\ eres = "OK"
  BY <1>2 DEF ResponseCode, NoError
<1>3. CASE errno = "0" /\ eres # "OK"
  BY <1>3 DEF ResponseCode, NoError
<1> QED
  BY <1>1, <1>2, <1>3

\* What both handlers do.
LEMMA CommonStep ==
  ASSUME Control, DownCommon \/ UpCommon, UNCHANGED upVars, UNCHANGED downVars
  PROVE  Control'
<1> USE DEF Control, Ways, Owned, Answers, NoError, Released, Coded, Placed, Early, Busy, Late, Errnos,
        downVars, codecVars, diskVars, dataVars, histVars, upVars, readVars
<1>1. CASE RefuseRequest
  BY <1>1 DEF RefuseRequest
<1>2. CASE \/ req.way = "down" /\ DataNew("digest")
           \/ req.way = "up" /\ DataNew("request")
  BY <1>2 DEF DataNew
<1>3. CASE DataFails
  BY <1>3 DEF DataFails
<1>4. CASE DataDestroy
  BY <1>4 DEF DataDestroy
<1>5. CASE Respond
  BY <1>5, CodeOfError DEF Respond
<1>6. CASE Work
  BY <1>6 DEF Work
<1> QED
  BY <1>1, <1>2, <1>3, <1>4, <1>5, <1>6 DEF DownCommon, UpCommon

LEMMA HandoverStep == ASSUME Control, Handover PROVE Control'
<1>1. req'.way = "down" /\ DOMAIN req' = DOMAIN req /\ req'.encoding = req.encoding
  BY DEF Handover, Control, Ways
<1> QED
  BY <1>1 DEF Handover, Control, Ways, Owned, Answers, NoError, Released, Coded, Placed, Early, Busy,
     Late, Errnos, codecVars, diskVars, upVars, readVars

LEMMA ControlStep == ASSUME Control, [Next]_vars PROVE Control'
<1>1. CASE DownNext /\ UNCHANGED upVars
  <2>1. CASE DownCommon
    BY <1>1, <2>1, CommonStep DEF DownCommon
  <2> QED
    BY <1>1, <2>1, DownStartStep, HttpStep, UnpackStep, DownEndStep DEF DownNext
<1>2. CASE UpNext /\ UNCHANGED downVars
  <2>1. CASE UpCommon
    BY <1>2, <2>1, CommonStep DEF UpCommon
  <2> QED
    BY <1>2, <2>1, UpStartStep, PutStep, PackStep, UpEndStep DEF UpNext
<1>3. CASE Handover
  BY <1>3, HandoverStep
<1>4. CASE UNCHANGED vars
  BY <1>4 DEF vars, commonVars, histVars, downVars, codecVars, diskVars, dataVars, upVars, readVars,
     Control, Ways, Owned, Answers, NoError, Released, Coded, Placed, Early, Busy, Late, Errnos
<1> QED
  BY <1>1, <1>2, <1>3, <1>4 DEF Next, Rest
-----------------------------------------------------------------------------
THEOREM ControlInvariant == Spec => []Control
BY ControlInit, ControlStep, PTL DEF Spec

(***************************************************************************)
(* Whatever fails, the server gets success exactly if the application was  *)
(* told that the transfer is done; a download that failed leaves nothing   *)
(* of its own at the destination unless that is on record, and never       *)
(* touches a destination that was taken; contexts, files, directories, the *)
(* hash and the decompression are released, but for the two leaks on       *)
(* record.                                                                 *)
(***************************************************************************)
THEOREM CleanEnd == Spec => []EndsClean
<1>1. Control => EndsClean
  BY DEF Control, Ways, Owned, Answers, NoError, Released, Coded, Placed, Early, Busy, Late, Errnos,
     EndsClean, DownEndsClean, UpEndsClean
<1> QED
  BY ControlInvariant, <1>1, PTL
-----------------------------------------------------------------------------
\* An entry of the source; a directory among them can be entered.
Known == {e \in Entry : e.kind = "dir" => e.name \in DOMAIN tree.dirs}

Reading   == {"data", "request", "put", "pack", "send"}
PackState == {"next", "header", "data", "padding", "trailer", "done"}
PackRecord == [state : PackState, entry : Entry \cup {Absent}, expected : Nat,
               written : Int, padding : Int, trailer : Int]

\* What an upload reads and packs.  The numbers of the packer may be any integers here.
UpTypes ==
  /\ IsTree(tree) /\ walk \in Seq(Seq(Known))
  /\ length \in [Names -> Nat] /\ offset \in Nat
  /\ pack \in PackRecord
  /\ out \in Seq(Cell) /\ listing \in Seq(Entry)
  /\ pack.state = "header" => pack.entry \in Entry
  /\ at = "pack" => IsTar
  /\ req.way = "up" /\ at \in {"asked", "readinit"} => pack.state = "next"
  /\ req.way = "up" /\ at \in Reading /\ (~IsTar \/ pack.state \in {"header", "data"})
       => reads \in Names

\* What was transferred, reported and shown.
Counted ==
  /\ piece \in Nat
  /\ transferred \in Nat /\ reported \in Nat /\ shown \in Nat
  /\ shown <= reported /\ reported <= transferred
  /\ at \in Early => shown = 0

LEMMA FillIsSeq ==
  ASSUME NEW n \in Int, NEW f, NEW S, DOMAIN f = 1 .. n, f = [k \in 1 .. n |-> f[k]],
         \A k \in 1 .. n : f[k] \in S
  PROVE  f \in Seq(S)
<1>1. f \in [1 .. n -> S]
  OBVIOUS
<1>2. CASE n \in Nat
  BY <1>1, <1>2, SeqDef
<1>3. CASE n \notin Nat
  <2>1. 1 .. n = 1 .. 0
    BY <1>3
  <2> QED
    BY <1>1, <2>1, SeqDef
<1> QED
  BY <1>2, <1>3

LEMMA CellSeqs ==
  /\ \A n \in Int : Zeros(n) \in Seq(Cell)
  /\ \A i \in Nat : HeaderOf(i) \in Seq(Cell)
<1>1. ASSUME NEW n \in Int PROVE Zeros(n) \in Seq(Cell)
  <2>1. \A k \in 1 .. n : Zeros(n)[k] \in Cell
    BY DEF Zeros, Zero, Cell
  <2> QED
    BY <2>1, FillIsSeq DEF Zeros
<1>2. ASSUME NEW i \in Nat PROVE HeaderOf(i) \in Seq(Cell)
  <2>1. \A k \in 1 .. Block : HeaderOf(i)[k] \in Cell
    BY TransferAssumption DEF TransferAssumption, HeaderOf, Cell
  <2> QED
    BY <2>1, FillIsSeq, TransferAssumption DEF TransferAssumption, HeaderOf
<1> QED
  BY <1>1, <1>2

LEMMA ReadableBytes ==
  ASSUME UpTypes, reads \in Names, NEW n \in Int
  PROVE  /\ Readable(n) \in Int /\ (n >= 0 => Readable(n) \in Nat)
         /\ \A i \in Nat, m \in Int : BytesOf(i, m) \in Seq(Cell)
<1>1. length[reads] \in Nat /\ offset \in Nat
  BY DEF UpTypes
<1>2. Readable(n) \in Int /\ (n >= 0 => Readable(n) \in Nat)
  BY <1>1 DEF Readable, Min2
<1>3. ASSUME NEW i \in Nat, NEW m \in Int PROVE BytesOf(i, m) \in Seq(Cell)
  <2>1. \A k \in 1 .. m : BytesOf(i, m)[k] \in Cell
    BY <1>1 DEF BytesOf, Cell
  <2> QED
    BY <2>1, FillIsSeq DEF BytesOf
<1> QED
  BY <1>2, <1>3

\* What a directory of a source contains is known, and so is what the walk has before it.
LEMMA KnownDirectories ==
  ASSUME IsTree(tree)
  PROVE  \A d \in DOMAIN tree.dirs : tree.dirs[d] \in Seq(Known)
<1> SUFFICES ASSUME NEW d \in DOMAIN tree.dirs PROVE tree.dirs[d] \in Seq(Known)
  OBVIOUS
<1> DEFINE s == tree.dirs[d]
<1>1. /\ s \in Seq(Entry)
      /\ \A k \in DOMAIN s : s[k].kind = "dir" => s[k].name \in DOMAIN tree.dirs
  BY DEF IsTree
<1>2. Len(s) \in Nat /\ s \in [1 .. Len(s) -> Entry] /\ DOMAIN s = 1 .. Len(s)
  BY <1>1, LenProperties
<1>3. \A k \in 1 .. Len(s) : s[k] \in Known
  BY <1>1, <1>2 DEF Known
<1>4. s \in [1 .. Len(s) -> Known]
  BY <1>2, <1>3
<1> QED
  BY <1>2, <1>4, SeqDef

LEMMA NextEntry ==
  ASSUME UpTypes, walk # <<>>
  PROVE  /\ Front(walk) \in Seq(Seq(Known))
         /\ Deepest # <<>> => Head(Deepest) \in Known /\ Taken \in Seq(Seq(Known))
<1>1. walk \in Seq(Seq(Known)) /\ Len(walk) \in Nat \ {0}
  BY EmptySeq DEF UpTypes
<1>2. Deepest \in Seq(Known)
  BY <1>1, ElementOfSeq DEF Deepest, Last
<1>3. \A i \in 1 .. Len(walk) - 1 : walk[i] \in Seq(Known)
  BY <1>1, ElementOfSeq
<1>4. Front(walk) \in Seq(Seq(Known))
  BY <1>1, <1>3, SubSeqProperties DEF Front
<1>5. ASSUME Deepest # <<>> PROVE Head(Deepest) \in Known /\ Taken \in Seq(Seq(Known))
  <2>1. Head(Deepest) \in Known /\ Tail(Deepest) \in Seq(Known)
    BY <1>2, <1>5, HeadTailProperties
  <2>2. Taken = [walk EXCEPT ![Len(walk)] = Tail(Deepest)]
    BY DEF Taken, Deepest, Last
  <2> QED
    BY <1>1, <2>1, <2>2, ExceptSeq
<1> QED
  BY <1>4, <1>5
-----------------------------------------------------------------------------
LEMMA TypesInit == Init => UpTypes /\ Counted
<1> USE DEF PackNone, PackState, PackRecord
<1>1. ASSUME NEW s \in Downloads, DownStarts(s.req, s.content, s.mounts, s.dest), UpIdle
      PROVE  UpTypes /\ Counted
  <2>1. req.way = "down"
    BY <1>1, ArchiveAssumption DEF ArchiveAssumption, DownStarts
  <2>2. IsTree(tree) /\ AllFiles(tree) = {}
    <3>1. NoTree.type = "absent" /\ DOMAIN NoTree.dirs = {Root} /\ NoTree.dirs[Root] = <<>>
          /\ NoTree.unsplit = {}
      BY DEF NoTree
    <3>2. IsTree(NoTree)
      <4>1. <<>> \in Seq(Entry) /\ DOMAIN <<>> = {}
        OBVIOUS
      <4>2. \A d \in DOMAIN NoTree.dirs : NoTree.dirs[d] = <<>>
        BY <3>1
      <4> QED
        BY <3>1, <4>1, <4>2, FS_Singleton DEF IsTree
    <3>3. Entries(NoTree) = {}
      BY <3>1 DEF Entries, ToSet
    <3> QED
      BY <1>1, <3>2, <3>3 DEF UpIdle, AllFiles
  <2>3. length \in [Names -> Nat]
    BY <1>1, <2>2 DEF UpIdle, Sizes
  <2> QED
    BY <1>1, <2>1, <2>2, <2>3 DEF UpIdle, DownStarts, UpTypes, Counted
<1>2. ASSUME NEW s \in Uploads, UpStarts(s.req, s.tree, s.mounts), DownIdle
      PROVE  UpTypes /\ Counted
  <2>1. IsTree(tree)
    BY <1>2, ArchiveAssumption DEF ArchiveAssumption, UpStarts
  <2>2. \A e \in AllFiles(tree) : e.size \in Nat
    <3> SUFFICES ASSUME NEW d \in DOMAIN tree.dirs, NEW k \in DOMAIN tree.dirs[d]
                 PROVE  tree.dirs[d][k].size \in Nat
      BY DEF AllFiles, Entries, ToSet
    <3>1. tree.dirs[d] \in Seq(Entry)
      BY <2>1 DEF IsTree
    <3>2. tree.dirs[d][k] \in Entry
      BY <3>1, LenProperties, ElementOfSeq
    <3> QED
      BY <3>2 DEF Entry
  <2>3. length \in [Names -> Nat]
    BY <1>2, <2>2 DEF UpStarts, Sizes
  <2> QED
    BY <1>2, <2>1, <2>3 DEF UpStarts, DownIdle, UpTypes, Counted, Reading
<1> QED
  BY <1>1, <1>2 DEF Init

\* A download does not touch what an upload reads.
LEMMA DownRequest ==
  ASSUME Control, DownNext
  PROVE  req.way = "down" /\ req' = req
<1> USE DEF Control, Ways, Goto, Proceed, FailsWith, Refuse, ChunkDone, InTar, TarRest, TarRefuses,
        ReadHeader
<1>1. CASE CheckSize \/ WriteInitRefuses \/ WriteInitFails \/ WriteInit \/ SetupDigest
  BY <1>1 DEF CheckSize, WriteInitRefuses, WriteInitFails, WriteInit, SetupDigest
<1>2. CASE Http
  BY <1>2 DEF Http, HttpConnects, HttpGetFails, ReceiveFails, Receive, AppendChunk, AppendFails,
     DecompressFails, Decompress
<1>3. CASE Unpack
  BY <1>3 DEF Unpack, HeaderPart, HeaderOfZeros, HeaderRefused, HeaderSkipped, HeaderOpens,
     HeaderOpenFails, ReadData, ReadDataNowhere, ReadPadding, ReadPaddingRefused, ReadTrailer,
     ReadTrailerRefused, TarChunkEnds, TarNotExhausted
<1>4. CASE VerifyDigest \/ WriteComplete \/ WriteAbort
  BY <1>4 DEF VerifyDigest, WriteComplete, WriteAbort
<1>5. CASE DownCommon
  BY <1>5 DEF DownCommon, RefuseRequest, DataNew, DataFails, DataDestroy, Respond, Work
<1> QED
  BY <1>1, <1>2, <1>3, <1>4, <1>5 DEF DownNext

LEMMA UpTypesKept ==
  ASSUME UpTypes, UNCHANGED upVars, UNCHANGED req,
         req.way = "up" /\ at' \in Reading => at \in Reading,
         at' = "pack" => at = "pack",
         req.way = "up" /\ at' \in {"asked", "readinit"} => at \in {"asked", "readinit"}
  PROVE  UpTypes'
BY DEF UpTypes, upVars, sourceVars, readVars, packVars, IsTree, Known, IsTar

LEMMA UpTypesStart ==
  ASSUME UpTypes, Control,
         (\E e \in AllFiles(tree) : Change(e.name)) \/ AskRead \/ ReadInitFails \/ ReadInit
  PROVE  UpTypes'
<1> USE DEF UpGoto, UpProceed, Reading
<1>1. ASSUME NEW n, Change(n) PROVE UpTypes'
  <2>1. length' \in [Names -> Nat]
    BY <1>1 DEF UpTypes, Change
  <2> QED
    BY <1>1, <2>1 DEF UpTypes, Change, IsTree, Known, IsTar, readVars, packVars, commonVars
<1>2. CASE AskRead
  BY <1>2, UpTypesKept DEF AskRead
<1>3. CASE ReadInitFails
  BY <1>3, UpTypesKept DEF ReadInitFails
<1>4. CASE ReadInit
  <2>1. UNCHANGED <<tree, length, offset, pack, out, listing>> /\ req' = req /\ at' = "data"
    BY <1>4 DEF ReadInit, packVars
  <2>2. pack.state = "next"
    BY <1>4 DEF ReadInit, UpTypes, Control, Ways
  <2>3. CASE IsTar /\ walk' = <<tree.dirs[Root]>>
    <3>1. tree.dirs[Root] \in Seq(Known)
      BY KnownDirectories DEF UpTypes, IsTree
    <3>2. walk' \in Seq(Seq(Known))
      BY <2>3, <3>1
    <3> QED
      BY <2>1, <2>2, <2>3, <3>2 DEF UpTypes, IsTree, Known, IsTar
  <2>4. CASE ~IsTar /\ walk' = <<>> /\ reads' = tree.dirs[Root][1].name
    <3>1. tree.type = "file" /\ Root \in DOMAIN tree.dirs
      BY <1>4, <2>4 DEF ReadInit, SourceOk, UpTypes, IsTree
    <3>2. tree.dirs[Root] \in Seq(Entry) /\ Len(tree.dirs[Root]) = 1
      BY <3>1 DEF UpTypes, IsTree
    <3>3. tree.dirs[Root][1] \in Entry
      BY <3>2, ElementOfSeq
    <3>4. reads' \in Names
      BY <2>4, <3>3 DEF Entry
    <3> QED
      BY <2>1, <2>2, <2>4, <3>4 DEF UpTypes, IsTree, Known, IsTar
  <2> QED
    BY <1>4, <2>3, <2>4 DEF ReadInit
<1> QED
  BY <1>1, <1>2, <1>3, <1>4

\* What the variables of an upload must be after a step in the middle of it.
LEMMA Retyped ==
  ASSUME UpTypes, UNCHANGED <<tree, length, req>>, at' \notin {"asked", "readinit"},
         walk' \in Seq(Seq(Known)), offset' \in Nat,
         pack' \in PackRecord,
         out' \in Seq(Cell), listing' \in Seq(Entry),
         pack'.state = "header" => pack'.entry \in Entry,
         at' = "pack" => IsTar,
         at' \in Reading /\ (~IsTar \/ pack'.state \in {"header", "data"}) => reads' \in Names
  PROVE  UpTypes'
<1>1. Known' = Known /\ IsTar' = IsTar /\ IsTree(tree)'
  BY DEF Known, IsTar, UpTypes, IsTree
<1>2. (walk \in Seq(Seq(Known)))'
  BY <1>1
<1>3. (length \in [Names -> Nat])'
  BY DEF UpTypes
<1> QED
  BY <1>1, <1>2, <1>3 DEF UpTypes

LEMMA UpTypesPut ==
  ASSUME UpTypes, Control, PutRefused \/ PutConnects \/ PutTar \/ PutFile \/ ReadFails
  PROVE  UpTypes'
<1> USE DEF UpGoto, UpProceed, PutFailsWith, Reading
<1>1. CASE PutRefused \/ PutConnects \/ ReadFails
  BY <1>1, UpTypesKept DEF PutRefused, PutConnects, ReadFails
<1>2. CASE PutTar
  <2>1. <<>> \in Seq(Cell)
    OBVIOUS
  <2> QED
    BY <1>2, <2>1 DEF PutTar, UpTypes, IsTree, Known, IsTar, sourceVars, readVars
<1>3. CASE PutFile
  <2>1. reads \in Names
    BY <1>3 DEF PutFile, UpTypes, Control, Ways
  <2>2. Readable(ReadSize) \in Nat
    BY <2>1, ReadableBytes, UploadAssumption DEF UploadAssumption
  <2>3. BytesOf(1, Readable(ReadSize)) \in Seq(Cell)
    BY <2>1, <2>2, ReadableBytes, UploadAssumption DEF UploadAssumption
  <2>4. out' \in Seq(Cell) /\ offset' \in Nat
    BY <1>3, <2>2, <2>3 DEF PutFile, UpTypes
  <2>5. UNCHANGED <<tree, length, walk, reads, pack, listing, req>> /\ at = "put" /\ at' = "send"
    BY <1>3 DEF PutFile, sourceVars
  <2> QED
    BY <2>1, <2>4, <2>5, Retyped DEF UpTypes
<1> QED
  BY <1>1, <1>2, <1>3

\* An addition to the chunk.
LEMMA Packed ==
  ASSUME UpTypes, NEW s \in Seq(Cell)
  PROVE  out \o s \in Seq(Cell) /\ Space \in Int
BY ConcatProperties, LenProperties, TransferAssumption DEF TransferAssumption, UpTypes, Space, OutSize

LEMMA PaddingIsNat == ASSUME NEW n \in Nat PROVE Padding(n) \in Nat
BY TransferAssumption DEF TransferAssumption, Padding

LEMMA PackStates == ASSUME NEW r \in PackRecord, NEW x \in PackState
                    PROVE  /\ [r EXCEPT !.state = x] \in PackRecord
                           /\ [r EXCEPT !.state = x].state = x
                           /\ [r EXCEPT !.state = x].entry = r.entry
BY DEF PackRecord

LEMMA PackEntries == ASSUME NEW r \in PackRecord, NEW x \in Entry
                    PROVE  /\ [r EXCEPT !.entry = x] \in PackRecord
                           /\ [r EXCEPT !.entry = x].entry = x
BY DEF PackRecord

LEMMA PackExpected == ASSUME NEW r \in PackRecord, NEW x \in Nat
                      PROVE  /\ [r EXCEPT !.expected = x] \in PackRecord
                             /\ [r EXCEPT !.expected = x].entry = r.entry
BY DEF PackRecord

LEMMA PackNumbers ==
  ASSUME NEW r \in PackRecord, NEW x \in Int
  PROVE  /\ [r EXCEPT !.written = x] \in PackRecord /\ [r EXCEPT !.written = x].entry = r.entry
         /\ [r EXCEPT !.written = x].state = r.state
         /\ [r EXCEPT !.padding = x] \in PackRecord /\ [r EXCEPT !.padding = x].state = r.state
         /\ [r EXCEPT !.trailer = x] \in PackRecord /\ [r EXCEPT !.trailer = x].state = r.state
BY DEF PackRecord

LEMMA PackZeros ==
  ASSUME NEW r \in PackRecord
  PROVE  /\ [r EXCEPT !.written = 0] \in PackRecord /\ [r EXCEPT !.written = 0].entry = r.entry
         /\ [r EXCEPT !.padding = 0] \in PackRecord
         /\ [r EXCEPT !.trailer = 0] \in PackRecord /\ [r EXCEPT !.trailer = 0].state = r.state
BY DEF PackRecord

LEMMA UpTypesPack ==
  ASSUME UpTypes, Control, Pack
  PROVE  UpTypes'
<1> USE DEF UpGoto, UpProceed, PutFailsWith, Reading, InPack, Entering, PackRest
<1>0. at = "pack" /\ IsTar /\ req' = req /\ (at' \in {"pack", "send"} \/ at' = "abort")
  BY DEF Pack, PackStops, Ascend, EnterDirectory, PassOther, NextFile, EntryFails, NoMoreFiles,
     PackHeader, PackHeaderFails, PackData, PackDataTruncated, PackPadding, PackTrailer, PackRefuses,
     UpTypes
<1>1. CASE PackStops
  <2>1. UNCHANGED <<tree, length, walk, reads, offset, pack, out, listing>>
    BY <1>1 DEF PackStops, sourceVars, readVars
  <2> QED
    BY <1>0, <2>1, Retyped DEF UpTypes, Control, Ways
<1>2. CASE PackHeaderFails \/ PackDataTruncated
  <2>1. UNCHANGED <<tree, length, walk, offset, pack, out, listing>> /\ at' = "abort"
    BY <1>2 DEF PackHeaderFails, PackDataTruncated, PackRefuses, packVars
  <2> QED
    BY <1>0, <2>1, Retyped DEF UpTypes
<1>3. CASE Ascend \/ EnterDirectory \/ PassOther \/ EntryFails
  <2>1. /\ UNCHANGED <<tree, length, offset, pack, out, listing>>
        /\ walk # <<>> /\ pack.state = "next"
    BY <1>3 DEF Ascend, EnterDirectory, PassOther, EntryFails, PackRefuses, packVars
  <2>2. walk' \in Seq(Seq(Known))
    <3>1. CASE Ascend
      BY <2>1, <3>1, NextEntry DEF Ascend
    <3>2. CASE PassOther \/ EntryFails
      BY <2>1, <3>2, NextEntry DEF PassOther, EntryFails
    <3>3. CASE EnterDirectory
      <4>1. Head(Deepest) \in Known /\ Taken \in Seq(Seq(Known)) /\ Head(Deepest).kind = "dir"
        BY <2>1, <3>3, NextEntry DEF EnterDirectory
      <4>2. tree.dirs[Head(Deepest).name] \in Seq(Known)
        BY <4>1, KnownDirectories DEF Known, UpTypes
      <4>3. Append(Taken, tree.dirs[Head(Deepest).name]) \in Seq(Seq(Known))
        BY <4>1, <4>2, AppendProperties
      <4> QED
        BY <3>3, <4>1, <4>3 DEF EnterDirectory
    <3> QED
      BY <1>3, <3>1, <3>2, <3>3
  <2> QED
    BY <1>0, <2>1, <2>2, Retyped DEF UpTypes
<1>4. CASE NextFile
  <2>1. Head(Deepest) \in Known /\ Taken \in Seq(Seq(Known))
    BY <1>4, NextEntry DEF NextFile
  <2>2. reads' \in Names /\ Head(Deepest) \in Entry
    BY <1>4, <2>1 DEF NextFile, Known, Entry
  <2>3. length[reads'] \in Nat
    BY <2>2 DEF UpTypes
  <2>4. UNCHANGED <<tree, length, out, listing>> /\ walk' = Taken /\ offset' = 0 /\ at' = "pack"
    BY <1>4 DEF NextFile
  <2>5. /\ pack' \in PackRecord
        /\ pack'.entry \in Entry
    <3> DEFINE p1 == [pack EXCEPT !.state = "header"]
               p2 == [p1 EXCEPT !.entry = Head(Deepest)]
               p3 == [p2 EXCEPT !.expected = length[reads']]
    <3>1. p1 \in PackRecord
      BY PackStates, PackEntries, PackExpected, PackNumbers DEF UpTypes, PackState
    <3>2. p2 \in PackRecord /\ p2.entry = Head(Deepest)
      <4> HIDE DEF p1
      <4> QED
        BY <2>2, <3>1, PackStates, PackEntries, PackExpected, PackNumbers
    <3>3. p3 \in PackRecord /\ p3.entry = Head(Deepest)
      <4> HIDE DEF p2
      <4> QED
        BY <2>3, <3>2, PackStates, PackEntries, PackExpected, PackNumbers
    <3>4. pack' = [p3 EXCEPT !.written = 0]
      BY <1>4, Zenon DEF NextFile
    <3> HIDE DEF p3
    <3>5. [p3 EXCEPT !.written = 0] \in PackRecord /\ [p3 EXCEPT !.written = 0].entry = p3.entry
      BY <3>3, PackZeros
    <3> QED
      BY <2>2, <3>3, <3>4, <3>5, Zenon
  <2> QED
    BY <1>0, <2>1, <2>2, <2>4, <2>5, Retyped DEF UpTypes
<1>5. CASE NoMoreFiles
  <2>1. UNCHANGED <<tree, length, walk, offset, out, listing>> /\ at' = "pack"
    BY <1>5 DEF NoMoreFiles
  <2>2. /\ pack' \in PackRecord
        /\ pack'.state = "trailer"
    <3> DEFINE p1 == [pack EXCEPT !.state = "trailer"]
    <3>1. p1 \in PackRecord /\ p1.state = "trailer"
      BY PackStates, PackEntries, PackExpected, PackNumbers DEF UpTypes, PackState
    <3>2. pack' = [p1 EXCEPT !.trailer = 0]
      BY <1>5, Zenon DEF NoMoreFiles
    <3> HIDE DEF p1
    <3>3. [p1 EXCEPT !.trailer = 0] \in PackRecord /\ [p1 EXCEPT !.trailer = 0].state = p1.state
      BY <3>1, PackZeros
    <3> QED
      BY <3>1, <3>2, <3>3, Zenon
  <2> QED
    BY <1>0, <2>1, <2>2, Retyped DEF UpTypes
<1>6. CASE PackHeader
  <2>1. pack.state = "header" /\ pack.entry \in Entry /\ reads \in Names
    BY <1>0, <1>6 DEF PackHeader, UpTypes, Control, Ways
  <2>2. listing' \in Seq(Entry) /\ Len(listing') \in Nat
    <3>1. [pack.entry EXCEPT !.size = pack.expected] \in Entry
      BY <2>1 DEF UpTypes, Entry, PackRecord
    <3> QED
      BY <1>6, <3>1, AppendProperties, LenProperties DEF PackHeader, UpTypes
  <2>3. out' \in Seq(Cell)
    BY <1>6, <2>2, CellSeqs, Packed DEF PackHeader
  <2>4. UNCHANGED <<tree, length, walk, reads, offset>> /\ at' = "pack"
    BY <1>6 DEF PackHeader
  <2>5. /\ pack' \in PackRecord
        /\ pack'.state # "header"
    <3> DEFINE next == IF pack.expected = 0 THEN "next" ELSE "data"
    <3>1. pack' = [pack EXCEPT !.state = next]
      BY <1>6 DEF PackHeader
    <3>2. next \in PackState /\ next # "header"
      BY DEF PackState
    <3> HIDE DEF next
    <3> QED
      BY <3>1, <3>2, PackStates DEF UpTypes
  <2> QED
    BY <1>0, <2>1, <2>2, <2>3, <2>4, <2>5, Retyped DEF UpTypes
<1>7. CASE PackData
  <2>1. pack.state = "data" /\ reads \in Names
    BY <1>0, <1>7 DEF PackData, UpTypes, Control, Ways
  <2>2. DataSpace \in Int
    BY Packed, EmptySeq, UploadAssumption DEF UploadAssumption, DataSpace, Min2, UpTypes, PackRecord
  <2> DEFINE n == Readable(DataSpace)
  <2>3. n \in Nat /\ BytesOf(Len(listing), n) \in Seq(Cell)
    <3>1. n > 0 /\ n \in Int
      BY <1>7, <2>1, <2>2, ReadableBytes DEF PackData
    <3>2. Len(listing) \in Nat
      BY LenProperties DEF UpTypes
    <3> QED
      BY <2>1, <2>2, <3>1, <3>2, ReadableBytes
  <2>4. out' \in Seq(Cell) /\ offset' \in Nat
    BY <1>7, <2>3, Packed DEF PackData, UpTypes
  <2>5. UNCHANGED <<tree, length, walk, reads, listing>> /\ at' = "pack"
    BY <1>7 DEF PackData
  <2>6. /\ pack' \in PackRecord
        /\ pack'.state # "header"
    <3> DEFINE next  == CASE pack.written + n < pack.expected -> "data"
                          [] OTHER -> IF Padding(pack.expected) > 0 THEN "padding" ELSE "next"
               p1 == [pack EXCEPT !.written = @ + n]
               p2 == [p1 EXCEPT !.padding = 0]
    <3>1. next \in PackState /\ next # "header"
      BY DEF PackState
    <3>2. p1 \in PackRecord
      <4>1. pack.written + n \in Int
        BY <2>3 DEF UpTypes, PackRecord
      <4> HIDE DEF n
      <4> QED
        BY <4>1, PackStates, PackEntries, PackExpected, PackNumbers DEF UpTypes
    <3>3. p2 \in PackRecord
      <4> HIDE DEF p1
      <4> QED
        BY <3>2, PackZeros
    <3>4. pack' = [p2 EXCEPT !.state = next]
      BY <1>7, Zenon DEF PackData
    <3> HIDE DEF p2, next
    <3> QED
      BY <3>1, <3>3, <3>4, PackStates, PackEntries, PackExpected, PackNumbers
  <2> QED
    BY <1>0, <2>1, <2>4, <2>5, <2>6, Retyped DEF UpTypes
<1>8. CASE PackPadding
  <2> DEFINE n == Min2(Space, Padding(pack.expected) - pack.padding)
  <2>1. n \in Int
    <3>1. Space \in Int
      BY Packed, EmptySeq
    <3>2. pack.expected \in Nat /\ pack.padding \in Int
      BY DEF UpTypes, PackRecord
    <3>3. Padding(pack.expected) \in Nat
      BY <3>2, PaddingIsNat
    <3> QED
      BY <3>1, <3>2, <3>3 DEF Min2
  <2>2. out' \in Seq(Cell)
    BY <1>8, <2>1, CellSeqs, Packed DEF PackPadding
  <2>3. /\ UNCHANGED <<tree, length, walk, reads, offset, listing>> /\ at' = "pack"
        /\ pack.state = "padding"
    BY <1>8 DEF PackPadding
  <2>4. pack' \in PackRecord /\ pack'.state \in {"padding", "next"}
    <3> DEFINE next == IF pack.padding + n = Padding(pack.expected) THEN "next" ELSE "padding"
               p1 == [pack EXCEPT !.padding = @ + n]
    <3>1. next \in PackState /\ next \in {"padding", "next"}
      BY DEF PackState
    <3>2. p1 \in PackRecord
      <4>1. pack.padding + n \in Int
        BY <2>1 DEF UpTypes, PackRecord
      <4> HIDE DEF n
      <4> QED
        BY <4>1, PackNumbers DEF UpTypes
    <3>3. pack' = [p1 EXCEPT !.state = next]
      <4>1. p1.state = pack.state
        BY DEF UpTypes, PackRecord
      <4>2. pack' = [p1 EXCEPT !.state = IF pack.padding + n = Padding(pack.expected)
                                         THEN "next" ELSE pack.state]
        BY <1>8, <4>1 DEF PackPadding
      <4> QED
        BY <2>3, <4>2
    <3> HIDE DEF p1, next
    <3> QED
      BY <3>1, <3>2, <3>3, PackStates
  <2> QED
    BY <1>0, <2>2, <2>3, <2>4, Retyped DEF UpTypes
<1>9. CASE PackTrailer
  <2> DEFINE n == Min2(Space, Trailer - pack.trailer)
  <2>1. n \in Int
    BY Packed, EmptySeq, TransferAssumption
    DEF TransferAssumption, Trailer, UpTypes, PackRecord, Min2
  <2>2. out' \in Seq(Cell)
    BY <1>9, <2>1, CellSeqs, Packed DEF PackTrailer
  <2>3. /\ UNCHANGED <<tree, length, walk, reads, offset, listing>> /\ at' = "pack"
        /\ pack.state = "trailer"
    BY <1>9 DEF PackTrailer
  <2>4. pack' \in PackRecord /\ pack'.state \in {"trailer", "done"}
    <3> DEFINE next == IF pack.trailer + n = Trailer THEN "done" ELSE "trailer"
               p1 == [pack EXCEPT !.trailer = @ + n]
    <3>1. next \in PackState /\ next \in {"trailer", "done"}
      BY DEF PackState
    <3>2. p1 \in PackRecord
      <4>1. pack.trailer + n \in Int
        BY <2>1 DEF UpTypes, PackRecord
      <4> HIDE DEF n
      <4> QED
        BY <4>1, PackNumbers DEF UpTypes
    <3>3. pack' = [p1 EXCEPT !.state = next]
      <4>1. p1.state = pack.state
        BY DEF UpTypes, PackRecord
      <4>2. pack' = [p1 EXCEPT !.state = IF pack.trailer + n = Trailer THEN "done" ELSE pack.state]
        BY <1>9, <4>1 DEF PackTrailer
      <4> QED
        BY <2>3, <4>2
    <3> HIDE DEF p1, next
    <3> QED
      BY <3>1, <3>2, <3>3, PackStates
  <2> QED
    BY <1>0, <2>2, <2>3, <2>4, Retyped DEF UpTypes
<1> QED
  BY <1>1, <1>2, <1>3, <1>4, <1>5, <1>6, <1>7, <1>8, <1>9 DEF Pack

LEMMA UpTypesEnd ==
  ASSUME UpTypes, Control,
         \/ SendChunk \/ SendFails \/ ServerAccepts \/ ServerRefuses
         \/ ReadComplete \/ ReadAbort \/ (UpCommon /\ UNCHANGED upVars)
  PROVE  UpTypes'
<1> USE DEF UpGoto, UpProceed, PutFailsWith, Reading
<1>1. CASE SendChunk
  <2>1. UNCHANGED <<tree, length, walk, reads, offset, pack, out, listing, req>>
    BY <1>1 DEF SendChunk, sourceVars, readVars, packVars
  <2>2. at = "send" /\ at' \in {"answer", "put"}
    BY <1>1 DEF SendChunk
  <2> QED
    BY <2>1, <2>2, Retyped DEF UpTypes, Control, Ways
<1>2. CASE SendFails \/ ServerAccepts \/ ServerRefuses
  BY <1>2, UpTypesKept DEF SendFails, ServerAccepts, ServerRefuses
<1>3. CASE ReadComplete \/ ReadAbort
  <2>1. UNCHANGED <<tree, length, offset, pack, out, listing, req>> /\ walk' = <<>> /\ at' = "destroy"
    BY <1>3 DEF ReadComplete, ReadAbort, sourceVars, packVars
  <2>2. walk' \in Seq(Seq(Known))
    BY <2>1
  <2> QED
    BY <2>1, <2>2, Retyped DEF UpTypes
<1>4. CASE UpCommon /\ UNCHANGED upVars
  <2>1. CASE RefuseRequest \/ DataFails \/ DataDestroy \/ Respond
    BY <1>4, <2>1, UpTypesKept DEF RefuseRequest, DataFails, DataDestroy, Respond
  <2>2. CASE DataNew("request") \/ Work
    BY <1>4, <2>2, UpTypesKept DEF DataNew, Work
  <2> QED
    BY <1>4, <2>1, <2>2 DEF UpCommon
<1> QED
  BY <1>1, <1>2, <1>3, <1>4

LEMMA UpTypesStep == ASSUME UpTypes, Control, [Next]_vars PROVE UpTypes'
<1>1. CASE DownNext /\ UNCHANGED upVars
  <2>1. req.way = "down" /\ req' = req
    BY <1>1, DownRequest
  <2>2. at' # "pack"
    BY <1>1, <2>1, ControlStep DEF Next, Control, Ways
  <2> QED
    BY <1>1, <2>1, <2>2, UpTypesKept
<1>2. CASE UpNext
  BY <1>2, UpTypesStart, UpTypesPut, UpTypesPack, UpTypesEnd DEF UpNext, UpCommon
<1>3. CASE Handover
  <2>1. req'.way = "down" /\ req'.encoding = req.encoding /\ at' = "asked" /\ UNCHANGED upVars
    BY <1>3 DEF Handover, Control, Ways
  <2> QED
    BY <2>1 DEF UpTypes, upVars, sourceVars, readVars, packVars, IsTree, Known, IsTar
<1>4. CASE UNCHANGED vars
  <2>1. UNCHANGED <<at, req>> /\ UNCHANGED upVars
    BY <1>4 DEF vars, commonVars
  <2> QED
    BY <2>1, UpTypesKept
<1> QED
  BY <1>1, <1>2, <1>3, <1>4 DEF Next, Rest
-----------------------------------------------------------------------------
\* The data of the HTTP callbacks after a chunk of n bytes.
LEMMA ProgressCounts ==
  ASSUME Counted, NEW n \in Nat, NEW end, UpdateProgress(n, end)
  PROVE  /\ transferred' \in Nat /\ reported' \in Nat /\ shown' \in Nat
         /\ shown' <= reported' /\ reported' <= transferred' /\ shown' = shown
BY DEF Counted, UpdateProgress, dataVars

LEMMA CountedKept ==
  ASSUME Counted, UNCHANGED dataVars, piece' \in Nat, at' \in Early => at \in Early
  PROVE  Counted'
BY DEF Counted, dataVars

LEMMA CommonCounts ==
  ASSUME Counted, Control, piece' = piece,
         \/ RefuseRequest \/ DataNew("digest") \/ DataNew("request")
         \/ DataFails \/ DataDestroy \/ Respond \/ Work
  PROVE  Counted'
<1>1. CASE Work
  BY <1>1 DEF Work, Counted, Control, Owned, Early
<1>2. CASE RefuseRequest \/ DataFails \/ DataDestroy \/ Respond
  BY <1>2 DEF RefuseRequest, DataFails, DataDestroy, Respond, Counted, dataVars, Early
<1>3. CASE DataNew("digest") \/ DataNew("request")
  BY <1>3 DEF DataNew, Counted, Early
<1> QED
  BY <1>1, <1>2, <1>3

LEMMA DownCounts ==
  ASSUME Counted, Control, DownNext
  PROVE  Counted'
<1> USE DEF Goto, Proceed, FailsWith, Refuse, ChunkDone, TarRest, TarRefuses, ReadHeader, Early,
        downVars, streamVars
<1>0. piece \in Nat
  BY DEF Counted
<1>1. CASE CheckSize \/ WriteInitRefuses \/ WriteInitFails \/ WriteInit \/ SetupDigest
  BY <1>0, <1>1, CountedKept DEF CheckSize, WriteInitRefuses, WriteInitFails, WriteInit, SetupDigest
<1>2. CASE HttpConnects \/ HttpGetFails \/ ReceiveFails \/ AppendFails
           \/ \E n \in 0 .. Len(held) + Len(chunk) : DecompressFails(n)
  BY <1>0, <1>2, CountedKept DEF HttpConnects, HttpGetFails, ReceiveFails, AppendFails, DecompressFails
<1>3. ASSUME NEW n \in Pieces, NEW final \in BOOLEAN, Receive(n, final) PROVE Counted'
  BY <1>3, CountedKept, DownloadAssumption DEF DownloadAssumption, Receive
<1>4. CASE AppendChunk \/ TarChunkEnds
  <2>1. UpdateProgress(piece, last) /\ piece' = piece /\ at' \notin Early
    BY <1>4 DEF AppendChunk, TarChunkEnds
  <2> QED
    BY <1>0, <2>1, ProgressCounts DEF Counted
<1>5. ASSUME NEW n \in 0 .. Len(held) + Len(chunk), Decompress(n) PROVE Counted'
  <2>1. n \in Nat /\ piece' = piece /\ at' \notin Early
    BY <1>5 DEF Decompress
  <2>2. CASE UNCHANGED dataVars
    BY <1>0, <2>1, <2>2, CountedKept
  <2>3. CASE UpdateProgress(n, last)
    BY <1>0, <2>1, <2>3, ProgressCounts DEF Counted
  <2> QED
    BY <1>5, <2>2, <2>3 DEF Decompress
<1>6. CASE Unpack /\ ~TarChunkEnds
  BY <1>0, <1>6, CountedKept
  DEF Unpack, HeaderPart, HeaderOfZeros, HeaderRefused, HeaderSkipped, HeaderOpens,
      HeaderOpenFails, ReadData, ReadDataNowhere, ReadPadding, ReadPaddingRefused, ReadTrailer,
      ReadTrailerRefused, TarNotExhausted
<1>7. CASE VerifyDigest \/ WriteComplete \/ WriteAbort
  BY <1>0, <1>7, CountedKept DEF VerifyDigest, WriteComplete, WriteAbort
<1>8. CASE DownCommon
  BY <1>8, CommonCounts DEF DownCommon
<1> QED
  BY <1>1, <1>2, <1>3, <1>4, <1>5, <1>6, <1>7, <1>8 DEF DownNext, Http

LEMMA UpCounts ==
  ASSUME Counted, Control, UpTypes, UpNext, UNCHANGED downVars
  PROVE  Counted'
<1> USE DEF UpGoto, UpProceed, PutFailsWith, PackRest, PackRefuses, Early
<1>0. piece' = piece /\ piece \in Nat
  BY DEF Counted, downVars, streamVars
<1>1. CASE (\E e \in AllFiles(tree) : Change(e.name)) \/ AskRead \/ ReadInitFails \/ ReadInit
  BY <1>0, <1>1, CountedKept DEF Change, AskRead, ReadInitFails, ReadInit, commonVars
<1>2. CASE PutRefused \/ PutConnects \/ PutTar \/ ReadFails
  BY <1>0, <1>2, CountedKept DEF PutRefused, PutConnects, PutTar, ReadFails
<1>3. CASE PutFile
  <2>1. reads \in Names
    BY <1>3 DEF PutFile, UpTypes, Control, Ways, Reading
  <2>2. Readable(ReadSize) \in Nat
    BY <2>1, ReadableBytes, UploadAssumption DEF UploadAssumption
  <2>3. UpdateProgress(Readable(ReadSize), Readable(ReadSize) < ReadSize) /\ at' \notin Early
    BY <1>3 DEF PutFile
  <2> QED
    BY <1>0, <2>2, <2>3, ProgressCounts DEF Counted
<1>4. CASE PackStops
  <2>1. Len(out) \in Nat
    BY LenProperties DEF UpTypes
  <2>2. UpdateProgress(Len(out), exhausted') /\ at' \notin Early
    BY <1>4 DEF PackStops
  <2> QED
    BY <1>0, <2>1, <2>2, ProgressCounts DEF Counted
<1>5. CASE Pack /\ ~PackStops
  BY <1>0, <1>5, CountedKept
  DEF Pack, Ascend, EnterDirectory, PassOther, NextFile, EntryFails, NoMoreFiles, PackHeader,
      PackHeaderFails, PackData, PackDataTruncated, PackPadding, PackTrailer
<1>6. CASE SendChunk \/ SendFails \/ ServerAccepts \/ ServerRefuses \/ ReadComplete \/ ReadAbort
  BY <1>0, <1>6, CountedKept
  DEF SendChunk, SendFails, ServerAccepts, ServerRefuses, ReadComplete, ReadAbort
<1>7. CASE UpCommon
  BY <1>0, <1>7, CommonCounts DEF UpCommon
<1> QED
  BY <1>1, <1>2, <1>3, <1>4, <1>5, <1>6, <1>7 DEF UpNext

LEMMA CountedStep == ASSUME Counted, Control, UpTypes, [Next]_vars PROVE Counted'
<1>1. CASE Handover
  BY <1>1 DEF Handover, Counted
<1>2. CASE UNCHANGED vars
  BY <1>2, CountedKept DEF Counted, vars, commonVars, downVars, streamVars
<1> QED
  BY <1>1, <1>2, DownCounts, UpCounts DEF Next, Rest

(***************************************************************************)
(* The progress is published from the system work queue, behind the back   *)
(* of the thread that transfers: its work item is never queued once the    *)
(* data it is part of is freed, nothing is published behind the response,  *)
(* and what is published only grows and is never more than was             *)
(* transferred.                                                            *)
(***************************************************************************)
THEOREM SafeProgress == Spec => []ProgressIsSafe
<1>1. Init => Control /\ UpTypes /\ Counted
  BY ControlInit, TypesInit
<1>2. Control /\ UpTypes /\ Counted /\ [Next]_vars => (Control /\ UpTypes /\ Counted)'
  BY ControlStep, UpTypesStep, CountedStep
<1>3. Control /\ UpTypes /\ Counted => ProgressIsSafe
  BY DEF Control, Owned, Answers, Counted, ProgressIsSafe
<1> QED
  BY <1>1, <1>2, <1>3, PTL DEF Spec

(***************************************************************************)
(* What the state of a transfer is made of. First what both handlers keep  *)
(* of a request.                                                           *)
(***************************************************************************)
\* What both handlers keep of a request.
CommonTypes ==
  /\ req \in Request /\ mounts \in Seq(Mount) /\ eres \in Results
  /\ code \in {"none", "dropped"} \cup Errnos
  /\ ctx \in BOOLEAN /\ told \in BOOLEAN /\ hurt \in BOOLEAN /\ kept \in BOOLEAN
  /\ data \in {"none", "live", "freed"} /\ work \in {"idle", "queued"}

LEMMA CommonInit == Init => CommonTypes
<1> USE DEF CommonTypes, Results, Errnos
<1>1. ASSUME NEW s \in Downloads, DownStarts(s.req, s.content, s.mounts, s.dest) PROVE CommonTypes
  BY <1>1, ArchiveAssumption DEF ArchiveAssumption, DownStarts
<1>2. ASSUME NEW s \in Uploads, UpStarts(s.req, s.tree, s.mounts) PROVE CommonTypes
  BY <1>2, ArchiveAssumption DEF ArchiveAssumption, UpStarts
<1> QED
  BY <1>1, <1>2 DEF Init

LEMMA ProgressTypes ==
  ASSUME CommonTypes, NEW n, NEW end, UpdateProgress(n, end)
  PROVE  data' \in {"none", "live", "freed"} /\ work' \in {"idle", "queued"}
BY DEF CommonTypes, UpdateProgress, dataVars

LEMMA CommonPartTypes ==
  ASSUME CommonTypes, errno \in Errnos,
         RefuseRequest \/ (\E next : DataNew(next)) \/ DataFails \/ DataDestroy \/ Respond \/ Work
  PROVE  CommonTypes'
<1> USE DEF CommonTypes, dataVars, histVars
<1>1. CASE RefuseRequest \/ DataFails
  BY <1>1 DEF RefuseRequest, DataFails, Errnos
<1>2. CASE (\E next : DataNew(next)) \/ DataDestroy \/ Work
  BY <1>2 DEF DataNew, DataDestroy, Work
<1>3. CASE Respond
  <2>1. ResponseCode \in Errnos
    BY DEF ResponseCode, Errnos
  <2> QED
    BY <1>3, <2>1 DEF Respond
<1> QED
  BY <1>1, <1>2, <1>3

LEMMA DownCommonTypes ==
  ASSUME CommonTypes, errno \in Errnos, DownNext
  PROVE  CommonTypes'
<1> USE DEF CommonTypes, Results, HttpErrors, HttpRefusals, Goto, Proceed, FailsWith, Refuse, ChunkDone, TarRest, TarRefuses, ReadHeader,
        Close, dataVars, histVars
<1>1. CASE CheckSize \/ WriteInitRefuses \/ WriteInitFails \/ WriteInit \/ SetupDigest
  BY <1>1, ZenonT(40) DEF CheckSize, WriteInitRefuses, WriteInitFails, WriteInit, SetupDigest
<1>2. CASE HttpConnects \/ HttpGetFails \/ ReceiveFails \/ AppendFails
           \/ \E n \in 0 .. Len(held) + Len(chunk) : DecompressFails(n)
  BY <1>2 DEF HttpConnects, HttpGetFails, ReceiveFails, AppendFails, DecompressFails
<1>3. ASSUME NEW n \in Pieces, NEW final \in BOOLEAN, Receive(n, final) PROVE CommonTypes'
  BY <1>3 DEF Receive
<1>4. CASE AppendChunk \/ TarChunkEnds
  BY <1>4, ProgressTypes DEF AppendChunk, TarChunkEnds
<1>5. ASSUME NEW n \in 0 .. Len(held) + Len(chunk), Decompress(n) PROVE CommonTypes'
  BY <1>5, ProgressTypes DEF Decompress
<1>6. CASE Unpack /\ ~TarChunkEnds
  BY <1>6, ZenonT(40)
  DEF Unpack, HeaderPart, HeaderOfZeros, HeaderRefused, HeaderSkipped, HeaderOpens,
      HeaderOpenFails, ReadData, ReadDataNowhere, ReadPadding, ReadPaddingRefused, ReadTrailer,
      ReadTrailerRefused, TarNotExhausted
<1>7. CASE VerifyDigest \/ WriteComplete \/ WriteAbort
  BY <1>7, ZenonT(40) DEF VerifyDigest, WriteComplete, WriteAbort
<1>8. CASE DownCommon
  BY <1>8, CommonPartTypes DEF DownCommon
<1> QED
  BY <1>1, <1>2, <1>3, <1>4, <1>5, <1>6, <1>7, <1>8 DEF DownNext, Http

LEMMA UpCommonTypes ==
  ASSUME CommonTypes, errno \in Errnos, UpNext
  PROVE  CommonTypes'
<1> USE DEF CommonTypes, Results, HttpErrors, HttpRefusals, UpGoto, UpProceed, PutFailsWith, PackRest, PackRefuses,
            dataVars, histVars
<1>1. CASE (\E e \in AllFiles(tree) : Change(e.name)) \/ AskRead \/ ReadInitFails \/ ReadInit
  BY <1>1, ZenonT(40) DEF Change, AskRead, ReadInitFails, ReadInit, commonVars
<1>2. CASE PutRefused \/ PutConnects \/ PutTar \/ ReadFails
  BY <1>2, ZenonT(40) DEF PutRefused, PutConnects, PutTar, ReadFails
<1>3. CASE PutFile \/ PackStops
  BY <1>3, ProgressTypes DEF PutFile, PackStops
<1>5. CASE Pack /\ ~PackStops
  BY <1>5
  DEF Pack, Ascend, EnterDirectory, PassOther, NextFile, EntryFails, NoMoreFiles, PackHeader,
      PackHeaderFails, PackData, PackDataTruncated, PackPadding, PackTrailer
<1>6. CASE SendChunk \/ SendFails \/ ServerAccepts \/ ServerRefuses \/ ReadComplete \/ ReadAbort
  BY <1>6, ZenonT(40)
  DEF SendChunk, SendFails, ServerAccepts, ServerRefuses, ReadComplete, ReadAbort
<1>7. CASE UpCommon
  BY <1>7, CommonPartTypes DEF UpCommon
<1> QED
  BY <1>1, <1>2, <1>3, <1>5, <1>6, <1>7 DEF UpNext

LEMMA NewRequest ==
  ASSUME NEW r \in Request, NEW n \in Nat
  PROVE  [r EXCEPT !.way = "down", !.digest = "right", !.size = n] \in Request
<1> DEFINE r1 == [r EXCEPT !.way = "down"]
           r2 == [r1 EXCEPT !.digest = "right"]
<1>1. r1 \in Request
  BY DEF Request
<1>2. r2 \in Request
  <2> HIDE DEF r1
  <2> QED
    BY <1>1 DEF Request
<1>3. [r2 EXCEPT !.size = n] \in Request
  <2> HIDE DEF r2
  <2> QED
    BY <1>2 DEF Request
<1> QED
  BY <1>3, Zenon

LEMMA CommonTypesStep ==
  ASSUME CommonTypes, Control, [Next]_vars, (Handover => Len(Stored) \in Nat)
  PROVE  CommonTypes'
<1>1. CASE Handover
  <2>1. req' \in Request
    BY <1>1, NewRequest DEF Handover, CommonTypes
  <2> QED
    BY <1>1, <2>1 DEF Handover, CommonTypes, Results
<1>2. CASE UNCHANGED vars
  BY <1>2 DEF vars, commonVars, dataVars, histVars, CommonTypes
<1> QED
  BY <1>1, <1>2, DownCommonTypes, UpCommonTypes DEF Next, Rest, Control, Answers

(***************************************************************************)
(* Numbers and sums. A set of counterexamples without a first one is       *)
(* empty: this is the induction that the sums over a set of files rest on. *)
(***************************************************************************)
LEMMA LeastNumber ==
  ASSUME NEW T, T \subseteq Nat, T # {}
  PROVE  \E x \in T : \A y \in T : ~(y < x)
<1> DEFINE R == {ss \in Nat \X Nat : ss[1] < ss[2]}
<1>1. IsWellFoundedOn(R, Nat)
  BY NatLessThanWellFounded DEF OpToRel
<1> HIDE DEF R
<1>2. \E x \in T : \A y \in T : ~(<<y, x>> \in R)
  BY <1>1, WFMin
<1> QED
  BY <1>2 DEF R

\* Induction on the natural numbers: a set of counterexamples that has no first one is empty.
LEMMA NoCounterexample ==
  ASSUME NEW T, T \subseteq Nat, \A n \in T : n # 0 /\ n - 1 \in T
  PROVE  T = {}
<1> SUFFICES ASSUME T # {} PROVE FALSE
  OBVIOUS
<1>1. PICK x \in T : \A y \in T : ~(y < x)
  BY LeastNumber
<1> QED
  BY <1>1

\* The sum that ArchiveSize takes, as a function on the sets of files.
Blocks(sizes, e) == FileBlocks(sizes[e.name])
Some(s) == CHOOSE x \in s : TRUE
Sums(sizes, S) == CHOOSE f : f = [s \in SUBSET S |-> IF s = {} THEN 0
                            ELSE Blocks(sizes, Some(s)) + f[s \ {Some(s)}]]

LEMMA SizeIsSum == ASSUME NEW S PROVE ArchiveSize(S) = Sums(length, S)[S] + Trailer
BY Zenon DEF ArchiveSize, MapThenSumSet, MapThenFoldSet, Sums, Blocks, Some

LEMMA SubsetCounts ==
  ASSUME NEW S, IsFiniteSet(S), NEW s \in SUBSET S, s # {}
  PROVE  /\ Some(s) \in s
         /\ Cardinality(s) \in Nat \ {0}
         /\ \A x \in s : s \ {x} \in SUBSET S /\ Cardinality(s \ {x}) = Cardinality(s) - 1
<1>1. IsFiniteSet(s)
  BY FS_Subset
<1>2. Cardinality(s) \in Nat \ {0}
  BY <1>1, FS_CardinalityType, FS_EmptySet
<1> QED
  BY <1>1, <1>2, FS_RemoveElement DEF Some

LEMMA SumsDefined ==
  ASSUME NEW sizes, NEW S, IsFiniteSet(S), \A e \in S : Blocks(sizes, e) \in Nat
  PROVE  /\ Sums(sizes, S) \in [SUBSET S -> Nat]
         /\ \A s \in SUBSET S : Sums(sizes, S)[s] = IF s = {} THEN 0
                                             ELSE Blocks(sizes, Some(s)) + Sums(sizes, S)[s \ {Some(s)}]
<1> DEFINE Step(f) == [s \in SUBSET S |-> IF s = {} THEN 0 ELSE Blocks(sizes, Some(s)) + f[s \ {Some(s)}]]
           Upto(f, n) == \A s \in SUBSET S : Cardinality(s) <= n => f[s] = Step(f)[s]
           Bad == {n \in Nat : ~\E f \in [SUBSET S -> Nat] : Upto(f, n)}
<1>1. \A f \in [SUBSET S -> Nat] : Step(f) \in [SUBSET S -> Nat]
  <2> SUFFICES ASSUME NEW f \in [SUBSET S -> Nat], NEW s \in SUBSET S, s # {}
               PROVE  Blocks(sizes, Some(s)) + f[s \ {Some(s)}] \in Nat
    OBVIOUS
  <2> QED
    BY SubsetCounts
<1>2. \A n \in Bad : n # 0
  <2> DEFINE z == [s \in SUBSET S |-> 0]
  <2>1. Upto(z, 0)
    BY SubsetCounts
  <2> QED
    BY <2>1
<1>3. \A n \in Bad : n - 1 \in Bad
  <2> SUFFICES ASSUME NEW n \in Bad, n - 1 \notin Bad PROVE FALSE
    OBVIOUS
  <2>1. n \in Nat /\ n - 1 \in Nat
    <3>1. n \in Nat
      OBVIOUS
    <3>2. n # 0
      BY <1>2
    <3> QED
      BY <3>1, <3>2
  <2>2. PICK f \in [SUBSET S -> Nat] : Upto(f, n - 1)
    BY <2>1
  <2> DEFINE g == Step(f)
  <2>3. g \in [SUBSET S -> Nat]
    BY <1>1
  <2>4. ASSUME NEW s \in SUBSET S, Cardinality(s) <= n PROVE g[s] = Step(g)[s]
    <3>1. CASE s = {}
      BY <3>1
    <3>2. CASE s # {}
      <4> DEFINE t == s \ {Some(s)}
      <4>1. t \in SUBSET S /\ Cardinality(t) <= n - 1
        BY <2>1, <2>4, <3>2, SubsetCounts
      <4>2. f[t] = g[t]
        BY <2>2, <4>1
      <4> QED
        BY <3>2, <4>1, <4>2
    <3> QED
      BY <3>1, <3>2
  <2> HIDE DEF g
  <2> QED
    BY <2>1, <2>3, <2>4
<1>4. Bad = {}
  <2>1. Bad \subseteq Nat
    OBVIOUS
  <2> HIDE DEF Bad
  <2> QED
    BY <1>2, <1>3, <2>1, NoCounterexample
<1>5. Cardinality(S) \in Nat
  BY FS_CardinalityType
<1>6. PICK f \in [SUBSET S -> Nat] : Upto(f, Cardinality(S))
  BY <1>4, <1>5
<1>7. f = Step(f)
  <2>1. \A s \in SUBSET S : f[s] = Step(f)[s]
    BY <1>6, FS_Subset
  <2>2. Step(f) \in [SUBSET S -> Nat]
    BY <1>1
  <2> HIDE DEF Step
  <2> QED
    BY <2>1, <2>2
<1> DEFINE h == Sums(sizes, S)
<1>8. h = Step(h)
  BY <1>7, Zenon DEF Sums
<1>9. \A s \in SUBSET S : h[s] = f[s]
  <2> DEFINE Odd == {n \in Nat : \E s \in SUBSET S : Cardinality(s) = n /\ h[s] # f[s]}
  <2>1. \A n \in Odd : n # 0 /\ n - 1 \in Odd
    <3> SUFFICES ASSUME NEW n \in Nat, NEW s \in SUBSET S, Cardinality(s) = n, h[s] # f[s]
                 PROVE  n # 0 /\ n - 1 \in Odd
      OBVIOUS
    <3>1. s # {}
      BY <1>7, <1>8
    <3> DEFINE t == s \ {Some(s)}
    <3>2. n # 0 /\ t \in SUBSET S /\ Cardinality(t) = n - 1
      BY <3>1, SubsetCounts
    <3>3. h[s] = Blocks(sizes, Some(s)) + h[t] /\ f[s] = Blocks(sizes, Some(s)) + f[t]
      BY <1>7, <1>8, <3>1
    <3> QED
      BY <3>2, <3>3
  <2>2. Odd = {}
    <3>1. Odd \subseteq Nat
      OBVIOUS
    <3> HIDE DEF Odd
    <3> QED
      BY <2>1, <3>1, NoCounterexample
  <2> QED
    BY <2>2, FS_Subset, FS_CardinalityType
<1>10. h = f
  <2>1. h = [s \in SUBSET S |-> h[s]]
    <3> HIDE DEF h
    <3> QED
      BY <1>8
  <2> HIDE DEF h
  <2> QED
    BY <1>9, <2>1
<1> QED
  BY <1>7, <1>10

LEMMA FiniteImage ==
  ASSUME NEW f, IsFiniteSet(DOMAIN f)
  PROVE  IsFiniteSet({f[x] : x \in DOMAIN f})
<1> DEFINE T == {f[x] : x \in DOMAIN f}
           g == [x \in DOMAIN f |-> f[x]]
<1>1. g \in Surjection(DOMAIN f, T)
  BY DEF Surjection
<1> QED
  BY <1>1, FS_Surjection

\* A source has finitely many files, and they are entries.
LEMMA FilesFinite ==
  ASSUME IsTree(tree)
  PROVE  IsFiniteSet(AllFiles(tree)) /\ \A e \in AllFiles(tree) : e \in Entry
<1>1. IsFiniteSet(AllFiles(tree))
  <2> DEFINE D == {ToSet(tree.dirs[d]) : d \in DOMAIN tree.dirs}
  <2>1. IsFiniteSet(D)
    <3> DEFINE f == [d \in DOMAIN tree.dirs |-> ToSet(tree.dirs[d])]
    <3>1. IsFiniteSet(DOMAIN f)
      BY DEF IsTree
    <3>2. D = {f[d] : d \in DOMAIN f}
      OBVIOUS
    <3> HIDE DEF D, f
    <3> QED
      BY <3>1, <3>2, FiniteImage
  <2>2. ASSUME NEW d \in DOMAIN tree.dirs PROVE IsFiniteSet(ToSet(tree.dirs[d]))
    <3> DEFINE s == tree.dirs[d]
    <3>1. s \in Seq(Entry)
      BY DEF IsTree
    <3>2. DOMAIN s = 1 .. Len(s) /\ Len(s) \in Int
      BY <3>1, LenProperties
    <3>3. IsFiniteSet(DOMAIN s)
      BY <3>2, FS_Interval
    <3>4. ToSet(s) = {s[k] : k \in DOMAIN s}
      BY DEF ToSet
    <3> HIDE DEF s
    <3> QED
      BY <3>3, <3>4, FiniteImage DEF s
  <2>3. IsFiniteSet(UNION D)
    BY <2>1, <2>2, FS_UNION
  <2> QED
    BY <2>3, FS_Subset DEF AllFiles, Entries
<1>2. ASSUME NEW e \in AllFiles(tree) PROVE e \in Entry
  <2>1. PICK d \in DOMAIN tree.dirs : e \in ToSet(tree.dirs[d])
    BY DEF AllFiles, Entries
  <2>2. tree.dirs[d] \in Seq(Entry)
    BY DEF IsTree
  <2> QED
    BY <2>1, <2>2, LenProperties, ElementOfSeq DEF ToSet
<1> QED
  BY <1>1, <1>2

\* An archive of some of the files of a source has a size.
LEMMA ArchiveSizes ==
  ASSUME IsTree(tree), length \in [Names -> Nat], NEW S \in SUBSET AllFiles(tree)
  PROVE  ArchiveSize(S) \in Nat
<1>1. IsFiniteSet(S)
  BY FilesFinite, FS_Subset
<1>2. ASSUME NEW e \in S PROVE Blocks(length, e) \in Nat
  <2>1. e \in Entry
    BY FilesFinite
  <2>2. length[e.name] \in Nat
    BY <2>1 DEF Entry
  <2> QED
    BY <2>2, PaddingIsNat, TransferAssumption DEF TransferAssumption, Blocks, FileBlocks
<1>4. Sums(length, S) \in [SUBSET S -> Nat]
  BY <1>1, <1>2, SumsDefined
<1>5. S \in SUBSET S
  OBVIOUS
<1>3. Sums(length, S)[S] \in Nat
  BY <1>4, <1>5
<1> QED
  BY <1>3, SizeIsSum, TransferAssumption DEF TransferAssumption, Trailer

(***************************************************************************)
(* The buffers of an upload: what they hold is bounded, and a completed    *)
(* upload has sent at least what it announced.                             *)
(***************************************************************************)
\* What an upload reads into, and how far it may come.
Filled ==
  /\ changes \in 0 .. MaxChanges /\ disturbed \in BOOLEAN /\ exhausted \in BOOLEAN
  /\ announced \in Nat /\ reads \in Names \cup {Absent} /\ Len(walk) <= MaxDepth
  /\ sent \in Seq(Cell)
  /\ pack.written <= pack.expected /\ pack.padding <= Block /\ pack.trailer <= Trailer
  /\ IsTar => Len(out) <= OutSize
  /\ req.way = "up" /\ (at = "complete" \/ told) => announced <= Len(sent)

LEMMA FilledInit == Init => Filled
<1> USE DEF Filled
<1>0. 0 \in 0 .. MaxChanges /\ 0 <= MaxDepth /\ 0 <= Block /\ 0 <= Trailer /\ 0 <= OutSize
      /\ <<>> \in Seq(Cell) /\ Len(<<>>) = 0
  BY UploadAssumption, TransferAssumption, EmptySeq
  DEF UploadAssumption, TransferAssumption, Trailer, OutSize
<1>a. PackNone.written <= PackNone.expected /\ PackNone.padding = 0 /\ PackNone.trailer = 0
  BY DEF PackNone
<1>1. ASSUME NEW s \in Downloads, DownStarts(s.req, s.content, s.mounts, s.dest), UpIdle PROVE Filled
  <2> QED
    BY <1>0, <1>a, <1>1 DEF UpIdle, DownStarts
<1>2. ASSUME NEW s \in Uploads, UpStarts(s.req, s.tree, s.mounts) PROVE Filled
  <2> QED
    BY <1>0, <1>a, <1>2 DEF UpStarts
<1> QED
  BY <1>1, <1>2 DEF Init

LEMMA FilledKept ==
  ASSUME Filled, UNCHANGED upVars, UNCHANGED req,
         req.way = "up" /\ (at' = "complete" \/ told') => (at = "complete" \/ told)
  PROVE  Filled'
BY DEF Filled, upVars, sourceVars, readVars, packVars, IsTar

LEMMA FilledStart ==
  ASSUME Filled, UpTypes, Control, CommonTypes,
         (\E e \in AllFiles(tree) : Change(e.name)) \/ AskRead \/ ReadInitFails \/ ReadInit
  PROVE  Filled'
<1> USE DEF UpGoto, UpProceed
<1>1. ASSUME NEW n, Change(n) PROVE Filled'
  <2>1. changes' \in 0 .. MaxChanges
    BY <1>1, UploadAssumption DEF UploadAssumption, Filled, Change
  <2> QED
    BY <1>1, <2>1 DEF Filled, Change, IsTar, readVars, packVars, commonVars
<1>2. CASE AskRead
  BY <1>2, FilledKept DEF AskRead, Control, Ways, Answers, Late
<1>3. CASE ReadInitFails
  BY <1>3, FilledKept DEF ReadInitFails
<1>4. CASE ReadInit
  <2>1. /\ UNCHANGED <<changes, exhausted, sent, pack, out, told>> /\ req' = req /\ at' = "data"
        /\ tree' = tree /\ length' = length
    BY <1>4 DEF ReadInit, packVars
  <2>2. ~told
    BY <1>4 DEF ReadInit, Control, Answers, Late
  <2>3. hurt' \in BOOLEAN /\ disturbed' \in BOOLEAN
    BY <1>4 DEF ReadInit, Filled, CommonTypes
  <2>4. Len(<<tree.dirs[Root]>>) <= MaxDepth /\ Len(<<>>) <= MaxDepth
    BY UploadAssumption DEF UploadAssumption
  <2>5. CASE IsTar /\ reads' = Absent /\ walk' = <<tree.dirs[Root]>>
             /\ \E fails \in BOOLEAN : \E files \in Walked(fails) : announced' = ArchiveSize(files)
    <3>1. PICK files \in SUBSET AllFiles(tree) : announced' = ArchiveSize(files)
      BY <2>5 DEF Walked
    <3>2. announced' \in Nat
      BY <3>1, ArchiveSizes DEF UpTypes
    <3> QED
      BY <2>1, <2>2, <2>3, <2>4, <2>5, <3>2 DEF Filled, IsTar
  <2>6. CASE ~IsTar /\ walk' = <<>> /\ reads' = tree.dirs[Root][1].name /\ announced' = length[reads']
    <3>1. tree.type = "file" /\ Root \in DOMAIN tree.dirs
      BY <1>4, <2>6 DEF ReadInit, SourceOk, UpTypes, IsTree
    <3>2. tree.dirs[Root] \in Seq(Entry) /\ Len(tree.dirs[Root]) = 1
      BY <3>1 DEF UpTypes, IsTree
    <3>3. tree.dirs[Root][1] \in Entry
      BY <3>2, ElementOfSeq
    <3>4. reads' \in Names /\ announced' \in Nat
      BY <2>6, <3>3 DEF Entry, UpTypes
    <3> QED
      BY <2>1, <2>2, <2>3, <2>4, <2>6, <3>4 DEF Filled, IsTar
  <2> QED
    BY <1>4, <2>5, <2>6 DEF ReadInit
<1> QED
  BY <1>1, <1>2, <1>3, <1>4

LEMMA FilledPut ==
  ASSUME Filled, UpTypes, Control, PutRefused \/ PutConnects \/ PutTar \/ PutFile \/ ReadFails
  PROVE  Filled'
<1> USE DEF UpGoto, UpProceed, PutFailsWith
<1>1. CASE PutRefused \/ PutConnects \/ ReadFails
  BY <1>1, FilledKept DEF PutRefused, PutConnects, ReadFails
<1>2. CASE PutTar
  <2>1. Len(<<>>) <= OutSize
    BY TransferAssumption DEF TransferAssumption, OutSize
  <2> QED
    BY <1>2, <2>1 DEF PutTar, Filled, IsTar, sourceVars, readVars
<1>3. CASE PutFile
  <2>1. UNCHANGED <<changes, disturbed, announced, walk, reads, pack, sent, told>> /\ req' = req
        /\ at' = "send"
    BY <1>3 DEF PutFile, sourceVars
  <2>2. exhausted' \in BOOLEAN /\ ~IsTar
    BY <1>3 DEF PutFile
  <2> QED
    BY <2>1, <2>2 DEF Filled, IsTar
<1> QED
  BY <1>1, <1>2, <1>3

\* A step in the middle of the packing.
LEMMA Refilled ==
  ASSUME Filled, UNCHANGED <<req, told, changes, announced, sent>>, at' # "complete",
         disturbed' \in BOOLEAN, exhausted' \in BOOLEAN, reads' \in Names \cup {Absent},
         Len(walk') <= MaxDepth, Len(out') <= OutSize,
         pack'.written <= pack'.expected, pack'.padding <= Block, pack'.trailer <= Trailer
  PROVE  Filled'
BY DEF Filled, IsTar

LEMMA ZerosFit ==
  ASSUME UpTypes, NEW n \in Int, n <= Space, Space > 0
  PROVE  Len(out \o Zeros(n)) <= OutSize
<1>1. Len(out) \in Nat /\ OutSize \in Nat
  BY LenProperties, TransferAssumption DEF UpTypes, TransferAssumption, OutSize
<1>2. Zeros(n) \in Seq(Cell)
  BY CellSeqs
<1>3. Len(Zeros(n)) = IF n > 0 THEN n ELSE 0
  <2>1. CASE n >= 0
    <3>1. Zeros(n) \in [1 .. n -> {Zero}]
      BY DEF Zeros
    <3> QED
      BY <2>1, <3>1
  <2>2. CASE n < 0
    <3>1. 1 .. n = 1 .. 0
      BY <2>2
    <3>2. Zeros(n) = Zeros(0)
      BY <3>1 DEF Zeros
    <3>3. Zeros(0) \in [1 .. 0 -> {Zero}]
      BY DEF Zeros
    <3> QED
      BY <2>2, <3>2, <3>3
  <2> QED
    BY <2>1, <2>2
<1> QED
  BY <1>1, <1>2, <1>3, ConcatProperties DEF UpTypes, Space

LEMMA FilledPack ==
  ASSUME Filled, UpTypes, Control, Pack
  PROVE  Filled'
<1> USE DEF UpGoto, UpProceed, PutFailsWith, InPack, Entering, PackRest
<1>0. at = "pack" /\ IsTar /\ UNCHANGED <<req, told, changes, announced, sent>>
      /\ (at' \in {"pack", "send"} \/ at' = "abort")
  BY DEF Pack, PackStops, Ascend, EnterDirectory, PassOther, NextFile, EntryFails, NoMoreFiles,
     PackHeader, PackHeaderFails, PackData, PackDataTruncated, PackPadding, PackTrailer, PackRefuses,
     UpTypes, sourceVars, readVars, packVars
<1>w. walk \in Seq(Seq(Known)) /\ Len(walk) \in Nat
  BY LenProperties DEF UpTypes
<1>1. CASE PackStops
  <2>1. UNCHANGED <<disturbed, walk, reads, pack, out>> /\ exhausted' \in BOOLEAN
    BY <1>1 DEF PackStops, sourceVars, readVars
  <2> QED
    BY <1>0, <2>1, Refilled DEF Filled
<1>2. CASE PackHeaderFails \/ PackDataTruncated
  <2>1. UNCHANGED <<disturbed, walk, reads, pack, out, exhausted>>
    BY <1>2 DEF PackHeaderFails, PackDataTruncated, PackRefuses, packVars
  <2> QED
    BY <1>0, <2>1, Refilled DEF Filled
<1>3. CASE Ascend \/ EnterDirectory \/ PassOther \/ EntryFails
  <2>1. /\ UNCHANGED <<pack, out, exhausted>> /\ reads' = Absent /\ disturbed' \in BOOLEAN /\ walk # <<>>
    BY <1>3 DEF Ascend, EnterDirectory, PassOther, EntryFails, PackRefuses, packVars, Filled
  <2>2. Len(Taken) = Len(walk)
    BY DEF Taken
  <2>3. Len(walk') <= MaxDepth
    <3>1. CASE Ascend
      <4>1. Len(Front(walk)) <= Len(walk)
        <5>1. Len(walk) # 0
          BY <1>w, <2>1, EmptySeq
        <5>2. \A i \in 1 .. Len(walk) - 1 : walk[i] \in Seq(Known)
          BY <1>w, ElementOfSeq
        <5> QED
          BY <1>w, <5>1, <5>2, SubSeqProperties DEF Front
      <4> QED
        BY <1>w, <3>1, <4>1, UploadAssumption DEF Ascend, Filled, UploadAssumption
    <3>2. CASE PassOther \/ EntryFails
      BY <2>2, <3>2 DEF PassOther, EntryFails, Filled
    <3>3. CASE EnterDirectory
      <4>1. Head(Deepest) \in Known /\ Taken \in Seq(Seq(Known)) /\ Head(Deepest).kind = "dir"
        BY <2>1, <3>3, NextEntry DEF EnterDirectory
      <4>2. tree.dirs[Head(Deepest).name] \in Seq(Known)
        BY <4>1, KnownDirectories DEF Known, UpTypes
      <4>3. Len(Append(Taken, tree.dirs[Head(Deepest).name])) = Len(Taken) + 1
        BY <4>1, <4>2, AppendProperties
      <4> QED
        BY <1>w, <2>2, <3>3, <4>3, UploadAssumption DEF EnterDirectory, Filled, UploadAssumption
    <3> QED
      BY <1>3, <3>1, <3>2, <3>3
  <2> QED
    BY <1>0, <2>1, <2>3, Refilled DEF Filled
<1>4. CASE NextFile
  <2>1. walk # <<>> /\ Deepest # <<>> /\ reads' = Head(Deepest).name /\ walk' = Taken
    BY <1>4 DEF NextFile
  <2>2. reads' \in Names
    BY <2>1, NextEntry DEF Known, Entry
  <2>3. length[reads'] \in Nat
    BY <2>2 DEF UpTypes
  <2>4. Len(walk') = Len(walk)
    BY <2>1 DEF Taken
  <2>5. UNCHANGED <<out, disturbed, exhausted>>
    BY <1>4 DEF NextFile
  <2>6. pack'.written = 0 /\ pack'.expected = length[reads'] /\ pack'.padding = pack.padding
        /\ pack'.trailer = pack.trailer
    BY <1>4 DEF NextFile, UpTypes, PackRecord
  <2> QED
    BY <1>0, <2>2, <2>3, <2>4, <2>5, <2>6, Refilled DEF Filled
<1>5. CASE NoMoreFiles
  <2>1. UNCHANGED <<walk, out, disturbed, exhausted>> /\ reads' = Absent
    BY <1>5 DEF NoMoreFiles
  <2>2. pack'.trailer = 0 /\ pack'.written = pack.written /\ pack'.expected = pack.expected
        /\ pack'.padding = pack.padding
    BY <1>5 DEF NoMoreFiles, UpTypes, PackRecord
  <2>3. 0 <= Trailer
    BY TransferAssumption DEF TransferAssumption, Trailer
  <2> QED
    BY <1>0, <2>1, <2>2, <2>3, Refilled DEF Filled
<1>6. CASE PackHeader
  <2>1. UNCHANGED <<walk, reads, disturbed, exhausted>>
    BY <1>6 DEF PackHeader
  <2>2. pack'.trailer = pack.trailer /\ pack'.written = pack.written /\ pack'.expected = pack.expected
        /\ pack'.padding = pack.padding
    BY <1>6 DEF PackHeader, UpTypes, PackRecord
  <2>3. Len(listing') \in Nat
    <3>1. [pack.entry EXCEPT !.size = pack.expected] \in Entry
      BY <1>6 DEF PackHeader, UpTypes, Entry, PackRecord
    <3> QED
      BY <1>6, <3>1, AppendProperties, LenProperties DEF PackHeader, UpTypes
  <2>4. HeaderOf(Len(listing')) \in Seq(Cell) /\ Len(HeaderOf(Len(listing'))) = Block
    BY <2>3, CellSeqs, TransferAssumption DEF TransferAssumption, HeaderOf
  <2>5. out' = out \o HeaderOf(Len(listing')) /\ OutSize - Len(out) >= Block
    BY <1>6 DEF PackHeader, Space
  <2>6. Len(out') <= OutSize
    BY <2>4, <2>5, ConcatProperties, LenProperties, TransferAssumption
    DEF UpTypes, TransferAssumption, OutSize
  <2> QED
    BY <1>0, <2>1, <2>2, <2>6, Refilled DEF Filled
<1>7. CASE PackData
  <2>1. UNCHANGED <<walk, reads, disturbed, exhausted>>
    BY <1>7 DEF PackData
  <2> DEFINE n == Readable(DataSpace)
  <2>2. reads \in Names /\ length[reads] \in Nat /\ offset \in Nat
    BY <1>0, <1>7 DEF PackData, UpTypes, Control, Ways, Reading
  <2>3. Space \in Int /\ DataSpace \in Int /\ DataSpace <= Space
        /\ DataSpace <= pack.expected - pack.written
    BY Packed, EmptySeq, UploadAssumption DEF UploadAssumption, DataSpace, Min2, UpTypes, PackRecord
  <2>4. n \in Nat /\ n <= DataSpace
    BY <1>7, <2>2, <2>3 DEF PackData, Readable, Min2
  <2>5. pack'.trailer = pack.trailer /\ pack'.written = pack.written + n /\ pack'.expected = pack.expected
        /\ pack'.padding = 0
    BY <1>7 DEF PackData, UpTypes, PackRecord
  <2>6. Len(listing) \in Nat
    BY LenProperties DEF UpTypes
  <2>7. BytesOf(Len(listing), n) \in Seq(Cell) /\ Len(BytesOf(Len(listing), n)) = n
    <3>1. BytesOf(Len(listing), n) \in Seq(Cell)
      BY <2>2, <2>3, <2>4, <2>6, ReadableBytes
    <3> HIDE DEF n
    <3> QED
      BY <2>4, <3>1 DEF BytesOf
  <2>8. out' = out \o BytesOf(Len(listing), n)
    BY <1>7 DEF PackData
  <2>9. Len(out') <= OutSize
    <3> HIDE DEF n
    <3>1. Len(out') = Len(out) + n /\ Len(out) \in Nat
      BY <2>7, <2>8, ConcatProperties, LenProperties DEF UpTypes
    <3> QED
      BY <2>3, <2>4, <3>1, TransferAssumption DEF Space, TransferAssumption, OutSize
  <2>10. pack.written + n <= pack.expected /\ 0 <= Block
    <3> HIDE DEF n
    <3> QED
      BY <2>3, <2>4, TransferAssumption DEF TransferAssumption, UpTypes, PackRecord
  <2> HIDE DEF n
  <2> QED
    BY <1>0, <2>1, <2>5, <2>9, <2>10, Refilled DEF Filled
<1>8. CASE PackPadding
  <2>1. UNCHANGED <<walk, reads, disturbed, exhausted>>
    BY <1>8 DEF PackPadding
  <2> DEFINE n == Min2(Space, Padding(pack.expected) - pack.padding)
  <2>2. pack.expected \in Nat /\ pack.padding \in Int
    BY DEF UpTypes, PackRecord
  <2>3. Padding(pack.expected) \in Nat /\ Padding(pack.expected) <= Block
    BY <2>2, PaddingIsNat, TransferAssumption DEF TransferAssumption, Padding
  <2>4. n \in Int /\ n <= Space /\ pack.padding + n <= Block /\ Space \in Int /\ Space > 0
    <3>0. Space > 0
      BY <1>8 DEF PackPadding
    <3>s. Space \in Int
      BY Packed, EmptySeq
    <3>1. Space \in Int /\ Space > 0 /\ Block \in Int
      BY <3>0, <3>s, TransferAssumption DEF TransferAssumption
    <3> DEFINE p == Padding(pack.expected)
    <3>2. p \in Nat /\ p <= Block
      BY <2>3
    <3> HIDE DEF p
    <3>3. Min2(Space, p - pack.padding) \in Int /\ Min2(Space, p - pack.padding) <= Space
          /\ pack.padding + Min2(Space, p - pack.padding) <= Block
      BY <2>2, <3>1, <3>2 DEF Min2
    <3> QED
      BY <3>1, <3>3 DEF p
  <2>5. pack'.trailer = pack.trailer /\ pack'.written = pack.written /\ pack'.expected = pack.expected
        /\ pack'.padding = pack.padding + n
    BY <1>8 DEF PackPadding, UpTypes, PackRecord
  <2>6. out' = out \o Zeros(n)
    BY <1>8 DEF PackPadding
  <2> HIDE DEF n
  <2>7. Len(out') <= OutSize
    BY <2>4, <2>6, ZerosFit
  <2> QED
    BY <1>0, <2>1, <2>4, <2>5, <2>7, Refilled DEF Filled
<1>9. CASE PackTrailer
  <2>1. UNCHANGED <<walk, reads, disturbed, exhausted>>
    BY <1>9 DEF PackTrailer
  <2> DEFINE n == Min2(Space, Trailer - pack.trailer)
  <2>4. n \in Int /\ n <= Space /\ pack.trailer + n <= Trailer /\ Space \in Int /\ Space > 0
    BY <1>9, Packed, EmptySeq, TransferAssumption, SMTT(40)
    DEF TransferAssumption, Min2, PackTrailer, Trailer, UpTypes, PackRecord
  <2>5. pack'.trailer = pack.trailer + n /\ pack'.written = pack.written /\ pack'.expected = pack.expected
        /\ pack'.padding = pack.padding
    BY <1>9 DEF PackTrailer, UpTypes, PackRecord
  <2>6. out' = out \o Zeros(n)
    BY <1>9 DEF PackTrailer
  <2> HIDE DEF n
  <2>7. Len(out') <= OutSize
    BY <2>4, <2>6, ZerosFit
  <2> QED
    BY <1>0, <2>1, <2>4, <2>5, <2>7, Refilled DEF Filled
<1> QED
  BY <1>1, <1>2, <1>3, <1>4, <1>5, <1>6, <1>7, <1>8, <1>9 DEF Pack

LEMMA FilledEnd ==
  ASSUME Filled, UpTypes, Control,
         \/ SendChunk \/ SendFails \/ ServerAccepts \/ ServerRefuses
         \/ ReadComplete \/ ReadAbort \/ (UpCommon /\ UNCHANGED upVars)
  PROVE  Filled'
<1> USE DEF UpGoto, UpProceed, PutFailsWith
<1>1. CASE SendChunk
  <2>1. UNCHANGED <<req, told, changes, announced, disturbed, exhausted, reads, walk, out, pack>>
    BY <1>1 DEF SendChunk, sourceVars, readVars, packVars
  <2>2. sent' \in Seq(Cell)
    BY <1>1, ConcatProperties DEF SendChunk, Filled, UpTypes
  <2>3. at' # "complete" /\ ~told
    BY <1>1 DEF SendChunk, Control, Answers, Late
  <2> QED
    BY <2>1, <2>2, <2>3 DEF Filled, IsTar
<1>2. CASE SendFails \/ ServerRefuses
  BY <1>2, FilledKept DEF SendFails, ServerRefuses
<1>3. CASE ServerAccepts
  BY <1>3 DEF ServerAccepts, Filled, IsTar, upVars, sourceVars, readVars, packVars
<1>4. CASE ReadComplete \/ ReadAbort
  <2>1. UNCHANGED <<req, changes, announced, disturbed, exhausted, out, pack, sent>>
        /\ walk' = <<>> /\ reads' = Absent /\ at' = "destroy"
    BY <1>4 DEF ReadComplete, ReadAbort, sourceVars, packVars
  <2>2. 0 <= MaxDepth /\ Len(<<>>) = 0
    BY UploadAssumption DEF UploadAssumption
  <2>3. told' => at = "complete" \/ told
    BY <1>4 DEF ReadComplete, ReadAbort
  <2> QED
    BY <2>1, <2>2, <2>3 DEF Filled, IsTar
<1>5. CASE UpCommon /\ UNCHANGED upVars
  <2>1. req' = req /\ told' = told
    BY <1>5 DEF UpCommon, RefuseRequest, DataNew, DataFails, DataDestroy, Respond, Work
  <2>2. at' = "complete" => at = "complete"
    BY <1>5 DEF UpCommon, RefuseRequest, DataNew, DataFails, DataDestroy, Respond, Work
  <2> QED
    BY <1>5, <2>1, <2>2, FilledKept
<1> QED
  BY <1>1, <1>2, <1>3, <1>4, <1>5

LEMMA FilledStep == ASSUME Filled, UpTypes, Control, CommonTypes, [Next]_vars PROVE Filled'
<1>1. CASE DownNext /\ UNCHANGED upVars
  <2>1. req.way = "down" /\ req' = req
    BY <1>1, DownRequest
  <2> QED
    BY <1>1, <2>1, FilledKept
<1>2. CASE UpNext
  BY <1>2, FilledStart, FilledPut, FilledPack, FilledEnd DEF UpNext, UpCommon
<1>3. CASE Handover
  <2>1. req'.way = "down" /\ req'.encoding = req.encoding /\ UNCHANGED upVars
    BY <1>3 DEF Handover, Control, Ways
  <2> QED
    BY <2>1 DEF Filled, upVars, sourceVars, readVars, packVars, IsTar
<1>4. CASE UNCHANGED vars
  <2>1. UNCHANGED <<at, req, told>> /\ UNCHANGED upVars
    BY <1>4 DEF vars, commonVars
  <2> QED
    BY <2>1, FilledKept
<1> QED
  BY <1>1, <1>2, <1>3, <1>4 DEF Next, Rest

(***************************************************************************)
(* The state of a download: the reader of an archive and the files that it *)
(* writes.                                                                 *)
(***************************************************************************)
TarState  == {"none", "header", "data", "padding", "trailer"}
TarRecord == [state : TarState, header : Seq(Cell), of : Nat, file : Nat, padding : Nat, trailer : Nat]
Contents  == Seq(Cell) \cup {Absent}

\* How far the reader of an archive is.
Tarred ==
  /\ tar \in TarRecord /\ Len(tar.header) <= Block /\ tar.trailer <= Trailer
  /\ tar.state \in {"data", "padding"} => tar.of \in DOMAIN content.entries
  /\ tar.state = "data" => tar.file <= FileSize
  /\ tar.state = "padding" => tar.padding <= Padding(FileSize)

\* What a download reads from and writes to.
Streamed ==
  /\ IsContent(content) /\ got \in 0 .. Len(content.cells) /\ last \in BOOLEAN
  /\ chunk \in Seq(Cell) /\ held \in Seq(Cell) /\ hash \in BOOLEAN /\ decomp \in BOOLEAN
  /\ root \in Destination /\ before \in Destination
  /\ disk \in [Names -> Contents]
  /\ open # Absent => open \in Names /\ disk[open] # Absent
  /\ req.way = "up" => chunk = <<>> /\ got = 0 /\ tar = TarNone
  /\ req.way = "down" /\ req.encoding \in {"none", "lz4"} => Len(content.entries) = 1
  /\ at = "init" => req.encoding # "unsupported"
  /\ req.way = "down" /\ ~Tar /\ at \in {"data", "digest", "request", "http", "chunk"} => open # Absent

DownTypes == Streamed /\ Tarred

LEMMA TarNoneIs ==
  /\ TarNone \in TarRecord /\ TarNone.state = "none" /\ Len(TarNone.header) = 0 /\ TarNone.trailer = 0
  /\ TarNone.of = 0
BY EmptySeq DEF TarNone, TarRecord, TarState

LEMMA DownTypesInit == Init => DownTypes
<1>1. tar = TarNone => Tarred
  BY TarNoneIs, TransferAssumption DEF Tarred, TransferAssumption, Trailer
<1>2. Nothing \in [Names -> Contents] /\ <<>> \in Seq(Cell)
  BY EmptySeq DEF Nothing, Contents
<1>3. ASSUME NEW s \in Downloads, DownStarts(s.req, s.content, s.mounts, s.dest) PROVE DownTypes
  <2>1. /\ s.req \in Request /\ s.req.way = "down" /\ IsContent(s.content) /\ s.dest \in Destination
        /\ s.req.encoding \in {"none", "lz4"} => Len(s.content.entries) = 1
    BY ArchiveAssumption DEF ArchiveAssumption
  <2>2. Len(s.content.cells) \in Nat
    BY <2>1, LenProperties DEF IsContent
  <2>3. /\ at = "asked" /\ req = s.req /\ content = s.content /\ root = s.dest /\ before = s.dest
        /\ got = 0 /\ chunk = <<>> /\ last = FALSE /\ hash = FALSE /\ decomp = FALSE /\ held = <<>>
        /\ tar = TarNone /\ disk = Nothing /\ open = Absent
    BY <1>3 DEF DownStarts
  <2>4. IsContent(content) /\ got \in 0 .. Len(content.cells)
    <3>1. \A n \in Nat : 0 \in 0 .. n
      OBVIOUS
    <3> QED
      BY <2>1, <2>2, <2>3, <3>1
  <2>5. Tarred
    BY <1>1, <2>3
  <2> QED
    BY <1>2, <2>1, <2>3, <2>4, <2>5 DEF DownTypes, Streamed
<1>4. ASSUME NEW s \in Uploads, UpStarts(s.req, s.tree, s.mounts), DownIdle PROVE DownTypes
  <2>1. s.req.way = "up"
    BY ArchiveAssumption DEF ArchiveAssumption
  <2>2. IsContent(NoContent) /\ Len(NoContent.cells) = 0
    BY <1>2, EmptySeq DEF NoContent, IsContent, Nothing
  <2>3. "absent" \in Destination
    BY DEF Destination
  <2>4. /\ at = "asked" /\ req = s.req /\ content = NoContent /\ root = "absent" /\ before = "absent"
        /\ got = 0 /\ chunk = <<>> /\ last = FALSE /\ hash = FALSE /\ decomp = FALSE /\ held = <<>>
        /\ tar = TarNone /\ disk = Nothing /\ open = Absent
    BY <1>4 DEF UpStarts, DownIdle
  <2>5. IsContent(content) /\ got \in 0 .. Len(content.cells)
    BY <2>2, <2>4
  <2>6. Tarred
    BY <1>1, <2>4
  <2> QED
    BY <1>2, <2>1, <2>3, <2>4, <2>5, <2>6 DEF DownTypes, Streamed
<1> QED
  BY <1>3, <1>4 DEF Init

\* The parts of a chunk.
LEMMA Cuts ==
  ASSUME chunk \in Seq(Cell), NEW n \in 0 .. Len(chunk)
  PROVE  /\ First(n) \in Seq(Cell) /\ Len(First(n)) = n
         /\ \A k \in 1 .. n : First(n)[k] = chunk[k]
         /\ After(n) \in Seq(Cell) /\ Len(After(n)) = Len(chunk) - n
         /\ \A k \in 1 .. Len(chunk) - n : After(n)[k] = chunk[n + k]
<1>1. Len(chunk) \in Nat /\ \A k \in 1 .. Len(chunk) : chunk[k] \in Cell
  BY LenProperties, ElementOfSeq
<1>2. /\ First(n) \in Seq(Cell) /\ Len(First(n)) = n
      /\ \A k \in 1 .. n : First(n)[k] = chunk[k]
  BY <1>1, SubSeqProperties DEF First
<1>3. /\ After(n) \in Seq(Cell) /\ Len(After(n)) = Len(chunk) - n
      /\ \A k \in 1 .. Len(chunk) - n : After(n)[k] = chunk[n + k]
  BY <1>1, SubSeqProperties DEF After
<1> QED
  BY <1>2, <1>3

\* The files after some bytes were added to the one that is open.
LEMMA AppendedTypes ==
  ASSUME Streamed, open # Absent, NEW s \in Seq(Cell)
  PROVE  /\ Appended(s) \in [Names -> Contents] /\ Appended(s)[open] \in Seq(Cell)
         /\ Appended(s)[open] = disk[open] \o s /\ Appended(s)[open] # Absent
         /\ \A n \in Names \ {open} : Appended(s)[n] = disk[n]
<1>1. open \in Names /\ disk[open] \in Seq(Cell)
  BY DEF Streamed, Contents
<1>2. disk[open] \o s \in Seq(Cell)
  BY <1>1, ConcatProperties
<1> QED
  BY <1>1, <1>2, AbsentAssumption DEF Streamed, Contents, Appended, AbsentAssumption

\* A file that is made.
LEMMA MadeTypes ==
  ASSUME Streamed, NEW n \in Names
  PROVE  /\ [disk EXCEPT ![n] = <<>>] \in [Names -> Contents] /\ [disk EXCEPT ![n] = <<>>][n] # Absent
         /\ n # Absent
BY EmptySeq, AbsentAssumption DEF Streamed, Contents, AbsentAssumption

LEMMA StreamedKept ==
  ASSUME Streamed, UNCHANGED <<req, content>>, tar' = tar \/ req.way = "down",
         got' \in 0 .. Len(content.cells), last' \in BOOLEAN, req.way = "down" \/ UNCHANGED <<chunk, got>>,
         chunk' \in Seq(Cell), held' \in Seq(Cell), hash' \in BOOLEAN, decomp' \in BOOLEAN,
         root' \in Destination, before' \in Destination, disk' \in [Names -> Contents],
         open' # Absent => open' \in Names /\ disk'[open'] # Absent,
         at' = "init" => req.encoding # "unsupported",
         req.way = "down" /\ ~Tar /\ at' \in {"data", "digest", "request", "http", "chunk"}
           => open' # Absent
  PROVE  Streamed'
BY DEF Streamed, IsContent, Tar, TarNone

LEMMA TarredKept == ASSUME Tarred, UNCHANGED <<content, tar>> PROVE Tarred'
BY DEF Tarred, FileSize

LEMMA ContentKept == ASSUME DownNext PROVE content' = content /\ before' = before
<1> USE DEF Goto, Proceed, FailsWith, Refuse, ChunkDone, TarRest, TarRefuses, ReadHeader,
        downVars, streamVars, codecVars, diskVars
<1>1. CASE CheckSize \/ WriteInitRefuses \/ WriteInitFails \/ WriteInit \/ SetupDigest
  BY <1>1 DEF CheckSize, WriteInitRefuses, WriteInitFails, WriteInit, SetupDigest
<1>2. CASE Http
  BY <1>2 DEF Http, HttpConnects, HttpGetFails, ReceiveFails, Receive, AppendChunk, AppendFails,
     DecompressFails, Decompress
<1>3. CASE Unpack
  BY <1>3 DEF Unpack, HeaderPart, HeaderOfZeros, HeaderRefused, HeaderSkipped, HeaderOpens,
     HeaderOpenFails, ReadData, ReadDataNowhere, ReadPadding, ReadPaddingRefused, ReadTrailer,
     ReadTrailerRefused, TarChunkEnds, TarNotExhausted
<1>4. CASE VerifyDigest \/ WriteComplete \/ WriteAbort \/ DownCommon
  BY <1>4 DEF VerifyDigest, WriteComplete, WriteAbort, DownCommon
<1> QED
  BY <1>1, <1>2, <1>3, <1>4 DEF DownNext

LEMMA StreamedStart ==
  ASSUME Streamed, Control, CommonTypes,
         CheckSize \/ WriteInitRefuses \/ WriteInitFails \/ WriteInit \/ SetupDigest
  PROVE  Streamed'
<1> USE DEF Goto, Proceed, FailsWith, codecVars, diskVars, downVars, streamVars
<1>1. CASE CheckSize
  BY <1>1, StreamedKept DEF Streamed, CheckSize, ValidRequest
<1>2. CASE WriteInitRefuses \/ WriteInitFails
  <2>1. root' \in Destination
    BY <1>2 DEF WriteInitRefuses, WriteInitFails, Made, Streamed, Destination
  <2> QED
    BY <1>2, <2>1, StreamedKept DEF Streamed, WriteInitRefuses, WriteInitFails
<1>3. CASE WriteInit
  <2>1. root' \in Destination /\ at' = "data"
    BY <1>3 DEF WriteInit, Destination
  <2>2. UNCHANGED <<req, content, tar, got, last, chunk, held, hash, decomp, before>>
    BY <1>3 DEF WriteInit
  <2>3. CASE Tar
    BY <1>3, <2>1, <2>2, <2>3, StreamedKept DEF Streamed, WriteInit
  <2>4. CASE ~Tar
    <3>1. req.encoding \in {"none", "lz4"} /\ req.way = "down"
      BY <1>3, <2>4 DEF WriteInit, Streamed, Tar, CommonTypes, Request, Encodings, Control, Ways
    <3>2. Len(content.entries) = 1 /\ content.entries \in Seq(Entry)
      BY <3>1 DEF Streamed, IsContent
    <3>3. content.entries[1] \in Entry
      BY <3>2, ElementOfSeq
    <3>4. open' \in Names /\ disk' = [disk EXCEPT ![open'] = <<>>]
      BY <1>3, <2>4, <3>3 DEF WriteInit, Entry
    <3>5. disk' \in [Names -> Contents] /\ disk'[open'] # Absent /\ open' # Absent
      BY <3>4, MadeTypes
    <3> QED
      BY <2>1, <2>2, <3>4, <3>5, StreamedKept DEF Streamed
  <2> QED
    BY <2>3, <2>4
<1>4. CASE SetupDigest
  BY <1>4, StreamedKept DEF Streamed, SetupDigest
<1> QED
  BY <1>1, <1>2, <1>3, <1>4

LEMMA StreamedHttp ==
  ASSUME Streamed, Control, Http
  PROVE  Streamed'
<1> USE DEF Goto, Proceed, FailsWith, Refuse, ChunkDone, codecVars, diskVars, downVars, streamVars
<1>1. CASE HttpConnects \/ HttpGetFails \/ ReceiveFails
  BY <1>1, StreamedKept DEF Streamed, HttpConnects, HttpGetFails, ReceiveFails
<1>2. ASSUME NEW n \in Pieces, NEW final \in BOOLEAN, Receive(n, final) PROVE Streamed'
  <2>1. n \in Nat /\ Len(content.cells) \in Nat /\ got + n <= Len(content.cells)
        /\ content.cells \in Seq(Cell) /\ got \in Nat
    BY <1>2, DownloadAssumption, LenProperties DEF DownloadAssumption, Receive, Streamed, IsContent
  <2>2. chunk' \in Seq(Cell)
    <3>1. \A i \in got + 1 .. got + n : content.cells[i] \in Cell
      BY <2>1, ElementOfSeq
    <3> QED
      BY <1>2, <2>1, <3>1, SubSeqProperties DEF Receive
  <2>3. /\ UNCHANGED <<req, content, held, hash, root, before, disk, open>>
        /\ got' = got + n /\ last' \in BOOLEAN /\ decomp' \in BOOLEAN /\ at = "http" /\ at' = "chunk"
    BY <1>2 DEF Receive
  <2>4. req.way = "down"
    BY <2>3 DEF Control, Ways
  <2> QED
    BY <2>1, <2>2, <2>3, <2>4, StreamedKept DEF Streamed
<1>3. CASE AppendChunk
  <2>1. open # Absent /\ <<>> \in Seq(Cell) /\ req.way = "down"
    BY <1>3, EmptySeq DEF AppendChunk, Streamed, Tar, Control, Ways
  <2>2. disk' \in [Names -> Contents] /\ disk'[open] # Absent
    BY <1>3, <2>1, AppendedTypes DEF AppendChunk, Streamed
  <2> QED
    BY <1>3, <2>1, <2>2, StreamedKept DEF AppendChunk, Streamed
<1>4. CASE AppendFails
  <2>1. PICK n \in 0 .. Len(chunk) - 1 : disk' = Appended(First(n))
    BY <1>4 DEF AppendFails
  <2>2. open # Absent /\ First(n) \in Seq(Cell)
    BY <1>4, Cuts, LenProperties DEF AppendFails, Streamed
  <2>3. disk' \in [Names -> Contents] /\ disk'[open] # Absent
    BY <2>1, <2>2, AppendedTypes
  <2> QED
    BY <1>4, <2>2, <2>3, StreamedKept DEF AppendFails, Streamed
<1>5. ASSUME NEW n \in 0 .. Len(held) + Len(chunk), Decompress(n) \/ DecompressFails(n) PROVE Streamed'
  <2> DEFINE all == Input
  <2>1. all \in Seq(Cell) /\ Len(all) = Len(held) + Len(chunk) /\ Len(held) + Len(chunk) \in Nat
    BY ConcatProperties, LenProperties DEF Streamed, Input
  <2>2. SubSeq(all, 1, n) \in Seq(Cell) /\ SubSeq(all, n + 1, Len(all)) \in Seq(Cell)
    <3>1. \A i \in 1 .. Len(all) : all[i] \in Cell
      BY <2>1, ElementOfSeq
    <3> HIDE DEF all
    <3> QED
      BY <2>1, <3>1, SubSeqProperties
  <2>3. open # Absent /\ <<>> \in Seq(Cell) /\ req.way = "down"
    BY <1>5, EmptySeq DEF Decompress, DecompressFails, Streamed, Tar, Control, Ways
  <2>4. disk' = Appended(SubSeq(all, 1, n)) /\ held' \in {held, SubSeq(all, n + 1, Len(all))}
    BY <1>5 DEF Decompress, DecompressFails
  <2> HIDE DEF all
  <2>5. disk' \in [Names -> Contents] /\ disk'[open] # Absent
    BY <2>2, <2>3, <2>4, AppendedTypes
  <2> QED
    BY <1>5, <2>2, <2>3, <2>4, <2>5, StreamedKept DEF Decompress, DecompressFails, Streamed
<1> QED
  BY <1>1, <1>2, <1>3, <1>4, <1>5 DEF Http

\* A change of the file that is open, the bytes of a chunk read up to some place.
LEMMA StreamedUnpack ==
  ASSUME Streamed, Tarred, Control, Unpack
  PROVE  Streamed'
<1> USE DEF Goto, Proceed, FailsWith, Refuse, ChunkDone, codecVars, diskVars, downVars, streamVars,
            TarRest, TarRefuses, ReadHeader, InTar
<1>0. at = "chunk" /\ Tar /\ req.way = "down" /\ req' = req /\ at' # "init" /\ content' = content
  BY DEF Unpack, TarChunkEnds, TarNotExhausted, HeaderPart, HeaderOfZeros, HeaderRefused, HeaderSkipped, HeaderOpens,
     HeaderOpenFails, ReadData, ReadDataNowhere, ReadPadding, ReadPaddingRefused, ReadTrailer,
     ReadTrailerRefused, Control, Ways
<1>c. Len(chunk) \in Nat
  BY LenProperties DEF Streamed
<1>k. /\ got \in 0 .. Len(content.cells) /\ last \in BOOLEAN /\ held \in Seq(Cell) /\ hash \in BOOLEAN
      /\ decomp \in BOOLEAN /\ root \in Destination /\ before \in Destination
      /\ disk \in [Names -> Contents] /\ chunk \in Seq(Cell)
      /\ open # Absent => open \in Names /\ disk[open] # Absent
  BY DEF Streamed
<1>h. HeaderTake \in 0 .. Len(chunk)
  BY <1>c, LenProperties, TransferAssumption DEF HeaderTake, Min2, Tarred, TarRecord, TransferAssumption
<1>1. CASE HeaderPart \/ HeaderOfZeros \/ (\E i \in DOMAIN content.entries : HeaderSkipped(i))
  <2>1. chunk' = After(HeaderTake) /\ UNCHANGED <<disk, open, got, last, held, hash, decomp, root, before>>
    BY <1>1 DEF HeaderPart, HeaderOfZeros, HeaderSkipped
  <2>2. chunk' \in Seq(Cell)
    BY <1>h, <1>k, <2>1, Cuts
  <2> QED
    BY <1>0, <1>k, <2>1, <2>2, StreamedKept
<1>2. CASE HeaderRefused \/ ReadDataNowhere \/ ReadPaddingRefused \/ ReadTrailerRefused
           \/ TarChunkEnds \/ TarNotExhausted
  <2>1. UNCHANGED <<chunk, disk, open, got, last, held, hash, decomp, root, before>>
    BY <1>2
    DEF HeaderRefused, ReadDataNowhere, ReadPaddingRefused, ReadTrailerRefused, TarChunkEnds, TarNotExhausted
  <2> QED
    BY <1>0, <1>k, <2>1, StreamedKept
<1>3. ASSUME NEW i \in DOMAIN content.entries, HeaderOpens(i) PROVE Streamed'
  <2>1. content.entries[i] \in Entry
    BY LenProperties, ElementOfSeq DEF Streamed, IsContent
  <2>2. open' \in Names /\ disk' = [disk EXCEPT ![open'] = <<>>]
    BY <1>3, <2>1 DEF HeaderOpens, FileName, Entry
  <2>3. disk' \in [Names -> Contents] /\ disk'[open'] # Absent
    BY <2>2, MadeTypes
  <2>4. chunk' = After(HeaderTake) /\ UNCHANGED <<got, last, held, hash, decomp, root, before>>
    BY <1>3 DEF HeaderOpens
  <2>5. chunk' \in Seq(Cell)
    BY <1>h, <1>k, <2>4, Cuts
  <2> QED
    BY <1>0, <1>k, <2>2, <2>3, <2>4, <2>5, StreamedKept
<1>4. ASSUME NEW i \in DOMAIN content.entries, HeaderOpenFails(i) PROVE Streamed'
  <2>1. open' = Absent /\ UNCHANGED <<chunk, disk, got, last, held, hash, decomp, root, before>>
    BY <1>4 DEF HeaderOpenFails
  <2> QED
    BY <1>0, <1>k, <2>1, StreamedKept
<1>5. CASE ReadData
  <2> DEFINE n == Min2(Len(chunk), FileSize - tar.file)
  <2>1. /\ chunk' = After(n) /\ open' = open /\ disk' = IF n > 0 THEN Appended(First(n)) ELSE disk
        /\ n > 0 => open # Absent
    BY <1>5 DEF ReadData
  <2>2. UNCHANGED <<got, last, held, hash, decomp, root, before>>
    BY <1>5 DEF ReadData
  <2>3. n \in 0 .. Len(chunk)
    <3>1. tar.file \in Nat /\ tar.file <= FileSize /\ FileSize \in Nat
      <4>1. tar.of \in DOMAIN content.entries /\ tar.file \in Nat /\ tar.file <= FileSize
        BY <1>5 DEF ReadData, Tarred, TarRecord
      <4>2. content.entries[tar.of] \in Entry
        BY <4>1, LenProperties, ElementOfSeq DEF Streamed, IsContent
      <4> QED
        BY <4>1, <4>2 DEF FileSize, Entry
    <3> QED
      BY <1>c, <3>1 DEF Min2
  <2> HIDE DEF n
  <2>4. First(n) \in Seq(Cell) /\ After(n) \in Seq(Cell)
    BY <1>k, <2>3, Cuts
  <2>5. disk' \in [Names -> Contents] /\ (open' # Absent => disk'[open'] # Absent)
    BY <1>k, <2>1, <2>4, AppendedTypes
  <2> QED
    BY <1>0, <1>k, <2>1, <2>2, <2>4, <2>5, StreamedKept
<1>6. CASE ReadPadding
  <2> DEFINE n == Min2(Len(chunk), Padding(FileSize) - tar.padding)
  <2>1. chunk' = After(n)
    BY <1>6 DEF ReadPadding
  <2>2. UNCHANGED <<disk, open, got, last, held, hash, decomp, root, before>>
    BY <1>6 DEF ReadPadding
  <2>3. n \in 0 .. Len(chunk)
    <3>1. tar.padding \in Nat /\ tar.padding <= Padding(FileSize) /\ Padding(FileSize) \in Nat
      <4>1. tar.of \in DOMAIN content.entries /\ tar.padding \in Nat /\ tar.padding <= Padding(FileSize)
        BY <1>6 DEF ReadPadding, Tarred, TarRecord
      <4>2. content.entries[tar.of] \in Entry
        BY <4>1, LenProperties, ElementOfSeq DEF Streamed, IsContent
      <4> QED
        BY <4>1, <4>2, PaddingIsNat DEF FileSize, Entry
    <3> QED
      BY <1>c, <3>1 DEF Min2
  <2> HIDE DEF n
  <2> QED
    BY <1>0, <1>k, <2>1, <2>2, <2>3, Cuts, StreamedKept
<1>7. CASE ReadTrailer
  <2> DEFINE n == Min2(Len(chunk), Trailer - tar.trailer)
  <2>1. chunk' = IF tar.trailer + n = Trailer THEN <<>> ELSE After(n)
    BY <1>7 DEF ReadTrailer
  <2>2. UNCHANGED <<disk, open, got, last, held, hash, decomp, root, before>>
    BY <1>7 DEF ReadTrailer
  <2>3. n \in 0 .. Len(chunk)
    BY <1>c, TransferAssumption DEF Min2, TransferAssumption, Trailer, Tarred, TarRecord
  <2> HIDE DEF n
  <2>4. chunk' \in Seq(Cell)
    BY <1>k, <2>1, <2>3, Cuts, EmptySeq
  <2> QED
    BY <1>0, <1>k, <2>2, <2>4, StreamedKept
<1> QED
  BY <1>1, <1>2, <1>3, <1>4, <1>5, <1>6, <1>7 DEF Unpack

LEMMA StreamedEnd ==
  ASSUME Streamed, Control, VerifyDigest \/ WriteComplete \/ WriteAbort \/ DownCommon
  PROVE  Streamed'
<1> USE DEF Goto, Proceed, FailsWith, codecVars, diskVars, downVars, streamVars
<1>1. CASE VerifyDigest
  BY <1>1, StreamedKept DEF Streamed, VerifyDigest
<1>2. CASE WriteComplete
  BY <1>2, StreamedKept DEF Streamed, WriteComplete
<1>3. CASE WriteAbort
  <2>1. Nothing \in [Names -> Contents]
    BY DEF Nothing, Contents
  <2>2. Remains \subseteq [Names -> Contents]
    BY DEF Remains, Contents, Streamed
  <2>3. disk' \in [Names -> Contents] /\ root' \in Destination
    BY <1>3, <2>1, <2>2 DEF WriteAbort, Streamed, Destination
  <2> QED
    BY <1>3, <2>3, StreamedKept DEF Streamed, WriteAbort
<1>4. CASE DownCommon
  <2>1. CASE RefuseRequest \/ DataFails \/ DataDestroy \/ Respond
    BY <1>4, <2>1, StreamedKept DEF Streamed, DownCommon, RefuseRequest, DataFails, DataDestroy, Respond
  <2>2. CASE DataNew("digest") \/ Work
    BY <1>4, <2>2, StreamedKept DEF Streamed, DownCommon, DataNew, Work
  <2> QED
    BY <1>4, <2>1, <2>2 DEF DownCommon
<1> QED
  BY <1>1, <1>2, <1>3, <1>4

\* A field of the context of the reader.
LEMMA TarFields ==
  ASSUME NEW r \in TarRecord
  PROVE  /\ \A x \in TarState : [r EXCEPT !.state = x] \in TarRecord
         /\ \A x \in Seq(Cell) : [r EXCEPT !.header = x] \in TarRecord
         /\ \A x \in Nat : /\ [r EXCEPT !.of = x] \in TarRecord /\ [r EXCEPT !.file = x] \in TarRecord
                           /\ [r EXCEPT !.padding = x] \in TarRecord
                           /\ [r EXCEPT !.trailer = x] \in TarRecord
<1>1. \A x \in TarState : [r EXCEPT !.state = x] \in TarRecord
  BY DEF TarRecord
<1>2. \A x \in Seq(Cell) : [r EXCEPT !.header = x] \in TarRecord
  BY DEF TarRecord
<1>3. \A x \in Nat : [r EXCEPT !.of = x] \in TarRecord /\ [r EXCEPT !.file = x] \in TarRecord
  BY DEF TarRecord
<1>4. \A x \in Nat : [r EXCEPT !.padding = x] \in TarRecord /\ [r EXCEPT !.trailer = x] \in TarRecord
  BY DEF TarRecord
<1> QED
  BY <1>1, <1>2, <1>3, <1>4

\* What the reader notes when a header is complete, and when the data of a file is.
LEMMA DataStarts ==
  ASSUME tar \in TarRecord, HeaderRead \in Seq(Cell), NEW i \in Nat
  PROVE  /\ StartData(i) \in TarRecord
         /\ StartData(i).state = "data" /\ StartData(i).header = HeaderRead /\ StartData(i).of = i
         /\ StartData(i).file = 0 /\ StartData(i).trailer = tar.trailer
<1> DEFINE t1 == [tar EXCEPT !.state = "data"]
           t2 == [t1 EXCEPT !.header = HeaderRead]
           t3 == [t2 EXCEPT !.of = i]
<1>1. t1 \in TarRecord
  BY TarFields DEF TarState
<1>2. t2 \in TarRecord
  <2> HIDE DEF t1
  <2> QED
    BY <1>1, TarFields
<1>3. t3 \in TarRecord
  <2> HIDE DEF t2
  <2> QED
    BY <1>2, TarFields
<1>4. [t3 EXCEPT !.file = 0] \in TarRecord
  <2> HIDE DEF t3
  <2> QED
    BY <1>3, TarFields
<1>5. StartData(i) \in TarRecord
  BY <1>4, Zenon DEF StartData
<1>6. StartData(i).state = "data" /\ StartData(i).header = HeaderRead /\ StartData(i).of = i
      /\ StartData(i).file = 0 /\ StartData(i).trailer = tar.trailer
  BY DEF StartData, TarRecord
<1> QED
  BY <1>5, <1>6

LEMMA ZerosEnd ==
  ASSUME tar \in TarRecord, HeaderRead \in Seq(Cell),
         NEW t, t = [tar EXCEPT !.state = "trailer", !.header = HeaderRead, !.trailer = Block]
  PROVE  /\ t \in TarRecord
         /\ t.state = "trailer" /\ t.header = HeaderRead /\ t.of = tar.of /\ t.trailer = Block
<1> DEFINE t1 == [tar EXCEPT !.state = "trailer"]
           t2 == [t1 EXCEPT !.header = HeaderRead]
<1>1. t1 \in TarRecord
  BY TarFields DEF TarState
<1>2. t2 \in TarRecord
  <2> HIDE DEF t1
  <2> QED
    BY <1>1, TarFields
<1>3. [t2 EXCEPT !.trailer = Block] \in TarRecord
  <2> HIDE DEF t2
  <2> QED
    BY <1>2, TarFields, TransferAssumption DEF TransferAssumption
<1>4. t \in TarRecord
  BY <1>3, Zenon
<1> QED
  BY <1>4 DEF TarRecord

LEMMA FileEnds ==
  ASSUME NEW t \in TarRecord, NEW size
  PROVE  /\ DataEnds(t, size) \in TarRecord
         /\ DataEnds(t, size).of = t.of /\ DataEnds(t, size).trailer = t.trailer
         /\ IF Padding(size) = 0
            THEN DataEnds(t, size).state = "header" /\ DataEnds(t, size).header = <<>>
            ELSE /\ DataEnds(t, size).state = "padding" /\ DataEnds(t, size).padding = 0
                 /\ DataEnds(t, size).header = t.header
<1> DEFINE h1 == [t EXCEPT !.state = "header"]
           p1 == [t EXCEPT !.state = "padding"]
<1>1. h1 \in TarRecord /\ p1 \in TarRecord
  BY TarFields DEF TarState
<1>2. [h1 EXCEPT !.header = <<>>] \in TarRecord
  <2> HIDE DEF h1
  <2> QED
    BY <1>1, TarFields, EmptySeq
<1>3. [p1 EXCEPT !.padding = 0] \in TarRecord
  <2> HIDE DEF p1
  <2> QED
    BY <1>1, TarFields
<1>4. DataEnds(t, size) \in TarRecord
  BY <1>2, <1>3, Zenon DEF DataEnds
<1> QED
  BY <1>4 DEF DataEnds, TarRecord

LEMMA PaddingEnds ==
  ASSUME NEW t \in TarRecord, NEW n \in Nat,
         NEW u, u = [t EXCEPT !.padding = @ + n, !.state = "header", !.header = <<>>]
  PROVE  /\ u \in TarRecord
         /\ u.of = t.of /\ u.trailer = t.trailer /\ u.state = "header" /\ u.header = <<>>
<1> DEFINE t1 == [t EXCEPT !.padding = @ + n]
           t2 == [t1 EXCEPT !.state = "header"]
<1>1. t1 \in TarRecord
  <2>1. t.padding + n \in Nat
    BY DEF TarRecord
  <2> QED
    BY <2>1, TarFields
<1>2. t2 \in TarRecord
  <2> HIDE DEF t1
  <2> QED
    BY <1>1, TarFields DEF TarState
<1>3. [t2 EXCEPT !.header = <<>>] \in TarRecord
  <2> HIDE DEF t2
  <2> QED
    BY <1>2, TarFields, EmptySeq
<1>4. u \in TarRecord
  BY <1>3, Zenon
<1> QED
  BY <1>4 DEF TarRecord

\* The header with the bytes of the chunk that belong to it.
LEMMA HeaderReads ==
  ASSUME Streamed, Tarred
  PROVE  /\ HeaderTake \in 0 .. Len(chunk)
         /\ HeaderRead \in Seq(Cell) /\ Len(HeaderRead) = Len(tar.header) + HeaderTake
         /\ Len(HeaderRead) <= Block /\ Len(tar.header) \in Nat
         /\ \A k \in 1 .. Len(HeaderRead) :
              HeaderRead[k] = IF k <= Len(tar.header) THEN tar.header[k] ELSE chunk[k - Len(tar.header)]
<1>1. Len(chunk) \in Nat /\ chunk \in Seq(Cell) /\ tar.header \in Seq(Cell) /\ Len(tar.header) \in Nat
      /\ Len(tar.header) <= Block /\ Block \in Nat
  BY LenProperties, TransferAssumption DEF Streamed, Tarred, TarRecord, TransferAssumption
<1>2. HeaderTake \in 0 .. Len(chunk) /\ HeaderTake <= Block - Len(tar.header)
  <2>1. \A c, h, b \in Nat : h <= b => Min2(c, b - h) \in 0 .. c /\ Min2(c, b - h) <= b - h
    BY DEF Min2
  <2> QED
    BY <1>1, <2>1 DEF HeaderTake
<1>3. First(HeaderTake) \in Seq(Cell) /\ Len(First(HeaderTake)) = HeaderTake
      /\ \A k \in 1 .. HeaderTake : First(HeaderTake)[k] = chunk[k]
  BY <1>1, <1>2, Cuts
<1>4. /\ HeaderRead \in Seq(Cell) /\ Len(HeaderRead) = Len(tar.header) + HeaderTake
      /\ \A k \in 1 .. Len(tar.header) + HeaderTake :
           HeaderRead[k] = IF k <= Len(tar.header) THEN tar.header[k]
                           ELSE First(HeaderTake)[k - Len(tar.header)]
  <2> DEFINE h == tar.header
             f == First(HeaderTake)
  <2>1. h \in Seq(Cell) /\ f \in Seq(Cell) /\ Len(f) = HeaderTake
    BY <1>1, <1>3
  <2>2. HeaderRead = h \o f
    BY DEF HeaderRead
  <2> HIDE DEF h, f
  <2>3. h \o f \in Seq(Cell) /\ Len(h \o f) = Len(h) + Len(f)
        /\ \A k \in 1 .. Len(h) + Len(f) : (h \o f)[k] = IF k <= Len(h) THEN h[k] ELSE f[k - Len(h)]
    BY <2>1, ConcatProperties
  <2> QED
    BY <2>1, <2>2, <2>3 DEF h, f
<1> QED
  BY <1>1, <1>2, <1>3, <1>4, SMTT(40)

LEMMA TarredUnpack ==
  ASSUME Streamed, Tarred, Control, Unpack
  PROVE  Tarred'
<1> USE DEF TarRest, TarRefuses, ReadHeader, InTar
<1>0. content' = content
  BY ContentKept DEF DownNext
<1>c. Len(chunk) \in Nat /\ chunk \in Seq(Cell)
  BY LenProperties DEF Streamed
<1>h. HeaderRead \in Seq(Cell) /\ Len(HeaderRead) <= Block /\ HeaderTake \in Nat
  BY HeaderReads
<1>b. 0 <= Block /\ Block <= Trailer /\ Trailer \in Nat /\ Block \in Nat
  BY TransferAssumption DEF TransferAssumption, Trailer
<1>t. tar \in TarRecord /\ Len(tar.header) <= Block /\ tar.trailer <= Trailer
  BY DEF Tarred
<1>1. CASE HeaderPart
  <2>1. tar.state = "header" /\ tar' = [tar EXCEPT !.header = HeaderRead]
    BY <1>1 DEF HeaderPart
  <2>2. tar' \in TarRecord
    BY <1>h, <1>t, <2>1, TarFields
  <2>3. tar'.state = "header" /\ tar'.header = HeaderRead /\ tar'.trailer = tar.trailer
    BY <1>t, <2>1 DEF TarRecord
  <2> QED
    BY <1>h, <1>t, <2>2, <2>3 DEF Tarred
<1>2. CASE HeaderOfZeros
  <2>1. tar' = [tar EXCEPT !.state = "trailer", !.header = HeaderRead, !.trailer = Block]
    BY <1>2 DEF HeaderOfZeros
  <2>2. tar' \in TarRecord /\ tar'.state = "trailer" /\ tar'.header = HeaderRead /\ tar'.trailer = Block
    BY <1>h, <1>t, <2>1, ZerosEnd
  <2> QED
    BY <1>h, <1>b, <2>2 DEF Tarred
<1>3. ASSUME NEW i \in DOMAIN content.entries, tar' = StartData(i) PROVE Tarred'
  <2>1. i \in Nat /\ content.entries[i] \in Entry
    BY LenProperties, ElementOfSeq DEF Streamed, IsContent
  <2>2. /\ tar' \in TarRecord
        /\ tar'.state = "data" /\ tar'.header = HeaderRead /\ tar'.of = i
        /\ tar'.file = 0 /\ tar'.trailer = tar.trailer
    BY <1>3, <1>h, <1>t, <2>1, DataStarts
  <2>3. FileSize' \in Nat
    BY <1>0, <2>1, <2>2 DEF FileSize, Entry
  <2> QED
    BY <1>0, <1>h, <1>t, <2>2, <2>3 DEF Tarred
<1>4. CASE HeaderRefused \/ ReadDataNowhere \/ ReadPaddingRefused \/ ReadTrailerRefused
           \/ TarChunkEnds \/ TarNotExhausted
  BY <1>0, <1>4, TarredKept
  DEF HeaderRefused, ReadDataNowhere, ReadPaddingRefused, ReadTrailerRefused, TarChunkEnds, TarNotExhausted,
      downVars, codecVars
<1>5. CASE ReadData
  <2> DEFINE n == Min2(Len(chunk), FileSize - tar.file)
             read == [tar EXCEPT !.file = tar.file + n]
  <2>1. tar.state = "data" /\ tar' = IF tar.file + n = FileSize THEN DataEnds(read, FileSize) ELSE read
    BY <1>5 DEF ReadData
  <2>2. tar.of \in DOMAIN content.entries /\ tar.file \in Nat /\ tar.file <= FileSize
    BY <2>1 DEF Tarred, TarRecord
  <2>3. content.entries[tar.of] \in Entry
    BY <2>2, LenProperties, ElementOfSeq DEF Streamed, IsContent
  <2>4. FileSize \in Nat /\ Padding(FileSize) \in Nat
    BY <2>3, PaddingIsNat DEF FileSize, Entry
  <2>5. n \in Nat /\ tar.file + n <= FileSize
    BY <1>c, <2>2, <2>4 DEF Min2
  <2>6. read \in TarRecord
    <3> DEFINE m == tar.file + n
    <3>1. m \in Nat
      BY <2>2, <2>5
    <3> HIDE DEF m
    <3>2. [tar EXCEPT !.file = m] \in TarRecord
      BY <1>t, <3>1, TarFields
    <3> QED
      BY <3>2 DEF m
  <2>7. read.state = "data" /\ read.header = tar.header /\ read.of = tar.of /\ read.file = tar.file + n
        /\ read.trailer = tar.trailer
    <3> HIDE DEF n
    <3> QED
      BY <1>t, <2>1 DEF TarRecord
  <2> HIDE DEF n, read
  <2>8. FileSize' = content.entries[tar'.of].size
    BY <1>0 DEF FileSize
  <2>9. CASE tar.file + n # FileSize
    BY <1>0, <1>t, <2>1, <2>2, <2>4, <2>5, <2>6, <2>7, <2>8, <2>9 DEF Tarred, FileSize
  <2>10. CASE tar.file + n = FileSize
    <3>1. tar' = DataEnds(read, FileSize)
      BY <2>1, <2>10
    <3>2. tar' \in TarRecord /\ tar'.of = tar.of /\ tar'.trailer = tar.trailer
      BY <2>6, <2>7, <3>1, FileEnds
    <3>3. FileSize' = FileSize
      BY <2>8, <3>2 DEF FileSize
    <3>4. CASE Padding(FileSize) = 0
      <4>1. tar'.state = "header" /\ tar'.header = <<>>
        BY <2>6, <3>1, <3>4, FileEnds
      <4> QED
        BY <1>b, <1>t, <3>2, <4>1 DEF Tarred
    <3>5. CASE Padding(FileSize) # 0
      <4>1. tar'.state = "padding" /\ tar'.padding = 0 /\ tar'.header = tar.header
        BY <2>6, <2>7, <3>1, <3>5, FileEnds
      <4>2. Padding(FileSize)' = Padding(FileSize)
        BY <3>3 DEF Padding
      <4> QED
        BY <1>0, <1>t, <2>2, <2>4, <3>2, <4>1, <4>2 DEF Tarred
    <3> QED
      BY <3>4, <3>5
  <2> QED
    BY <2>9, <2>10
<1>6. CASE ReadPadding
  <2> DEFINE left == Padding(FileSize) - tar.padding
             n == Min2(Len(chunk), left)
  <2>1. /\ tar.state = "padding"
        /\ tar' = IF n = left
                  THEN [tar EXCEPT !.padding = @ + n, !.state = "header", !.header = <<>>]
                  ELSE [tar EXCEPT !.padding = @ + n]
    BY <1>6 DEF ReadPadding
  <2>2. tar.of \in DOMAIN content.entries /\ tar.padding \in Nat /\ tar.padding <= Padding(FileSize)
    BY <2>1 DEF Tarred, TarRecord
  <2>3. content.entries[tar.of] \in Entry
    BY <2>2, LenProperties, ElementOfSeq DEF Streamed, IsContent
  <2>4. Padding(FileSize) \in Nat
    BY <2>3, PaddingIsNat DEF FileSize, Entry
  <2>5. n \in Nat /\ tar.padding + n <= Padding(FileSize)
    BY <1>c, <2>2, <2>4 DEF Min2
  <2> HIDE DEF n, left
  <2>6. CASE n = left
    <3>1. tar' = [tar EXCEPT !.padding = @ + n, !.state = "header", !.header = <<>>]
      BY <2>1, <2>6
    <3>2. tar' \in TarRecord /\ tar'.trailer = tar.trailer /\ tar'.state = "header" /\ tar'.header = <<>>
      BY <1>t, <2>5, <3>1, PaddingEnds
    <3> QED
      BY <1>b, <1>t, <3>2 DEF Tarred
  <2>7. CASE n # left
    <3>1. tar' = [tar EXCEPT !.padding = tar.padding + n]
      BY <2>1, <2>7
    <3>2. tar' \in TarRecord
      <4> DEFINE m == tar.padding + n
      <4>1. m \in Nat
        BY <2>2, <2>5
      <4>2. tar' = [tar EXCEPT !.padding = m]
        BY <3>1
      <4> HIDE DEF m
      <4> QED
        BY <1>t, <4>1, <4>2, TarFields
    <3>3. /\ tar'.trailer = tar.trailer /\ tar'.state = "padding" /\ tar'.header = tar.header
          /\ tar'.of = tar.of /\ tar'.padding = tar.padding + n
      BY <1>t, <2>1, <3>1 DEF TarRecord
    <3>4. Padding(FileSize)' = Padding(FileSize)
      BY <1>0, <3>3 DEF FileSize, Padding
    <3> QED
      BY <1>0, <1>t, <2>2, <2>5, <3>2, <3>3, <3>4 DEF Tarred
  <2> QED
    BY <2>6, <2>7
<1>7. CASE ReadTrailer
  <2> DEFINE n == Min2(Len(chunk), Trailer - tar.trailer)
  <2>1. tar.state = "trailer" /\ tar' = [tar EXCEPT !.trailer = tar.trailer + n]
    BY <1>7 DEF ReadTrailer
  <2>2. tar.trailer \in Nat
    BY <1>t DEF TarRecord
  <2>3. n \in Nat /\ tar.trailer + n <= Trailer
    BY <1>b, <1>c, <1>t, <2>2 DEF Min2
  <2> HIDE DEF n
  <2>4. tar' \in TarRecord
    <3> DEFINE m == tar.trailer + n
    <3>1. m \in Nat
      BY <2>2, <2>3
    <3>2. tar' = [tar EXCEPT !.trailer = m]
      BY <2>1
    <3> HIDE DEF m
    <3> QED
      BY <1>t, <3>1, <3>2, TarFields
  <2>5. tar'.trailer = tar.trailer + n /\ tar'.state = "trailer" /\ tar'.header = tar.header
    BY <1>t, <2>1 DEF TarRecord
  <2> QED
    BY <1>t, <2>3, <2>4, <2>5 DEF Tarred
<1>8. CASE \E i \in DOMAIN content.entries : HeaderSkipped(i) \/ HeaderOpens(i) \/ HeaderOpenFails(i)
  BY <1>3, <1>8 DEF HeaderSkipped, HeaderOpens, HeaderOpenFails
<1> QED
  BY <1>1, <1>2, <1>4, <1>5, <1>6, <1>7, <1>8 DEF Unpack

LEMMA TarredDown ==
  ASSUME Streamed, Tarred, Control, DownNext
  PROVE  Tarred'
<1>0. content' = content
  BY ContentKept
<1>1. CASE CheckSize \/ WriteInitRefuses \/ WriteInitFails \/ WriteInit \/ SetupDigest
  BY <1>0, <1>1, TarredKept
  DEF CheckSize, WriteInitRefuses, WriteInitFails, WriteInit, SetupDigest, downVars, codecVars
<1>2. CASE HttpConnects \/ HttpGetFails \/ ReceiveFails \/ AppendChunk \/ AppendFails
           \/ \E n \in 0 .. Len(held) + Len(chunk) : Decompress(n) \/ DecompressFails(n)
  BY <1>0, <1>2, TarredKept
  DEF HttpConnects, HttpGetFails, ReceiveFails, AppendChunk, AppendFails, DecompressFails, Decompress,
      downVars, codecVars
<1>3. ASSUME NEW n \in Pieces, NEW final \in BOOLEAN, Receive(n, final) PROVE Tarred'
  <2>1. CASE tar' = tar
    BY <1>0, <2>1, TarredKept
  <2>2. CASE tar' = [tar EXCEPT !.state = "header"]
    <3>1. tar' \in TarRecord
      BY <2>2, TarFields DEF Tarred, TarState
    <3>2. tar'.state = "header" /\ tar'.header = tar.header /\ tar'.trailer = tar.trailer
      BY <2>2 DEF Tarred, TarRecord
    <3> QED
      BY <3>1, <3>2 DEF Tarred
  <2> QED
    BY <1>3, <2>1, <2>2 DEF Receive
<1>4. CASE Unpack
  BY <1>4, TarredUnpack
<1>5. CASE VerifyDigest \/ WriteComplete \/ WriteAbort \/ DownCommon
  BY <1>0, <1>5, TarredKept DEF VerifyDigest, WriteComplete, WriteAbort, DownCommon, downVars, codecVars
<1> QED
  BY <1>1, <1>2, <1>3, <1>4, <1>5 DEF DownNext, Http

\* A set of places of a sequence has a first one.
LEMMA FirstOfMany ==
  ASSUME NEW T, T \subseteq Nat, T # {}
  PROVE  /\ (CHOOSE i \in T : \A j \in T : i <= j) \in T
         /\ \A j \in T : (CHOOSE i \in T : \A k \in T : i <= k) <= j
<1>1. PICK i \in T : \A j \in T : ~(j < i)
  BY LeastNumber
<1>2. \A j \in T : i <= j
  BY <1>1
<1> QED
  BY <1>2

LEMMA DataIsSeq ==
  ASSUME NEW i \in Nat, NEW n \in Nat
  PROVE  DataOf(i, n) \in Seq(Cell) /\ Len(DataOf(i, n)) = n
         /\ \A k \in 1 .. n : DataOf(i, n)[k] = <<"data", i, k>>
<1>1. \A k \in 1 .. n : DataOf(i, n)[k] \in Cell
  BY DEF DataOf, Cell
<1>2. DataOf(i, n) \in Seq(Cell)
  BY <1>1, FillIsSeq DEF DataOf
<1> QED
  BY <1>2 DEF DataOf

LEMMA UnpackedTypes ==
  ASSUME NEW l \in Seq(Entry)
  PROVE  Unpacked(l) \in [Names -> Contents]
<1> SUFFICES ASSUME NEW n \in Names PROVE Unpacked(l)[n] \in Contents
  BY DEF Unpacked
<1> DEFINE own == {i \in DOMAIN l : l[i].kind = "file" /\ l[i].name = n}
           first == CHOOSE i \in own : \A j \in own : i <= j
<1>1. CASE own = {}
  BY <1>1 DEF Unpacked, Contents
<1>2. CASE own # {}
  <2>0. own \subseteq Nat
    BY LenProperties
  <2>1. first \in own
    <3> HIDE DEF own
    <3> QED
      BY <1>2, <2>0, FirstOfMany
  <2>2. Unpacked(l)[n] = DataOf(first, l[first].size)
    BY <1>2 DEF Unpacked
  <2>3. l[first] \in Entry /\ first \in Nat
    BY <2>1, LenProperties, ElementOfSeq
  <2> HIDE DEF first
  <2>4. DataOf(first, l[first].size) \in Seq(Cell)
    BY <2>3, DataIsSeq DEF Entry
  <2> QED
    BY <2>2, <2>4 DEF Contents
<1> QED
  BY <1>1, <1>2

LEMMA UpRequest ==
  ASSUME Control, UpNext
  PROVE  req.way = "up" /\ req' = req /\ at' # "init"
<1> USE DEF Control, Ways, UpGoto, UpProceed, PutFailsWith, PackRest, PackRefuses, InPack, Entering
<1>1. CASE (\E e \in AllFiles(tree) : Change(e.name)) \/ AskRead \/ ReadInitFails \/ ReadInit
  BY <1>1 DEF Change, AskRead, ReadInitFails, ReadInit, commonVars
<1>2. CASE PutRefused \/ PutConnects \/ PutTar \/ PutFile \/ ReadFails
  BY <1>2 DEF PutRefused, PutConnects, PutTar, PutFile, ReadFails
<1>3. CASE Pack
  BY <1>3
  DEF Pack, PackStops, Ascend, EnterDirectory, PassOther, NextFile, EntryFails, NoMoreFiles, PackHeader,
      PackHeaderFails, PackData, PackDataTruncated, PackPadding, PackTrailer
<1>4. CASE SendChunk \/ SendFails \/ ServerAccepts \/ ServerRefuses \/ ReadComplete \/ ReadAbort
  BY <1>4 DEF SendChunk, SendFails, ServerAccepts, ServerRefuses, ReadComplete, ReadAbort
<1>5. CASE UpCommon
  BY <1>5 DEF UpCommon, RefuseRequest, DataNew, DataFails, DataDestroy, Respond, Work
<1> QED
  BY <1>1, <1>2, <1>3, <1>4, <1>5 DEF UpNext

\* What is handed over is what the server stored, with the entries that were packed.
LEMMA HandedOver ==
  ASSUME Control, UpTypes, Filled, Streamed, Handover
  PROVE  /\ Stored \in Seq(Cell) /\ Len(Stored) = announced /\ announced <= Len(sent)
         /\ \A k \in 1 .. announced : Stored[k] = sent[k]
         /\ IsContent(content') /\ req' = [req EXCEPT !.way = "down", !.digest = "right", !.size = Len(Stored)]
<1>1. told /\ req.way = "up"
  BY DEF Handover, Control, Answers
<1>2. announced <= Len(sent) /\ announced \in Nat /\ sent \in Seq(Cell)
  BY <1>1 DEF Filled
<1>3. /\ Stored \in Seq(Cell) /\ Len(Stored) = announced
      /\ \A k \in 1 .. announced : Stored[k] = sent[k]
  <2>1. Len(sent) \in Nat /\ \A i \in 1 .. Len(sent) : sent[i] \in Cell
    BY <1>2, LenProperties, ElementOfSeq
  <2>2. \A i \in 1 .. announced : sent[i] \in Cell
    BY <1>2, <2>1
  <2> QED
    BY <1>2, <2>2, SubSeqProperties DEF Stored
<1>4. listing \in Seq(Entry)
  BY DEF UpTypes
<1>5. Unpacked(listing) \in [Names -> Contents]
  BY <1>4, UnpackedTypes
<1>6. content' = [entries |-> listing, cells |-> Stored, files |-> Unpacked(listing),
                  good |-> Stored = Archived(listing)]
  BY DEF Handover
<1>7. IsContent(content')
  BY <1>3, <1>4, <1>5, <1>6 DEF IsContent, Contents
<1> QED
  BY <1>1, <1>2, <1>3, <1>7 DEF Handover

LEMMA DownTypesStep ==
  ASSUME DownTypes, Filled, UpTypes, Control, CommonTypes, [Next]_vars
  PROVE  DownTypes'
<1> USE DEF DownTypes
<1>1. CASE DownNext /\ UNCHANGED upVars
  BY <1>1, TarredDown, StreamedStart, StreamedHttp, StreamedUnpack, StreamedEnd DEF DownNext
<1>2. CASE UpNext /\ UNCHANGED downVars
  <2>1. req.way = "up" /\ req' = req /\ at' # "init"
    BY <1>2, UpRequest
  <2>2. UNCHANGED <<content, got, chunk, last, hash, decomp, held, tar, root, disk, open, before>>
    BY <1>2 DEF downVars, streamVars, codecVars, diskVars
  <2> QED
    BY <2>1, <2>2, StreamedKept, TarredKept DEF Streamed
<1>3. CASE Handover
  <2>1. req.way = "up" /\ req'.way = "down" /\ req'.encoding = req.encoding /\ IsTar /\ at' = "asked"
    BY <1>3 DEF Handover, Control, Ways
  <2>2. UNCHANGED <<got, chunk, last, hash, decomp, held, tar, root, disk, open, before>>
    BY <1>3 DEF Handover, codecVars, diskVars
  <2>3. IsContent(content') /\ content'.cells = Stored
    BY <1>3, HandedOver DEF Handover
  <2>4. got = 0 /\ tar = TarNone
    BY <2>1 DEF Streamed
  <2>5. got' \in 0 .. Len(content'.cells)
    <3>1. Len(Stored) \in Nat
      BY <2>3, LenProperties DEF IsContent
    <3> QED
      BY <2>2, <2>3, <2>4, <3>1
  <2>6. Tarred'
    BY <2>2, <2>4, TarNoneIs DEF Tarred
  <2>7. Streamed'
    BY <2>1, <2>2, <2>3, <2>5 DEF Streamed, IsTar, Tar
  <2> QED
    BY <2>6, <2>7
<1>4. CASE UNCHANGED vars
  <2>1. UNCHANGED <<at, req, content, got, chunk, last, hash, decomp, held, tar, root, disk, open, before>>
    BY <1>4 DEF vars, commonVars, downVars, streamVars, codecVars, diskVars
  <2> QED
    BY <2>1, StreamedKept, TarredKept DEF Streamed
<1> QED
  BY <1>1, <1>2, <1>3, <1>4 DEF Next, Rest

\* Only a file of the transfer is lost.
Losses == lost \subseteq Names

LEMMA LossesStep ==
  ASSUME Losses, Streamed, [Next]_vars
  PROVE  Losses'
<1>1. Unkept \subseteq Names
  BY DEF Losses, Streamed, Unkept
<1>2. lost' \in {lost, Unkept}
  <2> USE DEF Close, TarRest, TarRefuses, downVars, diskVars
  <2>1. CASE CheckSize \/ WriteInitRefuses \/ WriteInitFails \/ WriteInit \/ SetupDigest
    BY <2>1 DEF CheckSize, WriteInitRefuses, WriteInitFails, WriteInit, SetupDigest
  <2>2. CASE Http
    BY <2>2 DEF Http, HttpConnects, HttpGetFails, ReceiveFails, Receive, AppendChunk, AppendFails,
       DecompressFails, Decompress
  <2>3. CASE Unpack
    BY <2>3 DEF Unpack, HeaderPart, HeaderOfZeros, HeaderRefused, HeaderSkipped, HeaderOpens,
       HeaderOpenFails, ReadData, ReadDataNowhere, ReadPadding, ReadPaddingRefused, ReadTrailer,
       ReadTrailerRefused, TarChunkEnds, TarNotExhausted
  <2>4. CASE VerifyDigest \/ WriteComplete \/ WriteAbort \/ DownCommon
    BY <2>4 DEF VerifyDigest, WriteComplete, WriteAbort, DownCommon
  <2>5. CASE ~DownNext
    BY <2>5 DEF Next, Handover, Rest, vars
  <2> QED
    BY <2>1, <2>2, <2>3, <2>4, <2>5 DEF DownNext
<1> QED
  BY <1>1, <1>2 DEF Losses

\* What the steps of the two handlers keep, all together.
TypesInv == Control /\ CommonTypes /\ UpTypes /\ Counted /\ Filled /\ DownTypes /\ Losses

LEMMA TypesInvInit == Init => TypesInv
<1>1. Init => Losses
  BY DEF Init, DownStarts, DownIdle, Losses
<1> QED
  BY <1>1, ControlInit, CommonInit, TypesInit, FilledInit, DownTypesInit DEF TypesInv

LEMMA TypesInvStep == ASSUME TypesInv, [Next]_vars PROVE TypesInv'
<1>0. Losses'
  BY LossesStep DEF TypesInv, DownTypes
<1>1. Control' /\ UpTypes' /\ Counted' /\ Filled' /\ DownTypes'
  BY ControlStep, UpTypesStep, CountedStep, FilledStep, DownTypesStep DEF TypesInv
<1>2. Handover => Len(Stored) \in Nat
  BY HandedOver, LenProperties DEF TypesInv, DownTypes
<1>3. CommonTypes'
  BY <1>2, CommonTypesStep DEF TypesInv
<1> QED
  BY <1>0, <1>1, <1>3 DEF TypesInv

LEMMA TypesGive == TypesInv => TypeOK
<1> SUFFICES ASSUME TypesInv PROVE TypeOK
  OBVIOUS
<1>1. TransferTypeOK
  BY DEF TypesInv, Control, Answers, CommonTypes, Counted, TransferTypeOK
<1>2. req.way = "down" => DownTypeOK
  <2>1. piece \in Nat /\ got \in Nat
    BY DEF TypesInv, Counted, DownTypes, Streamed
  <2> QED
    BY <1>1, <2>1 DEF TypesInv, DownTypes, Streamed, Tarred, TarRecord, TarState, Contents, Losses, DownTypeOK
<1>3. UpTypeOK
  <2>1. walk \in Seq(Seq(Entry))
    <3>1. Known \subseteq Entry
      BY DEF Known
    <3>2. Seq(Known) \subseteq Seq(Entry)
      BY <3>1, SeqMonotonic
    <3> QED
      BY <3>2, SeqMonotonic DEF TypesInv, UpTypes
  <2> QED
    BY <1>1, <2>1 DEF TypesInv, UpTypes, Filled, UpTypeOK, PackRecord, PackState
<1> QED
  BY <1>2, <1>3 DEF TypeOK

(***************************************************************************)
(* Type correctness, with the bounds that it names: the header of an       *)
(* archive never outgrows its block and the trailer its two                *)
(* (ztar/unpack.c), the buffer of the writer never holds more than two     *)
(* blocks (ztar/pack.c), the walk is never deeper than MAX_TAR_DIR_DEPTH   *)
(* (filesystem.c), and no writer goes beyond the size that its header      *)
(* states.                                                                 *)
(***************************************************************************)
THEOREM TypeCorrect == Spec => []TypeOK
<1>1. Init => TypesInv
  BY TypesInvInit
<1>2. TypesInv /\ [Next]_vars => TypesInv'
  BY TypesInvStep
<1>3. TypesInv => TypeOK
  BY TypesGive
<1> QED
  BY <1>1, <1>2, <1>3, PTL DEF Spec
=============================================================================
