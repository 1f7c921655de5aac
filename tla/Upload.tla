------------------------------- MODULE Upload -------------------------------
(***************************************************************************)
(* An upload from the file system, from its request to its response: the   *)
(* handler and its HTTP callback (upload.c), the HTTP client (http.c), the *)
(* TAR writer (ztar/pack.c) and the read half of the file system backend   *)
(* with its walk over a directory (filesystem.c, filesystem_utils.c).      *)
(*                                                                         *)
(* One pass of the loop of ztar_pack_read_stream and one entry of the walk *)
(* is one step; the application may change a file between any two.         *)
(***************************************************************************)
EXTENDS Transfer, FiniteSets, FiniteSetsExt

CONSTANTS
  ReadSize,     \* FS_READ_BUFFER_SIZE: 4096 bytes
  MaxDepth,     \* MAX_TAR_DIR_DEPTH: 10
  MaxChanges    \* bound: changes of a file by the application

ASSUME UploadAssumption == ReadSize \in Nat \ {0} /\ MaxDepth \in Nat \ {0} /\ MaxChanges \in Nat

\* A source: what readdir returns for its directories, one file, or nothing.
Root == "root"
IsTree(t) ==
  /\ t.type \in {"dir", "file", "absent"} /\ Root \in DOMAIN t.dirs /\ IsFiniteSet(DOMAIN t.dirs)
  /\ \A d \in DOMAIN t.dirs :
       t.dirs[d] \in Seq(Entry) /\ \A k \in DOMAIN t.dirs[d] :
         t.dirs[d][k].kind = "dir" => t.dirs[d][k].name \in DOMAIN t.dirs
  /\ t.type = "file" => Len(t.dirs[Root]) = 1
  /\ t.unsplit \in SUBSET Names     \* too long for the fields name and prefix of a header

\* A source as a file system has it: each path is below its root and there once, and every
\* directory is in one that is nearer to the root.
InOneTree(t) ==
  /\ \A d1, d2 \in DOMAIN t.dirs : \A k1 \in DOMAIN t.dirs[d1], k2 \in DOMAIN t.dirs[d2] :
       t.dirs[d1][k1].name = t.dirs[d2][k2].name => d1 = d2 /\ k1 = k2
  /\ \A d \in DOMAIN t.dirs : \A k \in DOMAIN t.dirs[d] :
       /\ SafePath(t.dirs[d][k].path, FALSE, FALSE)
       /\ t.dirs[d][k].kind = "dir" => t.dirs[d][k].name # Root
  /\ \E level \in [DOMAIN t.dirs -> 0 .. Cardinality(DOMAIN t.dirs)] :
       \A d \in DOMAIN t.dirs \ {Root} :
         \E p \in DOMAIN t.dirs : \E k \in DOMAIN t.dirs[p] :
           t.dirs[p][k].kind = "dir" /\ t.dirs[p][k].name = d /\ level[p] < level[d]
  /\ t.type = "file" => t.dirs[Root][1].kind = "file"

VARIABLES
  tree,       \* the source
  length,     \* the bytes that each of its files has now
  changes,    \* bound
  announced,  \* upload_size, the Content-Length
  walk,       \* tar_dirs: what readdir has not returned yet of each open directory
  reads, offset,   \* the file that read_ctx_t has open, and its position
  pack,       \* ztar_pack_ctx
  out,        \* what is in tar_buffer, or in the buffer of read_ctx_t
  listing,    \* the entries of the archive so far
  sent,       \* the bytes that went to the socket
  exhausted,  \* last_chunk
  disturbed   \* history: a file changed, or a directory could not be read

sourceVars == <<tree, length, changes, disturbed>>
readVars   == <<announced, walk, reads, offset>>
packVars   == <<pack, out, listing, exhausted>>
upVars     == <<sourceVars, readVars, packVars, sent>>

IsTar    == req.encoding = "tar"
PackNone == [state |-> "next", entry |-> Absent, expected |-> 0, written |-> 0,
             padding |-> 0, trailer |-> 0]
OutSize  == 2 * Block     \* sizeof tar_buffer

Entries(t)  == UNION {ToSet(t.dirs[d]) : d \in DOMAIN t.dirs}
AllFiles(t) == {e \in Entries(t) : e.kind = "file"}
Sizes(t) == [n \in Names |-> LET own == {e \in AllFiles(t) : e.name = n}
                             IN  IF own = {} THEN 0 ELSE (CHOOSE e \in own : TRUE).size]

\* A request to upload a tree as it comes from the server.
UpStarts(r, t, table) ==
  /\ at = "asked" /\ req = r /\ mounts = table
  /\ errno = "0" /\ eres = "OK" /\ code = "none" /\ ctx = FALSE /\ told = FALSE
  /\ data = "none" /\ transferred = 0 /\ reported = 0 /\ work = "idle" /\ shown = 0
  /\ hurt = FALSE /\ kept = FALSE
  /\ tree = t /\ length = Sizes(t) /\ changes = 0 /\ disturbed = FALSE
  /\ announced = 0 /\ walk = <<>> /\ reads = Absent /\ offset = 0
  /\ pack = PackNone /\ out = <<>> /\ listing = <<>> /\ sent = <<>> /\ exhausted = FALSE

\* The application changes a file while it is read.
Change(n) ==
  /\ at \in {"data", "request", "put", "pack", "send"} /\ req.way = "up"
  /\ changes < MaxChanges /\ changes' = changes + 1 /\ disturbed' = TRUE
  /\ \E size \in {length[n] - 1, length[n] + 1} \cap Nat :
       length' = [length EXCEPT ![n] = size]
  /\ UNCHANGED <<commonVars, tree, readVars, packVars, sent>>

(***************************************************************************)
(* The handler up to the HTTP request.                                     *)
(***************************************************************************)
UpGoto(place) == at' = place /\ UNCHANGED <<req, mounts, code, told, kept>>
UpProceed(place) == UpGoto(place) /\ UNCHANGED <<errno, eres, hurt>>

AskRead ==
  /\ at = "asked" /\ req.way = "up" /\ ValidRequest(req)
  /\ UpProceed("readinit") /\ UNCHANGED <<ctx, dataVars, upVars>>

\* is_valid_source does not look at the length of the path: Uploads names paths that fit.
SourceOk ==
  /\ SafePath(req.path, TRUE, IsTar)
  /\ tree.type = IF IsTar THEN "dir" ELSE "file"
  /\ PartitionOk(mounts, "read", 0)

ReadInitFails ==
  /\ at = "readinit" /\ (~SourceOk \/ Faults)
  /\ UpGoto("destroy") /\ errno' = "EIO" /\ eres' = "OTHER" /\ hurt' = (hurt \/ SourceOk)
  /\ UNCHANGED <<ctx, dataVars, upVars>>

AllFit == \A e \in Entries(tree) : e.path.fits
ArchiveSize(files) ==
  MapThenSumSet(LAMBDA e : FileBlocks(length[e.name]), files) + Trailer

\* The files that walk_recursive visits: a part of them if it fails.
Walked(fails) == IF fails THEN SUBSET AllFiles(tree) ELSE {AllFiles(tree)}

\* read_init; the size comes from a walk whose failure is only logged.
ReadInit ==
  /\ at = "readinit" /\ SourceOk /\ UpGoto("data") /\ ctx' = TRUE
  /\ UNCHANGED <<errno, eres>>
  /\ \/ /\ IsTar /\ reads' = Absent /\ walk' = <<tree.dirs[Root]>>
        /\ \E fails \in IF Faults \/ ~AllFit THEN BOOLEAN ELSE {FALSE} :
             /\ \E files \in Walked(fails) : announced' = ArchiveSize(files)
             /\ hurt' = (hurt \/ (fails /\ Faults)) /\ disturbed' = (disturbed \/ fails)
     \/ /\ ~IsTar /\ reads' = tree.dirs[Root][1].name /\ walk' = <<>>
        /\ announced' = length[reads'] /\ UNCHANGED <<hurt, disturbed>>
  /\ UNCHANGED <<dataVars, tree, length, changes, offset, packVars, sent>>

(***************************************************************************)
(* edgehog_http_put, and the callback that gives it the payload.           *)
(***************************************************************************)
\* Whatever fails in it, the server gets the error of the callback or EPROTO.
PutFailsWith(e, r) ==
  /\ UpGoto("abort") /\ eres' = r
  /\ errno' = IF e = "0" THEN "EPROTO" ELSE e

PutRefused ==
  /\ at = "request" /\ req.way = "up"
  /\ \/ req.headers = "length" /\ PutFailsWith("0", "INVALID_HEADERS") /\ UNCHANGED hurt
     \/ /\ req.headers # "length" /\ Faults /\ hurt' = TRUE
        /\ \E r \in HttpRefusals : PutFailsWith("0", r)
  /\ UNCHANGED <<ctx, dataVars, upVars>>

PutConnects ==
  /\ at = "request" /\ req.way = "up" /\ req.headers # "length"
  /\ UpProceed("put") /\ UNCHANGED <<ctx, dataVars, upVars>>

\* process_tar_upload_chunk begins a chunk.
PutTar ==
  /\ at = "put" /\ IsTar
  /\ UpProceed("pack") /\ out' = <<>>
  /\ UNCHANGED <<ctx, dataVars, sourceVars, readVars, pack, listing, exhausted, sent>>

\* What fs_read returns when so many bytes are asked for.
Readable(n) == Min2(n, IF length[reads] > offset THEN length[reads] - offset ELSE 0)
BytesOf(i, n) == [k \in 1 .. n |-> <<"data", i, offset + k>>]

\* process_uncompressed_upload_chunk: less than the buffer holds is the end.
PutFile ==
  /\ at = "put" /\ ~IsTar
  /\ LET n == Readable(ReadSize) IN
       /\ out' = BytesOf(1, n) /\ offset' = offset + n
       /\ exhausted' = (n < ReadSize)
       /\ UpdateProgress(n, n < ReadSize)
  /\ UpProceed("send")
  /\ UNCHANGED <<ctx, sourceVars, announced, walk, reads, pack, listing, sent>>

ReadFails ==
  /\ \/ at = "put" /\ ~IsTar
     \/ at = "pack" /\ pack.state = "data" /\ Len(out) < OutSize
  /\ Faults /\ hurt' = TRUE /\ PutFailsWith("EIO", "HTTP_REQUEST_ERROR")
  /\ UNCHANGED <<ctx, dataVars, upVars>>

(***************************************************************************)
(* ztar_pack_read_stream.                                                  *)
(***************************************************************************)
Space == OutSize - Len(out)
InPack(s) == at = "pack" /\ pack.state = s /\ Space > 0
PackRest  == UpProceed("pack") /\ UNCHANGED <<ctx, dataVars, exhausted, sent, tree, length, changes, announced>>
PackRefuses ==
  /\ PutFailsWith("EIO", "HTTP_REQUEST_ERROR")
  /\ UNCHANGED <<ctx, dataVars, packVars, sent, tree, length, changes, announced, disturbed>>

\* The chunk is full, or a header does not fit into it any more, or nothing is left.
PackStops ==
  /\ at = "pack"
  /\ Space = 0 \/ pack.state = "done" \/ (pack.state = "header" /\ Space < Block)
  /\ exhausted' = (pack.state = "done" /\ out = <<>>)
  /\ UpdateProgress(Len(out), exhausted') /\ UpProceed("send")
  /\ UNCHANGED <<ctx, sourceVars, readVars, pack, out, listing, sent>>

\* read_get_next_entry, which closes the file before.
Deepest == Last(walk)
Entering == InPack("next") /\ walk # <<>> /\ Deepest # <<>>
\* The walk with the next entry taken.
Taken == [walk EXCEPT ![Len(walk)] = Tail(@)]

\* A directory whose reading fails counts as read to its end.
Ascend ==
  /\ InPack("next") /\ walk # <<>>
  /\ \/ Deepest = <<>> /\ UNCHANGED <<hurt, disturbed>>
     \/ Deepest # <<>> /\ Faults /\ hurt' = TRUE /\ disturbed' = TRUE
  /\ walk' = Front(walk) /\ reads' = Absent
  /\ UpGoto("pack") /\ UNCHANGED <<errno, eres, ctx, dataVars, tree, length, changes,
                                   announced, offset, packVars, sent>>

\* So does one that cannot be opened.
EnterDirectory ==
  /\ Entering /\ Head(Deepest).kind = "dir" /\ Head(Deepest).path.fits /\ Len(walk) < MaxDepth
  /\ \/ walk' = Append(Taken, tree.dirs[Head(Deepest).name]) /\ UNCHANGED <<hurt, disturbed>>
     \/ walk' = Taken /\ Faults /\ hurt' = TRUE /\ disturbed' = TRUE
  /\ reads' = Absent
  /\ UpGoto("pack") /\ UNCHANGED <<errno, eres, ctx, dataVars, tree, length, changes,
                                   announced, offset, packVars, sent>>

PassOther ==
  /\ Entering /\ Head(Deepest).kind = "other" /\ Head(Deepest).path.fits
  /\ walk' = Taken /\ reads' = Absent
  /\ PackRest /\ UNCHANGED <<disturbed, offset, pack, out, listing>>

NextFile ==
  /\ Entering /\ Head(Deepest).kind = "file" /\ Head(Deepest).path.fits
  /\ walk' = Taken /\ reads' = Head(Deepest).name /\ offset' = 0
  /\ pack' = [pack EXCEPT !.state = "header", !.entry = Head(Deepest),
                          !.expected = length[reads'], !.written = 0]
  /\ PackRest /\ UNCHANGED <<disturbed, out, listing>>

\* A path that does not fit, a directory too deep, or a file that cannot be opened.
EntryFails ==
  /\ Entering
  /\ \/ ~Head(Deepest).path.fits /\ UNCHANGED hurt
     \/ Head(Deepest).kind = "dir" /\ Len(walk) >= MaxDepth /\ UNCHANGED hurt
     \/ Head(Deepest).kind = "file" /\ Faults /\ hurt' = TRUE
  /\ walk' = Taken /\ reads' = Absent /\ UNCHANGED offset
  /\ PackRefuses

NoMoreFiles ==
  /\ InPack("next") /\ walk = <<>>
  /\ reads' = Absent
  /\ pack' = [pack EXCEPT !.state = "trailer", !.trailer = 0]
  /\ PackRest /\ UNCHANGED <<disturbed, walk, offset, out, listing>>

PackHeader ==
  /\ InPack("header") /\ Space >= Block /\ pack.entry.name \notin tree.unsplit
  /\ listing' = Append(listing, [pack.entry EXCEPT !.size = pack.expected])
  /\ out' = out \o HeaderOf(Len(listing'))
  /\ pack' = [pack EXCEPT !.state = IF pack.expected = 0 THEN "next" ELSE "data"]
  /\ PackRest /\ UNCHANGED <<disturbed, walk, reads, offset>>

\* No slash splits the name into a prefix and a name that fit.
PackHeaderFails ==
  /\ InPack("header") /\ Space >= Block /\ pack.entry.name \in tree.unsplit
  /\ PackRefuses /\ UNCHANGED <<hurt, walk, reads, offset>>

DataSpace == Min2(Min2(Space, pack.expected - pack.written), ReadSize)

\* Mutant: the padding is forgotten.
PackDataUnpadded ==
  /\ InPack("data") /\ Readable(DataSpace) > 0
  /\ LET n == Readable(DataSpace) IN
       /\ out' = out \o BytesOf(Len(listing), n) /\ offset' = offset + n
       /\ pack' = [pack EXCEPT !.written = @ + n,
                     !.state = IF pack.written + n = pack.expected THEN "next" ELSE "data"]
  /\ PackRest /\ UNCHANGED <<disturbed, walk, reads, listing>>

PackData ==
  /\ InPack("data") /\ Readable(DataSpace) > 0
  /\ LET n == Readable(DataSpace) IN
       /\ out' = out \o BytesOf(Len(listing), n) /\ offset' = offset + n
       /\ pack' = [pack EXCEPT !.written = @ + n, !.padding = 0,
                     !.state = CASE pack.written + n < pack.expected -> "data"
                                 [] OTHER -> IF Padding(pack.expected) > 0 THEN "padding" ELSE "next"]
  /\ PackRest /\ UNCHANGED <<disturbed, walk, reads, listing>>

\* The file has become shorter than its header says.
PackDataTruncated ==
  /\ InPack("data") /\ Readable(DataSpace) = 0
  /\ PackRefuses /\ UNCHANGED <<hurt, walk, reads, offset>>

PackPadding ==
  /\ InPack("padding")
  /\ LET n == Min2(Space, Padding(pack.expected) - pack.padding) IN
       /\ out' = out \o Zeros(n)
       /\ pack' = [pack EXCEPT !.padding = @ + n,
                     !.state = IF pack.padding + n = Padding(pack.expected) THEN "next" ELSE @]
  /\ PackRest /\ UNCHANGED <<disturbed, walk, reads, offset, listing>>

PackTrailer ==
  /\ InPack("trailer")
  /\ LET n == Min2(Space, Trailer - pack.trailer) IN
       /\ out' = out \o Zeros(n)
       /\ pack' = [pack EXCEPT !.trailer = @ + n,
                     !.state = IF pack.trailer + n = Trailer THEN "done" ELSE @]
  /\ PackRest /\ UNCHANGED <<disturbed, walk, reads, offset, listing>>

Pack ==
  \/ PackStops \/ Ascend \/ EnterDirectory \/ PassOther \/ NextFile \/ EntryFails \/ NoMoreFiles
  \/ PackHeader \/ PackHeaderFails \/ PackData \/ PackDataTruncated \/ PackPadding \/ PackTrailer

(***************************************************************************)
(* The socket, the server and the end of the handler.                      *)
(***************************************************************************)
SendChunk ==
  /\ at = "send" /\ sent' = sent \o out
  /\ UpProceed(IF exhausted THEN "answer" ELSE "put")
  /\ UNCHANGED <<ctx, dataVars, sourceVars, readVars, packVars>>

SendFails ==
  /\ at = "send" /\ out # <<>> /\ Faults /\ hurt' = TRUE
  /\ PutFailsWith(errno, "HTTP_REQUEST_ERROR")
  /\ UNCHANGED <<ctx, dataVars, upVars>>

\* The server stores as many bytes as were announced.
Stored == SubSeq(sent, 1, announced)

ServerAccepts ==
  /\ at = "answer" /\ Len(sent) >= announced
  /\ UpProceed("complete") /\ UNCHANGED <<ctx, dataVars, upVars>>

\* The server refuses, goes away, or waits for the rest until the request times out.
ServerRefuses ==
  /\ at = "answer" /\ (Faults \/ Len(sent) < announced)
  /\ hurt' = (hurt \/ Len(sent) >= announced)
  /\ PutFailsWith(errno, "HTTP_REQUEST_ERROR")
  /\ UNCHANGED <<ctx, dataVars, upVars>>

ReadComplete ==
  /\ at = "complete" /\ req.way = "up"
  /\ at' = "destroy" /\ told' = TRUE /\ ctx' = FALSE /\ reads' = Absent /\ walk' = <<>>
  /\ UNCHANGED <<req, mounts, code, errno, eres, histVars, dataVars,
                 sourceVars, announced, offset, packVars, sent>>

ReadAbort ==
  /\ at = "abort" /\ req.way = "up"
  /\ UpProceed("destroy") /\ ctx' = FALSE /\ reads' = Absent /\ walk' = <<>>
  /\ UNCHANGED <<dataVars, sourceVars, announced, offset, packVars, sent>>

UpCommon ==
  /\ req.way = "up"
  /\ RefuseRequest \/ DataNew("request") \/ DataFails \/ DataDestroy \/ Respond \/ Work
  /\ UNCHANGED upVars

UpNext ==
  \/ \E e \in AllFiles(tree) : Change(e.name)
  \/ AskRead \/ ReadInitFails \/ ReadInit
  \/ PutRefused \/ PutConnects \/ PutTar \/ PutFile \/ ReadFails \/ Pack
  \/ SendChunk \/ SendFails \/ ServerAccepts \/ ServerRefuses
  \/ ReadComplete \/ ReadAbort \/ UpCommon
-----------------------------------------------------------------------------
UpTypeOK ==
  /\ TransferTypeOK
  /\ IsTree(tree) /\ length \in [Names -> Nat]
  /\ changes \in 0 .. MaxChanges /\ disturbed \in BOOLEAN
  /\ announced \in Nat /\ offset \in Nat /\ reads \in Names \cup {Absent}
  /\ walk \in Seq(Seq(Entry)) /\ Len(walk) <= MaxDepth
  /\ pack.state \in {"next", "header", "data", "padding", "trailer", "done"}
  /\ pack.entry \in Entry \cup {Absent}
  /\ pack.written <= pack.expected /\ pack.padding <= Block /\ pack.trailer <= Trailer
  /\ out \in Seq(Cell) /\ (IsTar => Len(out) <= OutSize)
  /\ listing \in Seq(Entry) /\ sent \in Seq(Cell) /\ exhausted \in BOOLEAN

\* The server gets success exactly if the application was told.  The context, the file and the
\* directories are released, unless there was no memory for the HTTP data (upload.c:176).
UpEndsClean ==
  at = "end" /\ req.way = "up" =>
    /\ (code = "0") <=> told
    /\ ctx \/ reads # Absent \/ walk # <<>> => errno = "ENOSR"

UpGood ==
  /\ ValidRequest(req) /\ req.headers # "length" /\ SourceOk
  /\ IsTar => /\ Cardinality(DOMAIN tree.dirs) <= MaxDepth
              /\ AllFit /\ \A e \in AllFiles(tree) : e.name \notin tree.unsplit

\* Success means that the server has an archive of every file of the directory, each once, or
\* the whole file, unless a file changed or a directory could not be read on the way; and
\* without a fault a source in order is never refused (filesystem.c:443, pack.c:110).
UploadsTree ==
  at = "end" /\ req.way = "up" =>
    /\ code = "0" /\ ~disturbed =>
         IF IsTar
         THEN /\ Stored = Archived(listing)
              /\ ToSet(listing) = AllFiles(tree) /\ Len(listing) = Cardinality(AllFiles(tree))
         ELSE Stored = DataOf(1, tree.dirs[Root][1].size)
    /\ UpGood /\ ~hurt /\ ~disturbed => code = "0"
=============================================================================
