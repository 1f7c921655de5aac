------------------------------ MODULE Download ------------------------------
(***************************************************************************)
(* A download to the file system, from its request to its response: the    *)
(* handler and its HTTP callback (download.c), the HTTP client (http.c),   *)
(* the TAR reader (ztar/unpack.c), the LZ4 decompression (decompression.c) *)
(* and the write half of the file system backend (filesystem.c).           *)
(*                                                                         *)
(* The server's answer comes in chunks cut anywhere.  One pass of the loop *)
(* of ztar_unpack_process is one step.                                     *)
(***************************************************************************)
EXTENDS Transfer

CONSTANTS
  Pieces,   \* the sizes of a chunk of the response
  SizeMax   \* SIZE_MAX, which a request of 64 bits may exceed

ASSUME DownloadAssumption == Pieces \subseteq Nat /\ SizeMax \in Nat

\* What a server may offer: the entries of the archive, or the one file; its bytes; the files
\* a reader of it has to end up with; is it a well-formed archive of regular files and empty
\* directories?
IsContent(c) ==
  /\ c.entries \in Seq(Entry) /\ c.cells \in Seq(Cell)
  /\ DOMAIN c.files = Names /\ \A n \in Names : c.files[n] \in Seq(Cell) \cup {Absent}
  /\ c.good \in BOOLEAN

\* An archive of the entries, cut short or with bytes that belong nowhere outside of the data
\* of its files, anything behind it, and no data that tar_on_file_start would have to skip
\* while a file is open; or, without an archive, the bytes of the one file.
Offer(c, encoding) ==
  /\ encoding = "tar" =>
       /\ c.files = Unpacked(c.entries)
       /\ \A k \in DOMAIN c.cells \cap DOMAIN Archived(c.entries) :
            \/ c.cells[k] = Archived(c.entries)[k]
            \/ c.cells[k] = Junk /\ Archived(c.entries)[k][1] # "data"
       /\ \A i, j \in DOMAIN c.entries :
            i < j /\ c.entries[i].kind = "file" /\ c.entries[j].kind # "file" => c.entries[j].size = 0
  /\ encoding \in {"none", "lz4"} =>
       c.files = [n \in Names |-> IF n = c.entries[1].name THEN c.cells ELSE Absent]

\* An archive in order: files below the destination, each with a name of its own, and else
\* nothing that has data.
InOrder(l) ==
  /\ \A i \in DOMAIN l :
       IF l[i].kind = "file" THEN l[i].path.fits /\ SafePath(l[i].path, FALSE, FALSE)
                             ELSE l[i].size = 0
  /\ \A i, j \in DOMAIN l : l[i].kind = "file" /\ l[j].kind = "file" /\ l[i].name = l[j].name => i = j

\* What is called good is the whole archive of entries in order, or a frame that is not broken.
GoodOffer(c, encoding) ==
  c.good =>
    /\ encoding = "tar" => c.cells = Archived(c.entries) /\ InOrder(c.entries)
    /\ encoding = "lz4" => \A k \in DOMAIN c.cells : c.cells[k] # Junk

Destination == {"absent", "dir", "crowded", "file"}

VARIABLES
  content,  \* what the server offers
  got,      \* how many bytes of it arrived
  chunk, piece, last,   \* what is left of the response chunk, its size, last_chunk
  hash,     \* is hash_operation active?
  decomp, held,   \* is there a decompression context, and what it holds back
  tar,      \* ztar_unpack_ctx
  root,     \* the destination: absent, an empty or new directory, a crowded one, a file
  disk,     \* what the transfer wrote below it
  open,     \* the file that write_ctx_t has open
  lost,     \* the files of which fs_close failed: they do not hold what was written
  before    \* history: root when the request came

streamVars == <<content, got, chunk, piece, last>>
diskVars   == <<root, disk, open, lost, before>>
codecVars  == <<hash, decomp, held, tar>>
downVars   == <<streamVars, codecVars, diskVars>>

Tar     == req.encoding = "tar"
Nothing == [n \in Names |-> Absent]
TarNone == [state |-> "none", header |-> <<>>, of |-> 0, file |-> 0, padding |-> 0, trailer |-> 0]

\* A request for content, to a destination, as it comes from the server.
DownStarts(r, c, table, dest) ==
  /\ at = "asked" /\ req = r /\ mounts = table /\ content = c
  /\ errno = "0" /\ eres = "OK" /\ code = "none" /\ ctx = FALSE /\ told = FALSE
  /\ data = "none" /\ transferred = 0 /\ reported = 0 /\ work = "idle" /\ shown = 0
  /\ hurt = FALSE /\ kept = FALSE
  /\ got = 0 /\ chunk = <<>> /\ piece = 0 /\ last = FALSE
  /\ hash = FALSE /\ decomp = FALSE /\ held = <<>> /\ tar = TarNone
  /\ root = dest /\ before = dest /\ disk = Nothing /\ open = Absent /\ lost = {}

(***************************************************************************)
(* The handler up to the HTTP request.                                     *)
(***************************************************************************)
Goto(place) == at' = place /\ UNCHANGED <<req, mounts, code, told>>
Proceed(place) == Goto(place) /\ UNCHANGED <<errno, eres, hurt, kept>>
FailsWith(e, r, place) == Goto(place) /\ errno' = e /\ eres' = r /\ UNCHANGED kept

CheckSize ==
  /\ at = "asked" /\ req.way = "down" /\ ValidRequest(req)
  /\ \/ req.size \in 0 .. SizeMax /\ Proceed("init")
     \/ req.size \notin 0 .. SizeMax /\ FailsWith("EINVAL", eres, "destroy") /\ UNCHANGED hurt
  /\ UNCHANGED <<ctx, dataVars, downVars>>

\* is_valid_destination.  The directories above the destination are not modelled.
TarDestinationOk  == root \in {"absent", "dir"}
FileDestinationOk == root = "absent"
DestinationOk ==
  req.path.fits /\ SafePath(req.path, TRUE, Tar) /\ IF Tar THEN TarDestinationOk ELSE FileDestinationOk

\* The directory is made before the partition is looked at.
Made == IF Tar THEN "dir" ELSE root

WriteInitRefuses ==
  /\ at = "init"
  /\ FailsWith("EIO", "OTHER", "destroy") /\ UNCHANGED hurt
  /\ \/ ~DestinationOk /\ UNCHANGED root
     \/ DestinationOk /\ ~PartitionOk(mounts, "write", req.size) /\ root' = Made
  /\ UNCHANGED <<ctx, dataVars, streamVars, codecVars, disk, open, lost, before>>

WriteInitFails ==
  /\ at = "init" /\ Faults /\ DestinationOk
  /\ FailsWith("EIO", "OTHER", "destroy") /\ hurt' = TRUE
  /\ root' \in {root, Made}
  /\ UNCHANGED <<ctx, dataVars, streamVars, codecVars, disk, open, lost, before>>

WriteInit ==
  /\ at = "init" /\ DestinationOk /\ PartitionOk(mounts, "write", req.size)
  /\ Proceed("data") /\ ctx' = TRUE
  /\ root' = IF Tar THEN "dir" ELSE "file"
  /\ IF Tar THEN UNCHANGED <<disk, open>>
            ELSE /\ open' = content.entries[1].name
                 /\ disk' = [disk EXCEPT ![open'] = <<>>]
  /\ UNCHANGED <<dataVars, streamVars, codecVars, lost, before>>

SetupDigest ==
  /\ at = "digest"
  /\ \/ Proceed("request") /\ hash' = TRUE
     \/ Faults /\ FailsWith("EIO", eres, "abort") /\ hurt' = TRUE /\ UNCHANGED hash
  /\ UNCHANGED <<ctx, dataVars, streamVars, decomp, held, tar, diskVars>>

(***************************************************************************)
(* edgehog_http_get, and the callback for each chunk.                      *)
(***************************************************************************)
\* A callback that returns an error makes the request one that failed.
Refuse(e) == FailsWith(e, "HTTP_REQUEST_ERROR", "abort")

HttpConnects ==
  /\ at = "request" /\ req.way = "down" /\ Proceed("http")
  /\ UNCHANGED <<ctx, dataVars, downVars>>

\* No connection, no memory, a status that is not 2xx, or no answer in time.
HttpGetFails ==
  /\ at \in {"request", "http"} /\ req.way = "down" /\ Faults /\ hurt' = TRUE
  /\ \E r \in IF at = "http" THEN {"HTTP_REQUEST_ERROR"} ELSE HttpRefusals :
       FailsWith(errno, r, "abort")
  /\ UNCHANGED <<ctx, dataVars, downVars>>

\* The last chunk is the one that completes the answer, or behind which the server hangs up.
Receive(n, final) ==
  /\ at = "http" /\ got + n <= Len(content.cells) /\ (n > 0 \/ final)
  /\ final => (got + n = Len(content.cells) \/ Faults)
  /\ got' = got + n /\ chunk' = SubSeq(content.cells, got + 1, got + n)
  /\ piece' = n /\ last' = final
  /\ decomp' = (req.encoding = "lz4")
  /\ tar' = IF Tar /\ tar.state = "none" THEN [tar EXCEPT !.state = "header"] ELSE tar
  /\ hurt' = (hurt \/ (final /\ got' < Len(content.cells)))
  /\ Goto("chunk")
  /\ UNCHANGED <<errno, eres, kept, ctx, dataVars, content, hash, held, diskVars>>

\* The digest cannot be updated, or the decompression not be initialised.
ReceiveFails ==
  /\ at = "http" /\ Faults /\ hurt' = TRUE
  /\ \/ Refuse("EIO")
     \/ req.encoding = "lz4" /\ ~decomp /\ Refuse("ENOMEM")
  /\ UNCHANGED <<ctx, dataVars, downVars>>

\* ztar_unpack_get_file_size, _type and _name of the header that was read.
FileSize    == content.entries[tar.of].size
Regular(i)  == content.entries[i].kind = "file"
FileName(i) == content.entries[i].name

ChunkDone == Proceed(IF last THEN "got" ELSE "http")
Appended(cells) == [disk EXCEPT ![open] = @ \o cells]
First(n)  == SubSeq(chunk, 1, n)
After(n)  == SubSeq(chunk, n + 1, Len(chunk))

AppendChunk ==
  /\ at = "chunk" /\ req.encoding = "none"
  /\ disk' = Appended(chunk) /\ chunk' = <<>>
  /\ UpdateProgress(piece, last) /\ ChunkDone
  /\ UNCHANGED <<ctx, content, got, piece, last, codecVars, root, open, lost, before>>

\* fs_write fails, after a part of the chunk.
AppendFails ==
  /\ at = "chunk" /\ Faults /\ open # Absent /\ chunk # <<>>
  /\ req.encoding = "none" \/ tar.state = "data"
  /\ \E n \in 0 .. Len(chunk) - 1 :
       /\ Tar => tar.file + n < FileSize
       /\ disk' = Appended(First(n))
  /\ Refuse("EIO") /\ hurt' = TRUE
  /\ UNCHANGED <<ctx, dataVars, streamVars, codecVars, root, open, lost, before>>

\* What LZ4F_decompress has to work on.
Input == held \o chunk
Intact(n) == \A k \in 1 .. n : Input[k] # Junk

\* A frame that is complete is decompressed to its end.
Decompress(n) ==
  /\ at = "chunk" /\ req.encoding = "lz4" /\ n <= Len(Input) /\ Intact(n)
  /\ got = Len(content.cells) => n = Len(Input)
  /\ disk' = Appended(SubSeq(Input, 1, n)) /\ held' = SubSeq(Input, n + 1, Len(Input))
  /\ IF n = 0 /\ ~last THEN UNCHANGED dataVars ELSE UpdateProgress(n, last)
  /\ decomp' = ~last /\ chunk' = <<>> /\ ChunkDone
  /\ UNCHANGED <<ctx, content, got, piece, last, hash, tar, root, open, lost, before>>

\* A broken frame, or fs_write fails, after n bytes of it were written.
DecompressFails(n) ==
  /\ at = "chunk" /\ req.encoding = "lz4" /\ chunk # <<>> /\ n <= Len(Input) /\ Intact(n)
  /\ \/ ~Intact(Len(Input)) /\ UNCHANGED hurt
     \/ Faults /\ hurt' = TRUE
  /\ disk' = Appended(SubSeq(Input, 1, n))
  /\ Refuse("EIO") /\ decomp' = FALSE
  /\ UNCHANGED <<ctx, dataVars, streamVars, hash, held, tar, root, open, lost, before>>

\* fs_close of the file that is open, if one is.  Its result is not looked at: a file that it
\* fails for stays as empty as it was made, as the writer never calls fs_sync.
Unkept == lost \cup ({open} \ {Absent})
Close ==
  \/ UNCHANGED <<lost, hurt>>
  \/ Faults /\ open # Absent /\ lost' = Unkept /\ hurt' = TRUE

(***************************************************************************)
(* ztar_unpack_process, with the callbacks that write the files.           *)
(***************************************************************************)
InTar(s) == at = "chunk" /\ Tar /\ tar.state = s /\ chunk # <<>>
TarRest  == UNCHANGED <<ctx, dataVars, content, got, piece, last, hash, decomp, held, root, before>>
TarRefuses == Refuse("EIO") /\ UNCHANGED <<hurt, chunk, tar, disk, open, lost>> /\ TarRest

\* Mutant: the rest of the chunk, whatever the header still needs of it.
HeaderTakeAll == Len(chunk)
\* The header with what this chunk adds to it, and how much that is.
HeaderTake == Min2(Len(chunk), Block - Len(tar.header))
HeaderRead == tar.header \o First(HeaderTake)
HeaderFull == Len(HeaderRead) = Block
\* validate_header: magic, version and checksum hold only for a header as it was written.
HeaderIs(i) == i \in DOMAIN content.entries /\ HeaderRead = HeaderOf(i)
HeaderValid == \E i \in DOMAIN content.entries : HeaderIs(i)

ReadHeader(next) ==
  /\ tar' = next /\ chunk' = After(HeaderTake)
  /\ Goto("chunk") /\ UNCHANGED <<errno, eres, kept>> /\ TarRest

HeaderPart ==
  /\ InTar("header") /\ ~HeaderFull
  /\ ReadHeader([tar EXCEPT !.header = HeaderRead])
  /\ UNCHANGED <<disk, open, lost, hurt>>

HeaderOfZeros ==
  /\ InTar("header") /\ HeaderFull /\ AllZero(HeaderRead)
  /\ ReadHeader([tar EXCEPT !.state = "trailer", !.header = HeaderRead, !.trailer = Block])
  /\ UNCHANGED <<disk, open, lost, hurt>>

HeaderRefused ==
  /\ InTar("header") /\ HeaderFull /\ ~AllZero(HeaderRead) /\ ~HeaderValid
  /\ TarRefuses

StartData(i) == [tar EXCEPT !.state = "data", !.header = HeaderRead, !.of = i, !.file = 0]

\* tar_on_file_start passes over what is not a regular file; the file before it stays open.
HeaderSkipped(i) ==
  /\ InTar("header") /\ HeaderFull /\ HeaderIs(i) /\ ~Regular(i)
  /\ ReadHeader(StartData(i))
  /\ UNCHANGED <<disk, open, lost, hurt>>

\* write_append_next_entry: a path below the destination at which nothing is yet.
EntryOk(e) == e.path.fits /\ SafePath(e.path, FALSE, FALSE) /\ disk[e.name] = Absent

\* Mutant: a second entry for a file goes on at its start.
HeaderReopens(i) ==
  /\ InTar("header") /\ HeaderFull /\ HeaderIs(i) /\ Regular(i)
  /\ open' = FileName(i) /\ disk' = [disk EXCEPT ![open'] = <<>>]
  /\ Close /\ ReadHeader(StartData(i))

HeaderOpens(i) ==
  /\ InTar("header") /\ HeaderFull /\ HeaderIs(i)
  /\ Regular(i) /\ EntryOk(content.entries[i])
  /\ open' = FileName(i) /\ disk' = [disk EXCEPT ![open'] = <<>>]
  /\ Close /\ ReadHeader(StartData(i))

\* The file before is closed first.
HeaderOpenFails(i) ==
  /\ InTar("header") /\ HeaderFull /\ HeaderIs(i) /\ Regular(i)
  /\ \/ ~EntryOk(content.entries[i]) /\ Close
     \/ Faults /\ hurt' = TRUE /\ lost' \in {lost, Unkept}
  /\ open' = Absent /\ tar' = StartData(i)
  /\ Refuse("EIO") /\ TarRest /\ UNCHANGED <<chunk, disk>>

\* The state behind the last byte of the data of a file.
DataEnds(t, size) ==
  IF Padding(size) = 0 THEN [t EXCEPT !.state = "header", !.header = <<>>]
                       ELSE [t EXCEPT !.state = "padding", !.padding = 0]

\* The next bytes of a file; a file without any is left here when the next byte comes.
ReadData ==
  /\ InTar("data")
  /\ LET n    == Min2(Len(chunk), FileSize - tar.file)
         read == [tar EXCEPT !.file = tar.file + n]
     IN  /\ n > 0 => open # Absent
         /\ disk' = IF n > 0 THEN Appended(First(n)) ELSE disk
         /\ chunk' = After(n)
         /\ tar' = IF tar.file + n = FileSize THEN DataEnds(read, FileSize) ELSE read
  /\ Proceed("chunk") /\ TarRest /\ UNCHANGED <<open, lost>>

ReadDataNowhere ==
  /\ InTar("data") /\ tar.file < FileSize /\ open = Absent
  /\ TarRefuses

ReadPadding ==
  /\ InTar("padding")
  /\ LET left == Padding(FileSize) - tar.padding
         n    == Min2(Len(chunk), left)
     IN  /\ AllZero(First(n))
         /\ chunk' = After(n)
         /\ tar' = IF n = left
                   THEN [tar EXCEPT !.padding = @ + n, !.state = "header", !.header = <<>>]
                   ELSE [tar EXCEPT !.padding = @ + n]
  /\ Proceed("chunk") /\ TarRest /\ UNCHANGED <<disk, open, lost>>

ReadPaddingRefused ==
  /\ InTar("padding")
  /\ ~AllZero(First(Min2(Len(chunk), Padding(FileSize) - tar.padding)))
  /\ TarRefuses

\* What follows the trailer in the chunk is not looked at.
ReadTrailer ==
  /\ InTar("trailer")
  /\ LET n == Min2(Len(chunk), Trailer - tar.trailer)
     IN  /\ AllZero(First(n))
         /\ tar' = [tar EXCEPT !.trailer = @ + n]
         /\ chunk' = IF tar.trailer + n = Trailer THEN <<>> ELSE After(n)
  /\ Proceed("chunk") /\ TarRest /\ UNCHANGED <<disk, open, lost>>

ReadTrailerRefused ==
  /\ InTar("trailer") /\ ~AllZero(First(Min2(Len(chunk), Trailer - tar.trailer)))
  /\ TarRefuses

TarChunkEnds ==
  /\ at = "chunk" /\ Tar /\ chunk = <<>>
  /\ last => tar.trailer = Trailer
  /\ UpdateProgress(piece, last) /\ ChunkDone
  /\ UNCHANGED <<ctx, downVars>>

TarNotExhausted ==
  /\ at = "chunk" /\ Tar /\ chunk = <<>> /\ last /\ tar.trailer < Trailer
  /\ TarRefuses

Unpack ==
  \/ HeaderPart \/ HeaderOfZeros \/ HeaderRefused
  \/ \E i \in DOMAIN content.entries : HeaderSkipped(i) \/ HeaderOpens(i) \/ HeaderOpenFails(i)
  \/ ReadData \/ ReadDataNowhere \/ ReadPadding \/ ReadPaddingRefused
  \/ ReadTrailer \/ ReadTrailerRefused \/ TarChunkEnds \/ TarNotExhausted

(***************************************************************************)
(* The handler behind the HTTP request.                                    *)
(***************************************************************************)
DigestRight == req.digest = "right" /\ got = Len(content.cells)

VerifyDigest ==
  /\ at = "got"
  /\ \/ DigestRight /\ Proceed("complete") /\ hash' = FALSE
     \/ ~DigestRight /\ FailsWith("EINVAL", eres, "abort") /\ UNCHANGED <<hash, hurt>>
     \/ Faults /\ FailsWith("EIO", eres, "abort") /\ hurt' = TRUE /\ UNCHANGED hash
  /\ UNCHANGED <<ctx, dataVars, streamVars, decomp, held, tar, diskVars>>

WriteComplete ==
  /\ at = "complete" /\ req.way = "down"
  /\ at' = "destroy" /\ told' = TRUE /\ ctx' = FALSE /\ open' = Absent /\ Close
  /\ UNCHANGED <<req, mounts, code, errno, eres, kept, dataVars,
                 streamVars, codecVars, root, disk, before>>

\* Mutant: the files of an archive are left where they are.
WriteAbortFileOnly ==
  /\ at = "abort" /\ req.way = "down"
  /\ Goto("destroy") /\ ctx' = FALSE /\ open' = Absent /\ hash' = FALSE
  /\ disk' = IF Tar THEN disk ELSE Nothing
  /\ root' = IF Tar THEN root ELSE "absent"
  /\ UNCHANGED <<errno, eres, hurt, kept, lost>>
  /\ UNCHANGED <<dataVars, streamVars, decomp, held, tar, before>>

\* What may be left of the files when some cannot be deleted.
Remains == {[n \in Names |-> IF n \in rest THEN disk[n] ELSE Absent] : rest \in SUBSET Names}

\* write_abort, and psa_hash_abort at the label exit.
WriteAbort ==
  /\ at = "abort" /\ req.way = "down"
  /\ Goto("destroy") /\ ctx' = FALSE /\ open' = Absent /\ hash' = FALSE
  /\ UNCHANGED <<errno, eres>>
  /\ \/ disk' = Nothing /\ root' = "absent" /\ UNCHANGED <<hurt, kept, lost>>
     \/ /\ Faults /\ hurt' = TRUE /\ kept' = TRUE
        /\ disk' \in Remains /\ lost' \in {lost, Unkept} /\ UNCHANGED root
  /\ UNCHANGED <<dataVars, streamVars, decomp, held, tar, before>>

DownCommon ==
  /\ req.way = "down"
  /\ RefuseRequest \/ DataNew("digest") \/ DataFails \/ DataDestroy \/ Respond \/ Work
  /\ UNCHANGED downVars

Http ==
  \/ HttpConnects \/ HttpGetFails \/ ReceiveFails
  \/ \E n \in Pieces, final \in BOOLEAN : Receive(n, final)
  \/ AppendChunk \/ AppendFails
  \/ \E n \in 0 .. Len(held) + Len(chunk) : Decompress(n) \/ DecompressFails(n)

DownNext ==
  \/ CheckSize \/ WriteInitRefuses \/ WriteInitFails \/ WriteInit \/ SetupDigest
  \/ Http \/ Unpack \/ VerifyDigest \/ WriteComplete \/ WriteAbort \/ DownCommon
-----------------------------------------------------------------------------
DownTypeOK ==
  /\ TransferTypeOK
  /\ IsContent(content) /\ got \in Nat
  /\ chunk \in Seq(Cell) /\ piece \in Nat /\ last \in BOOLEAN
  /\ hash \in BOOLEAN /\ decomp \in BOOLEAN /\ held \in Seq(Cell)
  /\ tar \in [state : {"none", "header", "data", "padding", "trailer"}, header : Seq(Cell),
              of : Nat, file : Nat, padding : Nat, trailer : Nat]
  /\ Len(tar.header) <= Block /\ tar.trailer <= Trailer
  /\ root \in Destination /\ before \in Destination
  /\ disk \in [Names -> Seq(Cell) \cup {Absent}] /\ open \in Names \cup {Absent}
  /\ lost \subseteq Names

\* The server gets success exactly if the application was told of the files.  A failed
\* transfer leaves nothing of its own at the destination unless that is on record, and a file or
\* a directory with something in it that was there before is as it was; an empty directory is
\* taken over, and deleted with the rest (filesystem.c:328).  Contexts, open files and the hash
\* are released, except for the file context when there was no memory for the HTTP data, and for
\* the decompression context when the request breaks off between two chunks (download.c:277,
\* filesystem.c:304).
DownEndsClean ==
  at = "end" =>
    /\ (code = "0") <=> told
    /\ code # "0" => disk = Nothing \/ kept
    /\ before \in {"crowded", "file"} => root = before /\ disk = Nothing
    /\ ~hash
    /\ ctx \/ open # Absent => errno = "ENOSR"
    /\ decomp => req.encoding = "lz4" /\ code # "0" /\ hurt

\* A request and a destination in order and a good archive: only a call that fails outside of
\* the library keeps the download from success, wherever the chunks are cut (unpack.c:94).
DownGood ==
  /\ ValidRequest(req) /\ req.size \in 0 .. SizeMax /\ req.digest = "right" /\ content.good
  /\ req.path.fits /\ SafePath(req.path, TRUE, Tar) /\ (before = "absent" \/ (Tar /\ before = "dir"))
  /\ PartitionOk(mounts, "write", req.size)

GoodDownload == (at = "end" /\ DownGood /\ ~hurt) => code = "0"

\* What download.c:91 says of the entries that are no regular files: they are skipped, so that
\* a file never holds the bytes of another entry.
SkipsForeign ==
  \A n \in Names : disk[n] # Absent =>
    content.files[n] # Absent /\ IsPrefix(disk[n], content.files[n])

\* What is at the destination: what was written, but for the files that were not closed.
Stays == [n \in Names |-> IF n \in lost /\ disk[n] # Absent THEN <<>> ELSE disk[n]]

\* The download implements the promise of Extraction: no foreign byte below the destination,
\* files that only grow along the wanted content but for those that fs_close failed for,
\* success only with all of the others there in full, and a failure that takes everything back
\* unless that is on record (download.c:181, filesystem.c:206, :290, :304).
Promise == INSTANCE Extraction WITH
  wanted <- content.files, files <- Stays, lost <- lost, kept <- kept /\ req.way = "down",
  verdict <- CASE req.way = "up" -> "idle"
               [] req.way = "down" /\ code = "none" -> "none"
               [] req.way = "down" /\ code = "0" -> "ok"
               [] OTHER -> "error"

ExtractsReference == Promise!Spec
=============================================================================
