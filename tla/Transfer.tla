------------------------------ MODULE Transfer ------------------------------
(***************************************************************************)
(* What the downloads and the uploads of the file transfer service share:  *)
(* the request (utils.c), the paths and partitions it may name             *)
(* (filesystem_utils.c), the data of an HTTP callback with the progress    *)
(* that the system work queue publishes, the response, and the blocks of a *)
(* TAR archive (ztar/core.h).                                              *)
(*                                                                         *)
(* A byte is a cell that says where it came from: the at-th byte of the    *)
(* header or of the data of the of-th file, a zero, or a byte that belongs *)
(* nowhere.                                                                *)
(***************************************************************************)
EXTENDS Integers, Sequences, SequencesExt

CONSTANTS
  Names,      \* the paths a file may have below the root of a transfer
  Absent,     \* no content
  Block,      \* ZTAR_BLOCK_SIZE: 512 bytes
  Faults      \* may the file system, memory, cryptography or the network fail?

ASSUME TransferAssumption == Block \in Nat \ {0, 1} /\ Faults \in BOOLEAN

VARIABLES
  at,       \* where the service thread is in a handler
  req,      \* edgehog_ft_msg_t
  mounts,   \* the partitions of edgehog_ft_t
  errno,    \* posix_errno
  eres,     \* edgehog_result_t of the last call
  code,     \* the code of the response
  ctx,      \* is there a write_ctx_t or read_ctx_t on the heap?
  told,     \* on_filesystem_transfer_done was called
  data,     \* edgehog_ft_http_cbk_data_t: none, live or freed
  transferred, reported, work,   \* its transferred_bytes, last_reported_bytes, progress_work
  shown,    \* the progress that was published last
  \* History.
  hurt,     \* a call outside of the library failed
  kept      \* what this transfer made was kept on purpose or could not be deleted

dataVars   == <<data, transferred, reported, work, shown>>
histVars   == <<hurt, kept>>
commonVars == <<at, req, mounts, errno, eres, code, ctx, told, dataVars, histVars>>

Min2(a, b) == IF a < b THEN a ELSE b

(***************************************************************************)
(* The request.                                                            *)
(***************************************************************************)
\* A path: does it start at the root, hold a component "..", end in a slash, fit its buffer?
Path == [absolute : BOOLEAN, dots : BOOLEAN, slash : BOOLEAN, fits : BOOLEAN]

\* What parse_endpoint_value stores of an object, with the URL and the location being there.
Encodings == {"none", "lz4", "tar", "unsupported"}
Locations == {"filesystem", "streaming", "unsupported"}
Request == [way : {"down", "up"}, id : BOOLEAN, whole : BOOLEAN,
            digest : {"missing", "right", "wrong"},
            headers : {"none", "good", "bad", "length"},   \* one of them is Content-Length
            encoding : Encodings, location : Locations,
            path : Path, progress : BOOLEAN, size : Int]

\* As many keys as values, and memory for their lines.
HeadersOk(r) == r.headers # "bad"

\* edgehog_ft_msg_init accepts the request.
ValidRequest(r) ==
  /\ r.id /\ r.whole /\ r.location # "unsupported"
  /\ r.way = "down" => r.digest # "missing"
  /\ HeadersOk(r)
  /\ r.encoding # "unsupported"
  /\ ~(r.way = "up" /\ r.encoding = "lz4")
  /\ ~(r.location = "streaming" /\ r.encoding = "tar")

SafePath(p, root, dir) ==
  p.absolute = root /\ ~p.dots /\ (p.slash => dir)

\* The first partition that holds the path, grants the permission and is mounted decides.
Mount == [covers : BOOLEAN, perms : SUBSET {"read", "write"}, mounted : BOOLEAN, free : Nat]

PartitionOk(table, perm, size) ==
  \E i \in DOMAIN table :
    /\ table[i].covers /\ perm \in table[i].perms /\ table[i].mounted
    /\ \A j \in 1 .. i - 1 : ~(table[j].covers /\ perm \in table[j].perms /\ table[j].mounted)
    /\ size > 0 => size <= table[i].free

(***************************************************************************)
(* The response.                                                           *)
(***************************************************************************)
HttpRefusals == {"PARSE_URL_ERROR", "NETWORK_ERROR", "OUT_OF_MEMORY"}
HttpErrors   == HttpRefusals \cup {"HTTP_REQUEST_ERROR", "INVALID_HEADERS"}
Results      == {"OK", "OTHER"} \cup HttpErrors
Errnos       == {"0", "EINVAL", "EIO", "ENOSR", "ENOMEM", "EPIPE", "EPROTO", "ECONNREFUSED"}

ResponseCode ==
  CASE errno # "0"                                    -> errno
    [] errno = "0" /\ eres = "OK"                     -> "0"
    [] errno = "0" /\ eres \in {"INVALID_HEADERS", "PARSE_URL_ERROR"} -> "EINVAL"
    [] errno = "0" /\ eres = "NETWORK_ERROR"          -> "ECONNREFUSED"
    [] errno = "0" /\ eres = "HTTP_REQUEST_ERROR"     -> "EPROTO"
    [] errno = "0" /\ eres = "OUT_OF_MEMORY"          -> "ENOSR"
    [] OTHER                                          -> "EPIPE"

Respond ==
  /\ at = "reply"
  /\ code' = ResponseCode /\ at' = "end"
  /\ UNCHANGED <<req, mounts, errno, eres, ctx, told, dataVars, histVars>>

\* edgehog_ft_process_event: a request without id is dropped, another gets an error.
RefuseRequest ==
  /\ at = "asked" /\ ~ValidRequest(req)
  /\ at' = "end" /\ code' = IF req.id THEN "EPIPE" ELSE "dropped"
  /\ UNCHANGED <<req, mounts, errno, eres, ctx, told, dataVars, histVars>>

(***************************************************************************)
(* The data of the HTTP callbacks.  Without memory for it the handler goes *)
(* straight to the response: the file context stays on the heap and what   *)
(* was opened stays open.                                                  *)
(***************************************************************************)
DataNew(next) ==
  /\ at = "data"
  /\ data' = "live" /\ transferred' = 0 /\ reported' = 0 /\ work' = "idle"
  /\ at' = next
  /\ UNCHANGED <<req, mounts, errno, eres, code, ctx, told, shown, histVars>>

DataFails ==
  /\ at = "data" /\ Faults
  /\ errno' = "ENOSR" /\ hurt' = TRUE /\ kept' = TRUE /\ at' = "destroy"
  /\ UNCHANGED <<req, mounts, eres, code, ctx, told, dataVars>>

\* edgehog_ft_update_progress.  Whether five percent have passed is left open.
UpdateProgress(n, last) ==
  IF ~req.progress
  THEN UNCHANGED dataVars
  ELSE /\ transferred' = transferred + n
       /\ UNCHANGED <<data, shown>>
       /\ \/ /\ reported' = transferred + n /\ work' = "queued"
          \/ /\ ~last
             /\ UNCHANGED <<reported, work>>

\* progress_work_handler, in the system work queue.
Work ==
  /\ work = "queued"
  /\ shown' = reported /\ work' = "idle"
  /\ UNCHANGED <<at, req, mounts, errno, eres, code, ctx, told,
                 data, transferred, reported, histVars>>

\* Mutant: the work item is freed while it is queued.
DataFreed ==
  /\ at = "destroy"
  /\ data' = IF data = "live" THEN "freed" ELSE data
  /\ at' = "reply"
  /\ UNCHANGED <<req, mounts, errno, eres, code, ctx, told,
                 transferred, reported, work, shown, histVars>>

\* k_work_flush waits for the work item.
DataDestroy ==
  /\ at = "destroy" /\ work = "idle"
  /\ data' = IF data = "live" THEN "freed" ELSE data
  /\ at' = "reply"
  /\ UNCHANGED <<req, mounts, errno, eres, code, ctx, told,
                 transferred, reported, work, shown, histVars>>

(***************************************************************************)
(* The bytes of an archive.                                                *)
(***************************************************************************)
Zero == <<"zero", 0, 0>>
Junk == <<"junk", 0, 0>>
Cell == {"header", "data", "zero", "junk"} \X Nat \X Nat

ASSUME AbsentAssumption == Absent \notin Names /\ Absent \notin Seq(Cell)

HeaderOf(i)  == [k \in 1 .. Block |-> <<"header", i, k>>]
DataOf(i, n) == [k \in 1 .. n |-> <<"data", i, k>>]
Zeros(n)     == [k \in 1 .. n |-> Zero]
AllZero(s)   == \A k \in DOMAIN s : s[k] = Zero

Padding(size) == (Block - (size % Block)) % Block
Trailer       == 2 * Block
\* The whole blocks of one file.
FileBlocks(size) == Block + size + Padding(size)

Entry == [name : Names, path : Path, kind : {"file", "dir", "other"}, size : Nat]

\* An archive of these entries.
Archived(entries) ==
  FlattenSeq([i \in DOMAIN entries |->
    HeaderOf(i) \o DataOf(i, entries[i].size) \o Zeros(Padding(entries[i].size))])
    \o Zeros(Trailer)

\* The files that they stand for; of two with one name the first.
Unpacked(entries) ==
  [n \in Names |->
    LET own == {i \in DOMAIN entries : entries[i].kind = "file" /\ entries[i].name = n}
    IN  IF own = {} THEN Absent
        ELSE LET i == CHOOSE i \in own : \A j \in own : i <= j
             IN  DataOf(i, entries[i].size)]

TransferTypeOK ==
  /\ req \in Request /\ mounts \in Seq(Mount)
  /\ errno \in Errnos /\ eres \in Results
  /\ code \in {"none", "dropped"} \cup Errnos
  /\ ctx \in BOOLEAN /\ told \in BOOLEAN
  /\ data \in {"none", "live", "freed"} /\ work \in {"idle", "queued"}
  /\ transferred \in Nat /\ reported \in Nat /\ shown \in Nat
  /\ hurt \in BOOLEAN /\ kept \in BOOLEAN

(***************************************************************************)
(* The work item is part of the data and names the id of the request: it   *)
(* never runs once the data is freed.  No progress is published behind the *)
(* response, and none is more than what was transferred or less than what  *)
(* was published before (edgehog_ft_http_cbk_data_destroy, utils.c:217).   *)
(***************************************************************************)
ProgressIsSafe ==
  /\ work = "queued" => data = "live"
  /\ code # "none" => work = "idle"
  /\ shown <= reported /\ reported <= transferred
=============================================================================
