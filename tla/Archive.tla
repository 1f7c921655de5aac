------------------------------- MODULE Archive -------------------------------
(***************************************************************************)
(* The transfers to and from the file system together: a download, or an   *)
(* upload, and behind an upload of a directory the download of what the    *)
(* server stored of it, as edgehog_ft_process_event hands one request      *)
(* after another to the one service thread (file_transfer/core.c:331).     *)
(***************************************************************************)
EXTENDS Download, Upload

CONSTANTS
  Downloads,   \* [req, content, mounts, dest]
  Uploads      \* [req, tree, mounts]

\* What is downloaded as a plain file is the content of one.
ASSUME ArchiveAssumption ==
  /\ \A s \in Downloads :
       /\ s.req \in Request /\ s.req.way = "down" /\ IsContent(s.content)
       /\ s.mounts \in Seq(Mount) /\ s.dest \in Destination
       /\ s.req.encoding \in {"none", "lz4"} => Len(s.content.entries) = 1
  /\ \A s \in Uploads :
       /\ s.req \in Request /\ s.req.way = "up" /\ IsTree(s.tree) /\ s.mounts \in Seq(Mount)
       /\ s.req.path.fits

vars == <<commonVars, downVars, upVars>>

NoContent == [entries |-> <<>>, cells |-> <<>>, files |-> Nothing, good |-> FALSE]
DownIdle ==
  /\ content = NoContent /\ got = 0 /\ chunk = <<>> /\ piece = 0 /\ last = FALSE
  /\ hash = FALSE /\ decomp = FALSE /\ held = <<>> /\ tar = TarNone
  /\ root = "absent" /\ before = "absent" /\ disk = Nothing /\ open = Absent /\ lost = {}

NoTree == [type |-> "absent", dirs |-> [d \in {Root} |-> <<>>], unsplit |-> {}]
UpIdle ==
  /\ tree = NoTree /\ length = Sizes(NoTree) /\ changes = 0 /\ disturbed = FALSE
  /\ announced = 0 /\ walk = <<>> /\ reads = Absent /\ offset = 0
  /\ pack = PackNone /\ out = <<>> /\ listing = <<>> /\ sent = <<>> /\ exhausted = FALSE

Init ==
  \/ \E s \in Downloads : DownStarts(s.req, s.content, s.mounts, s.dest) /\ UpIdle
  \/ \E s \in Uploads : UpStarts(s.req, s.tree, s.mounts) /\ DownIdle

\* The server has the device download the archive that it got, to a new directory.
Handover ==
  /\ at = "end" /\ req.way = "up" /\ code = "0" /\ IsTar
  /\ at' = "asked" /\ code' = "none"
  /\ req' = [req EXCEPT !.way = "down", !.digest = "right", !.size = Len(Stored)]
  /\ content' = [entries |-> listing, cells |-> Stored, files |-> Unpacked(listing),
                 good |-> Stored = Archived(listing)]
  /\ eres' = "OK" /\ told' = FALSE /\ data' = "none" /\ transferred' = 0 /\ reported' = 0
  /\ shown' = 0 /\ hurt' = FALSE /\ kept' = FALSE
  /\ UNCHANGED <<mounts, errno, ctx, work, upVars>>
  /\ UNCHANGED <<got, chunk, piece, last, codecVars, diskVars>>

\* Nothing more is asked for.
Rest == at = "end" /\ UNCHANGED vars

Next ==
  \/ DownNext /\ UNCHANGED upVars
  \/ UpNext /\ UNCHANGED downVars
  \/ Handover \/ Rest

Spec == Init /\ [][Next]_vars
-----------------------------------------------------------------------------
TypeOK == (req.way = "down" => DownTypeOK) /\ UpTypeOK

EndsClean == (req.way = "down" => DownEndsClean) /\ UpEndsClean

GoodTransfers == (req.way = "down" => GoodDownload) /\ UploadsTree
=============================================================================
