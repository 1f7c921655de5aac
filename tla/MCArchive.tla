------------------------------ MODULE MCArchive ------------------------------
EXTENDS Archive

MCNames == {"a", "b", "d"}

Below     == [absolute |-> FALSE, dots |-> FALSE, slash |-> FALSE, fits |-> TRUE]
Rooted    == [Below EXCEPT !.absolute = TRUE]
Escaping  == [Below EXCEPT !.dots = TRUE]
Slashed   == [Rooted EXCEPT !.slash = TRUE]
TooLong   == [Below EXCEPT !.fits = FALSE]

F(n, size) == [name |-> n, path |-> Below, kind |-> "file", size |-> size]
D(n)       == [name |-> n, path |-> Below, kind |-> "dir", size |-> 0]
O(n, size) == [name |-> n, path |-> Below, kind |-> "other", size |-> size]

Disk(free) == [covers |-> TRUE, perms |-> {"read", "write"}, mounted |-> TRUE, free |-> free]
Table == <<[Disk(9) EXCEPT !.perms = {"read"}], [Disk(9) EXCEPT !.mounted = FALSE],
           [Disk(9) EXCEPT !.covers = FALSE], Disk(20), Disk(99)>>

Get == [way |-> "down", id |-> TRUE, whole |-> TRUE, digest |-> "right", headers |-> "none",
        encoding |-> "tar", location |-> "filesystem", path |-> Rooted, progress |-> FALSE,
        size |-> 0]
GetFile == [Get EXCEPT !.encoding = "none"]
Put     == [Get EXCEPT !.way = "up"]
PutOne == [Put EXCEPT !.encoding = "none"]

TarOf(entries) ==
  [entries |-> entries, cells |-> Archived(entries), files |-> Unpacked(entries), good |-> TRUE]
Bad(entries) == [TarOf(entries) EXCEPT !.good = FALSE]
Plain(n) ==
  [entries |-> <<F("a", n)>>, cells |-> DataOf(1, n), files |-> Unpacked(<<F("a", n)>>), good |-> TRUE]
Cut(c, n)  == [c EXCEPT !.cells = SubSeq(@, 1, n), !.good = FALSE]
Dirt(c, k) == [c EXCEPT !.cells[k] = Junk, !.good = FALSE]
\* A compressed frame that is broken at a byte; what is wanted of it is what it holds.
Broken(n, k) == LET c == Dirt(Plain(n), k) IN [c EXCEPT !.files["a"] = c.cells]

Down(r, c, m, d) == [req |-> r, content |-> c, mounts |-> m, dest |-> d]
Two == TarOf(<<F("a", 1), F("b", 3)>>)

\* Archives cut into chunks anywhere.
Well ==
  {Down(Get, TarOf(s), Table, "absent") :
     s \in {<<>>, <<F("a", 0)>>, <<F("a", 2), F("b", 0)>>, <<F("a", 3), D("d"), F("b", 1)>>,
           <<F("a", 1), F("b", 1), F("d", 4)>>}}
  \cup {Down([GetFile EXCEPT !.encoding = e], Plain(n), Table, "absent") :
          e \in {"none", "lz4"}, n \in {0, 1, 3}}
  \cup {Down([Get EXCEPT !.path = Slashed], Two, Table, "dir"),
        Down([Get EXCEPT !.progress = TRUE], TarOf(<<F("a", 1)>>), Table, "absent")}
  \cup {Down([GetFile EXCEPT !.progress = TRUE, !.encoding = e], Plain(3), Table, "absent") :
          e \in {"none", "lz4"}}

\* Archives that are not in order.
Ill ==
  {Down(Get, Bad(s), Table, "absent") :
     s \in {<<F("a", 1), F("a", 2)>>, <<F("a", 1), [F("b", 1) EXCEPT !.path = Escaping]>>,
            <<[F("a", 1) EXCEPT !.path = Rooted]>>, <<[F("a", 1) EXCEPT !.path = TooLong]>>,
            <<O("d", 1), F("a", 1)>>}}   \* data for no file
  \cup {Down(Get, Cut(Two, n), Table, "absent") : n \in {3, 4, 6, 10, 12}}
  \cup {Down([GetFile EXCEPT !.encoding = "lz4"], Broken(3, k), Table, "absent") : k \in {1, 3}}
  \cup {Down(Get, Dirt(Two, k), Table, "absent") : k \in {1, 4, 10, 11, 13}}

\* Requests and destinations that are not in order.
Refused ==
  {Down(r, Two, Table, "absent") : r \in
     {[Get EXCEPT !.id = FALSE], [Get EXCEPT !.whole = FALSE], [Get EXCEPT !.digest = "missing"],
      [Get EXCEPT !.digest = "wrong"], [Get EXCEPT !.headers = "bad"], [Get EXCEPT !.size = -1],
      [Get EXCEPT !.size = 21], [Get EXCEPT !.size = 20], [Get EXCEPT !.path = Below],
      [Get EXCEPT !.path.dots = TRUE], [Get EXCEPT !.path.fits = FALSE], [Get EXCEPT !.location = "unsupported"],
      [Get EXCEPT !.encoding = "unsupported"], [Get EXCEPT !.location = "streaming"]}}
  \cup {Down(Get, Two, Table, d) : d \in {"crowded", "file"}}
  \cup {Down(GetFile, Plain(2), Table, d) : d \in {"file", "dir"}}
  \cup {Down([GetFile EXCEPT !.path = Slashed], Plain(2), Table, "absent"),
        Down([Get EXCEPT !.size = 31], Two, <<Disk(99)>>, "absent"),   \* more than SizeMax
        Down(Get, Two, <<>>, "absent"), Down(Get, Two, SubSeq(Table, 1, 3), "absent")}

MCDownloads == Well \cup Ill \cup Refused

\* What the proofs assume of the content a server offers holds of all of it, the archives that
\* are cut or dirty included, and is what MCForeign lacks.
ASSUME OfferedAssumption ==
  \A s \in MCDownloads : Offer(s.content, s.req.encoding) /\ GoodOffer(s.content, s.req.encoding)

TreeOf(rootItems, dItems) ==
  [type |-> "dir", unsplit |-> {},
   dirs |-> [d \in {Root} \cup ({"d"} \cap {e.name : e \in ToSet(rootItems)}) |->
               IF d = Root THEN rootItems ELSE dItems]]
Deep == [type |-> "dir", unsplit |-> {},
         dirs |-> [d \in {Root, "d", "b"} |->
                    CASE d = Root -> <<F("a", 1), D("d")>> [] d = "d" -> <<D("b")>> [] OTHER -> <<>>]]
Up(r, t) == [req |-> r, tree |-> t, mounts |-> Table]
FileTree(n) == [type |-> "file", unsplit |-> {}, dirs |-> [d \in {Root} |-> <<F("a", n)>>]]

MCUploads ==
  {Up(Put, TreeOf(<<F("a", 3), D("d")>>, <<F("b", 2)>>)), Up(Put, TreeOf(<<D("d"), F("a", 1)>>, <<>>)),
   Up([Put EXCEPT !.path = Slashed], TreeOf(<<O("b", 0), F("a", 0), D("d")>>, <<>>)),
   Up(Put, Deep),
   Up(Put, [TreeOf(<<F("a", 1)>>, <<>>) EXCEPT !.unsplit = {"a"}]),
   Up(Put, TreeOf(<<F("a", 1), [F("b", 1) EXCEPT !.path = TooLong]>>, <<>>)),
   Up([Put EXCEPT !.headers = "length"], TreeOf(<<>>, <<>>)),
   Up([Put EXCEPT !.progress = TRUE], TreeOf(<<F("a", 1)>>, <<>>)),
   Up([Put EXCEPT !.encoding = "lz4"], TreeOf(<<>>, <<>>)),
   Up(Put, FileTree(1)), Up(PutOne, TreeOf(<<>>, <<>>)), Up(Put, NoTree)}
  \cup {Up([PutOne EXCEPT !.progress = p], FileTree(n)) : p \in BOOLEAN, n \in {0, 1, 2, 3}}

\* So does what they assume of a source.
ASSUME SourcesAssumption == \A s \in MCUploads : InOneTree(s.tree)

\* An entry of another kind with data behind a file, as the extended headers of PAX are.
MCForeign == {Down(Get, TarOf(<<F("a", 1), O("d", 2)>>), Table, "absent")}
MCNone    == {}

\* The proofs leave it out: it breaks SkipsForeign.
ASSUME ForeignAssumption == \A s \in MCForeign : ~Offer(s.content, s.req.encoding)
=============================================================================
