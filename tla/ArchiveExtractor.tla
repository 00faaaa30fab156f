--------------------------- MODULE ArchiveExtractor ---------------------------
(***************************************************************************)
(* ArchiveExtractor::extract: the entries of an archive are written below  *)
(* a root directory one system call after another, hard links last, and    *)
(* what was created is removed again, newest first, when anything fails or *)
(* the job is cancelled.  Other programs create files below the root at    *)
(* the same time; they do not remove what is being extracted.              *)
(*                                                                         *)
(* Names have at most one directory above them, and only the last block of *)
(* a file matters.  Limits of size show as a failure of the data.          *)
(***************************************************************************)
EXTENDS Naturals, FiniteSets, ArchivePathGuard

CONSTANTS
  Archives,   \* the archives that may be extracted: sequences of entries
  EntryNames, \* the names of files and directories
  MaxEntries, \* ArchiveExtractionLimits::maximumEntries
  MaxOthers   \* bound: files and directories made by other programs

VARIABLES
  archive,   \* the archive
  tree,      \* what is at every path below the root
  created,   \* CreatedPath records, in order
  regular,   \* extractedRegularFiles
  pending,   \* the entries of pendingHardlinks still to be made
  next,      \* the entry being extracted; headersSeen
  stage,     \* the next step
  cancel,    \* cancelRequested
  status,    \* ArchiveExtractionResult::status
  theirs     \* history: paths other programs made
extractVars == <<archive, tree, created, regular, pending, next, stage, cancel, status, theirs>>

Slots == UNION {[1..n -> EntryNames] : n \in 1..2}

Components == EntryNames \cup {".", ".."}
RawPaths == [rooted : BOOLEAN, parts : Seq(Components)]
Entries == [kind : {"dir", "file", "link", "hard", "other"}, path : RawPaths, to : RawPaths]

ASSUME ExtractAssumption ==
  /\ {".", ".."} \cap EntryNames = {}
  /\ Archives \subseteq Seq(Entries)

Nothing == [kind |-> "none", mine |-> FALSE, of |-> 0, whole |-> FALSE, to |-> <<>>]
Foreign(kind) == [Nothing EXCEPT !.kind = kind]
Own(kind, of, whole, to) == [kind |-> kind, mine |-> TRUE, of |-> of, whole |-> whole, to |-> to]
Entry == archive[next]
Where(i) == validateArchiveRootRelativePath(archive[i].path).path
Parent(p) == SubSeq(p, 1, Len(p) - 1)
IsDir(p) == p # <<>> => tree[p].kind = "dir"

ExtractInit ==
  /\ archive \in Archives
  /\ tree = [p \in Slots |-> Nothing]
  /\ created = <<>> /\ regular = {} /\ pending = {} /\ theirs = {}
  /\ next = 1 /\ stage = "header" /\ cancel = FALSE /\ status = "none"

----------------------------------------------------------------------------
Go(where) == stage' = where /\ UNCHANGED status
\* fail and cancel: what was created is rolled back first
Abort(result) == stage' = "rollback" /\ status' = result
Disk == <<tree, created>>
Book == <<regular, pending>>
Fixed == UNCHANGED <<archive, cancel, theirs>>
Still == UNCHANGED <<Disk, Book, next>>

\* The next header: cancellation, the end, an error of the reader, the limit of
\* entries, an unsafe path, a hard link to make later, or an entry to write.
ReadHeader ==
  /\ stage = "header" /\ Fixed
  /\ \/ cancel /\ Abort("Cancelled") /\ Still
     \/ ~cancel /\ next > Len(archive) /\ Go("links") /\ Still
     \/ ~cancel /\ next <= Len(archive) /\ Abort("Failed") /\ Still
     \/ /\ ~cancel /\ next <= Len(archive) /\ next <= MaxEntries
        /\ validateArchiveRootRelativePath(Entry.path).safe
        /\ Len(Where(next)) <= 2
        /\ \/ /\ Entry.kind = "hard" /\ validateArchiveRootRelativePath(Entry.to).safe
              /\ pending' = pending \cup {next} /\ next' = next + 1
              /\ Go("header") /\ UNCHANGED <<Disk, regular>>
           \/ /\ Entry.kind = "link" /\ validateSymlinkTarget(Where(next), Entry.to).safe
              /\ Go("parent") /\ Still
           \/ Entry.kind \in {"dir", "file"} /\ Go("parent") /\ Still

\* openParentDirectory: the directory is opened without following links, or made.
openParentDirectory(p, then) ==
  LET d == Parent(p) IN
  \/ Abort("Failed") /\ UNCHANGED Disk
  \/ IsDir(d) /\ Go(then) /\ UNCHANGED Disk
  \/ /\ d # <<>> /\ tree[d].kind = "none"
     /\ tree' = [tree EXCEPT ![d] = Own("dir", next, TRUE, <<>>)]
     /\ created' = Append(created, d)
     /\ Go(then)

OpenParent == stage = "parent" /\ openParentDirectory(Where(next), "leaf")
              /\ Fixed /\ UNCHANGED <<Book, next>>

Make(p, node) ==
  tree[p].kind = "none" /\ tree' = [tree EXCEPT ![p] = node] /\ created' = Append(created, p)

\* createDirectoryEntry, createSymlinkEntry and the exclusive open of a file.
CreateLeaf ==
  LET p == Where(next) IN
  /\ stage = "leaf" /\ Fixed /\ UNCHANGED Book
  /\ \/ Abort("Failed") /\ UNCHANGED <<Disk, next>>
     \/ /\ Entry.kind = "dir"
        /\ Make(p, Own("dir", next, TRUE, <<>>)) \/ (tree[p].kind = "dir" /\ UNCHANGED Disk)
        /\ Go("header") /\ next' = next + 1
     \/ /\ Entry.kind = "link"
        /\ Make(p, Own("link", next, TRUE, validateSymlinkTarget(p, Entry.to).path))
        /\ Go("header") /\ next' = next + 1
     \/ /\ Entry.kind = "file"
        /\ Make(p, Own("file", next, FALSE, <<>>))
        /\ Go("data") /\ UNCHANGED next

\* The blocks of a file: cancelled, failed (reader, limits, writing) or complete.
WriteData ==
  /\ stage = "data" /\ Fixed
  /\ \/ cancel /\ Abort("Cancelled") /\ Still
     \/ Abort("Failed") /\ Still
     \/ /\ tree' = [tree EXCEPT ![Where(next)].whole = TRUE]
        /\ regular' = regular \cup {Where(next)}
        /\ next' = next + 1
        /\ Go("header") /\ UNCHANGED <<created, pending>>

Target(i) == validateArchiveRootRelativePath(archive[i].to).path
Ready == {i \in pending : Target(i) \in regular}

\* Mutant of MakeLinks: one pass over the hard links is enough.
MakeLinksOnce ==
  /\ stage = "links" /\ Fixed
  /\ \/ cancel /\ Abort("Cancelled") /\ Still
     \/ ~cancel /\ stage' = "end" /\ status' = "Success" /\ Still
     \/ \E i \in Ready :
          /\ ~cancel
          /\ \/ Abort("Failed") /\ Still
             \/ next' = i /\ Go("linkParent") /\ UNCHANGED <<Disk, Book>>

\* The passes over the hard links whose target has been extracted: a pass that
\* makes none fails, and when none is left the extraction is complete.
MakeLinks ==
  /\ stage = "links" /\ Fixed
  /\ \/ cancel /\ Abort("Cancelled") /\ Still
     \/ ~cancel /\ pending # {} /\ Ready = {} /\ Abort("Failed") /\ Still
     \/ ~cancel /\ pending = {} /\ stage' = "end" /\ status' = "Success" /\ Still
     \/ \E i \in Ready :
          /\ ~cancel
          /\ \/ Abort("Failed") /\ Still
             \/ next' = i /\ Go("linkParent") /\ UNCHANGED <<Disk, Book>>

OpenLinkParent == stage = "linkParent" /\ openParentDirectory(Where(next), "link")
                  /\ Fixed /\ UNCHANGED <<Book, next>>

createHardlinkEntry ==
  /\ stage = "link" /\ Fixed /\ UNCHANGED next
  /\ \/ Abort("Failed") /\ UNCHANGED <<Disk, Book>>
     \/ /\ tree[Target(next)].kind = "file"
        /\ Make(Where(next), tree[Target(next)])
        /\ pending' = pending \ {next}
        /\ regular' = regular \cup {Where(next)}
        /\ Go("links")

\* Mutant of RollbackOne: oldest first.
RollbackOneForwards ==
  /\ stage = "rollback" /\ Fixed /\ UNCHANGED <<Book, next, status>>
  /\ \/ created = <<>> /\ stage' = "end" /\ UNCHANGED Disk
     \/ /\ created # <<>> /\ created' = Tail(created) /\ UNCHANGED stage
        /\ LET p == Head(created) IN
           tree' = IF tree[p].kind = "dir" /\ \E q \in Slots : Parent(q) = p /\ tree[q].kind # "none"
                   THEN tree ELSE [tree EXCEPT ![p] = Nothing]

\* rollbackCreated: files and links are removed by name, directories when empty.
RollbackOne ==
  /\ stage = "rollback" /\ Fixed /\ UNCHANGED <<Book, next, status>>
  /\ \/ created = <<>> /\ stage' = "end" /\ UNCHANGED Disk
     \/ /\ created # <<>> /\ created' = Front(created) /\ UNCHANGED stage
        /\ LET p == Last(created) IN
           tree' = IF tree[p].kind = "dir" /\ \E q \in Slots : Parent(q) = p /\ tree[q].kind # "none"
                   THEN tree ELSE [tree EXCEPT ![p] = Nothing]

RequestCancel ==
  /\ stage # "end" /\ ~cancel /\ cancel' = TRUE
  /\ UNCHANGED <<archive, Disk, Book, next, stage, status, theirs>>

\* Another program makes a file or a directory below the root.
OtherProgram ==
  /\ Cardinality(theirs) < MaxOthers /\ stage # "end"
  /\ \E p \in Slots, kind \in {"file", "dir"} :
       /\ tree[p].kind = "none" /\ IsDir(Parent(p))
       /\ tree' = [tree EXCEPT ![p] = Foreign(kind)]
       /\ theirs' = theirs \cup {p}
  /\ UNCHANGED <<archive, created, Book, next, stage, cancel, status>>

ExtractNext ==
  \/ ReadHeader \/ OpenParent \/ CreateLeaf \/ WriteData
  \/ MakeLinks \/ OpenLinkParent \/ createHardlinkEntry \/ RollbackOne
  \/ RequestCancel \/ OtherProgram

ExtractSpec == ExtractInit /\ [][ExtractNext]_extractVars

----------------------------------------------------------------------------
ExtractTypeOK ==
  /\ archive \in Archives /\ next \in 1..Len(archive) + 1
  /\ DOMAIN tree = Slots /\ created \in Seq(Slots) /\ regular \subseteq Slots
  /\ pending \subseteq 1..Len(archive) /\ theirs \subseteq Slots /\ cancel \in BOOLEAN
  /\ stage \in {"header", "parent", "leaf", "data", "links", "linkParent", "link", "rollback", "end"}
  /\ status \in {"none", "Success", "Failed", "Cancelled"}

\* An extraction that failed or was cancelled leaves nothing it created, except a
\* directory another program has put something into; and what other programs made
\* at the same time is never removed or replaced, by the rollback least of all.
RollbackIsExact ==
  /\ \A p \in theirs : tree[p].kind # "none" /\ ~tree[p].mine
  /\ stage = "end" /\ status # "Success" =>
       \A p \in Slots : tree[p].mine => \E q \in theirs : Parent(q) = p

\* A completed extraction holds every entry of the archive as the archive has it,
\* hard links with the data of their target.
CompletedExtractionIsWhole ==
  status = "Success" =>
    \A i \in 1..Len(archive) :
      LET node == tree[Where(i)] IN
      CASE archive[i].kind = "dir"  -> node.kind = "dir"
        [] archive[i].kind = "file" -> node.kind = "file" /\ node.whole /\ node.of = i
        [] archive[i].kind = "link" -> node.kind = "link" /\ node.of = i
        [] archive[i].kind = "hard" -> node.kind = "file" /\ node.mine
                                       /\ node = tree[Target(i)] /\ node.whole

\* An extraction is there entirely or, but for what others have put into it, not at
\* all: the two properties, for every end it can have.
ExtractionIsAllOrNothing == ExtractTypeOK /\ RollbackIsExact /\ CompletedExtractionIsWhole

\* No link below the root leads out of it: read from the directory the link is in,
\* at no point have more components gone up than down.
LinksStayBelowTheRoot ==
  \A p \in Slots : tree[p].kind = "link" =>
    \A n \in 0..Len(tree[p].to) :
      Cardinality({k \in 1..n : tree[p].to[k] = ".."})
        <= Len(Parent(p)) + Cardinality({k \in 1..n : tree[p].to[k] \notin {".", ".."}})
=============================================================================
