---------------------------- MODULE ArchiveCreator ----------------------------
(***************************************************************************)
(* ArchiveCreator::create: the selected sources are checked, walked and    *)
(* written into a hidden temporary file beside the archive, which is then  *)
(* published under a name nothing has.  Other programs change the sources  *)
(* and create files meanwhile, each call may fail, the job may be          *)
(* cancelled.  Items have at most one directory above them; what libarchive*)
(* writes is the set of the items that went in.                            *)
(***************************************************************************)
EXTENDS Naturals, FiniteSets, Sequences, SequencesExt

CONSTANTS
  Selections, \* the lists of sources that are requested
  Destinations, \* directories the archive is requested in; <<>> is outside all sources
  ItemNames,
  MaxChanges  \* bound: what other programs do

VARIABLES
  kind,     \* what is at every item: "none", "file", "dir", "link" or "special"
  final,    \* what has the archive's name: "none", "theirs", "ours"
  temp,     \* the temporary: "none", "open" or "closed"
  request,  \* the sources and the directory of the archive
  todo,     \* what writePath still has to write, its stack
  written,  \* the entries that went into the archive, with their kind
  step, result, stop,
  leftover, \* history: a removal failed
  changes,  \* history: the items other programs changed
  unread    \* history: the directories whose listing came back empty by an error
createVars == <<kind, final, temp, request, todo, written, step, result, stop, leftover,
                changes, unread>>

Items == UNION {[1..n -> ItemNames] : n \in 1..2}
Temporary == <<>>  \* the temporary, should it turn up in a listing

ASSUME CreateAssumption ==
  /\ IsFiniteSet(ItemNames)
  /\ Selections \subseteq Seq(Items) /\ Destinations \subseteq Items \cup {<<>>}

Above(p) == SubSeq(p, 1, Len(p) - 1)
Kind(p) == IF p = Temporary THEN "file" ELSE kind[p]
AllChildren(d) == {p \in Items : Len(p) = 2 /\ Above(p) = d}

CreateInit ==
  /\ kind \in [Items -> {"none", "file", "dir", "link", "special"}]
  /\ \A p \in Items : Len(p) = 2 => /\ kind[p] \in {"none", "file", "link"}
                                    /\ kind[p] # "none" => kind[Above(p)] = "dir"
  /\ request \in [sources : Selections, where : Destinations]
  /\ request.where # <<>> => kind[request.where] = "dir"
  /\ final \in {"none", "theirs"}
  /\ temp = "none" /\ todo = <<>> /\ written = {} /\ step = "check" /\ result = "none"
  /\ stop = FALSE /\ leftover = FALSE /\ changes = {} /\ unread = {}

----------------------------------------------------------------------------
requestVars == <<kind, request, stop, changes, unread>>
End(as) == step' = "end" /\ result' = as
GoTo(next) == step' = next /\ UNCHANGED result

\* The output would be inside a selected directory, in whichever one it is.
destinationInsideDirectorySource(p) == kind[p] = "dir" /\ request.where = p
Refused ==
  \/ final # "none"
  \/ \E i, j \in DOMAIN request.sources :
       i # j /\ Last(request.sources[i]) = Last(request.sources[j])
  \/ \E i \in DOMAIN request.sources :
       LET p == request.sources[i] IN
       kind[p] \in {"none", "special"} \/ destinationInsideDirectorySource(p)

\* Mutant of Check: only the names are checked.
CheckNames ==
  /\ step = "check" /\ UNCHANGED <<requestVars, final, written, leftover>>
  /\ \/ End("Failed") /\ UNCHANGED <<temp, todo>>
     \/ stop /\ End("Cancelled") /\ UNCHANGED <<temp, todo>>
     \/ /\ final = "none" /\ ~stop
        /\ temp' = "open" /\ todo' = request.sources /\ GoTo("write")

\* Everything before the temporary is opened.  It may also fail for the format,
\* the destination folder or libarchive.
Check ==
  /\ step = "check" /\ UNCHANGED <<requestVars, final, written, leftover>>
  /\ \/ End("Failed") /\ UNCHANGED <<temp, todo>>
     \/ ~Refused /\ stop /\ End("Cancelled") /\ UNCHANGED <<temp, todo>>
     \/ /\ ~Refused /\ ~stop
        /\ temp' = "open" /\ todo' = request.sources /\ GoTo("write")

\* writePath of the next item: a file is opened without following a link and read
\* to the size it had, a link is read, a directory listed once it is written.
\* Any other kind, an item that is gone or that shrinks ends the archive.
WritePath ==
  /\ step = "write" /\ UNCHANGED <<requestVars, final, temp, leftover>>
  /\ IF todo = <<>> THEN GoTo("publish") /\ UNCHANGED <<todo, written>>
     ELSE LET p == Head(todo) IN
          \/ stop /\ step' = "discard" /\ result' = "Cancelled" /\ UNCHANGED <<todo, written>>
          \/ step' = "discard" /\ result' = "Failed" /\ UNCHANGED <<todo, written>>
          \/ /\ Kind(p) \in {"file", "link"} /\ ~stop
             /\ written' = written \cup {p} /\ todo' = Tail(todo) /\ GoTo("write")
          \/ /\ Kind(p) = "dir" /\ ~stop
             /\ written' = written \cup {p} /\ GoTo("list") /\ UNCHANGED todo

\* The listing of a directory: entryInfoList does not tell an error, so one that
\* cannot be read has no children.
ListDirectory ==
  LET d == Head(todo)
      here == {p \in AllChildren(d) : kind[p] # "none"}
              \cup (IF request.where = d THEN {Temporary} ELSE {}) IN
  /\ step = "list" /\ GoTo("write")
  /\ \/ /\ todo' = (IF kind[d] = "dir" THEN SetToSeq(here) ELSE <<>>) \o Tail(todo)
        /\ UNCHANGED unread
     \/ todo' = Tail(todo) /\ unread' = unread \cup {d}
  /\ UNCHANGED <<kind, request, stop, changes, final, temp, written, leftover>>

\* The archive is closed; a late cancellation still counts.
Close ==
  /\ step = "publish" /\ temp = "open" /\ UNCHANGED <<requestVars, final, todo, written, leftover>>
  /\ \/ temp' = "closed" /\ GoTo("publish")
     \/ step' = "discard" /\ result' = "Failed" /\ UNCHANGED temp
     \/ stop /\ step' = "discard" /\ result' = "Cancelled" /\ temp' = "closed"

\* publishNoReplace: renameat2, or a link and the removal of the old name.
PublishArchive ==
  /\ step = "publish" /\ temp = "closed" /\ UNCHANGED <<requestVars, todo, written, leftover>>
  /\ \/ final = "none" /\ final' = "ours" /\ temp' = "none" /\ End("Success")
     \/ final = "none" /\ final' = "ours" /\ GoTo("unlink") /\ UNCHANGED temp
     \/ step' = "discard" /\ result' = "Failed" /\ UNCHANGED <<final, temp>>

\* The temporary name goes; if it does not, the archive's name is withdrawn.
Unlink ==
  /\ step = "unlink" /\ UNCHANGED <<requestVars, todo, written>>
  /\ \/ temp' = "none" /\ End("Success") /\ UNCHANGED <<final, leftover>>
     \/ /\ step' = "discard" /\ result' = "Failed" /\ UNCHANGED temp
        /\ \/ final' = "none" /\ UNCHANGED leftover
           \/ leftover' = TRUE /\ UNCHANGED final

\* QFile::remove of the temporary; its result is not looked at.
Discard ==
  /\ step = "discard" /\ step' = "end"
  /\ \/ temp' = "none" /\ UNCHANGED leftover
     \/ leftover' = TRUE /\ UNCHANGED temp
  /\ UNCHANGED <<requestVars, final, todo, written, result>>

CancelCreation ==
  /\ step # "end" /\ ~stop /\ stop' = TRUE
  /\ UNCHANGED <<kind, final, temp, request, todo, written, step, result, leftover, changes,
                 unread>>

\* Another program removes an item or turns it into another kind, or takes the
\* archive's name.
Change ==
  /\ step # "end" /\ Cardinality(changes) < MaxChanges
  /\ \/ \E p \in Items, to \in {"none", "file", "link"} :
          /\ Len(p) = 2 => kind[Above(p)] = "dir"
          /\ \A c \in AllChildren(p) : kind[c] = "none"
          /\ kind' = [kind EXCEPT ![p] = to] /\ kind' # kind
          /\ changes' = changes \cup {p}
          /\ UNCHANGED final
     \/ final = "none" /\ final' = "theirs" /\ changes' = changes \cup {Temporary} /\ UNCHANGED kind
  /\ UNCHANGED <<temp, request, todo, written, step, result, stop, leftover, unread>>

CreateNext ==
  \/ Check \/ WritePath \/ ListDirectory \/ Close \/ PublishArchive \/ Unlink \/ Discard
  \/ CancelCreation \/ Change

CreateSpec == CreateInit /\ [][CreateNext]_createVars

----------------------------------------------------------------------------
CreateTypeOK ==
  /\ final \in {"none", "theirs", "ours"} /\ temp \in {"none", "open", "closed"}
  /\ todo \in Seq(Items \cup {Temporary}) /\ written \subseteq Items \cup {Temporary}
  /\ step \in {"check", "write", "list", "publish", "unlink", "discard", "end"}
  /\ result \in {"none", "Success", "Failed", "Cancelled"} /\ {stop, leftover} \subseteq BOOLEAN

\* What is below a selected item, left alone by other programs, and not in the archive.
Missing(p) ==
  {c \in AllChildren(p) : kind[c] # "none" /\ c \notin written /\ {p, c} \cap changes = {}}

\* An archive that carries its name is complete: it holds every item selected or
\* below a selected directory that no other program changed meanwhile, and not its
\* own temporary, but for what is below a directory that could not be listed, which
\* is taken to be empty; and an archive that was not completed is not there at all,
\* nor is its temporary, unless the removal itself failed.  What another program has
\* put under the name meanwhile is still there.
PublishedArchiveIsWhole ==
  /\ Temporary \in changes => final = "theirs"
  /\ final = "ours" =>
       /\ Temporary \notin written
       /\ \A i \in DOMAIN request.sources :
            LET p == request.sources[i] IN
            p \in written /\ (Missing(p) # {} => p \in unread)
  /\ step = "end" =>
       /\ result = "Success" => final = "ours" /\ temp = "none"
       /\ result # "Success" => leftover \/ (final # "ours" /\ temp = "none")

\* Creation preserves what is in the directories it is given.  The code does not when
\* one of them cannot be listed (entryInfoList).
ArchivePreservesDirectories ==
  final = "ours" => \A i \in DOMAIN request.sources : Missing(request.sources[i]) = {}
=============================================================================
