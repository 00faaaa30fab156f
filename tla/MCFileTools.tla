----------------------------- MODULE MCFileTools -----------------------------
(***************************************************************************)
(* Bounds for the tools that change files apart from the copy and move     *)
(* jobs: the trash, the extraction and the creation of archives.  They     *)
(* share nothing, so a behaviour runs one of them.                         *)
(***************************************************************************)
EXTENDS TrashManager, ArchiveExtractor, ArchiveCreator, TLC

Named(of, path, to) == [kind |-> of, path |-> [rooted |-> FALSE, parts |-> path],
                        to |-> [rooted |-> FALSE, parts |-> to]]
ArchiveEntries ==
  {Named("dir", <<"a">>, <<>>), Named("file", <<"a", "b">>, <<>>), Named("file", <<"b">>, <<>>),
   Named("file", <<"b", "..">>, <<>>), Named("link", <<"a", ".", "a">>, <<"..", "b">>),
   Named("link", <<"a">>, <<"b", "..", "..", "b">>), Named("link", <<"b">>, <<".">>),
   Named("hard", <<"a", "a">>, <<"b">>), Named("hard", <<"b">>, <<"a", "b">>)}
MCArchives == UNION {[1..n -> ArchiveEntries] : n \in 0..3}
MCSelections == {<< <<"a">> >>, << <<"a">>, <<"b">> >>, << <<"a", "b">>, <<"b">> >>}
MCDestinations == {<<>>, <<"a">>}

VARIABLE which \* the tool this behaviour is about

TrashIdle ==
  /\ at = [d \in Data |-> Unborn]
  /\ info = [n \in Names |-> None] /\ origin = [d \in Data |-> None]
  /\ StartUp
ExtractIdle == archive = <<>> /\ ExtractInit
CreateIdle ==
  /\ kind = [p \in Items |-> "none"] /\ final = "none"
  /\ request = [sources |-> << <<"a">> >>, where |-> <<>>]
  /\ CreateInit

ToolsInit ==
  \/ which = "trash" /\ Init /\ at[1] \in Paths /\ at[3] = Unborn /\ ExtractIdle /\ CreateIdle
  \/ which = "extract" /\ TrashIdle /\ ExtractInit /\ CreateIdle
  \/ which = "create" /\ TrashIdle /\ ExtractIdle /\ CreateInit
ToolsNext ==
  \/ which = "trash" /\ Next /\ UNCHANGED <<which, extractVars, createVars>>
  \/ which = "extract" /\ ExtractNext /\ UNCHANGED <<which, vars, createVars>>
  \/ which = "create" /\ CreateNext /\ UNCHANGED <<which, vars, extractVars>>
ToolsSpec == ToolsInit /\ [][ToolsNext]_<<which, vars, extractVars, createVars>>

ToolsSymmetry ==
  Permutations(Paths) \cup Permutations(Names) \cup Permutations(Workers)
=============================================================================
