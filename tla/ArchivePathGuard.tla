--------------------------- MODULE ArchivePathGuard ---------------------------
(***************************************************************************)
(* The paths of an archive that ArchivePathGuard accepts.  A path is its   *)
(* components and whether it is rooted; a name is a model value or string  *)
(* without separators (a backslash in a name, which the code also splits   *)
(* at, is not modelled, nor are over-long paths and NUL characters).       *)
(***************************************************************************)
EXTENDS Integers, Sequences, SequencesExt, Ranks

Rejected == [safe |-> FALSE, path |-> <<>>]
accepted(path) == [safe |-> TRUE, path |-> path]

hasTraversalComponent(raw) == ".." \in Range(raw.parts)
WithoutDots(parts) == Without(parts, {"."})

\* validateEntryPath and validateHardlinkTarget: relative, without "..", not the root.
validateArchiveRootRelativePath(raw) ==
  IF raw.rooted \/ hasTraversalComponent(raw) \/ WithoutDots(raw.parts) = <<>>
  THEN Rejected ELSE accepted(WithoutDots(raw.parts))

\* Mutant of After: going up from the root stays there.
AfterClamped(depth, c) ==
  CASE c = "." -> depth
    [] c = ".." -> IF depth = 0 THEN 0 ELSE depth - 1
    [] OTHER -> depth + 1

\* How deep below the root one component of a link's target leads; what leads out
\* of the root is below zero.
After(depth, c) ==
  CASE c = "." -> depth
    [] c = ".." -> depth - 1
    [] OTHER -> depth + 1

\* The walk of validateSymlinkTarget over the target, which the root must contain
\* after every component.
Walk(from, parts) ==
  LET depth[n \in 0 .. Len(parts)] == IF n = 0 THEN from ELSE After(depth[n - 1], parts[n])
  IN  depth
StaysInside(from, parts) == \A n \in 0 .. Len(parts) : Walk(from, parts)[n] >= 0

validateSymlinkTarget(entry, raw) ==
  IF raw.rooted \/ raw.parts = <<>> \/ ~StaysInside(Len(entry) - 1, raw.parts)
  THEN Rejected
  ELSE accepted(IF WithoutDots(raw.parts) = <<>> THEN <<".">> ELSE WithoutDots(raw.parts))
=============================================================================
