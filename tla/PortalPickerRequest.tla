------------------------- MODULE PortalPickerRequest -------------------------
(***************************************************************************)
(* What the FileChooser portal makes of a call's options, and of what its  *)
(* picker process answers (src/src/portal/PortalPickerRequest.cpp).        *)
(*                                                                         *)
(* A file system is a record: its folders, and for every path, a folder    *)
(* and a name, what is there.  A name is a sequence of numbers: <<>> is    *)
(* "a.txt", <<1>> "a (1).txt", <<1, 1>> "a (1) (1).txt".  Paths, filters   *)
(* and choices are past their decoding; Bad is what decoding refuses.      *)
(* Filters count from 1, and 0 is none.  MaxTries stands for the 100000    *)
(* names tried, MaxFilters and MaxOptions for the bounds of 64.            *)
(***************************************************************************)
EXTENDS Integers, Sequences, SequencesExt, FiniteSets

CONSTANTS Home, Unset, Bad, MaxTries, MaxFilters, MaxOptions

ASSUME TriesAssumption == MaxTries \in Nat

Kinds == {"none", "file", "folder", "link"}    \* "link" leads nowhere

(* QFileInfo: exists and isSymLink; exists and isFile; isDir.               *)
Occupied(fs, p) == fs.at[p] # "none"
IsFile(fs, p) == fs.at[p] = "file"
IsFolder(fs, p) == p \in fs.folders \/ (p \in DOMAIN fs.at /\ fs.at[p] = "folder")

validLeafName(n) == n # Bad

-----------------------------------------------------------------------------
(* The options.                                                             *)

(* existingDirectoryFromOption.                                             *)
DirectoryIsUsable(fs, option) == option = Unset \/ option \in fs.folders
DirectoryOf(option) == IF option = Unset THEN Home ELSE option

filtersDecode(options) ==
    /\ Len(options.filters) <= MaxFilters
    /\ Bad \notin ToSet(options.filters)
    /\ options.current # Bad

(* Mutant of parseFilterOptions: a filter given alone is not the selected   *)
(* one.                                                                     *)
FilterAloneUnselected(options) ==
    LET alone == options.filters = <<>> /\ options.current # Unset
        same == {i \in DOMAIN options.filters : options.filters[i] = options.current}
    IN [filters |-> IF alone THEN <<options.current>> ELSE options.filters,
        initialFilterIndex |-> IF options.filters = <<>> THEN 0
                               ELSE IF same = {} THEN 1 ELSE Min(same),
        filterLocked |-> alone]

(* parseFilterOptions: a current filter without a list is the only one, and *)
(* stays; otherwise it is looked up, and the first one stands in for it.    *)
parseFilterOptions(options) ==
    LET alone == options.filters = <<>> /\ options.current # Unset
        same == {i \in DOMAIN options.filters : options.filters[i] = options.current}
    IN [filters |-> IF alone THEN <<options.current>> ELSE options.filters,
        initialFilterIndex |-> IF options.filters = <<>> /\ ~alone THEN 0
                               ELSE IF same = {} THEN 1 ELSE Min(same),
        filterLocked |-> alone]

NoFilters == [filters |-> <<>>, initialFilterIndex |-> 0, filterLocked |-> FALSE]

(* validateChoice: without options a choice is a boolean; without an        *)
(* initial value it starts with "false", or with its first option.          *)
Values(choice) == IF choice.options = <<>> THEN {"false", "true"} ELSE ToSet(choice.options)
Initial(choice) ==
    IF choice.initial # Unset THEN choice.initial
    ELSE IF choice.options = <<>> THEN "false" ELSE choice.options[1]

validateChoice(choice) ==
    /\ choice.id # Bad
    /\ Len(choice.options) <= MaxOptions
    /\ IsInjective(choice.options)
    /\ Bad \notin ToSet(choice.options)
    /\ Initial(choice) \in Values(choice)

(* decodeChoices.                                                           *)
choicesDecode(choices) ==
    /\ \A c \in ToSet(choices) : validateChoice(c)
    /\ \A i, j \in DOMAIN choices : choices[i].id = choices[j].id => i = j

(* decodeFileNames, and that there is one.                                  *)
namesDecode(names) ==
    names # <<>> /\ IsInjective(names) /\ \A n \in ToSet(names) : validLeafName(n)

(* openFile, saveFile and saveFiles.                                        *)
Valid(fs, options) ==
    /\ DirectoryIsUsable(fs, options.folder)
    /\ choicesDecode(options.choices)
    /\ CASE options.kind = "OpenFile" -> options.directory \/ filtersDecode(options)
         [] options.kind = "SaveFile" -> filtersDecode(options) /\ validLeafName(options.name)
         [] options.kind = "SaveFiles" -> namesDecode(options.files)

Request(options) ==
    LET folders == options.kind = "SaveFiles" \/ (options.kind = "OpenFile" /\ options.directory)
        filters == IF folders THEN NoFilters ELSE parseFilterOptions(options)
    IN [kind |-> options.kind,
        mode |-> CASE options.kind = "SaveFile" -> "save"
                   [] folders -> "folder"
                   [] OTHER -> "open",
        multiple |-> options.kind = "OpenFile" /\ options.multiple,
        initialDirectory |-> DirectoryOf(options.folder),
        suggestedName |-> options.name,
        filters |-> filters.filters,
        initialFilterIndex |-> filters.initialFilterIndex,
        filterLocked |-> filters.filterLocked,
        choices |-> options.choices,
        saveFileNames |-> options.files]

-----------------------------------------------------------------------------
(* The answer: what the picker wrote.  One that ends without a word, as     *)
(* when its window is closed, is not structured.                            *)

(* validateStructuredSelections.                                            *)
FilterOf(request, out) ==
    IF request.filters = <<>> THEN 0
    ELSE IF out.structured THEN out.filter ELSE request.initialFilterIndex

ChoicesOf(request, out) ==
    IF out.structured THEN out.choices
    ELSE [id \in {c.id : c \in ToSet(request.choices)} |->
            Initial(CHOOSE c \in ToSet(request.choices) : c.id = id)]

validateStructuredSelections(request, out) ==
    /\ FilterOf(request, out) \in (IF request.filters = <<>> THEN {0} ELSE DOMAIN request.filters)
    /\ request.filterLocked => FilterOf(request, out) = request.initialFilterIndex
    /\ DOMAIN ChoicesOf(request, out) = {c.id : c \in ToSet(request.choices)}
    /\ \A c \in ToSet(request.choices) : ChoicesOf(request, out)[c.id] \in Values(c)

(* uniqueDestinationName: the name, or the first one numbered after it that *)
(* is free; Bad if there is none.                                           *)
Candidates(name) == [i \in 1..MaxTries + 1 |-> IF i = 1 THEN name ELSE Append(name, i - 1)]

uniqueDestinationName(fs, folder, name, reserved) ==
    LET free == {i \in 1..MaxTries + 1 : /\ Candidates(name)[i] \notin reserved
                                         /\ ~Occupied(fs, <<folder, Candidates(name)[i]>>)}
    IN IF free = {} THEN Bad ELSE Candidates(name)[Min(free)]

(* Mutant of SaveFilesNames: the names already given are not reserved.      *)
NamesUnreserved(fs, folder, names) ==
    LET given[i \in 0..Len(names)] ==
          IF i = 0 THEN <<>>
          ELSE Append(given[i - 1], uniqueDestinationName(fs, folder, names[i], {}))
    IN given[Len(names)]

(* The names SaveFiles gives, each after those before it.                   *)
Given(fs, folder, names) ==
    LET given[i \in 0..Len(names)] ==
          IF i = 0 THEN <<>>
          ELSE Append(given[i - 1],
                      uniqueDestinationName(fs, folder, names[i], ToSet(given[i - 1])))
    IN given
SaveFilesNames(fs, folder, names) == Given(fs, folder, names)[Len(names)]

(* fromPickerStdout: what may be returned, by kind ...                      *)
UsableUri(fs, request, uri) ==
    CASE request.kind = "OpenFile" /\ request.mode = "folder" -> IsFolder(fs, uri)
      [] request.kind = "OpenFile" /\ request.mode # "folder" ->
           uri \in DOMAIN fs.at /\ IsFile(fs, uri)
      [] request.kind = "SaveFile" -> ~IsFolder(fs, uri) /\ uri[1] \in fs.folders
      [] OTHER -> uri \in fs.folders

UsableCount(request, n) == n = 1 \/ (request.multiple /\ n > 0)

NamesFor(fs, request, out) == SaveFilesNames(fs, out.uris[1], request.saveFileNames)

usable(fs, request, out) ==
    /\ validateStructuredSelections(request, out)
    /\ UsableCount(request, Len(out.uris))
    /\ \A uri \in ToSet(out.uris) : UsableUri(fs, request, uri)
    /\ request.kind = "SaveFiles" => Bad \notin ToSet(NamesFor(fs, request, out))

(* ... and what the caller is told.                                         *)
ResultUris(fs, request, out) ==
    IF request.kind = "SaveFiles"
    THEN [i \in DOMAIN request.saveFileNames |-> <<out.uris[1], NamesFor(fs, request, out)[i]>>]
    ELSE out.uris
=============================================================================
