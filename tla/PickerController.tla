-------------------------- MODULE PickerController --------------------------
(***************************************************************************)
(* A picker process: PickerController and PortalPickerContext of           *)
(* src/src/picker/, as src/qml/Picker.qml uses them and main.cpp's         *)
(* runPicker sets them up and prints what they accept.                     *)
(*                                                                         *)
(* A picker is a record, and each operation an operator from one to the    *)
(* next: its request, the session's path and selection, the name typed,    *)
(* the path whose overwriting is to be confirmed (m_saveState), the filter *)
(* and the choices selected.                                               *)
(***************************************************************************)
EXTENDS PortalPickerRequest

(* PickerContract::parse and PortalPickerContext::configure accept what     *)
(* PortalPickerRequest made, if the directory is still there.               *)
Configurable(fs, request) == request.initialDirectory \in fs.folders

configure(request) ==
    [mode |-> request.mode, multiple |-> request.multiple,
     path |-> request.initialDirectory, selected |-> <<>>,
     name |-> IF request.mode = "save" /\ request.suggestedName # Unset
              THEN request.suggestedName ELSE Bad,
     pendingOverwritePath |-> Unset,
     filter |-> IF request.filters # <<>> /\ request.initialFilterIndex = 0
                THEN 1 ELSE request.initialFilterIndex,
     filterLocked |-> request.filterLocked,
     filters |-> request.filters,
     choices |-> [id \in {c.id : c \in ToSet(request.choices)} |->
                    Initial(CHOOSE c \in ToSet(request.choices) : c.id = id)]]

-----------------------------------------------------------------------------
(* The session moves, by the user or to recover from an unmount: onPathChanged. *)
Navigated(picker, folder) ==
    [picker EXCEPT !.path = folder, !.selected = <<>>, !.pendingOverwritePath = Unset]

Selected(picker, paths) == [picker EXCEPT !.selected = paths]

(* onTextEdited, and setSaveName.                                           *)
Named(picker, name) == [picker EXCEPT !.name = name, !.pendingOverwritePath = Unset]

clearOverwriteConfirmation(picker) == [picker EXCEPT !.pendingOverwritePath = Unset]

(* setSelectedFilterIndex; the options panel drops the selection.           *)
FilterSelectable(picker, i) ==
    ~picker.filterLocked /\ i \in DOMAIN picker.filters \ {picker.filter}
FilterSelected(picker, i) == [picker EXCEPT !.filter = i, !.selected = <<>>]

(* setChoiceSelection, with nextChoiceSelection.                            *)
NextValue(choice, value) ==
    LET values == IF choice.options = <<>> THEN <<"false", "true">> ELSE choice.options
        i == CHOOSE k \in DOMAIN values : values[k] = value
    IN values[(i % Len(values)) + 1]
ChoiceSelected(picker, choice) ==
    [picker EXCEPT !.choices[choice.id] = NextValue(choice, @)]

-----------------------------------------------------------------------------
(* saveTarget.                                                              *)
SaveTarget(picker) == <<picker.path, picker.name>>

SaveTargetIsValid(fs, picker) ==
    /\ picker.path \in fs.folders
    /\ validLeafName(picker.name)
    /\ ~IsFolder(fs, SaveTarget(picker))

(* Mutant of OverwriteRequired: QFileInfo::exists follows a link.           *)
OverwriteRequiredFollowing(fs, picker) == IsFile(fs, SaveTarget(picker))

OverwriteRequired(fs, picker) == Occupied(fs, SaveTarget(picker))

(* PickerSaveState::request: accepted, to be confirmed, or refused.         *)
SaveAccepted(fs, picker) ==
    SaveTargetIsValid(fs, picker) /\ ~OverwriteRequired(fs, picker)
SaveRequested(fs, picker) ==
    [picker EXCEPT !.pendingOverwritePath =
        IF SaveTargetIsValid(fs, picker) THEN SaveTarget(picker) ELSE Unset]

(* PickerSaveState::confirm.                                                *)
OverwriteConfirmed(fs, picker) ==
    /\ SaveTargetIsValid(fs, picker)
    /\ picker.pendingOverwritePath = SaveTarget(picker)

(* validationError: what may be accepted without a name.                    *)
canAccept(fs, picker) ==
    CASE picker.mode = "open" ->
           /\ UsableCount(picker, Len(picker.selected))
           /\ \A p \in ToSet(picker.selected) : IsFile(fs, p)
      [] picker.mode = "folder" /\ picker.multiple ->
           /\ picker.selected # <<>>
           /\ \A p \in ToSet(picker.selected) : IsFolder(fs, p)
      [] picker.mode = "folder" /\ ~picker.multiple -> picker.path \in fs.folders
      [] OTHER -> FALSE

(* acceptedPaths.                                                           *)
acceptedPaths(picker) ==
    IF picker.mode = "folder" /\ ~picker.multiple THEN <<picker.path>> ELSE picker.selected

(* runPicker writes resultObject and exits with 0.                          *)
resultObject(picker, uris) ==
    [structured |-> TRUE, uris |-> uris, filter |-> picker.filter, choices |-> picker.choices]
NoOutput == [structured |-> FALSE, uris |-> <<>>]
=============================================================================
