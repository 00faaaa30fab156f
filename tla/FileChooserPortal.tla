-------------------------- MODULE FileChooserPortal --------------------------
(***************************************************************************)
(* The FileChooser portal service (src/src/portal/FileChooserPortal.cpp):  *)
(* every call gets a picker process and one reply, while its caller may    *)
(* close it and other programs change the files.                           *)
(*                                                                         *)
(* A call is a PendingPortalRequest with its process.  Its phase is that   *)
(* of the process: "starting", "open", "ended" until QProcess says so, and *)
(* "none".  MaxCalls bounds the calls, MaxEvents the choices made in all   *)
(* pickers and the changes other programs make, at the Contested paths.    *)
(***************************************************************************)
EXTENDS PickerController

CONSTANTS
    Handles,    \* the object paths callers choose
    Offers,     \* the options they call with
    Layouts,    \* the file systems to start from
    Names,      \* the names that are typed
    Contested,  \* the paths other programs change
    MaxCalls, MaxEvents

ASSUME PortalAssumption ==
    {MaxCalls, MaxEvents} \subseteq Nat /\ Home \notin {Unset, Bad}

(* What a call may ask for, decoded; the layouts hold finitely many paths.  *)
IsList(s) == s \in Seq(ToSet(s))
ASSUME OffersAssumption ==
    \A o \in Offers : /\ o.kind \in {"OpenFile", "SaveFile", "SaveFiles"}
                      /\ IsList(o.files) /\ IsList(o.filters)
                      /\ \A c \in ToSet(o.choices) : IsList(c.options)
ASSUME LayoutsAssumption ==
    \A layout \in Layouts : DOMAIN layout = {"folders", "at"} /\ IsFiniteSet(DOMAIN layout.at)

VARIABLES
    calls,
    pending,        \* m_pending: the call of a handle, or 0
    registered,     \* the request objects on the bus, likewise
    reply,          \* the last one sent
    fs,
    events

vars == <<calls, pending, registered, reply, fs, events>>

Ids == DOMAIN calls
Handle(i) == calls[i].handle

NoReply == [call |-> 0]
Nobody == [h \in Handles |-> 0]
NotChosen == [chosen |-> FALSE]

Init ==
    /\ calls = <<>> /\ reply = NoReply
    /\ pending = Nobody /\ registered = Nobody
    /\ fs \in Layouts
    /\ events = 0

-----------------------------------------------------------------------------
Taken(p) == p \in DOMAIN fs.at /\ Occupied(fs, p)

Reply(i, response) ==
    [call |-> i, response |-> response, uris |-> <<>>, filter |-> Unset, choices |-> <<>>]
Other(i) == Reply(i, "other")

NewCall(h, options) ==
    [handle |-> h, options |-> options, request |-> Request(options), phase |-> "starting",
     finished |-> FALSE, answers |-> 0,
     closed |-> FALSE,      \* m_closed, and that closeRequested is queued
     picker |-> NotChosen, output |-> NoOutput, exit |-> "none",
     accepted |-> NotChosen, disturbed |-> FALSE]

(* What is left of a call that was answered.                                *)
Answered(call) == [phase |-> "none", finished |-> TRUE, answers |-> call.answers + 1]
AnsweredAtOnce == [phase |-> "none", finished |-> TRUE, answers |-> 1]

(* complete: once, the request object leaves the bus, the reply is sent,    *)
(* and the portal forgets the call.  What is left of the process is killed. *)
complete(i, answer) ==
    IF calls[i].finished
    THEN UNCHANGED <<calls, pending, registered, reply>>
    ELSE /\ calls' = [calls EXCEPT ![i] = Answered(@)]
         /\ registered' = [registered EXCEPT ![Handle(i)] = 0]
         /\ reply' = answer
         /\ pending' = [h \in Handles |-> IF pending[h] = i THEN 0 ELSE pending[h]]

(* Answered at once: invalid options, a handle in use; or start() finds the *)
(* context too large, the handle not to be registered or no program.        *)
RefusedCall ==
    /\ calls' = Append(calls, AnsweredAtOnce)
    /\ reply' = Other(Len(calls) + 1)
    /\ UNCHANGED <<pending, registered>>

StartedCall(h, options) ==
    /\ calls' = Append(calls, NewCall(h, options))
    /\ pending' = [pending EXCEPT ![h] = Len(calls) + 1]
    /\ registered' = [registered EXCEPT ![h] = Len(calls) + 1]
    /\ UNCHANGED reply

(* Mutant of startRequest: a handle in use is not looked for, and only      *)
(* start() finds that it is registered.                                     *)
startRequestAnyHandle(h, options) ==
    /\ Len(calls) < MaxCalls
    /\ IF ~Valid(fs, options) THEN RefusedCall
       ELSE IF registered[h] = 0 THEN StartedCall(h, options)
       ELSE /\ calls' = Append(calls, AnsweredAtOnce)
            /\ reply' = Other(Len(calls) + 1)
            /\ pending' = [pending EXCEPT ![h] = 0]
            /\ UNCHANGED registered
    /\ UNCHANGED <<fs, events>>

(* startRequest: OpenFile, SaveFile and SaveFiles.                          *)
startRequest(h, options) ==
    /\ Len(calls) < MaxCalls
    /\ \/ RefusedCall
       \/ /\ Valid(fs, options) /\ pending[h] = 0
          /\ StartedCall(h, options)
    /\ UNCHANGED <<fs, events>>


(* QProcess::errorOccurred with FailedToStart.                              *)
FailedToStart(i) ==
    /\ calls[i].phase = "starting"
    /\ complete(i, Other(i))
    /\ UNCHANGED <<fs, events>>

(* QProcess::started: the context is written, and the picker configures     *)
(* itself, or ends with 2; or it cannot be written.                         *)
Started(i) ==
    /\ calls[i].phase = "starting"
    /\ IF Configurable(fs, calls[i].request)
       THEN calls' = [calls EXCEPT ![i].phase = "open", ![i].picker = configure(calls[i].request)]
       ELSE calls' = [calls EXCEPT ![i].phase = "ended", ![i].exit = "failure"]
    /\ UNCHANGED <<pending, registered, reply, fs, events>>

WriteFailed(i) ==
    /\ calls[i].phase = "starting"
    /\ complete(i, Other(i))
    /\ UNCHANGED <<fs, events>>

(* What QProcess::finished makes of an exit.                                *)
Result(i) ==
    LET c == calls[i]
    IN [call |-> i, response |-> "success",
        uris |-> ResultUris(fs, c.request, c.output),
        filter |-> IF FilterOf(c.request, c.output) = 0 THEN Unset
                   ELSE c.request.filters[FilterOf(c.request, c.output)],
        choices |-> ChoicesOf(c.request, c.output)]

Response(i) ==
    CASE calls[i].exit = "cancelled" -> Reply(i, "cancelled")
      [] calls[i].exit = "success" /\ usable(fs, calls[i].request, calls[i].output) -> Result(i)
      [] OTHER -> Other(i)

Finished(i) ==
    /\ calls[i].phase = "ended"
    /\ complete(i, Response(i))
    /\ UNCHANGED <<fs, events>>

(* Close of the object on the bus, which queues cancelFromPortal.           *)
Close(h) ==
    /\ registered[h] # 0
    /\ ~calls[registered[h]].closed
    /\ calls' = [calls EXCEPT ![registered[h]].closed = TRUE]
    /\ UNCHANGED <<pending, registered, reply, fs, events>>

cancelFromPortal(i) ==
    /\ ~calls[i].finished /\ calls[i].closed
    /\ complete(i, Other(i))
    /\ UNCHANGED <<fs, events>>

-----------------------------------------------------------------------------
(* The picker processes.                                                    *)
Picker(i) == calls[i].picker

Use(i, picker) ==
    /\ calls[i].phase = "open"
    /\ calls' = [calls EXCEPT ![i].picker = picker]
    /\ UNCHANGED <<pending, registered, reply, fs>>

(* The picker accepts the paths and exits; confirmed is what the user was   *)
(* asked about and agreed to replace.                                       *)
Accept(i, uris, confirmed) ==
    /\ calls[i].phase = "open"
    /\ calls' = [calls EXCEPT ![i].phase = "ended", ![i].exit = "success",
                   ![i].output = resultObject(Picker(i), uris),
                   ![i].accepted = [chosen |-> TRUE, uris |-> uris, confirmed |-> confirmed,
                                    occupied |-> {p \in ToSet(uris) : Taken(p)}]]
    /\ UNCHANGED <<pending, registered, reply, fs, events>>

(* Picker.accept; Picker.requestSave; Picker.confirmOverwrite.              *)
AcceptSelection(i) ==
    /\ calls[i].phase = "open" /\ canAccept(fs, Picker(i))
    /\ Accept(i, acceptedPaths(Picker(i)), Unset)

RequestSave(i) ==
    /\ calls[i].phase = "open" /\ Picker(i).mode = "save"
    /\ IF SaveAccepted(fs, Picker(i))
       THEN Accept(i, <<SaveTarget(Picker(i))>>, Unset)
       ELSE Use(i, SaveRequested(fs, Picker(i))) /\ UNCHANGED events

ConfirmOverwrite(i) ==
    /\ calls[i].phase = "open" /\ Picker(i).mode = "save"
    /\ Picker(i).pendingOverwritePath # Unset
    /\ IF OverwriteConfirmed(fs, Picker(i))
       THEN Accept(i, <<SaveTarget(Picker(i))>>, Picker(i).pendingOverwritePath)
       ELSE Use(i, clearOverwriteConfirmation(Picker(i))) /\ UNCHANGED events

(* Picker.cancel exits with 1; a window that is closed with 0 and not a     *)
(* word, and a process may die.                                             *)
End(i, exit) ==
    /\ calls[i].phase = "open"
    /\ calls' = [calls EXCEPT ![i].phase = "ended", ![i].exit = exit]
    /\ UNCHANGED <<pending, registered, reply, fs, events>>

(* What the file list offers to a click.                                    *)
Listed(i) == {p \in DOMAIN fs.at : p[1] = Picker(i).path /\ Occupied(fs, p)}

Choose(i) ==
    /\ calls[i].phase = "open" /\ events < MaxEvents
    /\ events' = events + 1
    /\ \/ \E folder \in fs.folders \ {Picker(i).path} : Use(i, Navigated(Picker(i), folder))
       \/ /\ Picker(i).mode # "save"
          /\ \E set \in SUBSET Listed(i) \ {{}, ToSet(Picker(i).selected)} :
                /\ Picker(i).multiple \/ Cardinality(set) = 1
                /\ Use(i, Selected(Picker(i), SetToSeq(set)))
       \/ /\ Picker(i).mode = "save"
          /\ \E name \in (Names \cup {Bad}) \ {Picker(i).name} : Use(i, Named(Picker(i), name))
       \/ /\ Picker(i).pendingOverwritePath # Unset
          /\ Use(i, clearOverwriteConfirmation(Picker(i)))
       \/ \E k \in DOMAIN Picker(i).filters :
             FilterSelectable(Picker(i), k) /\ Use(i, FilterSelected(Picker(i), k))
       \/ \E c \in ToSet(calls[i].request.choices) : Use(i, ChoiceSelected(Picker(i), c))

-----------------------------------------------------------------------------
(* Another program makes or removes what is at a path, or removes a folder. *)
Elsewhere ==
    /\ events < MaxEvents
    /\ events' = events + 1
    /\ \/ \E p \in Contested : \E kind \in Kinds \ {fs.at[p]} :
             p[1] \in fs.folders /\ fs' = [fs EXCEPT !.at[p] = kind]
       \/ \E d \in fs.folders \ {Home} :
             fs' = [folders |-> fs.folders \ {d},
                    at |-> [p \in DOMAIN fs.at |-> IF p[1] = d THEN "none" ELSE fs.at[p]]]
    /\ calls' = [i \in Ids |-> IF calls[i].finished \/ ~calls[i].accepted.chosen THEN calls[i]
                               ELSE [calls[i] EXCEPT !.disturbed = TRUE]]
    /\ UNCHANGED <<pending, registered, reply>>

Next ==
    \/ \E h \in Handles, options \in Offers : startRequest(h, options)
    \/ \E h \in Handles : Close(h)
    \/ \E i \in Ids : \/ FailedToStart(i) \/ Started(i) \/ WriteFailed(i) \/ Finished(i)
                      \/ cancelFromPortal(i)
                      \/ AcceptSelection(i) \/ RequestSave(i) \/ ConfirmOverwrite(i) \/ Choose(i)
                      \/ \E exit \in {"cancelled", "success", "failure"} : End(i, exit)
    \/ Elsewhere

Spec == Init /\ [][Next]_vars

-----------------------------------------------------------------------------
(* Every call is answered, once: while it is not, the portal and the bus    *)
(* know it by its handle, so that Close finds it; afterwards neither does,  *)
(* so that the handle can serve again (complete, and its five callers).     *)
EveryCallIsAnsweredOnce ==
    /\ \A i \in Ids :
         /\ calls[i].answers = (IF calls[i].finished THEN 1 ELSE 0)
         /\ calls[i].finished <=> calls[i].phase = "none"
         /\ ~calls[i].finished => pending[Handle(i)] = i
    /\ registered = pending
    /\ \A h \in Handles : pending[h] # 0 => ~calls[pending[h]].finished /\ Handle(pending[h]) = h

(* The caller gets what the user chose: the paths accepted, or the names    *)
(* asked for in the folder accepted, with the filter and the choices that   *)
(* were on the screen; "cancelled" if the user cancelled; and unless the    *)
(* caller closes the call, another program changes the files meanwhile, or  *)
(* the numbered names run out, nothing the picker accepts is refused by the *)
(* portal that checks it again (PickerContract and PortalPickerContext      *)
(* against fromPickerStdout).                                               *)
AnswerOf(c, p) ==
    /\ reply'.response = "success" =>
         /\ c.accepted.chosen
         /\ IF c.request.kind = "SaveFiles"
            THEN /\ Len(reply'.uris) = Len(c.options.files)
                 /\ \A k \in DOMAIN reply'.uris : reply'.uris[k][1] = c.accepted.uris[1]
            ELSE reply'.uris = c.accepted.uris
         /\ reply'.filter = (IF p.filters = <<>> THEN Unset ELSE p.filters[p.filter])
         /\ reply'.choices = p.choices
    /\ reply'.response = "cancelled" => c.exit = "cancelled"
    /\ c.accepted.chosen /\ ~c.closed /\ ~c.disturbed =>
         \/ reply'.response = "success"
         \/ c.request.kind = "SaveFiles" /\ Bad \in ToSet(NamesFor(fs, c.request, c.output))

TheCallerGetsWhatWasChosen ==
    [][\A i \in Ids : reply' # reply /\ reply'.call = i => AnswerOf(calls[i], calls[i].picker)]_vars

(* Saving replaces nothing the user has not been asked about: what was at   *)
(* the path when the picker accepted it, a link that leads nowhere too, was *)
(* confirmed for that very path, though name and folder may have changed    *)
(* since the question (PickerSaveState).                                    *)
NothingIsReplacedUnasked ==
    \A i \in Ids :
        (~calls[i].finished /\ calls[i].accepted.chosen /\ calls[i].request.kind = "SaveFile") =>
            calls[i].accepted.occupied \subseteq {calls[i].accepted.confirmed}

(* SaveFiles never names what exists, nor one file twice: a name numbered   *)
(* out of a collision may be the next one asked for (uniqueDestinationName  *)
(* with the names already reserved).                                        *)
SavedNamesAreFree ==
    [][\A i \in Ids :
         (/\ reply' # reply /\ reply'.call = i /\ reply'.response = "success"
          /\ calls[i].request.kind = "SaveFiles")
            => IsInjective(reply'.uris) /\ \A p \in ToSet(reply'.uris) : ~Taken(p)]_vars
=============================================================================
