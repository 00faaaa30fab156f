---------------------------- MODULE PortalProofs ----------------------------
(***************************************************************************)
(* Proofs about the portal's two modules, for any handles, options, file   *)
(* systems, configurations and numbers of calls and edits.                 *)
(*                                                                         *)
(* FileChooserPortal: every call is answered exactly once, saving replaces *)
(* nothing the user was not asked about, and the caller is told what the   *)
(* user chose.  A call that is not answered is Alive: it keeps its handle, *)
(* its picker keeps the mode its request asked for, so that the picker of  *)
(* a SaveFile call can end by its two save operations only, and what it    *)
(* accepted was free or confirmed.  AnswerInv adds that its request is     *)
(* Sound, as the portal decoded it, that what its picker holds fits it,    *)
(* and that what the picker accepted passes the portal's second look until *)
(* other programs disturb the files.  The names of SaveFiles are free      *)
(* because each is found knowing the ones before it.                       *)
(*                                                                         *)
(* PortalRouting: the route that enable wrote can be taken back, exactly,  *)
(* and what the commands report of it is true, wherever one of them is     *)
(* killed or fails.  RouteInv says what each step of a command may rely on *)
(* from the steps before it; that disable restores the file line by line   *)
(* rests on what replacing, inserting and removing a line do to the        *)
(* sections of a file and to its entry in force.                           *)
(***************************************************************************)
EXTENDS FileChooserPortal, PortalRouting, FiniteSetTheorems, NaturalsInduction, SequenceTheorems, TLAPS

Calls == {calls[i] : i \in Ids}

CallFields   == {"handle", "options", "request", "phase", "finished", "answers", "closed",
                 "picker", "output", "exit", "accepted", "disturbed"}
PickerFields == {"mode", "multiple", "path", "selected", "name", "pendingOverwritePath",
                 "filter", "filterLocked", "filters", "choices"}

Alive(c) ==
    /\ DOMAIN c = CallFields
    /\ c.finished = FALSE /\ c.answers = 0
    /\ c.phase \in {"starting", "open", "ended"}
    /\ c.handle \in Handles
    /\ c.request.kind = "SaveFile" => c.request.mode = "save"
    /\ c.phase = "open" => DOMAIN c.picker = PickerFields /\ c.picker.mode = c.request.mode
    /\ c.accepted.chosen /\ c.request.kind = "SaveFile" =>
         c.accepted.occupied \subseteq {c.accepted.confirmed}

PortalInv ==
    /\ calls \in Seq(Calls)
    /\ pending \in [Handles -> 0 .. Len(calls)]
    /\ \A i \in Ids : calls[i] = AnsweredAtOnce \/ Alive(calls[i])
    /\ EveryCallIsAnsweredOnce

-----------------------------------------------------------------------------
LEMMA SeqOfEntries ==
  ASSUME NEW T, calls' \in Seq(T)
  PROVE  calls' \in Seq(Calls')
<1>1. calls' \in [1 .. Len(calls') -> T] /\ Len(calls') \in Nat /\ DOMAIN calls' = 1 .. Len(calls')
  BY LenProperties
<1>2. calls' \in [1 .. Len(calls') -> Calls']
  BY <1>1 DEF Calls, Ids
<1>. QED
  BY <1>1, <1>2, SeqDef

LEMMA Shape ==
  ASSUME PortalInv
  PROVE  /\ Len(calls) \in Nat /\ Ids = 1 .. Len(calls)
         /\ \A i \in Ids : ~calls[i].finished <=> calls[i] # AnsweredAtOnce
         /\ \A i \in Ids : ~calls[i].finished => Alive(calls[i]) /\ pending[Handle(i)] = i
         /\ \A i \in Ids : calls[i].phase # "none" => ~calls[i].finished
<1>1. calls \in Seq(Calls)
  BY DEF PortalInv
<1>2. Len(calls) \in Nat /\ Ids = 1 .. Len(calls)
  BY <1>1, LenProperties DEF Ids
<1>3. AnsweredAtOnce.finished = TRUE
  BY DEF AnsweredAtOnce
<1>. QED
  BY <1>2, <1>3 DEF PortalInv, Alive, EveryCallIsAnsweredOnce

(* A step of one call that is not answered by it.                           *)
LEMMA OneCallKeeps ==
  ASSUME PortalInv, NEW i \in Ids, ~calls[i].finished, NEW e,
         calls' = [calls EXCEPT ![i] = e], Alive(e), e.handle = calls[i].handle,
         UNCHANGED <<pending, registered>>
  PROVE  PortalInv'
<1>1. /\ Len(calls) \in Nat /\ Ids = 1 .. Len(calls) /\ calls \in Seq(Calls)
      /\ pending[calls[i].handle] = i
  BY Shape DEF PortalInv, Handle
<1>2. PICK T : T = Calls \cup {e}
  OBVIOUS
<1>3. calls \in Seq(T) /\ e \in T
  BY <1>1, <1>2, SeqMonotonic
<1>4. /\ calls' \in Seq(T) /\ Len(calls') = Len(calls)
      /\ \A j \in Ids : calls'[j] = IF j = i THEN e ELSE calls[j]
  BY <1>1, <1>3, ExceptSeq
<1>5. calls' \in Seq(Calls') /\ Ids' = Ids
  BY <1>1, <1>4, SeqOfEntries, LenProperties DEF Ids
<1>6. \A j \in Ids : calls'[j] = AnsweredAtOnce \/ Alive(calls'[j])
  BY <1>4 DEF PortalInv
<1>7. e.finished = FALSE /\ e.answers = 0 /\ e.phase # "none"
  BY DEF Alive
<1>8. \A h \in Handles : pending[h] = i => calls[i].handle = h
  BY <1>1 DEF PortalInv, EveryCallIsAnsweredOnce, Handle
<1>9. EveryCallIsAnsweredOnce'
  <2>1. \A j \in Ids :
          /\ calls'[j].answers = (IF calls'[j].finished THEN 1 ELSE 0)
          /\ calls'[j].finished <=> calls'[j].phase = "none"
          /\ ~calls'[j].finished => pending'[calls'[j].handle] = j
    BY <1>1, <1>4, <1>7 DEF PortalInv, EveryCallIsAnsweredOnce, Handle
  <2>2. \A h \in Handles : pending[h] # 0 => pending[h] \in Ids
    BY <1>1 DEF PortalInv
  <2>3. \A h \in Handles : pending'[h] # 0 =>
          ~calls'[pending'[h]].finished /\ calls'[pending'[h]].handle = h
    BY <1>1, <1>4, <1>7, <1>8, <2>2 DEF PortalInv, EveryCallIsAnsweredOnce, Handle
  <2>. QED
    BY <1>5, <2>1, <2>3 DEF PortalInv, EveryCallIsAnsweredOnce, Handle
<1>. QED
  BY <1>1, <1>4, <1>5, <1>6, <1>9 DEF PortalInv

(* complete: the one way a call that was started is answered.               *)
LEMMA CompleteKeeps ==
  ASSUME PortalInv, NEW i \in Ids, ~calls[i].finished, NEW a, complete(i, a)
  PROVE  PortalInv'
<1>1. /\ Len(calls) \in Nat /\ Ids = 1 .. Len(calls) /\ calls \in Seq(Calls)
      /\ pending[calls[i].handle] = i /\ Alive(calls[i])
  BY Shape DEF PortalInv, Handle
<1>2. PICK T : T = Calls \cup {AnsweredAtOnce}
  OBVIOUS
<1>3. calls' = [calls EXCEPT ![i] = AnsweredAtOnce]
  BY <1>1 DEF complete, Answered, AnsweredAtOnce, Alive
<1>4. calls \in Seq(T) /\ AnsweredAtOnce \in T
  BY <1>1, <1>2, SeqMonotonic
<1>5. /\ calls' \in Seq(T) /\ Len(calls') = Len(calls)
      /\ \A j \in Ids : calls'[j] = IF j = i THEN AnsweredAtOnce ELSE calls[j]
  BY <1>1, <1>3, <1>4, ExceptSeq
<1>6. calls' \in Seq(Calls') /\ Ids' = Ids
  BY <1>1, <1>5, SeqOfEntries, LenProperties DEF Ids
<1>7. /\ pending' = [h \in Handles |-> IF pending[h] = i THEN 0 ELSE pending[h]]
      /\ registered' = [registered EXCEPT ![calls[i].handle] = 0]
  BY DEF complete, Handle
<1>8. \A h \in Handles : pending[h] = i <=> calls[i].handle = h
  BY <1>1 DEF PortalInv, EveryCallIsAnsweredOnce, Handle
<1>9. pending' \in [Handles -> 0 .. Len(calls)]
  BY <1>1, <1>7 DEF PortalInv
<1>10. registered' = pending'
  BY <1>1, <1>7, <1>8 DEF PortalInv, EveryCallIsAnsweredOnce, Alive
<1>11. AnsweredAtOnce.finished = TRUE /\ AnsweredAtOnce.answers = 1 /\ AnsweredAtOnce.phase = "none"
  BY DEF AnsweredAtOnce
<1>12. \A j \in Ids :
         /\ calls'[j].answers = (IF calls'[j].finished THEN 1 ELSE 0)
         /\ calls'[j].finished <=> calls'[j].phase = "none"
         /\ ~calls'[j].finished => pending'[calls'[j].handle] = j
  <2> SUFFICES ASSUME NEW j \in Ids, j # i, ~calls[j].finished
               PROVE  pending'[calls[j].handle] = j
    BY <1>5, <1>11 DEF PortalInv, EveryCallIsAnsweredOnce
  <2>1. pending[calls[j].handle] = j /\ calls[j].handle \in Handles
    BY Shape DEF Alive, Handle
  <2>. QED
    BY <1>7, <2>1
<1>13. \A h \in Handles : pending'[h] # 0 =>
         ~calls'[pending'[h]].finished /\ calls'[pending'[h]].handle = h
  <2> SUFFICES ASSUME NEW h \in Handles, pending'[h] # 0
               PROVE  ~calls'[pending'[h]].finished /\ calls'[pending'[h]].handle = h
    OBVIOUS
  <2>1. pending'[h] = pending[h] /\ pending[h] # i /\ pending[h] \in Ids
    BY <1>1, <1>7 DEF PortalInv
  <2>. QED
    BY <1>5, <2>1 DEF PortalInv, EveryCallIsAnsweredOnce, Handle
<1>. QED
  BY <1>5, <1>6, <1>9, <1>10, <1>12, <1>13 DEF PortalInv, EveryCallIsAnsweredOnce, Handle

(* A new call, which is the last one.                                       *)
LEMMA NewCallKeeps ==
  ASSUME PortalInv, NEW h \in Handles, NEW options, startRequest(h, options)
  PROVE  PortalInv'
<1> DEFINE n == Len(calls) + 1
<1>1. Len(calls) \in Nat /\ Ids = 1 .. Len(calls) /\ calls \in Seq(Calls)
  BY Shape DEF PortalInv
<1>2. ASSUME NEW e, calls' = Append(calls, e)
      PROVE  /\ calls' \in Seq(Calls') /\ Len(calls') = n /\ Ids' = Ids \cup {n}
             /\ calls'[n] = e /\ \A j \in Ids : calls'[j] = calls[j]
  <2>1. PICK T : T = Calls \cup {e}
    OBVIOUS
  <2>2. calls \in Seq(T) /\ e \in T
    BY <1>1, <2>1, SeqMonotonic
  <2>3. calls' \in Seq(T) /\ Len(calls') = n
    BY <1>2, <2>2
  <2>4. calls'[n] = e /\ \A j \in Ids : calls'[j] = calls[j]
    BY <1>1, <1>2, <2>2
  <2>5. Ids' = 1 .. n
    BY <2>3, LenProperties DEF Ids
  <2>6. Ids' = Ids \cup {n}
    BY <1>1, <2>5
  <2>. QED
    BY <2>3, <2>4, <2>6, SeqOfEntries
<1>3. \A j \in Ids :
        /\ calls[j].answers = (IF calls[j].finished THEN 1 ELSE 0)
        /\ calls[j].finished <=> calls[j].phase = "none"
        /\ ~calls[j].finished => pending[calls[j].handle] = j /\ calls[j].handle \in Handles
  BY Shape DEF PortalInv, EveryCallIsAnsweredOnce, Handle, Alive
<1>4. \A g \in Handles : pending[g] # 0 =>
        pending[g] \in Ids /\ ~calls[pending[g]].finished /\ calls[pending[g]].handle = g
  BY <1>1 DEF PortalInv, EveryCallIsAnsweredOnce, Handle
<1>5. CASE RefusedCall
  <2>1. /\ calls' = Append(calls, AnsweredAtOnce) /\ UNCHANGED <<pending, registered>>
    BY <1>5 DEF RefusedCall
  <2>2. AnsweredAtOnce.finished = TRUE /\ AnsweredAtOnce.answers = 1 /\ AnsweredAtOnce.phase = "none"
    BY DEF AnsweredAtOnce
  <2>3. /\ calls' \in Seq(Calls') /\ Len(calls') = n /\ Ids' = Ids \cup {n}
        /\ calls'[n] = AnsweredAtOnce /\ \A j \in Ids : calls'[j] = calls[j]
    BY <1>2, <2>1
  <2>4. pending' \in [Handles -> 0 .. Len(calls')]
    BY <1>1, <2>1, <2>3 DEF PortalInv
  <2>5. \A j \in Ids' : calls'[j] = AnsweredAtOnce \/ Alive(calls'[j])
    BY <2>3 DEF PortalInv
  <2>6. \A j \in Ids' :
          /\ calls'[j].answers = (IF calls'[j].finished THEN 1 ELSE 0)
          /\ calls'[j].finished <=> calls'[j].phase = "none"
          /\ ~calls'[j].finished => pending'[calls'[j].handle] = j
    <3>1. ASSUME NEW j \in Ids
          PROVE  /\ calls'[j].answers = (IF calls'[j].finished THEN 1 ELSE 0)
                 /\ calls'[j].finished <=> calls'[j].phase = "none"
                 /\ ~calls'[j].finished => pending'[calls'[j].handle] = j
      BY ZenonT(20), <1>3, <2>1, <2>3
    <3>2. /\ calls'[n].answers = (IF calls'[n].finished THEN 1 ELSE 0)
          /\ calls'[n].finished <=> calls'[n].phase = "none"
          /\ ~calls'[n].finished => pending'[calls'[n].handle] = n
      BY <2>2, <2>3
    <3>. QED
      BY <2>3, <3>1, <3>2
  <2>7. \A g \in Handles : pending'[g] # 0 =>
          ~calls'[pending'[g]].finished /\ calls'[pending'[g]].handle = g
    BY <1>4, <2>1, <2>3
  <2>. QED
    BY <2>1, <2>3, <2>4, <2>5, <2>6, <2>7 DEF PortalInv, EveryCallIsAnsweredOnce, Handle
<1>6. CASE pending[h] = 0 /\ StartedCall(h, options)
  <2>1. PICK e : e = NewCall(h, options)
    OBVIOUS
  <2>2. /\ calls' = Append(calls, e)
        /\ pending' = [pending EXCEPT ![h] = n] /\ registered' = [registered EXCEPT ![h] = n]
    BY <1>6, <2>1 DEF StartedCall
  <2>3. /\ DOMAIN e = CallFields /\ e.finished = FALSE /\ e.answers = 0 /\ e.phase = "starting"
        /\ e.handle = h /\ e.request = Request(options) /\ e.accepted = NotChosen
    BY <2>1 DEF NewCall, CallFields
  <2>4. Request(options).kind = "SaveFile" => Request(options).mode = "save"
    <3>1. Request(options).kind = options.kind
      BY DEF Request
    <3>2. options.kind = "SaveFile" => Request(options).mode = "save"
      BY DEF Request
    <3>. QED
      BY <3>1, <3>2
  <2>5. Alive(e)
    BY <2>3, <2>4 DEF Alive, NotChosen
  <2>6. /\ calls' \in Seq(Calls') /\ Len(calls') = n /\ Ids' = Ids \cup {n}
        /\ calls'[n] = e /\ \A j \in Ids : calls'[j] = calls[j]
    BY <1>2, <2>2
  <2>7. pending' \in [Handles -> 0 .. Len(calls')]
    BY <1>1, <2>2, <2>6 DEF PortalInv
  <2>8. \A j \in Ids' : calls'[j] = AnsweredAtOnce \/ Alive(calls'[j])
    BY <2>5, <2>6 DEF PortalInv
  <2>9. \A g \in Handles : pending'[g] = IF g = h THEN n ELSE pending[g]
    BY <2>2 DEF PortalInv
  <2>10. \A j \in Ids' :
          /\ calls'[j].answers = (IF calls'[j].finished THEN 1 ELSE 0)
          /\ calls'[j].finished <=> calls'[j].phase = "none"
          /\ ~calls'[j].finished => pending'[calls'[j].handle] = j
    <3>1. \A j \in Ids : ~calls[j].finished => calls[j].handle # h
      BY <1>1, <1>3, <1>6
    <3>. QED
      BY <1>3, <2>3, <2>6, <2>9, <3>1
  <2>11. \A g \in Handles : pending'[g] # 0 =>
          ~calls'[pending'[g]].finished /\ calls'[pending'[g]].handle = g
    BY <1>4, <2>3, <2>6, <2>9
  <2>12. registered' = pending'
    BY <2>2 DEF PortalInv, EveryCallIsAnsweredOnce
  <2>. QED
    BY <2>6, <2>7, <2>8, <2>10, <2>11, <2>12 DEF PortalInv, EveryCallIsAnsweredOnce, Handle
<1>. QED
  BY <1>5, <1>6 DEF startRequest

-----------------------------------------------------------------------------
(* The portal's part of a call, and the bus's.                              *)
LEMMA CallKeeps ==
  ASSUME PortalInv, NEW i \in Ids,
         \/ FailedToStart(i) \/ Started(i) \/ WriteFailed(i) \/ Finished(i) \/ cancelFromPortal(i)
  PROVE  PortalInv'
<1>1. ~calls[i].finished /\ Alive(calls[i])
  BY Shape DEF FailedToStart, Started, WriteFailed, Finished, cancelFromPortal
<1>2. CASE Started(i) /\ Configurable(fs, calls[i].request)
  <2>1. PICK e : e = [calls[i] EXCEPT !.phase = "open", !.picker = configure(calls[i].request)]
    OBVIOUS
  <2>2. calls' = [calls EXCEPT ![i] = e] /\ UNCHANGED <<pending, registered>>
    BY <1>2, <2>1 DEF Started
  <2>3. /\ DOMAIN e = CallFields /\ e.finished = FALSE /\ e.answers = 0 /\ e.phase = "open"
        /\ e.handle = calls[i].handle /\ e.request = calls[i].request
        /\ e.accepted = calls[i].accepted /\ e.picker = configure(calls[i].request)
    BY <1>1, <2>1 DEF Alive, CallFields
  <2>4. /\ DOMAIN configure(calls[i].request) = PickerFields
        /\ configure(calls[i].request).mode = calls[i].request.mode
    BY DEF configure, PickerFields
  <2>5. Alive(e)
    BY <1>1, <2>3, <2>4 DEF Alive
  <2>. QED
    BY <1>1, <2>2, <2>3, <2>5, OneCallKeeps
<1>3. CASE Started(i) /\ ~Configurable(fs, calls[i].request)
  <2>1. PICK e : e = [calls[i] EXCEPT !.phase = "ended", !.exit = "failure"]
    OBVIOUS
  <2>2. calls' = [calls EXCEPT ![i] = e] /\ UNCHANGED <<pending, registered>>
    BY <1>3, <2>1 DEF Started
  <2>3. Alive(e) /\ e.handle = calls[i].handle
    BY <1>1, <2>1 DEF Alive, CallFields
  <2>. QED
    BY <1>1, <2>2, <2>3, OneCallKeeps
<1>4. CASE \/ FailedToStart(i) \/ WriteFailed(i) \/ Finished(i) \/ cancelFromPortal(i)
  BY <1>1, <1>4, CompleteKeeps DEF FailedToStart, WriteFailed, Finished, cancelFromPortal
<1>. QED
  BY <1>2, <1>3, <1>4

LEMMA CloseKeeps == ASSUME PortalInv, NEW h \in Handles, Close(h) PROVE PortalInv'
<1>1. PICK i : i = registered[h]
  OBVIOUS
<1>2. i # 0 /\ i \in Ids /\ ~calls[i].finished
  BY <1>1, Shape DEF Close, PortalInv, EveryCallIsAnsweredOnce
<1>3. PICK e : e = [calls[i] EXCEPT !.closed = TRUE]
  OBVIOUS
<1>4. calls' = [calls EXCEPT ![i] = e] /\ UNCHANGED <<pending, registered>>
  BY <1>1, <1>3 DEF Close
<1>5. Alive(calls[i])
  BY <1>2, Shape
<1>6. Alive(e) /\ e.handle = calls[i].handle
  BY <1>3, <1>5 DEF Alive, CallFields
<1>. QED
  BY <1>2, <1>4, <1>6, OneCallKeeps

-----------------------------------------------------------------------------
(* The picker's part.                                                       *)
LEMMA UseKeeps ==
  ASSUME PortalInv, NEW i \in Ids, NEW p, Use(i, p),
         DOMAIN p = PickerFields, p.mode = calls[i].picker.mode
  PROVE  PortalInv'
<1>1. ~calls[i].finished /\ Alive(calls[i]) /\ calls[i].phase = "open"
  BY Shape DEF Use
<1>2. PICK e : e = [calls[i] EXCEPT !.picker = p]
  OBVIOUS
<1>3. calls' = [calls EXCEPT ![i] = e] /\ UNCHANGED <<pending, registered>>
  BY <1>2 DEF Use
<1>4. /\ DOMAIN e = CallFields /\ e.finished = FALSE /\ e.answers = 0 /\ e.phase = "open"
      /\ e.handle = calls[i].handle /\ e.request = calls[i].request
      /\ e.accepted = calls[i].accepted /\ e.picker = p
  BY <1>1, <1>2 DEF Alive, CallFields
<1>5. Alive(e)
  BY <1>1, <1>4 DEF Alive
<1>. QED
  BY <1>1, <1>3, <1>4, <1>5, OneCallKeeps

(* A picker that accepts, of a SaveFile call, only what is confirmed.       *)
LEMMA AcceptKeeps ==
  ASSUME PortalInv, NEW i \in Ids, NEW uris, NEW confirmed, Accept(i, uris, confirmed),
         calls[i].request.kind = "SaveFile" =>
           \A p \in ToSet(uris) : Taken(p) => p = confirmed
  PROVE  PortalInv'
<1>1. ~calls[i].finished /\ Alive(calls[i]) /\ calls[i].phase = "open"
  BY Shape DEF Accept
<1>2. PICK x : x = [chosen |-> TRUE, uris |-> uris, confirmed |-> confirmed,
                    occupied |-> {p \in ToSet(uris) : Taken(p)}]
  OBVIOUS
<1>3. PICK e : e = [calls[i] EXCEPT !.phase = "ended", !.exit = "success",
                                    !.output = resultObject(Picker(i), uris), !.accepted = x]
  OBVIOUS
<1>4. calls' = [calls EXCEPT ![i] = e] /\ UNCHANGED <<pending, registered>>
  BY <1>2, <1>3 DEF Accept
<1>5. /\ DOMAIN e = CallFields /\ e.finished = FALSE /\ e.answers = 0 /\ e.phase = "ended"
      /\ e.handle = calls[i].handle /\ e.request = calls[i].request /\ e.accepted = x
  BY <1>1, <1>3 DEF Alive, CallFields
<1>6. calls[i].request.kind = "SaveFile" => x.occupied \subseteq {x.confirmed}
  BY <1>2
<1>7. Alive(e)
  BY <1>1, <1>5, <1>6 DEF Alive
<1>. QED
  BY <1>1, <1>4, <1>5, <1>7, OneCallKeeps

(* Every operation of a picker on itself keeps what it is for.              *)
LEMMA PickerKeepsMode ==
  ASSUME NEW p, DOMAIN p = PickerFields
  PROVE  /\ \A folder : /\ DOMAIN Navigated(p, folder) = PickerFields
                        /\ Navigated(p, folder).mode = p.mode
         /\ \A paths : /\ DOMAIN Selected(p, paths) = PickerFields
                       /\ Selected(p, paths).mode = p.mode
         /\ \A name : DOMAIN Named(p, name) = PickerFields /\ Named(p, name).mode = p.mode
         /\ DOMAIN clearOverwriteConfirmation(p) = PickerFields
         /\ clearOverwriteConfirmation(p).mode = p.mode
         /\ \A k : DOMAIN FilterSelected(p, k) = PickerFields /\ FilterSelected(p, k).mode = p.mode
         /\ \A c : DOMAIN ChoiceSelected(p, c) = PickerFields /\ ChoiceSelected(p, c).mode = p.mode
         /\ \A f : DOMAIN SaveRequested(f, p) = PickerFields /\ SaveRequested(f, p).mode = p.mode
BY DEF PickerFields, Navigated, Selected, Named, clearOverwriteConfirmation, FilterSelected,
       ChoiceSelected, SaveRequested

LEMMA PickerKeeps ==
  ASSUME PortalInv, NEW i \in Ids,
         \/ AcceptSelection(i) \/ RequestSave(i) \/ ConfirmOverwrite(i) \/ Choose(i)
         \/ \E exit \in {"cancelled", "success", "failure"} : End(i, exit)
  PROVE  PortalInv'
<1>1. calls[i].phase = "open" /\ ~calls[i].finished /\ Alive(calls[i])
  BY Shape DEF AcceptSelection, RequestSave, ConfirmOverwrite, Choose, End
<1>2. PICK p : p = calls[i].picker
  OBVIOUS
<1>3. DOMAIN p = PickerFields /\ (calls[i].request.kind = "SaveFile" => p.mode = "save")
  BY <1>1, <1>2 DEF Alive
<1>4. CASE AcceptSelection(i)
  <2>1. p.mode # "save"
    BY <1>2, <1>4 DEF AcceptSelection, canAccept, Picker
  <2>. QED
    BY <1>3, <1>4, <2>1, AcceptKeeps DEF AcceptSelection
<1>5. CASE RequestSave(i)
  <2>1. CASE SaveAccepted(fs, p) /\ Accept(i, <<SaveTarget(p)>>, Unset)
    <3>1. ToSet(<<SaveTarget(p)>>) = {SaveTarget(p)}
      BY DEF ToSet
    <3>2. ~Taken(SaveTarget(p))
      BY <2>1 DEF SaveAccepted, OverwriteRequired, Taken
    <3>. QED
      BY <2>1, <3>1, <3>2, AcceptKeeps
  <2>2. CASE Use(i, SaveRequested(fs, p))
    BY <1>2, <1>3, <2>2, PickerKeepsMode, UseKeeps
  <2>. QED
    BY <1>2, <1>5, <2>1, <2>2 DEF RequestSave, Picker
<1>6. CASE ConfirmOverwrite(i)
  <2>1. CASE /\ OverwriteConfirmed(fs, p)
             /\ Accept(i, <<SaveTarget(p)>>, p.pendingOverwritePath)
    <3>1. ToSet(<<SaveTarget(p)>>) = {SaveTarget(p)}
      BY DEF ToSet
    <3>2. p.pendingOverwritePath = SaveTarget(p)
      BY <2>1 DEF OverwriteConfirmed
    <3>. QED
      BY <2>1, <3>1, <3>2, AcceptKeeps
  <2>2. CASE Use(i, clearOverwriteConfirmation(p))
    BY <1>2, <1>3, <2>2, PickerKeepsMode, UseKeeps
  <2>. QED
    BY <1>2, <1>6, <2>1, <2>2 DEF ConfirmOverwrite, Picker
<1>7. CASE Choose(i)
  <2>1. PICK q : /\ Use(i, q)
                 /\ \/ \E folder : q = Navigated(p, folder)
                    \/ \E paths : q = Selected(p, paths)
                    \/ \E name : q = Named(p, name)
                    \/ q = clearOverwriteConfirmation(p)
                    \/ \E k : q = FilterSelected(p, k)
                    \/ \E c : q = ChoiceSelected(p, c)
    BY <1>2, <1>7 DEF Choose, Picker
  <2>2. DOMAIN q = PickerFields /\ q.mode = p.mode
    BY <1>3, <2>1, PickerKeepsMode
  <2>. QED
    BY <1>2, <2>1, <2>2, UseKeeps
<1>8. CASE \E exit \in {"cancelled", "success", "failure"} : End(i, exit)
  <2>1. PICK exit \in {"cancelled", "success", "failure"} : End(i, exit)
    BY <1>8
  <2>2. PICK e : e = [calls[i] EXCEPT !.phase = "ended", !.exit = exit]
    OBVIOUS
  <2>3. calls' = [calls EXCEPT ![i] = e] /\ UNCHANGED <<pending, registered>>
    BY <2>1, <2>2 DEF End
  <2>4. Alive(e) /\ e.handle = calls[i].handle
    BY <1>1, <2>2 DEF Alive, CallFields
  <2>. QED
    BY <1>1, <2>3, <2>4, OneCallKeeps
<1>. QED
  BY <1>4, <1>5, <1>6, <1>7, <1>8

(* Other programs touch no call.                                            *)
LEMMA ElsewhereKeeps == ASSUME PortalInv, Elsewhere PROVE PortalInv'
<1>1. /\ calls' = [i \in Ids |-> IF calls[i].finished \/ ~calls[i].accepted.chosen THEN calls[i]
                                 ELSE [calls[i] EXCEPT !.disturbed = TRUE]]
      /\ UNCHANGED <<pending, registered>>
  BY DEF Elsewhere
<1>2. Len(calls) \in Nat /\ Ids = 1 .. Len(calls)
  BY Shape
<1>3. Ids' = Ids
  BY <1>1 DEF Ids
<1>4. calls' \in Seq(Calls') /\ Len(calls') = Len(calls)
  <2>1. calls' \in [1 .. Len(calls) -> Calls']
    BY <1>1, <1>2, <1>3 DEF Calls
  <2>2. calls' \in Seq(Calls')
    BY <1>2, <2>1, SeqDef
  <2>3. Len(calls') \in Nat /\ 1 .. Len(calls') = 1 .. Len(calls)
    BY <1>2, <1>3, <2>2, LenProperties DEF Ids
  <2>. QED
    BY <1>2, <2>2, <2>3
<1>5. ASSUME NEW i \in Ids
      PROVE  \/ calls'[i] = calls[i]
             \/ Alive(calls[i]) /\ Alive(calls'[i]) /\ calls'[i].handle = calls[i].handle
  <2>1. CASE calls[i].finished \/ ~calls[i].accepted.chosen
    BY <1>1, <2>1
  <2>2. CASE ~(calls[i].finished \/ ~calls[i].accepted.chosen)
    <3>1. Alive(calls[i])
      BY <2>2, Shape
    <3>2. PICK e : e = [calls[i] EXCEPT !.disturbed = TRUE]
      OBVIOUS
    <3>3. Alive(e) /\ e.handle = calls[i].handle
      BY <3>1, <3>2 DEF Alive, CallFields
    <3>. QED
      BY <1>1, <2>2, <3>1, <3>2, <3>3
  <2>. QED
    BY <2>1, <2>2
<1>6. ASSUME NEW i \in Ids
      PROVE
        /\ calls'[i].finished = calls[i].finished /\ calls'[i].answers = calls[i].answers
        /\ calls'[i].phase = "none" <=> calls[i].phase = "none"
        /\ ~calls[i].finished => calls'[i].handle = calls[i].handle
        /\ calls'[i] = AnsweredAtOnce \/ Alive(calls'[i])
  <2>1. CASE calls'[i] = calls[i]
    BY <2>1 DEF PortalInv
  <2>2. CASE Alive(calls[i]) /\ Alive(calls'[i]) /\ calls'[i].handle = calls[i].handle
    BY <2>2 DEF Alive
  <2>. QED
    BY <1>5, <2>1, <2>2
<1>7. \A h \in Handles : pending[h] # 0 => pending[h] \in Ids
  BY <1>2 DEF PortalInv
<1>8. EveryCallIsAnsweredOnce'
  BY <1>1, <1>3, <1>6, <1>7 DEF PortalInv, EveryCallIsAnsweredOnce, Handle
<1>. QED
  BY <1>1, <1>3, <1>4, <1>6, <1>8 DEF PortalInv

-----------------------------------------------------------------------------
LEMMA InitPortal == Init => PortalInv
<1> SUFFICES ASSUME Init PROVE PortalInv
  OBVIOUS
<1>1. calls = <<>> /\ Len(calls) = 0 /\ Ids = {}
  BY DEF Init, Ids
<1>2. calls \in Seq(Calls)
  BY <1>1, EmptySeq
<1>3. pending = Nobody /\ registered = pending /\ \A h \in Handles : pending[h] = 0
  BY DEF Init, Nobody
<1>4. pending \in [Handles -> 0 .. Len(calls)]
  BY <1>1, <1>3 DEF Nobody
<1>. QED
  BY <1>1, <1>2, <1>3, <1>4 DEF PortalInv, EveryCallIsAnsweredOnce

LEMMA NextPortal == PortalInv /\ [Next]_vars => PortalInv'
<1> SUFFICES ASSUME PortalInv, [Next]_vars PROVE PortalInv'
  OBVIOUS
<1>1. CASE UNCHANGED vars
  BY <1>1 DEF vars, PortalInv, EveryCallIsAnsweredOnce, Calls, Ids, Handle
<1>2. CASE Next
  BY <1>2, NewCallKeeps, CloseKeeps, CallKeeps, PickerKeeps, ElsewhereKeeps DEF Next
<1>. QED
  BY <1>1, <1>2

(* The calls, their handles and their pickers stay in step.                 *)
THEOREM PortalInvariance == Spec => []PortalInv
BY InitPortal, NextPortal, PTL DEF Spec

(* complete: however a call ends, by its picker, its caller, a failure or   *)
(* several of them, it is answered once, and until then it is found by its  *)
(* handle, by the portal and on the bus, and not longer.                    *)
THEOREM CallsAreAnsweredOnce == Spec => []EveryCallIsAnsweredOnce
<1>1. PortalInv => EveryCallIsAnsweredOnce
  BY DEF PortalInv
<1>. QED
  BY <1>1, PortalInvariance, PTL

(* PickerSaveState: what a SaveFile call's picker accepts, and is there, is *)
(* the path the user agreed to replace.                                     *)
THEOREM ReplacingIsConfirmed == Spec => []NothingIsReplacedUnasked
<1>1. PortalInv => NothingIsReplacedUnasked
  BY Shape DEF Alive, NothingIsReplacedUnasked
<1>. QED
  BY <1>1, PortalInvariance, PTL

-----------------------------------------------------------------------------
(* The names SaveFiles gives.                                               *)
LEMMA LeastOf ==
  ASSUME NEW S \in SUBSET Nat, S # {}
  PROVE  \E m \in S : \A k \in S : m <= k
<1>1. PICK m \in S : \A k \in S : <<k, m>> \notin OpToRel(<, Nat)
  BY NatLessThanWellFounded, WFMin
<1>2. \A k \in S : ~(k < m)
  BY <1>1 DEF OpToRel
<1>. QED
  BY <1>2

LEMMA MinIsLeast ==
  ASSUME NEW S \in SUBSET Nat, S # {}
  PROVE  Min(S) \in S /\ \A k \in S : Min(S) <= k
BY LeastOf DEF Min

(* The names of SaveFiles, each of which knows those before it.             *)
LEMMA NamesAreGiven ==
  ASSUME NEW f, NEW d, NEW names, IsList(names)
  PROVE  LET given == SaveFilesNames(f, d, names)
         IN  /\ DOMAIN given = DOMAIN names
             /\ \A k \in DOMAIN names :
                  given[k] = uniqueDestinationName(f, d, names[k], {given[j] : j \in 1 .. k - 1})
<1> DEFINE n == Len(names)
           Name(i, s) == uniqueDestinationName(f, d, names[i], ToSet(s))
           After(i, g) == IF i = 0 THEN <<>> ELSE Append(g[i - 1], Name(i, g[i - 1]))
           w == Given(f, d, names)
           Open == {m \in 0 .. n : ~\E g : g = [i \in 0 .. m |-> After(i, g)]}
<1>1. n \in Nat /\ DOMAIN names = 1 .. n
  BY DEF IsList
<1> HIDE DEF n
<1>2. Open = {}
  <2> SUFFICES ASSUME Open # {} PROVE FALSE
    OBVIOUS
  <2>1. Open \in SUBSET Nat
    BY <1>1
  <2>2. PICK m \in Open : \A k \in Open : m <= k
    BY <2>1, LeastOf, Zenon
  <2>3. m \in 0 .. n /\ m \in Nat
    BY <2>2, <1>1
  <2>4. CASE m = 0
    <3> DEFINE g == [i \in 0 .. 0 |-> <<>>]
    <3>1. g = [i \in 0 .. 0 |-> After(i, g)]
      BY SMT
    <3>. QED
      BY <2>2, <2>4, <3>1
  <2>5. CASE m # 0
    <3>1. m - 1 \in 0 .. n /\ ~(m <= m - 1)
      BY <2>3, <2>5, <1>1
    <3>2. m - 1 \notin Open
      BY <2>2, <3>1
    <3>3. PICK h : h = [i \in 0 .. m - 1 |-> After(i, h)]
      BY <3>1, <3>2
    <3> DEFINE g == [i \in 0 .. m |-> IF i = m THEN Append(h[m - 1], Name(m, h[m - 1])) ELSE h[i]]
    <3>4. ASSUME NEW i \in 0 .. m PROVE g[i] = After(i, g)
      <4>1. CASE i = m
        <5>1. m - 1 \in 0 .. m /\ m - 1 # m /\ i # 0
          BY <2>3, <2>5, <4>1
        <5>2. g[m - 1] = h[m - 1]
          BY <5>1
        <5>. QED
          BY <4>1, <5>1, <5>2
      <4>2. CASE i # m
        <5>1. i \in 0 .. m - 1
          BY <2>3, <4>2
        <5>2. h[i] = After(i, h)
          BY <3>3, <5>1
        <5>3. i # 0 => g[i - 1] = h[i - 1]
          BY <2>3, <5>1
        <5>. QED
          BY <4>2, <5>2, <5>3
      <4>. QED
        BY <4>1, <4>2
    <3>5. g = [i \in 0 .. m |-> g[i]]
      OBVIOUS
    <3> HIDE DEF g
    <3>6. g = [i \in 0 .. m |-> After(i, g)]
      BY <3>4, <3>5
    <3>. QED
      BY <2>2, <3>6
  <2>. QED
    BY <2>4, <2>5
<1>3. \E g : g = [i \in 0 .. n |-> After(i, g)]
  <2>1. n \in 0 .. n
    BY <1>1
  <2>. QED
    BY <1>2, <2>1, Zenon
<1>4. w = [i \in 0 .. n |-> After(i, w)]
  BY <1>3, Zenon DEF Given, n
<1> HIDE DEF w
<1> DEFINE u == [k \in 1 .. n |-> Name(k, w[k - 1])]
           T == {u[k] : k \in 1 .. n}
           Fine(i) == w[i] \in Seq(T) /\ Len(w[i]) = i /\ \A k \in 1 .. i : w[i][k] = u[k]
           Rest == {i \in 0 .. n : ~Fine(i)}
<1>5. w[0] = <<>> /\ \A i \in 1 .. n : w[i] = Append(w[i - 1], u[i]) /\ u[i] \in T
  <2>1. \A i \in 0 .. n : w[i] = After(i, w)
    BY <1>4, Zenon
  <2>2. 0 \in 0 .. n /\ \A i \in 1 .. n : i \in 0 .. n /\ i # 0
    BY <1>1
  <2>3. \A i \in 1 .. n : u[i] = Name(i, w[i - 1]) /\ u[i] \in T
    BY Zenon
  <2> HIDE DEF u, T
  <2>. QED
    BY <2>1, <2>2, <2>3
<1> HIDE DEF u, T
<1>6. Rest = {}
  <2> SUFFICES ASSUME Rest # {} PROVE FALSE
    OBVIOUS
  <2>1. Rest \in SUBSET Nat
    BY <1>1
  <2>2. PICK i \in Rest : \A k \in Rest : i <= k
    BY <2>1, LeastOf, Zenon
  <2>3. i \in 0 .. n /\ i \in Nat
    BY <2>2, <1>1
  <2>4. CASE i = 0
    <3>1. w[i] = <<>>
      BY <1>5, <2>4
    <3>2. Fine(i)
      BY <2>4, <3>1
    <3>. QED
      BY <2>2, <3>2
  <2>5. CASE i # 0
    <3>1. i - 1 \in 0 .. n /\ i - 1 \in Nat /\ i \in 1 .. n /\ ~(i <= i - 1)
      BY <1>1, <2>3, <2>5
    <3>2. Fine(i - 1)
      BY <2>2, <3>1
    <3>3. w[i] = Append(w[i - 1], u[i]) /\ u[i] \in T
      BY <1>5, <3>1
    <3>4. w[i] \in Seq(T) /\ Len(w[i]) = i
      BY <3>1, <3>2, <3>3
    <3>5. \A k \in 1 .. i : w[i][k] = u[k]
      BY <3>1, <3>2, <3>3
    <3>. QED
      BY <2>2, <3>4, <3>5
  <2>. QED
    BY <2>4, <2>5
<1>7. \A i \in 0 .. n : Fine(i)
  BY <1>6
<1>8. SaveFilesNames(f, d, names) = w[n] /\ n \in 0 .. n
  BY <1>1 DEF SaveFilesNames, w, n
<1>9. DOMAIN w[n] = 1 .. n /\ \A k \in 1 .. n : w[n][k] = u[k]
  BY <1>1, <1>7, <1>8
<1>10. ASSUME NEW k \in 1 .. n
       PROVE  w[n][k] = uniqueDestinationName(f, d, names[k], {w[n][j] : j \in 1 .. k - 1})
  <2>1. k - 1 \in 0 .. n /\ k - 1 \in Nat /\ \A j \in 1 .. k - 1 : j \in 1 .. n
    BY <1>1
  <2>2. Fine(k - 1)
    BY <1>7, <2>1
  <2>3. DOMAIN w[k - 1] = 1 .. k - 1 /\ \A j \in 1 .. k - 1 : w[k - 1][j] = w[n][j]
    BY <1>9, <2>1, <2>2
  <2>4. ToSet(w[k - 1]) = {w[n][j] : j \in 1 .. k - 1}
    BY <2>3 DEF ToSet
  <2>5. w[n][k] = Name(k, w[k - 1])
    BY <1>9 DEF u
  <2>. QED
    BY <2>4, <2>5
<1>. QED
  BY <1>1, <1>8, <1>9, <1>10

LEMMA FreeName ==
  ASSUME NEW f, NEW d, NEW name, NEW reserved, uniqueDestinationName(f, d, name, reserved) # Bad
  PROVE  /\ uniqueDestinationName(f, d, name, reserved) \notin reserved
         /\ ~Occupied(f, <<d, uniqueDestinationName(f, d, name, reserved)>>)
<1> DEFINE free == {i \in 1 .. MaxTries + 1 : /\ Candidates(name)[i] \notin reserved
                                              /\ ~Occupied(f, <<d, Candidates(name)[i]>>)}
<1>1. free \in SUBSET Nat
  BY TriesAssumption
<1>2. /\ free # {}
      /\ uniqueDestinationName(f, d, name, reserved) = Candidates(name)[Min(free)]
  BY DEF uniqueDestinationName
<1>3. Min(free) \in free
  <2> HIDE DEF free
  <2>. QED
    BY <1>1, <1>2, MinIsLeast
<1>. QED
  BY <1>2, <1>3

(* No name of SaveFiles is taken or given twice.                            *)
LEMMA GivenNamesAreFree ==
  ASSUME NEW f, NEW d, NEW names, IsList(names), Bad \notin ToSet(SaveFilesNames(f, d, names))
  PROVE  LET given == SaveFilesNames(f, d, names)
         IN  /\ DOMAIN given = DOMAIN names
             /\ \A j, k \in DOMAIN names : given[j] = given[k] => j = k
             /\ \A k \in DOMAIN names : ~Occupied(f, <<d, given[k]>>)
<1> DEFINE given == SaveFilesNames(f, d, names)
<1>1. /\ DOMAIN given = DOMAIN names
      /\ \A k \in DOMAIN names :
           given[k] = uniqueDestinationName(f, d, names[k], {given[j] : j \in 1 .. k - 1})
  BY NamesAreGiven
<1> HIDE DEF given
<1>2. \A k \in DOMAIN names : given[k] # Bad
  BY <1>1 DEF ToSet, given
<1>3. ASSUME NEW k \in DOMAIN names
      PROVE  given[k] \notin {given[j] : j \in 1 .. k - 1} /\ ~Occupied(f, <<d, given[k]>>)
  <2> DEFINE earlier == {given[j] : j \in 1 .. k - 1}
  <2>1. given[k] = uniqueDestinationName(f, d, names[k], earlier) /\ given[k] # Bad
    BY <1>1, <1>2
  <2> HIDE DEF earlier
  <2>2. given[k] \notin earlier /\ ~Occupied(f, <<d, given[k]>>)
    BY <2>1, FreeName
  <2>. QED
    BY <2>2 DEF earlier
<1>4. DOMAIN names = 1 .. Len(names) /\ Len(names) \in Nat
  BY DEF IsList
<1>5. \A j, k \in DOMAIN names : given[j] = given[k] => j = k
  <2> SUFFICES ASSUME NEW j \in DOMAIN names, NEW k \in DOMAIN names, j < k, given[j] = given[k] PROVE FALSE
    BY <1>4
  <2>1. j \in 1 .. k - 1
    BY <1>4
  <2>. QED
    BY <1>3, <2>1
<1>. QED
  BY <1>1, <1>3, <1>5 DEF given

-----------------------------------------------------------------------------
(* What a request has been checked to be.                                   *)
Sound(r) ==
    /\ r.kind \in {"OpenFile", "SaveFile", "SaveFiles"}
    /\ r.kind = "SaveFile" => r.mode = "save"
    /\ r.kind = "OpenFile" => r.mode \in {"open", "folder"}
    /\ r.kind = "SaveFiles" => r.mode = "folder" /\ IsList(r.saveFileNames)
    /\ r.kind # "OpenFile" => ~r.multiple
    /\ 0 \notin DOMAIN r.filters
    /\ r.filters # <<>> => r.initialFilterIndex \in DOMAIN r.filters
    /\ r.filterLocked => r.filters # <<>>
    /\ \A c \in ToSet(r.choices) : IsList(c.options) /\ Initial(c) \in Values(c)
    /\ \A c, e \in ToSet(r.choices) : c.id = e.id => c = e

LEMMA RequestIsSound ==
  ASSUME NEW o \in Offers, NEW f, Valid(f, o)
  PROVE  Sound(Request(o)) /\ Request(o).saveFileNames = o.files
<1> DEFINE r == Request(o)
           folders == o.kind = "SaveFiles" \/ (o.kind = "OpenFile" /\ o.directory)
           p == parseFilterOptions(o)
<1>1. /\ o.kind \in {"OpenFile", "SaveFile", "SaveFiles"}
      /\ IsList(o.files) /\ IsList(o.filters)
      /\ \A c \in ToSet(o.choices) : IsList(c.options)
  BY OffersAssumption
<1>2. /\ r.kind = o.kind /\ r.saveFileNames = o.files /\ r.choices = o.choices
      /\ r.mode = CASE o.kind = "SaveFile" -> "save" [] folders -> "folder" [] OTHER -> "open"
      /\ r.multiple = (o.kind = "OpenFile" /\ o.multiple)
  BY DEF Request
<1>3. \/ r.filters = <<>> /\ r.filterLocked = FALSE
      \/ /\ r.filters = p.filters /\ r.filterLocked = p.filterLocked
         /\ r.initialFilterIndex = p.initialFilterIndex
  BY DEF Request, NoFilters
<1>4. choicesDecode(o.choices)
  BY DEF Valid
<1>5. \A c \in ToSet(o.choices) : Initial(c) \in Values(c)
  BY <1>4 DEF choicesDecode, validateChoice
<1>6. \A c, e \in ToSet(o.choices) : c.id = e.id => c = e
  BY <1>4 DEF choicesDecode, ToSet
<1>7. /\ 0 \notin DOMAIN p.filters
      /\ p.filterLocked => p.filters # <<>>
      /\ p.filters # <<>> => p.initialFilterIndex \in DOMAIN p.filters
  <2> DEFINE same == {i \in DOMAIN o.filters : o.filters[i] = o.current}
             alone == o.filters = <<>> /\ o.current # Unset
  <2>1. /\ p.filters = IF alone THEN <<o.current>> ELSE o.filters
        /\ p.initialFilterIndex = IF o.filters = <<>> /\ ~alone THEN 0 ELSE IF same = {} THEN 1 ELSE Min(same)
        /\ p.filterLocked = alone
    BY DEF parseFilterOptions
  <2>2. /\ o.filters \in Seq(ToSet(o.filters)) /\ DOMAIN o.filters = 1 .. Len(o.filters)
        /\ Len(o.filters) \in Nat
    BY <1>1 DEF IsList
  <2>3. o.filters # <<>> => 1 \in DOMAIN o.filters
    BY <2>2
  <2>4. same # {} => Min(same) \in DOMAIN o.filters
    <3>1. same \in SUBSET Nat
      BY <2>2
    <3> HIDE DEF same
    <3>2. same # {} => Min(same) \in same
      BY <3>1, MinIsLeast
    <3>. QED
      BY <3>2 DEF same
  <2>5. CASE alone
    <3>1. same = {}
      BY <2>5
    <3>2. p.filters = <<o.current>> /\ p.initialFilterIndex = 1
      BY <2>1, <2>5, <3>1
    <3>. QED
      BY <3>2
  <2>6. CASE ~alone
    <3>1. p.filters = o.filters /\ p.filterLocked = FALSE
      BY <2>1, <2>6
    <3>2. o.filters # <<>> => p.initialFilterIndex \in DOMAIN o.filters
      <4> HIDE DEF same
      <4>1. o.filters # <<>> => p.initialFilterIndex = IF same = {} THEN 1 ELSE Min(same)
        BY <2>1
      <4>. QED
        BY <2>3, <2>4, <4>1
    <3>3. 0 \notin DOMAIN o.filters
      BY <2>2
    <3> HIDE DEF p
    <3>. QED
      BY <3>1, <3>2, <3>3
  <2>. QED
    BY <2>5, <2>6
<1> HIDE DEF r, p
<1>8. /\ 0 \notin DOMAIN r.filters
      /\ r.filterLocked => r.filters # <<>>
      /\ r.filters # <<>> => r.initialFilterIndex \in DOMAIN r.filters
  BY <1>3, <1>7
<1>9. /\ r.kind = "SaveFile" => r.mode = "save"
      /\ r.kind = "OpenFile" => r.mode \in {"open", "folder"}
      /\ r.kind = "SaveFiles" => r.mode = "folder"
      /\ r.kind # "OpenFile" => ~r.multiple
  BY <1>1, <1>2
<1>10. /\ \A c \in ToSet(r.choices) : IsList(c.options) /\ Initial(c) \in Values(c)
       /\ \A c, e \in ToSet(r.choices) : c.id = e.id => c = e
  BY <1>1, <1>2, <1>5, <1>6
<1>11. Sound(r)
  <2>1. r.kind \in {"OpenFile", "SaveFile", "SaveFiles"} /\ IsList(r.saveFileNames)
    BY <1>1, <1>2
  <2>. QED
    BY <1>8, <1>9, <1>10, <2>1 DEF Sound
<1>. QED
  BY <1>2, <1>11 DEF r

-----------------------------------------------------------------------------
(* What a picker is while it serves the request r.                          *)
PickerFits(p, r) ==
    /\ DOMAIN p = PickerFields
    /\ p.mode = r.mode /\ p.multiple = r.multiple
    /\ p.filters = r.filters /\ p.filterLocked = r.filterLocked
    /\ r.filters # <<>> => p.filter \in DOMAIN r.filters
    /\ r.filterLocked => p.filter = r.initialFilterIndex
    /\ DOMAIN p.choices = {c.id : c \in ToSet(r.choices)}
    /\ \A c \in ToSet(r.choices) : p.choices[c.id] \in Values(c)
    /\ p.selected \in Seq(DOMAIN fs.at)

LEMMA ConfigureFits ==
  ASSUME NEW r, Sound(r)
  PROVE  PickerFits(configure(r), r)
<1> DEFINE p == configure(r)
<1>1. /\ DOMAIN p = PickerFields /\ p.mode = r.mode /\ p.multiple = r.multiple
      /\ p.filters = r.filters /\ p.filterLocked = r.filterLocked /\ p.selected = <<>>
      /\ p.filter = IF r.filters # <<>> /\ r.initialFilterIndex = 0 THEN 1 ELSE r.initialFilterIndex
      /\ p.choices = [id \in {c.id : c \in ToSet(r.choices)} |->
                        Initial(CHOOSE c \in ToSet(r.choices) : c.id = id)]
  BY DEF configure, PickerFields
<1> HIDE DEF p
<1>2. /\ 0 \notin DOMAIN r.filters
      /\ r.filters # <<>> => r.initialFilterIndex \in DOMAIN r.filters
      /\ r.filterLocked => r.filters # <<>>
  BY DEF Sound
<1>3. /\ r.filters # <<>> => p.filter \in DOMAIN r.filters
      /\ r.filterLocked => p.filter = r.initialFilterIndex
  BY <1>1, <1>2
<1>4. ASSUME NEW c \in ToSet(r.choices)
      PROVE  p.choices[c.id] \in Values(c)
  <2>1. c.id \in {e.id : e \in ToSet(r.choices)}
    OBVIOUS
  <2>2. (CHOOSE e \in ToSet(r.choices) : e.id = c.id) = c
    <3>1. \A e \in ToSet(r.choices) : e.id = c.id => e = c
      BY DEF Sound
    <3>. QED
      BY <3>1
  <2>3. p.choices = [id \in {e.id : e \in ToSet(r.choices)} |->
                       Initial(CHOOSE e \in ToSet(r.choices) : e.id = id)]
    BY <1>1
  <2>4. p.choices[c.id] = Initial(CHOOSE e \in ToSet(r.choices) : e.id = c.id)
    BY <2>1, <2>3
  <2>5. p.choices[c.id] = Initial(c)
    BY <2>2, <2>4
  <2>. QED
    BY <2>5 DEF Sound
<1>5. p.selected \in Seq(DOMAIN fs.at)
  BY <1>1
<1>6. DOMAIN p.choices = {c.id : c \in ToSet(r.choices)}
  BY <1>1
<1>. QED
  BY <1>1, <1>3, <1>4, <1>5, <1>6 DEF PickerFits, p

(* The next value of a choice is one of its values.                         *)
LEMMA NextIsAValue ==
  ASSUME NEW c, IsList(c.options), NEW value \in Values(c)
  PROVE  NextValue(c, value) \in Values(c)
<1> DEFINE values == IF c.options = <<>> THEN <<"false", "true">> ELSE c.options
           i == CHOOSE k \in DOMAIN values : values[k] = value
<1>1. ToSet(values) = Values(c)
  <2>1. ToSet(<<"false", "true">>) = {"false", "true"}
    BY DEF ToSet
  <2>. QED
    BY <2>1 DEF Values
<1>2. Len(values) \in Nat /\ Len(values) # 0 /\ DOMAIN values = 1 .. Len(values)
  <2>1. CASE c.options = <<>>
    BY <2>1
  <2>2. CASE c.options # <<>>
    <3>1. c.options \in Seq(ToSet(c.options))
      BY DEF IsList
    <3>. QED
      BY <2>2, <3>1
  <2>. QED
    BY <2>1, <2>2
<1>3. NextValue(c, value) = values[(i % Len(values)) + 1]
  BY DEF NextValue
<1> HIDE DEF values
<1>4. \E k \in DOMAIN values : values[k] = value
  BY <1>1 DEF ToSet
<1>5. i \in 1 .. Len(values)
  BY <1>2, <1>4
<1> HIDE DEF i
<1>6. i % Len(values) \in 0 .. Len(values) - 1
  BY <1>2, <1>5
<1>7. (i % Len(values)) + 1 \in DOMAIN values
  BY <1>2, <1>6
<1>. QED
  BY <1>1, <1>3, <1>7 DEF ToSet

LEMMA SetAsSeq ==
  ASSUME NEW T, IsFiniteSet(T), NEW S \in SUBSET T
  PROVE  SetToSeq(S) \in Seq(T)
<1>1. IsFiniteSet(S)
  BY FS_Subset
<1>2. Cardinality(S) \in Nat /\ ExistsBijection(1 .. Cardinality(S), S)
  BY <1>1, FS_CardinalityType
<1>3. \E f \in [1 .. Cardinality(S) -> S] : IsInjective(f)
  BY <1>2 DEF ExistsBijection, Bijection, Injection
<1>4. SetToSeq(S) \in [1 .. Cardinality(S) -> S]
  BY <1>3 DEF SetToSeq
<1>5. SetToSeq(S) \in Seq(S)
  BY <1>2, <1>4, SeqDef
<1>. QED
  BY <1>5, SeqMonotonic

(* What the user does to a picker leaves it fit for its request.            *)
LEMMA PickerStaysFit ==
  ASSUME NEW r, Sound(r), NEW p, PickerFits(p, r)
  PROVE  /\ \A folder : PickerFits(Navigated(p, folder), r)
         /\ \A paths \in Seq(DOMAIN fs.at) : PickerFits(Selected(p, paths), r)
         /\ \A name : PickerFits(Named(p, name), r)
         /\ PickerFits(clearOverwriteConfirmation(p), r)
         /\ \A k : FilterSelectable(p, k) => PickerFits(FilterSelected(p, k), r)
         /\ \A c \in ToSet(r.choices) : PickerFits(ChoiceSelected(p, c), r)
         /\ \A f : PickerFits(SaveRequested(f, p), r)
<1>1. DOMAIN p = PickerFields
  BY DEF PickerFits
<1>2. ASSUME NEW q, DOMAIN q = PickerFields,
             \A x \in PickerFields \ {"path", "name", "pendingOverwritePath", "selected"} : q[x] = p[x],
             q.selected \in Seq(DOMAIN fs.at)
      PROVE  PickerFits(q, r)
  <2>1. /\ q.mode = p.mode /\ q.multiple = p.multiple /\ q.filters = p.filters
        /\ q.filterLocked = p.filterLocked /\ q.filter = p.filter /\ q.choices = p.choices
    BY <1>2 DEF PickerFields
  <2>. QED
    BY <1>2, <2>1 DEF PickerFits
<1>3. p.selected \in Seq(DOMAIN fs.at) /\ <<>> \in Seq(DOMAIN fs.at)
  BY DEF PickerFits
<1>4. ASSUME NEW folder PROVE PickerFits(Navigated(p, folder), r)
  <2> DEFINE q == Navigated(p, folder)
  <2>1. /\ DOMAIN q = PickerFields /\ q.selected = <<>>
        /\ \A x \in PickerFields \ {"path", "name", "pendingOverwritePath", "selected"} : q[x] = p[x]
    BY <1>1 DEF Navigated, PickerFields
  <2>. QED
    BY <1>2, <1>3, <2>1
<1>5. ASSUME NEW paths \in Seq(DOMAIN fs.at) PROVE PickerFits(Selected(p, paths), r)
  <2> DEFINE q == Selected(p, paths)
  <2>1. /\ DOMAIN q = PickerFields /\ q.selected = paths
        /\ \A x \in PickerFields \ {"path", "name", "pendingOverwritePath", "selected"} : q[x] = p[x]
    BY <1>1 DEF Selected, PickerFields
  <2>. QED
    BY <1>2, <2>1
<1>6. ASSUME NEW q, \/ \E name : q = Named(p, name)
                    \/ q = clearOverwriteConfirmation(p)
                    \/ \E f : q = SaveRequested(f, p)
      PROVE  PickerFits(q, r)
  <2>1. /\ DOMAIN q = PickerFields /\ q.selected = p.selected
        /\ \A x \in PickerFields \ {"path", "name", "pendingOverwritePath", "selected"} : q[x] = p[x]
    BY <1>1, <1>6 DEF Named, clearOverwriteConfirmation, SaveRequested, PickerFields
  <2>. QED
    BY <1>2, <1>3, <2>1
<1>7. ASSUME NEW k, FilterSelectable(p, k) PROVE PickerFits(FilterSelected(p, k), r)
  <2> DEFINE q == FilterSelected(p, k)
  <2>1. /\ DOMAIN q = PickerFields /\ q.selected = <<>> /\ q.filter = k
        /\ q.mode = p.mode /\ q.multiple = p.multiple /\ q.filters = p.filters
        /\ q.filterLocked = p.filterLocked /\ q.choices = p.choices
    BY <1>1 DEF FilterSelected, PickerFields
  <2>2. k \in DOMAIN r.filters /\ ~r.filterLocked
    BY <1>7 DEF FilterSelectable, PickerFits
  <2> HIDE DEF q
  <2>. QED
    BY <1>3, <2>1, <2>2 DEF PickerFits, q
<1>8. ASSUME NEW c \in ToSet(r.choices) PROVE PickerFits(ChoiceSelected(p, c), r)
  <2> DEFINE q == ChoiceSelected(p, c)
  <2>1. /\ DOMAIN q = PickerFields /\ q.selected = p.selected /\ q.filter = p.filter
        /\ q.mode = p.mode /\ q.multiple = p.multiple /\ q.filters = p.filters
        /\ q.filterLocked = p.filterLocked
        /\ q.choices = [p.choices EXCEPT ![c.id] = NextValue(c, @)]
    BY <1>1 DEF ChoiceSelected, PickerFields
  <2>2. NextValue(c, p.choices[c.id]) \in Values(c)
    <3>1. IsList(c.options) /\ p.choices[c.id] \in Values(c)
      BY DEF Sound, PickerFits
    <3>. QED
      BY <3>1, NextIsAValue
  <2> HIDE DEF q
  <2>3. DOMAIN p.choices = {e.id : e \in ToSet(r.choices)}
    BY DEF PickerFits
  <2>4. DOMAIN q.choices = {e.id : e \in ToSet(r.choices)}
    BY <2>1, <2>3
  <2>5. ASSUME NEW e \in ToSet(r.choices) PROVE q.choices[e.id] \in Values(e)
    <3>1. e.id = c.id => e = c
      BY DEF Sound
    <3>2. e.id \in DOMAIN p.choices /\ p.choices[e.id] \in Values(e)
      BY <2>3 DEF PickerFits
    <3>. QED
      BY <2>1, <2>2, <3>1, <3>2
  <2>. QED
    BY <2>1, <2>4, <2>5 DEF PickerFits, q
<1>. QED
  BY <1>4, <1>5, <1>6, <1>7, <1>8

-----------------------------------------------------------------------------
(* What a call's own steps leave of it: before its picker accepts, nothing  *)
(* is written; what it has written is what it accepted, and fits.           *)
CallFits(c) ==
    /\ Sound(c.request) /\ c.request.saveFileNames = c.options.files
    /\ c.phase \in {"starting", "open"} => ~c.accepted.chosen
    /\ ~c.accepted.chosen => c.output = NoOutput
    /\ c.phase = "open" => PickerFits(c.picker, c.request)
    /\ c.phase = "ended" /\ c.accepted.chosen =>
         /\ c.exit = "success" /\ c.picker.filters = c.request.filters
         /\ c.output = resultObject(c.picker, c.accepted.uris)
         /\ validateStructuredSelections(c.request, c.output)
         /\ UsableCount(c.request, Len(c.accepted.uris))
         /\ ~c.disturbed =>
              \A uri \in ToSet(c.accepted.uris) : UsableUri(fs, c.request, uri)

AnswerInv ==
    /\ DOMAIN fs = {"folders", "at"} /\ IsFiniteSet(DOMAIN fs.at)
    /\ \A i \in Ids : ~calls[i].finished => CallFits(calls[i])

LEMMA OneCallFits ==
  ASSUME PortalInv, AnswerInv, NEW i \in Ids, NEW e, calls' = [calls EXCEPT ![i] = e],
         e.finished \/ CallFits(e), UNCHANGED fs
  PROVE  AnswerInv'
<1>1. calls \in Seq(Calls)
  BY DEF PortalInv
<1>2. Ids' = Ids /\ \A j \in Ids : calls'[j] = IF j = i THEN e ELSE calls[j]
  BY <1>1 DEF Ids
<1>3. \A c : CallFits(c)' <=> CallFits(c)
  BY DEF CallFits, PickerFits
<1>. QED
  BY <1>2, <1>3 DEF AnswerInv

LEMMA CallFacts ==
  ASSUME PortalInv, AnswerInv, NEW i \in Ids, ~calls[i].finished
  PROVE  DOMAIN calls[i] = CallFields /\ CallFits(calls[i])
BY Shape DEF AnswerInv, Alive

LEMMA NewCallFits ==
  ASSUME PortalInv, AnswerInv, NEW h \in Handles, NEW o \in Offers, startRequest(h, o)
  PROVE  AnswerInv'
<1>1. calls \in Seq(Calls) /\ Len(calls) \in Nat /\ Ids = 1 .. Len(calls) /\ UNCHANGED fs
  BY Shape DEF PortalInv, startRequest
<1>2. ASSUME NEW e, calls' = Append(calls, e), e.finished \/ CallFits(e)
      PROVE  AnswerInv'
  <2>1. PICK T : T = Calls \cup {e}
    OBVIOUS
  <2>2. calls \in Seq(T) /\ e \in T
    BY <1>1, <2>1, SeqMonotonic
  <2>3. Ids' = Ids \cup {Len(calls) + 1} /\ calls'[Len(calls) + 1] = e /\ \A j \in Ids : calls'[j] = calls[j]
    BY <1>1, <1>2, <2>2 DEF Ids
  <2>4. \A c : CallFits(c)' <=> CallFits(c)
    BY <1>1 DEF CallFits, PickerFits
  <2>. QED
    BY <1>1, <1>2, <2>3, <2>4 DEF AnswerInv
<1>3. CASE RefusedCall
  <2>1. AnsweredAtOnce.finished = TRUE /\ calls' = Append(calls, AnsweredAtOnce)
    BY <1>3 DEF AnsweredAtOnce, RefusedCall
  <2>. QED
    BY <1>2, <2>1
<1>4. CASE Valid(fs, o) /\ StartedCall(h, o)
  <2>1. PICK e : e = NewCall(h, o)
    OBVIOUS
  <2>2. /\ e.request = Request(o) /\ e.options = o /\ e.phase = "starting"
        /\ e.accepted.chosen = FALSE /\ e.output = NoOutput
    BY <2>1 DEF NewCall, NotChosen
  <2>3. Sound(Request(o)) /\ Request(o).saveFileNames = o.files
    BY <1>4, RequestIsSound
  <2>4. CallFits(e)
    BY <2>2, <2>3 DEF CallFits
  <2>. QED
    BY <1>2, <1>4, <2>1, <2>4 DEF StartedCall
<1>. QED
  BY <1>3, <1>4 DEF startRequest

LEMMA CallStaysFit ==
  ASSUME PortalInv, AnswerInv, NEW i \in Ids,
         \/ FailedToStart(i) \/ Started(i) \/ WriteFailed(i) \/ Finished(i) \/ cancelFromPortal(i)
  PROVE  AnswerInv'
<1>1. ~calls[i].finished /\ UNCHANGED fs
  BY Shape DEF FailedToStart, Started, WriteFailed, Finished, cancelFromPortal
<1>2. DOMAIN calls[i] = CallFields /\ CallFits(calls[i])
  BY <1>1, CallFacts
<1>3. CASE Started(i)
  <2>1. calls[i].phase = "starting" /\ ~calls[i].accepted.chosen /\ Sound(calls[i].request)
    BY <1>2, <1>3 DEF Started, CallFits
  <2>2. CASE Configurable(fs, calls[i].request)
    <3>1. PICK e : e = [calls[i] EXCEPT !.phase = "open", !.picker = configure(calls[i].request)]
      OBVIOUS
    <3>2. /\ e.phase = "open" /\ e.picker = configure(calls[i].request) /\ e.request = calls[i].request
          /\ e.options = calls[i].options /\ e.accepted = calls[i].accepted /\ e.output = calls[i].output
      BY <1>2, <3>1 DEF CallFields
    <3>3. CallFits(e)
      BY <1>2, <2>1, <3>2, ConfigureFits DEF CallFits
    <3>4. calls' = [calls EXCEPT ![i] = e]
      BY <1>3, <2>2, <3>1 DEF Started
    <3>. QED
      BY <1>1, <3>3, <3>4, OneCallFits
  <2>3. CASE ~Configurable(fs, calls[i].request)
    <3>1. PICK e : e = [calls[i] EXCEPT !.phase = "ended", !.exit = "failure"]
      OBVIOUS
    <3>2. /\ e.phase = "ended" /\ e.request = calls[i].request
          /\ e.options = calls[i].options /\ e.accepted = calls[i].accepted /\ e.output = calls[i].output
      BY <1>2, <3>1 DEF CallFields
    <3>3. CallFits(e)
      BY <1>2, <2>1, <3>2 DEF CallFits
    <3>4. calls' = [calls EXCEPT ![i] = e]
      BY <1>3, <2>3, <3>1 DEF Started
    <3>. QED
      BY <1>1, <3>3, <3>4, OneCallFits
  <2>. QED
    BY <2>2, <2>3
<1>4. CASE FailedToStart(i) \/ WriteFailed(i) \/ Finished(i) \/ cancelFromPortal(i)
  <2>1. calls' = [calls EXCEPT ![i] = Answered(calls[i])]
    BY <1>1, <1>4 DEF FailedToStart, WriteFailed, Finished, cancelFromPortal, complete
  <2>2. Answered(calls[i]).finished
    BY DEF Answered
  <2>. QED
    BY <1>1, <2>1, <2>2, OneCallFits
<1>. QED
  BY <1>3, <1>4

LEMMA CloseFits == ASSUME PortalInv, AnswerInv, NEW h \in Handles, Close(h) PROVE AnswerInv'
<1>1. PICK i : i = registered[h]
  OBVIOUS
<1>2. i \in Ids /\ ~calls[i].finished
  BY <1>1, Shape DEF Close, PortalInv, EveryCallIsAnsweredOnce
<1>3. PICK e : e = [calls[i] EXCEPT !.closed = TRUE]
  OBVIOUS
<1>4. DOMAIN calls[i] = CallFields /\ CallFits(calls[i])
  BY <1>2, CallFacts
<1>5. \A x \in CallFields \ {"closed"} : e[x] = calls[i][x]
  BY <1>3, <1>4
<1>6. CallFits(e)
  <2>1. /\ e.request = calls[i].request /\ e.options = calls[i].options /\ e.phase = calls[i].phase
        /\ e.accepted = calls[i].accepted /\ e.output = calls[i].output /\ e.picker = calls[i].picker
        /\ e.exit = calls[i].exit /\ e.disturbed = calls[i].disturbed
    BY <1>5 DEF CallFields
  <2>. QED
    BY <1>4, <2>1 DEF CallFits
<1>7. calls' = [calls EXCEPT ![i] = e] /\ UNCHANGED fs
  BY <1>1, <1>3 DEF Close
<1>. QED
  BY <1>2, <1>6, <1>7, OneCallFits

LEMMA UseFits ==
  ASSUME PortalInv, AnswerInv, NEW i \in Ids, NEW p, Use(i, p), PickerFits(p, calls[i].request)
  PROVE  AnswerInv'
<1>1. ~calls[i].finished /\ calls[i].phase = "open"
  BY Shape DEF Use
<1>2. PICK e : e = [calls[i] EXCEPT !.picker = p]
  OBVIOUS
<1>3. DOMAIN calls[i] = CallFields /\ CallFits(calls[i])
  BY <1>1, CallFacts
<1>4. /\ e.request = calls[i].request /\ e.options = calls[i].options /\ e.phase = "open"
      /\ e.accepted = calls[i].accepted /\ e.output = calls[i].output /\ e.picker = p
  BY <1>1, <1>2, <1>3 DEF CallFields
<1>5. CallFits(e)
  BY <1>1, <1>3, <1>4 DEF CallFits
<1>6. calls' = [calls EXCEPT ![i] = e] /\ UNCHANGED fs
  BY <1>2 DEF Use
<1>. QED
  BY <1>5, <1>6, OneCallFits

(* What a fit picker writes passes the portal's second look at its filter   *)
(* and choices.                                                             *)
LEMMA SelectionsPass ==
  ASSUME NEW r, Sound(r), NEW p, PickerFits(p, r), NEW uris
  PROVE  validateStructuredSelections(r, resultObject(p, uris))
<1> DEFINE out == resultObject(p, uris)
<1>1. out.structured = TRUE /\ out.filter = p.filter /\ out.choices = p.choices
  BY DEF resultObject
<1> HIDE DEF out
<1>2. FilterOf(r, out) = (IF r.filters = <<>> THEN 0 ELSE p.filter) /\ ChoicesOf(r, out) = p.choices
  BY <1>1 DEF FilterOf, ChoicesOf
<1>3. FilterOf(r, out) \in (IF r.filters = <<>> THEN {0} ELSE DOMAIN r.filters)
  BY <1>2 DEF PickerFits
<1>4. r.filterLocked => FilterOf(r, out) = r.initialFilterIndex
  BY <1>2 DEF Sound, PickerFits
<1>5. /\ DOMAIN ChoicesOf(r, out) = {c.id : c \in ToSet(r.choices)}
      /\ \A c \in ToSet(r.choices) : ChoicesOf(r, out)[c.id] \in Values(c)
  BY <1>2 DEF PickerFits
<1>. QED
  BY <1>3, <1>4, <1>5 DEF validateStructuredSelections, out

LEMMA AcceptFits ==
  ASSUME PortalInv, AnswerInv, NEW i \in Ids, NEW uris, NEW confirmed, Accept(i, uris, confirmed),
         UsableCount(calls[i].request, Len(uris)),
         \A uri \in ToSet(uris) : UsableUri(fs, calls[i].request, uri)
  PROVE  AnswerInv'
<1>1. ~calls[i].finished /\ calls[i].phase = "open"
  BY Shape DEF Accept
<1>2. PICK x : x = [chosen |-> TRUE, uris |-> uris, confirmed |-> confirmed,
                    occupied |-> {p \in ToSet(uris) : Taken(p)}]
  OBVIOUS
<1>3. PICK e : e = [calls[i] EXCEPT !.phase = "ended", !.exit = "success",
                                    !.output = resultObject(Picker(i), uris), !.accepted = x]
  OBVIOUS
<1>4. DOMAIN calls[i] = CallFields /\ CallFits(calls[i])
  BY <1>1, CallFacts
<1>5. /\ e.request = calls[i].request /\ e.options = calls[i].options /\ e.phase = "ended"
      /\ e.accepted = x /\ e.output = resultObject(Picker(i), uris) /\ e.picker = calls[i].picker
      /\ e.exit = "success"
  BY <1>3, <1>4 DEF CallFields
<1>6. Sound(calls[i].request) /\ PickerFits(Picker(i), calls[i].request)
  BY <1>1, <1>4 DEF CallFits, Picker
<1>7. validateStructuredSelections(calls[i].request, e.output)
  BY <1>5, <1>6, SelectionsPass
<1>8. Picker(i).filters = calls[i].request.filters
  BY <1>6 DEF PickerFits
<1>9. x.uris = uris /\ x.chosen = TRUE
  BY <1>2
<1>10. CallFits(e)
  BY <1>4, <1>5, <1>7, <1>8, <1>9 DEF CallFits, Picker
<1>11. calls' = [calls EXCEPT ![i] = e] /\ UNCHANGED fs
  BY <1>2, <1>3 DEF Accept
<1>. QED
  BY <1>10, <1>11, OneCallFits

-----------------------------------------------------------------------------
(* What a picker accepts, the portal that looks again may return.           *)
LEMMA SelectionIsUsable ==
  ASSUME NEW r, Sound(r), NEW p, PickerFits(p, r), canAccept(fs, p)
  PROVE  /\ UsableCount(r, Len(acceptedPaths(p)))
         /\ \A uri \in ToSet(acceptedPaths(p)) : UsableUri(fs, r, uri)
<1> DEFINE uris == acceptedPaths(p)
<1>1. p.mode = r.mode /\ p.multiple = r.multiple /\ p.selected \in Seq(DOMAIN fs.at)
  BY DEF PickerFits
<1>2. Len(p.selected) \in Nat /\ ToSet(p.selected) \subseteq DOMAIN fs.at
  BY <1>1 DEF ToSet
<1>3. CASE p.mode = "open"
  <2>1. uris = p.selected /\ r.kind = "OpenFile" /\ r.mode = "open"
    BY <1>1, <1>3 DEF acceptedPaths, Sound
  <2>2. UsableCount(p, Len(p.selected)) /\ \A uri \in ToSet(p.selected) : IsFile(fs, uri)
    BY <1>3 DEF canAccept
  <2>3. UsableCount(r, Len(p.selected))
    BY <1>1, <2>2 DEF UsableCount
  <2>4. \A uri \in ToSet(p.selected) : UsableUri(fs, r, uri)
    BY <1>2, <2>1, <2>2 DEF UsableUri
  <2>. QED
    BY <2>1, <2>3, <2>4
<1>4. CASE p.mode = "folder" /\ p.multiple
  <2>1. uris = p.selected /\ r.kind = "OpenFile" /\ r.mode = "folder"
    BY <1>1, <1>4 DEF acceptedPaths, Sound
  <2>2. p.selected # <<>> /\ \A uri \in ToSet(p.selected) : IsFolder(fs, uri)
    BY <1>4 DEF canAccept
  <2>3. Len(p.selected) > 0
    BY <1>1, <2>2
  <2>4. UsableCount(r, Len(p.selected))
    BY <1>1, <1>4, <2>3 DEF UsableCount
  <2>5. \A uri \in ToSet(p.selected) : UsableUri(fs, r, uri)
    BY <2>1, <2>2 DEF UsableUri
  <2>. QED
    BY <2>1, <2>4, <2>5
<1>5. CASE p.mode = "folder" /\ ~p.multiple
  <2>1. uris = <<p.path>> /\ p.path \in fs.folders /\ r.kind # "SaveFile" /\ r.mode = "folder"
    BY <1>1, <1>5 DEF acceptedPaths, canAccept, Sound
  <2>2. Len(uris) = 1 /\ ToSet(uris) = {p.path}
    BY <2>1 DEF ToSet
  <2>3. UsableUri(fs, r, p.path)
    BY <2>1 DEF UsableUri, IsFolder
  <2> HIDE DEF uris
  <2>4. UsableCount(r, Len(uris))
    BY <2>2 DEF UsableCount
  <2>. QED
    BY <2>2, <2>3, <2>4 DEF uris
<1>. QED
  BY <1>3, <1>4, <1>5 DEF canAccept

LEMMA TargetIsUsable ==
  ASSUME NEW r, Sound(r), NEW p, PickerFits(p, r), p.mode = "save", SaveTargetIsValid(fs, p)
  PROVE  /\ UsableCount(r, Len(<<SaveTarget(p)>>))
         /\ \A uri \in ToSet(<<SaveTarget(p)>>) : UsableUri(fs, r, uri)
<1>1. r.kind = "SaveFile"
  BY DEF PickerFits, Sound
<1>2. SaveTarget(p)[1] \in fs.folders /\ ~IsFolder(fs, SaveTarget(p))
  BY DEF SaveTargetIsValid, SaveTarget
<1>3. UsableUri(fs, r, SaveTarget(p))
  BY <1>1, <1>2 DEF UsableUri
<1>4. Len(<<SaveTarget(p)>>) = 1 /\ ToSet(<<SaveTarget(p)>>) = {SaveTarget(p)}
  BY DEF ToSet
<1>. QED
  BY <1>3, <1>4 DEF UsableCount

LEMMA AcceptingFits ==
  ASSUME PortalInv, AnswerInv, NEW i \in Ids,
         AcceptSelection(i) \/ RequestSave(i) \/ ConfirmOverwrite(i)
  PROVE  AnswerInv'
<1>1. ~calls[i].finished /\ calls[i].phase = "open"
  BY Shape DEF AcceptSelection, RequestSave, ConfirmOverwrite
<1>2. PICK p : p = Picker(i)
  OBVIOUS
<1>3. PICK r : r = calls[i].request
  OBVIOUS
<1>4. Sound(r) /\ PickerFits(p, r)
  BY <1>1, <1>2, <1>3, CallFacts DEF CallFits, Picker
<1>5. CASE AcceptSelection(i)
  <2>1. canAccept(fs, p) /\ Accept(i, acceptedPaths(p), Unset)
    BY <1>2, <1>5 DEF AcceptSelection
  <2>. QED
    BY <1>3, <1>4, <2>1, SelectionIsUsable, AcceptFits
<1>6. CASE RequestSave(i)
  <2>1. CASE SaveAccepted(fs, p)
    <3>1. p.mode = "save" /\ SaveTargetIsValid(fs, p) /\ Accept(i, <<SaveTarget(p)>>, Unset)
      BY <1>2, <1>6, <2>1 DEF RequestSave, SaveAccepted
    <3>. QED
      BY <1>3, <1>4, <3>1, TargetIsUsable, AcceptFits
  <2>2. CASE ~SaveAccepted(fs, p)
    <3>1. Use(i, SaveRequested(fs, p))
      BY <1>2, <1>6, <2>2 DEF RequestSave
    <3>2. PickerFits(SaveRequested(fs, p), r)
      BY <1>4, PickerStaysFit
    <3>. QED
      BY <1>3, <3>1, <3>2, UseFits
  <2>. QED
    BY <2>1, <2>2
<1>7. CASE ConfirmOverwrite(i)
  <2>1. CASE OverwriteConfirmed(fs, p)
    <3>1. /\ p.mode = "save" /\ SaveTargetIsValid(fs, p)
          /\ Accept(i, <<SaveTarget(p)>>, p.pendingOverwritePath)
      BY <1>2, <1>7, <2>1 DEF ConfirmOverwrite, OverwriteConfirmed
    <3>. QED
      BY <1>3, <1>4, <3>1, TargetIsUsable, AcceptFits
  <2>2. CASE ~OverwriteConfirmed(fs, p)
    <3>1. Use(i, clearOverwriteConfirmation(p))
      BY <1>2, <1>7, <2>2 DEF ConfirmOverwrite
    <3>2. PickerFits(clearOverwriteConfirmation(p), r)
      BY <1>4, PickerStaysFit
    <3>. QED
      BY <1>3, <3>1, <3>2, UseFits
  <2>. QED
    BY <2>1, <2>2
<1>. QED
  BY <1>5, <1>6, <1>7

LEMMA ChooseFits == ASSUME PortalInv, AnswerInv, NEW i \in Ids, Choose(i) PROVE AnswerInv'
<1>1. ~calls[i].finished /\ calls[i].phase = "open"
  BY Shape DEF Choose
<1>2. PICK p : p = Picker(i)
  OBVIOUS
<1>3. PICK r : r = calls[i].request
  OBVIOUS
<1>4. Sound(r) /\ PickerFits(p, r)
  BY <1>1, <1>2, <1>3, CallFacts DEF CallFits, Picker
<1>5. CASE \E set \in SUBSET Listed(i) : Use(i, Selected(p, SetToSeq(set)))
  <2>1. PICK set \in SUBSET Listed(i) : Use(i, Selected(p, SetToSeq(set)))
    BY <1>5
  <2>2. set \in SUBSET DOMAIN fs.at /\ IsFiniteSet(DOMAIN fs.at)
    BY DEF Listed, AnswerInv
  <2>3. SetToSeq(set) \in Seq(DOMAIN fs.at)
    BY <2>2, SetAsSeq
  <2>4. PickerFits(Selected(p, SetToSeq(set)), r)
    BY <1>4, <2>3, PickerStaysFit
  <2>. QED
    BY <1>3, <2>1, <2>4, UseFits
<1>6. CASE \/ \E folder : Use(i, Navigated(p, folder))
           \/ \E name : Use(i, Named(p, name))
           \/ Use(i, clearOverwriteConfirmation(p))
           \/ \E k : FilterSelectable(p, k) /\ Use(i, FilterSelected(p, k))
           \/ \E c \in ToSet(r.choices) : Use(i, ChoiceSelected(p, c))
  <2>1. PICK q : Use(i, q) /\ \/ \E folder : q = Navigated(p, folder)
                              \/ \E name : q = Named(p, name)
                              \/ q = clearOverwriteConfirmation(p)
                              \/ \E k : FilterSelectable(p, k) /\ q = FilterSelected(p, k)
                              \/ \E c \in ToSet(r.choices) : q = ChoiceSelected(p, c)
    BY <1>6, Zenon
  <2>2. PickerFits(q, r)
    BY <1>4, <2>1, PickerStaysFit
  <2>. QED
    BY <1>3, <2>1, <2>2, UseFits
<1>. QED
  BY <1>2, <1>3, <1>5, <1>6 DEF Choose

LEMMA EndFits ==
  ASSUME PortalInv, AnswerInv, NEW i \in Ids, NEW exit, End(i, exit)
  PROVE  AnswerInv'
<1>1. ~calls[i].finished /\ calls[i].phase = "open"
  BY Shape DEF End
<1>2. PICK e : e = [calls[i] EXCEPT !.phase = "ended", !.exit = exit]
  OBVIOUS
<1>3. DOMAIN calls[i] = CallFields /\ CallFits(calls[i])
  BY <1>1, CallFacts
<1>4. /\ e.request = calls[i].request /\ e.options = calls[i].options /\ e.phase = "ended"
      /\ e.accepted = calls[i].accepted /\ e.output = calls[i].output
  BY <1>2, <1>3 DEF CallFields
<1>5. CallFits(e)
  BY <1>1, <1>3, <1>4 DEF CallFits
<1>6. calls' = [calls EXCEPT ![i] = e] /\ UNCHANGED fs
  BY <1>2 DEF End
<1>. QED
  BY <1>5, <1>6, OneCallFits

(* Another program disturbs every call whose picker has accepted.           *)
LEMMA ElsewhereFits == ASSUME PortalInv, AnswerInv, Elsewhere PROVE AnswerInv'
<1>1. DOMAIN fs' = {"folders", "at"} /\ DOMAIN fs'.at = DOMAIN fs.at
  <2>1. DOMAIN fs = {"folders", "at"}
    BY DEF AnswerInv
  <2>2. CASE \E p \in Contested : \E kind \in Kinds \ {fs.at[p]} : fs' = [fs EXCEPT !.at[p] = kind]
    BY <2>1, <2>2
  <2>3. CASE \E d \in fs.folders \ {Home} :
               fs' = [folders |-> fs.folders \ {d},
                      at |-> [p \in DOMAIN fs.at |-> IF p[1] = d THEN "none" ELSE fs.at[p]]]
    BY <2>3
  <2>. QED
    BY <2>2, <2>3 DEF Elsewhere
<1>2. \A p, r : PickerFits(p, r) => PickerFits(p, r)'
  BY <1>1 DEF PickerFits
<1>3. calls' = [i \in Ids |-> IF calls[i].finished \/ ~calls[i].accepted.chosen THEN calls[i]
                              ELSE [calls[i] EXCEPT !.disturbed = TRUE]]
  BY DEF Elsewhere
<1>4. Ids' = Ids
  BY <1>3 DEF Ids
<1>5. ASSUME NEW i \in Ids, NEW e, e = calls'[i], ~e.finished PROVE CallFits(e)'
  <2>1. CASE calls[i].finished \/ ~calls[i].accepted.chosen
    <3>1. e = calls[i] /\ ~calls[i].accepted.chosen
      BY <1>3, <1>5, <2>1
    <3>2. CallFits(e)
      BY <1>5, <3>1 DEF AnswerInv
    <3>. QED
      BY <1>2, <3>1, <3>2 DEF CallFits
  <2>2. CASE ~calls[i].finished /\ calls[i].accepted.chosen
    <3>1. e = [calls[i] EXCEPT !.disturbed = TRUE]
      BY <1>3, <1>5, <2>2
    <3>2. DOMAIN calls[i] = CallFields /\ CallFits(calls[i])
      BY <2>2, CallFacts
    <3>3. /\ e.request = calls[i].request /\ e.options = calls[i].options /\ e.phase = calls[i].phase
          /\ e.accepted = calls[i].accepted /\ e.output = calls[i].output
          /\ e.picker = calls[i].picker /\ e.exit = calls[i].exit /\ e.disturbed = TRUE
      BY <3>1, <3>2 DEF CallFields
    <3>. QED
      BY <1>2, <2>2, <3>2, <3>3 DEF CallFits
  <2>. QED
    BY <2>1, <2>2
<1>6. \A i \in Ids : ~calls'[i].finished => CallFits(calls[i])'
  BY <1>5
<1>. QED
  BY <1>1, <1>4, <1>6 DEF AnswerInv

LEMMA InitAnswer == Init => AnswerInv
BY LayoutsAssumption DEF Init, AnswerInv, Ids

LEMMA NextAnswer == PortalInv /\ AnswerInv /\ [Next]_vars => AnswerInv'
<1> SUFFICES ASSUME PortalInv, AnswerInv, [Next]_vars PROVE AnswerInv'
  OBVIOUS
<1>1. CASE \E h \in Handles, options \in Offers : startRequest(h, options)
  BY <1>1, NewCallFits
<1>2. CASE \E h \in Handles : Close(h)
  BY <1>2, CloseFits
<1>3. CASE \E i \in Ids : \/ FailedToStart(i) \/ Started(i) \/ WriteFailed(i) \/ Finished(i)
                          \/ cancelFromPortal(i)
  BY <1>3, CallStaysFit
<1>4. CASE \E i \in Ids : AcceptSelection(i) \/ RequestSave(i) \/ ConfirmOverwrite(i)
  BY <1>4, AcceptingFits
<1>5. CASE \E i \in Ids : Choose(i) \/ \E exit \in {"cancelled", "success", "failure"} : End(i, exit)
  BY <1>5, ChooseFits, EndFits
<1>6. CASE Elsewhere
  BY <1>6, ElsewhereFits
<1>7. CASE UNCHANGED vars
  <2>1. UNCHANGED fs /\ UNCHANGED calls
    BY <1>7 DEF vars
  <2>2. \A c : CallFits(c)' <=> CallFits(c)
    BY <2>1 DEF CallFits, PickerFits
  <2>. QED
    BY <2>1, <2>2 DEF AnswerInv, Ids
<1>. QED
  BY <1>1, <1>2, <1>3, <1>4, <1>5, <1>6, <1>7 DEF Next

-----------------------------------------------------------------------------
(* What is sent is sent by a call that is not answered yet.                 *)
LEMMA WhoReplies ==
  ASSUME PortalInv, [Next]_vars, NEW i \in Ids, reply' # reply, reply'.call = i
  PROVE  /\ ~calls[i].finished
         /\ \/ calls[i].phase = "starting" /\ reply' = Other(i)
            \/ calls[i].closed /\ reply' = Other(i)
            \/ calls[i].phase = "ended" /\ reply' = Response(i)
<1>1. CASE \E h \in Handles, options \in Offers : startRequest(h, options)
  <2>1. reply' = Other(Len(calls) + 1)
    BY <1>1 DEF startRequest, RefusedCall, StartedCall
  <2>2. i = Len(calls) + 1
    BY <2>1 DEF Other, Reply
  <2>. QED
    BY <2>2, Shape
<1>2. CASE \E k \in Ids : FailedToStart(k) \/ WriteFailed(k) \/ Finished(k) \/ cancelFromPortal(k)
  <2>1. PICK k \in Ids : FailedToStart(k) \/ WriteFailed(k) \/ Finished(k) \/ cancelFromPortal(k)
    BY <1>2
  <2>2. /\ ~calls[k].finished
        /\ \/ calls[k].phase = "starting" /\ reply' = Other(k)
           \/ calls[k].closed /\ reply' = Other(k)
           \/ calls[k].phase = "ended" /\ reply' = Response(k)
    BY <2>1 DEF FailedToStart, WriteFailed, Finished, cancelFromPortal, complete
  <2>3. Other(k).call = k /\ Response(k).call = k
    BY DEF Other, Reply, Response, Result
  <2>4. k = i
    BY <2>2, <2>3
  <2>. QED
    BY <2>2, <2>4
<1>3. CASE (\E h \in Handles : Close(h)) \/ Elsewhere \/ UNCHANGED vars
  BY <1>3 DEF Close, Elsewhere, vars
<1>4. CASE \E k \in Ids : \/ Started(k) \/ Choose(k)
                          \/ \E exit \in {"cancelled", "success", "failure"} : End(k, exit)
  BY <1>4 DEF Started, Choose, Use, End
<1>5. CASE \E k \in Ids : AcceptSelection(k) \/ RequestSave(k) \/ ConfirmOverwrite(k)
  BY <1>5 DEF AcceptSelection, RequestSave, ConfirmOverwrite, Accept, Use
<1>. QED
  BY <1>1, <1>2, <1>3, <1>4, <1>5 DEF Next

(* What a call reports of what its picker accepted.                         *)
LEMMA ResultIsTheChoice ==
  ASSUME AnswerInv, NEW i \in Ids, ~calls[i].finished, calls[i].phase = "ended",
         usable(fs, calls[i].request, calls[i].output)
  PROVE  LET c == calls[i]  p == c.picker
         IN  /\ c.accepted.chosen
             /\ IF c.request.kind = "SaveFiles"
                THEN /\ Len(Result(i).uris) = Len(c.options.files)
                     /\ \A k \in DOMAIN Result(i).uris : Result(i).uris[k][1] = c.accepted.uris[1]
                ELSE Result(i).uris = c.accepted.uris
             /\ Result(i).filter = (IF p.filters = <<>> THEN Unset ELSE p.filters[p.filter])
             /\ Result(i).choices = p.choices
<1>1. PICK c : c = calls[i]
  OBVIOUS
<1>2. PICK r : r = c.request
  OBVIOUS
<1>3. PICK out : out = c.output
  OBVIOUS
<1>4. CallFits(c) /\ c.phase = "ended" /\ Sound(r) /\ r.saveFileNames = c.options.files
  BY <1>1, <1>2 DEF AnswerInv, CallFits
<1>5. validateStructuredSelections(r, out) /\ UsableCount(r, Len(out.uris))
  BY <1>1, <1>2, <1>3 DEF usable
<1>6. c.accepted.chosen
  <2>1. Len(NoOutput.uris) = 0
    BY DEF NoOutput
  <2>2. ~UsableCount(r, 0)
    BY DEF UsableCount
  <2>3. out # NoOutput
    BY <1>5, <2>1, <2>2
  <2>. QED
    BY <1>3, <1>4, <2>3 DEF CallFits
<1>7. c.picker.filters = r.filters /\ out = resultObject(c.picker, c.accepted.uris)
  BY <1>2, <1>3, <1>4, <1>6 DEF CallFits
<1>8. /\ out.uris = c.accepted.uris /\ out.structured = TRUE
      /\ out.filter = c.picker.filter /\ out.choices = c.picker.choices
  BY <1>7 DEF resultObject
<1>9. /\ Result(i).uris = ResultUris(fs, r, out)
      /\ Result(i).filter = IF FilterOf(r, out) = 0 THEN Unset ELSE r.filters[FilterOf(r, out)]
      /\ Result(i).choices = ChoicesOf(r, out)
  BY <1>1, <1>2, <1>3 DEF Result
<1>10. Result(i).choices = c.picker.choices
  BY <1>8, <1>9 DEF ChoicesOf
<1>11. Result(i).filter = (IF r.filters = <<>> THEN Unset ELSE r.filters[c.picker.filter])
  <2>1. CASE r.filters = <<>>
    BY <1>9, <2>1 DEF FilterOf
  <2>2. CASE r.filters # <<>>
    <3>1. FilterOf(r, out) = c.picker.filter
      BY <1>8, <2>2 DEF FilterOf
    <3>2. FilterOf(r, out) # 0
      BY <1>4, <1>5, <2>2 DEF validateStructuredSelections, Sound
    <3>. QED
      BY <1>9, <2>2, <3>1, <3>2
  <2>. QED
    BY <2>1, <2>2
<1>12. CASE r.kind = "SaveFiles"
  <2>1. Result(i).uris = [k \in DOMAIN r.saveFileNames |-> <<out.uris[1], NamesFor(fs, r, out)[k]>>]
    BY <1>9, <1>12 DEF ResultUris
  <2>2. IsList(r.saveFileNames)
    BY <1>4, <1>12 DEF Sound
  <2>3. DOMAIN r.saveFileNames = 1 .. Len(r.saveFileNames) /\ Len(r.saveFileNames) \in Nat
    BY <2>2 DEF IsList
  <2>4. Len(Result(i).uris) = Len(r.saveFileNames)
    BY <2>1, <2>3
  <2>5. \A k \in DOMAIN Result(i).uris : Result(i).uris[k][1] = out.uris[1]
    BY <2>1
  <2>. QED
    BY <1>1, <1>2, <1>4, <1>6, <1>7, <1>8, <1>10, <1>11, <1>12, <2>4, <2>5
<1>13. CASE r.kind # "SaveFiles"
  <2>1. Result(i).uris = c.accepted.uris
    BY <1>8, <1>9, <1>13 DEF ResultUris
  <2>. QED
    BY <1>1, <1>2, <1>6, <1>7, <1>10, <1>11, <1>13, <2>1
<1>. QED
  BY <1>12, <1>13

LEMMA RepliesAreTrue ==
  ASSUME PortalInv, AnswerInv, [Next]_vars, NEW i \in Ids, reply' # reply, reply'.call = i
  PROVE  AnswerOf(calls[i], calls[i].picker)
<1>1. /\ ~calls[i].finished
      /\ \/ calls[i].phase = "starting" /\ reply' = Other(i)
         \/ calls[i].closed /\ reply' = Other(i)
         \/ calls[i].phase = "ended" /\ reply' = Response(i)
  BY WhoReplies
<1>2. CallFits(calls[i])
  BY <1>1 DEF AnswerInv
<1>3. Other(i).response = "other" /\ Reply(i, "cancelled").response = "cancelled"
  BY DEF Other, Reply
<1>4. CASE (calls[i].phase = "starting" \/ calls[i].closed) /\ reply' = Other(i)
  BY <1>2, <1>3, <1>4 DEF AnswerOf, CallFits
<1>5. CASE calls[i].phase = "ended" /\ reply' = Response(i)
  <2>1. calls[i].accepted.chosen => calls[i].exit = "success"
    BY <1>2, <1>5 DEF CallFits
  <2>2. CASE calls[i].exit = "cancelled"
    <3>1. reply' = Reply(i, "cancelled")
      BY <1>5, <2>2 DEF Response
    <3>. QED
      BY <1>3, <2>1, <2>2, <3>1 DEF AnswerOf
  <2>3. CASE calls[i].exit = "success" /\ usable(fs, calls[i].request, calls[i].output)
    <3>1. reply' = Result(i) /\ Result(i).response = "success"
      BY <1>5, <2>3 DEF Response, Result
    <3>. QED
      BY <1>1, <1>5, <2>3, <3>1, ResultIsTheChoice DEF AnswerOf
  <2>4. CASE calls[i].exit # "cancelled"
             /\ ~(calls[i].exit = "success" /\ usable(fs, calls[i].request, calls[i].output))
    <3>1. reply' = Other(i)
      BY <1>5, <2>4 DEF Response
    <3>2. calls[i].accepted.chosen /\ ~calls[i].disturbed =>
            /\ calls[i].request.kind = "SaveFiles"
            /\ Bad \in ToSet(NamesFor(fs, calls[i].request, calls[i].output))
      <4> SUFFICES ASSUME calls[i].accepted.chosen, ~calls[i].disturbed
                   PROVE  /\ calls[i].request.kind = "SaveFiles"
                          /\ Bad \in ToSet(NamesFor(fs, calls[i].request, calls[i].output))
        OBVIOUS
      <4>1. ~usable(fs, calls[i].request, calls[i].output)
        BY <2>1, <2>4
      <4>2. /\ calls[i].output.uris = calls[i].accepted.uris
            /\ validateStructuredSelections(calls[i].request, calls[i].output)
            /\ UsableCount(calls[i].request, Len(calls[i].accepted.uris))
            /\ \A uri \in ToSet(calls[i].accepted.uris) : UsableUri(fs, calls[i].request, uri)
        BY <1>2, <1>5 DEF CallFits, resultObject
      <4>. QED
        BY <4>1, <4>2 DEF usable
    <3>. QED
      BY <1>3, <3>1, <3>2 DEF AnswerOf
  <2>. QED
    BY <2>2, <2>3, <2>4
<1>. QED
  BY <1>1, <1>4, <1>5

LEMMA RepliesNameFreeFiles ==
  ASSUME PortalInv, AnswerInv, [Next]_vars, NEW i \in Ids, reply' # reply, reply'.call = i,
         reply'.response = "success", calls[i].request.kind = "SaveFiles"
  PROVE  IsInjective(reply'.uris) /\ \A p \in ToSet(reply'.uris) : ~Taken(p)
<1>1. PICK r : r = calls[i].request
  OBVIOUS
<1>2. PICK out : out = calls[i].output
  OBVIOUS
<1>3. ~calls[i].finished /\ (reply' = Other(i) \/ reply' = Response(i))
  BY WhoReplies
<1>4. reply' = Result(i) /\ usable(fs, r, out)
  BY <1>1, <1>2, <1>3 DEF Response, Other, Reply
<1>5. reply'.uris = [k \in DOMAIN r.saveFileNames |-> <<out.uris[1], NamesFor(fs, r, out)[k]>>]
  BY <1>1, <1>2, <1>4 DEF Result, ResultUris
<1>6. IsList(r.saveFileNames)
  BY <1>1, <1>3 DEF AnswerInv, CallFits, Sound
<1>7. Bad \notin ToSet(SaveFilesNames(fs, out.uris[1], r.saveFileNames))
  BY <1>1, <1>4 DEF usable, NamesFor
<1>8. /\ \A j, k \in DOMAIN r.saveFileNames : NamesFor(fs, r, out)[j] = NamesFor(fs, r, out)[k] => j = k
      /\ \A k \in DOMAIN r.saveFileNames : ~Occupied(fs, <<out.uris[1], NamesFor(fs, r, out)[k]>>)
  BY <1>6, <1>7, GivenNamesAreFree DEF NamesFor
<1>9. IsInjective(reply'.uris)
  BY <1>5, <1>8 DEF IsInjective
<1>10. ASSUME NEW p \in ToSet(reply'.uris) PROVE ~Taken(p)
  BY <1>5, <1>8 DEF ToSet, Taken
<1>. QED
  BY <1>9, <1>10

LEMMA AnswerInvariance == Spec => []AnswerInv
BY InitAnswer, NextAnswer, PortalInvariance, PTL DEF Spec

(* Whatever the caller asked for and the user did, the caller is told what  *)
(* the user chose: the paths the picker accepted, or the names asked for in *)
(* the folder it accepted, with the filter and the choices on the screen;   *)
(* and what the picker accepts is refused only if the caller closed the     *)
(* call, the files changed meanwhile, or the numbered names ran out         *)
(* (fromPickerStdout against PickerContract and PortalPickerContext).       *)
THEOREM CallersGetWhatWasChosen == Spec => TheCallerGetsWhatWasChosen
<1>1. PortalInv /\ AnswerInv /\ [Next]_vars =>
        [\A i \in Ids : reply' # reply /\ reply'.call = i => AnswerOf(calls[i], calls[i].picker)]_vars
  BY RepliesAreTrue
<1>. QED
  BY <1>1, PortalInvariance, AnswerInvariance, PTL DEF Spec, TheCallerGetsWhatWasChosen

(* However many names SaveFiles is asked for, none it returns exists when   *)
(* they are returned, and no two are the same (uniqueDestinationName, which *)
(* is told the names already reserved).                                     *)
THEOREM SavedNamesStayFree == Spec => SavedNamesAreFree
<1>1. PortalInv /\ AnswerInv /\ [Next]_vars =>
        [\A i \in Ids :
           (/\ reply' # reply /\ reply'.call = i /\ reply'.response = "success"
            /\ calls[i].request.kind = "SaveFiles")
              => IsInjective(reply'.uris) /\ \A p \in ToSet(reply'.uris) : ~Taken(p)]_vars
  BY RepliesNameFreeFiles
<1>. QED
  BY <1>1, PortalInvariance, AnswerInvariance, PTL DEF Spec, SavedNamesAreFree

-----------------------------------------------------------------------------
(* The routing of the portal's calls.                                       *)
(* Lines and their sections.                                                *)
LEMMA LineKinds ==
  /\ Preferred \in Lines /\ IsHeader(Preferred) /\ NoLine \notin Lines /\ Entries \subseteq Lines
  /\ \A line \in Lines : line.kind = "entry" <=> line \in Entries
  /\ \A line \in Entries : ~IsHeader(line) /\ line # Preferred /\ line # NoLine
BY DEF Lines, Entries, Preferred, Others, Entry, Line, IsHeader, NoLine

LEMMA Ryofiles ==
  /\ ~ContainsRyofiles(NoLine)
  /\ \A line \in Entries \cup {NoLine} :
       Managed(line) \in Entries /\ ContainsRyofiles(Managed(line))
<1>1. Range(<<>>) = {}
  BY DEF Range
<1>2. ~ContainsRyofiles(NoLine)
  BY <1>1 DEF ContainsRyofiles, NoLine, Line
<1>3. <<"ryofiles">> \o Gtk = Both /\ <<"ryofiles">> \o <<>> = <<"ryofiles">>
  <2> DEFINE one == <<"ryofiles">>
  <2>1. one \in Seq({"ryofiles", "gtk"}) /\ Gtk \in Seq({"ryofiles", "gtk"})
        /\ Both \in Seq({"ryofiles", "gtk"}) /\ Len(one) = 1 /\ Len(Gtk) = 1 /\ Len(Both) = 2
        /\ one[1] = "ryofiles" /\ Gtk[1] = "gtk" /\ Both[1] = "ryofiles" /\ Both[2] = "gtk"
    BY DEF Gtk, Both
  <2> HIDE DEF one
  <2>2. /\ one \o Gtk \in Seq({"ryofiles", "gtk"}) /\ Len(one \o Gtk) = 2
        /\ \A i \in 1 .. 2 : (one \o Gtk)[i] = IF i <= 1 THEN one[i] ELSE Gtk[i - 1]
    BY <2>1, ConcatProperties
  <2>3. \A i \in 1 .. 2 : (one \o Gtk)[i] = Both[i]
    BY <2>1, <2>2
  <2>4. one \o Gtk = Both
    BY <2>1, <2>2, <2>3, SeqEqual
  <2>5. one \o <<>> = one
    BY <2>1, ConcatEmptySeq
  <2>. QED
    BY <2>4, <2>5 DEF one
<1>4. "ryofiles" \in Range(Both) /\ "ryofiles" \in Range(<<"ryofiles">>)
  BY DEF Range, Both
<1>5. ASSUME NEW line
      PROVE  Managed(line) \in {Entry(TRUE, Both), Entry(TRUE, <<"ryofiles">>)}
  BY <1>3 DEF Managed
<1>6. ContainsRyofiles(Entry(TRUE, Both)) /\ ContainsRyofiles(Entry(TRUE, <<"ryofiles">>))
  BY <1>4 DEF ContainsRyofiles, Entry, Line
<1>. QED
  BY <1>2, <1>5, <1>6 DEF Entries

(* What ParsedOk counts.                                                    *)
LEMMA Parsed ==
  ASSUME NEW c \in Seq(Lines)
  PROVE  /\ IsFiniteSet(Headers(c)) /\ IsFiniteSet(Keys(c))
         /\ ParsedOk(c) <=> /\ \E h \in Headers(c) : Headers(c) = {h}
                            /\ \A i, j \in Keys(c) : i = j
<1>1. IsFiniteSet(1 .. Len(c)) /\ DOMAIN c = 1 .. Len(c)
  BY FS_Interval, LenProperties
<1>2. Headers(c) \in SUBSET (1 .. Len(c)) /\ Keys(c) \in SUBSET (1 .. Len(c))
  BY <1>1 DEF Headers, Keys
<1>3. IsFiniteSet(Headers(c)) /\ IsFiniteSet(Keys(c))
  BY <1>1, <1>2, FS_Subset
<1>4. Cardinality(Headers(c)) = 1 <=> \E h \in Headers(c) : Headers(c) = {h}
  <2>1. Cardinality(Headers(c)) = 1 <=> \E h : Headers(c) = {h}
    BY <1>3, FS_Singleton
  <2>. QED
    BY <2>1
<1>5. ASSUME \A i, j \in Keys(c) : i = j PROVE Cardinality(Keys(c)) <= 1
  <2>1. CASE Keys(c) = {}
    BY <2>1, FS_EmptySet
  <2>2. CASE Keys(c) # {}
    <3>1. PICK i \in Keys(c) : TRUE
      BY <2>2
    <3>2. Keys(c) = {i}
      BY <1>5, <3>1
    <3>3. Cardinality(Keys(c)) = 1
      BY <3>2, FS_Singleton
    <3>. QED
      BY <3>3
  <2>. QED
    BY <2>1, <2>2
<1>6. ASSUME Cardinality(Keys(c)) <= 1, NEW i \in Keys(c), NEW j \in Keys(c), i # j PROVE FALSE
  <2>1. PICK single : single = {i}
    OBVIOUS
  <2>2. PICK pair : pair = single \cup {j}
    OBVIOUS
  <2>3. pair \subseteq Keys(c) /\ j \notin single
    BY <1>6, <2>1, <2>2
  <2>4. Cardinality(pair) <= Cardinality(Keys(c))
    BY <1>3, <2>3, FS_Subset
  <2>5. Cardinality(single) = 1 /\ IsFiniteSet(single)
    BY <2>1, FS_Singleton
  <2>6. Cardinality(pair) = Cardinality(single) + 1
    BY <2>2, <2>3, <2>5, FS_AddElement
  <2>7. Cardinality(Keys(c)) \in Nat
    BY <1>3, FS_CardinalityType
  <2>. QED
    BY <1>6, <2>4, <2>5, <2>6, <2>7
<1>. QED
  BY <1>3, <1>4, <1>5, <1>6 DEF ParsedOk

(* The entry in force.                                                      *)
LEMMA KeyOf ==
  ASSUME NEW c \in Seq(Lines), ParsedOk(c)
  PROVE  /\ Keys(c) = {} => KeyLine(c) = NoLine
         /\ \A k \in Keys(c) : /\ Keys(c) = {k} /\ k \in 1 .. Len(c)
                               /\ (CHOOSE i \in Keys(c) : TRUE) = k
                               /\ KeyLine(c) = c[k] /\ c[k] \in Entries
<1>1. \A i, j \in Keys(c) : i = j
  BY Parsed
<1>2. ASSUME NEW k \in Keys(c)
      PROVE  /\ Keys(c) = {k} /\ k \in 1 .. Len(c)
             /\ (CHOOSE i \in Keys(c) : TRUE) = k
             /\ KeyLine(c) = c[k] /\ c[k] \in Entries
  <2>1. Keys(c) = {k} /\ (CHOOSE i \in Keys(c) : TRUE) \in Keys(c)
    BY <1>1
  <2>2. k \in DOMAIN c /\ c[k].kind = "entry" /\ c[k] \in Lines
    BY DEF Keys
  <2>. QED
    BY <2>1, <2>2, LineKinds DEF KeyLine
<1>. QED
  BY <1>2 DEF KeyLine

LEMMA EndOfSection ==
  ASSUME NEW c \in Seq(Lines), NEW h \in Headers(c), Headers(c) = {h}
  PROVE  /\ PreferredEnd(c) \in h + 1 .. Len(c) + 1
         /\ PreferredEnd(c) = Len(c) + 1 \/ IsHeader(c[PreferredEnd(c)])
         /\ \A k \in h + 1 .. PreferredEnd(c) - 1 : ~IsHeader(c[k])
<1>1. h \in 1 .. Len(c) /\ Len(c) \in Nat
  BY DEF Headers
<1>2. (CHOOSE i \in Headers(c) : TRUE) = h
  OBVIOUS
<1> DEFINE EndAt(e) == /\ e \in h + 1 .. Len(c) + 1
                       /\ e = Len(c) + 1 \/ IsHeader(c[e])
                       /\ \A k \in h + 1 .. e - 1 : ~IsHeader(c[k])
           S == {i \in h + 1 .. Len(c) : \A k \in h + 1 .. i : ~IsHeader(c[k])}
           m == Cardinality(S)
           e == h + 1 + m
<1>3. IsFiniteSet(S) /\ m \in Nat /\ m <= Len(c) - h
  <2>1. IsFiniteSet(h + 1 .. Len(c)) /\ Cardinality(h + 1 .. Len(c)) = Len(c) - h
    BY <1>1, FS_Interval
  <2>2. S \in SUBSET (h + 1 .. Len(c))
    OBVIOUS
  <2> HIDE DEF S
  <2>. QED
    BY ZenonT(40), <2>1, <2>2, FS_Subset, FS_CardinalityType
<1> HIDE DEF m
<1>4. ASSUME NEW x \in h + 1 .. e - 1 PROVE x \in S
  <2>1. SUFFICES ASSUME x \notin S PROVE FALSE
    OBVIOUS
  <2>2. x \in Int /\ x <= h + m /\ x >= h + 1
    BY <1>1, <1>3
  <2>3. S \in SUBSET (h + 1 .. x - 1)
    BY <1>1, <2>1, <2>2
  <2> HIDE DEF S
  <2>4. /\ IsFiniteSet(h + 1 .. x - 1)
        /\ Cardinality(h + 1 .. x - 1) = IF h + 1 > x - 1 THEN 0 ELSE x - 1 - (h + 1) + 1
    BY <1>1, <2>2, FS_Interval
  <2>5. Cardinality(S) <= Cardinality(h + 1 .. x - 1)
    BY <2>3, <2>4, FS_Subset
  <2>. QED
    BY <1>1, <1>3, <2>2, <2>4, <2>5 DEF m
<1>5. e \notin S
  <2>1. SUFFICES ASSUME e \in S PROVE FALSE
    OBVIOUS
  <2>2. e \in Int
    BY <1>1, <1>3
  <2>3. h + 1 .. e \in SUBSET S
    BY <1>1, <2>1, <2>2
  <2>4. Cardinality(h + 1 .. e) = e - h
    BY <1>1, <1>3, <2>2, FS_Interval
  <2> HIDE DEF S
  <2>5. Cardinality(h + 1 .. e) <= m
    BY <1>3, <2>3, FS_Subset DEF m
  <2>. QED
    BY <1>1, <1>3, <2>4, <2>5
<1>6. e \in h + 1 .. Len(c) + 1
  BY <1>1, <1>3
<1>7. \A k \in h + 1 .. e - 1 : ~IsHeader(c[k])
  BY <1>1, <1>3, <1>4
<1>8. e = Len(c) + 1 \/ IsHeader(c[e])
  <2> HIDE DEF e
  <2>. QED
    BY <1>1, <1>5, <1>6, <1>7
<1>9. EndAt(e)
  BY <1>6, <1>7, <1>8
<1>. QED
  BY <1>2, <1>6, <1>9 DEF PreferredEnd

(* Lines that are put in, taken out or replaced.                            *)
LEMMA Inserted ==
  ASSUME NEW S, NEW s \in Seq(S), NEW i \in 1 .. Len(s) + 1, NEW e \in S
  PROVE  /\ InsertAt(s, i, e) \in Seq(S) /\ Len(InsertAt(s, i, e)) = Len(s) + 1
         /\ \A j \in 1 .. Len(s) + 1 :
              InsertAt(s, i, e)[j] = IF j < i THEN s[j] ELSE IF j = i THEN e ELSE s[j - 1]
<1> DEFINE left == SubSeq(s, 1, i - 1)  right == SubSeq(s, i, Len(s))  one == <<e>>
<1>1. Len(s) \in Nat /\ \A j \in 1 .. Len(s) : s[j] \in S
  OBVIOUS
<1>2. left \in Seq(S) /\ Len(left) = i - 1 /\ \A j \in 1 .. i - 1 : left[j] = s[j]
  BY <1>1, SubSeqProperties
<1>3. /\ right \in Seq(S) /\ Len(right) = Len(s) - i + 1
      /\ \A j \in 1 .. Len(s) - i + 1 : right[j] = s[i + j - 1]
  BY <1>1, SubSeqProperties
<1>4. one \in Seq(S) /\ Len(one) = 1 /\ one[1] = e
  OBVIOUS
<1> HIDE DEF left, right, one
<1>51. /\ left \o one \in Seq(S) /\ Len(left \o one) = Len(left) + Len(one)
       /\ \A j \in 1 .. Len(left) + Len(one) :
            (left \o one)[j] = IF j <= Len(left) THEN left[j] ELSE one[j - Len(left)]
  BY <1>2, <1>4, ConcatProperties
<1>5. /\ left \o one \in Seq(S) /\ Len(left \o one) = i
      /\ \A j \in 1 .. i : (left \o one)[j] = IF j < i THEN s[j] ELSE e
  BY <1>1, <1>2, <1>4, <1>51
<1> DEFINE most == left \o one
<1>6. most \in Seq(S) /\ Len(most) = i
  BY <1>5
<1> HIDE DEF most
<1>7. /\ most \o right \in Seq(S) /\ Len(most \o right) = Len(most) + Len(right)
      /\ \A j \in 1 .. Len(most) + Len(right) :
           (most \o right)[j] = IF j <= Len(most) THEN most[j] ELSE right[j - Len(most)]
  BY <1>3, <1>6, ConcatProperties
<1>8. /\ Len(most \o right) = Len(s) + 1
      /\ \A j \in 1 .. Len(s) + 1 : (most \o right)[j] = IF j <= i THEN most[j] ELSE right[j - i]
  BY <1>1, <1>3, <1>6, <1>7
<1>9. \A j \in 1 .. i : most[j] = IF j < i THEN s[j] ELSE e
  BY <1>5 DEF most
<1>10. InsertAt(s, i, e) = most \o right
  BY DEF InsertAt, most, left, right, one
<1>11. \A j \in 1 .. Len(s) + 1 : j > i => right[j - i] = s[j - 1]
  BY <1>1, <1>3
<1>. QED
  BY <1>1, <1>7, <1>8, <1>9, <1>10, <1>11

LEMMA Removed ==
  ASSUME NEW S, NEW s \in Seq(S), NEW i \in 1 .. Len(s)
  PROVE  /\ RemoveAt(s, i) \in Seq(S) /\ Len(RemoveAt(s, i)) = Len(s) - 1
         /\ \A j \in 1 .. Len(s) - 1 : RemoveAt(s, i)[j] = IF j < i THEN s[j] ELSE s[j + 1]
<1> DEFINE left == SubSeq(s, 1, i - 1)  right == SubSeq(s, i + 1, Len(s))
<1>1. Len(s) \in Nat /\ \A j \in 1 .. Len(s) : s[j] \in S
  OBVIOUS
<1>2. left \in Seq(S) /\ Len(left) = i - 1 /\ \A j \in 1 .. i - 1 : left[j] = s[j]
  BY <1>1, SubSeqProperties
<1>3. /\ right \in Seq(S) /\ Len(right) = Len(s) - i
      /\ \A j \in 1 .. Len(s) - i : right[j] = s[i + j]
  BY <1>1, SubSeqProperties
<1> HIDE DEF left, right
<1>41. /\ left \o right \in Seq(S) /\ Len(left \o right) = Len(left) + Len(right)
       /\ \A j \in 1 .. Len(left) + Len(right) :
            (left \o right)[j] = IF j <= Len(left) THEN left[j] ELSE right[j - Len(left)]
  BY <1>2, <1>3, ConcatProperties
<1>4. /\ left \o right \in Seq(S) /\ Len(left \o right) = Len(s) - 1
      /\ \A j \in 1 .. Len(s) - 1 : (left \o right)[j] = IF j <= i - 1 THEN left[j] ELSE right[j - (i - 1)]
  BY <1>1, <1>2, <1>3, <1>41
<1>5. \A j \in 1 .. Len(s) - 1 : j >= i => right[j - (i - 1)] = s[j + 1]
  BY <1>1, <1>3
<1>6. RemoveAt(s, i) = left \o right
  BY DEF RemoveAt, left, right
<1>. QED
  BY <1>1, <1>2, <1>4, <1>5, <1>6

-----------------------------------------------------------------------------
(* The entry in force, after it was replaced, inserted or taken out.        *)
LEMMA OneSection ==
  ASSUME NEW c \in Seq(Lines), NEW h, Headers(c) = {h}, NEW i
  PROVE  InPreferred(c, i) <=> h < i /\ \A k \in h + 1 .. i : ~IsHeader(c[k])
BY DEF InPreferred

LEMMA Replaced ==
  ASSUME NEW c \in Seq(Lines), ParsedOk(c), NEW k \in Keys(c), NEW line \in Entries
  PROVE  LET d == [c EXCEPT ![k] = line]
         IN  d \in Seq(Lines) /\ ParsedOk(d) /\ Keys(d) = {k} /\ KeyLine(d) = line
<1> DEFINE d == [c EXCEPT ![k] = line]
<1>1. /\ k \in 1 .. Len(c) /\ Keys(c) = {k} /\ c[k] \in Entries /\ line \in Lines
  BY KeyOf, LineKinds
<1>2. /\ d \in Seq(Lines) /\ Len(d) = Len(c)
      /\ \A j \in 1 .. Len(c) : d[j] = IF j = k THEN line ELSE c[j]
  BY <1>1, ExceptSeq
<1> HIDE DEF d
<1>3. PICK h \in Headers(c) : Headers(c) = {h}
  BY Parsed
<1>4. DOMAIN c = 1 .. Len(c) /\ DOMAIN d = 1 .. Len(c)
  BY <1>2
<1>5. Headers(d) = {h}
  <2>1. \A j \in 1 .. Len(c) : d[j] = Preferred <=> c[j] = Preferred
    BY <1>1, <1>2, LineKinds
  <2>. QED
    BY <1>3, <1>4, <2>1 DEF Headers
<1>6. \A j \in 1 .. Len(c) : IsHeader(d[j]) = IsHeader(c[j]) /\ (d[j].kind = "entry" <=> c[j].kind = "entry")
  <2>1. \A j \in 1 .. Len(c) : j # k => d[j] = c[j]
    BY <1>2
  <2>2. d[k] = line /\ c[k].kind = "entry" /\ line.kind = "entry" /\ ~IsHeader(c[k]) /\ ~IsHeader(line)
    BY <1>1, <1>2, LineKinds
  <2>3. IsHeader(d[k]) = IsHeader(c[k])
    BY <2>2 DEF IsHeader
  <2>. QED
    BY <2>1, <2>2, <2>3
<1>7. h \in 1 .. Len(c)
  BY <1>3, <1>4 DEF Headers
<1>8. \A i \in 1 .. Len(c) : InPreferred(d, i) <=> InPreferred(c, i)
  <2>1. ASSUME NEW i \in 1 .. Len(c), NEW j \in h + 1 .. i PROVE j \in 1 .. Len(c)
    BY <1>7
  <2>. QED
    BY <1>2, <1>3, <1>5, <1>6, <2>1, OneSection
<1>9. Keys(d) = Keys(c)
  BY <1>4, <1>6, <1>8 DEF Keys
<1>10. ParsedOk(d)
  BY <1>1, <1>2, <1>5, <1>9, Parsed
<1>11. KeyLine(d) = line
  BY <1>1, <1>2, <1>9, <1>10, KeyOf
<1>. QED
  BY <1>1, <1>2, <1>9, <1>10, <1>11 DEF d

LEMMA Added ==
  ASSUME NEW c \in Seq(Lines), ParsedOk(c), Keys(c) = {}, NEW line \in Entries
  PROVE  LET d == InsertAt(c, PreferredEnd(c), line)
         IN  /\ d \in Seq(Lines) /\ ParsedOk(d) /\ Keys(d) = {PreferredEnd(c)} /\ KeyLine(d) = line
             /\ RemoveAt(d, PreferredEnd(c)) = c
<1> DEFINE e == PreferredEnd(c)  d == InsertAt(c, e, line)
<1>1. PICK h \in Headers(c) : Headers(c) = {h}
  BY Parsed
<1>2. /\ e \in h + 1 .. Len(c) + 1 /\ (e = Len(c) + 1 \/ IsHeader(c[e]))
      /\ \A k \in h + 1 .. e - 1 : ~IsHeader(c[k])
  BY <1>1, EndOfSection
<1> HIDE DEF e
<1>3. h \in 1 .. Len(c) /\ c[h] = Preferred /\ Len(c) \in Nat /\ DOMAIN c = 1 .. Len(c)
  BY <1>1 DEF Headers
<1>4. e \in 1 .. Len(c) + 1 /\ line \in Lines
  BY <1>2, <1>3, LineKinds
<1>5. /\ d \in Seq(Lines) /\ Len(d) = Len(c) + 1
      /\ \A j \in 1 .. Len(c) + 1 : d[j] = IF j < e THEN c[j] ELSE IF j = e THEN line ELSE c[j - 1]
  BY <1>4, Inserted
<1> HIDE DEF d
<1>6. DOMAIN d = 1 .. Len(c) + 1
  BY <1>5
<1>7. /\ d[e] = line /\ d[h] = Preferred /\ \A j \in 1 .. Len(c) : j < e => d[j] = c[j]
      /\ \A j \in 1 .. Len(c) + 1 : j > e => d[j] = c[j - 1]
  BY <1>2, <1>3, <1>4, <1>5
<1>8. Headers(d) = {h}
  <2>1. \A j \in 1 .. Len(c) : c[j] = Preferred => j = h
    BY <1>1, <1>3 DEF Headers
  <2>2. ASSUME NEW j \in 1 .. Len(c) + 1, d[j] = Preferred PROVE j = h
    <3>1. CASE j < e
      BY <1>4, <1>7, <2>1, <2>2, <3>1
    <3>2. CASE j = e
      BY <1>7, <2>2, <3>2, LineKinds
    <3>3. CASE j > e
      <4>1. c[j - 1] = Preferred /\ j - 1 \in 1 .. Len(c)
        BY <1>4, <1>7, <2>2, <3>3
      <4>2. j - 1 = h
        BY <2>1, <4>1
      <4>. QED
        BY <1>2, <1>3, <3>3, <4>2
    <3>. QED
      BY <1>4, <3>1, <3>2, <3>3
  <2>. QED
    BY <1>3, <1>6, <1>7, <2>2 DEF Headers
<1>9. InPreferred(d, e)
  <2>1. ASSUME NEW k \in h + 1 .. e PROVE ~IsHeader(d[k])
    <3>1. CASE k = e
      BY <1>7, <3>1, LineKinds
    <3>2. CASE k # e
      <4>1. k \in h + 1 .. e - 1 /\ k \in 1 .. Len(c) /\ k < e
        BY <1>2, <1>3, <1>4, <3>2
      <4>. QED
        BY <1>2, <1>7, <4>1
    <3>. QED
      BY <3>1, <3>2
  <2>2. h < e
    BY <1>2, <1>3
  <2>. QED
    BY <1>5, <1>8, <2>1, <2>2, OneSection
<1>10. ASSUME NEW i \in Keys(d), i # e PROVE FALSE
  <2>1. i \in 1 .. Len(c) + 1 /\ d[i].kind = "entry" /\ InPreferred(d, i)
    BY <1>6 DEF Keys
  <2>2. h < i /\ \A k \in h + 1 .. i : ~IsHeader(d[k])
    BY <1>5, <1>8, <2>1, OneSection
  <2>3. CASE i < e
    <3>1. ASSUME NEW k \in h + 1 .. i PROVE ~IsHeader(c[k])
      <4>1. k \in h + 1 .. i /\ k \in 1 .. Len(c) /\ k < e
        BY <1>2, <1>3, <2>1, <2>3
      <4>. QED
        BY <1>7, <2>2, <4>1
    <3>2. InPreferred(c, i)
      BY <1>1, <2>2, <3>1, OneSection
    <3>3. i \in 1 .. Len(c) /\ c[i].kind = "entry"
      BY <1>2, <1>4, <1>7, <2>1, <2>3
    <3>. QED
      BY <1>3, <3>2, <3>3 DEF Keys
  <2>4. CASE i > e
    <3>1. e + 1 \in h + 1 .. i /\ e + 1 \in 1 .. Len(c) + 1 /\ e + 1 > e /\ e # Len(c) + 1
      BY <1>2, <1>3, <1>4, <2>1, <2>4
    <3>2. d[e + 1] = c[e]
      BY <1>4, <1>7, <3>1
    <3>. QED
      BY <1>2, <2>2, <3>1, <3>2
  <2>. QED
    BY <1>4, <1>10, <2>1, <2>3, <2>4
<1>11. Keys(d) = {e}
  <2>1. e \in Keys(d)
    BY <1>4, <1>6, <1>7, <1>9, LineKinds DEF Keys
  <2>. QED
    BY <1>10, <2>1
<1>12. ParsedOk(d)
  BY <1>5, <1>8, <1>11, Parsed
<1>13. KeyLine(d) = line
  BY <1>5, <1>7, <1>11, <1>12, KeyOf
<1>14. RemoveAt(d, e) = c
  <2>1. e \in 1 .. Len(d) /\ Len(d) - 1 = Len(c)
    BY <1>3, <1>4, <1>5
  <2>2. /\ RemoveAt(d, e) \in Seq(Lines) /\ Len(RemoveAt(d, e)) = Len(c)
        /\ \A j \in 1 .. Len(c) : RemoveAt(d, e)[j] = IF j < e THEN d[j] ELSE d[j + 1]
    BY <1>5, <2>1, Removed
  <2>3. ASSUME NEW j \in 1 .. Len(c) PROVE (IF j < e THEN d[j] ELSE d[j + 1]) = c[j]
    BY <1>3, <1>4, <1>7
  <2>4. \A j \in 1 .. Len(c) : RemoveAt(d, e)[j] = c[j]
    BY <2>2, <2>3
  <2>. QED
    BY <2>2, <2>4, SeqEqual
<1>. QED
  BY <1>5, <1>11, <1>12, <1>13, <1>14 DEF d, e

LEMMA TakenOut ==
  ASSUME NEW c \in Seq(Lines), ParsedOk(c), NEW k \in Keys(c)
  PROVE  LET d == RemoveAt(c, k)
         IN  d \in Seq(Lines) /\ ParsedOk(d) /\ Keys(d) = {}
<1> DEFINE d == RemoveAt(c, k)
<1>1. /\ k \in 1 .. Len(c) /\ Keys(c) = {k} /\ c[k] \in Entries
  BY KeyOf
<1>2. /\ d \in Seq(Lines) /\ Len(d) = Len(c) - 1
      /\ \A j \in 1 .. Len(c) - 1 : d[j] = IF j < k THEN c[j] ELSE c[j + 1]
  BY <1>1, Removed
<1> HIDE DEF d
<1>3. PICK h \in Headers(c) : Headers(c) = {h}
  BY Parsed
<1>4. /\ DOMAIN c = 1 .. Len(c) /\ DOMAIN d = 1 .. Len(c) - 1 /\ Len(c) \in Nat
  BY <1>2
<1>5. /\ h \in 1 .. Len(c) /\ c[h] = Preferred /\ h < k /\ \A j \in h + 1 .. k : ~IsHeader(c[j])
  BY <1>3, <1>4, OneSection DEF Headers, Keys
<1>6. \A j \in 1 .. Len(c) : c[j] = Preferred => j = h
  BY <1>3, <1>4 DEF Headers
<1>7. Headers(d) = {h}
  <2>1. h \in DOMAIN d /\ d[h] = Preferred
    BY <1>1, <1>2, <1>4, <1>5
  <2>2. ASSUME NEW j \in 1 .. Len(c) - 1, d[j] = Preferred PROVE j = h
    <3>1. CASE j < k
      BY <1>2, <1>4, <1>6, <2>2, <3>1
    <3>2. CASE j >= k
      <4>1. c[j + 1] = Preferred /\ j + 1 \in 1 .. Len(c)
        BY <1>1, <1>2, <1>4, <2>2, <3>2
      <4>2. j + 1 = h
        BY <1>6, <4>1
      <4>. QED
        BY <1>1, <1>5, <3>2, <4>2
    <3>. QED
      BY <1>1, <3>1, <3>2
  <2>. QED
    BY <1>4, <2>1, <2>2 DEF Headers
<1>8. ASSUME NEW i \in Keys(d) PROVE FALSE
  <2>1. i \in 1 .. Len(c) - 1 /\ d[i].kind = "entry" /\ InPreferred(d, i)
    BY <1>4 DEF Keys
  <2>2. h < i /\ \A j \in h + 1 .. i : ~IsHeader(d[j])
    BY <1>2, <1>7, <2>1, OneSection
  <2>3. CASE i < k
    <3>1. \A j \in h + 1 .. i : ~IsHeader(c[j])
      BY <1>1, <1>5, <2>3
    <3>2. i \in Keys(c)
      <4>1. InPreferred(c, i)
        BY <1>3, <2>2, <3>1, OneSection
      <4>2. i \in 1 .. Len(c) /\ c[i].kind = "entry"
        BY <1>1, <1>2, <2>1, <2>3
      <4>. QED
        BY <1>4, <4>1, <4>2 DEF Keys
    <3>. QED
      BY <1>1, <2>3, <3>2
  <2>4. CASE i >= k
    <3>1. ASSUME NEW j \in h + 1 .. i + 1 PROVE ~IsHeader(c[j])
      <4>1. CASE j <= k
        BY <1>1, <1>5, <2>1, <4>1
      <4>2. CASE j > k
        <5>1. j - 1 \in h + 1 .. i /\ j - 1 \in 1 .. Len(c) - 1 /\ j - 1 >= k
          BY <1>1, <1>4, <1>5, <2>1, <4>2
        <5>2. d[j - 1] = c[j]
          BY <1>1, <1>2, <5>1
        <5>. QED
          BY <2>2, <5>1, <5>2
      <4>. QED
        BY <1>1, <4>1, <4>2
    <3>2. i + 1 \in Keys(c)
      <4>1. InPreferred(c, i + 1)
        <5>1. h < i + 1
          BY <1>5, <2>1, <2>2
        <5>. QED
          BY <1>3, <3>1, <5>1, OneSection
      <4>2. i + 1 \in 1 .. Len(c) /\ c[i + 1].kind = "entry"
        BY <1>1, <1>2, <1>4, <2>1, <2>4
      <4>. QED
        BY <1>4, <4>1, <4>2 DEF Keys
    <3>. QED
      BY <1>1, <2>1, <2>4, <3>2
  <2>. QED
    BY <1>1, <2>1, <2>3, <2>4
<1>9. Keys(d) = {}
  BY <1>8
<1>10. ParsedOk(d)
  BY <1>2, <1>7, <1>9, Parsed
<1>. QED
  BY <1>2, <1>9, <1>10 DEF d

LEMMA Keyed ==
  ASSUME NEW c \in Seq(Lines), ParsedOk(c), NEW line \in Entries
  PROVE  /\ WithKey(c, line) \in Seq(Lines) /\ ParsedOk(WithKey(c, line))
         /\ KeyLine(WithKey(c, line)) = line /\ Keys(WithKey(c, line)) # {}
<1>1. CASE Keys(c) = {}
  <2>1. PICK d : d = InsertAt(c, PreferredEnd(c), line)
    OBVIOUS
  <2>2. WithKey(c, line) = d
    BY <1>1, <2>1 DEF WithKey
  <2>3. d \in Seq(Lines) /\ ParsedOk(d) /\ Keys(d) = {PreferredEnd(c)} /\ KeyLine(d) = line
    BY <1>1, <2>1, Added
  <2>. QED
    BY <2>2, <2>3
<1>2. CASE Keys(c) # {}
  <2>1. PICK k \in Keys(c) : TRUE
    BY <1>2
  <2>2. WithKey(c, line) = [c EXCEPT ![k] = line]
    BY <1>2, KeyOf DEF WithKey
  <2> DEFINE d == [c EXCEPT ![k] = line]
  <2>3. d \in Seq(Lines) /\ ParsedOk(d) /\ Keys(d) = {k} /\ KeyLine(d) = line
    BY <2>1, Replaced
  <2> HIDE DEF d
  <2>. QED
    BY <2>2, <2>3 DEF d
<1>. QED
  BY <1>1, <1>2

LEMMA Unkeyed ==
  ASSUME NEW c \in Seq(Lines), ParsedOk(c), Keys(c) # {}
  PROVE  WithoutKey(c) \in Seq(Lines) /\ KeyLine(WithoutKey(c)) = NoLine
<1>1. PICK k \in Keys(c) : TRUE
  OBVIOUS
<1>2. WithoutKey(c) = RemoveAt(c, k)
  BY KeyOf DEF WithoutKey
<1>. QED
  BY <1>2, TakenOut DEF KeyLine

LEMMA Restoring ==
  ASSUME NEW c \in Seq(Lines), ParsedOk(c), NEW line \in Entries
  PROVE  /\ KeyLine(c) = NoLine => WithoutKey(WithKey(c, line)) = c
         /\ KeyLine(c) # NoLine => WithKey(WithKey(c, line), KeyLine(c)) = c
<1>1. CASE Keys(c) = {}
  <2> DEFINE d == InsertAt(c, PreferredEnd(c), line)
  <2>1. WithKey(c, line) = d
    BY <1>1 DEF WithKey
  <2>2. Keys(d) = {PreferredEnd(c)} /\ RemoveAt(d, PreferredEnd(c)) = c
    BY <1>1, Added
  <2> HIDE DEF d
  <2>3. (CHOOSE i \in Keys(d) : TRUE) = PreferredEnd(c)
    BY <2>2
  <2>. QED
    BY <1>1, <2>1, <2>2, <2>3 DEF WithoutKey, KeyLine
<1>2. CASE Keys(c) # {}
  <2>1. PICK k \in Keys(c) : TRUE
    BY <1>2
  <2>2. k \in 1 .. Len(c) /\ KeyLine(c) = c[k] /\ c[k] \in Entries
    BY <2>1, KeyOf
  <2>3. KeyLine(c) # NoLine
    BY <2>2, LineKinds
  <2> DEFINE d == [c EXCEPT ![k] = line]
  <2>4. WithKey(c, line) = d
    BY <1>2, KeyOf DEF WithKey
  <2>5. d \in Seq(Lines) /\ ParsedOk(d) /\ Keys(d) = {k}
    BY <2>1, Replaced
  <2>6. [d EXCEPT ![k] = c[k]] = c
    <3>1. c \in [1 .. Len(c) -> Lines]
      OBVIOUS
    <3>. QED
      BY <2>2, <3>1
  <2> HIDE DEF d
  <2>7. WithKey(d, c[k]) = [d EXCEPT ![k] = c[k]]
    BY <2>5 DEF WithKey
  <2>. QED
    BY <2>2, <2>3, <2>4, <2>6, <2>7
<1>. QED
  BY <1>1, <1>2

-----------------------------------------------------------------------------
(* What the commands may rely on at each step, and what is true of the two  *)
(* files between commands, whenever one is killed.                          *)
Unrouted == ParsedOk(config) /\ ~ContainsRyofiles(KeyLine(config))

Steady ==
  /\ pc \in {"dropState", "writeState", "writeConfig", "undoState", "forgetState"} => Unrouted
  /\ pc = "writeConfig" =>
       stored = [of |-> "this", original |-> KeyLine(config), managed |-> Managed(KeyLine(config))]
  /\ pc = "restoreConfig" => ParsedOk(config) /\ stored.of = "this" /\ IsManaged
  /\ pc = "finishState" => ~ContainsRyofiles(KeyLine(config)) /\ ~written
  /\ stored.of = "this" => ~ContainsRyofiles(stored.original)

RouteTypeOK == RoutingTypeOK /\ before \in Seq(Lines) /\ written \in BOOLEAN

RouteInv ==
  /\ RouteTypeOK /\ Steady
  /\ written => ParsedOk(before)
  /\ ManagedRouteCanBeRestored /\ ReportIsTrue

LEMMA KeyType == \A c \in Seq(Lines) : KeyLine(c) \in Entries \cup {NoLine}
<1> SUFFICES ASSUME NEW c \in Seq(Lines) PROVE KeyLine(c) \in Entries \cup {NoLine}
  OBVIOUS
<1>1. CASE Keys(c) = {}
  BY <1>1 DEF KeyLine
<1>2. CASE Keys(c) # {}
  <2>1. PICK k \in Keys(c) : KeyLine(c) = c[k]
    BY <1>2 DEF KeyLine
  <2>2. k \in 1 .. Len(c) /\ c[k].kind = "entry"
    BY DEF Keys
  <2>. QED
    BY <2>1, <2>2, LineKinds
<1>. QED
  BY <1>1, <1>2

LEMMA InitRouting == RoutingInit => RouteInv
<1> SUFFICES ASSUME RoutingInit PROVE RouteInv
  OBVIOUS
<1>1. config \in Seq(Lines)
  BY BoundsAssumption DEF RoutingInit, Configs
<1>2. /\ stored \in [of : {"none", "invalid", "other", "this"},
                     original : Entries \cup {NoLine}, managed : Entries \cup {NoLine}]
      /\ stored.of \in {"none", "invalid", "other"}
  BY DEF RoutingInit, NoState
<1>3. 0 \in 0 .. MaxEdits
  BY BoundsAssumption
<1>. QED
  BY <1>1, <1>2, <1>3 DEF RoutingInit, RouteInv, RouteTypeOK, RoutingTypeOK, Steps, Steady,
     ManagedRouteCanBeRestored, ReportIsTrue

(* A step that leaves both files as they are.                               *)
LEMMA SameFiles ==
  ASSUME RouteInv, UNCHANGED <<config, stored, before, written>>,
         RoutingTypeOK', Steady', ReportIsTrue'
  PROVE  RouteInv'
<1>1. ManagedRouteCanBeRestored'
  BY DEF RouteInv, ManagedRouteCanBeRestored
<1>. QED
  BY <1>1 DEF RouteInv, RouteTypeOK

LEMMA EnableKeeps ==
  ASSUME RouteInv, Enable \/ Disable
  PROVE  RouteInv'
<1>1. UNCHANGED <<config, stored, edits, before, written>> /\ pc = "idle"
  BY DEF Enable, Disable
<1>2. /\ pc' \in {"idle", "dropState", "writeState", "forgetState", "restoreConfig"}
      /\ report' \in {report, "enabled", "disabled", "failed"}
      /\ pc' \in {"dropState", "writeState", "forgetState"} => Unrouted
      /\ pc' = "restoreConfig" => ParsedOk(config) /\ stored.of = "this" /\ IsManaged
      /\ pc' = "idle" /\ report' = "enabled" => ContainsRyofiles(KeyLine(config))
      /\ pc' = "idle" /\ report' = "disabled" => ~ContainsRyofiles(KeyLine(config))
  BY <1>1 DEF Enable, Disable, Ends, Unrouted, IsManaged
<1>3. RoutingTypeOK' /\ ReportIsTrue'
  BY <1>1, <1>2 DEF RouteInv, RouteTypeOK, RoutingTypeOK, ReportIsTrue, Steps
<1>4. Steady'
  BY <1>1, <1>2 DEF RouteInv, Steady, Unrouted, IsManaged
<1>. QED
  BY <1>1, <1>3, <1>4, SameFiles

(* A step that may change the state file while Ryofiles has no route.       *)
LEMMA StateKeeps ==
  ASSUME RouteInv, ~written, UNCHANGED <<config, edits, before, written>>,
         stored' \in {stored, NoState}, pc' \in {"idle", "writeState"},
         pc' = "writeState" => Unrouted,
         report' = "failed" \/ (report' = "disabled" /\ ~ContainsRyofiles(KeyLine(config)))
           \/ (pc' = "writeState" /\ report' = report)
  PROVE  RouteInv'
<1>1. NoState \in [of : {"none", "invalid", "other", "this"},
                   original : Entries \cup {NoLine}, managed : Entries \cup {NoLine}]
      /\ NoState.of = "none"
  BY DEF NoState
<1>2. RouteTypeOK'
  BY <1>1 DEF RouteInv, RouteTypeOK, RoutingTypeOK, Steps
<1>3. Steady'
  BY <1>1 DEF RouteInv, Steady, Unrouted
<1>. QED
  BY <1>2, <1>3 DEF RouteInv, ManagedRouteCanBeRestored, ReportIsTrue

LEMMA UnroutedIsUnwritten ==
  ASSUME RouteInv, ~ContainsRyofiles(KeyLine(config))
  PROVE  ~written
BY DEF RouteInv, ManagedRouteCanBeRestored

LEMMA StateStepsKeep ==
  ASSUME RouteInv, DropState \/ UndoState \/ ForgetState \/ FinishState
  PROVE  RouteInv'
<1>1. ~ContainsRyofiles(KeyLine(config))
  BY DEF RouteInv, Steady, Unrouted, DropState, UndoState, ForgetState, FinishState
<1>2. ~written /\ UNCHANGED <<config, edits, before, written>> /\ stored' \in {stored, NoState}
  BY <1>1, UnroutedIsUnwritten DEF DropState, UndoState, ForgetState, FinishState
<1>3. pc' \in {"idle", "writeState"} /\ (pc' = "writeState" => Unrouted)
  BY DEF RouteInv, Steady, DropState, UndoState, ForgetState, FinishState, Ends
<1>4. \/ report' = "failed" \/ (report' = "disabled" /\ ~ContainsRyofiles(KeyLine(config)))
      \/ (pc' = "writeState" /\ report' = report)
  BY <1>1 DEF DropState, UndoState, ForgetState, FinishState, Ends
<1>. QED
  BY <1>2, <1>3, <1>4, StateKeeps

LEMMA WriteStateKeeps ==
  ASSUME RouteInv, WriteState
  PROVE  RouteInv'
<1>1. Unrouted /\ ~written /\ UNCHANGED <<config, edits, before, written>> /\ config \in Seq(Lines)
  BY UnroutedIsUnwritten DEF RouteInv, Steady, Unrouted, WriteState, RouteTypeOK, RoutingTypeOK
<1>2. CASE UNCHANGED stored /\ Ends("failed")
  BY <1>1, <1>2, StateKeeps DEF Ends
<1>3. CASE /\ stored' = [of |-> "this", original |-> KeyLine(config), managed |-> Managed(KeyLine(config))]
           /\ pc' = "writeConfig" /\ UNCHANGED report
  <2>1. KeyLine(config) \in Entries \cup {NoLine} /\ Managed(KeyLine(config)) \in Entries
    BY <1>1, KeyType, Ryofiles
  <2>2. RouteTypeOK'
    BY <1>1, <1>3, <2>1 DEF RouteInv, RouteTypeOK, RoutingTypeOK, Steps
  <2>3. stored'.of = "this" /\ stored'.original = KeyLine(config)
    BY <1>3
  <2>4. Steady'
    BY <1>1, <1>3, <2>3 DEF Steady, Unrouted
  <2>. QED
    BY <1>1, <1>3, <2>2, <2>4 DEF RouteInv, ManagedRouteCanBeRestored, ReportIsTrue
<1>. QED
  BY <1>2, <1>3 DEF WriteState

LEMMA WriteConfigKeeps ==
  ASSUME RouteInv, WriteConfig
  PROVE  RouteInv'
<1>1. /\ Unrouted /\ ~written /\ UNCHANGED <<stored, edits>> /\ config \in Seq(Lines)
      /\ stored = [of |-> "this", original |-> KeyLine(config), managed |-> Managed(KeyLine(config))]
  BY UnroutedIsUnwritten DEF RouteInv, Steady, Unrouted, WriteConfig, RouteTypeOK, RoutingTypeOK
<1>2. CASE pc' = "undoState" /\ UNCHANGED <<report, config, before, written>>
  <2>1. RouteTypeOK' /\ Steady' /\ ReportIsTrue'
    BY <1>1, <1>2 DEF RouteInv, RouteTypeOK, RoutingTypeOK, Steps, Steady, Unrouted, ReportIsTrue
  <2>. QED
    BY <1>1, <1>2, <2>1, SameFiles DEF RouteTypeOK
<1>3. CASE /\ config' = WithKey(config, Managed(KeyLine(config)))
           /\ before' = config /\ written' = TRUE /\ Ends("enabled")
  <2>1. Managed(KeyLine(config)) \in Entries /\ ContainsRyofiles(Managed(KeyLine(config)))
    BY <1>1, KeyType, Ryofiles
  <2>2. config' \in Seq(Lines) /\ ParsedOk(config') /\ KeyLine(config') = Managed(KeyLine(config))
    BY <1>1, <1>3, <2>1, Keyed DEF Unrouted
  <2>3. /\ stored.of = "this" /\ stored.original = KeyLine(config)
        /\ stored.managed = Managed(KeyLine(config)) /\ stored' = stored
    BY <1>1
  <2>4. RouteTypeOK'
    BY <1>1, <1>3, <2>2 DEF RouteInv, RouteTypeOK, RoutingTypeOK, Steps, Ends
  <2>5. Steady'
    BY <1>1, <1>3, <2>3 DEF Steady, Unrouted, Ends
  <2>6. ManagedRouteCanBeRestored' /\ ReportIsTrue'
    BY <1>3, <2>1, <2>2, <2>3 DEF ManagedRouteCanBeRestored, ReportIsTrue, Ends
  <2>. QED
    BY <1>1, <1>3, <2>4, <2>5, <2>6 DEF RouteInv, Unrouted
<1>. QED
  BY <1>2, <1>3 DEF WriteConfig

(* What disable puts back is a file without Ryofiles.                       *)
LEMMA Unrouting ==
  ASSUME RouteInv, pc = "restoreConfig",
         config' = IF stored.original = NoLine THEN WithoutKey(config)
                   ELSE WithKey(config, stored.original)
  PROVE  config' \in Seq(Lines) /\ ~ContainsRyofiles(KeyLine(config)')
<1>1. /\ config \in Seq(Lines) /\ ParsedOk(config) /\ ContainsRyofiles(KeyLine(config))
      /\ ~ContainsRyofiles(stored.original) /\ stored.original \in Entries \cup {NoLine}
  BY DEF RouteInv, RouteTypeOK, RoutingTypeOK, Steady, IsManaged
<1>2. Keys(config) # {}
  BY <1>1, Ryofiles DEF KeyLine
<1>3. CASE stored.original = NoLine
  BY <1>1, <1>2, <1>3, Unkeyed, Ryofiles
<1>4. CASE stored.original # NoLine
  BY <1>1, <1>4, Keyed
<1>. QED
  BY <1>3, <1>4

LEMMA RestoreConfigKeeps ==
  ASSUME RouteInv, RestoreConfig
  PROVE  RouteInv'
<1>1. pc = "restoreConfig" /\ UNCHANGED <<stored, edits, before>>
  BY DEF RestoreConfig
<1>2. CASE Ends("failed") /\ UNCHANGED <<config, written>>
  <2>1. RouteTypeOK' /\ Steady' /\ ReportIsTrue'
    BY <1>1, <1>2 DEF RouteInv, RouteTypeOK, RoutingTypeOK, Steps, Steady, ReportIsTrue, Ends
  <2>. QED
    BY <1>1, <1>2, <2>1, SameFiles DEF RouteTypeOK
<1>3. CASE /\ config' = IF stored.original = NoLine THEN WithoutKey(config)
                        ELSE WithKey(config, stored.original)
           /\ written' = FALSE /\ pc' = "finishState" /\ UNCHANGED report
  <2>1. config' \in Seq(Lines) /\ ~ContainsRyofiles(KeyLine(config)')
    BY <1>1, <1>3, Unrouting
  <2>2. RouteTypeOK' /\ Steady'
    BY <1>1, <1>3, <2>1 DEF RouteInv, RouteTypeOK, RoutingTypeOK, Steps, Steady
  <2>. QED
    BY <1>3, <2>2 DEF RouteInv, ManagedRouteCanBeRestored, ReportIsTrue
<1>. QED
  BY <1>2, <1>3 DEF RestoreConfig

LEMMA CrashKeepsRoute ==
  ASSUME RouteInv, Crash
  PROVE  RouteInv'
<1>1. UNCHANGED <<config, stored, edits, before, written>> /\ pc' = "idle" /\ report' = "none"
  BY DEF Crash
<1>2. RoutingTypeOK' /\ Steady' /\ ReportIsTrue'
  BY <1>1 DEF RouteInv, RouteTypeOK, RoutingTypeOK, Steps, Steady, ReportIsTrue
<1>. QED
  BY <1>1, <1>2, SameFiles

LEMMA EditKeeps ==
  ASSUME RouteInv, Edit
  PROVE  RouteInv'
<1>1. /\ pc = "idle" /\ pc' = "idle" /\ edits < MaxEdits /\ edits' = edits + 1
      /\ report' = "none" /\ UNCHANGED <<stored, before>> /\ config \in Seq(Lines)
      /\ written' = (written /\ ParsedOk(config') /\ KeyLine(config') = KeyLine(config))
  BY DEF Edit, RouteInv, RouteTypeOK, RoutingTypeOK
<1>2. config' \in Seq(Lines)
  <2>1. DOMAIN config = 1 .. Len(config) /\ Entries \subseteq Lines
    BY <1>1, LineKinds
  <2>2. ASSUME NEW i \in DOMAIN config, NEW e \in Entries PROVE [config EXCEPT ![i] = e] \in Seq(Lines)
    BY <1>1, <2>1, ExceptSeq
  <2>3. ASSUME NEW i \in 1 .. Len(config) + 1, NEW e \in Entries PROVE InsertAt(config, i, e) \in Seq(Lines)
    BY <1>1, <2>1, Inserted
  <2>4. ASSUME NEW i \in DOMAIN config PROVE RemoveAt(config, i) \in Seq(Lines)
    BY <1>1, <2>1, Removed
  <2>. QED
    BY <2>2, <2>3, <2>4 DEF Edit
<1>3. edits' \in 0 .. MaxEdits
  BY <1>1, BoundsAssumption DEF RouteInv, RouteTypeOK, RoutingTypeOK
<1>4. RouteTypeOK' /\ Steady'
  BY <1>1, <1>2, <1>3 DEF RouteInv, RouteTypeOK, RoutingTypeOK, Steps, Steady
<1>5. ManagedRouteCanBeRestored' /\ ReportIsTrue' /\ (written' => written)
  BY <1>1 DEF RouteInv, ManagedRouteCanBeRestored, ReportIsTrue
<1>. QED
  BY <1>1, <1>4, <1>5 DEF RouteInv

LEMMA NextRouting == RouteInv /\ [RoutingNext]_routingVars => RouteInv'
<1> SUFFICES ASSUME RouteInv, [RoutingNext]_routingVars PROVE RouteInv'
  OBVIOUS
<1>1. CASE UNCHANGED routingVars
  <2>1. RoutingTypeOK' /\ Steady' /\ ReportIsTrue'
    BY <1>1 DEF routingVars, RouteInv, RouteTypeOK, RoutingTypeOK, Steady, Unrouted, IsManaged, ReportIsTrue
  <2>. QED
    BY <1>1, <2>1, SameFiles DEF routingVars
<1>2. CASE RoutingNext
  BY <1>2, EnableKeeps, StateStepsKeep, WriteStateKeeps, WriteConfigKeeps, RestoreConfigKeeps,
     CrashKeepsRoute, EditKeeps DEF RoutingNext, Command
<1>. QED
  BY <1>1, <1>2

LEMMA RouteInvariance == RoutingSpec => []RouteInv
BY InitRouting, NextRouting, PTL DEF RoutingSpec

(* Wherever a command is killed or fails, and whatever others edit: an entry *)
(* that enable wrote, in a configuration of any length, is the one the state *)
(* file names, beside the line it replaced.                                  *)
THEOREM RouteIsRestorable == RoutingSpec => []ManagedRouteCanBeRestored
BY RouteInvariance, PTL DEF RouteInv

(* What enable and disable report of the routing is so until others edit it. *)
THEOREM ReportsAreTrue == RoutingSpec => []ReportIsTrue
BY RouteInvariance, PTL DEF RouteInv

(* disable undoes what enable did to a file others have left alone, line by  *)
(* line, whether the entry was there or had to be inserted.                  *)
THEOREM RestoringIsExact == RoutingSpec => RestoreIsExact
<1> DEFINE Exactly == /\ written /\ config = WithKey(before, stored.managed)
                      /\ pc = "restoreConfig" /\ pc' = "finishState"
                      => config' = before
<1>1. RouteInv /\ [RoutingNext]_routingVars => [Exactly]_routingVars
  <2> SUFFICES ASSUME RouteInv, RoutingNext, written, config = WithKey(before, stored.managed),
                      pc = "restoreConfig", pc' = "finishState"
               PROVE  config' = before
    OBVIOUS
  <2>1. RestoreConfig
    BY DEF RoutingNext, Command, Enable, Disable, DropState, WriteState, WriteConfig, UndoState,
           ForgetState, FinishState, Crash, Edit
  <2>2. config' = IF stored.original = NoLine THEN WithoutKey(config)
                  ELSE WithKey(config, stored.original)
    BY <2>1 DEF RestoreConfig, Ends
  <2>3. /\ before \in Seq(Lines) /\ ParsedOk(before) /\ stored.original = KeyLine(before)
        /\ stored.managed \in Entries \cup {NoLine} /\ ContainsRyofiles(stored.managed)
    BY DEF RouteInv, RouteTypeOK, RoutingTypeOK, ManagedRouteCanBeRestored
  <2>4. stored.managed \in Entries
    BY <2>3, Ryofiles
  <2>. QED
    BY <2>2, <2>3, <2>4, Restoring
<1> HIDE DEF Exactly
<1>2. RoutingSpec => [][Exactly]_routingVars
  BY <1>1, RouteInvariance, PTL DEF RoutingSpec
<1>. QED
  BY <1>2 DEF RestoreIsExact, Exactly
=============================================================================
