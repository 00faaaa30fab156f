-------------------------- MODULE BackgroundProofs --------------------------
(***************************************************************************)
(* Proofs about what the main window does beside its files.                *)
(*                                                                         *)
(* GitActionController, for any files and any number of requests: there is *)
(* never more than one Git process at work, the controller is busy exactly *)
(* while one is or its result waits, and the menu never waits for an       *)
(* action that will not answer.  The property is not inductive: nothing in *)
(* it says how many results may wait and of which request.  The argument   *)
(* is that a request is only started when its predecessor's result has     *)
(* been taken, so that at most one result waits, the last request's, and   *)
(* that its thread has ended.                                              *)
(*                                                                         *)
(* GitStatusController, for any folders, repositories and any number of    *)
(* refreshes: the status is the folder's, is no older than the last call   *)
(* for one, and is on its way while it is loading.  The argument is that   *)
(* whatever carries the generation of the controller is the folder's, was  *)
(* not cancelled, and read the repository after the last call for a        *)
(* refresh unless another refresh is about to start.                       *)
(*                                                                         *)
(* ThumbnailProvider, for any responses and any number of pool threads:    *)
(* every response finishes once and the queue never holds more than it     *)
(* may.  The argument is that a response is in the queue exactly while it  *)
(* waits for a thread, or is the one the reader is about to finish.        *)
(*                                                                         *)
(* DeepSearchModel, for any tree, any queries and limits and any number of *)
(* searches: the rows belong to the search on the screen, are all its      *)
(* matches when it has come to its end, and a search that is shown as      *)
(* running will end.  The argument is that what has been gathered - the    *)
(* rows, the batches that wait, the thread's own - are the matches among   *)
(* the entries the thread has visited, that every folder it has entered    *)
(* has its entries visited or about to be, and that a set of entries so    *)
(* closed is everything below the root.                                    *)
(***************************************************************************)
EXTENDS GitActionController, GitStatusController, ThumbnailProvider, DeepSearchModel,
        FiniteSetTheorems, SequenceTheorems, TLAPS

Texts   == [path : Files \cup {"none"}, staged : BOOLEAN]
Threads == [kind : {"stage", "unstage", "diff"}, file : Files, staged : BOOLEAN,
            token : BOOLEAN, hasHead : BOOLEAN, step : {"probe", "run", "ended"}]

ActionTypeOK ==
    /\ busy \in BOOLEAN /\ stopping \in BOOLEAN /\ commits \in BOOLEAN
    /\ generation \in Nat /\ operationId \in 0 .. generation
    /\ pendingGitOperation \in 0 .. generation
    /\ threads \in Seq(Threads) /\ Len(threads) = generation
    /\ posted \in Seq([generation : 1 .. generation, success : BOOLEAN])
    /\ diff \in [text : Texts, of : Texts]

(* At most one result waits; it is the last request's, whose thread is over. *)
OneResult ==
    /\ Len(posted) <= 1
    /\ Len(posted) = 1 => posted[1].generation = generation /\ Unfinished = {}

ActionInv == ActionTypeOK /\ OneResult /\ OneGitActionAtATime

-----------------------------------------------------------------------------
LEMMA NoResult ==
  ASSUME ActionInv
  PROVE  Len(posted) \in {0, 1} /\ (Len(posted) = 0 <=> posted = <<>>)
<1>1. posted \in Seq([generation : 1 .. generation, success : BOOLEAN])
  BY DEF ActionInv, ActionTypeOK
<1>2. Len(posted) \in Nat /\ Len(posted) <= 1
  BY <1>1, LenProperties DEF ActionInv, OneResult
<1>3. posted # <<>> => Len(posted) # 0
  BY <1>1, EmptySeq
<1>4. posted = <<>> => Len(posted) = 0
  OBVIOUS
<1>5. Len(posted) \in {0, 1}
  <2>1. PICK n \in Nat : n = Len(posted)
    BY <1>2
  <2>2. n = 0 \/ n = 1
    BY <1>2, <2>1
  <2>. QED
    BY <2>1, <2>2
<1>. QED
  BY <1>3, <1>4, <1>5

LEMMA OutcomeType ==
  ASSUME NEW t, NEW o \in Outcomes(t) PROVE o \in [worked : BOOLEAN, success : BOOLEAN]
<1>1. /\ [worked |-> TRUE, success |-> TRUE] \in [worked : BOOLEAN, success : BOOLEAN]
      /\ [worked |-> FALSE, success |-> FALSE] \in [worked : BOOLEAN, success : BOOLEAN]
      /\ [worked |-> TRUE, success |-> FALSE] \in [worked : BOOLEAN, success : BOOLEAN]
      /\ [worked |-> FALSE, success |-> TRUE] \in [worked : BOOLEAN, success : BOOLEAN]
  OBVIOUS
<1>. QED
  BY <1>1, Zenon DEF Outcomes

LEMMA InitAction == ActionInit => ActionInv
<1> SUFFICES ASSUME ActionInit PROVE ActionInv
  OBVIOUS
<1>1. ActionTypeOK
  <2>1. NoDiff \in Texts
    BY DEF Texts, NoDiff
  <2>2. 0 \in Nat /\ 0 \in 0 .. 0
    OBVIOUS
  <2>3. threads \in Seq(Threads) /\ Len(threads) = 0
    BY EmptySeq DEF ActionInit
  <2>4. posted \in Seq([generation : 1 .. generation, success : BOOLEAN])
    BY EmptySeq DEF ActionInit
  <2>. QED
    BY <2>1, <2>2, <2>3, <2>4 DEF ActionInit, ActionTypeOK
<1>2. Unfinished = {} /\ Len(posted) = 0
  BY DEF ActionInit, Unfinished
<1>. QED
  BY <1>1, <1>2 DEF ActionInit, ActionInv, OneResult, OneGitActionAtATime

(* What every request does: it finds the controller free, so no thread and  *)
(* no result is left, and becomes the only one.                             *)
LEMMA StartKeeps ==
  ASSUME ActionInv, NEW k \in {"stage", "unstage", "diff"}, NEW f \in Files, NEW s \in BOOLEAN,
         startRequest(k, f, s)
  PROVE  /\ ActionTypeOK /\ ActionTypeOK' => OneResult'
         /\ pendingGitOperation = 0
         /\ busy' = TRUE /\ generation' = generation + 1 /\ stopping' = FALSE
         /\ threads' \in Seq(Threads) /\ Len(threads') = generation' /\ threads'[generation'].kind = k
         /\ Unfinished' = {generation'}
         /\ posted' = posted /\ posted = <<>>
         /\ commits' = commits
         /\ diff' \in [text : Texts, of : Texts] /\ diff'.text \in {NoDiff, diff'.of}
<1> DEFINE t == [kind |-> k, file |-> f, staged |-> s, token |-> FALSE, hasHead |-> FALSE,
                 step |-> IF k = "unstage" THEN "probe" ELSE "run"]
<1>1. /\ ~stopping /\ ~busy /\ generation' = generation + 1 /\ busy' = TRUE /\ stopping' = FALSE
      /\ threads' = Append(threads, t) /\ posted' = posted /\ commits' = commits
  BY DEF startRequest, ActionInv, ActionTypeOK
<1>2. t \in Threads /\ t.step # "ended" /\ t.kind = k
  BY DEF Threads
<1>3. Unfinished = {} /\ pendingGitOperation = 0
  BY <1>1 DEF ActionInv, OneGitActionAtATime
<1>4. posted = <<>>
  <2>1. Len(posted) # 1
    BY <1>1 DEF ActionInv, ActionTypeOK, OneResult, OneGitActionAtATime
  <2>. QED
    BY <2>1, NoResult
<1>5. /\ threads' \in Seq(Threads) /\ Len(threads') = generation' /\ generation' \in Nat
      /\ threads'[generation'] = t
      /\ \A i \in 1 .. generation : threads'[i] = threads[i]
  <2> HIDE DEF t
  <2>. QED
    BY <1>1, <1>2 DEF ActionInv, ActionTypeOK
<1>6. Unfinished' = {generation'}
  <2>1. \A i \in 1 .. generation : threads[i].step = "ended"
    BY <1>3 DEF Unfinished, ActionInv, ActionTypeOK
  <2>2. DOMAIN threads' = 1 .. generation + 1
    BY <1>1, <1>5
  <2> HIDE DEF t
  <2>. QED
    BY <1>1, <1>2, <1>5, <2>1, <2>2 DEF Unfinished, ActionInv, ActionTypeOK
<1>7. diff' \in [text : Texts, of : Texts] /\ diff'.text \in {NoDiff, diff'.of}
  BY DEF startRequest, ActionInv, ActionTypeOK, OneGitActionAtATime, Texts, NoDiff
<1>8. OneResult'
  BY <1>1, <1>4 DEF OneResult
<1> HIDE DEF t
<1>. QED
  BY <1>1, <1>2, <1>3, <1>4, <1>5, <1>6, <1>7, <1>8

LEMMA RequestKeeps ==
  ASSUME ActionInv, NEW f \in Files,
         \/ \E k \in {"stage", "unstage"} : startMutation(k, f)
         \/ \E s \in BOOLEAN : requestDiff(f, s)
  PROVE  ActionInv'
<1>1. CASE \E k \in {"stage", "unstage"} : startMutation(k, f)
  <2>1. PICK k \in {"stage", "unstage"} : startMutation(k, f)
    BY <1>1
  <2>2. startRequest(k, f, FALSE) /\ pendingGitOperation' = generation + 1 /\ operationId' = operationId
    BY <2>1 DEF startMutation
  <2>3. /\ busy' = TRUE /\ generation' = generation + 1 /\ stopping' = FALSE /\ commits' = commits
        /\ threads' \in Seq(Threads) /\ Len(threads') = generation' /\ threads'[generation'].kind = k
        /\ Unfinished' = {generation'} /\ posted' = <<>>
        /\ diff' \in [text : Texts, of : Texts] /\ diff'.text \in {NoDiff, diff'.of}
    BY <2>2, StartKeeps
  <2>4. ActionTypeOK'
    <3>1. /\ generation' \in Nat
          /\ operationId' \in 0 .. generation' /\ pendingGitOperation' \in 0 .. generation'
      BY <2>2, <2>3 DEF ActionInv, ActionTypeOK
    <3>2. posted' \in Seq([generation : 1 .. generation', success : BOOLEAN])
      BY <2>3, EmptySeq
    <3>. QED
      BY <2>2, <2>3, <3>1, <3>2 DEF ActionInv, ActionTypeOK
  <2>5. OneResult'
    BY <2>3 DEF OneResult
  <2>. QED
    BY <2>2, <2>3, <2>4, <2>5 DEF ActionInv, OneGitActionAtATime
<1>2. CASE \E s \in BOOLEAN : requestDiff(f, s)
  <2>1. PICK s \in BOOLEAN : requestDiff(f, s)
    BY <1>2
  <2>2. /\ startRequest("diff", f, s) /\ operationId' = generation + 1
        /\ pendingGitOperation' = pendingGitOperation
    BY <2>1 DEF requestDiff
  <2>3. /\ busy' = TRUE /\ generation' = generation + 1 /\ stopping' = FALSE /\ commits' = commits
        /\ threads' \in Seq(Threads) /\ Len(threads') = generation'
        /\ Unfinished' = {generation'} /\ posted' = <<>> /\ pendingGitOperation = 0
        /\ diff' \in [text : Texts, of : Texts] /\ diff'.text \in {NoDiff, diff'.of}
    BY <2>2, StartKeeps
  <2>4. ActionTypeOK'
    <3>1. /\ generation' \in Nat
          /\ operationId' \in 0 .. generation' /\ pendingGitOperation' \in 0 .. generation'
      BY <2>2, <2>3 DEF ActionInv, ActionTypeOK
    <3>2. posted' \in Seq([generation : 1 .. generation', success : BOOLEAN])
      BY <2>3, EmptySeq
    <3>. QED
      BY <2>2, <2>3, <3>1, <3>2 DEF ActionInv, ActionTypeOK
  <2>5. OneResult'
    BY <2>3 DEF OneResult
  <2>. QED
    BY <2>2, <2>3, <2>4, <2>5 DEF ActionInv, OneGitActionAtATime
<1>. QED
  BY <1>1, <1>2

(* Setting a token changes neither which threads there are nor their steps. *)
LEMMA TokenKeeps ==
  ASSUME ActionInv, SetToken \/ threads' = threads
  PROVE  /\ threads' \in Seq(Threads) /\ Len(threads') = Len(threads)
         /\ \A i \in DOMAIN threads : /\ threads'[i].step = threads[i].step
                                      /\ threads'[i].kind = threads[i].kind
         /\ Unfinished' = Unfinished
<1>1. threads \in Seq(Threads) /\ generation \in Nat
  BY DEF ActionInv, ActionTypeOK
<1>2. \A t \in Threads : [t EXCEPT !.token = TRUE] \in Threads
  BY DEF Threads
<1>3. \A t \in Threads : [t EXCEPT !.token = TRUE].step = t.step /\ [t EXCEPT !.token = TRUE].kind = t.kind
  BY DEF Threads
<1>4. threads' = threads \/ threads' = [threads EXCEPT ![generation] = [@ EXCEPT !.token = TRUE]]
  BY DEF SetToken
<1>5. /\ threads' \in Seq(Threads) /\ Len(threads') = Len(threads)
      /\ \A i \in DOMAIN threads : /\ threads'[i].step = threads[i].step
                                   /\ threads'[i].kind = threads[i].kind
  <2>1. CASE generation \in 1 .. Len(threads)
    <3>1. PICK e : e = [threads[generation] EXCEPT !.token = TRUE]
      OBVIOUS
    <3>2. e \in Threads /\ e.step = threads[generation].step /\ e.kind = threads[generation].kind
      BY <1>1, <1>2, <1>3, <2>1, <3>1
    <3>3. threads' = threads \/ threads' = [threads EXCEPT ![generation] = e]
      BY <1>1, <1>4, <2>1, <3>1
    <3>. QED
      BY <1>1, <2>1, <3>2, <3>3
  <2>2. CASE generation \notin 1 .. Len(threads)
    <3>1. threads' = threads
      BY <1>1, <1>4, <2>2
    <3>. QED
      BY <1>1, <3>1
  <2>. QED
    BY <2>1, <2>2
<1>6. DOMAIN threads' = DOMAIN threads
  BY <1>1, <1>5
<1>. QED
  BY <1>5, <1>6 DEF Unfinished

LEMMA EndKeeps ==
  ASSUME ActionInv, closePanel \/ Destroy
  PROVE  ActionInv'
<1>1. /\ SetToken \/ threads' = threads
      /\ UNCHANGED <<busy, generation, posted, diff, pendingGitOperation, commits>>
      /\ operationId' \in {0, operationId}
      /\ stopping' \in BOOLEAN /\ (stopping => stopping')
  BY DEF closePanel, cancel, Destroy, ActionInv, ActionTypeOK
<1>2. /\ threads' \in Seq(Threads) /\ Len(threads') = Len(threads)
      /\ \A i \in DOMAIN threads : threads'[i].kind = threads[i].kind
      /\ Unfinished' = Unfinished
  BY <1>1, TokenKeeps
<1>3. ActionTypeOK'
  BY <1>1, <1>2 DEF ActionInv, ActionTypeOK
<1>4. OneResult'
  BY <1>1, <1>2 DEF ActionInv, OneResult
<1>5. pendingGitOperation # 0 => pendingGitOperation \in DOMAIN threads
  BY DEF ActionInv, ActionTypeOK
<1>. QED
  BY <1>1, <1>2, <1>3, <1>4, <1>5 DEF ActionInv, OneGitActionAtATime

LEMMA ThreadKeeps ==
  ASSUME ActionInv, NEW t \in DOMAIN threads, hasHead(t) \/ runRequest(t)
  PROVE  ActionInv'
<1>1. threads \in Seq(Threads) /\ Len(threads) = generation /\ generation \in Nat
  BY DEF ActionInv, ActionTypeOK
<1>2. t \in Unfinished /\ t = generation /\ posted = <<>>
  <2>1. t \in Unfinished
    BY DEF hasHead, runRequest, Unfinished
  <2>2. t = generation
    BY <2>1 DEF ActionInv, OneGitActionAtATime
  <2>3. Len(posted) # 1
    BY <2>1 DEF ActionInv, OneResult
  <2>. QED
    BY <2>1, <2>2, <2>3, NoResult
<1>3. UNCHANGED <<busy, generation, diff, stopping, pendingGitOperation, operationId, commits>>
  BY DEF hasHead, runRequest
<1>4. pendingGitOperation # 0 => pendingGitOperation \in DOMAIN threads
  BY DEF ActionInv, ActionTypeOK
<1>5. CASE hasHead(t)
  <2>1. PICK o \in Outcomes(t) :
          threads' = [threads EXCEPT ![t].step = "run", ![t].hasHead = o.success /\ commits]
    BY <1>5 DEF hasHead
  <2>2. o.success \in BOOLEAN
    BY <2>1, OutcomeType
  <2>3. \A x \in Threads, b \in BOOLEAN :
          /\ [x EXCEPT !.step = "run", !.hasHead = b] \in Threads
          /\ [x EXCEPT !.step = "run", !.hasHead = b].kind = x.kind
          /\ [x EXCEPT !.step = "run", !.hasHead = b].step # "ended"
    BY DEF Threads
  <2>4. PICK b \in BOOLEAN : b = (o.success /\ commits)
    OBVIOUS
  <2>5. PICK e : e = [threads[t] EXCEPT !.step = "run", !.hasHead = b]
    OBVIOUS
  <2>6. /\ threads' \in Seq(Threads) /\ Len(threads') = generation
        /\ \A i \in DOMAIN threads : threads'[i].kind = threads[i].kind
        /\ \A i \in DOMAIN threads : threads'[i].step = "ended" <=> threads[i].step = "ended"
    <3>1. e \in Threads /\ e.kind = threads[t].kind /\ e.step # "ended"
      <4>1. threads[t] \in Threads
        BY <1>1
      <4>. QED
        BY <2>3, <2>5, <4>1
    <3>2. threads' = [threads EXCEPT ![t] = e]
      BY <1>1, <2>1, <2>4, <2>5
    <3>3. threads[t].step # "ended"
      BY <1>5 DEF hasHead
    <3>. QED
      BY <1>1, <3>1, <3>2, <3>3
  <2>7. Unfinished' = Unfinished /\ posted' = posted
    <3>1. DOMAIN threads' = DOMAIN threads
      BY <1>1, <2>6
    <3>. QED
      BY <1>5, <2>6, <3>1 DEF Unfinished, hasHead
  <2>8. ActionTypeOK'
    BY <1>3, <2>6, <2>7 DEF ActionInv, ActionTypeOK
  <2>9. OneResult'
    BY <1>2, <2>7 DEF OneResult
  <2>. QED
    BY <1>3, <1>4, <2>6, <2>7, <2>8, <2>9 DEF ActionInv, OneGitActionAtATime
<1>6. CASE runRequest(t)
  <2>1. PICK o \in Outcomes(t) :
          posted' = IF stopping THEN posted
                    ELSE Append(posted, [generation |-> t, success |-> o.success])
    BY <1>6 DEF runRequest
  <2>2. threads' = [threads EXCEPT ![t] = [@ EXCEPT !.step = "ended"]]
    BY <1>6 DEF runRequest
  <2>3. \A x \in Threads : /\ [x EXCEPT !.step = "ended"] \in Threads
                           /\ [x EXCEPT !.step = "ended"].kind = x.kind
                           /\ [x EXCEPT !.step = "ended"].step = "ended"
    BY DEF Threads
  <2>4. /\ threads' \in Seq(Threads) /\ Len(threads') = generation
        /\ \A i \in DOMAIN threads : threads'[i].kind = threads[i].kind
        /\ \A i \in DOMAIN threads : i # t => threads'[i] = threads[i]
        /\ threads'[t].step = "ended"
    <3>1. PICK e : e = [threads[t] EXCEPT !.step = "ended"]
      OBVIOUS
    <3>2. e \in Threads /\ e.kind = threads[t].kind /\ e.step = "ended"
      BY <1>1, <2>3, <3>1
    <3>3. threads' = [threads EXCEPT ![t] = e]
      BY <1>1, <2>2, <3>1
    <3>. QED
      BY <1>1, <3>2, <3>3
  <2>5. Unfinished' = {}
    <3>1. DOMAIN threads' = DOMAIN threads
      BY <1>1, <2>4
    <3>2. \A i \in DOMAIN threads : i # t => threads[i].step = "ended"
      BY <1>2 DEF ActionInv, OneGitActionAtATime, Unfinished
    <3>. QED
      BY <2>4, <3>1, <3>2 DEF Unfinished
  <2>6. o.success \in BOOLEAN
    BY <2>1, OutcomeType
  <2>7. /\ posted' \in Seq([generation : 1 .. generation, success : BOOLEAN])
        /\ Len(posted') <= 1
        /\ stopping => posted' = <<>>
        /\ ~stopping => Len(posted') = 1
        /\ Len(posted') = 1 => posted'[1].generation = generation
    <3>1. [generation |-> t, success |-> o.success] \in [generation : 1 .. generation, success : BOOLEAN]
      BY <1>1, <1>2, <2>6
    <3>. QED
      <4>1. /\ Append(<<>>, [generation |-> t, success |-> o.success])
                 = <<[generation |-> t, success |-> o.success]>>
            /\ Len(<<[generation |-> t, success |-> o.success]>>) = 1
            /\ <<[generation |-> t, success |-> o.success]>>[1] = [generation |-> t, success |-> o.success]
        OBVIOUS
      <4>2. posted' = IF stopping THEN <<>> ELSE <<[generation |-> t, success |-> o.success]>>
        BY <1>2, <2>1, <4>1
      <4>3. PICK p : p = [generation |-> t, success |-> o.success]
        OBVIOUS
      <4>4. <<p>> \in Seq([generation : 1 .. generation, success : BOOLEAN])
        BY <3>1, <4>3
      <4>5. p.generation = generation
        BY <1>2, <4>3
      <4>6. <<>> \in Seq([generation : 1 .. generation, success : BOOLEAN])
            /\ Len(<<p>>) = 1 /\ <<p>>[1] = p /\ Len(<<>>) = 0
        BY EmptySeq
      <4>. QED
        <5>1. CASE stopping
          BY <4>2, <4>6, <5>1
        <5>2. CASE ~stopping
          <6>1. posted' = <<p>>
            BY <4>2, <4>3, <5>2
          <6>. QED
            BY <4>4, <4>5, <4>6, <5>2, <6>1
        <5>. QED
          BY <5>1, <5>2
  <2>8. ActionTypeOK'
    BY <1>3, <2>4, <2>7 DEF ActionInv, ActionTypeOK
  <2>9. OneResult'
    BY <1>3, <2>5, <2>7 DEF OneResult
  <2>10. ~stopping => busy
    BY <1>2 DEF ActionInv, OneGitActionAtATime
  <2>11. ~stopping => \E i \in DOMAIN posted' : posted'[i].generation = generation
    BY <2>7
  <2>. QED
    BY <1>3, <1>4, <2>4, <2>5, <2>8, <2>9, <2>10, <2>11 DEF ActionInv, OneGitActionAtATime
<1>. QED
  BY <1>5, <1>6

LEMMA ApplyKeeps == ASSUME ActionInv, Apply PROVE ActionInv'
<1>1. /\ ~stopping /\ posted # <<>> /\ posted' = Tail(posted)
      /\ UNCHANGED <<generation, threads, stopping, operationId, commits>>
  BY DEF Apply
<1>2. Len(posted) = 1 /\ posted[1].generation = generation /\ Unfinished = {}
  BY <1>1, NoResult DEF ActionInv, OneResult
<1>3. posted' = <<>> /\ Head(posted) = posted[1] /\ generation \in DOMAIN threads
      /\ posted[1] \in [generation : 1 .. generation, success : BOOLEAN]
  <2>1. /\ posted \in Seq([generation : 1 .. generation, success : BOOLEAN])
        /\ generation \in Nat /\ Len(threads) = generation /\ threads \in Seq(Threads)
    BY DEF ActionInv, ActionTypeOK
  <2>2. posted[1] \in [generation : 1 .. generation, success : BOOLEAN] /\ Head(posted) = posted[1]
    <3>1. 1 \in 1 .. Len(posted)
      BY <1>2
    <3>2. posted[1] \in [generation : 1 .. generation, success : BOOLEAN]
      BY <2>1, <3>1, ElementOfSeq
    <3>3. Head(posted) = posted[1]
      BY <1>1, <2>1
    <3>. QED
      BY <3>2, <3>3
  <2>3. Tail(posted) = <<>>
    <3>1. Tail(posted) = SubSeq(posted, 2, 1)
      BY <1>1, <1>2, <2>1, TailIsSubSeq
    <3>. QED
      BY <3>1, SubSeqEmpty
  <2>. QED
    BY <1>1, <1>2, <2>1, <2>2, <2>3
<1>4. Unfinished' = Unfinished
  BY <1>1 DEF Unfinished
<1>5. PICK x \in [generation : 1 .. generation, success : BOOLEAN] : x = Head(posted)
  BY <1>3
<1>6. applyResult(x) /\ x.generation = generation
  BY <1>2, <1>3, <1>5 DEF Apply
<1>7. ~busy'
  BY <1>6 DEF applyResult
<1>8. threads[generation] \in Threads
  BY <1>3 DEF ActionInv, ActionTypeOK
<1>9. diff' \in [text : Texts, of : Texts] /\ diff'.text \in {NoDiff, diff'.of}
  <2>1. [path |-> threads[generation].file, staged |-> threads[generation].staged] \in Texts
    BY <1>8 DEF Threads, Texts
  <2>. QED
    BY <1>6, <2>1 DEF applyResult, ActionInv, ActionTypeOK, OneGitActionAtATime
<1>10. pendingGitOperation' = 0
  <2>1. pendingGitOperation \in {0, generation}
    BY <1>1 DEF ActionInv, ActionTypeOK, OneGitActionAtATime
  <2>. QED
    BY <1>6, <2>1 DEF applyResult
<1>11. busy' \in BOOLEAN
  BY <1>6 DEF applyResult
<1>12. ActionTypeOK'
  BY <1>1, <1>3, <1>9, <1>10, <1>11 DEF ActionInv, ActionTypeOK
<1>13. OneResult'
  BY <1>3 DEF OneResult
<1>. QED
  BY <1>1, <1>2, <1>3, <1>4, <1>7, <1>9, <1>10, <1>12, <1>13 DEF ActionInv, OneGitActionAtATime

LEMMA NextAction == ActionInv /\ [ActionNext]_actionVars => ActionInv'
<1> SUFFICES ASSUME ActionInv, [ActionNext]_actionVars PROVE ActionInv'
  OBVIOUS
<1>1. CASE UNCHANGED actionVars
  BY <1>1 DEF actionVars, ActionInv, ActionTypeOK, OneResult, OneGitActionAtATime, Unfinished
<1>2. CASE ActionNext
  BY <1>2, RequestKeeps, EndKeeps, ThreadKeeps, ApplyKeeps DEF ActionNext
<1>. QED
  BY <1>1, <1>2

(* m_busy, m_future and cancel: at any time there is at most one Git         *)
(* process, which is the one the destructor waits for; while it goes on or   *)
(* its result waits, and only then, the controller is busy; the menu waits   *)
(* for nothing else; and a diff on the screen is of the file it names.       *)
THEOREM GitActionsAreOneAtATime == ActionSpec => []OneGitActionAtATime
<1>1. ActionInv => OneGitActionAtATime
  BY DEF ActionInv
<1>. QED
  BY <1>1, InitAction, NextAction, PTL DEF ActionSpec

-----------------------------------------------------------------------------
(* The status of the folder on the screen.                                  *)
Places   == Folders \cup {NoFolder}
Statuses == [of : Places, version : Nat, failed : BOOLEAN, broken : BOOLEAN]
Refreshes == [step : {"start", "read", "done"}, token : BOOLEAN, path : Places,
              generation : Nat, version : Nat]
Results  == [generation : Nat, of : Places, version : Nat, failed : BOOLEAN, broken : BOOLEAN]

StatusTypeOK ==
    /\ path \in Places /\ shown \in Statuses /\ refreshing \in BOOLEAN
    /\ statusGeneration \in Nat /\ debounce \in BOOLEAN
    /\ refreshes \in Seq(Refreshes) /\ results \in Seq(Results)
    /\ version \in [Repositories -> Nat] /\ due \in Nat

(* The refresh under way is the folder's, was not cancelled, and is one for *)
(* the last call or another is about to start.                              *)
Current(t) == t.generation = statusGeneration /\ t.step # "done"

RefreshIsDue ==
    /\ \A i \in DOMAIN refreshes :
         /\ refreshes[i].generation <= statusGeneration
         /\ Current(refreshes[i]) =>
              /\ refreshes[i].path = path /\ ~refreshes[i].token
              /\ refreshes[i].step = "read" => debounce \/ refreshes[i].version >= due
    /\ \A i \in DOMAIN results :
         /\ results[i].generation <= statusGeneration
         /\ results[i].generation = statusGeneration =>
              results[i].of = path /\ (debounce \/ results[i].failed \/ results[i].version >= due)
    /\ due <= VersionAt(path)

Awaited ==
    refreshing => \/ \E t \in DOMAIN refreshes : Current(refreshes[t])
                  \/ \E i \in DOMAIN results : results[i].generation = statusGeneration

StatusInv == StatusTypeOK /\ RefreshIsDue /\ Awaited /\ StatusIsOfTheFolder

LEMMA Versions ==
  ASSUME StatusTypeOK
  PROVE  \A folder \in Places : VersionAt(folder) \in Nat
BY StatusAssumption DEF StatusTypeOK, VersionAt, RepositoryAt, Places

LEMMA Rows ==
  /\ \A s \in Seq(Refreshes) : \A i \in DOMAIN s :
       s[i] \in Refreshes /\ s[i].generation \in Nat /\ s[i].version \in Nat
  /\ \A s \in Seq(Results) : \A i \in DOMAIN s :
       s[i] \in Results /\ s[i].generation \in Nat /\ s[i].version \in Nat
<1>1. /\ \A s \in Seq(Refreshes) : \A i \in DOMAIN s : s[i] \in Refreshes
      /\ \A s \in Seq(Results) : \A i \in DOMAIN s : s[i] \in Results
  BY ElementOfSeq, LenProperties
<1>. QED
  BY <1>1 DEF Refreshes, Results

LEMMA NoneShown == NoStatus \in Statuses /\ NoStatus.of = NoFolder
BY DEF NoStatus, Statuses, Places

LEMMA StatusInitially == StatusInit => StatusInv
<1> SUFFICES ASSUME StatusInit PROVE StatusInv
  OBVIOUS
<1>1. StatusTypeOK
  <2>1. <<>> \in Seq(Refreshes) /\ <<>> \in Seq(Results)
    OBVIOUS
  <2>2. [r \in Repositories |-> 0] \in [Repositories -> Nat]
    OBVIOUS
  <2>. QED
    BY <2>1, <2>2, NoneShown DEF StatusInit, StatusTypeOK, Places
<1>2. refreshes = <<>> /\ results = <<>> /\ DOMAIN refreshes = {} /\ DOMAIN results = {}
  BY DEF StatusInit
<1>3. VersionAt(path) \in Nat /\ due = 0
  BY <1>1, Versions DEF StatusInit, StatusTypeOK
<1>. QED
  BY <1>1, <1>2, <1>3 DEF StatusInv, RefreshIsDue, Awaited, StatusIsOfTheFolder, StatusInit, Settled

(* The threads, with their tokens set, of refreshes that are not the newest. *)
LEMMA Cancelled ==
  ASSUME StatusTypeOK
  PROVE  /\ TokensSet \in Seq(Refreshes) /\ Len(TokensSet) = Len(refreshes)
         /\ \A i \in DOMAIN refreshes : /\ TokensSet[i].generation = refreshes[i].generation
                                        /\ TokensSet[i].step = refreshes[i].step
<1>1. refreshes \in [1 .. Len(refreshes) -> Refreshes] /\ Len(refreshes) \in Nat
  BY DEF StatusTypeOK
<1>2. ASSUME NEW i \in 1 .. Len(refreshes)
      PROVE  /\ [refreshes[i] EXCEPT !.token = TRUE] \in Refreshes
             /\ [refreshes[i] EXCEPT !.token = TRUE].generation = refreshes[i].generation
             /\ [refreshes[i] EXCEPT !.token = TRUE].step = refreshes[i].step
  BY <1>1 DEF Refreshes
<1>3. TokensSet \in [1 .. Len(refreshes) -> Refreshes]
  BY <1>1, <1>2 DEF TokensSet
<1>4. TokensSet \in Seq(Refreshes) /\ Len(TokensSet) = Len(refreshes)
  BY <1>1, <1>3
<1>. QED
  BY <1>1, <1>2, <1>4 DEF TokensSet

LEMMA setPathKeeps ==
  ASSUME StatusInv, NEW folder \in Places, setPath(folder)
  PROVE  StatusInv'
<1>1. /\ StatusTypeOK /\ path' = folder /\ statusGeneration' = statusGeneration + 1
      /\ refreshes' = TokensSet /\ shown' = NoStatus /\ refreshing' = FALSE
      /\ debounce' = (folder # NoFolder) /\ due' = VersionAt(folder)
      /\ UNCHANGED <<results, version>>
  BY DEF StatusInv, setPath
<1>2. due' \in Nat /\ due' = VersionAt(path)'
  BY <1>1, Versions DEF VersionAt
<1>3. /\ refreshes' \in Seq(Refreshes) /\ DOMAIN refreshes' = DOMAIN refreshes
      /\ \A i \in DOMAIN refreshes : refreshes'[i].generation = refreshes[i].generation
  BY <1>1, Cancelled DEF StatusTypeOK
<1>4. StatusTypeOK'
  <2>1. path' \in Places /\ shown' \in Statuses /\ refreshing' \in BOOLEAN /\ debounce' \in BOOLEAN
    BY <1>1, NoneShown
  <2>2. statusGeneration' \in Nat /\ refreshes' \in Seq(Refreshes) /\ results' \in Seq(Results)
    BY <1>1, <1>3 DEF StatusTypeOK
  <2>3. version' \in [Repositories -> Nat] /\ due' \in Nat
    BY <1>1, <1>2 DEF StatusTypeOK
  <2>. QED
    BY <2>1, <2>2, <2>3 DEF StatusTypeOK
<1>5. /\ \A i \in DOMAIN refreshes' : refreshes'[i].generation < statusGeneration'
      /\ \A i \in DOMAIN results' : results'[i].generation < statusGeneration'
  <2>1. \A i \in DOMAIN refreshes : refreshes[i].generation \in Nat /\ refreshes[i].generation <= statusGeneration
    BY Rows DEF StatusInv, StatusTypeOK, RefreshIsDue
  <2>2. \A i \in DOMAIN results : results[i].generation \in Nat /\ results[i].generation <= statusGeneration
    BY Rows DEF StatusInv, StatusTypeOK, RefreshIsDue
  <2>. QED
    BY <1>1, <1>3, <2>1, <2>2 DEF StatusTypeOK
<1>6. RefreshIsDue'
  <2>1. /\ \A i \in DOMAIN refreshes' : refreshes'[i].generation \in Nat
        /\ \A i \in DOMAIN results' : results'[i].generation \in Nat
        /\ statusGeneration' \in Nat
    BY <1>4, Rows DEF StatusTypeOK
  <2>. QED
    BY <1>2, <1>5, <2>1 DEF RefreshIsDue, Current
<1>7. Awaited' /\ StatusIsOfTheFolder'
  BY <1>1, NoneShown DEF Awaited, StatusIsOfTheFolder, Settled
<1>. QED
  BY <1>4, <1>6, <1>7 DEF StatusInv

(* A call for a refresh, by the user or by the watcher.                     *)
LEMMA ScheduleKeeps ==
  ASSUME StatusInv, scheduleRefresh,
         UNCHANGED <<path, shown, refreshing, statusGeneration, refreshes, results, version>>
  PROVE  StatusInv'
<1>1. debounce' = TRUE /\ due' = VersionAt(path) /\ due' \in Nat
  BY Versions DEF scheduleRefresh, StatusInv, StatusTypeOK
<1>2. due' = VersionAt(path)'
  BY <1>1 DEF VersionAt
<1>3. StatusTypeOK'
  BY <1>1 DEF StatusInv, StatusTypeOK
<1>4. RefreshIsDue' /\ Awaited' /\ StatusIsOfTheFolder'
  BY <1>1, <1>2 DEF StatusInv, RefreshIsDue, Current, Awaited, StatusIsOfTheFolder, Settled
<1>. QED
  BY <1>3, <1>4 DEF StatusInv

LEMMA startRefreshKeeps ==
  ASSUME StatusInv, startRefresh
  PROVE  StatusInv'
<1> DEFINE new == [step |-> "start", token |-> FALSE, path |-> path,
                   generation |-> statusGeneration + 1, version |-> 0]
           n == Len(refreshes) + 1
<1>1. /\ StatusTypeOK /\ statusGeneration' = statusGeneration + 1 /\ debounce' = FALSE
      /\ refreshes' = Append(TokensSet, new) /\ refreshing' = TRUE
      /\ shown' = [shown EXCEPT !.failed = FALSE]
      /\ UNCHANGED <<path, results, version, due>>
  BY DEF StatusInv, startRefresh
<1>2. /\ new \in Refreshes /\ new.generation = statusGeneration' /\ new.step = "start"
      /\ new.path = path /\ new.token = FALSE
  BY <1>1 DEF Refreshes, StatusTypeOK
<1> HIDE DEF new
<1>3. /\ refreshes' \in Seq(Refreshes) /\ DOMAIN refreshes' = 1 .. n /\ n \in Nat
      /\ refreshes'[n] = new
      /\ \A i \in 1 .. n - 1 : i \in DOMAIN refreshes /\ refreshes'[i].generation = refreshes[i].generation
  BY <1>1, <1>2, Cancelled, AppendProperties DEF StatusTypeOK
<1>4. StatusTypeOK'
  <2>1. shown' \in Statuses
    BY <1>1 DEF StatusTypeOK, Statuses
  <2>2. statusGeneration' \in Nat
    BY <1>1 DEF StatusTypeOK
  <2>. QED
    BY <1>1, <1>3, <2>1, <2>2 DEF StatusTypeOK
<1>5. \A i \in 1 .. n - 1 : refreshes'[i].generation <= statusGeneration
  BY <1>3 DEF StatusInv, RefreshIsDue
<1>6. /\ \A i \in 1 .. n - 1 : refreshes'[i].generation < statusGeneration'
      /\ \A i \in DOMAIN results' : results'[i].generation < statusGeneration'
  <2>1. /\ \A i \in DOMAIN refreshes' : refreshes'[i].generation \in Nat
        /\ \A i \in DOMAIN results : results[i].generation \in Nat
    BY <1>1, <1>4, Rows DEF StatusTypeOK
  <2>2. \A i \in DOMAIN results : results[i].generation <= statusGeneration
    BY DEF StatusInv, RefreshIsDue
  <2>. QED
    BY <1>1, <1>3, <1>5, <2>1, <2>2 DEF StatusTypeOK
<1>7. VersionAt(path)' = VersionAt(path)
  BY <1>1 DEF VersionAt
<1>8. RefreshIsDue'
  <2>1. /\ \A i \in DOMAIN refreshes' : refreshes'[i].generation \in Nat
        /\ \A i \in DOMAIN results' : results'[i].generation \in Nat
        /\ statusGeneration' \in Nat
    BY <1>4, Rows DEF StatusTypeOK
  <2>2. \A i \in DOMAIN refreshes' : i \in 1 .. n - 1 \/ i = n
    BY <1>3
  <2>3. ASSUME NEW i \in DOMAIN refreshes'
        PROVE  /\ refreshes'[i].generation <= statusGeneration'
               /\ Current(refreshes[i])' =>
                    /\ refreshes'[i].path = path' /\ ~refreshes'[i].token
                    /\ refreshes'[i].step = "read" => debounce' \/ refreshes'[i].version >= due'
    BY <1>1, <1>2, <1>3, <1>6, <2>1, <2>2 DEF Current
  <2>4. ASSUME NEW i \in DOMAIN results'
        PROVE  results'[i].generation <= statusGeneration' /\ results'[i].generation # statusGeneration'
    BY <1>6, <2>1
  <2>5. due' <= VersionAt(path)'
    BY <1>1, <1>7 DEF StatusInv, RefreshIsDue
  <2>. QED
    BY <2>3, <2>4, <2>5 DEF RefreshIsDue
<1>9. Awaited'
  BY <1>2, <1>3 DEF Awaited, Current
<1>10. StatusIsOfTheFolder'
  <2>1. [NoStatus EXCEPT !.failed = FALSE] = NoStatus
    <3>1. \A s \in Statuses : s.failed = FALSE => [s EXCEPT !.failed = FALSE] = s
      BY DEF Statuses
    <3>2. NoStatus.failed = FALSE
      BY DEF NoStatus
    <3>. QED
      BY <3>1, <3>2, NoneShown
  <2>2. shown'.of = shown.of
    BY <1>1 DEF StatusTypeOK, Statuses
  <2>. QED
    BY <1>1, <2>1, <2>2 DEF StatusInv, StatusIsOfTheFolder, Settled
<1>. QED
  BY <1>4, <1>8, <1>9, <1>10 DEF StatusInv

LEMMA ReadStatusKeeps ==
  ASSUME StatusInv, NEW t \in DOMAIN refreshes, ReadStatus(t)
  PROVE  StatusInv'
<1> DEFINE read == [refreshes[t] EXCEPT !.step = "read", !.version = VersionAt(refreshes[t].path)]
<1>1. /\ StatusTypeOK /\ refreshes[t] \in Refreshes /\ refreshes[t].step = "start"
      /\ refreshes' = [refreshes EXCEPT ![t] = read] /\ DOMAIN refreshes = 1 .. Len(refreshes)
      /\ UNCHANGED <<path, shown, refreshing, statusGeneration, debounce, results, version, due>>
  BY Rows, LenProperties DEF StatusInv, StatusTypeOK, ReadStatus
<1>2. VersionAt(refreshes[t].path) \in Nat
  BY <1>1, Versions DEF Refreshes
<1>3. /\ read \in Refreshes /\ read.generation = refreshes[t].generation /\ read.step = "read"
      /\ read.path = refreshes[t].path /\ read.token = refreshes[t].token
      /\ read.version = VersionAt(refreshes[t].path)
  BY <1>1, <1>2 DEF Refreshes
<1> HIDE DEF read
<1>4. /\ refreshes' \in Seq(Refreshes) /\ DOMAIN refreshes' = DOMAIN refreshes /\ refreshes'[t] = read
      /\ \A i \in DOMAIN refreshes : i # t => refreshes'[i] = refreshes[i]
  BY <1>1, <1>3, ExceptSeq DEF StatusTypeOK
<1>5. StatusTypeOK'
  BY <1>1, <1>4 DEF StatusTypeOK
<1>6. VersionAt(path)' = VersionAt(path)
  BY <1>1 DEF VersionAt
<1>7. RefreshIsDue'
  <2>1. ASSUME Current(read)
        PROVE  read.path = path /\ ~read.token /\ read.version >= due
    <3>1. Current(refreshes[t])
      BY <1>1, <1>3, <2>1 DEF Current
    <3>2. refreshes[t].path = path /\ ~refreshes[t].token /\ due <= VersionAt(path)
      BY <3>1 DEF StatusInv, RefreshIsDue
    <3>. QED
      BY <1>1, <1>2, <1>3, <3>2 DEF StatusTypeOK
  <2>2. read.generation <= statusGeneration
    BY <1>3 DEF StatusInv, RefreshIsDue
  <2>3. ASSUME NEW i \in DOMAIN refreshes'
        PROVE  /\ refreshes'[i].generation <= statusGeneration'
               /\ Current(refreshes[i])' =>
                    /\ refreshes'[i].path = path' /\ ~refreshes'[i].token
                    /\ refreshes'[i].step = "read" => debounce' \/ refreshes'[i].version >= due'
    <3>1. CASE i = t
      BY <1>1, <1>4, <2>1, <2>2, <3>1 DEF Current
    <3>2. CASE i # t
      BY <1>1, <1>4, <3>2 DEF StatusInv, RefreshIsDue, Current
    <3>. QED
      BY <3>1, <3>2
  <2>. QED
    BY <1>1, <1>6, <2>3 DEF StatusInv, RefreshIsDue
<1>8. Awaited'
  <2>1. \A i \in DOMAIN refreshes : Current(refreshes[i]) => Current(refreshes[i])'
    BY <1>1, <1>3, <1>4 DEF Current
  <2>. QED
    BY <1>1, <1>4, <2>1 DEF StatusInv, Awaited
<1>9. StatusIsOfTheFolder'
  BY <1>1 DEF StatusInv, StatusIsOfTheFolder, Settled
<1>. QED
  BY <1>5, <1>7, <1>8, <1>9 DEF StatusInv

LEMMA collectStatusKeeps ==
  ASSUME StatusInv, NEW t \in DOMAIN refreshes, collectStatus(t)
  PROVE  StatusInv'
<1>1. /\ StatusTypeOK /\ refreshes[t] \in Refreshes /\ refreshes[t].step = "read"
      /\ refreshes' = [refreshes EXCEPT ![t] = Ended] /\ DOMAIN refreshes = 1 .. Len(refreshes)
      /\ UNCHANGED <<path, shown, refreshing, statusGeneration, debounce, version, due>>
  BY Rows, LenProperties DEF StatusInv, StatusTypeOK, collectStatus
<1>2. Ended \in Refreshes /\ Ended.generation = 0 /\ Ended.step = "done"
  BY DEF Ended, Refreshes, Places
<1>3. /\ refreshes' \in Seq(Refreshes) /\ DOMAIN refreshes' = DOMAIN refreshes /\ refreshes'[t] = Ended
      /\ \A i \in DOMAIN refreshes : i # t => refreshes'[i] = refreshes[i]
  BY <1>1, <1>2, ExceptSeq DEF StatusTypeOK
<1>4. VersionAt(path)' = VersionAt(path)
  BY <1>1 DEF VersionAt
<1>5. ASSUME NEW i \in DOMAIN refreshes'
      PROVE  /\ refreshes'[i].generation <= statusGeneration'
             /\ Current(refreshes[i])' =>
                  /\ refreshes'[i].path = path' /\ ~refreshes'[i].token
                  /\ refreshes'[i].step = "read" => debounce' \/ refreshes'[i].version >= due'
  <2>1. CASE i = t
    BY <1>1, <1>2, <1>3, <2>1 DEF Current, StatusTypeOK
  <2>2. CASE i # t
    BY <1>1, <1>3, <2>2 DEF StatusInv, RefreshIsDue, Current
  <2>. QED
    BY <2>1, <2>2
<1>6. StatusIsOfTheFolder'
  BY <1>1 DEF StatusInv, StatusIsOfTheFolder, Settled
<1>7. CASE refreshes[t].token /\ UNCHANGED results
  <2>1. StatusTypeOK' /\ RefreshIsDue'
    BY <1>1, <1>3, <1>4, <1>5, <1>7 DEF StatusInv, StatusTypeOK, RefreshIsDue
  <2>2. ~Current(refreshes[t])
    BY <1>7 DEF StatusInv, RefreshIsDue
  <2>3. \A i \in DOMAIN refreshes : Current(refreshes[i]) => Current(refreshes[i])'
    BY <1>1, <1>3, <2>2 DEF Current
  <2>4. Awaited'
    BY <1>1, <1>3, <1>7, <2>3 DEF StatusInv, Awaited
  <2>. QED
    BY <1>6, <2>1, <2>4 DEF StatusInv
<1>8. ASSUME NEW failed \in BOOLEAN, NEW broken \in BOOLEAN,
             results' = Append(results, [generation |-> refreshes[t].generation,
                of |-> refreshes[t].path, version |-> refreshes[t].version,
                failed |-> failed, broken |-> broken])
      PROVE  StatusInv'
  <2> DEFINE r == [generation |-> refreshes[t].generation, of |-> refreshes[t].path,
                   version |-> refreshes[t].version, failed |-> failed, broken |-> broken]
             n == Len(results) + 1
  <2>1. /\ r \in Results /\ r.generation = refreshes[t].generation /\ r.of = refreshes[t].path
        /\ r.version = refreshes[t].version
    BY <1>1 DEF Refreshes, Results
  <2>2. results' = Append(results, r)
    BY <1>8
  <2> HIDE DEF r
  <2>3. /\ results' \in Seq(Results) /\ DOMAIN results' = 1 .. n /\ n \in Nat /\ results'[n] = r
        /\ DOMAIN results = 1 .. n - 1 /\ \A i \in 1 .. n - 1 : results'[i] = results[i]
    BY <1>1, <2>1, <2>2, AppendProperties, LenProperties DEF StatusTypeOK
  <2>4. StatusTypeOK'
    BY <1>1, <1>3, <2>3 DEF StatusTypeOK
  <2>5. ASSUME NEW i \in DOMAIN results'
        PROVE  /\ results'[i].generation <= statusGeneration'
               /\ results'[i].generation = statusGeneration' =>
                    /\ results'[i].of = path'
                    /\ debounce' \/ results'[i].failed \/ results'[i].version >= due'
    <3>1. CASE i = n
      <4>1. r.generation <= statusGeneration
        BY <2>1 DEF StatusInv, RefreshIsDue
      <4>2. r.generation = statusGeneration => r.of = path /\ (debounce \/ r.version >= due)
        BY <1>1, <2>1 DEF StatusInv, RefreshIsDue, Current
      <4>. QED
        BY <1>1, <2>3, <3>1, <4>1, <4>2
    <3>2. CASE i # n
      BY <1>1, <2>3, <3>2 DEF StatusInv, RefreshIsDue
    <3>. QED
      BY <3>1, <3>2
  <2>6. RefreshIsDue'
    BY <1>1, <1>4, <1>5, <2>5 DEF StatusInv, RefreshIsDue
  <2>7. Awaited'
    <3>1. ASSUME NEW i \in DOMAIN refreshes, Current(refreshes[i])
          PROVE  \/ Current(refreshes[i])'
                 \/ \E k \in DOMAIN results' : results'[k].generation = statusGeneration'
      <4>1. CASE i = t
        BY <1>1, <2>1, <2>3, <3>1, <4>1 DEF Current
      <4>2. CASE i # t
        BY <1>1, <1>3, <3>1, <4>2 DEF Current
      <4>. QED
        BY <4>1, <4>2
    <3>2. ASSUME NEW k \in DOMAIN results, results[k].generation = statusGeneration
          PROVE  \E m \in DOMAIN results' : results'[m].generation = statusGeneration'
      BY <1>1, <2>3, <3>2
    <3>. QED
      BY <1>1, <1>3, <3>1, <3>2 DEF StatusInv, Awaited
  <2>. QED
    BY <1>6, <2>4, <2>6, <2>7 DEF StatusInv
<1>. QED
  BY <1>7, <1>8 DEF collectStatus

LEMMA ApplyStatusKeeps ==
  ASSUME StatusInv, ApplyStatus
  PROVE  StatusInv'
<1> DEFINE post == Head(results)
           n == Len(results)
<1>1. /\ StatusTypeOK /\ results' = Tail(results) /\ results # <<>>
      /\ UNCHANGED <<path, statusGeneration, debounce, refreshes, version, due>>
      /\ \/ /\ post.generation # statusGeneration \/ post.of # path
            /\ UNCHANGED <<shown, refreshing>>
         \/ /\ post.generation = statusGeneration /\ post.of = path
            /\ shown' = [of |-> post.of, version |-> post.version, failed |-> post.failed,
                          broken |-> post.broken]
            /\ refreshing' = FALSE
  BY DEF StatusInv, ApplyStatus, applyStatus
<1>2. /\ n \in Nat /\ n >= 1 /\ DOMAIN results = 1 .. n /\ post = results[1] /\ post \in Results
      /\ results' \in Seq(Results) /\ DOMAIN results' = 1 .. n - 1
      /\ \A i \in 1 .. n - 1 : results'[i] = results[i + 1]
  <2>1. results \in Seq(Results) /\ n \in Nat /\ DOMAIN results = 1 .. n /\ n # 0
    BY <1>1, EmptySeq, LenProperties DEF StatusTypeOK
  <2>2. /\ Tail(results) \in Seq(Results) /\ Len(Tail(results)) = n - 1
        /\ \A i \in 1 .. n - 1 : Tail(results)[i] = results[i + 1]
    BY <1>1, <2>1, HeadTailProperties
  <2>3. post = results[1] /\ post \in Results
    BY <1>1, <2>1, HeadTailProperties
  <2>. QED
    BY <1>1, <2>1, <2>2, <2>3, LenProperties
<1>3. \/ post.generation = statusGeneration /\ post.of = path
      \/ post.generation # statusGeneration
  BY <1>2 DEF StatusInv, RefreshIsDue
<1> HIDE DEF post
<1>4. StatusTypeOK'
  <2>1. [of |-> post.of, version |-> post.version, failed |-> post.failed,
         broken |-> post.broken] \in Statuses
    BY <1>2 DEF Statuses, Results
  <2>2. shown' \in Statuses /\ refreshing' \in BOOLEAN
    BY <1>1, <2>1 DEF StatusTypeOK
  <2>. QED
    BY <1>1, <1>2, <2>2 DEF StatusTypeOK
<1>5. VersionAt(path)' = VersionAt(path)
  BY <1>1 DEF VersionAt
<1>6. RefreshIsDue'
  <2>1. ASSUME NEW i \in DOMAIN results'
        PROVE  /\ results'[i].generation <= statusGeneration'
               /\ results'[i].generation = statusGeneration' =>
                    /\ results'[i].of = path'
                    /\ debounce' \/ results'[i].failed \/ results'[i].version >= due'
    <3>1. i + 1 \in DOMAIN results /\ results'[i] = results[i + 1]
      BY <1>2
    <3>. QED
      BY <1>1, <3>1 DEF StatusInv, RefreshIsDue
  <2>2. \A i \in DOMAIN refreshes : Current(refreshes[i])' <=> Current(refreshes[i])
    BY <1>1 DEF Current
  <2>. QED
    BY <1>1, <1>5, <2>1, <2>2 DEF StatusInv, RefreshIsDue
<1>7. CASE post.generation = statusGeneration /\ post.of = path
  <2>1. /\ refreshing' = FALSE /\ shown'.of = path /\ shown'.version = post.version
        /\ shown'.failed = post.failed
    BY <1>1, <1>7
  <2>2. debounce \/ post.failed \/ post.version >= due
    BY <1>2, <1>7 DEF StatusInv, RefreshIsDue
  <2>. QED
    BY <1>1, <1>4, <1>6, <2>1, <2>2 DEF StatusInv, Awaited, StatusIsOfTheFolder, Settled
<1>8. CASE post.generation # statusGeneration
  <2>1. UNCHANGED <<shown, refreshing>>
    BY <1>1, <1>8
  <2>2. ASSUME NEW i \in DOMAIN results, results[i].generation = statusGeneration
        PROVE  \E k \in DOMAIN results' : results'[k].generation = statusGeneration'
    <3>1. i # 1
      BY <1>2, <1>8, <2>2
    <3>2. i - 1 \in DOMAIN results' /\ results'[i - 1] = results[i]
      BY <1>2, <3>1
    <3>. QED
      BY <1>1, <2>2, <3>2
  <2>3. Awaited'
    BY <1>1, <2>1, <2>2 DEF StatusInv, Awaited, Current
  <2>4. StatusIsOfTheFolder'
    BY <1>1, <2>1 DEF StatusInv, StatusIsOfTheFolder, Settled
  <2>. QED
    BY <1>4, <1>6, <2>3, <2>4 DEF StatusInv
<1>. QED
  BY <1>3, <1>7, <1>8

LEMMA ChangeKeeps ==
  ASSUME StatusInv, NEW r \in Repositories, NEW visible \in BOOLEAN, Change(r, visible)
  PROVE  StatusInv'
<1>1. /\ StatusTypeOK /\ version' = [version EXCEPT ![r] = @ + 1]
      /\ UNCHANGED <<path, shown, refreshing, statusGeneration, debounce, refreshes, results, due>>
  BY DEF StatusInv, Change
<1>2. StatusTypeOK' /\ \A s \in Repositories : version'[s] >= version[s]
  BY <1>1 DEF StatusTypeOK
<1>3. VersionAt(path)' >= VersionAt(path)
  BY <1>1, <1>2, StatusAssumption DEF StatusTypeOK, VersionAt, RepositoryAt, Places
<1>4. due' <= VersionAt(path)'
  <2>1. due <= VersionAt(path) /\ VersionAt(path) \in Nat /\ VersionAt(path)' \in Nat /\ due \in Nat
    BY <1>1, <1>2, Versions, StatusAssumption DEF StatusInv, RefreshIsDue, StatusTypeOK, VersionAt, RepositoryAt, Places
  <2>. QED
    BY <1>1, <1>3, <2>1
<1>5. RefreshIsDue' /\ Awaited' /\ StatusIsOfTheFolder'
  BY <1>1, <1>4 DEF StatusInv, RefreshIsDue, Current, Awaited, StatusIsOfTheFolder, Settled
<1>. QED
  BY <1>2, <1>5 DEF StatusInv

LEMMA StatusStep == StatusInv /\ [StatusNext]_statusVars => StatusInv'
<1> SUFFICES ASSUME StatusInv, [StatusNext]_statusVars PROVE StatusInv'
  OBVIOUS
<1>1. CASE UNCHANGED statusVars
  BY <1>1 DEF statusVars, StatusInv, StatusTypeOK, RefreshIsDue, Current, Awaited,
     StatusIsOfTheFolder, Settled, VersionAt
<1>2. ASSUME requestRefresh \/ Reported PROVE StatusInv'
  BY <1>2, ScheduleKeeps DEF requestRefresh, Reported
<1>3. CASE StatusNext
  BY <1>2, <1>3, setPathKeeps, startRefreshKeeps, ApplyStatusKeeps, ReadStatusKeeps,
     collectStatusKeeps, ChangeKeeps DEF StatusNext, Places
<1>. QED
  BY <1>1, <1>3

(* The chip shows the status of the folder on the screen, no older than the *)
(* last call for one when nothing is under way, and is loading only while a *)
(* refresh will end it: however many folders were opened and refreshes      *)
(* overtaken.  Of a git that ended in an error it shows the error; of one   *)
(* that a signal ended, what it had said by then (broken), because          *)
(* collectStatus looks at the exit code of a normal end only.               *)
THEOREM StatusIsTrue == StatusSpec => []StatusTellsTheTruth
<1>1. StatusInv => StatusTellsTheTruth
  BY DEF StatusInv, StatusTellsTheTruth, Awaited, Current, LoadingHasAThread
<1>. QED
  BY <1>1, StatusInitially, StatusStep, PTL DEF StatusSpec

-----------------------------------------------------------------------------
(* The thumbnails' queue.                                                   *)
Once(q) == \A i, k \in DOMAIN q : q[i] = q[k] => i = k

LEMMA InQueue ==
  \A q \in Seq(Responses) :
    /\ Len(q) \in Nat /\ DOMAIN q = 1 .. Len(q)
    /\ \A i \in 1 .. Len(q) : q[i] \in Responses
    /\ \A r : r \in ToSet(q) <=> \E i \in 1 .. Len(q) : q[i] = r
BY LenProperties, ElementOfSeq DEF ToSet

LEMMA Removed ==
  ASSUME NEW S, NEW s \in Seq(S), NEW i \in 1 .. Len(s)
  PROVE  /\ RemoveAt(s, i) \in Seq(S) /\ Len(RemoveAt(s, i)) = Len(s) - 1
         /\ \A j \in 1 .. Len(s) - 1 : RemoveAt(s, i)[j] = IF j < i THEN s[j] ELSE s[j + 1]
<1> DEFINE left == SubSeq(s, 1, i - 1)  right == SubSeq(s, i + 1, Len(s))
<1>1. Len(s) \in Nat /\ \A j \in 1 .. Len(s) : s[j] \in S
  OBVIOUS
<1>2. left \in Seq(S) /\ Len(left) = i - 1 /\ \A j \in 1 .. i - 1 : left[j] = s[j]
  BY <1>1, SubSeqProperties
<1>3. /\ right \in Seq(S) /\ Len(right) = Len(s) - i
      /\ \A j \in 1 .. Len(s) - i : right[j] = s[i + j]
  BY <1>1, SubSeqProperties
<1> HIDE DEF left, right
<1>41. /\ left \o right \in Seq(S) /\ Len(left \o right) = Len(left) + Len(right)
       /\ \A j \in 1 .. Len(left) + Len(right) :
            (left \o right)[j] = IF j <= Len(left) THEN left[j] ELSE right[j - Len(left)]
  BY <1>2, <1>3, ConcatProperties
<1>4. /\ left \o right \in Seq(S) /\ Len(left \o right) = Len(s) - 1
      /\ \A j \in 1 .. Len(s) - 1 : (left \o right)[j] = IF j <= i - 1 THEN left[j] ELSE right[j - (i - 1)]
  BY <1>1, <1>2, <1>3, <1>41
<1>5. \A j \in 1 .. Len(s) - 1 : j >= i => right[j - (i - 1)] = s[j + 1]
  BY <1>1, <1>3
<1>6. RemoveAt(s, i) = left \o right
  BY DEF RemoveAt, left, right
<1>. QED
  BY SMTT(20), <1>1, <1>2, <1>4, <1>5, <1>6

(* A response of the queue is taken out of it.                              *)
LEMMA FirstRemoved ==
  ASSUME NEW q \in Seq(Responses), Once(q), NEW r
  PROVE  LET e == RemoveFirst(q, r)
         IN  e \in Seq(Responses) /\ Len(e) <= Len(q) /\ Once(e) /\ ToSet(e) = ToSet(q) \ {r}
<1> DEFINE e == RemoveFirst(q, r)
<1>1. Len(q) \in Nat /\ DOMAIN q = 1 .. Len(q) /\ \A i \in 1 .. Len(q) : q[i] \in Responses
  BY InQueue
<1>2. CASE ~\E i \in 1 .. Len(q) : q[i] = r
  <2>1. e = q
    BY <1>2 DEF RemoveFirst
  <2>2. ToSet(q) = ToSet(q) \ {r}
    BY <1>1, <1>2 DEF ToSet
  <2>. QED
    BY <1>1, <2>1, <2>2
<1>3. ASSUME NEW p \in 1 .. Len(q), q[p] = r
      PROVE  e \in Seq(Responses) /\ Len(e) <= Len(q) /\ Once(e) /\ ToSet(e) = ToSet(q) \ {r}
  <2>1. {i \in 1 .. Len(q) : q[i] = r} = {p}
    BY <1>1, <1>3 DEF Once
  <2>2. SelectInSeq(q, LAMBDA v : v = r) = p
    BY <1>1, <2>1 DEF SelectInSeq, Min
  <2>3. e = RemoveAt(q, p)
    BY <1>3, <2>2 DEF RemoveFirst
  <2>4. /\ e \in Seq(Responses) /\ Len(e) = Len(q) - 1 /\ DOMAIN e = 1 .. Len(q) - 1
        /\ \A j \in 1 .. Len(q) - 1 : e[j] = IF j < p THEN q[j] ELSE q[j + 1]
    BY SMTT(20), <2>3, Removed, InQueue
  <2> HIDE DEF e
  <2>5. Once(e)
    <3> SUFFICES ASSUME NEW i \in DOMAIN e, NEW k \in DOMAIN e, e[i] = e[k] PROVE i = k
      BY DEF Once
    <3>1. (IF i < p THEN i ELSE i + 1) = (IF k < p THEN k ELSE k + 1)
      BY SMTT(20), <1>1, <2>4 DEF Once
    <3>. QED
      BY <1>1, <2>4, <3>1
  <2>6. ToSet(e) = ToSet(q) \ {r}
    <3>1. ASSUME NEW s \in ToSet(e) PROVE s \in ToSet(q) \ {r}
      <4>1. PICK j \in 1 .. Len(q) - 1 : s = e[j]
        BY <2>4, <3>1 DEF ToSet
      <4>2. PICK i \in 1 .. Len(q) : i # p /\ s = q[i]
        BY <1>1, <2>4, <4>1
      <4>. QED
        BY <1>1, <1>3, <4>2 DEF Once, ToSet
    <3>2. ASSUME NEW s \in ToSet(q), s # r PROVE s \in ToSet(e)
      <4>1. PICK i \in 1 .. Len(q) : s = q[i] /\ i # p
        BY <1>1, <1>3, <3>2 DEF ToSet
      <4>2. CASE i < p
        <5>1. i \in DOMAIN e /\ e[i] = s
          BY <1>1, <2>4, <4>1, <4>2
        <5>. QED
          BY <5>1 DEF ToSet
      <4>3. CASE i > p
        <5>1. i - 1 \in DOMAIN e /\ e[i - 1] = s
          BY <1>1, <2>4, <4>1, <4>3
        <5>. QED
          BY <5>1 DEF ToSet
      <4>. QED
        BY <1>1, <4>1, <4>2, <4>3
    <3>. QED
      BY <3>1, <3>2
  <2>. QED
    BY <1>1, <2>4, <2>5, <2>6
<1>. QED
  BY <1>2, <1>3 DEF e

LEMMA OneAppended ==
  ASSUME NEW q \in Seq(Responses), Once(q), NEW r \in Responses, r \notin ToSet(q)
  PROVE  LET a == Append(q, r)
         IN  a \in Seq(Responses) /\ Len(a) = Len(q) + 1 /\ Once(a) /\ ToSet(a) = ToSet(q) \cup {r}
<1> DEFINE a == Append(q, r)  n == Len(q) + 1
<1>1. /\ a \in Seq(Responses) /\ Len(a) = n /\ n \in Nat /\ a[n] = r /\ DOMAIN a = 1 .. n
      /\ DOMAIN q = 1 .. n - 1 /\ \A i \in 1 .. n - 1 : a[i] = q[i]
  BY AppendProperties, InQueue
<1> HIDE DEF a
<1>2. \A i \in 1 .. n - 1 : q[i] # r
  BY <1>1 DEF ToSet
<1>3. Once(a)
  BY <1>1, <1>2 DEF Once
<1>4. ASSUME NEW s \in ToSet(a) PROVE s \in ToSet(q) \cup {r}
  BY <1>1, <1>4 DEF ToSet
<1>5. ASSUME NEW s \in ToSet(q) PROVE s \in ToSet(a)
  BY <1>1, <1>5 DEF ToSet
<1>6. r \in ToSet(a)
  BY <1>1 DEF ToSet
<1>. QED
  BY <1>1, <1>3, <1>4, <1>5, <1>6 DEF a

LEMMA FirstTaken ==
  ASSUME NEW q \in Seq(Responses), Once(q), q # <<>>
  PROVE  /\ Head(q) \in ToSet(q)
         /\ Tail(q) \in Seq(Responses) /\ Len(Tail(q)) = Len(q) - 1 /\ Once(Tail(q))
         /\ ToSet(Tail(q)) = ToSet(q) \ {Head(q)}
<1> DEFINE t == Tail(q)  n == Len(q)
<1>1. n \in Nat /\ n # 0 /\ DOMAIN q = 1 .. n
  BY InQueue, EmptySeq
<1>2. /\ t \in Seq(Responses) /\ Len(t) = n - 1 /\ Head(q) = q[1]
      /\ \A i \in 1 .. n - 1 : t[i] = q[i + 1]
  BY <1>1, HeadTailProperties
<1> HIDE DEF t
<1>3. DOMAIN t = 1 .. n - 1
  BY <1>2, InQueue
<1>4. Once(t)
  <2> SUFFICES ASSUME NEW i \in DOMAIN t, NEW k \in DOMAIN t, t[i] = t[k] PROVE i = k
    BY DEF Once
  <2>1. q[i + 1] = q[k + 1] /\ i + 1 \in DOMAIN q /\ k + 1 \in DOMAIN q
    BY <1>1, <1>2, <1>3
  <2>. QED
    BY <1>3, <2>1, <1>1 DEF Once
<1>5. ASSUME NEW s \in ToSet(t) PROVE s \in ToSet(q) \ {Head(q)}
  <2>1. PICK i \in 1 .. n - 1 : s = q[i + 1]
    BY <1>2, <1>3, <1>5 DEF ToSet
  <2>. QED
    BY <1>1, <1>2, <2>1 DEF ToSet, Once
<1>6. ASSUME NEW s \in ToSet(q), s # Head(q) PROVE s \in ToSet(t)
  <2>1. PICK i \in 1 .. n : s = q[i] /\ i # 1
    BY <1>1, <1>2, <1>6 DEF ToSet
  <2>2. i - 1 \in DOMAIN t /\ t[i - 1] = s
    BY <1>1, <1>2, <1>3, <2>1
  <2>. QED
    BY <2>2 DEF ToSet
<1>7. Head(q) \in ToSet(q)
  BY <1>1, <1>2 DEF ToSet
<1>8. ToSet(t) = ToSet(q) \ {Head(q)}
  BY <1>5, <1>6
<1>. QED
  BY <1>2, <1>4, <1>7, <1>8 DEF t

(* Who may still finish a response: until it is out, it has not emitted;    *)
(* one that is out has, but for the one in the reader's hands.              *)
Stages == {"new", "waiting", "taken", "running", "out", "deleted"}

ThumbTypeOK ==
    /\ queued \in Seq(Responses) /\ cancelled \subseteq Responses
    /\ place \in [Responses -> Stages] /\ emitted \in [Responses -> Nat]
    /\ reader \in [step : {"idle", "enqueue", "finish", "cancel"},
                   response : Responses \cup {NoResponse}, evicted : Responses \cup {NoResponse}]

QueueHoldsTheWaiting ==
    /\ Once(queued) /\ Len(queued) <= MaxQueued
    /\ \A r \in Responses : place[r] = "waiting" => r \in ToSet(queued)
    /\ \A r \in ToSet(queued) : place[r] \in {"waiting", "taken"}

EmittedAtTheEnd ==
    /\ \A r \in Responses : emitted[r] \in {0, 1}
    /\ \A r \in Responses : place[r] \in {"new", "waiting", "taken", "running"} => emitted[r] = 0

ReaderHoldsOne ==
    /\ reader.step \in {"enqueue", "finish", "cancel"} => reader.response \in Responses
    /\ reader.step = "enqueue" =>
         /\ place[reader.response] = "new"
         /\ reader.evicted # NoResponse =>
              /\ place[reader.evicted] = "out" /\ emitted[reader.evicted] = 0
              /\ Len(queued) < MaxQueued
    /\ reader.step = "finish" => place[reader.response] = "out" /\ emitted[reader.response] = 0

ThumbInv == ThumbTypeOK /\ QueueHoldsTheWaiting /\ EmittedAtTheEnd /\ ReaderHoldsOne

LEMMA IdleReader ==
  /\ Idle \in [step : {"idle", "enqueue", "finish", "cancel"},
               response : Responses \cup {NoResponse}, evicted : Responses \cup {NoResponse}]
  /\ Idle.step = "idle" /\ Idle.evicted = NoResponse
BY DEF Idle

LEMMA ThumbInitially == ThumbInit => ThumbInv
<1> SUFFICES ASSUME ThumbInit PROVE ThumbInv
  OBVIOUS
<1>1. queued = <<>> /\ ToSet(queued) = {} /\ Len(queued) = 0 /\ DOMAIN queued = {}
  BY DEF ThumbInit, ToSet
<1>2. ThumbTypeOK
  BY IdleReader DEF ThumbInit, ThumbTypeOK, Stages
<1>3. QueueHoldsTheWaiting
  BY <1>1, ThumbAssumption DEF ThumbInit, QueueHoldsTheWaiting, Once
<1>. QED
  BY <1>2, <1>3, IdleReader DEF ThumbInit, ThumbInv, EmittedAtTheEnd, ReaderHoldsOne

LEMMA QueueShrinks ==
  ASSUME ThumbInv, NEW r \in Responses, Len(queued') <= MaxQueued, Once(queued)',
         ToSet(queued') = ToSet(queued) \ {r}, place'[r] # "waiting",
         \A s \in Responses : s # r => place'[s] = place[s]
  PROVE  QueueHoldsTheWaiting'
<1>1. ToSet(queued) \subseteq Responses
  BY InQueue DEF ThumbInv, ThumbTypeOK
<1>2. \A s \in Responses : place'[s] = "waiting" => s \in ToSet(queued')
  BY DEF ThumbInv, QueueHoldsTheWaiting
<1>3. \A s \in ToSet(queued') : place'[s] \in {"waiting", "taken"}
  BY <1>1 DEF ThumbInv, QueueHoldsTheWaiting
<1>. QED
  BY <1>2, <1>3 DEF QueueHoldsTheWaiting

(* The reader's actions.                                                    *)
LEMMA ResponseKeeps ==
  ASSUME ThumbInv, NEW r \in Responses, requestImageResponse(r)
  PROVE  ThumbInv'
<1>1. /\ reader' = [reader EXCEPT !.step = "enqueue", !.response = r] /\ reader = Idle
      /\ place[r] = "new" /\ UNCHANGED <<queued, place, cancelled, emitted>>
  BY DEF requestImageResponse
<1>2. /\ ThumbTypeOK' /\ reader'.step = "enqueue" /\ reader'.response = r
      /\ reader'.evicted = NoResponse
  BY <1>1, IdleReader DEF ThumbInv, ThumbTypeOK
<1>. QED
  BY <1>1, <1>2 DEF ThumbInv, QueueHoldsTheWaiting, EmittedAtTheEnd, ReaderHoldsOne, Once

LEMMA EvictKeeps ==
  ASSUME ThumbInv, Evict
  PROVE  ThumbInv'
<1> DEFINE h == Head(queued)
<1>1. /\ reader.step = "enqueue" /\ reader.evicted = NoResponse /\ Len(queued) >= MaxQueued
      /\ queued' = Tail(queued) /\ UNCHANGED <<cancelled, emitted>>
      /\ \/ /\ place[h] = "waiting" /\ place' = [place EXCEPT ![h] = "out"]
            /\ reader' = [reader EXCEPT !.evicted = h]
         \/ place[h] # "waiting" /\ UNCHANGED <<place, reader>>
  BY DEF Evict
<1>2. /\ queued \in Seq(Responses) /\ Once(queued) /\ queued # <<>> /\ Len(queued) \in Nat
  BY <1>1, ThumbAssumption, InQueue DEF ThumbInv, ThumbTypeOK, QueueHoldsTheWaiting
<1>3. /\ h \in ToSet(queued) /\ h \in Responses /\ queued' \in Seq(Responses)
      /\ Len(queued') = Len(queued) - 1 /\ Once(queued)' /\ ToSet(queued') = ToSet(queued) \ {h}
  BY <1>1, <1>2, FirstTaken, InQueue DEF Once
<1> HIDE DEF h
<1>4. Len(queued') < MaxQueued
  BY <1>1, <1>2, <1>3, ThumbAssumption DEF ThumbInv, QueueHoldsTheWaiting
<1>5. CASE place[h] = "waiting" /\ place' = [place EXCEPT ![h] = "out"]
           /\ reader' = [reader EXCEPT !.evicted = h]
  <2>1. /\ ThumbTypeOK' /\ reader'.step = "enqueue" /\ reader'.response = reader.response
        /\ reader'.evicted = h /\ place'[h] = "out"
        /\ \A r \in Responses : r # h => place'[r] = place[r]
    BY <1>1, <1>3, <1>5 DEF ThumbInv, ThumbTypeOK, Stages
  <2>2. emitted[h] = 0 /\ reader.response # h
    BY <1>1, <1>3, <1>5 DEF ThumbInv, EmittedAtTheEnd, ReaderHoldsOne
  <2>5. Len(queued') <= MaxQueued
    BY <1>2, <1>3, <1>4, ThumbAssumption
  <2>3. QueueHoldsTheWaiting'
    BY <1>3, <2>1, <2>5, QueueShrinks
  <2>4. EmittedAtTheEnd' /\ ReaderHoldsOne'
    BY <1>1, <1>3, <1>4, <2>1, <2>2 DEF ThumbInv, EmittedAtTheEnd, ReaderHoldsOne
  <2>. QED
    BY <2>1, <2>3, <2>4 DEF ThumbInv
<1>6. CASE place[h] # "waiting" /\ UNCHANGED <<place, reader>>
  <2>1. ThumbTypeOK'
    BY <1>1, <1>3, <1>6 DEF ThumbInv, ThumbTypeOK
  <2>2. QueueHoldsTheWaiting'
    BY <1>3, <1>4, <1>6, ThumbAssumption, InQueue DEF ThumbInv, ThumbTypeOK, QueueHoldsTheWaiting
  <2>3. EmittedAtTheEnd' /\ ReaderHoldsOne'
    BY <1>1, <1>4, <1>6 DEF ThumbInv, EmittedAtTheEnd, ReaderHoldsOne
  <2>. QED
    BY <2>1, <2>2, <2>3 DEF ThumbInv
<1>. QED
  BY <1>1, <1>5, <1>6

LEMMA EnqueueKeeps ==
  ASSUME ThumbInv, Enqueue
  PROVE  ThumbInv'
<1> DEFINE n == reader.response
<1>1. /\ reader.step = "enqueue" /\ (reader.evicted # NoResponse \/ Len(queued) < MaxQueued)
      /\ queued' = Append(queued, n) /\ place' = [place EXCEPT ![n] = "waiting"]
      /\ UNCHANGED <<cancelled, emitted>>
      /\ \/ reader.evicted = NoResponse /\ reader' = Idle
         \/ /\ reader.evicted # NoResponse
            /\ reader' = [reader EXCEPT !.step = "finish", !.response = reader.evicted]
  BY DEF Enqueue
<1>2. /\ n \in Responses /\ place[n] = "new" /\ Len(queued) < MaxQueued /\ n \notin ToSet(queued)
      /\ reader.evicted # NoResponse =>
           reader.evicted \in Responses /\ place[reader.evicted] = "out" /\ emitted[reader.evicted] = 0
  BY <1>1 DEF ThumbInv, ThumbTypeOK, ReaderHoldsOne, QueueHoldsTheWaiting
<1>3. /\ queued' \in Seq(Responses) /\ Len(queued') = Len(queued) + 1 /\ Once(queued)'
      /\ ToSet(queued') = ToSet(queued) \cup {n}
  BY <1>1, <1>2, OneAppended DEF ThumbInv, ThumbTypeOK, QueueHoldsTheWaiting, Once
<1> HIDE DEF n
<1>4. /\ place' \in [Responses -> Stages] /\ place'[n] = "waiting"
      /\ \A r \in Responses : r # n => place'[r] = place[r]
  BY <1>1, <1>2 DEF ThumbInv, ThumbTypeOK, Stages
<1>5. Len(queued') <= MaxQueued
  BY <1>2, <1>3, ThumbAssumption, InQueue DEF ThumbInv, ThumbTypeOK
<1>6. QueueHoldsTheWaiting'
  BY SMTT(20), <1>3, <1>4, <1>5, InQueue DEF ThumbInv, ThumbTypeOK, QueueHoldsTheWaiting
<1>7. EmittedAtTheEnd'
  BY <1>1, <1>2, <1>4 DEF ThumbInv, EmittedAtTheEnd
<1>8. CASE reader.evicted = NoResponse /\ reader' = Idle
  BY <1>1, <1>3, <1>4, <1>6, <1>7, <1>8, IdleReader DEF ThumbInv, ThumbTypeOK, ReaderHoldsOne
<1>9. CASE reader.evicted # NoResponse
           /\ reader' = [reader EXCEPT !.step = "finish", !.response = reader.evicted]
  <2>1. ThumbTypeOK' /\ reader'.step = "finish" /\ reader'.response = reader.evicted
    BY <1>1, <1>2, <1>3, <1>4, <1>9 DEF ThumbInv, ThumbTypeOK
  <2>. QED
    BY <1>1, <1>2, <1>4, <1>6, <1>7, <1>9, <2>1 DEF ThumbInv, ReaderHoldsOne
<1>. QED
  BY <1>1, <1>8, <1>9

LEMMA FinishKeeps ==
  ASSUME ThumbInv, finishCancelled
  PROVE  ThumbInv'
<1> DEFINE r == reader.response
<1>1. /\ reader.step = "finish" /\ cancelled' = cancelled \cup {r} /\ reader' = Idle
      /\ emitted' = [emitted EXCEPT ![r] = @ + 1] /\ UNCHANGED <<queued, place>>
  BY DEF finishCancelled, Emit
<1>2. r \in Responses /\ place[r] = "out" /\ emitted[r] = 0
  BY <1>1 DEF ThumbInv, ReaderHoldsOne
<1> HIDE DEF r
<1>3. ThumbTypeOK' /\ emitted'[r] = 1 /\ \A s \in Responses : s # r => emitted'[s] = emitted[s]
  BY <1>1, <1>2, IdleReader DEF ThumbInv, ThumbTypeOK
<1>4. QueueHoldsTheWaiting'
  BY <1>1 DEF ThumbInv, QueueHoldsTheWaiting, Once
<1>. QED
  BY <1>1, <1>2, <1>3, <1>4, IdleReader DEF ThumbInv, EmittedAtTheEnd, ReaderHoldsOne

LEMMA CancelKeeps ==
  ASSUME ThumbInv, NEW r \in Responses, cancelResponse(r)
  PROVE  ThumbInv'
<1>1. /\ reader = Idle /\ cancelled' = cancelled \cup {r}
      /\ reader' = [reader EXCEPT !.step = "cancel", !.response = r]
      /\ UNCHANGED <<queued, place, emitted>>
  BY DEF cancelResponse
<1>2. ThumbTypeOK' /\ reader'.step = "cancel" /\ reader'.response = r
  BY <1>1 DEF ThumbInv, ThumbTypeOK
<1>. QED
  BY <1>1, <1>2 DEF ThumbInv, QueueHoldsTheWaiting, EmittedAtTheEnd, ReaderHoldsOne, Once

LEMMA CancelQueuedKeeps ==
  ASSUME ThumbInv, cancelQueued
  PROVE  ThumbInv'
<1> DEFINE r == reader.response
<1>1. /\ reader.step = "cancel" /\ UNCHANGED <<cancelled, emitted>>
      /\ \/ /\ place[r] = "waiting" /\ queued' = RemoveFirst(queued, r)
            /\ place' = [place EXCEPT ![r] = "out"]
            /\ reader' = [reader EXCEPT !.step = "finish"]
         \/ reader' = Idle /\ UNCHANGED <<queued, place>>
  BY DEF cancelQueued
<1>2. r \in Responses
  BY <1>1 DEF ThumbInv, ReaderHoldsOne
<1>3. CASE reader' = Idle /\ UNCHANGED <<queued, place>>
  BY <1>1, <1>3, IdleReader DEF ThumbInv, ThumbTypeOK, QueueHoldsTheWaiting, EmittedAtTheEnd,
     ReaderHoldsOne, Once
<1>4. CASE /\ place[r] = "waiting" /\ queued' = RemoveFirst(queued, r)
           /\ place' = [place EXCEPT ![r] = "out"]
           /\ reader' = [reader EXCEPT !.step = "finish"]
  <2>1. /\ queued' \in Seq(Responses) /\ Len(queued') <= Len(queued) /\ Once(queued)'
        /\ ToSet(queued') = ToSet(queued) \ {r}
    BY <1>4, FirstRemoved DEF ThumbInv, ThumbTypeOK, QueueHoldsTheWaiting, Once
  <2>2. /\ ThumbTypeOK' /\ reader'.step = "finish" /\ reader'.response = r /\ place'[r] = "out"
        /\ \A s \in Responses : s # r => place'[s] = place[s]
    BY <1>1, <1>2, <1>4, <2>1 DEF ThumbInv, ThumbTypeOK, Stages
  <2>3. emitted[r] = 0
    BY <1>2, <1>4 DEF ThumbInv, EmittedAtTheEnd
  <2> HIDE DEF r
  <2>4. Len(queued') <= MaxQueued
    BY <2>1, ThumbAssumption, InQueue DEF ThumbInv, ThumbTypeOK, QueueHoldsTheWaiting
  <2>5. QueueHoldsTheWaiting'
    BY <1>2, <2>1, <2>2, <2>4, QueueShrinks
  <2>. QED
    BY <1>1, <1>2, <2>2, <2>3, <2>5 DEF ThumbInv, EmittedAtTheEnd, ReaderHoldsOne
<1>. QED
  BY <1>1, <1>3, <1>4

LEMMA HandledKeeps ==
  ASSUME ThumbInv, NEW r \in Responses, Handled(r)
  PROVE  ThumbInv'
<1>1. /\ reader = Idle /\ emitted[r] > 0 /\ place' = [place EXCEPT ![r] = "deleted"]
      /\ UNCHANGED <<queued, cancelled, emitted, reader>>
  BY DEF Handled
<1>2. /\ ThumbTypeOK' /\ place'[r] = "deleted" /\ \A s \in Responses : s # r => place'[s] = place[s]
  <2>1. place \in [Responses -> Stages] /\ "deleted" \in Stages
    BY DEF ThumbInv, ThumbTypeOK, Stages
  <2>2. place' \in [Responses -> Stages]
    BY <1>1, <2>1
  <2>3. ThumbTypeOK'
    BY <1>1, <2>2 DEF ThumbInv, ThumbTypeOK
  <2>. QED
    BY <1>1, <2>1, <2>3
<1>3. r \notin ToSet(queued)
  BY <1>1 DEF ThumbInv, ThumbTypeOK, QueueHoldsTheWaiting, EmittedAtTheEnd
<1>4. QueueHoldsTheWaiting'
  BY <1>1, <1>2, <1>3, InQueue DEF ThumbInv, ThumbTypeOK, QueueHoldsTheWaiting, Once
<1>. QED
  BY <1>1, <1>2, <1>4, IdleReader DEF ThumbInv, EmittedAtTheEnd, ReaderHoldsOne

(* The pool's.                                                              *)
LEMMA PoolKeeps ==
  ASSUME ThumbInv, NEW r \in Responses, Take(r) \/ markStarted(r) \/ Loaded(r)
  PROVE  ThumbInv'
<1>1. CASE Take(r)
  <2>1. /\ place[r] = "waiting" /\ place' = [place EXCEPT ![r] = "taken"]
        /\ UNCHANGED <<queued, cancelled, emitted, reader>>
    BY <1>1 DEF Take
  <2>2. /\ ThumbTypeOK' /\ place'[r] = "taken" /\ \A s \in Responses : s # r => place'[s] = place[s]
    BY <2>1 DEF ThumbInv, ThumbTypeOK, Stages
  <2>3. QueueHoldsTheWaiting'
    BY <2>1, <2>2, InQueue DEF ThumbInv, ThumbTypeOK, QueueHoldsTheWaiting, Once
  <2>. QED
    BY <2>1, <2>2, <2>3 DEF ThumbInv, ThumbTypeOK, EmittedAtTheEnd, ReaderHoldsOne
<1>2. CASE markStarted(r)
  <2>1. /\ place[r] = "taken" /\ reader.step # "enqueue" /\ queued' = RemoveFirst(queued, r)
        /\ place' = [place EXCEPT ![r] = "running"] /\ UNCHANGED <<cancelled, emitted, reader>>
    BY <1>2 DEF markStarted
  <2>2. /\ queued' \in Seq(Responses) /\ Len(queued') <= Len(queued) /\ Once(queued)'
        /\ ToSet(queued') = ToSet(queued) \ {r}
    BY <2>1, FirstRemoved DEF ThumbInv, ThumbTypeOK, QueueHoldsTheWaiting, Once
  <2>3. /\ ThumbTypeOK' /\ place'[r] = "running" /\ \A s \in Responses : s # r => place'[s] = place[s]
    BY <2>1, <2>2 DEF ThumbInv, ThumbTypeOK, Stages
  <2>4. Len(queued') <= MaxQueued
    BY <2>2, ThumbAssumption, InQueue DEF ThumbInv, ThumbTypeOK, QueueHoldsTheWaiting
  <2>5. QueueHoldsTheWaiting'
    BY <2>2, <2>3, <2>4, QueueShrinks
  <2>. QED
    BY <2>1, <2>3, <2>5 DEF ThumbInv, ThumbTypeOK, EmittedAtTheEnd, ReaderHoldsOne
<1>3. CASE Loaded(r)
  <2>1. /\ place[r] = "running" /\ place' = [place EXCEPT ![r] = "out"]
        /\ emitted' = [emitted EXCEPT ![r] = @ + 1] /\ UNCHANGED <<queued, cancelled, reader>>
    BY <1>3 DEF Loaded, Emit
  <2>2. /\ ThumbTypeOK' /\ place'[r] = "out" /\ emitted'[r] = emitted[r] + 1
        /\ \A s \in Responses : s # r => place'[s] = place[s] /\ emitted'[s] = emitted[s]
    BY <2>1 DEF ThumbInv, ThumbTypeOK, Stages
  <2>3. emitted[r] = 0 /\ r \notin ToSet(queued)
    BY <2>1 DEF ThumbInv, EmittedAtTheEnd, QueueHoldsTheWaiting
  <2>4. QueueHoldsTheWaiting'
    BY <2>1, <2>2, <2>3, InQueue DEF ThumbInv, ThumbTypeOK, QueueHoldsTheWaiting, Once
  <2>5. EmittedAtTheEnd'
    BY <2>2, <2>3 DEF ThumbInv, EmittedAtTheEnd
  <2>6. ReaderHoldsOne'
    BY <2>1, <2>2 DEF ThumbInv, ThumbTypeOK, ReaderHoldsOne
  <2>. QED
    BY <2>2, <2>4, <2>5, <2>6 DEF ThumbInv
<1>. QED
  BY <1>1, <1>2, <1>3

LEMMA ThumbStep == ThumbInv /\ [ThumbNext]_thumbVars => ThumbInv'
<1> SUFFICES ASSUME ThumbInv, [ThumbNext]_thumbVars PROVE ThumbInv'
  OBVIOUS
<1>1. CASE UNCHANGED thumbVars
  BY <1>1 DEF thumbVars, ThumbInv, ThumbTypeOK, QueueHoldsTheWaiting, EmittedAtTheEnd, ReaderHoldsOne, Once
<1>2. CASE ThumbNext
  BY <1>2, ResponseKeeps, EvictKeeps, EnqueueKeeps, FinishKeeps, CancelKeeps, CancelQueuedKeeps,
     HandledKeeps, PoolKeeps DEF ThumbNext
<1>. QED
  BY <1>1, <1>2

(* A response of the image cache finishes at most once, whoever takes it    *)
(* first, the queue holds no response that has finished, and never more     *)
(* than its bound, for any number of responses and threads.                 *)
THEOREM ThumbnailsFinishOnce == ThumbSpec => []ThumbnailsAreFinishedOnce
<1>1. ThumbInv => ThumbnailsAreFinishedOnce
  <2> SUFFICES ASSUME ThumbInv PROVE ThumbnailsAreFinishedOnce
    OBVIOUS
  <2>1. ToSet(queued) \subseteq Responses
    BY InQueue DEF ThumbInv, ThumbTypeOK
  <2>. QED
    BY <2>1 DEF ThumbInv, ThumbTypeOK, ThumbnailsAreFinishedOnce, QueueHoldsTheWaiting, EmittedAtTheEnd
<1>. QED
  BY <1>1, ThumbInitially, ThumbStep, PTL DEF ThumbSpec

-----------------------------------------------------------------------------
(* The deep search.                                                         *)
DeadRuns == [alive : {FALSE}, token : BOOLEAN]
LiveRuns == [alive : {TRUE}, token : BOOLEAN, root : Directories, query : Queries,
             pending : Seq(Directories), left : SUBSET Entries, batch : SUBSET Entries,
             found : Nat, visited : Nat, lastProgress : Nat, truncated : BOOLEAN]
Posts == [what : {"batch", "progress", "finish"}, generation : Nat, batch : SUBSET Entries,
          visited : Nat, truncated : BOOLEAN]
Searches == [root : SearchRoots \cup {""}, query : Queries \cup {""}, running : BOOLEAN,
             cancelled : BOOLEAN, truncated : BOOLEAN, error : BOOLEAN, visited : Nat,
             results : SUBSET Entries]

SearchTypeOK ==
    /\ search \in Searches /\ searchGeneration \in Nat /\ searchStopping \in BOOLEAN
    /\ runs \in Seq(DeadRuns \cup LiveRuns) /\ Len(runs) = searchGeneration
    /\ searchPosts \in Seq(Posts)

OfTheSearch(post) == post.generation = searchGeneration
Ending(post) == OfTheSearch(post) /\ post.what = "finish"

(* Only the newest thread goes on, and nothing comes after the end.         *)
OneThreadGoesOn ==
    /\ \A g \in DOMAIN runs : Goes(g) =>
         /\ g = searchGeneration /\ search.running /\ ~searchStopping
         /\ runs[g].root = search.root /\ runs[g].query = search.query
         /\ \A i \in DOMAIN searchPosts : ~Ending(searchPosts[i])
    /\ \A i \in DOMAIN searchPosts :
         /\ searchPosts[i].generation <= searchGeneration
         /\ OfTheSearch(searchPosts[i]) => search.running
         /\ Ending(searchPosts[i]) =>
              \A k \in DOMAIN searchPosts : OfTheSearch(searchPosts[k]) => k <= i
    /\ search.running =>
         search.root \in Directories /\ search.query \in Queries /\ ~search.cancelled /\ ~search.truncated
    /\ search.running /\ ~searchStopping =>
         \/ searchGeneration \in DOMAIN runs /\ Goes(searchGeneration)
         \/ \E i \in DOMAIN searchPosts : Ending(searchPosts[i])

(* What will be shown of what has been found so far.                        *)
Coming == {e \in Entries : \E i \in DOMAIN searchPosts :
             /\ OfTheSearch(searchPosts[i]) /\ searchPosts[i].what = "batch"
             /\ e \in searchPosts[i].batch}
Unposted == IF searchGeneration \in DOMAIN runs /\ Goes(searchGeneration)
            THEN runs[searchGeneration].batch ELSE {}
Gathered == search.results \cup Coming \cup Unposted

(* How far a thread has come: visited are the entries it has seen.          *)
Reached(r, visited) == {r.root} \cup (visited \cap Directories)
Entered(r, visited) == Reached(r, visited) \ ToSet(r.pending)

HasVisited(r, visited) ==
    /\ visited \cap r.left = {} /\ visited \cup r.left \subseteq Below(r.root)
    /\ Cardinality(visited) = r.visited
    /\ Gathered = visited \cap Matching[r.query]
    /\ Cardinality(Gathered) = r.found
    /\ \A i, k \in DOMAIN r.pending : r.pending[i] = r.pending[k] => i = k
    /\ ToSet(r.pending) \subseteq Reached(r, visited)
    /\ \A e \in visited \cup r.left : \E f \in Entered(r, visited) : e \in Children[f]
    /\ IF r.truncated
       THEN r.left = {} /\ (r.found >= MaxResults \/ r.visited >= MaxVisitedEntries)
       ELSE /\ r.found < MaxResults
            /\ \A f \in Entered(r, visited) : Children[f] \subseteq visited \cup r.left

(* What is found is of the search; at the end it is all, or enough.         *)
SearchIsThorough ==
    /\ search.running => Gathered \subseteq Matches /\ Cardinality(Gathered) <= MaxResults
    /\ \A g \in DOMAIN runs : Goes(g) => \E visited \in SUBSET Entries : HasVisited(runs[g], visited)
    /\ \A i \in DOMAIN searchPosts : Ending(searchPosts[i]) =>
         IF searchPosts[i].truncated
         THEN Cardinality(Gathered) >= MaxResults \/ searchPosts[i].visited >= MaxVisitedEntries
         ELSE Gathered = Matches

SearchInv == SearchTypeOK /\ OneThreadGoesOn /\ SearchIsThorough /\ RowsAreTheSearchs

-----------------------------------------------------------------------------
LEMMA SearchBounds == MaxResults \in Nat /\ MaxResults > 0 /\ 0 <= MaxResults
<1>1. MaxResults \in Nat \ {0}
  BY SearchAssumption, Zenon DEF SearchAssumption
<1>. QED
  BY <1>1

LEMMA Counted ==
  /\ \A S \in SUBSET Entries : IsFiniteSet(S) /\ Cardinality(S) \in Nat
  /\ \A S \in SUBSET Entries : \A e \in Entries \ S : Cardinality(S \cup {e}) = Cardinality(S) + 1
  /\ \A S \in SUBSET Entries : \A T \in SUBSET S : Cardinality(T) <= Cardinality(S)
<1>1. ASSUME NEW S \in SUBSET Entries
      PROVE  IsFiniteSet(S) /\ Cardinality(S) \in Nat
  BY SearchAssumption, FS_Subset, FS_CardinalityType DEF SearchAssumption
<1>2. ASSUME NEW S \in SUBSET Entries, NEW e \in Entries \ S
      PROVE  Cardinality(S \cup {e}) = Cardinality(S) + 1
  BY <1>1, FS_AddElement
<1>3. ASSUME NEW S \in SUBSET Entries, NEW T \in SUBSET S
      PROVE  Cardinality(T) <= Cardinality(S)
  BY <1>1, FS_Subset
<1>. QED
  BY <1>1, <1>2, <1>3

(* What is below a folder is closed, and the smallest such set.             *)
LEMMA BelowIsClosed ==
  ASSUME NEW folder \in Directories
  PROVE  /\ Below(folder) \subseteq Entries /\ Children[folder] \subseteq Below(folder)
         /\ \A f \in Below(folder) \cap Directories : Children[f] \subseteq Below(folder)
         /\ \A S \in SUBSET Entries :
              Children[folder] \subseteq S /\ (\A f \in S \cap Directories : Children[f] \subseteq S)
              => Below(folder) \subseteq S
<1>1. \A f \in Directories : Children[f] \subseteq Entries
  BY SearchAssumption DEF SearchAssumption
<1>. QED
  BY <1>1 DEF Below

(* The searches and what they post, one by one.                             *)
LEMMA SearchRows ==
  ASSUME SearchTypeOK
  PROVE  /\ DOMAIN runs = 1 .. searchGeneration /\ searchGeneration \in Nat
         /\ \A g \in DOMAIN runs : runs[g] \in DeadRuns \cup LiveRuns
         /\ \A g \in DOMAIN runs : Goes(g) => runs[g] \in LiveRuns
         /\ DOMAIN searchPosts = 1 .. Len(searchPosts) /\ Len(searchPosts) \in Nat
         /\ \A i \in DOMAIN searchPosts : searchPosts[i] \in Posts
<1>1. /\ DOMAIN runs = 1 .. searchGeneration
      /\ \A g \in 1 .. searchGeneration : runs[g] \in DeadRuns \cup LiveRuns
  BY LenProperties, ElementOfSeq DEF SearchTypeOK
<1>2. DOMAIN searchPosts = 1 .. Len(searchPosts) /\ Len(searchPosts) \in Nat
      /\ \A i \in 1 .. Len(searchPosts) : searchPosts[i] \in Posts
  BY LenProperties, ElementOfSeq DEF SearchTypeOK
<1>3. ASSUME NEW g \in DOMAIN runs, Goes(g) PROVE runs[g] \in LiveRuns
  BY <1>1, <1>3 DEF Goes, DeadRuns
<1>. QED
  BY <1>1, <1>2, <1>3 DEF SearchTypeOK

LEMMA TokensAreSet ==
  ASSUME SearchTypeOK
  PROVE  /\ TokenSet \in Seq(DeadRuns \cup LiveRuns) /\ Len(TokenSet) = searchGeneration
         /\ \A g \in 1 .. searchGeneration : TokenSet[g].token
<1>1. DOMAIN runs = 1 .. searchGeneration /\ searchGeneration \in Nat
  BY SearchRows
<1>2. ASSUME NEW g \in 1 .. searchGeneration
      PROVE  /\ [runs[g] EXCEPT !.token = TRUE] \in DeadRuns \cup LiveRuns
             /\ [runs[g] EXCEPT !.token = TRUE].token
  <2>1. CASE runs[g] \in DeadRuns
    BY <2>1 DEF DeadRuns
  <2>2. CASE runs[g] \in LiveRuns
    BY <2>2 DEF LiveRuns
  <2>. QED
    BY <1>1, <2>1, <2>2, SearchRows
<1>3. TokenSet = [g \in 1 .. searchGeneration |-> [runs[g] EXCEPT !.token = TRUE]]
  BY <1>1 DEF TokenSet
<1>4. TokenSet \in [1 .. searchGeneration -> DeadRuns \cup LiveRuns]
  BY <1>2, <1>3
<1>5. TokenSet \in Seq(DeadRuns \cup LiveRuns) /\ Len(TokenSet) = searchGeneration
  BY <1>1, <1>4
<1>. QED
  BY <1>2, <1>3, <1>5

-----------------------------------------------------------------------------
LEMMA SearchInitially == SearchInit => SearchInv
<1> SUFFICES ASSUME SearchInit PROVE SearchInv
  OBVIOUS
<1>1. /\ search = NoSearch /\ searchGeneration = 0 /\ runs = <<>> /\ searchPosts = <<>>
      /\ searchStopping = FALSE
  BY DEF SearchInit
<1>2. NoSearch \in Searches /\ ~NoSearch.running /\ NoSearch.results = {} /\ NoSearch.root = ""
      /\ ~NoSearch.truncated
  BY DEF NoSearch, Searches
<1>3. DOMAIN runs = {} /\ DOMAIN searchPosts = {}
  BY <1>1
<1>4. SearchTypeOK
  <2>1. <<>> \in Seq(DeadRuns \cup LiveRuns) /\ <<>> \in Seq(Posts) /\ Len(<<>>) = 0
    BY EmptySeq
  <2>. QED
    BY <1>1, <1>2, <2>1 DEF SearchTypeOK
<1>5. OneThreadGoesOn
  BY <1>1, <1>2, <1>3 DEF OneThreadGoesOn
<1>6. SearchIsThorough
  BY <1>1, <1>2, <1>3 DEF SearchIsThorough
<1>7. Matches = {}
  BY <1>1, <1>2, SearchAssumption DEF Matches, SearchAssumption
<1>8. RowsAreTheSearchs
  <2>1. search.results = {} /\ ~search.truncated
    BY <1>1, <1>2
  <2>2. Cardinality({}) = 0 /\ 0 <= MaxResults
    BY FS_EmptySet, SearchBounds
  <2>. QED
    BY <1>7, <2>1, <2>2 DEF RowsAreTheSearchs
<1>. QED
  BY <1>4, <1>5, <1>6, <1>8 DEF SearchInv

(* A new generation: no thread goes on, and nothing that waits is of it.    *)
LEMMA NothingGoesOn ==
  ASSUME SearchInv, NEW last \in DeadRuns, last.token,
         runs' = Append(TokenSet, last), searchGeneration' = searchGeneration + 1,
         UNCHANGED <<searchPosts, searchStopping>>
  PROVE  /\ runs' \in Seq(DeadRuns \cup LiveRuns) /\ Len(runs') = searchGeneration'
         /\ searchGeneration' \in Nat /\ searchPosts' \in Seq(Posts) /\ searchStopping' \in BOOLEAN
         /\ \A g \in DOMAIN runs' : ~Goes(g)'
         /\ \A i \in DOMAIN searchPosts' :
              ~OfTheSearch(searchPosts[i])' /\ searchPosts'[i].generation <= searchGeneration'
<1>1. SearchTypeOK /\ OneThreadGoesOn
  BY DEF SearchInv
<1>2. /\ TokenSet \in Seq(DeadRuns \cup LiveRuns) /\ Len(TokenSet) = searchGeneration
      /\ \A g \in 1 .. searchGeneration : TokenSet[g].token
  BY <1>1, TokensAreSet
<1>3. searchGeneration \in Nat /\ searchPosts' \in Seq(Posts) /\ searchStopping' \in BOOLEAN
  BY <1>1 DEF SearchTypeOK
<1>4. /\ runs' \in Seq(DeadRuns \cup LiveRuns) /\ Len(runs') = searchGeneration + 1
      /\ \A g \in 1 .. searchGeneration : runs'[g] = TokenSet[g]
      /\ runs'[searchGeneration + 1] = last
  BY <1>2, <1>3, AppendProperties
<1>5. \A g \in 1 .. searchGeneration + 1 : runs'[g].token
  BY <1>2, <1>3, <1>4
<1>6. DOMAIN runs' = 1 .. searchGeneration + 1
  BY <1>4, LenProperties
<1>7. \A i \in DOMAIN searchPosts :
         searchPosts[i].generation \in Nat /\ searchPosts[i].generation <= searchGeneration
  BY <1>1, SearchRows DEF OneThreadGoesOn, Posts
<1>. QED
  BY <1>3, <1>4, <1>5, <1>6, <1>7 DEF Goes, OfTheSearch

(* It shows no search, one that failed, or one that was cancelled.          *)
LEMMA IdleSearch ==
  ASSUME SearchInv, NEW last \in DeadRuns, last.token,
         runs' = Append(TokenSet, last), searchGeneration' = searchGeneration + 1,
         UNCHANGED <<searchPosts, searchStopping>>,
         search' \in Searches, ~search'.running, RowsAreTheSearchs'
  PROVE  SearchInv'
<1>1. /\ runs' \in Seq(DeadRuns \cup LiveRuns) /\ Len(runs') = searchGeneration'
      /\ searchGeneration' \in Nat /\ searchPosts' \in Seq(Posts) /\ searchStopping' \in BOOLEAN
      /\ \A g \in DOMAIN runs' : ~Goes(g)'
      /\ \A i \in DOMAIN searchPosts' :
           ~OfTheSearch(searchPosts[i])' /\ searchPosts'[i].generation <= searchGeneration'
  BY NothingGoesOn
<1>2. SearchTypeOK'
  BY <1>1 DEF SearchTypeOK
<1>3. \A i \in DOMAIN searchPosts' : ~Ending(searchPosts[i])'
  BY <1>1 DEF Ending
<1>4. OneThreadGoesOn'
  BY <1>1, <1>3 DEF OneThreadGoesOn
<1>5. SearchIsThorough'
  BY <1>1, <1>3 DEF SearchIsThorough
<1>. QED
  BY <1>2, <1>4, <1>5 DEF SearchInv

LEMMA EmptyRows ==
  ASSUME SearchInv, search'.results = {}, search'.root \notin Directories,
         ~search'.truncated
  PROVE  RowsAreTheSearchs'
<1>1. Matches' = {}
  BY DEF Matches
<1>2. Cardinality({}) = 0 /\ 0 <= MaxResults
  BY FS_EmptySet, SearchBounds
<1>. QED
  BY <1>1, <1>2 DEF RowsAreTheSearchs

LEMMA DeadRun == [alive |-> FALSE, token |-> TRUE] \in DeadRuns
BY DEF DeadRuns

LEMMA ClearKeeps == ASSUME SearchInv, clear PROVE SearchInv'
<1>1. /\ search' = NoSearch /\ searchGeneration' = searchGeneration + 1
      /\ runs' = Append(TokenSet, [alive |-> FALSE, token |-> TRUE])
      /\ UNCHANGED <<searchPosts, searchStopping>>
  BY DEF clear
<1>2. /\ NoSearch \in Searches /\ ~NoSearch.running /\ NoSearch.results = {}
      /\ NoSearch.root \notin Directories /\ ~NoSearch.truncated
  BY SearchAssumption DEF NoSearch, Searches, SearchAssumption
<1>3. RowsAreTheSearchs'
  BY <1>1, <1>2, EmptyRows
<1>. QED
  BY <1>1, <1>2, <1>3, DeadRun, IdleSearch

LEMMA StartFailedKeeps ==
  ASSUME SearchInv, NEW root \in SearchRoots, NEW query \in Queries, startFailed(root, query),
         searchGeneration' = searchGeneration + 1, UNCHANGED <<searchPosts, searchStopping>>
  PROVE  SearchInv'
<1>1. /\ root \notin Directories
      /\ search' = [NoSearch EXCEPT !.root = root, !.query = query, !.error = TRUE]
      /\ runs' = Append(TokenSet, [alive |-> FALSE, token |-> TRUE])
  BY DEF startFailed
<1>2. /\ search' \in Searches /\ ~search'.running /\ search'.results = {}
      /\ search'.root \notin Directories /\ ~search'.truncated
  BY <1>1 DEF NoSearch, Searches
<1>3. RowsAreTheSearchs'
  BY <1>2, EmptyRows
<1>. QED
  BY <1>1, <1>2, <1>3, DeadRun, IdleSearch

LEMMA CancelSearchKeeps == ASSUME SearchInv, cancelSearch PROVE SearchInv'
<1>1. /\ search' = [search EXCEPT !.running = FALSE, !.cancelled = TRUE]
      /\ searchGeneration' = searchGeneration + 1 /\ search.running
      /\ runs' = Append(TokenSet, [alive |-> FALSE, token |-> TRUE])
      /\ UNCHANGED <<searchPosts, searchStopping>>
  BY DEF cancelSearch
<1>2. search \in Searches /\ RowsAreTheSearchs /\ ~search.truncated
  BY <1>1 DEF SearchInv, SearchTypeOK, OneThreadGoesOn
<1>3. /\ search' \in Searches /\ ~search'.running /\ search'.cancelled /\ ~search'.truncated
      /\ search'.results = search.results /\ search'.root = search.root /\ search'.query = search.query
  BY <1>1, <1>2 DEF Searches
<1>4. Matches' = Matches
  BY <1>3 DEF Matches
<1>5. RowsAreTheSearchs'
  BY <1>2, <1>3, <1>4 DEF RowsAreTheSearchs
<1>. QED
  BY <1>1, <1>3, <1>5, DeadRun, IdleSearch

-----------------------------------------------------------------------------
(* A new search has its thread, which has not entered a folder.             *)
LEMMA StartRunningKeeps ==
  ASSUME SearchInv, NEW root \in SearchRoots, NEW query \in Queries, startRunning(root, query),
         ~searchStopping,
         searchGeneration' = searchGeneration + 1, UNCHANGED <<searchPosts, searchStopping>>
  PROVE  SearchInv'
<1> DEFINE thread == [alive |-> TRUE, token |-> FALSE, root |-> root, query |-> query,
                      pending |-> <<root>>, left |-> {}, batch |-> {}, found |-> 0,
                      visited |-> 0, lastProgress |-> 0, truncated |-> FALSE]
<1>1. /\ root \in Directories /\ runs' = Append(TokenSet, thread)
      /\ search' = [NoSearch EXCEPT !.root = root, !.query = query, !.running = TRUE]
  BY DEF startRunning
<1>2. thread \in LiveRuns /\ thread.alive /\ ~thread.token
  <2>1. <<root>> \in Seq(Directories)
    BY <1>1
  <2>. QED
    BY <1>1, <2>1 DEF LiveRuns
<1>3. /\ thread.root = root /\ thread.query = query /\ thread.pending = <<root>>
      /\ thread.left = {} /\ thread.batch = {} /\ thread.found = 0 /\ thread.visited = 0
      /\ ~thread.truncated
  OBVIOUS
<1> HIDE DEF thread
<1>4. SearchTypeOK /\ OneThreadGoesOn /\ searchGeneration \in Nat
  BY DEF SearchInv, SearchTypeOK
<1>5. /\ TokenSet \in Seq(DeadRuns \cup LiveRuns) /\ Len(TokenSet) = searchGeneration
      /\ \A g \in 1 .. searchGeneration : TokenSet[g].token
  BY <1>4, TokensAreSet
<1>6. /\ runs' \in Seq(DeadRuns \cup LiveRuns) /\ Len(runs') = searchGeneration + 1
      /\ \A g \in 1 .. searchGeneration : runs'[g] = TokenSet[g]
      /\ runs'[searchGeneration + 1] = thread
  BY <1>1, <1>2, <1>4, <1>5, AppendProperties
<1>7. DOMAIN runs' = 1 .. searchGeneration + 1
  BY <1>6, LenProperties
<1>8. \A g \in DOMAIN runs' : Goes(g)' <=> g = searchGeneration'
  BY <1>2, <1>4, <1>5, <1>6, <1>7 DEF Goes
<1>9. /\ search' \in Searches /\ search'.running /\ ~search'.cancelled /\ ~search'.truncated
      /\ search'.root = root /\ search'.query = query /\ search'.results = {}
  BY <1>1 DEF NoSearch, Searches
<1>10. \A i \in DOMAIN searchPosts :
          searchPosts[i].generation \in Nat /\ searchPosts[i].generation <= searchGeneration
  BY <1>4, SearchRows DEF OneThreadGoesOn, Posts
<1>11. \A i \in DOMAIN searchPosts' : /\ ~OfTheSearch(searchPosts[i])' /\ ~Ending(searchPosts[i])'
                                      /\ searchPosts'[i].generation <= searchGeneration'
  BY <1>4, <1>10 DEF OfTheSearch, Ending
<1>12. SearchTypeOK'
  BY <1>4, <1>6, <1>9 DEF SearchTypeOK
<1>13. OneThreadGoesOn'
  BY <1>1, <1>3, <1>4, <1>6, <1>7, <1>8, <1>9, <1>11 DEF OneThreadGoesOn
<1>14. Gathered' = {}
  BY <1>3, <1>4, <1>6, <1>9, <1>11 DEF Gathered, Coming, Unposted
<1>15. RowsAreTheSearchs'
  BY <1>9, FS_EmptySet, SearchBounds DEF RowsAreTheSearchs
<1>16. HasVisited(runs[searchGeneration], {})'
  <2>1. runs'[searchGeneration'] = thread
    BY <1>6
  <2>2. DOMAIN <<root>> = {1} /\ ToSet(<<root>>) = {root}
    BY DEF ToSet
  <2>3. Reached(thread, {}) = {root} /\ Entered(thread, {}) = {}
    BY <1>3, <2>2 DEF Reached, Entered
  <2>4. Cardinality({}) = 0 /\ 0 < MaxResults
    BY FS_EmptySet, SearchBounds
  <2>. QED
    BY <1>3, <1>14, <2>1, <2>2, <2>3, <2>4 DEF HasVisited, Reached, Entered
<1>17. SearchIsThorough'
  <2>1. Cardinality(Gathered') <= MaxResults
    BY <1>14, FS_EmptySet, SearchBounds
  <2>2. \A g \in DOMAIN runs' : Goes(g)' => HasVisited(runs[g], {})'
    BY <1>8, <1>16
  <2>. QED
    BY <1>11, <1>14, <2>1, <2>2 DEF SearchIsThorough
<1>. QED
  BY <1>12, <1>13, <1>15, <1>17 DEF SearchInv

-----------------------------------------------------------------------------
(* What the GUI thread takes is the first that waits.                       *)
LEMMA FirstDelivered ==
  ASSUME SearchTypeOK, searchPosts # <<>>, searchPosts' = Tail(searchPosts)
  PROVE  /\ Head(searchPosts) = searchPosts[1] /\ 1 \in DOMAIN searchPosts
         /\ searchPosts' \in Seq(Posts)
         /\ DOMAIN searchPosts' = 1 .. Len(searchPosts) - 1 /\ DOMAIN searchPosts = 1 .. Len(searchPosts)
         /\ Len(searchPosts) \in Nat \ {0}
         /\ \A i \in 1 .. Len(searchPosts) - 1 : searchPosts'[i] = searchPosts[i + 1]
<1>1. /\ searchPosts \in Seq(Posts) /\ Len(searchPosts) \in Nat \ {0}
      /\ DOMAIN searchPosts = 1 .. Len(searchPosts)
  BY EmptySeq, LenProperties DEF SearchTypeOK
<1>2. /\ searchPosts' \in Seq(Posts) /\ Len(searchPosts') = Len(searchPosts) - 1
      /\ \A i \in 1 .. Len(searchPosts') : searchPosts'[i] = searchPosts[i + 1]
  BY <1>1, HeadTailProperties
<1>3. DOMAIN searchPosts' = 1 .. Len(searchPosts')
  BY <1>2, LenProperties
<1>. QED
  BY <1>1, <1>2, <1>3

(* An answer that goes to the rows, or that only reports: what is gathered  *)
(* stays the same.                                                          *)
LEMMA TakingKeeps ==
  ASSUME SearchInv, searchPosts # <<>>, searchPosts' = Tail(searchPosts),
         UNCHANGED <<searchGeneration, runs, searchStopping>>,
         ~Ending(Head(searchPosts)), search' \in Searches,
         search' = [search EXCEPT !.results = search'.results, !.visited = search'.visited],
         OfTheSearch(Head(searchPosts)) /\ Head(searchPosts).what = "batch"
           => search'.results = search.results \cup Head(searchPosts).batch,
         ~(OfTheSearch(Head(searchPosts)) /\ Head(searchPosts).what = "batch")
           => search'.results = search.results,
         search.running \/ search' = search
  PROVE  SearchInv'
<1>1. SearchTypeOK /\ OneThreadGoesOn /\ SearchIsThorough /\ RowsAreTheSearchs
  BY DEF SearchInv
<1>2. /\ Head(searchPosts) = searchPosts[1] /\ 1 \in DOMAIN searchPosts
      /\ searchPosts' \in Seq(Posts)
      /\ DOMAIN searchPosts' = 1 .. Len(searchPosts) - 1 /\ DOMAIN searchPosts = 1 .. Len(searchPosts)
      /\ Len(searchPosts) \in Nat \ {0}
      /\ \A i \in 1 .. Len(searchPosts) - 1 : searchPosts'[i] = searchPosts[i + 1]
  BY <1>1, FirstDelivered
<1>3. /\ search'.root = search.root /\ search'.query = search.query
      /\ search'.running = search.running /\ search'.cancelled = search.cancelled
      /\ search'.truncated = search.truncated
  BY <1>1 DEF SearchTypeOK, Searches
<1>4. \A i \in DOMAIN searchPosts' : /\ i + 1 \in DOMAIN searchPosts
                                     /\ searchPosts'[i] = searchPosts[i + 1]
                                     /\ OfTheSearch(searchPosts[i])' = OfTheSearch(searchPosts[i + 1])
                                     /\ Ending(searchPosts[i])' = Ending(searchPosts[i + 1])
  BY <1>2 DEF OfTheSearch, Ending
<1>5. \A i \in DOMAIN searchPosts : i = 1 \/ (i - 1 \in DOMAIN searchPosts' /\ i = (i - 1) + 1)
  BY <1>2
<1>6. ~Ending(searchPosts[1])
  BY <1>2 DEF Ending
<1>7. Goes(searchGeneration)' = Goes(searchGeneration) /\ Matches' = Matches
      /\ \A g \in DOMAIN runs : Goes(g)' = Goes(g)
  BY <1>3 DEF Goes, Matches
<1>8. Unposted' = Unposted
  BY <1>7 DEF Unposted
<1>9. Gathered' = Gathered
  <2>1. Coming = Coming' \cup (IF OfTheSearch(searchPosts[1]) /\ searchPosts[1].what = "batch"
                               THEN searchPosts[1].batch ELSE {})
    <3>1. searchPosts[1].batch \subseteq Entries
      BY <1>1, <1>2, SearchRows DEF Posts
    <3>2. ASSUME NEW e \in Coming PROVE
             e \in Coming' \/ (/\ OfTheSearch(searchPosts[1]) /\ searchPosts[1].what = "batch"
                               /\ e \in searchPosts[1].batch)
      <4>1. PICK i \in DOMAIN searchPosts : /\ OfTheSearch(searchPosts[i])
                                            /\ searchPosts[i].what = "batch" /\ e \in searchPosts[i].batch
        BY <3>2 DEF Coming
      <4>2. CASE i = 1
        BY <4>1, <4>2
      <4>3. CASE i # 1
        <5>1. /\ i - 1 \in DOMAIN searchPosts' /\ searchPosts'[i - 1] = searchPosts[i]
              /\ OfTheSearch(searchPosts[i - 1])'
          BY <1>2, <1>4, <1>5, <4>1, <4>3
        <5>. QED
          BY <4>1, <5>1, <3>2 DEF Coming
      <4>. QED
        BY <4>2, <4>3
    <3>3. Coming' \subseteq Coming
      BY <1>4 DEF Coming
    <3>4. OfTheSearch(searchPosts[1]) /\ searchPosts[1].what = "batch" => searchPosts[1].batch \subseteq Coming
      BY <1>2, <3>1 DEF Coming
    <3>. QED
      BY <3>2, <3>3, <3>4
  <2>. QED
    BY <1>2, <1>8, <2>1 DEF Gathered
<1>10. SearchTypeOK'
  BY <1>1, <1>2 DEF SearchTypeOK
<1>11. OneThreadGoesOn'
  <2>1. \A g \in DOMAIN runs' : Goes(g)' =>
          /\ g = searchGeneration' /\ search'.running /\ ~searchStopping'
          /\ runs'[g].root = search'.root /\ runs'[g].query = search'.query
          /\ \A i \in DOMAIN searchPosts' : ~Ending(searchPosts[i])'
    BY <1>1, <1>3, <1>4, <1>7 DEF OneThreadGoesOn
  <2>2. \A i \in DOMAIN searchPosts' : /\ searchPosts'[i].generation <= searchGeneration'
                                       /\ OfTheSearch(searchPosts[i])' => search'.running
    BY <1>1, <1>3, <1>4 DEF OneThreadGoesOn
  <2>3. \A i \in DOMAIN searchPosts' : Ending(searchPosts[i])' =>
           \A k \in DOMAIN searchPosts' : OfTheSearch(searchPosts[k])' => k <= i
    <3>1. ASSUME NEW i \in DOMAIN searchPosts', Ending(searchPosts[i])',
                 NEW k \in DOMAIN searchPosts', OfTheSearch(searchPosts[k])'
          PROVE  k <= i
      <4>1. Ending(searchPosts[i + 1]) /\ OfTheSearch(searchPosts[k + 1])
        BY <1>4, <3>1
      <4>2. k + 1 <= i + 1
        BY <1>1, <1>4, <4>1 DEF OneThreadGoesOn
      <4>. QED
        BY <1>2, <4>2
    <3>. QED
      BY <3>1
  <2>4. search'.running => /\ search'.root \in Directories /\ search'.query \in Queries
                           /\ ~search'.cancelled /\ ~search'.truncated
    BY <1>1, <1>3 DEF OneThreadGoesOn
  <2>5. search'.running /\ ~searchStopping' =>
           \/ searchGeneration' \in DOMAIN runs' /\ Goes(searchGeneration)'
           \/ \E i \in DOMAIN searchPosts' : Ending(searchPosts[i])'
    <3>1. ASSUME NEW i \in DOMAIN searchPosts, Ending(searchPosts[i])
          PROVE  \E k \in DOMAIN searchPosts' : Ending(searchPosts[k])'
      <4>1. i - 1 \in DOMAIN searchPosts' /\ i = (i - 1) + 1
        BY <1>5, <1>6, <3>1
      <4>2. Ending(searchPosts[i - 1])'
        BY <1>4, <3>1, <4>1
      <4>. QED
        BY <4>1, <4>2
    <3>. QED
      BY <1>1, <1>3, <1>7, <3>1 DEF OneThreadGoesOn
  <2>. QED
    BY <2>1, <2>2, <2>3, <2>4, <2>5 DEF OneThreadGoesOn
<1>12. SearchIsThorough'
  <2>1. \A r, visited : HasVisited(r, visited)' = HasVisited(r, visited)
    BY <1>9 DEF HasVisited, Entered, Reached
  <2>2. \A g \in DOMAIN runs' : Goes(g)' => \E visited \in SUBSET Entries : HasVisited(runs[g], visited)'
    BY <1>1, <1>7, <2>1 DEF SearchIsThorough
  <2>3. \A i \in DOMAIN searchPosts' : Ending(searchPosts[i])' =>
         IF searchPosts'[i].truncated
         THEN Cardinality(Gathered') >= MaxResults \/ searchPosts'[i].visited >= MaxVisitedEntries
         ELSE Gathered' = Matches'
    BY <1>1, <1>4, <1>7, <1>9 DEF SearchIsThorough
  <2>4. search'.running => Gathered' \subseteq Matches' /\ Cardinality(Gathered') <= MaxResults
    BY <1>1, <1>3, <1>7, <1>9 DEF SearchIsThorough
  <2>. QED
    BY <2>2, <2>3, <2>4 DEF SearchIsThorough
<1>13. RowsAreTheSearchs'
  <2>1. CASE search' = search
    BY <1>1, <1>7, <2>1 DEF RowsAreTheSearchs
  <2>2. CASE search.running
    <3>1. Gathered' \subseteq Matches' /\ Cardinality(Gathered') <= MaxResults /\ ~search'.truncated
      BY <1>1, <1>3, <1>7, <1>9, <2>2 DEF SearchIsThorough, OneThreadGoesOn
    <3>2. search'.results \subseteq Gathered'
      BY DEF Gathered
    <3>3. Gathered' \subseteq Entries
      <4>1. Matches' \subseteq Entries
        BY DEF Matches, Below
      <4>. QED
        BY <3>1, <4>1
    <3>4. Cardinality(search'.results) <= Cardinality(Gathered')
      BY <3>2, <3>3, Counted
    <3>5. Cardinality(search'.results) \in Nat /\ Cardinality(Gathered') \in Nat /\ MaxResults \in Nat
      BY <3>2, <3>3, Counted, SearchBounds
    <3>6. Cardinality(search'.results) <= MaxResults
      BY <3>1, <3>4, <3>5
    <3>. QED
      BY <1>3, <2>2, <3>1, <3>2, <3>6 DEF RowsAreTheSearchs
  <2>. QED
    BY <2>1, <2>2
<1>. QED
  BY <1>10, <1>11, <1>12, <1>13 DEF SearchInv

(* The end: nothing else of the search waits, so the rows are what was      *)
(* gathered.                                                                *)
LEMMA FinishSearchKeeps ==
  ASSUME SearchInv, searchPosts # <<>>, searchPosts' = Tail(searchPosts),
         UNCHANGED <<searchGeneration, runs, searchStopping>>,
         Ending(Head(searchPosts)), finishSearch(Head(searchPosts))
  PROVE  SearchInv'
<1>1. SearchTypeOK /\ OneThreadGoesOn /\ SearchIsThorough /\ RowsAreTheSearchs
  BY DEF SearchInv
<1>2. /\ Head(searchPosts) = searchPosts[1] /\ 1 \in DOMAIN searchPosts
      /\ searchPosts' \in Seq(Posts)
      /\ DOMAIN searchPosts' = 1 .. Len(searchPosts) - 1 /\ DOMAIN searchPosts = 1 .. Len(searchPosts)
      /\ Len(searchPosts) \in Nat \ {0}
      /\ \A i \in 1 .. Len(searchPosts) - 1 : searchPosts'[i] = searchPosts[i + 1]
  BY <1>1, FirstDelivered
<1>3. /\ OfTheSearch(searchPosts[1]) /\ search.running /\ searchPosts[1] \in Posts
      /\ searchPosts[1].what = "finish"
  BY <1>1, <1>2, SearchRows DEF OneThreadGoesOn, Ending
<1>4. search' = [search EXCEPT !.running = FALSE, !.cancelled = FALSE,
                              !.truncated = searchPosts[1].truncated, !.visited = searchPosts[1].visited]
  BY <1>2, <1>3 DEF finishSearch, OfTheSearch
<1>5. /\ search' \in Searches /\ ~search'.running /\ search'.results = search.results
      /\ search'.root = search.root /\ search'.query = search.query
      /\ search'.truncated = searchPosts[1].truncated /\ search'.visited = searchPosts[1].visited
  BY <1>1, <1>3, <1>4 DEF SearchTypeOK, Searches, Posts
<1>6. /\ \A k \in DOMAIN searchPosts : OfTheSearch(searchPosts[k]) => k <= 1
      /\ \A g \in DOMAIN runs : ~Goes(g)
  BY <1>1, <1>2 DEF OneThreadGoesOn
<1>7. \A i \in DOMAIN searchPosts' : ~OfTheSearch(searchPosts[i])' /\ ~Ending(searchPosts[i])'
  <2>1. ASSUME NEW i \in DOMAIN searchPosts' PROVE ~OfTheSearch(searchPosts[i])'
    <3>1. i + 1 \in DOMAIN searchPosts /\ ~(i + 1 <= 1) /\ searchPosts'[i] = searchPosts[i + 1]
      BY <1>2
    <3>. QED
      BY <1>6, <3>1 DEF OfTheSearch
  <2>. QED
    BY <2>1 DEF Ending
<1>8. Gathered = search.results
  <2>1. Coming = {}
    <3>1. SUFFICES ASSUME NEW i \in DOMAIN searchPosts, OfTheSearch(searchPosts[i]),
                          searchPosts[i].what = "batch"
                   PROVE  FALSE
      BY DEF Coming
    <3>2. i = 1
      BY <1>2, <1>6, <3>1
    <3>. QED
      BY <1>3, <3>1, <3>2
  <2>2. Unposted = {}
    BY <1>6 DEF Unposted
  <2>. QED
    BY <2>1, <2>2 DEF Gathered
<1>9. SearchTypeOK'
  BY <1>1, <1>2, <1>5 DEF SearchTypeOK
<1>10. \A g \in DOMAIN runs' : ~Goes(g)'
  BY <1>6 DEF Goes
<1>11. \A i \in DOMAIN searchPosts' : searchPosts'[i].generation <= searchGeneration'
  BY <1>1, <1>2 DEF OneThreadGoesOn
<1>12. OneThreadGoesOn'
  BY <1>5, <1>7, <1>10, <1>11 DEF OneThreadGoesOn
<1>13. SearchIsThorough'
  BY <1>5, <1>7, <1>10 DEF SearchIsThorough
<1>14. RowsAreTheSearchs'
  <2>1. Matches' = Matches
    BY <1>5 DEF Matches
  <2>2. /\ IF searchPosts[1].truncated
           THEN Cardinality(search.results) >= MaxResults \/ searchPosts[1].visited >= MaxVisitedEntries
           ELSE search.results = Matches
        /\ search.results \subseteq Matches /\ Cardinality(search.results) <= MaxResults
    BY <1>1, <1>2, <1>3, <1>8 DEF SearchIsThorough
  <2>. QED
    BY <1>5, <2>1, <2>2 DEF RowsAreTheSearchs
<1>. QED
  BY <1>9, <1>12, <1>13, <1>14 DEF SearchInv

LEMMA Least ==
  \A n, m \in Nat : AtLeast(n, m) \in Nat
BY DEF AtLeast

LEMMA DeliverKeeps == ASSUME SearchInv, Deliver PROVE SearchInv'
<1> DEFINE post == Head(searchPosts)
<1>1. /\ searchPosts # <<>> /\ searchPosts' = Tail(searchPosts)
      /\ UNCHANGED <<searchGeneration, runs, searchStopping>>
  BY DEF Deliver
<1>2. /\ SearchTypeOK /\ OneThreadGoesOn /\ search \in Searches /\ post \in Posts
      /\ OfTheSearch(post) => search.running
  BY <1>1, FirstDelivered, SearchRows DEF SearchInv, SearchTypeOK, OneThreadGoesOn
<1>3. /\ post.batch \subseteq Entries /\ post.visited \in Nat
      /\ search.results \subseteq Entries /\ search.visited \in Nat
  BY <1>2 DEF Posts, Searches
<1> HIDE DEF post
<1>4. CASE post.what = "batch" /\ appendBatch(post)
  <2>1. CASE ~OfTheSearch(post) \/ post.batch = {}
    <3>1. search' = search
      BY <1>4, <2>1 DEF appendBatch, OfTheSearch
    <3>2. /\ search' \in Searches
          /\ search' = [search EXCEPT !.results = search'.results, !.visited = search'.visited]
      BY <1>2, <3>1 DEF Searches
    <3>3. search'.results = search.results /\ (OfTheSearch(post) => search'.results = search.results \cup post.batch)
      BY <2>1, <3>1
    <3>. QED
      BY <1>1, <1>4, <3>1, <3>2, <3>3, TakingKeeps DEF post, Ending
  <2>2. CASE OfTheSearch(post) /\ post.batch # {}
    <3>1. search' = [search EXCEPT !.results = @ \cup post.batch, !.visited = AtLeast(post.visited, @)]
      BY <1>4, <2>2 DEF appendBatch, OfTheSearch
    <3>2. AtLeast(post.visited, search.visited) \in Nat
      BY <1>3, Least
    <3>3. /\ search' \in Searches /\ search'.results = search.results \cup post.batch
          /\ search' = [search EXCEPT !.results = search'.results, !.visited = search'.visited]
      BY <1>2, <1>3, <3>1, <3>2 DEF Searches
    <3>. QED
      BY <1>1, <1>2, <1>4, <2>2, <3>3, TakingKeeps DEF post, Ending
  <2>. QED
    BY <2>1, <2>2
<1>5. CASE post.what = "progress" /\ publishProgress(post)
  <2>1. CASE ~OfTheSearch(post)
    <3>1. search' = search
      BY <1>5, <2>1 DEF publishProgress, OfTheSearch
    <3>2. /\ search' \in Searches
          /\ search' = [search EXCEPT !.results = search'.results, !.visited = search'.visited]
      BY <1>2, <3>1 DEF Searches
    <3>. QED
      BY <1>1, <1>5, <2>1, <3>1, <3>2, TakingKeeps DEF post, Ending
  <2>2. CASE OfTheSearch(post)
    <3>1. search' = [search EXCEPT !.visited = AtLeast(post.visited, @)]
      BY <1>5, <2>2 DEF publishProgress, OfTheSearch
    <3>2. AtLeast(post.visited, search.visited) \in Nat
      BY <1>3, Least
    <3>3. /\ search' \in Searches /\ search'.results = search.results
          /\ search' = [search EXCEPT !.results = search'.results, !.visited = search'.visited]
      BY <1>2, <1>3, <3>1, <3>2 DEF Searches
    <3>. QED
      BY <1>1, <1>2, <1>5, <2>2, <3>3, TakingKeeps DEF post, Ending
  <2>. QED
    BY <2>1, <2>2
<1>6. CASE post.what = "finish" /\ finishSearch(post)
  <2>1. CASE OfTheSearch(post)
    <3>1. Ending(post)
      BY <1>6, <2>1 DEF Ending
    <3>. QED
      BY <1>1, <1>6, <3>1, FinishSearchKeeps DEF post
  <2>2. CASE ~OfTheSearch(post)
    <3>1. search' = search
      BY <1>6, <2>2 DEF finishSearch, OfTheSearch
    <3>2. /\ search' \in Searches
          /\ search' = [search EXCEPT !.results = search'.results, !.visited = search'.visited]
      BY <1>2, <3>1 DEF Searches
    <3>3. ~Ending(post)
      BY <2>2 DEF Ending
    <3>. QED
      BY <1>1, <1>6, <2>2, <3>1, <3>2, <3>3, TakingKeeps DEF post
  <2>. QED
    BY <2>1, <2>2
<1>. QED
  BY <1>4, <1>5, <1>6 DEF Deliver, post

(* Destroying it sets every token.                                          *)
LEMMA DestroySearchKeeps == ASSUME SearchInv, DestroySearch PROVE SearchInv'
<1>1. /\ searchStopping' = TRUE /\ runs' = TokenSet
      /\ UNCHANGED <<search, searchGeneration, searchPosts>>
  BY DEF DestroySearch
<1>2. SearchTypeOK /\ OneThreadGoesOn /\ SearchIsThorough /\ RowsAreTheSearchs
  BY DEF SearchInv
<1>3. /\ runs' \in Seq(DeadRuns \cup LiveRuns) /\ Len(runs') = searchGeneration
      /\ \A g \in 1 .. searchGeneration : runs'[g].token
  BY <1>1, <1>2, TokensAreSet
<1>4. DOMAIN runs' = 1 .. searchGeneration
  BY <1>3, LenProperties
<1>5. \A g \in DOMAIN runs' : ~Goes(g)'
  BY <1>3, <1>4 DEF Goes
<1>6. \A i \in DOMAIN searchPosts' : /\ OfTheSearch(searchPosts[i])' = OfTheSearch(searchPosts[i])
                                     /\ Ending(searchPosts[i])' = Ending(searchPosts[i])
  BY <1>1 DEF OfTheSearch, Ending
<1>7. SearchTypeOK'
  BY <1>1, <1>2, <1>3 DEF SearchTypeOK
<1>8. OneThreadGoesOn'
  BY <1>1, <1>2, <1>5, <1>6 DEF OneThreadGoesOn
<1>9. Matches' = Matches /\ Coming' = Coming /\ Unposted' = {}
  BY <1>1, <1>5 DEF Matches, Coming, Unposted, OfTheSearch
<1>10. Gathered' \subseteq Gathered
  BY <1>1, <1>9 DEF Gathered
<1>11. \A i \in DOMAIN searchPosts : Ending(searchPosts[i]) => Gathered' = Gathered
  <2>1. ASSUME NEW i \in DOMAIN searchPosts, Ending(searchPosts[i]) PROVE Unposted = {}
    BY <1>2, <2>1 DEF Unposted, OneThreadGoesOn
  <2>. QED
    BY <1>1, <1>9, <2>1 DEF Gathered
<1>12. search.running => Gathered' \subseteq Matches' /\ Cardinality(Gathered') <= MaxResults
  <2> SUFFICES ASSUME search.running
               PROVE  Gathered' \subseteq Matches' /\ Cardinality(Gathered') <= MaxResults
    OBVIOUS
  <2>1. Gathered \subseteq Matches /\ Cardinality(Gathered) <= MaxResults
    BY <1>2 DEF SearchIsThorough
  <2>2. Matches \subseteq Entries
    BY DEF Matches, Below
  <2>3. Cardinality(Gathered') <= Cardinality(Gathered)
    BY <1>10, <2>1, <2>2, Counted
  <2>4. Cardinality(Gathered') \in Nat /\ Cardinality(Gathered) \in Nat /\ MaxResults \in Nat
    BY <1>10, <2>1, <2>2, Counted, SearchBounds
  <2>. QED
    BY <1>9, <1>10, <2>1, <2>3, <2>4
<1>13. SearchIsThorough'
  BY <1>1, <1>2, <1>5, <1>6, <1>9, <1>11, <1>12 DEF SearchIsThorough
<1>14. RowsAreTheSearchs'
  BY <1>1, <1>2, <1>9 DEF RowsAreTheSearchs
<1>. QED
  BY <1>7, <1>8, <1>13, <1>14 DEF SearchInv

-----------------------------------------------------------------------------
(* What a thread posts comes after what waits.                              *)
LEMMA Posted ==
  ASSUME SearchTypeOK, NEW more \in Seq(Posts), searchPosts' = searchPosts \o more,
         searchGeneration' = searchGeneration
  PROVE  /\ searchPosts' \in Seq(Posts) /\ DOMAIN more = 1 .. Len(more) /\ Len(more) \in Nat
         /\ DOMAIN searchPosts' = 1 .. Len(searchPosts) + Len(more)
         /\ DOMAIN searchPosts = 1 .. Len(searchPosts) /\ Len(searchPosts) \in Nat
         /\ \A i \in DOMAIN searchPosts : i \in DOMAIN searchPosts' /\ searchPosts'[i] = searchPosts[i]
         /\ \A k \in DOMAIN more : /\ Len(searchPosts) + k \in DOMAIN searchPosts'
                                   /\ searchPosts'[Len(searchPosts) + k] = more[k]
         /\ \A i \in DOMAIN searchPosts' :
              i \in DOMAIN searchPosts \/ \E k \in DOMAIN more : i = Len(searchPosts) + k
         /\ Coming' = Coming \cup {e \in Entries : \E k \in DOMAIN more :
                                     /\ OfTheSearch(more[k]) /\ more[k].what = "batch"
                                     /\ e \in more[k].batch}
<1>1. /\ searchPosts \in Seq(Posts) /\ Len(searchPosts) \in Nat /\ Len(more) \in Nat
      /\ DOMAIN searchPosts = 1 .. Len(searchPosts) /\ DOMAIN more = 1 .. Len(more)
  BY LenProperties DEF SearchTypeOK
<1>2. /\ searchPosts' \in Seq(Posts) /\ Len(searchPosts') = Len(searchPosts) + Len(more)
      /\ \A i \in 1 .. Len(searchPosts) + Len(more) :
           searchPosts'[i] = IF i <= Len(searchPosts) THEN searchPosts[i] ELSE more[i - Len(searchPosts)]
  BY <1>1, ConcatProperties
<1>3. DOMAIN searchPosts' = 1 .. Len(searchPosts) + Len(more)
  BY <1>2, LenProperties
<1>4. \A i \in DOMAIN searchPosts : i \in DOMAIN searchPosts' /\ searchPosts'[i] = searchPosts[i]
  BY <1>1, <1>2, <1>3
<1>5. \A k \in DOMAIN more : /\ Len(searchPosts) + k \in DOMAIN searchPosts'
                             /\ searchPosts'[Len(searchPosts) + k] = more[k]
  <2>1. ASSUME NEW k \in DOMAIN more
        PROVE  /\ Len(searchPosts) + k \in 1 .. Len(searchPosts) + Len(more)
               /\ ~(Len(searchPosts) + k <= Len(searchPosts)) /\ (Len(searchPosts) + k) - Len(searchPosts) = k
    BY <1>1
  <2>. QED
    BY <1>2, <1>3, <2>1
<1>6. \A i \in DOMAIN searchPosts' :
         i \in DOMAIN searchPosts \/ \E k \in DOMAIN more : i = Len(searchPosts) + k
  <2>1. ASSUME NEW i \in DOMAIN searchPosts', i \notin DOMAIN searchPosts
        PROVE  i - Len(searchPosts) \in DOMAIN more /\ i = Len(searchPosts) + (i - Len(searchPosts))
    BY <1>1, <1>3, <2>1
  <2>. QED
    BY <2>1
<1> DEFINE added == {e \in Entries : \E k \in DOMAIN more :
                       OfTheSearch(more[k]) /\ more[k].what = "batch" /\ e \in more[k].batch}
<1>7. ASSUME NEW e \in Coming' PROVE e \in Coming \cup added
  <2>1. PICK i \in DOMAIN searchPosts' : /\ searchPosts'[i].generation = searchGeneration
                                         /\ searchPosts'[i].what = "batch" /\ e \in searchPosts'[i].batch
    BY <1>7 DEF Coming, OfTheSearch
  <2>2. e \in Entries
    BY <1>7 DEF Coming
  <2>3. CASE i \in DOMAIN searchPosts
    BY <1>4, <2>1, <2>2, <2>3 DEF Coming, OfTheSearch
  <2>4. ASSUME NEW k \in DOMAIN more, i = Len(searchPosts) + k PROVE e \in added
    BY <1>5, <2>1, <2>2, <2>4 DEF OfTheSearch
  <2>. QED
    BY <1>6, <2>3, <2>4
<1>8. Coming \subseteq Coming'
  BY <1>4 DEF Coming, OfTheSearch
<1>9. added \subseteq Coming'
  BY <1>5 DEF Coming, OfTheSearch
<1>10. Coming' = Coming \cup added
  BY <1>7, <1>8, <1>9
<1>. QED
  BY <1>1, <1>2, <1>3, <1>4, <1>5, <1>6, <1>10

(* The thread of the search went on, and what it posts is not the end.      *)
LEMMA GoingOnKeeps ==
  ASSUME SearchInv, NEW g \in DOMAIN runs, Goes(g), NEW r \in LiveRuns,
         ~r.token, r.root = runs[g].root, r.query = runs[g].query,
         runs' = [runs EXCEPT ![g] = r],
         UNCHANGED <<search, searchGeneration, searchStopping>>,
         NEW more \in Seq(Posts), searchPosts' = searchPosts \o more,
         \A k \in DOMAIN more : more[k].generation = g /\ more[k].what # "finish",
         NEW visited \in SUBSET Entries, HasVisited(runs[g], visited)',
         r.found <= MaxResults
  PROVE  SearchInv'
<1>1. SearchTypeOK /\ OneThreadGoesOn /\ SearchIsThorough /\ RowsAreTheSearchs
  BY DEF SearchInv
<1>2. /\ g = searchGeneration /\ search.running /\ ~searchStopping
      /\ runs[g].root = search.root /\ runs[g].query = search.query
      /\ \A i \in DOMAIN searchPosts : ~Ending(searchPosts[i])
  BY <1>1 DEF OneThreadGoesOn
<1>3. /\ DOMAIN runs = 1 .. searchGeneration /\ searchGeneration \in Nat
      /\ runs \in Seq(DeadRuns \cup LiveRuns) /\ Len(runs) = searchGeneration
  BY <1>1, SearchRows DEF SearchTypeOK
<1>4. /\ runs' \in Seq(DeadRuns \cup LiveRuns) /\ Len(runs') = searchGeneration
      /\ DOMAIN runs' = DOMAIN runs /\ runs'[g] = r
      /\ \A h \in DOMAIN runs : h # g => runs'[h] = runs[h]
  <2>1. DOMAIN runs' = DOMAIN runs /\ runs'[g] = r /\ \A h \in DOMAIN runs : h # g => runs'[h] = runs[h]
    BY <1>3
  <2>2. runs' \in Seq(DeadRuns \cup LiveRuns) /\ Len(runs') = Len(runs)
    BY <1>3, ExceptSeq
  <2>. QED
    BY <1>3, <2>1, <2>2
<1>5. r.alive
  BY DEF LiveRuns
<1>6. \A h \in DOMAIN runs' : Goes(h)' <=> h = g
  BY <1>1, <1>2, <1>4, <1>5 DEF Goes, OneThreadGoesOn
<1>7. /\ searchPosts' \in Seq(Posts) /\ DOMAIN more = 1 .. Len(more) /\ Len(more) \in Nat
      /\ DOMAIN searchPosts' = 1 .. Len(searchPosts) + Len(more)
      /\ DOMAIN searchPosts = 1 .. Len(searchPosts) /\ Len(searchPosts) \in Nat
      /\ \A i \in DOMAIN searchPosts : searchPosts'[i] = searchPosts[i]
      /\ \A k \in DOMAIN more : searchPosts'[Len(searchPosts) + k] = more[k]
      /\ \A i \in DOMAIN searchPosts' :
           i \in DOMAIN searchPosts \/ \E k \in DOMAIN more : i = Len(searchPosts) + k
  BY <1>1, Posted
<1>8. \A i \in DOMAIN searchPosts' : ~Ending(searchPosts[i])' /\ searchPosts'[i].generation <= searchGeneration'
  <2>1. ASSUME NEW i \in DOMAIN searchPosts
        PROVE  ~Ending(searchPosts[i])' /\ searchPosts'[i].generation <= searchGeneration'
    BY <1>1, <1>2, <1>7 DEF Ending, OfTheSearch, OneThreadGoesOn
  <2>2. ASSUME NEW k \in DOMAIN more, NEW i \in DOMAIN searchPosts', i = Len(searchPosts) + k
        PROVE  ~Ending(searchPosts[i])' /\ searchPosts'[i].generation <= searchGeneration'
    BY <1>2, <1>3, <1>7, <2>2 DEF Ending
  <2>. QED
    BY <1>7, <2>1, <2>2
<1>9. SearchTypeOK'
  BY <1>1, <1>4, <1>7 DEF SearchTypeOK
<1>10. OneThreadGoesOn'
  BY <1>1, <1>2, <1>4, <1>6, <1>8 DEF OneThreadGoesOn
<1>11. Matches' = Matches /\ search.root \in Directories /\ search.query \in Queries
  BY <1>1, <1>2 DEF Matches, OneThreadGoesOn
<1>12. SearchIsThorough'
  <2>1. /\ Gathered' = visited \cap Matching[r.query] /\ visited \subseteq Below(r.root)
        /\ Cardinality(Gathered') = r.found
    BY <1>4 DEF HasVisited
  <2>2. Gathered' \subseteq Matches' /\ Cardinality(Gathered') <= MaxResults
    BY <1>2, <1>11, <2>1 DEF Matches
  <2>3. \A h \in DOMAIN runs' : Goes(h)' => \E v \in SUBSET Entries : HasVisited(runs[h], v)'
    BY <1>6
  <2>. QED
    BY <1>8, <2>2, <2>3 DEF SearchIsThorough
<1>13. RowsAreTheSearchs'
  BY <1>1, <1>11 DEF RowsAreTheSearchs
<1>. QED
  BY <1>9, <1>10, <1>12, <1>13 DEF SearchInv

(* The folders still to be entered, with the last of them taken.            *)
LEMMA FolderTaken ==
  ASSUME NEW q \in Seq(Directories), q # <<>>, \A i, k \in DOMAIN q : q[i] = q[k] => i = k
  PROVE  /\ Last(q) \in Directories /\ Last(q) \in ToSet(q)
         /\ Front(q) \in Seq(Directories) /\ ToSet(Front(q)) = ToSet(q) \ {Last(q)}
         /\ \A i, k \in DOMAIN Front(q) : Front(q)[i] = Front(q)[k] => i = k
<1>1. /\ Len(q) \in Nat \ {0} /\ DOMAIN q = 1 .. Len(q)
      /\ \A i \in 1 .. Len(q) : q[i] \in Directories
  BY EmptySeq, LenProperties, ElementOfSeq
<1>2. /\ Front(q) \in Seq(Directories) /\ Len(Front(q)) = Len(q) - 1
      /\ \A i \in 1 .. Len(q) - 1 : Front(q)[i] = q[i]
  <2>1. /\ SubSeq(q, 1, Len(q) - 1) \in Seq(Directories)
        /\ Len(SubSeq(q, 1, Len(q) - 1)) = IF 1 <= Len(q) - 1 THEN (Len(q) - 1) - 1 + 1 ELSE 0
        /\ \A i \in 1 .. (Len(q) - 1) - 1 + 1 : SubSeq(q, 1, Len(q) - 1)[i] = q[1 + i - 1]
    BY <1>1, SubSeqProperties
  <2>2. Front(q) = SubSeq(q, 1, Len(q) - 1)
    BY DEF Front
  <2>. QED
    BY <1>1, <2>1, <2>2
<1>3. DOMAIN Front(q) = 1 .. Len(q) - 1
  BY <1>2, LenProperties
<1>4. Last(q) = q[Len(q)] /\ Last(q) \in Directories /\ Last(q) \in ToSet(q)
  BY <1>1 DEF Last, ToSet
<1>5. \A i \in 1 .. Len(q) - 1 : q[i] # Last(q)
  BY <1>1, <1>4
<1>6. ToSet(Front(q)) = ToSet(q) \ {Last(q)}
  BY <1>1, <1>2, <1>3, <1>4, <1>5 DEF ToSet
<1>. QED
  BY <1>1, <1>2, <1>3, <1>4, <1>6

(* The folders of a search: they are below its root, or the root.           *)
LEMMA FoldersReached ==
  ASSUME NEW r \in LiveRuns, NEW visited \in SUBSET Entries, HasVisited(r, visited)
  PROVE  /\ r.root \in Directories /\ Reached(r, visited) \subseteq Directories
         /\ \A f \in Reached(r, visited) : f \in Directories /\ Children[f] \subseteq Below(r.root)
         /\ Below(r.root) \subseteq Entries
<1>1. r.root \in Directories
  BY DEF LiveRuns
<1>2. visited \subseteq Below(r.root)
  BY DEF HasVisited
<1>. QED
  BY <1>1, <1>2, BelowIsClosed DEF Reached

(* A folder is entered: no entry of it was seen, since the folders entered  *)
(* before are others and have other entries.                                *)
LEMMA NextFolderKeeps ==
  ASSUME SearchInv, NEW g \in DOMAIN runs, NextFolder(g)
  PROVE  SearchInv'
<1>1. PICK r \in LiveRuns : r = runs[g]
  BY SearchRows DEF SearchInv, NextFolder
<1>2. PICK folder : folder = Last(r.pending)
  OBVIOUS
<1>3. PICK next : next = [r EXCEPT !.pending = Front(@), !.left = Children[folder]]
  OBVIOUS
<1>4. /\ Goes(g) /\ r.left = {} /\ r.pending # <<>> /\ ~r.truncated
      /\ runs' = [runs EXCEPT ![g] = next]
      /\ UNCHANGED <<search, searchGeneration, searchPosts, searchStopping>>
  BY <1>1, <1>2, <1>3 DEF NextFolder
<1>5. /\ SearchTypeOK /\ OneThreadGoesOn /\ r \in LiveRuns /\ ~r.token /\ g = searchGeneration
      /\ DOMAIN runs = 1 .. searchGeneration
  BY <1>4, <1>1, SearchRows DEF SearchInv, OneThreadGoesOn, Goes
<1>6. PICK visited \in SUBSET Entries : HasVisited(r, visited)
  BY <1>4, <1>1 DEF SearchInv, SearchIsThorough
<1>7. /\ r.pending \in Seq(Directories) /\ r.root \in Directories /\ r.batch \subseteq Entries
      /\ r.found \in Nat /\ r.visited \in Nat
  BY <1>5 DEF LiveRuns
<1>8. /\ folder \in Directories /\ folder \in ToSet(r.pending)
      /\ Front(r.pending) \in Seq(Directories) /\ ToSet(Front(r.pending)) = ToSet(r.pending) \ {folder}
      /\ \A i, k \in DOMAIN Front(r.pending) : Front(r.pending)[i] = Front(r.pending)[k] => i = k
  BY <1>4, <1>6, <1>7, <1>2, FolderTaken DEF HasVisited
<1>9. Children[folder] \subseteq Entries /\ Children \in [Directories -> SUBSET Entries]
      /\ \A f, h \in Directories : f # h => Children[f] \cap Children[h] = {}
  BY <1>8, SearchAssumption, Zenon DEF SearchAssumption
<1>10. /\ next \in LiveRuns /\ ~next.token /\ next.root = r.root /\ next.query = r.query
       /\ next.pending = Front(r.pending) /\ next.left = Children[folder] /\ next.batch = r.batch
       /\ next.found = r.found /\ next.visited = r.visited /\ next.truncated = r.truncated
  BY <1>5, <1>8, <1>9, <1>3 DEF LiveRuns
<1>11. runs'[g] = next /\ Goes(g)'
  BY <1>4, <1>5, <1>10 DEF Goes, LiveRuns
<1>12. Gathered' = Gathered
  BY <1>4, <1>5, <1>10, <1>11, <1>1 DEF Gathered, Coming, Unposted, OfTheSearch
<1>13. /\ Reached(next, visited) = Reached(r, visited)
       /\ Entered(next, visited) = Entered(r, visited) \cup {folder}
       /\ folder \notin Entered(r, visited) /\ folder \in Reached(r, visited)
  BY <1>6, <1>8, <1>10 DEF Reached, Entered, HasVisited
<1>14. Reached(r, visited) \subseteq Directories /\ Children[folder] \subseteq Below(r.root)
  BY <1>5, <1>6, <1>13, FoldersReached
<1>15. visited \cap Children[folder] = {}
  <2>1. ASSUME NEW e \in visited, e \in Children[folder] PROVE FALSE
    <3>1. PICK f \in Entered(r, visited) : e \in Children[f]
      BY <1>6 DEF HasVisited
    <3>2. f \in Directories /\ f # folder
      BY <1>13, <1>14 DEF Entered
    <3>. QED
      BY <1>8, <1>9, <2>1, <3>1, <3>2
  <2>. QED
    BY <2>1
<1>16. HasVisited(next, visited)'
  <2>1. /\ visited \cap r.left = {} /\ visited \cup r.left \subseteq Below(r.root)
        /\ Cardinality(visited) = r.visited
        /\ Gathered = visited \cap Matching[r.query]
        /\ Cardinality(Gathered) = r.found
        /\ ToSet(r.pending) \subseteq Reached(r, visited)
        /\ \A e \in visited \cup r.left : \E f \in Entered(r, visited) : e \in Children[f]
        /\ r.found < MaxResults
        /\ \A f \in Entered(r, visited) : Children[f] \subseteq visited \cup r.left
    BY <1>4, <1>6, Zenon DEF HasVisited
  <2>2. \A e \in visited \cup next.left : \E f \in Entered(next, visited) : e \in Children[f]
    BY <1>10, <1>13, <2>1
  <2>3. \A f \in Entered(next, visited) : Children[f] \subseteq visited \cup next.left
    BY <1>4, <1>10, <1>13, <2>1
  <2>4. ToSet(next.pending) \subseteq Reached(next, visited)
    BY <1>8, <1>10, <1>13, <2>1
  <2>5. visited \cap next.left = {} /\ visited \cup next.left \subseteq Below(next.root)
    BY <1>10, <1>14, <1>15, <2>1
  <2>6. HasVisited(next, visited)
    BY <1>4, <1>8, <1>10, <2>1, <2>2, <2>3, <2>4, <2>5 DEF HasVisited
  <2>. QED
    BY <1>12, <2>6 DEF HasVisited, Reached, Entered
<1>17. <<>> \in Seq(Posts) /\ searchPosts' = searchPosts \o <<>> /\ DOMAIN <<>> = {}
  BY <1>4, <1>5, ConcatEmptySeq, EmptySeq DEF SearchTypeOK
<1>18. r.found <= MaxResults
  BY <1>4, <1>6, <1>7, SearchBounds DEF HasVisited
<1>19. HasVisited(runs[g], visited)'
  BY <1>11, <1>16 DEF HasVisited, Reached, Entered
<1>. QED
  BY <1>4, <1>10, <1>17, <1>18, <1>19, <1>1, GoingOnKeeps

(* What an entry makes of a search that had not seen it.                    *)
LEMMA VisitOfType ==
  ASSUME NEW r \in LiveRuns, NEW e \in r.left, ~r.token
  PROVE  LET v == VisitOf(r, e)
         IN  /\ v \in LiveRuns /\ ~v.token /\ v.root = r.root /\ v.query = r.query
             /\ v.visited = r.visited + 1
             /\ v.found = IF e \in Matching[r.query] THEN r.found + 1 ELSE r.found
             /\ v.batch = IF e \in Matching[r.query] THEN r.batch \cup {e} ELSE r.batch
             /\ v.left = IF v.truncated THEN {} ELSE r.left \ {e}
             /\ v.truncated <=> \/ e \in Matching[r.query] /\ v.found >= MaxResults
                                \/ v.visited >= MaxVisitedEntries
             /\ v.pending = IF ~(e \in Matching[r.query] /\ v.found >= MaxResults) /\ e \in Directories
                            THEN Append(r.pending, e) ELSE r.pending
<1>1. /\ r.visited \in Nat /\ r.found \in Nat /\ r.batch \subseteq Entries /\ r.left \subseteq Entries
      /\ r.pending \in Seq(Directories) /\ e \in Entries
  BY DEF LiveRuns
<1>2. PICK match \in BOOLEAN : match <=> e \in Matching[r.query]
  <2>1. CASE e \in Matching[r.query]
    BY <2>1
  <2>2. CASE e \notin Matching[r.query]
    BY <2>2
  <2>. QED
    BY <2>1, <2>2
<1>3. PICK found \in Nat : found = IF match THEN r.found + 1 ELSE r.found
  BY <1>1
<1>4. PICK full \in BOOLEAN : full = (match /\ found >= MaxResults)
  OBVIOUS
<1>5. PICK truncated \in BOOLEAN : truncated = (full \/ r.visited + 1 >= MaxVisitedEntries)
  OBVIOUS
<1>6. PICK pending \in Seq(Directories) :
         pending = IF ~full /\ e \in Directories THEN Append(r.pending, e) ELSE r.pending
  BY <1>1, AppendProperties
<1>7. VisitOf(r, e) =
        [r EXCEPT !.visited = @ + 1, !.found = found,
                  !.batch = IF match THEN @ \cup {e} ELSE @,
                  !.truncated = truncated, !.left = IF truncated THEN {} ELSE @ \ {e},
                  !.pending = pending]
  BY <1>2, <1>3, <1>4, <1>5, <1>6 DEF VisitOf
<1>8. VisitOf(r, e) \in LiveRuns
  <2>1. PICK batch \in SUBSET Entries : batch = IF match THEN r.batch \cup {e} ELSE r.batch
    BY <1>1
  <2>2. PICK left \in SUBSET Entries : left = IF truncated THEN {} ELSE r.left \ {e}
    BY <1>1
  <2>3. PICK visited \in Nat : visited = r.visited + 1
    BY <1>1
  <2>4. VisitOf(r, e) =
          [r EXCEPT !.visited = visited, !.found = found, !.batch = batch,
                    !.truncated = truncated, !.left = left, !.pending = pending]
    BY <1>7, <2>1, <2>2, <2>3
  <2>. QED
    BY <2>4 DEF LiveRuns
<1>9. LET v == VisitOf(r, e)
      IN  /\ ~v.token /\ v.root = r.root /\ v.query = r.query /\ v.visited = r.visited + 1
          /\ v.found = found /\ v.truncated = truncated /\ v.pending = pending
          /\ v.batch = (IF match THEN r.batch \cup {e} ELSE r.batch)
          /\ v.left = IF truncated THEN {} ELSE r.left \ {e}
  BY <1>7 DEF LiveRuns
<1>. QED
  BY <1>2, <1>3, <1>4, <1>5, <1>6, <1>8, <1>9

(* A thread keeps what it has found, or posts it.                           *)
LEMMA FlushedType ==
  ASSUME NEW r \in LiveRuns
  PROVE  LET q == IF ReportsProgress(r) THEN [Flushed(r) EXCEPT !.lastProgress = r.visited]
                                        ELSE Flushed(r)
         IN  /\ q \in LiveRuns /\ q.token = r.token /\ q.root = r.root /\ q.query = r.query
             /\ q.visited = r.visited /\ q.found = r.found /\ q.left = r.left
             /\ q.truncated = r.truncated /\ q.pending = r.pending
             /\ q.batch = Flushed(r).batch
             /\ IF Flushed(r) # r THEN q.batch = {} ELSE q.batch = r.batch
<1>1. /\ Flushed(r) \in LiveRuns /\ Flushed(r).token = r.token /\ Flushed(r).root = r.root
      /\ Flushed(r).query = r.query /\ Flushed(r).visited = r.visited /\ Flushed(r).found = r.found
      /\ Flushed(r).left = r.left /\ Flushed(r).truncated = r.truncated
      /\ Flushed(r).pending = r.pending
      /\ IF Flushed(r) # r THEN Flushed(r).batch = {} ELSE Flushed(r).batch = r.batch
  BY DEF Flushed, LiveRuns
<1>2. r.visited \in Nat
  BY DEF LiveRuns
<1>3. PICK f \in LiveRuns : f = Flushed(r)
  BY <1>1
<1>4. /\ [f EXCEPT !.lastProgress = r.visited] \in LiveRuns
      /\ LET q == [f EXCEPT !.lastProgress = r.visited]
         IN  /\ q.token = f.token /\ q.root = f.root /\ q.query = f.query /\ q.visited = f.visited
             /\ q.found = f.found /\ q.left = f.left /\ q.truncated = f.truncated
             /\ q.pending = f.pending /\ q.batch = f.batch
  BY <1>2 DEF LiveRuns
<1>. QED
  BY <1>1, <1>3, <1>4

LEMMA PostType ==
  ASSUME NEW r \in LiveRuns, NEW g \in Nat, NEW what \in {"batch", "progress", "finish"}
  PROVE  /\ Post(g, what, r) \in Posts /\ Post(g, what, r).generation = g
         /\ Post(g, what, r).what = what /\ Post(g, what, r).batch = r.batch
         /\ Post(g, what, r).truncated = r.truncated /\ Post(g, what, r).visited = r.visited
BY DEF Post, Posts, LiveRuns

LEMMA FolderAdded ==
  ASSUME NEW q \in Seq(Directories), NEW e \in Directories, e \notin ToSet(q),
         \A i, k \in DOMAIN q : q[i] = q[k] => i = k
  PROVE  /\ ToSet(Append(q, e)) = ToSet(q) \cup {e}
         /\ \A i, k \in DOMAIN Append(q, e) : Append(q, e)[i] = Append(q, e)[k] => i = k
<1>1. Len(q) \in Nat /\ DOMAIN q = 1 .. Len(q)
  BY LenProperties
<1>2. /\ Append(q, e) \in Seq(Directories) /\ Len(Append(q, e)) = Len(q) + 1
      /\ \A i \in 1 .. Len(q) : Append(q, e)[i] = q[i]
      /\ Append(q, e)[Len(q) + 1] = e
  BY AppendProperties
<1>3. DOMAIN Append(q, e) = 1 .. Len(q) + 1
  BY <1>2, LenProperties
<1>4. \A i \in 1 .. Len(q) : q[i] # e
  BY <1>1 DEF ToSet
<1>5. \A i \in 1 .. Len(q) + 1 : i \in 1 .. Len(q) \/ i = Len(q) + 1
  BY <1>1
<1>6. ToSet(Append(q, e)) = ToSet(q) \cup {e}
  BY <1>1, <1>2, <1>3, <1>5 DEF ToSet
<1>. QED
  BY <1>1, <1>2, <1>3, <1>4, <1>5, <1>6

(* An entry is visited: it is one that was not seen, and a folder that was  *)
(* not entered, since no folder is below itself.                            *)
LEMMA HasVisitedOne ==
  ASSUME NEW r \in LiveRuns, NEW visited \in SUBSET Entries, HasVisited(r, visited),
         NEW e \in r.left, NEW q \in LiveRuns, LET v == VisitOf(r, e)
            IN /\ q.root = v.root /\ q.query = v.query /\ q.visited = v.visited /\ q.found = v.found
               /\ q.left = v.left /\ q.truncated = v.truncated /\ q.pending = v.pending,
         ~r.token,
         Gathered' = Gathered \cup (IF e \in Matching[r.query] THEN {e} ELSE {})
  PROVE  /\ visited \cup {e} \in SUBSET Entries /\ q.found <= MaxResults
         /\ HasVisited(q, visited \cup {e})'
<1> DEFINE seen == visited \cup {e}
<1>1. /\ q.root = r.root /\ q.query = r.query /\ q.visited = r.visited + 1
      /\ q.found = (IF e \in Matching[r.query] THEN r.found + 1 ELSE r.found)
      /\ q.left = (IF q.truncated THEN {} ELSE r.left \ {e})
      /\ q.truncated <=> \/ e \in Matching[r.query] /\ q.found >= MaxResults
                         \/ q.visited >= MaxVisitedEntries
      /\ q.pending = IF ~(e \in Matching[r.query] /\ q.found >= MaxResults) /\ e \in Directories
                     THEN Append(r.pending, e) ELSE r.pending
  BY ZenonT(20), VisitOfType
<1>2. /\ visited \cap r.left = {} /\ visited \cup r.left \subseteq Below(r.root)
      /\ Cardinality(visited) = r.visited
      /\ Gathered = visited \cap Matching[r.query]
      /\ Cardinality(Gathered) = r.found
      /\ \A i, k \in DOMAIN r.pending : r.pending[i] = r.pending[k] => i = k
      /\ ToSet(r.pending) \subseteq Reached(r, visited)
      /\ \A d \in visited \cup r.left : \E f \in Entered(r, visited) : d \in Children[f]
      /\ ~r.truncated /\ r.found < MaxResults
      /\ \A f \in Entered(r, visited) : Children[f] \subseteq visited \cup r.left
  BY DEF HasVisited
<1>3. /\ r.left \subseteq Entries /\ r.pending \in Seq(Directories) /\ r.found \in Nat /\ r.visited \in Nat
      /\ r.root \in Directories /\ e \in Entries /\ e \notin visited
  BY <1>2 DEF LiveRuns
<1>4. seen \in SUBSET Entries /\ Cardinality(seen) = r.visited + 1
  BY <1>2, <1>3, Counted
<1>5. e # r.root
  <2>1. e \in Below(r.root)
    BY <1>2
  <2>2. r.root \notin Below(r.root)
    BY <1>3, SearchAssumption DEF SearchAssumption
  <2>. QED
    BY <2>1, <2>2
<1>6. Gathered' = seen \cap Matching[r.query]
  BY <1>2
<1>7. Cardinality(Gathered') = q.found
  <2>1. Gathered \subseteq Entries /\ e \notin Gathered
    BY <1>2, <1>3
  <2>2. CASE e \in Matching[r.query]
    <3>1. Gathered' = Gathered \cup {e} /\ q.found = r.found + 1
      BY <1>1, <2>2
    <3>2. Cardinality(Gathered \cup {e}) = Cardinality(Gathered) + 1
      BY <1>3, <2>1, Counted
    <3>. QED
      BY <1>2, <3>1, <3>2
  <2>3. CASE e \notin Matching[r.query]
    BY <1>1, <1>2, <2>3
  <2>. QED
    BY <2>2, <2>3
<1>8. q.found <= MaxResults /\ (~q.truncated => q.found < MaxResults)
  BY <1>1, <1>2, <1>3, SearchBounds
<1>9. e \notin ToSet(r.pending)
  BY <1>2, <1>3, <1>5 DEF Reached
<1>10. /\ \A i, k \in DOMAIN q.pending : q.pending[i] = q.pending[k] => i = k
       /\ ToSet(q.pending) \subseteq Reached(q, seen)
       /\ Entered(r, visited) \subseteq Entered(q, seen)
       /\ ~q.truncated => Entered(q, seen) = Entered(r, visited)
  <2>1. Reached(q, seen) = Reached(r, visited) \cup ({e} \cap Directories)
    BY <1>1 DEF Reached
  <2>2. CASE q.pending = Append(r.pending, e) /\ e \in Directories
    <3>1. /\ ToSet(q.pending) = ToSet(r.pending) \cup {e}
          /\ \A i, k \in DOMAIN q.pending : q.pending[i] = q.pending[k] => i = k
      BY <1>2, <1>3, <1>9, <2>2, FolderAdded
    <3>2. e \notin Reached(r, visited)
      BY <1>3, <1>5 DEF Reached
    <3>. QED
      BY <1>2, <2>1, <2>2, <3>1, <3>2 DEF Entered
  <2>3. CASE q.pending = r.pending /\ (e \notin Directories \/ q.truncated)
    BY <1>2, <1>9, <2>1, <2>3 DEF Entered
  <2>. QED
    BY <1>1, <2>2, <2>3
<1>11. seen \cap q.left = {} /\ seen \cup q.left \subseteq visited \cup r.left
  BY <1>1, <1>2
<1>12. \A d \in seen \cup q.left : \E f \in Entered(q, seen) : d \in Children[f]
  BY <1>2, <1>10, <1>11
<1>13. ~q.truncated => \A f \in Entered(q, seen) : Children[f] \subseteq seen \cup q.left
  BY <1>1, <1>2, <1>10
<1>14. q.truncated => q.left = {} /\ (q.found >= MaxResults \/ q.visited >= MaxVisitedEntries)
  BY <1>1
<1>15. (seen \cup q.left \subseteq Below(q.root)) /\ Cardinality(seen) = q.visited
  BY <1>1, <1>2, <1>4, <1>11
<1>16. Gathered' = seen \cap Matching[q.query]
  BY <1>1, <1>6
<1>17. HasVisited(q, seen)'
  BY <1>7, <1>8, <1>10, <1>11, <1>12, <1>13, <1>14, <1>15, <1>16 DEF HasVisited, Reached, Entered
<1>. QED
  BY <1>4, <1>8, <1>17

LEMMA VisitKeeps ==
  ASSUME SearchInv, NEW g \in DOMAIN runs, NEW e \in Entries, Visit(g, e)
  PROVE  SearchInv'
<1>1. PICK r \in LiveRuns : r = runs[g]
  BY SearchRows DEF SearchInv, Visit
<1>2. PICK v : v = VisitOf(r, e)
  OBVIOUS
<1>3. PICK q : q = IF ReportsProgress(v) THEN [Flushed(v) EXCEPT !.lastProgress = v.visited] ELSE Flushed(v)
  OBVIOUS
<1>4. PICK batch : batch = IF Flushed(v) # v THEN <<Post(g, "batch", v)>> ELSE <<>>
  OBVIOUS
<1>5. PICK progress : progress = IF ReportsProgress(v) THEN <<Post(g, "progress", v)>> ELSE <<>>
  OBVIOUS
<1>6. /\ Goes(g) /\ e \in r.left
      /\ searchPosts' = (searchPosts \o batch) \o progress
      /\ runs' = [runs EXCEPT ![g] = q]
      /\ UNCHANGED <<search, searchGeneration, searchStopping>>
  BY <1>1, <1>2, <1>3, <1>4, <1>5 DEF Visit
<1>7. /\ SearchTypeOK /\ ~r.token /\ g = searchGeneration /\ g \in Nat
      /\ DOMAIN runs = 1 .. searchGeneration /\ searchPosts \in Seq(Posts)
  BY <1>1, <1>6, SearchRows DEF SearchInv, SearchTypeOK, OneThreadGoesOn, Goes
<1>8. PICK visited \in SUBSET Entries : HasVisited(r, visited)
  BY <1>1, <1>6 DEF SearchInv, SearchIsThorough
<1>9. /\ v \in LiveRuns /\ ~v.token /\ v.root = r.root /\ v.query = r.query
      /\ v.batch = IF e \in Matching[r.query] THEN r.batch \cup {e} ELSE r.batch
  BY <1>2, <1>6, <1>7, VisitOfType
<1>10. /\ q \in LiveRuns /\ q.token = v.token /\ q.root = v.root /\ q.query = v.query
       /\ q.visited = v.visited /\ q.found = v.found /\ q.left = v.left
       /\ q.truncated = v.truncated /\ q.pending = v.pending
       /\ IF Flushed(v) # v THEN q.batch = {} ELSE q.batch = v.batch
  BY <1>3, <1>9, FlushedType
<1>11. /\ batch \in Seq(Posts) /\ (batch = <<>> \/ batch = <<Post(g, "batch", v)>>)
       /\ progress \in Seq(Posts) /\ (progress = <<>> \/ progress = <<Post(g, "progress", v)>>)
       /\ (Flushed(v) # v) <=> (batch # <<>>)
  <2>1. Post(g, "batch", v) \in Posts /\ Post(g, "progress", v) \in Posts
    BY <1>7, <1>9, PostType
  <2>. QED
    BY <1>4, <1>5, <2>1
<1>12. PICK more \in Seq(Posts) : more = batch \o progress
  BY <1>11, ConcatProperties
<1>13. searchPosts' = searchPosts \o more
  <2>1. (searchPosts \o batch) \o progress = searchPosts \o (batch \o progress)
    BY SMTT(20), <1>7, <1>11, ConcatAssociative
  <2>. QED
    BY <1>6, <1>12, <2>1
<1>14. /\ \A k \in DOMAIN more : more[k] = Post(g, "batch", v) \/ more[k] = Post(g, "progress", v)
       /\ batch # <<>> => \E k \in DOMAIN more : more[k] = Post(g, "batch", v)
       /\ batch = <<>> => \A k \in DOMAIN more : more[k] = Post(g, "progress", v)
  <2>1. CASE batch = <<>> /\ progress = <<>>
    <3>1. more = <<>>
      BY <1>12, <2>1
    <3>. QED
      BY <2>1, <3>1
  <2>2. CASE batch = <<>> /\ progress = <<Post(g, "progress", v)>>
    <3>1. more = <<Post(g, "progress", v)>>
      BY <1>11, <1>12, <2>2, ConcatEmptySeq
    <3>. QED
      BY <2>2, <3>1
  <2>3. CASE batch = <<Post(g, "batch", v)>> /\ progress = <<>>
    <3>1. more = <<Post(g, "batch", v)>>
      BY <1>11, <1>12, <2>3, ConcatEmptySeq
    <3>. QED
      BY <2>3, <3>1
  <2>4. CASE batch = <<Post(g, "batch", v)>> /\ progress = <<Post(g, "progress", v)>>
    <3>1. /\ Len(batch) = 1 /\ Len(progress) = 1
          /\ batch[1] = Post(g, "batch", v) /\ progress[1] = Post(g, "progress", v)
      BY <2>4
    <3>2. /\ Len(more) = 2 /\ more[1] = batch[1] /\ more[2] = progress[1]
      BY <1>11, <1>12, <3>1, ConcatProperties
    <3>3. DOMAIN more = {1, 2}
      BY <3>2
    <3>. QED
      BY <2>4, <3>1, <3>2, <3>3
  <2>. QED
    BY <1>11, <2>1, <2>2, <2>3, <2>4
<1>15. /\ Post(g, "batch", v).generation = g /\ Post(g, "batch", v).what = "batch"
       /\ Post(g, "batch", v).batch = v.batch
       /\ Post(g, "progress", v).generation = g /\ Post(g, "progress", v).what = "progress"
  BY <1>7, <1>9, PostType
<1>16. \A k \in DOMAIN more : more[k].generation = g /\ more[k].what # "finish"
  BY <1>14, <1>15
<1>17. runs'[g] = q /\ Goes(g)'
  BY <1>6, <1>7, <1>9, <1>10 DEF Goes, LiveRuns
<1>18. Coming' = Coming \cup (IF batch # <<>> THEN v.batch ELSE {})
  <2>1. Coming' = Coming \cup {d \in Entries : \E k \in DOMAIN more :
                   OfTheSearch(more[k]) /\ more[k].what = "batch" /\ d \in more[k].batch}
    BY <1>6, <1>7, <1>13, Posted
  <2>2. v.batch \subseteq Entries
    BY <1>9 DEF LiveRuns
  <2>. QED
    BY <1>7, <1>14, <1>15, <1>16, <2>1, <2>2 DEF OfTheSearch
<1>19. Unposted = r.batch /\ Unposted' = q.batch
  BY <1>1, <1>6, <1>7, <1>17 DEF Unposted
<1>20. Gathered' = Gathered \cup (IF e \in Matching[r.query] THEN {e} ELSE {})
  BY <1>6, <1>9, <1>10, <1>11, <1>18, <1>19 DEF Gathered
<1>21. /\ visited \cup {e} \in SUBSET Entries /\ q.found <= MaxResults
       /\ HasVisited(q, visited \cup {e})'
  BY <1>2, <1>6, <1>7, <1>8, <1>10, <1>20, HasVisitedOne
<1>22. HasVisited(runs[g], visited \cup {e})'
  BY <1>17, <1>21 DEF HasVisited, Reached, Entered
<1>. QED
  BY <1>1, <1>6, <1>9, <1>10, <1>13, <1>16, <1>21, <1>22, GoingOnKeeps

(* The thread ends: when it was not truncated it has entered the root and   *)
(* every folder it has seen, so that what it has seen is all that is below. *)
LEMMA SearchEndKeeps ==
  ASSUME SearchInv, NEW g \in DOMAIN runs, Finish(g)
  PROVE  SearchInv'
<1>1. PICK r \in LiveRuns : r = runs[g]
  BY SearchRows DEF SearchInv, Finish
<1>2. PICK over : over = [alive |-> FALSE, token |-> FALSE]
  OBVIOUS
<1>3. PICK batch : batch = IF r.batch = {} THEN <<>> ELSE <<Post(g, "batch", r)>>
  OBVIOUS
<1>4. PICK end : end = Post(g, "finish", r)
  OBVIOUS
<1>5. /\ Goes(g) /\ r.left = {} /\ (r.pending = <<>> \/ r.truncated)
      /\ searchPosts' = (searchPosts \o batch) \o <<end>>
      /\ runs' = [runs EXCEPT ![g] = over]
      /\ UNCHANGED <<search, searchGeneration, searchStopping>>
  BY <1>1, <1>2, <1>3, <1>4 DEF Finish
<1>6. /\ SearchTypeOK /\ OneThreadGoesOn /\ SearchIsThorough /\ RowsAreTheSearchs
      /\ searchPosts \in Seq(Posts) /\ runs \in Seq(DeadRuns \cup LiveRuns)
      /\ searchGeneration \in Nat /\ Len(runs) = searchGeneration /\ DOMAIN runs = 1 .. searchGeneration
  BY SearchRows DEF SearchInv, SearchTypeOK
<1>7. /\ g = searchGeneration /\ search.running /\ ~searchStopping
      /\ r.root = search.root /\ r.query = search.query
      /\ \A i \in DOMAIN searchPosts : ~Ending(searchPosts[i])
      /\ search.root \in Directories /\ search.query \in Queries /\ ~search.cancelled /\ ~search.truncated
  BY <1>1, <1>5, <1>6 DEF OneThreadGoesOn
<1>8. PICK visited \in SUBSET Entries : HasVisited(r, visited)
  BY <1>1, <1>5, <1>6 DEF SearchIsThorough
<1>9. /\ end \in Posts /\ end.generation = g /\ end.what = "finish"
      /\ end.truncated = r.truncated /\ end.visited = r.visited
      /\ Post(g, "batch", r) \in Posts /\ Post(g, "batch", r).generation = g
      /\ Post(g, "batch", r).what = "batch" /\ Post(g, "batch", r).batch = r.batch
  BY <1>4, <1>6, <1>7, PostType
<1>10. /\ batch \in Seq(Posts) /\ <<end>> \in Seq(Posts) /\ Len(<<end>>) = 1 /\ <<end>>[1] = end
       /\ Len(batch) \in Nat /\ DOMAIN batch = 1 .. Len(batch)
       /\ \A k \in 1 .. Len(batch) : batch[k] = Post(g, "batch", r)
       /\ r.batch # {} => \E k \in 1 .. Len(batch) : batch[k] = Post(g, "batch", r)
  <2>1. CASE r.batch = {}
    BY <1>3, <1>9, <2>1
  <2>2. CASE r.batch # {}
    <3>1. batch = <<Post(g, "batch", r)>>
      BY <1>3, <2>2
    <3>2. /\ Len(batch) = 1 /\ batch[1] = Post(g, "batch", r) /\ DOMAIN batch = 1 .. 1
          /\ batch \in Seq(Posts)
      BY <1>9, <3>1
    <3>3. \A k \in 1 .. 1 : k = 1
      OBVIOUS
    <3>. QED
      BY <1>9, <3>2, <3>3
  <2>. QED
    BY <2>1, <2>2
<1>11. PICK more \in Seq(Posts) : more = batch \o <<end>>
  BY <1>10, ConcatProperties
<1>12. searchPosts' = searchPosts \o more
  <2>1. (searchPosts \o batch) \o <<end>> = searchPosts \o (batch \o <<end>>)
    <3>1. searchPosts \in Seq(Posts) /\ batch \in Seq(Posts) /\ <<end>> \in Seq(Posts)
      BY <1>6, <1>10
    <3>. QED
      BY <3>1, ConcatAssociative
  <2>. QED
    BY <1>5, <1>11, <2>1
<1>13. /\ Len(more) = Len(batch) + 1 /\ DOMAIN more = 1 .. Len(batch) + 1
       /\ \A k \in 1 .. Len(batch) : more[k] = batch[k]
       /\ more[Len(batch) + 1] = end
  <2>1. /\ Len(more) = Len(batch) + 1
        /\ \A k \in 1 .. Len(batch) + 1 :
             more[k] = IF k <= Len(batch) THEN batch[k] ELSE <<end>>[k - Len(batch)]
    BY <1>10, <1>11, ConcatProperties
  <2>2. \A k \in 1 .. Len(batch) : k \in 1 .. Len(batch) + 1 /\ k <= Len(batch)
    BY <1>10
  <2>3. /\ Len(batch) + 1 \in 1 .. Len(batch) + 1 /\ ~(Len(batch) + 1 <= Len(batch))
        /\ (Len(batch) + 1) - Len(batch) = 1
    BY <1>10
  <2>4. DOMAIN more = 1 .. Len(batch) + 1
    BY <2>1, LenProperties
  <2>. QED
    BY <1>10, <2>1, <2>2, <2>3, <2>4
<1>14. /\ searchPosts' \in Seq(Posts) /\ Len(searchPosts) \in Nat
       /\ DOMAIN searchPosts' = 1 .. Len(searchPosts) + (Len(batch) + 1)
       /\ DOMAIN searchPosts = 1 .. Len(searchPosts)
       /\ \A i \in DOMAIN searchPosts : searchPosts'[i] = searchPosts[i]
       /\ \A k \in DOMAIN more : searchPosts'[Len(searchPosts) + k] = more[k]
       /\ \A i \in DOMAIN searchPosts' :
            i \in DOMAIN searchPosts \/ \E k \in DOMAIN more : i = Len(searchPosts) + k
       /\ Coming' = Coming \cup {e \in Entries : \E k \in DOMAIN more :
                       OfTheSearch(more[k]) /\ more[k].what = "batch" /\ e \in more[k].batch}
  BY <1>5, <1>6, <1>12, <1>13, Posted
<1>15. PICK last : last = Len(searchPosts) + (Len(batch) + 1)
  OBVIOUS
<1>16. /\ searchPosts'[last] = end /\ last \in DOMAIN searchPosts'
       /\ \A i \in DOMAIN searchPosts' : i <= last
  <2>1. Len(batch) \in Nat /\ Len(searchPosts) \in Nat
    BY <1>10, <1>14
  <2>2. DOMAIN searchPosts' = 1 .. last
    BY <1>14, <1>15
  <2>3. last \in DOMAIN searchPosts' /\ \A i \in DOMAIN searchPosts' : i <= last
    BY <1>15, <2>1, <2>2
  <2>4. Len(batch) + 1 \in DOMAIN more
    BY <1>13, <2>1
  <2>. QED
    BY <1>13, <1>14, <1>15, <2>3, <2>4
<1>17. \A i \in DOMAIN searchPosts' : /\ searchPosts'[i].generation <= searchGeneration
                                      /\ i # last => searchPosts'[i].generation # searchGeneration
                                                      \/ searchPosts'[i].what # "finish"
  <2>1. ASSUME NEW i \in DOMAIN searchPosts
        PROVE  /\ searchPosts'[i].generation <= searchGeneration
               /\ searchPosts'[i].generation # searchGeneration \/ searchPosts'[i].what # "finish"
    BY <1>6, <1>7, <1>14 DEF Ending, OfTheSearch, OneThreadGoesOn
  <2>2. ASSUME NEW k \in DOMAIN more, NEW i \in DOMAIN searchPosts', i = Len(searchPosts) + k
        PROVE  /\ searchPosts'[i].generation <= searchGeneration
               /\ i # last => searchPosts'[i].what # "finish"
    <3>1. searchPosts'[i] = more[k]
      BY <1>14, <2>2
    <3>2. CASE k = Len(batch) + 1
      BY <1>6, <1>7, <1>9, <1>13, <1>15, <2>2, <3>1, <3>2
    <3>3. CASE k # Len(batch) + 1
      <4>1. k \in 1 .. Len(batch)
        BY <1>10, <1>13, <3>3
      <4>. QED
        BY <1>6, <1>7, <1>9, <1>10, <1>13, <3>1, <4>1
    <3>. QED
      BY <3>2, <3>3
  <2>. QED
    BY <1>14, <2>1, <2>2
<1>18. \A i \in DOMAIN searchPosts' : Ending(searchPosts[i])' => i = last
  <2>1. ASSUME NEW i \in DOMAIN searchPosts', Ending(searchPosts[i])' PROVE i = last
    <3>1. searchPosts'[i].generation = searchGeneration /\ searchPosts'[i].what = "finish"
      BY <1>5, <2>1 DEF Ending, OfTheSearch
    <3>. QED
      BY <1>17, <3>1
  <2>. QED
    BY <2>1
<1>19. /\ runs' \in Seq(DeadRuns \cup LiveRuns) /\ Len(runs') = searchGeneration
       /\ DOMAIN runs' = DOMAIN runs /\ runs'[g] = over
       /\ \A h \in DOMAIN runs : h # g => runs'[h] = runs[h]
  <2>1. over \in DeadRuns
    BY <1>2 DEF DeadRuns
  <2>2. DOMAIN runs' = DOMAIN runs /\ runs'[g] = over /\ \A h \in DOMAIN runs : h # g => runs'[h] = runs[h]
    BY <1>5, <1>6
  <2>3. runs' \in Seq(DeadRuns \cup LiveRuns) /\ Len(runs') = Len(runs)
    BY <1>5, <1>6, <2>1, ExceptSeq
  <2>. QED
    BY <1>6, <2>2, <2>3
<1>20. \A h \in DOMAIN runs' : ~Goes(h)'
  <2>1. \A h \in DOMAIN runs : h # g => ~Goes(h)
    BY <1>6, <1>7 DEF OneThreadGoesOn
  <2>. QED
    BY <1>2, <1>19, <2>1 DEF Goes
<1>21. Gathered' = Gathered
  <2>1. {e \in Entries : \E k \in DOMAIN more :
           OfTheSearch(more[k]) /\ more[k].what = "batch" /\ e \in more[k].batch} = r.batch
    <3>1. r.batch \subseteq Entries
      BY DEF LiveRuns
    <3>2. \A k \in DOMAIN more : more[k].what = "batch" => more[k].batch = r.batch
      <4>1. \A k \in DOMAIN more : k \in 1 .. Len(batch) \/ k = Len(batch) + 1
        BY <1>10, <1>13
      <4>. QED
        BY <1>9, <1>10, <1>13, <4>1
    <3>3. r.batch # {} => \E k \in DOMAIN more : /\ OfTheSearch(more[k]) /\ more[k].what = "batch"
                                                 /\ more[k].batch = r.batch
      <4>1. \A k \in 1 .. Len(batch) : k \in DOMAIN more
        BY <1>10, <1>13
      <4>. QED
        BY <1>7, <1>9, <1>10, <1>13, <4>1 DEF OfTheSearch
    <3>. QED
      BY <3>1, <3>2, <3>3
  <2>2. Unposted = r.batch
    BY <1>1, <1>5, <1>6, <1>7 DEF Unposted
  <2>3. Unposted' = {}
    BY <1>20 DEF Unposted
  <2>. QED
    BY <1>5, <1>14, <2>1, <2>2, <2>3 DEF Gathered
<1>22. SearchTypeOK'
  BY <1>5, <1>6, <1>14, <1>19 DEF SearchTypeOK
<1>23. \E i \in DOMAIN searchPosts' : Ending(searchPosts[i])'
  BY <1>5, <1>7, <1>9, <1>16 DEF Ending, OfTheSearch
<1>24. OneThreadGoesOn'
  <2>1. \A g1 \in DOMAIN runs' : ~Goes(g1)'
    BY <1>20
  <2>2. \A i \in DOMAIN searchPosts' :
          /\ searchPosts'[i].generation <= searchGeneration'
          /\ OfTheSearch(searchPosts[i])' => search'.running
          /\ Ending(searchPosts[i])' =>
               \A k \in DOMAIN searchPosts' : OfTheSearch(searchPosts[k])' => k <= i
    <3>1. \A i \in DOMAIN searchPosts' : Ending(searchPosts[i])' =>
             \A k \in DOMAIN searchPosts' : k <= i
      BY <1>16, <1>18
    <3>. QED
      BY <1>5, <1>7, <1>17, <3>1
  <2>3. search'.running =>
          /\ search'.root \in Directories /\ search'.query \in Queries
          /\ ~search'.cancelled /\ ~search'.truncated
    BY <1>5, <1>7
  <2>. QED
    BY <1>23, <2>1, <2>2, <2>3 DEF OneThreadGoesOn
<1>25. Matches' = Matches /\ Matches = Below(r.root) \cap Matching[r.query]
  BY <1>5, <1>7 DEF Matches
<1>26. IF r.truncated
       THEN Cardinality(Gathered) >= MaxResults \/ r.visited >= MaxVisitedEntries
       ELSE Gathered = Matches
  <2>1. CASE r.truncated
    BY <1>8, <2>1 DEF HasVisited
  <2>2. CASE ~r.truncated
    <3>1. ToSet(r.pending) = {}
      BY <1>5, <2>2 DEF ToSet
    <3>2. /\ \A f \in Reached(r, visited) : Children[f] \subseteq visited
          /\ visited \subseteq Below(r.root) /\ Gathered = visited \cap Matching[r.query]
      BY <1>5, <1>8, <2>2, <3>1 DEF HasVisited, Entered
    <3>3. Children[r.root] \subseteq visited /\ \A f \in visited \cap Directories : Children[f] \subseteq visited
      BY <3>2 DEF Reached
    <3>4. Below(r.root) \subseteq visited
      BY <1>7, <3>3, BelowIsClosed
    <3>. QED
      BY <1>25, <2>2, <3>2, <3>4
  <2>. QED
    BY <2>1, <2>2
<1>27. SearchIsThorough'
  <2>1. Gathered' \subseteq Matches' /\ Cardinality(Gathered') <= MaxResults
    BY <1>6, <1>7, <1>21, <1>25 DEF SearchIsThorough
  <2>2. \A i \in DOMAIN searchPosts' : Ending(searchPosts[i])' =>
         IF searchPosts'[i].truncated
         THEN Cardinality(Gathered') >= MaxResults \/ searchPosts'[i].visited >= MaxVisitedEntries
         ELSE Gathered' = Matches'
    BY <1>9, <1>16, <1>18, <1>21, <1>25, <1>26
  <2>. QED
    BY <1>20, <2>1, <2>2 DEF SearchIsThorough
<1>28. RowsAreTheSearchs'
  BY <1>5, <1>6, <1>25 DEF RowsAreTheSearchs
<1>. QED
  BY <1>22, <1>24, <1>27, <1>28 DEF SearchInv

LEMMA StopKeeps ==
  ASSUME SearchInv, NEW g \in DOMAIN runs, Stop(g)
  PROVE  SearchInv'
<1>1. /\ runs[g].token /\ runs' = [runs EXCEPT ![g] = [alive |-> FALSE, token |-> TRUE]]
      /\ UNCHANGED <<search, searchGeneration, searchPosts, searchStopping>>
  BY DEF Stop
<1>2. /\ SearchTypeOK /\ OneThreadGoesOn /\ SearchIsThorough /\ RowsAreTheSearchs
      /\ runs \in Seq(DeadRuns \cup LiveRuns) /\ searchGeneration \in Nat
      /\ Len(runs) = searchGeneration /\ DOMAIN runs = 1 .. searchGeneration
  BY SearchRows DEF SearchInv, SearchTypeOK
<1>3. /\ runs' \in Seq(DeadRuns \cup LiveRuns) /\ Len(runs') = searchGeneration
  BY <1>1, <1>2, DeadRun, ExceptSeq
<1>4. /\ DOMAIN runs' = DOMAIN runs /\ runs'[g] = [alive |-> FALSE, token |-> TRUE]
      /\ \A h \in DOMAIN runs : h # g => runs'[h] = runs[h]
  BY <1>1, <1>2
<1>5. /\ \A h \in DOMAIN runs : Goes(h)' <=> Goes(h)
      /\ \A h \in DOMAIN runs : Goes(h) => runs'[h] = runs[h]
  BY <1>1, <1>4 DEF Goes
<1>6. SearchTypeOK'
  BY <1>1, <1>2, <1>3 DEF SearchTypeOK
<1>7. \A i \in DOMAIN searchPosts' : /\ OfTheSearch(searchPosts[i])' = OfTheSearch(searchPosts[i])
                                     /\ Ending(searchPosts[i])' = Ending(searchPosts[i])
  BY <1>1 DEF OfTheSearch, Ending
<1>8. OneThreadGoesOn'
  <2>1. \A h \in DOMAIN runs' : Goes(h)' =>
         /\ h = searchGeneration' /\ search'.running /\ ~searchStopping'
         /\ runs'[h].root = search'.root /\ runs'[h].query = search'.query
         /\ \A i \in DOMAIN searchPosts' : ~Ending(searchPosts[i])'
    <3>1. ASSUME NEW h \in DOMAIN runs', Goes(h)'
          PROVE  /\ h = searchGeneration /\ search.running /\ ~searchStopping
                 /\ runs'[h].root = search.root /\ runs'[h].query = search.query
                 /\ \A i \in DOMAIN searchPosts : ~Ending(searchPosts[i])
      <4>1. h \in DOMAIN runs /\ Goes(h) /\ runs'[h] = runs[h]
        BY <1>4, <1>5, <3>1
      <4>. QED
        BY <1>2, <4>1 DEF OneThreadGoesOn
    <3>. QED
      BY <1>1, <1>7, <3>1
  <2>2. \A i \in DOMAIN searchPosts' :
          /\ searchPosts'[i].generation <= searchGeneration'
          /\ OfTheSearch(searchPosts[i])' => search'.running
          /\ Ending(searchPosts[i])' =>
               \A k \in DOMAIN searchPosts' : OfTheSearch(searchPosts[k])' => k <= i
    BY <1>1, <1>2, <1>7 DEF OneThreadGoesOn
  <2>3. search'.running =>
          /\ search'.root \in Directories /\ search'.query \in Queries
          /\ ~search'.cancelled /\ ~search'.truncated
    BY <1>1, <1>2 DEF OneThreadGoesOn
  <2>4. search'.running /\ ~searchStopping' =>
          \/ searchGeneration' \in DOMAIN runs' /\ Goes(searchGeneration)'
          \/ \E i \in DOMAIN searchPosts' : Ending(searchPosts[i])'
    <3>1. searchGeneration \in DOMAIN runs /\ Goes(searchGeneration) => Goes(searchGeneration)'
      BY <1>1, <1>5 DEF Goes
    <3>. QED
      BY <1>1, <1>2, <1>4, <1>7, <3>1 DEF OneThreadGoesOn
  <2>. QED
    BY <2>1, <2>2, <2>3, <2>4 DEF OneThreadGoesOn
<1>9. Matches' = Matches /\ Coming' = Coming /\ Unposted' = Unposted
  BY <1>1, <1>4, <1>5 DEF Matches, Coming, Unposted, OfTheSearch
<1>10. Gathered' = Gathered
  BY <1>1, <1>9 DEF Gathered
<1>11. \A h \in DOMAIN runs : Goes(h) => \A v : HasVisited(runs[h], v)' = HasVisited(runs[h], v)
  BY <1>5, <1>10 DEF HasVisited, Reached, Entered
<1>12. SearchIsThorough'
  BY <1>1, <1>2, <1>4, <1>5, <1>7, <1>9, <1>10, <1>11 DEF SearchIsThorough
<1>13. RowsAreTheSearchs'
  BY <1>1, <1>2, <1>9 DEF RowsAreTheSearchs
<1>. QED
  BY <1>6, <1>8, <1>12, <1>13 DEF SearchInv

LEMMA SearchStep == SearchInv /\ [SearchNext]_searchVars => SearchInv'
<1> SUFFICES ASSUME SearchInv, [SearchNext]_searchVars PROVE SearchInv'
  OBVIOUS
<1>1. CASE clear
  BY <1>1, ClearKeeps
<1>2. CASE cancelSearch
  BY <1>2, CancelSearchKeeps
<1>3. ASSUME NEW root \in SearchRoots, NEW query \in Queries, start(root, query) PROVE SearchInv'
  BY <1>3, StartFailedKeeps, StartRunningKeeps DEF start
<1>4. CASE Deliver
  BY <1>4, DeliverKeeps
<1>5. CASE DestroySearch
  BY <1>5, DestroySearchKeeps
<1>6. ASSUME NEW g \in DOMAIN runs, Searching(g) PROVE SearchInv'
  BY <1>6, NextFolderKeeps, VisitKeeps, SearchEndKeeps, StopKeeps DEF Searching
<1>7. CASE UNCHANGED searchVars
  <2>1. UNCHANGED <<search, searchGeneration, runs, searchPosts, searchStopping>>
    BY <1>7 DEF searchVars
  <2>2. SearchTypeOK'
    BY <2>1 DEF SearchInv, SearchTypeOK
  <2>3. OneThreadGoesOn'
    BY <2>1 DEF SearchInv, OneThreadGoesOn, Ending, OfTheSearch, Goes
  <2>4. Matches' = Matches /\ Gathered' = Gathered
    BY <2>1 DEF Matches, Gathered, Coming, Unposted, OfTheSearch, Goes
  <2>5. \A r, visited : HasVisited(r, visited)' = HasVisited(r, visited)
    BY <2>4 DEF HasVisited, Reached, Entered
  <2>6. \A g \in DOMAIN runs' : Goes(g)' => \E visited \in SUBSET Entries : HasVisited(runs[g], visited)'
    BY <2>1, <2>5 DEF SearchInv, SearchIsThorough, Goes
  <2>7. SearchIsThorough'
    BY <2>1, <2>4, <2>6 DEF SearchInv, SearchIsThorough, Ending, OfTheSearch
  <2>8. RowsAreTheSearchs'
    BY <2>1, <2>4 DEF SearchInv, RowsAreTheSearchs
  <2>. QED
    BY <2>2, <2>3, <2>7, <2>8 DEF SearchInv
<1>. QED
  BY <1>1, <1>2, <1>3, <1>4, <1>5, <1>6, <1>7 DEF SearchNext

(* The search that is shown has only matches of its own, all of them when   *)
(* it is over and was neither cancelled nor truncated; and while it is      *)
(* shown as running its thread goes on, or its end waits (DeepSearchModel's *)
(* generation, tokens and order of posts), for any tree and any limits.     *)
THEOREM SearchIsTrue == SearchSpec => []SearchTellsTheTruth
<1>1. SearchInv => SearchTellsTheTruth
  BY SearchRows DEF SearchInv, OneThreadGoesOn, SearchTellsTheTruth, RunningSearchHasAThread,
                    Ending, OfTheSearch
<1>. QED
  BY <1>1, SearchInitially, SearchStep, PTL DEF SearchSpec
=============================================================================
