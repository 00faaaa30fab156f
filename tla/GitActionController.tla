------------------------- MODULE GitActionController -------------------------
(***************************************************************************)
(* Staging, unstaging and diffs (src/src/git/GitActionController.cpp), one *)
(* at a time, each on a pool thread that runs one git process or two, and  *)
(* the two views that wait for them: the file menu and the diff panel.     *)
(*                                                                         *)
(* A file's entry in the index is "clean" (as in the last commit),         *)
(* "changed", "removed", or, before the first commit, "absent" or "added". *)
(* A request is known by its generation.  MaxActions bounds the requests.  *)
(***************************************************************************)
EXTENDS Naturals, Sequences

CONSTANTS Files, MaxActions

VARIABLES
    busy, generation,
    threads,        \* by generation
    posted,         \* results for the GUI thread
    diff,           \* m_diffText, as what it shows, and what it is said to be of
    stopping,
    pendingGitOperation, operationId,   \* the menu's and the panel's; 0 is none
    commits,        \* whether the repository has a HEAD
    index

actionVars == <<busy, generation, threads, posted, diff, stopping,
                pendingGitOperation, operationId, commits, index>>

NoDiff == [path |-> "none", staged |-> FALSE]


ActionInit ==
    /\ busy = FALSE /\ generation = 0 /\ threads = <<>> /\ posted = <<>> /\ stopping = FALSE
    /\ diff = [text |-> NoDiff, of |-> NoDiff]
    /\ pendingGitOperation = 0 /\ operationId = 0
    /\ commits \in BOOLEAN
    /\ index \in [Files -> IF commits THEN {"clean", "changed"} ELSE {"absent", "added"}]

-----------------------------------------------------------------------------
(* startRequest, on a file of the repository; a diff first clears the last. *)
startRequest(kind, file, staged) ==
    /\ ~stopping /\ ~busy /\ generation < MaxActions
    /\ generation' = generation + 1
    /\ busy' = TRUE
    /\ threads' = Append(threads, [kind |-> kind, file |-> file, staged |-> staged,
                                   token |-> FALSE, hasHead |-> FALSE,
                                   step |-> IF kind = "unstage" THEN "probe" ELSE "run"])
    /\ diff' = IF kind = "diff" THEN [text |-> NoDiff, of |-> [path |-> file, staged |-> staged]]
               ELSE diff
    /\ UNCHANGED <<posted, stopping, commits, index>>

(* startGitMutation of the menu, and openFor of the panel.                  *)
startMutation(kind, file) ==
    /\ pendingGitOperation = 0
    /\ startRequest(kind, file, FALSE)
    /\ pendingGitOperation' = generation + 1
    /\ UNCHANGED operationId

requestDiff(file, staged) ==
    /\ operationId = 0
    /\ startRequest("diff", file, staged)
    /\ operationId' = generation + 1
    /\ UNCHANGED pendingGitOperation

SetToken == threads' = [threads EXCEPT ![generation].token = TRUE]

(* Mutant of cancel: the controller is free again at once.                  *)
cancelAndForget == SetToken /\ busy' = FALSE

(* cancel only sets the token; the thread still answers.                    *)
cancel == SetToken /\ UNCHANGED busy

(* close of the panel.                                                      *)
closePanel ==
    /\ ~stopping /\ operationId # 0
    /\ operationId' = 0
    /\ IF busy THEN cancel ELSE UNCHANGED <<threads, busy>>
    /\ UNCHANGED <<generation, posted, diff, stopping, pendingGitOperation, commits, index>>

(* The destructor sets the token and waits for the last future.             *)
Destroy ==
    /\ ~stopping
    /\ stopping' = TRUE
    /\ IF busy THEN SetToken ELSE UNCHANGED threads
    /\ UNCHANGED <<busy, generation, posted, diff, pendingGitOperation, operationId, commits, index>>

-----------------------------------------------------------------------------
(* What runProcess makes of a process: "done"; it is not started, or git    *)
(* refuses; it runs too long, or says too much, and is killed, before or    *)
(* after its work; or it is killed because of the token, which is looked    *)
(* at while the process runs and not before it is started.                  *)
Outcomes(t) ==
    {[worked |-> TRUE, success |-> TRUE], [worked |-> FALSE, success |-> FALSE],
     [worked |-> TRUE, success |-> FALSE]}
    \cup (IF threads[t].kind = "diff" THEN {[worked |-> FALSE, success |-> TRUE]} ELSE {})

(* hasHead: whether git rev-parse has succeeded.                            *)
hasHead(t) ==
    /\ threads[t].step = "probe"
    /\ \E outcome \in Outcomes(t) :
          threads' = [threads EXCEPT ![t].step = "run",
                        ![t].hasHead = outcome.success /\ commits]
    /\ UNCHANGED <<busy, generation, posted, diff, stopping, pendingGitOperation, operationId,
                   commits, index>>

(* git add, git restore --staged, and git rm --cached.                      *)
Command(t) ==
    CASE threads[t].kind = "stage" -> "add"
      [] threads[t].kind = "diff" -> "diff"
      [] threads[t].kind = "unstage" /\ threads[t].hasHead -> "restore"
      [] OTHER -> "rm"

AfterGit(t) ==
    CASE Command(t) = "add" -> [index EXCEPT ![threads[t].file] = IF commits THEN "changed" ELSE "added"]
      [] Command(t) = "restore" -> [index EXCEPT ![threads[t].file] = "clean"]
      [] Command(t) = "rm" -> [index EXCEPT ![threads[t].file] = IF commits THEN "removed" ELSE "absent"]
      [] OTHER -> index

runRequest(t) ==
    /\ threads[t].step = "run"
    /\ threads' = [threads EXCEPT ![t].step = "ended"]
    /\ \E outcome \in Outcomes(t) :
          /\ index' = IF outcome.worked THEN AfterGit(t) ELSE index
          /\ posted' = IF stopping THEN posted
                       ELSE Append(posted, [generation |-> t, success |-> outcome.success])
    /\ UNCHANGED <<busy, generation, diff, stopping, pendingGitOperation, operationId, commits>>

(* applyResult, and onOperationFinished of the menu.                        *)
applyResult(post) ==
    LET t == threads[post.generation]
    IN IF post.generation # generation THEN UNCHANGED <<busy, diff, pendingGitOperation>>
       ELSE /\ busy' = FALSE
            /\ diff' = IF t.kind = "diff" /\ post.success
                       THEN [text |-> [path |-> t.file, staged |-> t.staged],
                             of |-> [path |-> t.file, staged |-> t.staged]]
                       ELSE diff
            /\ pendingGitOperation' = IF post.generation = pendingGitOperation THEN 0
                                      ELSE pendingGitOperation

Apply ==
    /\ ~stopping /\ posted # <<>>
    /\ posted' = Tail(posted)
    /\ applyResult(Head(posted))
    /\ UNCHANGED <<generation, threads, stopping, operationId, commits, index>>

ActionNext ==
    \/ \E file \in Files : \/ \E kind \in {"stage", "unstage"} : startMutation(kind, file)
                           \/ \E staged \in BOOLEAN : requestDiff(file, staged)
    \/ closePanel \/ Destroy \/ Apply
    \/ \E t \in DOMAIN threads : hasHead(t) \/ runRequest(t)

ActionSpec == ActionInit /\ [][ActionNext]_actionVars

-----------------------------------------------------------------------------
(* There is never a second thread, as the destructor waits for the last     *)
(* one only; while one goes on, or its result waits, the controller is      *)
(* busy, and never otherwise; and what the menu waits for is that action,   *)
(* so that it does not wait for ever; and a diff is of the file it names    *)
(* (m_busy, m_future and cancel).                                           *)
Unfinished == {t \in DOMAIN threads : threads[t].step # "ended"}

OneGitActionAtATime ==
    /\ Unfinished \subseteq {generation}
    /\ diff.text \in {NoDiff, diff.of}
    /\ ~stopping =>
         /\ busy <=> Unfinished # {} \/ \E i \in DOMAIN posted : posted[i].generation = generation
         /\ pendingGitOperation # 0 =>
              busy /\ pendingGitOperation = generation /\ threads[generation].kind # "diff"

(* Unstaging a file never stages its deletion.  The code does not keep      *)
(* this: a probe that fails for any other reason than a missing HEAD makes  *)
(* it run git rm --cached.                                                  *)
UnstagingDeletesNothing == \A file \in Files : index[file] # "removed"
=============================================================================
