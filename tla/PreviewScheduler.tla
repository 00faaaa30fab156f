-------------------------- MODULE PreviewScheduler --------------------------
(***************************************************************************)
(* One lane of the preview scheduler (PreviewSchedulerImplementation.hpp): *)
(* a bounded queue of requests, at most one of them active in a helper     *)
(* process, the timer of the active request and the timer that lets an     *)
(* idle helper exit.  The two lanes share nothing but the id counter.  All *)
(* handlers run in the GUI thread; the helper and the operating system act *)
(* between them.  A loader's callback runs inside the handler that answers *)
(* its request; it does not call the scheduler.                            *)
(***************************************************************************)
EXTENDS Naturals, SequencesExt, Ranks

CONSTANTS
  Owners,      \* the loaders that submit to this lane
  Capacity,    \* kMaxPending, kMaxLongPending
  MaxRequests, \* bound: ids handed out
  MaxJunk      \* bound: lines the helper writes that answer nothing

ASSUME OwnersAssumption == Owners # {}
ASSUME CapacityAssumption == Capacity \in Nat \ {0}
ASSUME BoundsAssumption == MaxRequests \in Nat /\ MaxJunk \in Nat

Ids  == 1 .. MaxRequests
None == 0    \* no active request; on the wire, a line without a known id

VARIABLES
  lane,     \* LaneState of the scheduler
  helper,   \* the process: alive, the requests it has yet to read, its unread lines
  requests, \* per id: owner, retries, status
  junk,     \* number of such lines so far
  runs      \* history: how often each request was written to a helper

laneVars == <<lane, helper, requests, junk, runs>>

Lanes == [pending : Seq(Ids), active : Ids \cup {None},
          process : {"NotRunning", "Starting", "Running"},
          stopping : BOOLEAN, intentional : BOOLEAN,
          idleTimer : BOOLEAN, requestTimer : BOOLEAN]

Statuses == {"new", "waiting", "ok", "failed", "cancelled"}

LaneTypeOK ==
  /\ lane \in Lanes
  /\ helper \in [alive : BOOLEAN, input : Seq(Ids), output : Seq(Ids \cup {None})]
  /\ requests \in [Ids -> [owner : Owners, retries : 0 .. 1, status : Statuses]]
  /\ junk \in 0 .. MaxJunk
  /\ runs \in [Ids -> Nat]

LaneInit ==
  /\ lane = [pending |-> <<>>, active |-> None, process |-> "NotRunning",
             stopping |-> FALSE, intentional |-> FALSE,
             idleTimer |-> FALSE, requestTimer |-> FALSE]
  /\ helper = [alive |-> FALSE, input |-> <<>>, output |-> <<>>]
  /\ requests = [i \in Ids |-> [owner |-> CHOOSE o \in Owners : TRUE,
                                retries |-> 0, status |-> "new"]]
  /\ junk = 0
  /\ runs = [i \in Ids |-> 0]

Waiting(i)    == requests[i].status = "waiting"
Idle(l)       == l.active = None /\ l.pending = <<>>
Admitted(l)   == Len(l.pending) + (IF l.active = None THEN 0 ELSE 1)

----------------------------------------------------------------------------
(* Helpers of the handlers: what each does to the lane.                    *)

Ensure(l) ==
  IF l.stopping \/ l.process # "NotRunning" \/ l.pending = <<>> THEN l
  ELSE [l EXCEPT !.intentional = FALSE, !.process = "Starting"]

\* Mutant of Dispatch: the request timer is not started.
DispatchUntimed(l) ==
  IF l.stopping \/ l.active # None \/ l.pending = <<>> THEN l
  ELSE IF l.process # "Running" THEN Ensure(l)
  ELSE [l EXCEPT !.active = Head(l.pending), !.pending = Tail(l.pending)]

(* dispatchNext.  A request of a loader is far shorter than
   kMaxRequestLineBytes, and its owner lives: it cancels before it dies. *)
Dispatch(l) ==
  IF l.stopping \/ l.active # None \/ l.pending = <<>> THEN l
  ELSE IF l.process # "Running" THEN Ensure(l)
  ELSE [l EXCEPT !.active = Head(l.pending), !.pending = Tail(l.pending),
                 !.requestTimer = TRUE]

Stop(l, intentional) ==
  LET quiet == [l EXCEPT !.idleTimer = FALSE, !.requestTimer = FALSE]
  IN  IF l.process = "NotRunning"
        THEN Ensure([quiet EXCEPT !.stopping = FALSE, !.intentional = FALSE])
        ELSE [quiet EXCEPT !.stopping = TRUE, !.intentional = intentional]

ScheduleIdleExit(l) ==
  IF l.process = "Running" /\ Idle(l) THEN [l EXCEPT !.idleTimer = TRUE] ELSE l

(* The lane becomes l, which the helper h notices: it is started, it is killed
   by stopProcess, or a request that has become active is written to it. *)
Become(l, h) ==
  LET written == l.active # None /\ l.active # lane.active
      fresh   == [alive |-> TRUE, input |-> <<>>, output |-> <<>>]
  IN  /\ lane' = l
      /\ runs' = IF written THEN [runs EXCEPT ![l.active] = @ + 1] ELSE runs
      /\ helper' = IF l.process = "NotRunning" THEN [fresh EXCEPT !.alive = FALSE]
                   ELSE IF l.process = "Starting" /\ lane.process # "Starting" THEN fresh
                   ELSE IF l.stopping THEN [h EXCEPT !.alive = FALSE]
                   ELSE IF written THEN [h EXCEPT !.input = Append(@, l.active)]
                   ELSE h

Answer(ids, status) == [i \in Ids |-> IF i \in ids THEN [requests[i] EXCEPT !.status = status]
                                      ELSE requests[i]]

----------------------------------------------------------------------------
(* Calls of the loaders.                                                   *)

Admits == Admitted(lane) < Capacity

(* submit, admitted *)
Submit(o) ==
  /\ Admits
  /\ \E i \in Ids :
       /\ \A k \in 1 .. i : requests[k].status = "new" <=> k = i
       /\ requests' = [requests EXCEPT ![i] = [owner |-> o, retries |-> 0, status |-> "waiting"]]
       /\ Become(Dispatch(Ensure([lane EXCEPT !.pending = Append(@, i), !.idleTimer = FALSE])),
                 helper)
  /\ UNCHANGED junk

(* cancelOwner *)
CancelOwner(o) ==
  LET mine == {i \in Ids : /\ i \in Range(lane.pending) \/ i = lane.active
                           /\ requests[i].owner = o}
      l    == [lane EXCEPT !.pending = Without(@, mine)]
  IN  /\ requests' = Answer(mine, "cancelled")
      /\ Become(IF lane.active \in mine THEN Stop([l EXCEPT !.active = None], TRUE)
                ELSE IF Idle(l) THEN ScheduleIdleExit(l)
                ELSE l, helper)
      /\ UNCHANGED junk

----------------------------------------------------------------------------
(* Signals of the process and the timers.                                  *)

(* started *)
Started ==
  /\ lane.process = "Starting"
  /\ Become(Dispatch([lane EXCEPT !.process = "Running",
                                  !.stopping = FALSE, !.intentional = FALSE]), helper)
  /\ UNCHANGED <<requests, junk>>

(* handleFailedToStart; nothing is active before the process has started *)
FailedToStart ==
  /\ lane.process = "Starting"
  /\ requests' = Answer(Range(lane.pending), "failed")
  /\ Become([lane EXCEPT !.process = "NotRunning", !.pending = <<>>, !.requestTimer = FALSE,
                         !.stopping = FALSE, !.intentional = FALSE], helper)
  /\ UNCHANGED junk

(* failActiveAndRestart without a retry *)
FailActive(h) ==
  /\ requests' = Answer({lane.active}, "failed")
  /\ Become(Stop([lane EXCEPT !.active = None], FALSE), h)

(* completeActive *)
CompleteActive(status, h) ==
  LET l == Dispatch([lane EXCEPT !.active = None, !.requestTimer = FALSE])
  IN  /\ requests' = Answer({lane.active}, status)
      /\ Become(IF Idle(l) THEN ScheduleIdleExit(l) ELSE l, h)

(* handleReadyRead, one line: the answer to the active request, in which the
   helper says whether it succeeded, or a line that is none *)
ReadLine ==
  /\ lane.process = "Running" /\ helper.output # <<>>
  /\ LET rest == [helper EXCEPT !.output = Tail(@)]
     IN  IF lane.active = None
           THEN Become(Stop(lane, FALSE), rest) /\ UNCHANGED requests
         ELSE IF Head(helper.output) # lane.active THEN FailActive(rest)
         ELSE \E status \in {"ok", "failed"} : CompleteActive(status, rest)
  /\ UNCHANGED junk

\* Mutant of Finished: a retry is not counted.
FinishedUncounted ==
  /\ lane.process = "Running" /\ ~helper.alive /\ helper.output = <<>>
  /\ LET a     == lane.active
         ended == [lane EXCEPT !.process = "NotRunning", !.active = None, !.requestTimer = FALSE,
                               !.stopping = FALSE, !.intentional = FALSE,
                               !.pending = IF a = None THEN @ ELSE <<a>> \o @]
     IN  Become(IF ended.pending # <<>> THEN Ensure(ended) ELSE ended, helper)
  /\ UNCHANGED <<requests, junk>>

\* Mutant of Finished: no new helper is started for what is still queued.
FinishedForGood ==
  /\ lane.process = "Running" /\ ~helper.alive /\ helper.output = <<>>
  /\ requests' = Answer({lane.active}, "failed")
  /\ Become([lane EXCEPT !.process = "NotRunning", !.active = None, !.requestTimer = FALSE,
                         !.stopping = FALSE, !.intentional = FALSE, !.idleTimer = FALSE], helper)
  /\ UNCHANGED junk

(* handleProcessFinished; QProcess hands over the output left first *)
Finished ==
  /\ lane.process = "Running" /\ ~helper.alive /\ helper.output = <<>>
  /\ LET a     == lane.active
         retry == a # None /\ ~lane.intentional /\ requests[a].retries < 1
         ended == [lane EXCEPT !.process = "NotRunning", !.active = None, !.requestTimer = FALSE,
                               !.stopping = FALSE, !.intentional = FALSE,
                               !.pending = IF retry THEN <<a>> \o @ ELSE @]
     IN  /\ requests' = IF retry THEN [requests EXCEPT ![a].retries = @ + 1]
                        ELSE IF lane.intentional THEN requests
                        ELSE Answer({a}, "failed")
         /\ Become(IF ended.pending # <<>> THEN Ensure(ended)
                   ELSE [ended EXCEPT !.idleTimer = FALSE], helper)
  /\ UNCHANGED junk

(* handleRequestTimeout *)
RequestTimeout ==
  /\ lane.requestTimer
  /\ IF lane.active # None THEN FailActive(helper)
     ELSE Become([lane EXCEPT !.requestTimer = FALSE], helper) /\ UNCHANGED requests
  /\ UNCHANGED junk

IdleTimeout ==
  /\ lane.idleTimer
  /\ Become(IF Idle(lane) THEN Stop(lane, TRUE) ELSE [lane EXCEPT !.idleTimer = FALSE], helper)
  /\ UNCHANGED <<requests, junk>>

----------------------------------------------------------------------------
(* The helper process: it answers what it has read, writes something else
   (a diagnostic, or part of an answer that outgrows the buffer), hangs, or
   dies, in its own code or by a resource limit. *)

HelperAnswers ==
  /\ helper.alive /\ helper.input # <<>>
  /\ helper' = [helper EXCEPT !.input = Tail(@), !.output = Append(@, Head(helper.input))]
  /\ UNCHANGED <<lane, requests, junk, runs>>

HelperBabbles ==
  /\ helper.alive /\ junk < MaxJunk
  /\ junk' = junk + 1
  /\ helper' = [helper EXCEPT !.output = Append(@, None)]
  /\ UNCHANGED <<lane, requests, runs>>

HelperDies ==
  /\ helper.alive
  /\ helper' = [helper EXCEPT !.alive = FALSE]
  /\ UNCHANGED <<lane, requests, junk, runs>>

Helper == HelperAnswers \/ HelperBabbles \/ HelperDies

(* What Qt delivers to the lane. *)
Signals == Started \/ FailedToStart \/ ReadLine \/ Finished \/ RequestTimeout \/ IdleTimeout

----------------------------------------------------------------------------
(* No request is lost between queue, helper and retry, although every handler
   moves them: what waits is queued once or active, a queue has a process on
   its way, an active request has its timer running, and the lane keeps its
   limit. *)
NothingForgotten ==
  /\ {i \in Ids : Waiting(i)} = Range(lane.pending) \cup ({lane.active} \ {None})
  /\ IsInjective(lane.pending) /\ lane.active \notin Range(lane.pending)
  /\ Admitted(lane) <= Capacity
  /\ lane.pending # <<>> => lane.process # "NotRunning"
  /\ lane.active # None =>
       lane.process = "Running" /\ ~lane.stopping /\ lane.requestTimer

(* A request whose helper dies is tried once more and then given up, so a file
   that kills every helper cannot keep the lane to itself. *)
TriedTwiceAtMost == \A i \in Ids : runs[i] <= 2

(* A lane with nothing to do and a helper that runs has armed the timer that
   lets the helper exit, or is killing it. *)
IdleHelperWillExit ==
  Idle(lane) /\ lane.process = "Running" => lane.idleTimer \/ lane.stopping \/ ~helper.alive

(* Every request that is admitted is answered or withdrawn, whatever the
   helper does. *)
EveryRequestIsAnswered == \A i \in Ids : Waiting(i) ~> ~Waiting(i)
=============================================================================
