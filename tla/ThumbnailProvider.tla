-------------------------- MODULE ThumbnailProvider --------------------------
(***************************************************************************)
(* The thumbnails' queue (src/src/thumbnails/ThumbnailProvider.cpp): the   *)
(* reader thread of the image cache asks for responses and cancels them,   *)
(* pool threads take them, and a response leaves the queue by either.      *)
(*                                                                         *)
(* m_mutex is held while the reader is evicting; the pool's own queue is   *)
(* not under it.  The pool takes by priority, which is any order here.     *)
(***************************************************************************)
EXTENDS Naturals, Sequences, SequencesExt, FiniteSets

CONSTANTS Responses, Workers, MaxQueued

VARIABLES
    queued,     \* m_queued
    place,      \* where the pool has each response
    cancelled,  \* m_cancelled
    emitted,    \* how often each has emitted finished()
    reader

thumbVars == <<queued, place, cancelled, emitted, reader>>

NoResponse == "none"

ASSUME ThumbAssumption == NoResponse \notin Responses /\ MaxQueued \in Nat \ {0}

Idle == [step |-> "idle", response |-> NoResponse, evicted |-> NoResponse]

ThumbInit ==
    /\ queued = <<>> /\ cancelled = {}
    /\ place = [r \in Responses |-> "new"]
    /\ emitted = [r \in Responses |-> 0]
    /\ reader = Idle

Emit(r) == emitted' = [emitted EXCEPT ![r] = @ + 1]

-----------------------------------------------------------------------------
(* requestImageResponse, which creates a response and enqueues it: while    *)
(* the queue is full its oldest is taken out, unless it has just started.   *)
requestImageResponse(r) ==
    /\ reader = Idle /\ place[r] = "new"
    /\ reader' = [reader EXCEPT !.step = "enqueue", !.response = r]
    /\ UNCHANGED <<queued, place, cancelled, emitted>>

Evict ==
    /\ reader.step = "enqueue" /\ reader.evicted = NoResponse /\ Len(queued) >= MaxQueued
    /\ queued' = Tail(queued)
    /\ IF place[Head(queued)] = "waiting"
       THEN /\ place' = [place EXCEPT ![Head(queued)] = "out"]
            /\ reader' = [reader EXCEPT !.evicted = Head(queued)]
       ELSE UNCHANGED <<place, reader>>
    /\ UNCHANGED <<cancelled, emitted>>

Enqueue ==
    /\ reader.step = "enqueue"
    /\ reader.evicted # NoResponse \/ Len(queued) < MaxQueued
    /\ queued' = Append(queued, reader.response)
    /\ place' = [place EXCEPT ![reader.response] = "waiting"]
    /\ reader' = IF reader.evicted = NoResponse THEN Idle
                 ELSE [reader EXCEPT !.step = "finish", !.response = reader.evicted]
    /\ UNCHANGED <<cancelled, emitted>>

finishCancelled ==
    /\ reader.step = "finish"
    /\ cancelled' = cancelled \cup {reader.response}
    /\ Emit(reader.response)
    /\ reader' = Idle
    /\ UNCHANGED <<queued, place>>

(* cancel, which the reader calls until it has handled finished().          *)
cancelResponse(r) ==
    /\ reader = Idle /\ place[r] \notin {"new", "deleted"} /\ r \notin cancelled
    /\ cancelled' = cancelled \cup {r}
    /\ reader' = [reader EXCEPT !.step = "cancel", !.response = r]
    /\ UNCHANGED <<queued, place, emitted>>

(* Mutant of cancelQueued: what is in the queue is taken to be waiting.     *)
cancelQueuedUntaken ==
    LET r == reader.response
    IN /\ reader.step = "cancel"
       /\ IF r \in ToSet(queued)
          THEN /\ queued' = RemoveFirst(queued, r)
               /\ place' = IF place[r] = "waiting" THEN [place EXCEPT ![r] = "out"] ELSE place
               /\ reader' = [reader EXCEPT !.step = "finish"]
          ELSE UNCHANGED <<queued, place>> /\ reader' = Idle
       /\ UNCHANGED <<cancelled, emitted>>

cancelQueued ==
    LET r == reader.response
    IN /\ reader.step = "cancel"
       /\ IF r \in ToSet(queued) /\ place[r] = "waiting"
          THEN /\ queued' = RemoveFirst(queued, r)
               /\ place' = [place EXCEPT ![r] = "out"]
               /\ reader' = [reader EXCEPT !.step = "finish"]
          ELSE UNCHANGED <<queued, place>> /\ reader' = Idle
       /\ UNCHANGED <<cancelled, emitted>>

(* The reader handles finished(), and the response is deleted.              *)
Handled(r) ==
    /\ reader = Idle /\ emitted[r] > 0 /\ place[r] # "deleted"
    /\ place' = [place EXCEPT ![r] = "deleted"]
    /\ UNCHANGED <<queued, cancelled, emitted, reader>>

-----------------------------------------------------------------------------
(* The pool takes a response; run waits for the mutex, takes it from the    *)
(* queue, loads unless it is cancelled, and emits finished().               *)
Take(r) ==
    /\ place[r] = "waiting"
    /\ Cardinality({s \in Responses : place[s] \in {"taken", "running"}}) < Workers
    /\ place' = [place EXCEPT ![r] = "taken"]
    /\ UNCHANGED <<queued, cancelled, emitted, reader>>

markStarted(r) ==
    /\ place[r] = "taken" /\ reader.step # "enqueue"
    /\ queued' = RemoveFirst(queued, r)
    /\ place' = [place EXCEPT ![r] = "running"]
    /\ UNCHANGED <<cancelled, emitted, reader>>

Loaded(r) ==
    /\ place[r] = "running"
    /\ place' = [place EXCEPT ![r] = "out"]
    /\ Emit(r)
    /\ UNCHANGED <<queued, cancelled, reader>>

ThumbNext ==
    \/ Evict \/ Enqueue \/ finishCancelled \/ cancelQueued
    \/ \E r \in Responses : \/ requestImageResponse(r) \/ cancelResponse(r) \/ Handled(r)
                            \/ Take(r) \/ markStarted(r) \/ Loaded(r)

ThumbSpec == ThumbInit /\ [][ThumbNext]_thumbVars

-----------------------------------------------------------------------------
(* A response emits finished() once, whoever takes it first: a thread, the  *)
(* eviction or the cancellation; the queue never holds one that has, which  *)
(* is soon deleted; and it holds all that wait, so that they are bounded    *)
(* (ThumbnailScheduler).                                                    *)
ThumbnailsAreFinishedOnce ==
    /\ \A r \in Responses : emitted[r] <= 1 /\ (place[r] = "new" => emitted[r] = 0)
    /\ \A r \in ToSet(queued) : emitted[r] = 0 /\ place[r] \in {"waiting", "taken"}
    /\ {r \in Responses : place[r] = "waiting"} \subseteq ToSet(queued)
    /\ Len(queued) <= MaxQueued
=============================================================================
