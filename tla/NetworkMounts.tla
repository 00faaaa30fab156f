--------------------------- MODULE NetworkMounts ---------------------------
(***************************************************************************)
(* The network locations of the rail (src/src/locations/):                 *)
(* NetworkLocationModel lists the mounts GIO's volume monitor knows,       *)
(* NetworkConnectionController makes one, with the questions it asks on    *)
(* the way, NetworkDisconnectController takes one away; and the sessions   *)
(* inside a mount that is gone are led out of it, through                  *)
(* NetworkMountRecoveryRegistry and TabManager.                            *)
(*                                                                         *)
(* Roots are the mounts' root locations.  real counts the mounts of each   *)
(* that exist, mounts those the monitor has told of; several GMounts may   *)
(* stand for one root, and every change is told (signals).  MaxActs bounds  *)
(* what happens from outside.                                              *)
(***************************************************************************)
EXTENDS TabManager, FiniteSets

CONSTANTS Roots, MaxMounts, MaxActs

ASSUME RootsAssumption ==
    /\ {Home, NoPlace, "rebuild"} \cap Roots = {}
    /\ {MaxMounts, MaxActs} \subseteq Nat

VARIABLES
    real, mounts, signals,
    items,              \* m_items of the location model
    refreshScheduled,   \* m_refreshScheduled
    queue,              \* the calls it queued: "rebuild", or the root removed
    connecting,         \* m_request of the connection: <<>> or <<context>>
    awaiting,           \* m_awaitingCredentials, m_awaitingChoice: the prompt shown
    asking,             \* the question GIO waits for an answer to
    disconnecting,      \* m_request of the disconnection: <<>> or <<context>>
    acts

mountVars == <<real, mounts, signals>>
locationVars == <<items, refreshScheduled, queue>>
connectVars == <<connecting, awaiting, asking>>
netVars == <<real, mounts, signals, items, refreshScheduled, queue, connecting, awaiting,
             asking, disconnecting, acts>>

Prompts == {"credentials", "choice"}
Known == {r \in Roots : mounts[r] > 0}
Act == acts < MaxActs /\ acts' = acts + 1

-----------------------------------------------------------------------------
(* scheduleRefresh, which refresh is another name of: once at a time.       *)
scheduleLocationRefresh ==
    /\ refreshScheduled' = TRUE
    /\ queue' = IF refreshScheduled THEN queue ELSE Append(queue, "rebuild")
    /\ UNCHANGED items

NetworkInit ==
    /\ TabInit
    /\ real = [r \in Roots |-> 0] /\ mounts = real /\ signals = <<>>
    /\ items = {} /\ refreshScheduled = FALSE /\ queue = <<>>
    /\ connecting = <<>> /\ awaiting = "none" /\ asking = "none"
    /\ disconnecting = <<>>
    /\ acts = 0

(* A mount of r comes or goes, and the monitor will say so.                 *)
Made(r) == /\ real' = [real EXCEPT ![r] = @ + 1]
           /\ signals' = Append(signals, [kind |-> "added", root |-> r])
Lost(r) == /\ real' = [real EXCEPT ![r] = @ - 1]
           /\ signals' = Append(signals, [kind |-> "removed", root |-> r])

(* mount-added and mount-changed.                                           *)
MountAdded ==
    /\ signals # <<>> /\ Head(signals).kind = "added"
    /\ signals' = Tail(signals)
    /\ mounts' = [mounts EXCEPT ![Head(signals).root] = @ + 1]
    /\ scheduleLocationRefresh
    /\ UNCHANGED <<real, connectVars, disconnecting, acts, tabVars>>

(* mount-removed: what is to be done about it is queued.                    *)
MountRemoved ==
    /\ signals # <<>> /\ Head(signals).kind = "removed"
    /\ signals' = Tail(signals)
    /\ mounts' = [mounts EXCEPT ![Head(signals).root] = @ - 1]
    /\ queue' = Append(queue, Head(signals).root)
    /\ UNCHANGED <<real, items, refreshScheduled, connectVars, disconnecting, acts, tabVars>>

(* rebuildFromMonitor, called from the queue by scheduleRefresh.            *)
Rebuild ==
    /\ queue # <<>> /\ Head(queue) = "rebuild"
    /\ queue' = Tail(queue)
    /\ refreshScheduled' = FALSE
    /\ items' = Known
    /\ UNCHANGED <<mountVars, connectVars, disconnecting, acts, tabVars>>

(* Mutant of Removed: the list is not rebuilt first.                        *)
RemovedByOldList ==
    /\ queue # <<>> /\ Head(queue) \in Roots
    /\ queue' = Tail(queue)
    /\ items' = Known
    /\ IF Head(queue) \in items THEN UNCHANGED tabVars
                                ELSE recoverUnmounted({Head(queue)}, Home)
    /\ UNCHANGED <<mountVars, refreshScheduled, connectVars, disconnecting, acts>>

(* The call queued by mount-removed: unless another mount of the root is    *)
(* left, the sessions are told (main.cpp, recoverUnmountedNetwork).         *)
Removed ==
    /\ queue # <<>> /\ Head(queue) \in Roots
    /\ queue' = Tail(queue)
    /\ items' = Known
    /\ IF Head(queue) \in Known THEN UNCHANGED tabVars
                                ELSE recoverUnmounted({Head(queue)}, Home)
    /\ UNCHANGED <<mountVars, refreshScheduled, connectVars, disconnecting, acts>>

-----------------------------------------------------------------------------
(* NetworkConnectionController.                                             *)

(* Mutant of connectTo: a refusal clears the prompt, as every other error   *)
(* does (setImmediateError).                                                *)
ConnectToResets(r) ==
    /\ Act
    /\ connecting' = IF connecting = <<>> THEN <<[root |-> r, cancelled |-> FALSE]>> ELSE connecting
    /\ awaiting' = "none"
    /\ UNCHANGED <<mountVars, locationVars, asking, disconnecting, tabVars>>

(* connectTo: a second call is refused and leaves the first one's prompt.   *)
connectTo(r) ==
    /\ Act
    /\ connecting' = IF connecting = <<>> THEN <<[root |-> r, cancelled |-> FALSE]>> ELSE connecting
    /\ awaiting' = IF connecting = <<>> THEN "none" ELSE awaiting
    /\ UNCHANGED <<mountVars, locationVars, asking, disconnecting, tabVars>>

(* ask-password and ask-question: one question at a time, which is shown.   *)
Ask(kind) ==
    /\ connecting # <<>> /\ asking = "none"
    /\ Act
    /\ asking' = kind /\ awaiting' = kind
    /\ UNCHANGED <<mountVars, locationVars, connecting, disconnecting, tabVars>>

(* GIO's "aborted": it does not wait any more.                              *)
Aborted ==
    /\ asking # "none"
    /\ asking' = "none" /\ awaiting' = "none"
    /\ UNCHANGED <<mountVars, locationVars, connecting, disconnecting, acts, tabVars>>

(* submitCredentials and submitChoice.                                      *)
Submit(kind) ==
    /\ connecting # <<>> /\ awaiting = kind
    /\ awaiting' = "none" /\ asking' = "none"
    /\ UNCHANGED <<mountVars, locationVars, connecting, disconnecting, acts, tabVars>>

(* cancel: an open question is answered with an abort.                      *)
CancelConnection ==
    /\ connecting # <<>>
    /\ Act
    /\ connecting' = <<[connecting[1] EXCEPT !.cancelled = TRUE]>>
    /\ asking' = IF awaiting # "none" THEN "none" ELSE asking
    /\ awaiting' = "none"
    /\ UNCHANGED <<mountVars, locationVars, disconnecting, tabVars>>

(* The mount comes into being; GIO has not answered.                        *)
MountMade ==
    /\ connecting # <<>> /\ asking = "none"
    /\ real[connecting[1].root] = 0
    /\ Made(connecting[1].root)
    /\ UNCHANGED <<mounts, locationVars, connectVars, disconnecting, acts, tabVars>>

(* finishRequest, with success (also when it was mounted already) or not.   *)
(* connected refreshes the list, and the rail goes to the location.  That   *)
(* the mount still exists then is an assumption of the model.               *)
ConnectionFinished ==
    /\ connecting # <<>>
    /\ connecting' = <<>> /\ awaiting' = "none" /\ asking' = "none"
    /\ LET context == connecting[1]
       IN \/ /\ real[context.root] > 0 /\ ~context.cancelled
             /\ scheduleLocationRefresh
             /\ tabs' = Navigated(context.root)
          \/ UNCHANGED <<locationVars, tabs>>
    /\ UNCHANGED <<mountVars, disconnecting, acts, currentIndex, closedTabs>>

-----------------------------------------------------------------------------
(* NetworkDisconnectController: disconnectFrom, for a mount the monitor has *)
(* and one request at a time; cancel; and finishRequest.                    *)
disconnectFrom(r) ==
    /\ Act
    /\ disconnecting = <<>>
    /\ r \in Known
    /\ disconnecting' = <<[root |-> r, cancelled |-> FALSE, done |-> FALSE]>>
    /\ UNCHANGED <<mountVars, locationVars, connectVars, tabVars>>

CancelDisconnection ==
    /\ disconnecting # <<>>
    /\ Act
    /\ disconnecting' = <<[disconnecting[1] EXCEPT !.cancelled = TRUE]>>
    /\ UNCHANGED <<mountVars, locationVars, connectVars, tabVars>>

(* GIO unmounts, also when the cancellation comes too late.                 *)
Unmounting ==
    /\ disconnecting # <<>> /\ ~disconnecting[1].done
    /\ real[disconnecting[1].root] > 0
    /\ Lost(disconnecting[1].root)
    /\ disconnecting' = <<[disconnecting[1] EXCEPT !.done = TRUE]>>
    /\ UNCHANGED <<mounts, locationVars, connectVars, acts, tabVars>>

(* disconnected refreshes the list; a cancelled or failed one does not.     *)
DisconnectionFinished ==
    /\ disconnecting # <<>>
    /\ disconnecting' = <<>>
    /\ IF disconnecting[1].done /\ ~disconnecting[1].cancelled
       THEN scheduleLocationRefresh
       ELSE UNCHANGED locationVars
    /\ UNCHANGED <<mountVars, connectVars, acts, tabVars>>

-----------------------------------------------------------------------------
(* The mount is made or lost by others.                                     *)
MountedElsewhere(r) ==
    /\ Act
    /\ \/ real[r] < MaxMounts /\ Made(r)
       \/ real[r] > 0 /\ Lost(r)
    /\ UNCHANGED <<mounts, locationVars, connectVars, disconnecting, tabVars>>

(* The user goes to a location of the rail, or home.                        *)
GoToLocation(p) ==
    /\ Act
    /\ p \in items \cup {Home} /\ p # CurrentPlace
    /\ tabs' = Navigated(p)
    /\ UNCHANGED <<mountVars, locationVars, connectVars, disconnecting, currentIndex, closedTabs>>

ArrangeTabsOnline ==
    /\ Act
    /\ Arrange
    /\ UNCHANGED <<mountVars, locationVars, connectVars, disconnecting>>

NetworkNext ==
    \/ MountAdded
    \/ MountRemoved
    \/ \E r \in Roots : connectTo(r) \/ disconnectFrom(r) \/ MountedElsewhere(r)
    \/ Rebuild
    \/ Removed
    \/ \E kind \in Prompts : Ask(kind) \/ Submit(kind)
    \/ Aborted
    \/ CancelConnection
    \/ MountMade
    \/ ConnectionFinished
    \/ CancelDisconnection
    \/ Unmounting
    \/ DisconnectionFinished
    \/ \E p \in Roots \cup {Home} : GoToLocation(p)
    \/ ArrangeTabsOnline

NetworkSpec == NetworkInit /\ [][NetworkNext]_<<netVars, tabVars>>

-----------------------------------------------------------------------------
(* When all the monitor told has been dealt with, the rail lists the mounts *)
(* that exist, and no pane and no closed tab is inside one that is gone     *)
(* (scheduleRefresh, the queued removal and recoverUnmountedNetwork),       *)
(* whoever took it away, and however the disconnection ended here.          *)
NobodyStaysInALostMount ==
    (queue = <<>> /\ signals = <<>>)
        => items = Known /\ (PlacesShown \cup PlacesKept) \cap Roots \subseteq items

(* The prompt is shown exactly while GIO waits for its answer: a question   *)
(* is never lost, which would leave the connection waiting for ever, and    *)
(* none is answered twice or after the request ended (resetPrompt, and what *)
(* each of its callers tells GIO).                                          *)
EveryQuestionIsOnTheScreen ==
    /\ awaiting = asking
    /\ awaiting # "none" => connecting # <<>>
=============================================================================
