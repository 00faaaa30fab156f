----------------------------- MODULE DriveModel -----------------------------
(***************************************************************************)
(* The storage volumes of the rail (src/src/storage/DriveModel.cpp) over   *)
(* UDisks: a list that is read whole, again after every change reported,   *)
(* and the calls that mount, unmount and power off.                        *)
(*                                                                         *)
(* UDisks is the environment.  What the kernel has (kernel), what UDisks   *)
(* exports (exported) and what the program has read (objects) are each a   *)
(* set of objects and the volumes among them that are mounted.  UDisks     *)
(* works on several calls at a time; all it sends, and what the bus says   *)
(* of it, arrives in one order (inbox).                                    *)
(*                                                                         *)
(* Volumes are the block devices with a file system that the list shows,   *)
(* Locked those that only back another one (LUKS).  A volume stands for    *)
(* its mount point too.  MaxEvents bounds what happens from outside,       *)
(* MaxDisturbances what of it is the doing of others, or the end of        *)
(* UDisks.                                                                 *)
(***************************************************************************)
EXTENDS Integers, Sequences, SequencesExt, FiniteSets

CONSTANTS Volumes, Locked, Drives, Nothing,
          Drive,        \* the drive of a block device, Nothing for "/"
          Backing,      \* the block device it was unlocked from, or Nothing
          SiblingId,    \* of a drive: Nothing if it has none
          CanPowerOff,  \* the drives that can be powered off
          MaxEvents, MaxDisturbances

VARIABLES
    objects,        \* m_managedObjects, and m_items that is made from it
    loading,        \* m_loading
    refreshPending, \* m_refreshPending
    busyObjects,    \* m_busyObjects
    busyDrives,     \* m_busyDriveObjects
    calls,          \* calls UDisks has not answered
    inbox,          \* what the bus has for the program
    kernel, exported, serviceUp,
    events, disturbances,
    unmarked        \* history: the program read of the end of UDisks while
                    \* calls were under way, and one of them still is

modelVars == <<objects, loading, refreshPending, busyObjects, busyDrives>>
udisksVars == <<kernel, exported, serviceUp, disturbances>>
driveVars == <<objects, loading, refreshPending, busyObjects, busyDrives, calls,
               inbox, kernel, exported, serviceUp, events, disturbances, unmarked>>

Blocks == Volumes \cup Locked

ASSUME DrivesAssumption ==
    /\ Nothing \notin Blocks \cup Drives
    /\ Blocks \cap Drives = {}
    /\ Drive \in [Blocks -> Drives \cup {Nothing}]
    /\ Backing \in [Blocks -> Blocks \cup {Nothing}]
    /\ {MaxEvents, MaxDisturbances} \subseteq Nat

None == [present |-> {}, mounted |-> {}]

(* Calls are told apart by their number, the event that made them.          *)
Call(number, kind, v, drives) ==
    [number |-> number, kind |-> kind, object |-> v, drives |-> drives, result |-> "none"]
ListCall == Call(0, "List", Nothing, {})

(* volumesFromManagedObjects: the rows, and those shown as mounted.         *)
Rows == objects.present \cap Volumes
RowMounted(v) == v \in objects.mounted

-----------------------------------------------------------------------------
(* Block devices from which b comes, as far as the objects show: the loop   *)
(* over CryptoBackingDevice, which stops at one it has visited.             *)
BackingChain(known, b) ==
    {x \in known.present :
        \A visited \in SUBSET Blocks :
            /\ b \in visited
            /\ \A y \in visited \cap known.present : Backing[y] \in visited \cup {Nothing}
            => x \in visited}

belongsToAffectedDrive(known, b, drives) ==
    \E x \in BackingChain(known, b) : Drive[x] \in drives

AffectedDrives(known, d) ==
    {e \in known.present \cap Drives :
        e = d \/ (SiblingId[d] # Nothing /\ SiblingId[e] = SiblingId[d])}

(* powerOffPlan: whether the drive of v may go, with its siblings.          *)
PowerOffAllowed(known, v) ==
    /\ v \in known.present
    /\ Drive[v] \in known.present \cap CanPowerOff
    /\ \A w \in known.mounted :
         ~belongsToAffectedDrive(known, w, AffectedDrives(known, Drive[v]))

-----------------------------------------------------------------------------
(* refresh and requestRefreshAfterCurrent: one listing at a time, the next  *)
(* one is remembered.                                                       *)
refresh ==
    /\ loading' = TRUE
    /\ refreshPending' = (refreshPending \/ loading)
    /\ calls' = IF loading THEN calls ELSE calls \cup {ListCall}

DriveInit ==
    /\ inbox = <<>>
    /\ kernel = [present |-> Blocks \cup Drives, mounted |-> {}]
    /\ exported = kernel
    /\ serviceUp = TRUE
    /\ objects = None
    /\ loading = TRUE /\ calls = {ListCall}
    /\ refreshPending = FALSE
    /\ busyObjects = {} /\ busyDrives = {}
    /\ events = 0 /\ disturbances = 0
    /\ unmarked = FALSE

Busy(v) == v \in busyObjects \/ Drive[v] \in busyDrives

Event == events < MaxEvents /\ events' = events + 1

Disturbance == Event /\ disturbances < MaxDisturbances /\ disturbances' = disturbances + 1

(* mount and unmount of a row.                                              *)
SetBusyAndCall(v, kind) ==
    /\ busyObjects' = busyObjects \cup {v}
    /\ calls' = calls \cup {Call(events', kind, v, {})}
    /\ UNCHANGED <<objects, loading, refreshPending, busyDrives, inbox, udisksVars>>

(* Mutant of mount: only the volume's own calls hold it back.               *)
MutMountAnyDrive(v) ==
    /\ Event
    /\ v \in Rows \ busyObjects
    /\ ~RowMounted(v)
    /\ SetBusyAndCall(v, "Mount")

mount(v) ==
    /\ Event
    /\ v \in Rows /\ ~Busy(v)
    /\ ~RowMounted(v)
    /\ SetBusyAndCall(v, "Mount")

unmount(v) ==
    /\ Event
    /\ v \in Rows /\ ~Busy(v)
    /\ RowMounted(v)
    /\ SetBusyAndCall(v, "Unmount")

powerOff(v) ==
    LET drives == AffectedDrives(objects, Drive[v])
    IN /\ Event
       /\ v \in Rows
       /\ PowerOffAllowed(objects, v)
       /\ busyObjects = {}
       /\ drives \cap busyDrives = {}
       /\ busyDrives' = busyDrives \cup drives
       /\ calls' = calls \cup {Call(events', "PowerOff", v, drives)}
       /\ UNCHANGED <<objects, loading, refreshPending, busyObjects, inbox, udisksVars>>

-----------------------------------------------------------------------------
(* What arrives.                                                            *)
Next1 == Head(inbox)

(* InterfacesAdded, InterfacesRemoved, PropertiesChanged.                   *)
Changed ==
    /\ inbox # <<>> /\ Next1.kind = "changed"
    /\ inbox' = Tail(inbox)
    /\ refresh
    /\ UNCHANGED <<objects, busyObjects, busyDrives, udisksVars, events>>

onServiceRegistered ==
    /\ inbox # <<>> /\ Next1.kind = "registered"
    /\ inbox' = Tail(inbox)
    /\ refresh
    /\ UNCHANGED <<objects, busyObjects, busyDrives, udisksVars, events>>

onServiceUnregistered ==
    /\ inbox # <<>> /\ Next1.kind = "unregistered"
    /\ inbox' = Tail(inbox)
    /\ refreshPending' = FALSE
    /\ objects' = None
    /\ busyObjects' = {} /\ busyDrives' = {}
    /\ UNCHANGED <<loading, calls, udisksVars, events>>

(* The answer to GetManagedObjects: the listing replaces what was known, an *)
(* error empties it, and a refresh asked for meanwhile is made now.         *)
Listed ==
    /\ inbox # <<>> /\ Next1.kind = "List"
    /\ inbox' = Tail(inbox)
    /\ objects' = IF Next1.result = "ok" THEN Next1.objects ELSE None
    /\ loading' = refreshPending
    /\ refreshPending' = FALSE
    /\ calls' = IF refreshPending THEN calls \cup {ListCall} ELSE calls
    /\ UNCHANGED <<busyObjects, busyDrives, udisksVars, events>>

(* The answer to any other call: the object, or the drives, are free again  *)
(* and the list is read again, whatever came of it.                         *)
Replied ==
    /\ inbox # <<>> /\ Next1.kind \in {"Mount", "Unmount", "PowerOff"}
    /\ inbox' = Tail(inbox)
    /\ IF Next1.kind = "PowerOff"
       THEN busyDrives' = busyDrives \ Next1.drives /\ UNCHANGED busyObjects
       ELSE busyObjects' = busyObjects \ {Next1.object} /\ UNCHANGED busyDrives
    /\ refresh
    /\ UNCHANGED <<objects, udisksVars, events>>

-----------------------------------------------------------------------------
(* UDisks and the rest of the system.                                       *)
On(v, drives) == belongsToAffectedDrive(kernel, v, drives)

WithMounted(v) == [kernel EXCEPT !.mounted = @ \cup {v}]
WithoutMounted(v) == [kernel EXCEPT !.mounted = @ \ {v}]
WithoutDrives(drives) ==
    LET gone == drives \cup {b \in Blocks : On(b, drives)}
    IN [present |-> kernel.present \ gone, mounted |-> kernel.mounted \ gone]

Outcome(c) ==
    CASE c.kind = "Mount" /\ c.object \in kernel.present \ kernel.mounted -> WithMounted(c.object)
      [] c.kind = "Unmount" /\ c.object \in kernel.mounted -> WithoutMounted(c.object)
      [] c.kind = "PowerOff" /\ \A w \in kernel.mounted : ~On(w, c.drives) -> WithoutDrives(c.drives)
      [] OTHER -> kernel

(* UDisks does what a call asks, which changes the kernel's state; or       *)
(* cannot.                                                                  *)
Perform(c) ==
    /\ serviceUp /\ c.kind # "List" /\ c.result = "none"
    /\ \/ /\ Outcome(c) # kernel
          /\ kernel' = Outcome(c)
          /\ calls' = (calls \ {c}) \cup {[c EXCEPT !.result = "ok"]}
       \/ /\ calls' = (calls \ {c}) \cup {[c EXCEPT !.result = "error"]}
          /\ UNCHANGED kernel
    /\ UNCHANGED <<modelVars, inbox, exported, serviceUp, events, disturbances>>

(* It exports the new state and says so, before or after it answers.        *)
Export ==
    /\ serviceUp /\ exported # kernel
    /\ exported' = kernel
    /\ inbox' = Append(inbox, [kind |-> "changed"])
    /\ UNCHANGED <<modelVars, calls, kernel, serviceUp, events, disturbances>>

Answer(c) ==
    /\ serviceUp
    /\ calls' = calls \ {c}
    /\ \/ /\ c.kind = "List"
          /\ inbox' = Append(inbox, [kind |-> "List", result |-> "ok", objects |-> exported])
       \/ /\ c.kind # "List" /\ c.result # "none"
          /\ inbox' = Append(inbox, c)
    /\ UNCHANGED <<modelVars, udisksVars, events>>

(* UDisks ends: the bus says so, and answers its calls with errors.         *)
ServiceStops ==
    LET failed == [i \in 1..Cardinality(calls) |-> [SetToSeq(calls)[i] EXCEPT !.result = "error"]]
        ended == <<[kind |-> "unregistered"]>>
    IN /\ serviceUp
       /\ Disturbance
       /\ serviceUp' = FALSE
       /\ calls' = {}
       /\ inbox' \in {inbox \o ended \o failed, inbox \o failed \o ended}
       /\ UNCHANGED <<modelVars, kernel, exported>>

(* Calls made meanwhile wait for it (the bus starts it).                    *)
ServiceStarts ==
    /\ ~serviceUp
    /\ serviceUp' = TRUE
    /\ exported' = kernel
    /\ inbox' = Append(inbox, [kind |-> "registered"])
    /\ UNCHANGED <<modelVars, calls, kernel, events, disturbances>>

(* Another program mounts or unmounts; someone pulls a drive.               *)
Elsewhere ==
    /\ Disturbance
    /\ \/ \E v \in (kernel.present \cap Volumes) \ kernel.mounted : kernel' = WithMounted(v)
       \/ \E v \in kernel.mounted : kernel' = WithoutMounted(v)
       \/ \E d \in kernel.present \cap Drives : kernel' = WithoutDrives({d})
    /\ UNCHANGED <<modelVars, calls, inbox, exported, serviceUp>>

Udisks ==
    \/ \E c \in calls : Perform(c) \/ Answer(c)
    \/ Export
    \/ ServiceStops
    \/ ServiceStarts

-----------------------------------------------------------------------------
(* The calls of the program that are not settled: made and not answered, or *)
(* answered and not read.                                                   *)
OwnCalls == {c \in calls \cup ToSet(inbox) : c.kind \in {"Mount", "Unmount", "PowerOff"}}

NoteMarks ==
    unmarked' = (OwnCalls' # {} /\ (unmarked \/ onServiceUnregistered))

(* A drive is powered off alone: while that call is under way, no mount or  *)
(* unmount this program asked for is under way on it or on a drive that     *)
(* goes with it (the busy sets of mount, unmount and powerOff), through any *)
(* number of ends of UDisks, which clear these sets, as long as none of     *)
(* them is read with a call still unsettled (unmarked); and when it is made *)
(* no volume that lies on them, through whatever it was unlocked from, is   *)
(* listed as mounted (powerOffPlan).  An unlocked volume, which shows no    *)
(* drive, can still be mounted meanwhile.                                   *)
PowerOffIsAlone ==
    [][\A p \in calls' : p.kind = "PowerOff" =>
         /\ unmarked' \/ \A m \in calls' :
              m.kind \in {"Mount", "Unmount"} => Drive[m.object] \notin p.drives
         /\ p \notin calls /\ p.result = "none" =>
              \A w \in objects.mounted : ~On(w, p.drives)]_driveVars

(* What powerOff tells the user: it waits for the storage operation that is *)
(* under way.  The code does not keep to it when the end of UDisks is read  *)
(* after a call that started it again (onServiceUnregistered).              *)
PowerOffWaits ==
    [][\A p \in calls' \ calls : p.kind = "PowerOff" /\ p.result = "none"
         => \A m \in calls' : m.kind \notin {"Mount", "Unmount"}]_driveVars
=============================================================================
