------------------------------ MODULE Volumes ------------------------------
(***************************************************************************)
(* The volumes of DriveModel and the tabs of TabManager, joined as main.cpp *)
(* and the rail join them: a volume that was mounted is gone into, and the  *)
(* sessions inside one that was unmounted are led out of it, through        *)
(* MountRecoveryRegistry.                                                   *)
(*                                                                          *)
(* A volume is also the place of its files; Above is the nearest directory  *)
(* above the mount points.                                                  *)
(***************************************************************************)
EXTENDS DriveModel, TabManager

CONSTANT Above

ASSUME PlacesAssumption ==
    Above # NoPlace /\ {Home, NoPlace, Above} \cap Volumes = {}

VARIABLE unheard    \* volumes that were unmounted without a useful answer

volumesVars == <<driveVars, tabVars, unheard>>

VolumesInit == DriveInit /\ TabInit /\ unheard = {}

(* The rail opens a mounted volume, and Above by another way; a directory   *)
(* that does not exist is refused.                                          *)
Navigate(p) ==
    /\ p # CurrentPlace
    /\ p \in {Above} \/ (p \in Rows \cap kernel.mounted /\ RowMounted(p) /\ ~Busy(p))
    /\ Event
    /\ tabs' = Navigated(p)
    /\ UNCHANGED <<modelVars, calls, inbox, udisksVars, currentIndex, closedTabs, unheard>>

(* Tabs are arranged.                                                       *)
ArrangeTabs ==
    /\ Event
    /\ Arrange
    /\ UNCHANGED <<modelVars, calls, inbox, udisksVars, unheard>>

(* main.cpp's handler of DriveModel::unmounted: the mount point is what the *)
(* list says, at this time, of the object.                                  *)
Unmounted(v) ==
    IF v \in Rows /\ RowMounted(v)
    THEN /\ recoverUnmounted({v}, Above)
         /\ UNCHANGED unheard
    ELSE /\ unheard' = (unheard \cup {v}) \ kernel.mounted
         /\ UNCHANGED tabVars

(* RyokuRail's onMounted: the current session goes to the mount point.      *)
Mounted(v) ==
    /\ tabs' = IF v \in kernel.mounted THEN Navigated(v) ELSE tabs
    /\ UNCHANGED <<currentIndex, closedTabs, unheard>>

RepliedAndTold ==
    /\ Replied
    /\ CASE Next1.result = "ok" /\ Next1.kind = "Mount" -> Mounted(Next1.object)
         [] Next1.result = "ok" /\ Next1.kind = "Unmount" -> Unmounted(Next1.object)
         [] OTHER -> /\ unheard' = unheard \cup (({Next1.object} \cap Volumes) \ kernel.mounted)
                     /\ UNCHANGED tabVars

Untold(step) ==
    /\ step
    /\ UNCHANGED tabVars
    /\ unheard' = unheard \ kernel'.mounted

(* Nobody tells the sessions of a volume that another program unmounts.     *)
UnmountedElsewhere ==
    /\ Elsewhere
    /\ UNCHANGED tabVars
    /\ unheard' = (unheard \cup kernel.mounted) \ kernel'.mounted

VolumesSteps ==
    \/ \E v \in Volumes : /\ mount(v) \/ unmount(v) \/ powerOff(v)
                          /\ UNCHANGED <<tabVars, unheard>>
    \/ \E p \in Volumes \cup {Above} : Navigate(p)
    \/ ArrangeTabs
    \/ RepliedAndTold
    \/ Untold(Changed \/ onServiceRegistered \/ onServiceUnregistered \/ Listed)
    \/ Untold(Udisks)
    \/ UnmountedElsewhere

VolumesNext == VolumesSteps /\ NoteMarks

VolumesSpec == VolumesInit /\ [][VolumesNext]_volumesVars

-----------------------------------------------------------------------------
VolumesTypeOK ==
    /\ TabsAreSound
    /\ objects.mounted \subseteq objects.present
    /\ busyObjects \subseteq Volumes /\ busyDrives \subseteq Drives
    /\ refreshPending => loading

(* When nothing is under way the rail shows what UDisks has, whatever came  *)
(* between a listing and its answer, and nothing of a service that ended;   *)
(* and a volume this program unmounted has been left by every pane, of the  *)
(* tabs that are not shown too, and by every closed tab (main's handler,    *)
(* the registry and recoverUnmountedMount), unless a listing took the mount *)
(* point away before the answer came (unheard).                             *)
NobodyStaysInAnUnmountedVolume ==
    (serviceUp /\ inbox = <<>> /\ calls = {} /\ exported = kernel) =>
        /\ objects = kernel
        /\ (PlacesShown \cup PlacesKept) \cap Volumes \subseteq kernel.mounted \cup unheard
=============================================================================
