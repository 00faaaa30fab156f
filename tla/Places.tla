------------------------------- MODULE Places -------------------------------
(***************************************************************************)
(* The places that can go away under the tabs of a window: the volumes of  *)
(* Volumes and the shares of NetworkMounts, over one set of tabs.  They    *)
(* share nothing but the tabs, so a behaviour has one of them move; moving *)
(* says which.                                                             *)
(***************************************************************************)
EXTENDS Volumes, NetworkMounts

ASSUME DistinctPlaces == Roots \cap (Volumes \cup {Above}) = {}

VARIABLE moving

storageVars == <<driveVars, unheard>>
placesVars == <<moving, storageVars, netVars, tabVars>>

PlacesInit == VolumesInit /\ NetworkInit /\ moving \in {"drives", "network"}

PlacesNext ==
    \/ /\ moving = "drives"
       /\ VolumesNext
       /\ UNCHANGED <<moving, netVars>>
    \/ /\ moving = "network"
       /\ NetworkNext
       /\ UNCHANGED <<moving, storageVars>>

PlacesSpec == PlacesInit /\ [][PlacesNext]_placesVars

-----------------------------------------------------------------------------
(* Whoever unmounted it, no pane, no hidden tab and no closed tab is left in *)
(* a volume or a share that is gone, once all that was told is dealt with.   *)
NobodyStaysInWhatIsGone ==
    VolumesTypeOK /\ NobodyStaysInAnUnmountedVolume /\ NobodyStaysInALostMount
=============================================================================
