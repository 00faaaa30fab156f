---------------------------- MODULE MCBackground ----------------------------
(***************************************************************************)
(* What the main window has besides its files, for TLC: Places, or one     *)
(* of the thumbnails' queue, a deep search, the Git status and the Git     *)
(* actions.  They share nothing, so a behaviour is about one of them.      *)
(***************************************************************************)
EXTENDS Places, GitActionController, GitStatusController, ThumbnailProvider,
        DeepSearchModel, TLC

CONSTANTS v, e, k, d1, d2

VARIABLE about

allVars == <<about, placesVars, thumbVars, searchVars, statusVars, actionVars>>

(* v is on the drive d1; e was unlocked from k, on d2, which is in the same *)
(* case as d1.                                                              *)
MCDrive == (v :> d1) @@ (k :> d2) @@ (e :> Nothing)
MCBacking == (v :> Nothing) @@ (k :> Nothing) @@ (e :> k)
MCSiblingId == (d1 :> "case") @@ (d2 :> "case")

(* The folder "sub" is below "root"; "ab" has both texts in its name.       *)
MCChildren == [root |-> {"a", "sub"}, sub |-> {"ab", "b"}]
MCMatching == [a |-> {"a", "ab"}, b |-> {"ab", "b", "sub"}]

(* Two folders of a repository, and one of none.                            *)
MCRepositoryOf == [top |-> "repository", below |-> "repository", plain |-> "none"]

BackgroundInit ==
    /\ about \in {"volumes", "thumbnails", "search", "status", "actions"}
    /\ PlacesInit /\ ThumbInit /\ SearchInit /\ StatusInit /\ ActionInit
    /\ about # "volumes" => moving = "drives"
    /\ about # "actions" => commits /\ index = [f |-> "clean", g |-> "clean"]

BackgroundNext ==
    \/ /\ about = "volumes" /\ PlacesNext
       /\ UNCHANGED <<about, thumbVars, searchVars, statusVars, actionVars>>
    \/ /\ about = "thumbnails" /\ ThumbNext
       /\ UNCHANGED <<about, placesVars, searchVars, statusVars, actionVars>>
    \/ /\ about = "search" /\ SearchNext
       /\ UNCHANGED <<about, placesVars, thumbVars, statusVars, actionVars>>
    \/ /\ about = "status" /\ StatusNext
       /\ UNCHANGED <<about, placesVars, thumbVars, searchVars, actionVars>>
    \/ /\ about = "actions" /\ ActionNext
       /\ UNCHANGED <<about, placesVars, thumbVars, searchVars, statusVars>>

BackgroundSpec == BackgroundInit /\ [][BackgroundNext]_allVars
=============================================================================
