------------------------------ MODULE MCPortal ------------------------------
(***************************************************************************)
(* What Ryofiles is to the desktop portal, for TLC: the FileChooser        *)
(* service of MCFileChooser, or the command that routes calls to it.  They *)
(* share no state, so a behaviour is about one of them.                    *)
(***************************************************************************)
EXTENDS MCFileChooser, PortalRouting

VARIABLE about

PortalInit ==
    /\ about \in {"calls", "routing"}
    /\ Init /\ RoutingInit
    /\ about = "calls" => config = <<>> /\ stored = NoState
    /\ about = "routing" => fs = CHOOSE layout \in Layouts : TRUE

PortalNext ==
    \/ about = "calls" /\ Next /\ UNCHANGED <<about, routingVars>>
    \/ about = "routing" /\ RoutingNext /\ UNCHANGED <<about, vars>>

PortalSpec == PortalInit /\ [][PortalNext]_<<about, vars, routingVars>>
=============================================================================
