---------------------------- MODULE MCTrailChecks ----------------------------
(***************************************************************************)
(* Two regions and two trails, one at home in each: a region can have a    *)
(* trail of its own, be recorded from the other one, or not at all, and    *)
(* two changes can happen at any moments of the scan.                      *)
(***************************************************************************)
EXTENDS TrailChecks

CONSTANTS main, side, east, west

MCTrail == {main, side}
MCRegion == {east, west}
MCHome == [t \in MCTrail |-> IF t = main THEN east ELSE west]
MCDenials == SUBSET MCRegion
MCNoDenials == {{}}
MCNoTrailRule == {"no-trail-configured"}
=============================================================================
