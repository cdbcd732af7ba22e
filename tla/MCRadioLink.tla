---------------------------- MODULE MCRadioLink ----------------------------
(***************************************************************************)
(* Bounds for RadioLink: both roles, a configuration of one command, two   *)
(* attempts at the bring-up.  The module sends data and one of the events; *)
(* the driver answers all events alike, and may take garbage for any.      *)
(***************************************************************************)
EXTENDS RadioLink

MCRoles == {"AP", "STA"}
MCSends == {"data", "connected"}
=============================================================================
