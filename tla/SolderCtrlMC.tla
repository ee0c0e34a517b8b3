---------------------------- MODULE SolderCtrlMC ----------------------------
(***************************************************************************)
(* Instances of SolderCtrl for TLC: one or two controllers.                *)
(***************************************************************************)
EXTENDS SolderCtrl

CONSTANTS e1, e2

OneBuild == <<e1>>
TwoBuilds == <<e1, e2>>
=============================================================================
