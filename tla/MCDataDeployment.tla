-------------------------- MODULE MCDataDeployment --------------------------
(* Model values for DataDeployment: the initial fixture and a second fixture *)
(* file, and at most one uploading user.                                     *)
EXTENDS DataDeployment

CONSTANTS engine, container, u1, initial, demo

=============================================================================
