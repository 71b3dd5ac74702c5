----------------------------- MODULE MCJobImport -----------------------------
(* Model values for JobImport: two entity events, the first with a job and   *)
(* its sub-job, two triggering threads and one single-entity synchronization. *)
EXTENDS JobImport

CONSTANTS e1, e2, s1, j1, j2, j3, j4

MCJobsOf == [b \in {e1, e2, s1} \cap Builders |->
               CASE b = e1 -> {j1, j2} [] b = e2 -> {j3} [] OTHER -> {j4}]
MCParentJob == [j \in Jobs |-> IF j = j2 THEN j1 ELSE NoJob]

=============================================================================
