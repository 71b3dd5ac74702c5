------------------------------ MODULE JobLedger ------------------------------
(***************************************************************************)
(* What the JCR importer promises about the rows of its jobs, whatever     *)
(* threads, failures and crashes there are: the jobs of an event appear    *)
(* together; a job is given one plan, for ever; the jobs of a plan get     *)
(* their results together and once; no job gets a result without a plan,   *)
(* except those of a synchronization, which appear with their results.     *)
(***************************************************************************)
EXTENDS Naturals

CONSTANTS
  Events, Syncs,  \* entity events; single-entity synchronizations
  Jobs,
  JobsOf,         \* the jobs of an event or a synchronization
  Plans           \* numbers of import plans

VARIABLES
  status,  \* what the row of a job says
  batch    \* the import plan of a job, 0 if it has none

Results == {"finished", "canceled"}

Init == status = [j \in Jobs |-> "none"] /\ batch = [j \in Jobs |-> 0]

WithStatus(S, r) == status' = [j \in Jobs |-> IF j \in S THEN r[j] ELSE status[j]]

\* The builder's transaction; a synchronization whose jobs could not be executed
\* leaves them to the next import.
Schedule(b) ==
  /\ \A j \in JobsOf[b] : status[j] = "none"
  /\ WithStatus(JobsOf[b], [j \in Jobs |-> "scheduled"])
  /\ UNCHANGED batch

Synchronize(s) ==
  /\ \A j \in JobsOf[s] : status[j] = "none"
  /\ \E r \in [JobsOf[s] -> Results] : WithStatus(JobsOf[s], r)
  /\ UNCHANGED batch

\* Some scheduled jobs get a plan nobody has.
Assign(p) ==
  /\ \A j \in Jobs : batch[j] # p
  /\ \E S \in SUBSET {j \in Jobs : status[j] = "scheduled"} :
       /\ WithStatus(S, [j \in Jobs |-> "planned"])
       /\ batch' = [j \in Jobs |-> IF j \in S THEN p ELSE batch[j]]

\* All jobs of a plan get their results.
Report(p) ==
  LET S == {j \in Jobs : batch[j] = p} IN
  /\ \A j \in S : status[j] = "planned"
  /\ \E r \in [S -> Results] : WithStatus(S, r)
  /\ UNCHANGED batch

Next ==
  \/ \E b \in Events \cup Syncs : Schedule(b)
  \/ \E s \in Syncs : Synchronize(s)
  \/ \E p \in Plans : Assign(p) \/ Report(p)

Spec == Init /\ [][Next]_<<status, batch>>

=============================================================================
