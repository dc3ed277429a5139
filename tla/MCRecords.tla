------------------------------ MODULE MCRecords ------------------------------
(***************************************************************************)
(* Three components of apps/api that keep rows by statements outside of a  *)
(* transaction: the folders of the drive, the verification codes and a     *)
(* scheduled task.  They share no state, so a behaviour is one of one      *)
(* component: part says of which.  One run checks them all.                *)
(***************************************************************************)
EXTENDS DriveTree, OtpCode, TaskScheduler, TLC

CONSTANTS p1, p2, q1, q2

VARIABLE part

MCTaskIncidents == TaskIncident

\* Requests of a kind are interchangeable in every property.
Requests == Permutations({p1, p2}) \cup Permutations({q1, q2})

RecordsInit ==
    /\ part \in {"tree", "codes", "task"}
    /\ TreeInit /\ OtpInit /\ TaskInit
    /\ part # "task" => type = "CRON"

InTree == part = "tree" /\ TreeNext /\ UNCHANGED <<part, otpVars, taskVars>>
InCodes == part = "codes" /\ OtpNext /\ UNCHANGED <<part, treeVars, taskVars>>
InTask == part = "task" /\ TaskNext /\ UNCHANGED <<part, treeVars, otpVars>>

RecordsSpec ==
    RecordsInit /\ [][InTree \/ InCodes \/ InTask]_<<part, treeVars, otpVars, taskVars>>

\* The state of each keeps its shape.
RecordsTypeOK ==
    CASE part = "tree" -> TreeTypeOK [] part = "codes" -> OtpTypeOK [] OTHER -> TaskTypeOK
=============================================================================
