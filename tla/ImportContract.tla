--------------------------- MODULE ImportContract ---------------------------
(***************************************************************************)
(* What the import pipeline promises about a submission, whatever the      *)
(* queues and the processes do: it is recorded, an image is recognised     *)
(* before anything is proposed from it, a candidate is proposed once, and  *)
(* once more only for a redelivered result, and the submission is          *)
(* announced as ready only when something has been proposed.               *)
(***************************************************************************)
EXTENDS Naturals

CONSTANTS Jobs, Texts

VARIABLES
    recorded,    \* jobs with a row
    recognised,  \* image jobs whose OCRResult is persisted
    redelivered, \* times the classification result of a job was redelivered
    proposals,   \* candidates created for a job
    announced    \* jobs that have been announced READY_FOR_VALIDATION

vars == <<recorded, recognised, redelivered, proposals, announced>>

Init ==
    /\ recorded = {} /\ recognised = {} /\ announced = {}
    /\ redelivered = [j \in Jobs |-> 0]
    /\ proposals = [j \in Jobs |-> 0]

Record(j) ==
    /\ j \notin recorded
    /\ recorded' = recorded \cup {j}
    /\ UNCHANGED <<recognised, redelivered, proposals, announced>>

Recognise(j) ==
    /\ j \in recorded \ Texts
    /\ recognised' = recognised \cup {j}
    /\ UNCHANGED <<recorded, redelivered, proposals, announced>>

Redeliver(j) ==
    /\ j \in recorded
    /\ redelivered' = [redelivered EXCEPT ![j] = @ + 1]
    /\ UNCHANGED <<recorded, recognised, proposals, announced>>

Propose(j) ==
    /\ j \in recorded /\ (j \in Texts \/ j \in recognised)
    /\ proposals[j] <= redelivered[j]
    /\ proposals' = [proposals EXCEPT ![j] = @ + 1]
    /\ UNCHANGED <<recorded, recognised, redelivered, announced>>

Announce(j) ==
    /\ proposals[j] > 0
    /\ announced' = announced \cup {j}
    /\ UNCHANGED <<recorded, recognised, redelivered, proposals>>

Next ==
    \E j \in Jobs : Record(j) \/ Recognise(j) \/ Redeliver(j) \/ Propose(j) \/ Announce(j)

Spec == Init /\ [][Next]_vars
=============================================================================
