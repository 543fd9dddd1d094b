------------------------- MODULE CandidateLifecycle -------------------------
(***************************************************************************)
(* What the review of an EventCandidate promises (FSPEC.02): a candidate   *)
(* is corrected as often as one likes until it is validated, which creates *)
(* its only Event, or rejected; after that it never changes again.  The    *)
(* promise ends for a candidate that a request has written without having  *)
(* read it as it was: then only this is left, that an Event is created     *)
(* exactly when the candidate is written as validated.                     *)
(***************************************************************************)
EXTENDS Naturals

CONSTANT Candidates

VARIABLES
    status,    \* the status of a candidate
    produced,  \* how many Events a candidate has given
    overtaken  \* the candidates written by a request that had read another row

vars == <<status, produced, overtaken>>

Init ==
    /\ status = [c \in Candidates |-> "PENDING"]
    /\ produced = [c \in Candidates |-> 0]
    /\ overtaken = {}

Mutable(c) == status[c] \in {"PENDING", "CORRECTED"}

\* Candidate c is written with status s; only a validation gives an Event.
Write(c, s) ==
    /\ status' = [status EXCEPT ![c] = s]
    /\ produced' = IF s = "VALIDATED" THEN [produced EXCEPT ![c] = @ + 1] ELSE produced

Correct(c) == Mutable(c) /\ Write(c, "CORRECTED") /\ UNCHANGED overtaken

Reject(c) == Mutable(c) /\ Write(c, "REJECTED") /\ UNCHANGED overtaken

Validate(c) ==
    /\ Mutable(c) /\ produced[c] = 0
    /\ Write(c, "VALIDATED")
    /\ UNCHANGED overtaken

Overtake(c) ==
    /\ \E s \in {"CORRECTED", "REJECTED", "VALIDATED"} : Write(c, s)
    /\ overtaken' = overtaken \cup {c}

Next ==
    \E c \in Candidates :
       \/ c \notin overtaken /\ (Correct(c) \/ Reject(c) \/ Validate(c))
       \/ Overtake(c)

Spec == Init /\ [][Next]_vars

=============================================================================
