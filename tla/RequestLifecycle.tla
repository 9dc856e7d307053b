-------------------------- MODULE RequestLifecycle --------------------------
(***************************************************************************)
(* What the server promises about a request: it is issued once, it may be  *)
(* given up as unanswered, and it is judged at most once.  A judgement is  *)
(* final; a request already given up may still be judged, because its      *)
(* response can have arrived before the sanitizer ran.                     *)
(***************************************************************************)
CONSTANT Request

VARIABLE status

Judgement == {"SUCCESS", "FAILED", "EXPIRED_SUCCESS", "EXPIRED_FAILED"}

Init == status = [r \in Request |-> "absent"]

(* The request is sent and recorded. *)
Issue(r) ==
    /\ status[r] = "absent"
    /\ status' = [status EXCEPT ![r] = "PENDING"]

(* Some unanswered requests are given up. *)
Expire(S) ==
    /\ \A r \in S : status[r] = "PENDING"
    /\ status' = [r \in Request |-> IF r \in S THEN "EXPIRED_NONE" ELSE status[r]]

(* The response to a request is judged. *)
Judge(r, verdict) ==
    /\ status[r] \in {"PENDING", "EXPIRED_NONE"}
    /\ status' = [status EXCEPT ![r] = verdict]

Next ==
    \/ \E r \in Request : Issue(r)
    \/ \E S \in SUBSET Request : Expire(S)
    \/ \E r \in Request, verdict \in Judgement : Judge(r, verdict)

Spec == Init /\ [][Next]_status
=============================================================================
