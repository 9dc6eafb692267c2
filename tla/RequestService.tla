--------------------------- MODULE RequestService ---------------------------
(***************************************************************************)
(* What MTP::Instance promises to those who send requests: a request that  *)
(* was sent ends once (done, failed, cancelled by its owner, or dropped,   *)
(* which its owner is not told).                                           *)
(***************************************************************************)
CONSTANTS Requests

VARIABLE phase

Phases == {"new", "open", "done", "failed", "dropped", "cancelled"}

Init == phase = [r \in Requests |-> "new"]

Send(r) == phase[r] = "new" /\ phase' = [phase EXCEPT ![r] = "open"]

End(r) ==
    /\ phase[r] = "open"
    /\ \E how \in {"done", "failed", "dropped", "cancelled"} : phase' = [phase EXCEPT ![r] = how]

Next == \E r \in Requests : Send(r) \/ End(r)

Spec == Init /\ [][Next]_phase
=============================================================================
