------------------------- MODULE ApprovalLifecycle -------------------------
(***************************************************************************)
(* What ApprovalManager promises to whoever asks for approvals: a request  *)
(* is resolved once, by a decision or by its deadline, and at most one     *)
(* notice is given, after the resolution and with the same word.  Threads, *)
(* locks, clocks and sweeps are hidden.                                    *)
(***************************************************************************)
CONSTANTS ApprovalIds

VARIABLES
    status,      \* "NONE" until the request is stored
    announced    \* the resolutions announced for each request, in order

approval == <<status, announced>>

Resolutions == {"APPROVED", "REJECTED", "TIMEOUT"}

Init ==
    /\ status = [i \in ApprovalIds |-> "NONE"]
    /\ announced = [i \in ApprovalIds |-> <<>>]

Ask(i) ==
    /\ status[i] = "NONE"
    /\ status' = [status EXCEPT ![i] = "PENDING"]
    /\ UNCHANGED announced

Decide(i) ==
    /\ status[i] = "PENDING"
    /\ \E r \in {"APPROVED", "REJECTED"} : status' = [status EXCEPT ![i] = r]
    /\ UNCHANGED announced

(* Several requests may run out together. *)
Expire(S) ==
    /\ \A i \in S : status[i] = "PENDING"
    /\ status' = [i \in ApprovalIds |-> IF i \in S THEN "TIMEOUT" ELSE status[i]]
    /\ UNCHANGED announced

Announce(i) ==
    /\ status[i] \in Resolutions
    /\ announced[i] = <<>>
    /\ announced' = [announced EXCEPT ![i] = <<status[i]>>]
    /\ UNCHANGED status

Next == \/ \E i \in ApprovalIds : Ask(i) \/ Decide(i) \/ Announce(i)
        \/ \E S \in SUBSET ApprovalIds : Expire(S)

Spec == Init /\ [][Next]_approval
=============================================================================
