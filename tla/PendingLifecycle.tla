-------------------------- MODULE PendingLifecycle --------------------------
(***************************************************************************)
(* What keymasterd promises about the one-time values of authentications   *)
(* that wait for an answer: U2F challenges, states of federated logins and *)
(* push transactions.  A value is "new", then "open" while an answer to it *)
(* is taken, and then "closed" for good.  Only open values are claimed by  *)
(* answers, and every open value is closed in the end.                     *)
(***************************************************************************)
CONSTANT Values

VARIABLES
    status,   \* value -> "new", "open" or "closed"
    claimed   \* values that an answer has referred to

vars == <<status, claimed>>

Open == {v \in Values : status[v] = "open"}

Closing(C) == [v \in Values |-> IF v \in C THEN "closed" ELSE status[v]]

Init ==
    /\ status = [v \in Values |-> "new"]
    /\ claimed = {}

(* A value is handed out; it may take the place of others. *)
Issue ==
    /\ \E v \in Values, C \in SUBSET Open :
          /\ status[v] = "new"
          /\ status' = [Closing(C) EXCEPT ![v] = "open"]
    /\ UNCHANGED claimed

Claim ==
    /\ \E v \in Open : claimed' = claimed \cup {v}
    /\ UNCHANGED status

(* Values are used up, expire, or are lost with the daemon's memory. *)
Close ==
    /\ \E C \in SUBSET Open : status' = Closing(C)
    /\ UNCHANGED claimed

Next == Issue \/ Claim \/ Close

EventuallyClosed == \A v \in Values : status[v] = "open" ~> status[v] = "closed"

Spec == Init /\ [][Next]_vars /\ EventuallyClosed
=============================================================================
