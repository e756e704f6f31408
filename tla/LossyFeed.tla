------------------------------ MODULE LossyFeed ------------------------------
(***************************************************************************)
(* What a feed of events promises its readers: events are numbered in the  *)
(* order in which they are published, and each reader gets some of them,   *)
(* each at most once and in that order.  Any of them may be lost.          *)
(***************************************************************************)
EXTENDS Naturals, Sequences

CONSTANT Readers

VARIABLES sent, got

Publish == sent' = sent + 1 /\ UNCHANGED got

Deliver(r) ==
    /\ \E e \in 1 .. sent :
          /\ \A i \in DOMAIN got[r] : got[r][i] < e
          /\ got' = [got EXCEPT ![r] = Append(@, e)]
    /\ UNCHANGED sent

Init == sent = 0 /\ got = [r \in Readers |-> <<>>]

Spec == Init /\ [][Publish \/ \E r \in Readers : Deliver(r)]_<<sent, got>>
=============================================================================
