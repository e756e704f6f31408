------------------------------ MODULE MCEvents ------------------------------
(***************************************************************************)
(* The way of an event for TLC.  Its two halves are checked beside each    *)
(* other, since the recorder takes any events: part says which one a       *)
(* behaviour is about, and the other stays as it was at first, when none   *)
(* of its fair actions can be taken.  The pipe is checked twice: several   *)
(* events for one goroutine of the monitor, and fewer for two that         *)
(* overlap.  In part "path" both halves run as EventPath joins them.       *)
(***************************************************************************)
EXTENDS EventPath

CONSTANT MaxOverlapping   \* bound: events published in part "overlap"

VARIABLE part

allVars == <<part, pathVars>>

MCCertLifetimes == {<<7200, 60>>, <<3600, 60>>}

MCInit == PathInit /\ part \in {"recorder", "order", "overlap", "path"}

(* Both halves on a smaller instance: events of one type over one           *)
(* connection, goroutines that follow each other, and no timer that fires.  *)
SmallPath ==
    /\ \/ \E g \in Goroutines : monitor(g)
       \/ PipeSteps /\ UNCHANGED <<notified, vars, origin>>
       \/ /\ RelayEvent \/ \E t \in Types : TakeEvent(t) \/ recordEvent(t)
          /\ UNCHANGED <<pipeVars, origin>>
       \/ Restart
    /\ server' # "sealed" /\ restarts' <= 1
    /\ \A g \in Goroutines : alone'[g] /\ conn'[g] <= 1
    /\ monitorChannel'["cert"] = <<>>

(* In part "recorder" the events are those of an ideal feed. *)
MCNext ==
    \/ /\ part = "recorder" /\ Next
       /\ origin' = [i \in 1 .. arrived' |-> <<1, i>>]
       /\ UNCHANGED <<part, pipeVars>>
    \/ /\ part \in {"order", "overlap"}
       /\ PipeNext
       /\ part = "order" => started' <= 1
       /\ part = "overlap" => published' <= MaxOverlapping /\ server' # "sealed"
       /\ UNCHANGED <<part, vars, origin>>
    \/ part = "path" /\ SmallPath /\ UNCHANGED part

MCSpec == MCInit /\ [][MCNext]_allVars /\ Fairness /\ PipeFairness

(* The variables of both components have their types, and no channel holds  *)
(* more than it can.                                                        *)
MCTypeOK == TypeOK /\ PipeTypeOK
=============================================================================
