------------------------------ MODULE EventPath ------------------------------
(***************************************************************************)
(* The whole way of an event: EventPipe and EventRecorder as the two       *)
(* halves of it, in the processes in which they really run.  A goroutine   *)
(* of the monitor passes each event that it receives to notify, and so to  *)
(* the channels from which the main loop of keymaster-eventmond takes it;  *)
(* and when that process is killed, the monitor and the recorder are both  *)
(* gone, and both are started again.                                       *)
(***************************************************************************)
EXTENDS EventPipe, EventRecorder

VARIABLE
    origin    \* history: for each event that arrived, the goroutine that
              \* passed it on and the number with which it was published

pathVars == <<pipeVars, vars, origin>>

PathInit == PipeInit /\ Init /\ origin = <<>>

(* The loop of monitor: receiveV0 and notify.  The type and the user are    *)
(* those of the event; one that cannot be parsed goes no further.           *)
monitor(g) ==
    /\ receiveV0(g)
    /\ \/ /\ \E t \in Types, u \in Users : notify(t, u)
          /\ origin' = Append(origin, <<g, Head(wire[conn[g]])>>)
       \/ UNCHANGED <<vars, origin>>

(* keymaster-eventmond is killed and started again. *)
Restart == newMonitor /\ newEventRecorder /\ UNCHANGED origin

PathNext ==
    \/ \E g \in Goroutines : monitor(g)
    \/ PipeSteps /\ UNCHANGED <<notified, vars, origin>>
    \/ RecorderSteps /\ UNCHANGED <<pipeVars, origin>>
    \/ Restart

PathSpec == PathInit /\ [][PathNext]_pathVars

-----------------------------------------------------------------------------
(* Event number i came before number j by the order of publication. *)
PublishedBefore(i, j) == origin[i][2] < origin[j][2]

(* The two came through one goroutine, or the second came through a later   *)
(* one that was started when all before it had stopped.                     *)
OneAtATime(i, j) ==
    LET g == origin[i][1]
        h == origin[j][1]
    IN g = h \/ (g < h /\ alone[h])

(***************************************************************************)
(* From end to end: what this process has recorded of one type is listed   *)
(* by the order in which the daemon published it, newest first and nothing *)
(* twice, whatever was lost on the way, however connections broke and the  *)
(* daemon was stopped and started, and across goroutines of the monitor    *)
(* that followed each other.  Where two overlap, both may deliver an event.*)
(***************************************************************************)
ListedAsPublished ==
    \A u \in Users : \A i, j \in DOMAIN eventsList[u] :
        LET e == eventsList[u][i]
            f == eventsList[u][j]
        IN i < j /\ f.run = restarts /\ e.type = f.type /\ OneAtATime(f.id, e.id) =>
              PublishedBefore(f.id, e.id)
=============================================================================
