------------------------------ MODULE EventPipe ------------------------------
(***************************************************************************)
(* How events get from keymasterd to keymaster-eventmond: the notifier in  *)
(* the daemon (keymasterd/eventnotifier/impl.go) and the monitor that      *)
(* keeps a connection to each address of the daemon                        *)
(* (eventmon/monitord/impl.go).  One address is modelled.                  *)
(*                                                                         *)
(* Each time the address is found anew, a goroutine of startMonitoring is  *)
(* started for it; when it is no longer found, that goroutine is sent a    *)
(* message on its closeChannel and, some time later, stops.  Meanwhile the *)
(* next one may already run.  Connections are reused numbers: a connection *)
(* is free when neither side has anything to do with it.                   *)
(***************************************************************************)
EXTENDS Naturals, Sequences, Functions

CONSTANTS
    Goroutines,     \* 1 .. n, in the order in which they are started
    Conns,          \* bound: connections at a time
    pipeLength,     \* room in a transmitChannel
    MaxPublished    \* bound: events

ASSUME PipeAssumption ==
    /\ Goroutines \subseteq Nat \ {0} /\ Conns \subseteq Nat \ {0}
    /\ pipeLength \in Nat /\ MaxPublished \in Nat

VARIABLES
    server,         \* "down", "sealed" or "ready"
    published,      \* number of events published
    handler,        \* connection -> where its serveHTTP is
    queue,          \* connection -> its transmitChannel
    wire,           \* connection -> events on their way
    alive,          \* connection -> can it carry anything?
    listed,         \* the goroutine in m.closers, or 0
    started,        \* goroutines started so far
    alone,          \* goroutine -> had all others stopped when it started?
    closeChannel, closedChannel,   \* goroutine -> is there a message?
    helper,         \* goroutine -> the goroutine started by monitor
    conn,           \* goroutine -> its connection, or 0
    dialed,         \* goroutine -> what dialAndConnect returned
    at,             \* goroutine -> where it is
    status,         \* keymasterStatus of the address
    notified        \* goroutine -> the events it passed to notify

serverVars == <<server, published, handler, queue>>
netVars == <<wire, alive>>
monitorVars == <<listed, started, alone>>
goVars == <<closeChannel, closedChannel, helper, conn, dialed, at>>
pipeVars == <<serverVars, netVars, monitorVars, goVars, status, notified>>

Absent == "absent"
Results == {"ready", "sealed", "error"}

PipeTypeOK ==
    /\ server \in {"down", "sealed", "ready"}
    /\ published \in 0 .. MaxPublished
    /\ handler \in [Conns -> {"none", "accepted", "registered"}]
    /\ \A k \in Conns : /\ Len(queue[k]) <= pipeLength
                        /\ Range(queue[k]) \subseteq 1 .. published
                        /\ Range(wire[k]) \subseteq 0 .. published
    /\ alive \in [Conns -> BOOLEAN]
    /\ listed \in Goroutines \cup {0} /\ started \in Goroutines \cup {0}
    /\ closeChannel \in [Goroutines -> BOOLEAN] /\ closedChannel \in [Goroutines -> BOOLEAN]
    /\ helper \in [Goroutines -> {"none", "waiting", "done"}]
    /\ conn \in [Goroutines -> Conns \cup {0}]
    /\ dialed \in [Goroutines -> Results]
    /\ at \in [Goroutines -> {"unborn", "new", "top", "status", "read", "exit", "end"}]
    /\ status \in Results \cup {Absent, "not yet probed"}

PipeInit ==
    /\ server = "down" /\ published = 0
    /\ handler = [k \in Conns |-> "none"]
    /\ queue = [k \in Conns |-> <<>>] /\ wire = [k \in Conns |-> <<>>]
    /\ alive = [k \in Conns |-> FALSE]
    /\ listed = 0 /\ started = 0
    /\ alone = [g \in Goroutines |-> TRUE]
    /\ closeChannel = [g \in Goroutines |-> FALSE]
    /\ closedChannel = [g \in Goroutines |-> FALSE]
    /\ helper = [g \in Goroutines |-> "none"]
    /\ conn = [g \in Goroutines |-> 0]
    /\ dialed = [g \in Goroutines |-> "error"]
    /\ at = [g \in Goroutines |-> "unborn"]
    /\ status = Absent
    /\ notified = [g \in Goroutines |-> <<>>]

-----------------------------------------------------------------------------
(* The daemon *)

(* The daemon starts sealed, is unsealed, and stops; when it stops all its  *)
(* connections are closed.                                                  *)
SetServer ==
    /\ server' \in {"down", "sealed", "ready"} \ {server}
    /\ server = "ready" => server' = "down"
    /\ IF server' = "down"
       THEN /\ handler' = [k \in Conns |-> "none"]
            /\ queue' = [k \in Conns |-> <<>>]
            /\ alive' = [k \in Conns |-> FALSE]
       ELSE UNCHANGED <<handler, queue, alive>>
    /\ UNCHANGED <<published, wire, monitorVars, goVars, status, notified>>

(* Mutant: a new connection is first sent the last event. *)
RegisterReplay(k) ==
    /\ handler[k] = "accepted"
    /\ handler' = [handler EXCEPT ![k] = "registered"]
    /\ queue' = [queue EXCEPT ![k] = IF published > 0 THEN <<published>> ELSE <<>>]
    /\ UNCHANGED <<server, published, netVars, monitorVars, goVars, status, notified>>

(* handleConnection, its first part: an event published after the answer to *)
(* CONNECT and before this is lost.                                         *)
Register(k) ==
    /\ handler[k] = "accepted"
    /\ handler' = [handler EXCEPT ![k] = "registered"]
    /\ UNCHANGED <<server, published, queue, netVars, monitorVars, goVars, status, notified>>

(* Mutant: a full channel is not noticed. *)
transmitEventUnbounded ==
    /\ server = "ready"
    /\ published < MaxPublished
    /\ published' = published + 1
    /\ queue' = [k \in Conns |->
          IF handler[k] = "registered" THEN Append(queue[k], published') ELSE queue[k]]
    /\ UNCHANGED <<server, handler, netVars, monitorVars, goVars, status, notified>>

(* PublishAuthEvent and its siblings: with n.mutex held, and without        *)
(* waiting for any channel.                                                 *)
transmitEvent ==
    /\ server = "ready"
    /\ published < MaxPublished
    /\ published' = published + 1
    /\ queue' = [k \in Conns |->
          IF handler[k] = "registered" /\ Len(queue[k]) < pipeLength
          THEN Append(queue[k], published') ELSE queue[k]]
    /\ UNCHANGED <<server, handler, netVars, monitorVars, goVars, status, notified>>

(* The deferred calls of handleConnection and serveHTTP: the connection is  *)
(* taken out of transmitChannels and closed.                                *)
Leave(k) ==
    /\ handler' = [handler EXCEPT ![k] = "none"]
    /\ queue' = [queue EXCEPT ![k] = <<>>]
    /\ alive' = [alive EXCEPT ![k] = FALSE]

(* Mutant: the event stays in the channel. *)
transmitV0Resend(k) ==
    /\ handler[k] = "registered"
    /\ queue[k] # <<>>
    /\ \/ /\ wire' = [wire EXCEPT ![k] = IF alive[k] THEN Append(@, Head(queue[k])) ELSE @]
          /\ UNCHANGED <<handler, alive, queue>>
       \/ ~alive[k] /\ Leave(k) /\ UNCHANGED wire
    /\ UNCHANGED <<server, published, monitorVars, goVars, status, notified>>

(* A write to a connection that is not alive may seem to work, and may fail. *)
transmitV0(k) ==
    /\ handler[k] = "registered"
    /\ queue[k] # <<>>
    /\ \/ /\ queue' = [queue EXCEPT ![k] = Tail(@)]
          /\ wire' = [wire EXCEPT ![k] = IF alive[k] THEN Append(@, Head(queue[k])) ELSE @]
          /\ UNCHANGED <<handler, alive>>
       \/ ~alive[k] /\ Leave(k) /\ UNCHANGED wire
    /\ UNCHANGED <<server, published, monitorVars, goVars, status, notified>>

(* Mutant: the handler looks for the end of the connection only when it     *)
(* has something to write.                                                  *)
getCloseNotifierOnWrite(k) ==
    /\ handler[k] = "registered"
    /\ ~alive[k]
    /\ queue[k] # <<>>
    /\ Leave(k)
    /\ UNCHANGED <<server, published, wire, monitorVars, goVars, status, notified>>

(* The goroutine that reads from the connection tells the handler. *)
getCloseNotifier(k) ==
    /\ handler[k] = "registered"
    /\ ~alive[k]
    /\ Leave(k)
    /\ UNCHANGED <<server, published, wire, monitorVars, goVars, status, notified>>

(* The network fails. *)
BreakConn(k) ==
    /\ alive[k]
    /\ alive' = [alive EXCEPT ![k] = FALSE]
    /\ UNCHANGED <<serverVars, wire, monitorVars, goVars, status, notified>>

-----------------------------------------------------------------------------
(* The monitor: the list of addresses *)

Start ==
    /\ started + 1 \in Goroutines
    /\ started' = started + 1
    /\ listed' = started'
    /\ alone' = [alone EXCEPT ![started'] = \A g \in 1 .. started : at[g] = "end"]
    /\ at' = [at EXCEPT ![started'] = "new"]
    /\ UNCHANGED <<closeChannel, status>>

Unlist ==
    /\ listed # 0
    /\ closeChannel' = [closeChannel EXCEPT ![listed] = TRUE]
    /\ listed' = 0
    /\ status' = Absent
    /\ UNCHANGED <<started, alone, at>>

(* The lookup finds the address, or does not find it, or fails. *)
updateNotifierList ==
    /\ (listed = 0 /\ Start) \/ Unlist
    /\ UNCHANGED <<serverVars, netVars, closedChannel, helper, conn, dialed, notified>>

-----------------------------------------------------------------------------
(* The monitor: startMonitoring and monitor for goroutine g *)

Go(g, from, to) == at[g] = from /\ at' = [at EXCEPT ![g] = to]

NotYetProbed(g) ==
    /\ Go(g, "new", "top")
    /\ status' = "not yet probed"
    /\ UNCHANGED <<serverVars, netVars, monitorVars, closeChannel, closedChannel, helper,
                   conn, dialed, notified>>

(* The message is looked for only between two connections. *)
checkForEvent(g) ==
    /\ Go(g, "top", "end")
    /\ closeChannel[g]
    /\ closeChannel' = [closeChannel EXCEPT ![g] = FALSE]
    /\ UNCHANGED <<serverVars, netVars, monitorVars, closedChannel, helper, conn, dialed,
                   status, notified>>

Free(k) == handler[k] = "none" /\ \A g \in Goroutines : conn[g] # k

(* dialAndConnect succeeds: the handler has written its answer. *)
DialOk(g) ==
    /\ Go(g, "top", "status")
    /\ ~closeChannel[g]
    /\ server = "ready"
    /\ \E k \in Conns :
          /\ Free(k) /\ \A l \in Conns : Free(l) => k <= l
          /\ conn' = [conn EXCEPT ![g] = k]
          /\ handler' = [handler EXCEPT ![k] = "accepted"]
          /\ alive' = [alive EXCEPT ![k] = TRUE]
          /\ wire' = [wire EXCEPT ![k] = <<>>]
    /\ dialed' = [dialed EXCEPT ![g] = "ready"]
    /\ UNCHANGED <<server, published, queue, monitorVars, closeChannel, closedChannel, helper,
                   status, notified>>

DialFails(g) ==
    /\ Go(g, "top", "status")
    /\ ~closeChannel[g]
    /\ dialed' = [dialed EXCEPT ![g] = IF server = "sealed" THEN "sealed" ELSE "error"]
    /\ UNCHANGED <<serverVars, netVars, monitorVars, closeChannel, closedChannel, helper, conn,
                   status, notified>>

(* Mutant: only errors are recorded. *)
setKeymasterStatusIfError(g) ==
    /\ Go(g, "status", IF dialed[g] = "ready" THEN "read" ELSE "top")
    /\ status' = IF dialed[g] # "ready" THEN dialed[g] ELSE status
    /\ helper' = [helper EXCEPT ![g] = IF dialed[g] = "ready" THEN "waiting" ELSE @]
    /\ dialed' = [dialed EXCEPT ![g] = "error"]
    /\ UNCHANGED <<serverVars, netVars, monitorVars, closeChannel, closedChannel, conn,
                   notified>>

(* Mutant: a daemon that cannot be reached is given up. *)
setKeymasterStatusOnce(g) ==
    /\ Go(g, "status", IF dialed[g] = "ready" THEN "read" ELSE "end")
    /\ status' = dialed[g]
    /\ helper' = [helper EXCEPT ![g] = IF dialed[g] = "ready" THEN "waiting" ELSE @]
    /\ dialed' = [dialed EXCEPT ![g] = "error"]
    /\ UNCHANGED <<serverVars, netVars, monitorVars, closeChannel, closedChannel, conn,
                   notified>>

(* With a connection, monitor is called and starts its helper. *)
setKeymasterStatus(g) ==
    /\ Go(g, "status", IF dialed[g] = "ready" THEN "read" ELSE "top")
    /\ status' = dialed[g]
    /\ helper' = [helper EXCEPT ![g] = IF dialed[g] = "ready" THEN "waiting" ELSE @]
    /\ dialed' = [dialed EXCEPT ![g] = "error"]
    /\ UNCHANGED <<serverVars, netVars, monitorVars, closeChannel, closedChannel, conn,
                   notified>>

(* After each receive: has the helper said that the address is removed? *)
Forget(g) ==
    /\ Go(g, "read", "end")
    /\ wire[conn[g]] # <<>> \/ ~alive[conn[g]]
    /\ closedChannel[g]
    /\ conn' = [conn EXCEPT ![g] = 0]
    /\ wire' = [wire EXCEPT ![conn[g]] = <<>>]
    /\ UNCHANGED <<serverVars, alive, monitorVars, closeChannel, closedChannel, helper, dialed,
                   status, notified>>

(* What is left to be read after an event: its decoder reads ahead, and     *)
(* what it has read beyond the event is lost with it, be it whole events or *)
(* the first part of one.                                                   *)
Torn == 0
Unread(events) ==
    {SubSeq(events, n, Len(events)) : n \in 1 .. Len(events) + 1}
        \cup {<<Torn>> \o SubSeq(events, n + 1, Len(events)) : n \in 1 .. Len(events)}

receiveV0(g) ==
    /\ Go(g, "read", "read")
    /\ wire[conn[g]] # <<>> /\ Head(wire[conn[g]]) # Torn
    /\ ~closedChannel[g]
    /\ notified' = [notified EXCEPT ![g] = Append(@, Head(wire[conn[g]]))]
    /\ \E rest \in Unread(Tail(wire[conn[g]])) : wire' = [wire EXCEPT ![conn[g]] = rest]
    /\ UNCHANGED <<serverVars, alive, monitorVars, closeChannel, closedChannel, helper, conn,
                   dialed, status>>

(* The connection is gone, or what follows is not the beginning of an event. *)
ReceiveFails(g) ==
    /\ Go(g, "read", "exit")
    /\ ~alive[conn[g]] \/ (wire[conn[g]] # <<>> /\ Head(wire[conn[g]]) = Torn)
    /\ ~closedChannel[g]
    /\ UNCHANGED <<serverVars, netVars, monitorVars, closeChannel, closedChannel, helper, conn,
                   dialed, status, notified>>

(* exitChannel has no room: the send waits for the helper to receive, and   *)
(* for ever if the helper has taken the message on closeChannel instead.    *)
Exit(g) ==
    /\ Go(g, "exit", "top")
    /\ helper[g] = "waiting"
    /\ helper' = [helper EXCEPT ![g] = "none"]
    /\ alive' = [alive EXCEPT ![conn[g]] = FALSE]
    /\ conn' = [conn EXCEPT ![g] = 0]
    /\ wire' = [wire EXCEPT ![conn[g]] = <<>>]
    /\ UNCHANGED <<serverVars, monitorVars, closeChannel, closedChannel, dialed, status, notified>>

(* The helper of monitor: it passes the message on and closes the           *)
(* connection, which wakes the reader.                                      *)
HelperTakes(g) ==
    /\ helper[g] = "waiting"
    /\ closeChannel[g]
    /\ closeChannel' = [closeChannel EXCEPT ![g] = FALSE]
    /\ closedChannel' = [closedChannel EXCEPT ![g] = TRUE]
    /\ helper' = [helper EXCEPT ![g] = "done"]
    /\ alive' = [alive EXCEPT ![conn[g]] = FALSE]
    /\ UNCHANGED <<serverVars, wire, monitorVars, conn, dialed, at, status, notified>>

startMonitoring(g) ==
    \/ NotYetProbed(g) \/ checkForEvent(g) \/ DialOk(g) \/ DialFails(g)
    \/ setKeymasterStatus(g) \/ Forget(g) \/ receiveV0(g) \/ ReceiveFails(g) \/ Exit(g)
    \/ HelperTakes(g)

(* keymaster-eventmond is killed, which ends its goroutines and closes its  *)
(* connections, and started again: the new monitor knows no address.        *)
newMonitor ==
    /\ listed' = 0 /\ status' = Absent
    /\ at' = [g \in Goroutines |-> IF at[g] = "unborn" THEN "unborn" ELSE "end"]
    /\ closeChannel' = [g \in Goroutines |-> FALSE]
    /\ closedChannel' = [g \in Goroutines |-> FALSE]
    /\ helper' = [g \in Goroutines |-> "none"]
    /\ conn' = [g \in Goroutines |-> 0]
    /\ dialed' = [g \in Goroutines |-> "error"]
    /\ alive' = [k \in Conns |-> FALSE] /\ wire' = [k \in Conns |-> <<>>]
    /\ UNCHANGED <<serverVars, started, alone, notified>>

handleConnection(k) == Register(k) \/ transmitV0(k) \/ getCloseNotifier(k)

PipeSteps ==
    \/ SetServer \/ transmitEvent \/ updateNotifierList
    \/ \E k \in Conns : handleConnection(k) \/ BreakConn(k)
    \/ \E g \in Goroutines : startMonitoring(g)

PipeNext == PipeSteps \/ newMonitor

(* Goroutines run; a dial that could succeed again and again succeeds. *)
PipeFairness ==
    /\ \A g \in Goroutines : /\ WF_pipeVars(startMonitoring(g)) /\ SF_pipeVars(DialOk(g))
                             /\ WF_pipeVars(HelperTakes(g))
    /\ \A k \in Conns : WF_pipeVars(handleConnection(k)) /\ WF_pipeVars(getCloseNotifier(k))

PipeSpec == PipeInit /\ [][PipeNext]_pipeVars /\ PipeFairness

-----------------------------------------------------------------------------
(***************************************************************************)
(* One goroutine of the monitor gets each event at most once and in the    *)
(* order in which they were published, whatever happens to connections.    *)
(***************************************************************************)
Feed == INSTANCE LossyFeed WITH Readers <- Goroutines, sent <- published, got <- notified

FeedsInOrder == Feed!Spec

(***************************************************************************)
(* A goroutine that was started when all before it had stopped gets only   *)
(* events that were published after all that they got: what one of them    *)
(* has passed to notify is not passed again by its successor, after a      *)
(* restart of the monitor either (monitord/impl.go).                       *)
(***************************************************************************)
FeedsSucceed ==
    \A g, h \in Goroutines : h < g /\ alone[g] =>
        \A m \in Range(notified[h]), n \in Range(notified[g]) : m < n

(***************************************************************************)
(* The goroutine of a listed address never waits for a helper that is gone *)
(* (the send at monitord/impl.go:216), and while it reads the status says  *)
(* ready; the exception is one that started before a goroutine of the same *)
(* address had stopped: then the last of the two to dial decides on the    *)
(* status.                                                                 *)
(***************************************************************************)
ListedIsMonitored ==
    /\ listed # 0 /\ at[listed] = "exit" => helper[listed] = "waiting"
    /\ listed # 0 /\ alone[listed] /\ at[listed] \in {"read", "exit"} => status = "ready"

(***************************************************************************)
(* If in the end the daemon stays ready and the address stays listed, the  *)
(* monitor is connected again and again, however connections break.        *)
(***************************************************************************)
ConnectedAgain ==
    <>[](server = "ready" /\ listed # 0) =>
        []<>(listed # 0 /\ at[listed] = "read")

(***************************************************************************)
(* The daemon forgets a connection that is gone, so that transmitChannels  *)
(* does not grow: the close notifier sees what no write would.             *)
(***************************************************************************)
DeadUnregistered ==
    \A k \in Conns : handler[k] = "registered" /\ ~alive[k] ~> handler[k] = "none"
=============================================================================
