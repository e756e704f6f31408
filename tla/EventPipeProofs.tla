--------------------------- MODULE EventPipeProofs ---------------------------
(***************************************************************************)
(* Proofs about EventPipe, for any number of goroutines, connections,      *)
(* events and restarts and any length of a transmitChannel.                *)
(***************************************************************************)
EXTENDS EventPipe, TLAPS

-----------------------------------------------------------------------------
(* Sequences of event numbers *)

Increasing(s) == \A i, j \in DOMAIN s : i < j => s[i] < s[j]

(* Every element of s is smaller than every event of t. *)
Before(s, t) == \A i \in DOMAIN s, j \in DOMAIN t : t[j] # Torn => s[i] < t[j]

(* The elements of s are elements of S. *)
Among(s, S) == \A i \in DOMAIN s : s[i] \in S

(* Taking the first element: what transmitV0 and receiveV0 do. *)
LEMMA TailOf ==
    ASSUME NEW s \in Seq(Nat), s # <<>>, Increasing(s)
    PROVE  /\ Head(s) = s[1] /\ 1 \in DOMAIN s /\ Head(s) \in Nat
           /\ Tail(s) \in Seq(Nat) /\ Increasing(Tail(s))
           /\ \A j \in DOMAIN Tail(s) : j + 1 \in DOMAIN s /\ Tail(s)[j] = s[j + 1]
           /\ \A j \in DOMAIN Tail(s) : Head(s) < Tail(s)[j]
<1>1. Len(s) \in Nat \ {0} /\ DOMAIN s = 1 .. Len(s)
  OBVIOUS
<1>2. Head(s) = s[1] /\ 1 \in DOMAIN s /\ Head(s) \in Nat
  BY <1>1
<1>3. Tail(s) \in Seq(Nat) /\ Len(Tail(s)) = Len(s) - 1
  BY <1>1
<1>4. \A j \in DOMAIN Tail(s) : j + 1 \in DOMAIN s /\ Tail(s)[j] = s[j + 1]
  BY <1>1, <1>3
<1>5. \A j \in DOMAIN Tail(s) : j \in Nat /\ j > 0
  BY <1>3
<1>6. Increasing(Tail(s))
  BY <1>4, <1>5 DEF Increasing
<1>7. \A j \in DOMAIN Tail(s) : Head(s) < Tail(s)[j]
  BY <1>2, <1>4, <1>5 DEF Increasing
<1> QED
  BY <1>2, <1>3, <1>4, <1>6, <1>7

(* Adding an element: what transmitEvent, transmitV0 and receiveV0 do. *)
LEMMA AppendTo ==
    ASSUME NEW s \in Seq(Nat), NEW e \in Nat, Increasing(s),
           \A i \in DOMAIN s : s[i] < e
    PROVE  /\ Append(s, e) \in Seq(Nat) /\ Increasing(Append(s, e))
           /\ Len(Append(s, e)) = Len(s) + 1
           /\ \A j \in DOMAIN Append(s, e) :
                 Append(s, e)[j] = e \/ (j \in DOMAIN s /\ Append(s, e)[j] = s[j])
<1>1. Len(s) \in Nat /\ DOMAIN s = 1 .. Len(s)
  OBVIOUS
<1>2. /\ Append(s, e) \in Seq(Nat) /\ Len(Append(s, e)) = Len(s) + 1
      /\ DOMAIN Append(s, e) = 1 .. Len(s) + 1
  BY <1>1
<1>3. \A j \in DOMAIN Append(s, e) : Append(s, e)[j] = IF j = Len(s) + 1 THEN e ELSE s[j]
  BY <1>1, <1>2
<1>4. Increasing(Append(s, e))
  BY <1>1, <1>2, <1>3 DEF Increasing
<1> QED
  BY <1>1, <1>2, <1>3, <1>4

(* What an event's decoder leaves for the next one is in order, and nothing *)
(* in it is new except the rest of an event that was cut.                   *)
LEMMA UnreadOf ==
    ASSUME NEW s \in Seq(Nat), Increasing(s), \A i \in DOMAIN s : s[i] > 0,
           NEW rest \in Unread(s)
    PROVE  /\ rest \in Seq(Nat) /\ Increasing(rest)
           /\ \A j \in DOMAIN rest : rest[j] = Torn \/ \E i \in DOMAIN s : rest[j] = s[i]
<1>1. Len(s) \in Nat /\ DOMAIN s = 1 .. Len(s)
  OBVIOUS
<1>2. ASSUME NEW n \in 1 .. Len(s) + 1
      PROVE  /\ SubSeq(s, n, Len(s)) \in Seq(Nat)
             /\ DOMAIN SubSeq(s, n, Len(s)) = 1 .. Len(s) - n + 1
             /\ Len(SubSeq(s, n, Len(s))) = Len(s) - n + 1
             /\ \A j \in 1 .. Len(s) - n + 1 :
                   SubSeq(s, n, Len(s))[j] = s[n + j - 1] /\ n + j - 1 \in DOMAIN s
  BY <1>1
<1>3. CASE \E n \in 1 .. Len(s) + 1 : rest = SubSeq(s, n, Len(s))
  <2>1. PICK n \in 1 .. Len(s) + 1 : rest = SubSeq(s, n, Len(s))
    BY <1>3
  <2> DEFINE m == Len(s) - n + 1
  <2>2. /\ rest \in Seq(Nat) /\ DOMAIN rest = 1 .. m /\ m \in Nat
        /\ \A j \in 1 .. m : rest[j] = s[n + j - 1] /\ n + j - 1 \in DOMAIN s
    BY <1>1, <1>2, <2>1
  <2> HIDE DEF m
  <2>3. Increasing(rest)
    <3> SUFFICES ASSUME NEW i \in 1 .. m, NEW j \in 1 .. m, i < j
                 PROVE  rest[i] < rest[j]
      BY <2>2 DEF Increasing
    <3>1. n + i - 1 < n + j - 1
      BY <1>1, <2>2
    <3> QED
      BY <2>2, <3>1 DEF Increasing
  <2> QED
    BY <2>2, <2>3
<1>4. CASE \E n \in 1 .. Len(s) : rest = <<Torn>> \o SubSeq(s, n + 1, Len(s))
  <2>1. PICK n \in 1 .. Len(s) : rest = <<Torn>> \o SubSeq(s, n + 1, Len(s))
    BY <1>4, Zenon
  <2> DEFINE t == SubSeq(s, n + 1, Len(s))
             m == Len(s) - n
  <2>2. n + 1 \in 1 .. Len(s) + 1 /\ m \in Nat /\ Len(s) - (n + 1) + 1 = m
    BY <1>1
  <2>3. /\ t \in Seq(Nat) /\ DOMAIN t = 1 .. m /\ Len(t) = m
        /\ \A j \in 1 .. m : t[j] = s[n + j] /\ n + j \in DOMAIN s
    <3>1. n + 1 \in 1 .. Len(s) + 1
      BY <2>2
    <3>2. /\ t \in Seq(Nat) /\ DOMAIN t = 1 .. Len(s) - (n + 1) + 1
          /\ Len(t) = Len(s) - (n + 1) + 1
          /\ \A j \in 1 .. Len(s) - (n + 1) + 1 :
                t[j] = s[(n + 1) + j - 1] /\ (n + 1) + j - 1 \in DOMAIN s
      BY <1>2, <3>1
    <3>3. \A j \in 1 .. m : (n + 1) + j - 1 = n + j
      BY <1>1, <2>2
    <3> QED
      BY <2>2, <3>2, <3>3, Zenon
  <2>4. <<Torn>> \in Seq(Nat) /\ Len(<<Torn>>) = 1 /\ <<Torn>>[1] = Torn
    BY DEF Torn
  <2> HIDE DEF t, m
  <2>5. rest = <<Torn>> \o t
    BY <2>1 DEF t
  <2>6. /\ rest \in Seq(Nat) /\ DOMAIN rest = 1 .. m + 1 /\ rest[1] = Torn
        /\ \A j \in 2 .. m + 1 : rest[j] = t[j - 1]
    BY <2>2, <2>3, <2>4, <2>5
  <2>7. \A j \in 2 .. m + 1 : rest[j] = s[n + j - 1] /\ n + j - 1 \in DOMAIN s
    BY <2>2, <2>3, <2>6
  <2>8. Increasing(rest)
    <3> SUFFICES ASSUME NEW i \in 1 .. m + 1, NEW j \in 1 .. m + 1, i < j
                 PROVE  rest[i] < rest[j]
      BY <2>6 DEF Increasing
    <3>1. j \in 2 .. m + 1 /\ rest[j] = s[n + j - 1] /\ n + j - 1 \in DOMAIN s
      BY <2>2, <2>7
    <3>2. CASE i = 1
      BY <2>6, <3>1, <3>2 DEF Torn
    <3>3. CASE i # 1
      <4>1. i \in 2 .. m + 1 /\ rest[i] = s[n + i - 1] /\ n + i - 1 \in DOMAIN s
        BY <2>2, <2>7, <3>3
      <4>2. n + i - 1 < n + j - 1
        BY <1>1, <2>2
      <4> QED
        BY <3>1, <4>1, <4>2 DEF Increasing
    <3> QED
      BY <3>2, <3>3
  <2>9. \A j \in 1 .. m + 1 : j = 1 \/ j \in 2 .. m + 1
    BY <2>2
  <2> QED
    BY <2>6, <2>7, <2>8, <2>9
<1> QED
  BY <1>3, <1>4, Zenon DEF Unread

-----------------------------------------------------------------------------
(* The inductive invariant *)

PipeTypes ==
    /\ server \in {"down", "sealed", "ready"}
    /\ published \in 0 .. MaxPublished
    /\ handler \in [Conns -> {"none", "accepted", "registered"}]
    /\ queue \in [Conns -> Seq(Nat)] /\ wire \in [Conns -> Seq(Nat)]
    /\ \A k \in Conns : Len(queue[k]) <= pipeLength
    /\ alive \in [Conns -> BOOLEAN]
    /\ listed \in Goroutines \cup {0} /\ started \in Goroutines \cup {0}
    /\ alone \in [Goroutines -> BOOLEAN]
    /\ closeChannel \in [Goroutines -> BOOLEAN] /\ closedChannel \in [Goroutines -> BOOLEAN]
    /\ helper \in [Goroutines -> {"none", "waiting", "done"}]
    /\ conn \in [Goroutines -> Conns \cup {0}]
    /\ dialed \in [Goroutines -> Results]
    /\ at \in [Goroutines -> {"unborn", "new", "top", "status", "read", "exit", "end"}]
    /\ status \in Results \cup {Absent, "not yet probed"}
    /\ notified \in [Goroutines -> Seq(Nat)]

(* A goroutine that reads has a connection, and so has one that is about to. *)
Connected ==
    \A g \in Goroutines :
        /\ dialed[g] = "ready" => conn[g] \in Conns
        /\ at[g] \in {"read", "exit"} => conn[g] \in Conns /\ dialed[g] # "ready"

(***************************************************************************)
(* What a goroutine has got comes before what is on the wire of its        *)
(* connection, that before what is in the channel, and that before the     *)
(* next event.  The channel of a connection that is dialled is empty.      *)
(***************************************************************************)
InChannels ==
    \A k \in Conns :
        /\ Increasing(queue[k]) /\ Among(queue[k], 1 .. published)
        /\ Increasing(wire[k]) /\ Among(wire[k], 0 .. published)
        /\ Before(wire[k], queue[k])
        /\ handler[k] # "registered" => queue[k] = <<>>

InFeeds ==
    \A g \in Goroutines :
        /\ Among(notified[g], 1 .. published)
        /\ conn[g] \in Conns => /\ Before(notified[g], wire[conn[g]])
                                /\ Before(notified[g], queue[conn[g]])

(***************************************************************************)
(* The listed goroutine is the last one started; it has not been told to   *)
(* close, neither has its helper; and if it was alone at first nobody else *)
(* writes the status.                                                      *)
(***************************************************************************)
Listing ==
    /\ listed # 0 => listed = started
    /\ \A g \in Goroutines :
          /\ g > started => at[g] = "unborn" /\ ~closeChannel[g] /\ helper[g] # "done"
          /\ closeChannel[g] \/ helper[g] = "done" => g # listed
          /\ at[g] \in {"read", "exit"} => helper[g] \in {"waiting", "done"}
          /\ listed # 0 /\ alone[listed] /\ g # listed => at[g] \in {"unborn", "end"}
    /\ listed # 0 /\ alone[listed] /\ at[listed] \in {"read", "exit"} => status = "ready"

PipeInv == PipeTypes /\ Connected /\ InChannels /\ InFeeds /\ Listing

LEMMA InitInv == PipeInit => PipeInv
<1> USE PipeAssumption
<1> SUFFICES ASSUME PipeInit PROVE PipeInv
  OBVIOUS
<1>1. <<>> \in Seq(Nat) /\ Len(<<>>) = 0 /\ DOMAIN <<>> = {}
  OBVIOUS
<1>2. PipeTypes
  BY <1>1 DEF PipeInit, PipeTypes, Results
<1>3. Connected
  BY DEF PipeInit, Connected
<1>4. InChannels /\ InFeeds
  BY <1>1 DEF PipeInit, InChannels, InFeeds, Increasing, Among, Before
<1>5. Listing
  BY DEF PipeInit, Listing
<1> QED
  BY <1>2, <1>3, <1>4, <1>5 DEF PipeInv

LEMMA ConnectedStep == PipeInv /\ PipeNext => Connected'
<1> SUFFICES ASSUME PipeInv, PipeNext PROVE Connected'
  OBVIOUS
<1>0. /\ Connected
      /\ conn \in [Goroutines -> Conns \cup {0}] /\ dialed \in [Goroutines -> Results]
      /\ at \in [Goroutines -> {"unborn", "new", "top", "status", "read", "exit", "end"}]
  BY Zenon DEF PipeInv, PipeTypes
<1> USE <1>0 DEF Connected, Go
<1>1. CASE SetServer \/ transmitEvent \/ \E k \in Conns : handleConnection(k) \/ BreakConn(k)
  BY <1>1 DEF SetServer, transmitEvent, handleConnection, BreakConn, Register, transmitV0,
     getCloseNotifier, goVars
<1>2. CASE updateNotifierList
  BY <1>2 DEF updateNotifierList, Start, Unlist
<1>3. CASE \E g \in Goroutines : startMonitoring(g)
  <2>1. PICK g \in Goroutines : startMonitoring(g)
    BY <1>3
  <2>2. CASE NotYetProbed(g) \/ checkForEvent(g) \/ ReceiveFails(g) \/ HelperTakes(g)
    BY <2>2, Zenon DEF NotYetProbed, checkForEvent, ReceiveFails, HelperTakes
  <2>3. CASE DialOk(g)
    <3>1. /\ at' = [at EXCEPT ![g] = "status"] /\ dialed' = [dialed EXCEPT ![g] = "ready"]
          /\ \E k \in Conns : conn' = [conn EXCEPT ![g] = k]
      BY <2>3, Zenon DEF DialOk
    <3> QED
      BY <3>1
  <2>4. CASE DialFails(g)
    BY <2>4 DEF DialFails
  <2>5. CASE setKeymasterStatus(g)
    <3>1. /\ at'[g] \in {"read", "exit"} => conn[g] \in Conns
          /\ dialed'[g] = "error" /\ conn' = conn
      BY <2>5 DEF setKeymasterStatus
    <3>2. \A h \in Goroutines \ {g} : at'[h] = at[h] /\ dialed'[h] = dialed[h]
      BY <2>5 DEF setKeymasterStatus
    <3> QED
      BY <3>1, <3>2
  <2>6. CASE Forget(g) \/ Exit(g)
    <3>1. at'[g] \in {"end", "top"} /\ dialed' = dialed /\ dialed[g] # "ready"
      BY <2>6 DEF Forget, Exit
    <3>2. \A h \in Goroutines \ {g} : at'[h] = at[h] /\ conn'[h] = conn[h]
      BY <2>6 DEF Forget, Exit
    <3> QED
      BY <3>1, <3>2
  <2>7. CASE receiveV0(g)
    BY <2>7 DEF receiveV0
  <2> QED
    BY <2>1, <2>2, <2>3, <2>4, <2>5, <2>6, <2>7 DEF startMonitoring
<1>4. CASE newMonitor
  BY <1>4 DEF newMonitor
<1> QED
  BY <1>1, <1>2, <1>3, <1>4 DEF PipeNext, PipeSteps

LEMMA ListingStep == PipeInv /\ PipeNext => Listing'
<1> USE PipeAssumption
<1> SUFFICES ASSUME PipeInv, PipeNext PROVE Listing'
  OBVIOUS
<1> USE DEF PipeInv, Listing
<1>1. CASE SetServer \/ transmitEvent \/ \E k \in Conns : handleConnection(k) \/ BreakConn(k)
  BY <1>1 DEF SetServer, transmitEvent, handleConnection, BreakConn, Register, transmitV0,
     getCloseNotifier, goVars, monitorVars
<1>2. CASE updateNotifierList
  <2>1. CASE listed = 0 /\ Start
    <3> DEFINE n == started + 1
    <3>0. UNCHANGED helper
      BY <1>2 DEF updateNotifierList
    <3>1. /\ n \in Goroutines /\ started \in Nat /\ started' = n /\ listed' = n
          /\ at' = [at EXCEPT ![n] = "new"]
          /\ closeChannel' = closeChannel /\ helper' = helper
      <4>0. started \in Goroutines \cup {0}
        BY Zenon DEF PipeTypes
      <4>1. started \in Nat
        <5> HIDE DEF PipeInv, Listing
        <5> QED
          BY <4>0
      <4>2. /\ n \in Goroutines /\ started' = n /\ listed' = started'
            /\ at' = [at EXCEPT ![started'] = "new"] /\ closeChannel' = closeChannel
        BY <2>1, Zenon DEF Start
      <4> QED
        BY <3>0, <4>1, <4>2
    <3>9. alone'[n] => \A g \in 1 .. started : at[g] = "end"
      <4>1. started' = n /\ alone' = [alone EXCEPT ![started'] = \A g \in 1 .. started : at[g] = "end"]
        BY <2>1 DEF Start
      <4>2. n \in DOMAIN alone
        BY <3>1, Zenon DEF PipeTypes
      <4> QED
        BY <4>1, <4>2, Zenon
    <3> HIDE DEF n
    <3>2. at'[n] = "new" /\ \A g \in Goroutines \ {n} : at'[g] = at[g]
      BY <3>1, Zenon DEF PipeTypes
    <3>3. n \in Nat /\ n > started /\ n # 0
      BY <3>1 DEF n
    <3>4. ~closeChannel[n] /\ helper[n] # "done"
      BY <3>1, <3>3
    <3>5. ASSUME NEW g \in Goroutines, g # n, alone'[n]
          PROVE  at[g] \in {"unborn", "end"}
      <4>1. \A h \in 1 .. started : at[h] = "end"
        BY <3>5, <3>9
      <4>2. g \in 1 .. started \/ g > started
        BY <3>1
      <4> QED
        BY <4>1, <4>2
    <3>6. ASSUME NEW g \in Goroutines, g > n
          PROVE  at'[g] = "unborn" /\ ~closeChannel[g] /\ helper[g] # "done"
      <4>1. g > started /\ g # n
        BY <3>1, <3>3, <3>6
      <4> QED
        BY <4>1, <3>2
    <3> QED
      BY <3>1, <3>2, <3>3, <3>4, <3>5, <3>6
  <2>2. CASE Unlist
    <3>1. /\ listed \in Goroutines /\ listed' = 0 /\ listed = started
          /\ \A g \in Goroutines \ {listed} : closeChannel'[g] = closeChannel[g]
          /\ UNCHANGED <<started, at, helper>>
      BY <1>2, <2>2, Zenon DEF Unlist, updateNotifierList, PipeTypes
    <3>2. \A g \in Goroutines : g # 0 /\ (g > started => g # listed)
      BY <3>1
    <3> QED
      BY <3>1, <3>2
  <2> QED
    BY <1>2, <2>1, <2>2 DEF updateNotifierList
<1>3. CASE \E g \in Goroutines : startMonitoring(g)
  <2>1. PICK g \in Goroutines : startMonitoring(g)
    BY <1>3, Zenon
  <2> USE DEF PipeTypes
  <2>2. listed' = listed /\ started' = started /\ alone' = alone
    BY <2>1, Zenon DEF startMonitoring, NotYetProbed, checkForEvent, DialOk, DialFails,
       setKeymasterStatus, Forget, receiveV0, ReceiveFails, Exit, HelperTakes, monitorVars
  <2> DEFINE Facts ==
         /\ \A h \in Goroutines \ {g} :
               at'[h] = at[h] /\ helper'[h] = helper[h] /\ closeChannel'[h] = closeChannel[h]
         /\ closeChannel'[g] => closeChannel[g]
         /\ helper'[g] = "done" => helper[g] = "done" \/ closeChannel[g]
         /\ at'[g] \in {"read", "exit"} => helper'[g] \in {"waiting", "done"}
         /\ at[g] \in {"unborn", "end"} => at'[g] = at[g] /\ status' = status
         /\ at'[g] \in {"read", "exit"} =>
               status' = "ready" \/ (status' = status /\ at[g] \in {"read", "exit"})
  <2>3. Facts
    <3>1. CASE NotYetProbed(g) \/ checkForEvent(g) \/ DialOk(g) \/ DialFails(g)
      BY <3>1, ZenonT(40) DEF NotYetProbed, checkForEvent, DialOk, DialFails, Go
    <3>2. CASE setKeymasterStatus(g)
      BY <3>2, Zenon DEF setKeymasterStatus, Go
    <3>3. CASE Forget(g) \/ receiveV0(g) \/ ReceiveFails(g) \/ Exit(g)
      BY <3>3, ZenonT(40) DEF Forget, receiveV0, ReceiveFails, Exit, Go
    <3>4. CASE HelperTakes(g)
      BY <3>4, Zenon DEF HelperTakes
    <3> QED
      BY <2>1, <3>1, <3>2, <3>3, <3>4, Zenon DEF startMonitoring
  <2>4. (listed # 0 => listed = started)'
    BY <2>2, Zenon
  <2>5. ASSUME NEW h \in Goroutines
        PROVE  /\ h > started => at'[h] = "unborn" /\ ~closeChannel'[h] /\ helper'[h] # "done"
               /\ closeChannel'[h] \/ helper'[h] = "done" => h # listed
               /\ at'[h] \in {"read", "exit"} => helper'[h] \in {"waiting", "done"}
               /\ listed # 0 /\ alone[listed] /\ h # listed => at'[h] \in {"unborn", "end"}
    <3>1. CASE h = g
      BY <2>3, <3>1, Zenon
    <3>2. CASE h # g
      BY <2>3, <3>2, Zenon
    <3> QED
      BY <3>1, <3>2, Zenon
  <2>6. listed # 0 /\ alone[listed] /\ at'[listed] \in {"read", "exit"} => status' = "ready"
    <3> SUFFICES ASSUME listed # 0, alone[listed], at'[listed] \in {"read", "exit"}
                 PROVE  status' = "ready"
      BY Zenon
    <3>1. CASE g = listed
      BY <2>3, <3>1, Zenon
    <3>2. CASE g # listed
      BY <2>3, <3>2, Zenon
    <3> QED
      BY <3>1, <3>2, Zenon
  <2> QED
    BY <2>2, <2>4, <2>5, <2>6, ZenonT(40)
<1>4. CASE newMonitor
  <2>1. /\ listed' = 0 /\ started' = started
        /\ \A g \in Goroutines : /\ at'[g] = IF at[g] = "unborn" THEN "unborn" ELSE "end"
                               /\ ~closeChannel'[g] /\ helper'[g] = "none"
    BY <1>4 DEF newMonitor
  <2>2. \A g \in Goroutines : /\ g # 0 /\ at'[g] \notin {"read", "exit"}
                              /\ g > started => at[g] = "unborn"
    BY <2>1
  <2> QED
    BY <2>1, <2>2
<1> QED
  BY <1>1, <1>2, <1>3, <1>4 DEF PipeNext, PipeSteps

(***************************************************************************)
(* What a step does to the channels, the wires and the feeds.  An action   *)
(* that leaves queue, handler, wire, published, conn and notified alone is *)
(* nothing to the order of events; Emptied is what the others have in      *)
(* common, apart from the three that move an event.                        *)
(***************************************************************************)
Emptied ==
    /\ published' = published /\ notified' = notified
    /\ queue' \in [Conns -> Seq(Nat)] /\ wire' \in [Conns -> Seq(Nat)]
    /\ conn' \in [Goroutines -> Conns \cup {0}]
    /\ \A k \in Conns :
          /\ queue'[k] = queue[k] \/ queue'[k] = <<>>
          /\ wire'[k] = wire[k] \/ wire'[k] = <<>>
          /\ handler'[k] # "registered" /\ handler[k] = "registered" => queue'[k] = <<>>
    /\ \A g \in Goroutines :
          \/ conn'[g] = conn[g] \/ conn'[g] = 0
          \/ wire'[conn'[g]] = <<>> /\ queue'[conn'[g]] = <<>>

LEMMA EmptiedKeeps ==
    ASSUME PipeInv, Emptied PROVE InChannels' /\ InFeeds'
<1> USE PipeAssumption
<1>1. DOMAIN <<>> = {}
  OBVIOUS
<1>2. ASSUME NEW k \in Conns
      PROVE  /\ Increasing(queue'[k]) /\ Among(queue'[k], 1 .. published)
             /\ Increasing(wire'[k]) /\ Among(wire'[k], 0 .. published)
             /\ Before(wire'[k], queue'[k])
             /\ handler'[k] # "registered" => queue'[k] = <<>>
  <2>1. /\ Increasing(queue[k]) /\ Among(queue[k], 1 .. published)
        /\ Increasing(wire[k]) /\ Among(wire[k], 0 .. published)
        /\ Before(wire[k], queue[k])
        /\ handler[k] # "registered" => queue[k] = <<>>
    BY Zenon DEF PipeInv, InChannels
  <2>2. /\ queue'[k] = queue[k] \/ queue'[k] = <<>>
        /\ wire'[k] = wire[k] \/ wire'[k] = <<>>
        /\ handler'[k] # "registered" /\ handler[k] = "registered" => queue'[k] = <<>>
    BY Zenon DEF Emptied
  <2>3. /\ Increasing(<<>>) /\ Among(<<>>, 1 .. published) /\ Among(<<>>, 0 .. published)
        /\ \A s : Before(<<>>, s) /\ Before(s, <<>>)
    BY <1>1, Zenon DEF Increasing, Among, Before
  <2> QED
    BY <2>1, <2>2, <2>3, Zenon
<1>3. InChannels'
  BY <1>2 DEF InChannels, Emptied
<1>4. ASSUME NEW g \in Goroutines
      PROVE  /\ Among(notified[g], 1 .. published)
             /\ conn'[g] \in Conns => /\ Before(notified[g], wire'[conn'[g]])
                                      /\ Before(notified[g], queue'[conn'[g]])
  <2>1. /\ Among(notified[g], 1 .. published)
        /\ conn[g] \in Conns => /\ Before(notified[g], wire[conn[g]])
                                /\ Before(notified[g], queue[conn[g]])
    BY DEF PipeInv, InFeeds
  <2>2. \A s : Before(s, <<>>)
    BY <1>1, Zenon DEF Before
  <2>3. 0 \notin Conns
    OBVIOUS
  <2>4. CASE conn'[g] = conn[g]
    <3>2. ASSUME conn[g] \in Conns
          PROVE  /\ Before(notified[g], wire'[conn[g]])
                 /\ Before(notified[g], queue'[conn[g]])
      <4>1. CASE wire'[conn[g]] = wire[conn[g]] /\ queue'[conn[g]] = queue[conn[g]]
        BY <2>1, <3>2, <4>1
      <4>2. CASE wire'[conn[g]] = wire[conn[g]] /\ queue'[conn[g]] = <<>>
        BY <2>1, <2>2, <3>2, <4>2
      <4>3. CASE wire'[conn[g]] = <<>> /\ queue'[conn[g]] = queue[conn[g]]
        BY <2>1, <2>2, <3>2, <4>3
      <4>4. CASE wire'[conn[g]] = <<>> /\ queue'[conn[g]] = <<>>
        BY <2>2, <4>4
      <4>5. queue'[conn[g]] = queue[conn[g]] \/ queue'[conn[g]] = <<>>
        BY <3>2, Zenon DEF Emptied
      <4>6. wire'[conn[g]] = wire[conn[g]] \/ wire'[conn[g]] = <<>>
        BY <3>2, Zenon DEF Emptied
      <4> QED
        BY <4>1, <4>2, <4>3, <4>4, <4>5, <4>6
    <3> QED
      BY <2>1, <2>4, <3>2
  <2>5. CASE conn'[g] = 0
    BY <2>1, <2>3, <2>5, Zenon
  <2>6. CASE wire'[conn'[g]] = <<>> /\ queue'[conn'[g]] = <<>>
    BY <2>1, <2>2, <2>6, Zenon
  <2> QED
    BY <2>4, <2>5, <2>6 DEF Emptied
<1>5. InFeeds'
  BY <1>4 DEF InFeeds, Emptied
<1> QED
  BY <1>3, <1>5

(* PublishAuthEvent and its siblings add the newest event. *)
LEMMA TransmitKeeps ==
    ASSUME PipeInv, transmitEvent PROVE InChannels' /\ InFeeds' /\ queue' \in [Conns -> Seq(Nat)]
<1> USE PipeAssumption
<1>1. /\ published \in Nat /\ published' = published + 1
      /\ handler' = handler /\ wire' = wire /\ conn' = conn /\ notified' = notified
  <2>1. published \in 0 .. MaxPublished
    BY Zenon DEF PipeInv, PipeTypes
  <2>2. published \in Nat
    BY <2>1
  <2> QED
    BY <2>2 DEF transmitEvent, netVars, goVars
<1>2. \A k \in Conns :
        queue'[k] = IF handler[k] = "registered" /\ Len(queue[k]) < pipeLength
                    THEN Append(queue[k], published') ELSE queue[k]
  BY DEF transmitEvent
<1>3. ASSUME NEW k \in Conns
      PROVE  /\ queue'[k] \in Seq(Nat)
             /\ Increasing(queue'[k]) /\ Among(queue'[k], 1 .. published')
             /\ Among(wire[k], 0 .. published')
             /\ Before(wire[k], queue'[k])
             /\ \A j \in DOMAIN queue'[k] :
                   \/ queue'[k][j] = published'
                   \/ j \in DOMAIN queue[k] /\ queue'[k][j] = queue[k][j]
             /\ handler[k] # "registered" => queue'[k] = <<>>
  <2>1. /\ Increasing(queue[k]) /\ Among(queue[k], 1 .. published)
        /\ Among(wire[k], 0 .. published)
        /\ Before(wire[k], queue[k])
        /\ handler[k] # "registered" => queue[k] = <<>>
        /\ queue[k] \in Seq(Nat) /\ wire[k] \in Seq(Nat)
    BY Zenon DEF PipeInv, InChannels, PipeTypes
  <2>2. /\ \A i \in DOMAIN queue[k] : queue[k][i] < published'
        /\ \A i \in DOMAIN wire[k] : wire[k][i] < published'
        /\ Among(wire[k], 0 .. published') /\ Among(queue[k], 1 .. published')
    BY <1>1, <2>1 DEF Among
  <2>3. CASE queue'[k] = queue[k]
    BY <2>1, <2>2, <2>3
  <2>4. CASE queue'[k] = Append(queue[k], published') /\ handler[k] = "registered"
    <3> DEFINE q == Append(queue[k], published')
    <3>1. /\ q \in Seq(Nat) /\ Increasing(q)
          /\ \A j \in DOMAIN q : q[j] = published' \/ (j \in DOMAIN queue[k] /\ q[j] = queue[k][j])
      BY <1>1, <2>1, <2>2, AppendTo
    <3> HIDE DEF q
    <3>2. Among(q, 1 .. published') /\ Before(wire[k], q)
      <4>1. published' \in 1 .. published'
        BY <1>1
      <4>2. Among(q, 1 .. published')
        BY <2>2, <3>1, <4>1 DEF Among
      <4>3. Before(wire[k], q)
        BY <2>1, <2>2, <3>1, Zenon DEF Before
      <4> QED
        BY <4>2, <4>3
    <3>3. queue'[k] = q
      BY <2>4 DEF q
    <3> QED
      BY <2>2, <2>4, <3>1, <3>2, <3>3
  <2> QED
    BY <1>2, <2>3, <2>4, Zenon
<1>4. InChannels'
  <2>1. \A k \in Conns : Increasing(wire[k])
    BY DEF PipeInv, InChannels
  <2> QED
    BY <1>1, <1>3, <2>1 DEF InChannels
<1>5. ASSUME NEW g \in Goroutines
      PROVE  /\ Among(notified[g], 1 .. published')
             /\ conn[g] \in Conns => /\ Before(notified[g], wire[conn[g]])
                                     /\ Before(notified[g], queue'[conn[g]])
  <2>1. /\ Among(notified[g], 1 .. published)
        /\ conn[g] \in Conns => /\ Before(notified[g], wire[conn[g]])
                                /\ Before(notified[g], queue[conn[g]])
    BY Zenon DEF PipeInv, InFeeds
  <2>2. /\ Among(notified[g], 1 .. published')
        /\ \A i \in DOMAIN notified[g] : notified[g][i] < published'
    BY <1>1, <2>1 DEF Among
  <2>3. ASSUME conn[g] \in Conns PROVE Before(notified[g], queue'[conn[g]])
    BY <1>3, <2>1, <2>2, <2>3, ZenonT(60) DEF Before
  <2> QED
    BY <2>1, <2>2, <2>3
<1>6. InFeeds'
  BY <1>1, <1>5 DEF InFeeds
<1>7. queue' \in [Conns -> Seq(Nat)]
  BY <1>3 DEF transmitEvent
<1> QED
  BY <1>4, <1>6, <1>7

(* transmitV0 moves the first event of the channel to the end of the wire. *)
LEMMA WriteKeeps ==
    ASSUME PipeInv, NEW k \in Conns, queue[k] # <<>>,
           handler' = handler, published' = published, notified' = notified, conn' = conn,
           queue' = [queue EXCEPT ![k] = Tail(queue[k])],
           wire' = [wire EXCEPT ![k] =
                       IF alive[k] THEN Append(wire[k], Head(queue[k])) ELSE wire[k]]
    PROVE  /\ InChannels' /\ InFeeds'
           /\ queue' \in [Conns -> Seq(Nat)] /\ wire' \in [Conns -> Seq(Nat)]
<1> DEFINE q == Tail(queue[k])
           w == wire'[k]
           e == Head(queue[k])
<1>1. /\ queue \in [Conns -> Seq(Nat)] /\ wire \in [Conns -> Seq(Nat)]
      /\ queue[k] \in Seq(Nat) /\ wire[k] \in Seq(Nat)
  BY Zenon DEF PipeInv, PipeTypes
<1>2. /\ Increasing(queue[k]) /\ Among(queue[k], 1 .. published)
      /\ Increasing(wire[k]) /\ Among(wire[k], 0 .. published)
      /\ Before(wire[k], queue[k])
      /\ handler[k] # "registered" => queue[k] = <<>>
  BY DEF PipeInv, InChannels
<1>3. /\ e = queue[k][1] /\ 1 \in DOMAIN queue[k] /\ e \in Nat
      /\ q \in Seq(Nat) /\ Increasing(q)
      /\ \A j \in DOMAIN q : j + 1 \in DOMAIN queue[k] /\ q[j] = queue[k][j + 1]
      /\ \A j \in DOMAIN q : e < q[j]
  BY <1>1, <1>2, TailOf
<1>4. /\ queue'[k] = q /\ \A l \in Conns \ {k} : queue'[l] = queue[l] /\ wire'[l] = wire[l]
      /\ wire'[k] = w /\ w = IF alive[k] THEN Append(wire[k], e) ELSE wire[k]
  BY <1>1
<1> HIDE DEF q, w, e
<1>5. e \in 1 .. published /\ e # Torn
  <2>1. e \in 1 .. published
    BY <1>2, <1>3 DEF Among
  <2> QED
    BY <2>1, <1>3 DEF Torn
<1>6. \A i \in DOMAIN wire[k] : wire[k][i] < e
  BY <1>2, <1>3, <1>5 DEF Before
<1>7. /\ w \in Seq(Nat) /\ Increasing(w)
      /\ \A j \in DOMAIN w : w[j] = e \/ (j \in DOMAIN wire[k] /\ w[j] = wire[k][j])
  <2>1. CASE alive[k]
    BY <1>1, <1>2, <1>3, <1>4, <1>6, <2>1, AppendTo
  <2>2. CASE ~alive[k]
    BY <1>1, <1>2, <1>4, <2>2
  <2> QED
    BY <2>1, <2>2, Zenon
<1>8. Among(q, 1 .. published) /\ Among(w, 0 .. published)
  <2>1. \A n \in 1 .. published : n \in 0 .. published
    OBVIOUS
  <2>2. Among(q, 1 .. published)
    BY <1>2, <1>3 DEF Among
  <2>3. Among(w, 0 .. published)
    BY <1>2, <1>5, <1>7, <2>1 DEF Among
  <2> QED
    BY <2>2, <2>3
<1>9. Before(w, q)
  <2> SUFFICES ASSUME NEW i \in DOMAIN w, NEW j \in DOMAIN q, q[j] # Torn PROVE w[i] < q[j]
    BY DEF Before
  <2>1. CASE w[i] = e
    BY <1>3, <2>1
  <2>2. CASE i \in DOMAIN wire[k] /\ w[i] = wire[k][i]
    BY <1>2, <1>3, <2>2 DEF Before
  <2> QED
    BY <1>7, <2>1, <2>2
<1>10. ASSUME NEW l \in Conns
       PROVE  /\ Increasing(queue'[l]) /\ Among(queue'[l], 1 .. published)
              /\ Increasing(wire'[l]) /\ Among(wire'[l], 0 .. published)
              /\ Before(wire'[l], queue'[l])
              /\ handler[l] # "registered" => queue'[l] = <<>>
  <2>1. CASE l = k
    BY <1>2, <1>3, <1>4, <1>7, <1>8, <1>9, <2>1, Zenon
  <2>2. CASE l # k
    BY <1>4, <2>2 DEF PipeInv, InChannels
  <2> QED
    BY <2>1, <2>2, Zenon
<1>11. InChannels'
  BY <1>10 DEF InChannels
<1>12. ASSUME NEW g \in Goroutines, conn[g] \in Conns
       PROVE  Before(notified[g], wire'[conn[g]]) /\ Before(notified[g], queue'[conn[g]])
  <2>1. Before(notified[g], wire[conn[g]]) /\ Before(notified[g], queue[conn[g]])
    BY <1>12 DEF PipeInv, InFeeds
  <2>2. CASE conn[g] = k
    <3>1. \A i \in DOMAIN notified[g] : notified[g][i] < e
      BY <1>3, <1>5, <2>1, <2>2 DEF Before
    <3>2. Before(notified[g], w)
      BY <1>7, <2>1, <2>2, <3>1 DEF Before
    <3>3. Before(notified[g], q)
      BY <1>3, <2>1, <2>2 DEF Before
    <3> QED
      BY <1>4, <2>2, <3>2, <3>3, Zenon
  <2>3. CASE conn[g] # k
    BY <1>4, <1>12, <2>1, <2>3
  <2> QED
    BY <2>2, <2>3
<1>13. \A g \in Goroutines : Among(notified[g], 1 .. published)
  BY DEF PipeInv, InFeeds
<1>14. InFeeds'
  BY <1>12, <1>13 DEF InFeeds
<1>15. queue' \in [Conns -> Seq(Nat)] /\ wire' \in [Conns -> Seq(Nat)]
  <2>1. \A l \in Conns : queue'[l] \in Seq(Nat) /\ wire'[l] \in Seq(Nat)
    BY <1>1, <1>3, <1>4, <1>7
  <2> QED
    BY <1>1, <2>1
<1> QED
  BY <1>11, <1>14, <1>15

(* receiveV0 passes on the first event of the wire, which is newer than all *)
(* the goroutine has passed on before.                                      *)
LEMMA ReadKeeps ==
    ASSUME PipeInv, NEW g \in Goroutines, receiveV0(g)
    PROVE  /\ InChannels' /\ InFeeds'
           /\ wire' \in [Conns -> Seq(Nat)] /\ notified' \in [Goroutines -> Seq(Nat)]
           /\ \E e \in 1 .. published :
                 /\ \A i \in DOMAIN notified[g] : notified[g][i] < e
                 /\ notified' = [notified EXCEPT ![g] = Append(notified[g], e)]
<1> DEFINE k == conn[g]
           e == Head(wire[k])
           t == Tail(wire[k])
           n == Append(notified[g], e)
<1>1. /\ published' = published /\ handler' = handler /\ queue' = queue /\ conn' = conn
      /\ wire[k] # <<>> /\ e # Torn
      /\ notified' = [notified EXCEPT ![g] = n]
      /\ at[g] = "read"
  BY DEF receiveV0, serverVars, Go
<1>2. PICK rest \in Unread(t) : wire' = [wire EXCEPT ![k] = rest]
  BY Zenon DEF receiveV0
<1>3. /\ k \in Conns
      /\ wire \in [Conns -> Seq(Nat)] /\ notified \in [Goroutines -> Seq(Nat)]
      /\ wire[k] \in Seq(Nat) /\ notified[g] \in Seq(Nat)
  BY <1>1, Zenon DEF PipeInv, PipeTypes, Connected
<1> HIDE DEF k
<1>4. /\ Increasing(wire[k]) /\ Among(wire[k], 0 .. published)
      /\ Before(wire[k], queue[k])
  BY <1>3 DEF PipeInv, InChannels
<1>5. /\ Among(notified[g], 1 .. published)
      /\ Before(notified[g], wire[k])
      /\ Before(notified[g], queue[k])
  BY <1>3, SMTT(30) DEF PipeInv, InFeeds, k
<1>6. /\ e = wire[k][1] /\ 1 \in DOMAIN wire[k] /\ e \in Nat
      /\ t \in Seq(Nat) /\ Increasing(t)
      /\ \A j \in DOMAIN t : j + 1 \in DOMAIN wire[k] /\ t[j] = wire[k][j + 1]
      /\ \A j \in DOMAIN t : e < t[j]
  BY <1>1, <1>3, <1>4, TailOf
<1>7. notified'[g] = n /\ \A h \in Goroutines \ {g} : notified'[h] = notified[h]
  BY <1>1, <1>3
<1>8. wire'[k] = rest /\ \A l \in Conns \ {k} : wire'[l] = wire[l]
  BY <1>2, <1>3
<1> HIDE DEF e, t
<1>9. \A j \in DOMAIN t : t[j] \in Nat /\ t[j] > 0
  <2>1. \A j \in DOMAIN t : t[j] \in Nat
    BY <1>6
  <2> QED
    BY <1>6, <2>1
<1>10. /\ rest \in Seq(Nat) /\ Increasing(rest)
       /\ \A j \in DOMAIN rest : rest[j] = Torn \/ \E i \in DOMAIN t : rest[j] = t[i]
  BY <1>6, <1>9, UnreadOf
<1>11. \A j \in DOMAIN rest : \/ rest[j] = Torn
                             \/ /\ e < rest[j]
                                /\ \E i \in DOMAIN wire[k] : rest[j] = wire[k][i]
  BY <1>6, <1>10
<1>12. e \in 1 .. published
  <2>1. e \in 0 .. published
    BY <1>4, <1>6, SMTT(30) DEF Among
  <2> QED
    BY <1>1, <1>6, <2>1 DEF Torn
<1>13. \A i \in DOMAIN notified[g] : notified[g][i] < e
  BY <1>1, <1>5, <1>6 DEF Before
<1>14. /\ n \in Seq(Nat)
       /\ \A j \in DOMAIN n : n[j] = e \/ (j \in DOMAIN notified[g] /\ n[j] = notified[g][j])
  <2>1. Len(notified[g]) \in Nat /\ DOMAIN notified[g] = 1 .. Len(notified[g])
    BY <1>3
  <2>2. /\ n \in Seq(Nat) /\ DOMAIN n = 1 .. Len(notified[g]) + 1
        /\ \A j \in DOMAIN n : n[j] = IF j = Len(notified[g]) + 1 THEN e ELSE notified[g][j]
    BY <1>3, <1>6, <2>1
  <2> QED
    BY <2>1, <2>2
<1> HIDE DEF n
<1>15. Among(rest, 0 .. published) /\ Before(rest, queue[k])
  <2>0. published \in 0 .. MaxPublished
    BY Zenon DEF PipeInv, PipeTypes
  <2>1. Torn \in 0 .. published
    BY <2>0, PipeAssumption DEF Torn
  <2>2. Among(rest, 0 .. published)
    <3> SUFFICES ASSUME NEW j \in DOMAIN rest PROVE rest[j] \in 0 .. published
      BY DEF Among
    <3>1. CASE rest[j] = Torn
      BY <2>1, <3>1
    <3>2. CASE \E i \in DOMAIN wire[k] : rest[j] = wire[k][i]
      BY <1>4, <3>2 DEF Among
    <3> QED
      BY <1>11, <3>1, <3>2
  <2>3. ASSUME NEW i \in DOMAIN rest, NEW j \in DOMAIN queue[k], queue[k][j] # Torn
        PROVE  rest[i] < queue[k][j]
    <3>1. wire[k][1] < queue[k][j] /\ wire[k][1] \in Nat
      BY <1>4, <1>6, <2>3 DEF Before
    <3>2. queue[k][j] \in Nat
      <4>1. queue \in [Conns -> Seq(Nat)]
        BY Zenon DEF PipeInv, PipeTypes
      <4>2. queue[k] \in Seq(Nat)
        BY <1>3, <4>1
      <4> QED
        BY <2>3, <4>2
    <3>3. CASE rest[i] = Torn
      BY <3>1, <3>2, <3>3 DEF Torn
    <3>4. CASE \E h \in DOMAIN wire[k] : rest[i] = wire[k][h]
      BY <1>4, <2>3, <3>4 DEF Before
    <3> QED
      BY <1>11, <3>3, <3>4
  <2> QED
    BY <2>2, <2>3 DEF Before
<1>16. ASSUME NEW l \in Conns
       PROVE  /\ Increasing(wire'[l]) /\ Among(wire'[l], 0 .. published)
              /\ Before(wire'[l], queue[l])
  <2>1. CASE l = k
    BY <1>8, <1>10, <1>15, <2>1
  <2>2. CASE l # k
    BY <1>8, <2>2 DEF PipeInv, InChannels
  <2> QED
    BY <2>1, <2>2
<1>17. InChannels'
  <2>1. \A l \in Conns : /\ Increasing(queue[l]) /\ Among(queue[l], 1 .. published)
                         /\ handler[l] # "registered" => queue[l] = <<>>
    BY DEF PipeInv, InChannels
  <2> QED
    BY <1>1, <1>16, <2>1 DEF InChannels
<1>18. Among(n, 1 .. published) /\ Before(n, rest) /\ Before(n, queue[k])
  <2>1. Among(n, 1 .. published)
    BY <1>5, <1>12, <1>14 DEF Among
  <2>2. Before(n, rest)
    BY <1>5, <1>11, <1>14 DEF Before
  <2>3. Before(n, queue[k])
    BY <1>4, <1>5, <1>6, <1>14, ZenonT(40) DEF Before
  <2> QED
    BY <2>1, <2>2, <2>3
<1>19. ASSUME NEW h \in Goroutines
       PROVE  /\ Among(notified'[h], 1 .. published)
              /\ conn[h] \in Conns => /\ Before(notified'[h], wire'[conn[h]])
                                      /\ Before(notified'[h], queue[conn[h]])
  <2>1. CASE h = g
    BY <1>7, <1>8, <1>18, <2>1 DEF k
  <2>2. CASE h # g
    <3>1. /\ Among(notified[h], 1 .. published)
          /\ conn[h] \in Conns => /\ Before(notified[h], wire[conn[h]])
                                  /\ Before(notified[h], queue[conn[h]])
      BY Zenon DEF PipeInv, InFeeds
    <3>2. CASE conn[h] = k
      <4>1. Before(notified[h], rest)
        BY <1>3, <1>11, <3>1, <3>2, SMTT(60) DEF Before
      <4> QED
        BY <1>7, <1>8, <2>2, <3>1, <3>2, <4>1, SMTT(30)
    <3>3. CASE conn[h] # k
      BY <1>7, <1>8, <2>2, <3>1, <3>3
    <3> QED
      BY <3>2, <3>3
  <2> QED
    BY <2>1, <2>2
<1>20. InFeeds'
  BY <1>1, <1>19 DEF InFeeds
<1>21. wire' \in [Conns -> Seq(Nat)] /\ notified' \in [Goroutines -> Seq(Nat)]
  BY <1>1, <1>2, <1>3, <1>10, <1>14
<1> QED
  BY <1>1, <1>12, <1>13, <1>17, <1>20, <1>21, Zenon DEF n

-----------------------------------------------------------------------------
(* The other steps *)

LEMMA OrderStep == PipeInv /\ PipeNext => InChannels' /\ InFeeds'
<1> USE PipeAssumption
<1> SUFFICES ASSUME PipeInv, PipeNext PROVE InChannels' /\ InFeeds'
  OBVIOUS
<1>1. PipeTypes /\ InChannels
  BY DEF PipeInv
<1>2. /\ queue \in [Conns -> Seq(Nat)] /\ wire \in [Conns -> Seq(Nat)]
      /\ conn \in [Goroutines -> Conns \cup {0}]
      /\ handler \in [Conns -> {"none", "accepted", "registered"}]
      /\ at \in [Goroutines -> {"unborn", "new", "top", "status", "read", "exit", "end"}]
      /\ <<>> \in Seq(Nat)
      /\ \A k \in Conns : handler[k] # "registered" => queue[k] = <<>>
  <2>1. <<>> \in Seq(Nat)
    OBVIOUS
  <2> QED
    BY <1>1, <2>1, Zenon DEF PipeTypes, InChannels
<1>3. CASE SetServer
  <2>1. Emptied
    BY <1>2, <1>3, ZenonT(60) DEF Emptied, SetServer, goVars
  <2> QED
    BY <2>1, EmptiedKeeps
<1>4. CASE transmitEvent
  BY <1>4, TransmitKeeps
<1>5. CASE updateNotifierList
  <2>1. Emptied
    BY <1>2, <1>5 DEF Emptied, updateNotifierList, serverVars, netVars
  <2> QED
    BY <2>1, EmptiedKeeps
<1>6. ASSUME NEW k \in Conns, handleConnection(k) \/ BreakConn(k)
      PROVE  InChannels' /\ InFeeds'
  <2>1. CASE BreakConn(k) \/ Register(k)
    <3>1. Emptied
      BY <1>2, <2>1 DEF Emptied, BreakConn, Register, serverVars, netVars, goVars
    <3> QED
      BY <3>1, EmptiedKeeps
  <2>2. ASSUME Leave(k), UNCHANGED <<wire, published, conn, notified>>
        PROVE  InChannels' /\ InFeeds'
    <3>1. Emptied
      BY <1>2, <2>2 DEF Emptied, Leave
    <3> QED
      BY <3>1, EmptiedKeeps
  <2>3. CASE getCloseNotifier(k)
    BY <2>2, <2>3 DEF getCloseNotifier, goVars
  <2>4. CASE transmitV0(k)
    <3>1. UNCHANGED <<published, conn, notified>> /\ queue[k] # <<>>
      BY <2>4 DEF transmitV0, goVars
    <3>2. CASE Leave(k) /\ UNCHANGED wire
      BY <2>2, <3>1, <3>2
    <3>3. CASE /\ queue' = [queue EXCEPT ![k] = Tail(queue[k])]
               /\ wire' = [wire EXCEPT ![k] =
                              IF alive[k] THEN Append(wire[k], Head(queue[k])) ELSE wire[k]]
               /\ handler' = handler
      BY <3>1, <3>3, WriteKeeps, Zenon
    <3> QED
      BY <2>4, <3>2, <3>3 DEF transmitV0
  <2> QED
    BY <1>6, <2>1, <2>3, <2>4 DEF handleConnection
<1>7. ASSUME NEW g \in Goroutines, startMonitoring(g)
      PROVE  InChannels' /\ InFeeds'
  <2>1. CASE \/ NotYetProbed(g) \/ checkForEvent(g) \/ DialFails(g) \/ setKeymasterStatus(g)
             \/ ReceiveFails(g) \/ HelperTakes(g)
    <3>1. UNCHANGED <<published, handler, queue, wire, conn, notified>>
      BY <2>1, Zenon DEF NotYetProbed, checkForEvent, DialFails, setKeymasterStatus, ReceiveFails,
         HelperTakes, serverVars, netVars
    <3>2. Emptied
      BY <1>2, <3>1 DEF Emptied
    <3> QED
      BY <3>2, EmptiedKeeps
  <2>2. CASE DialOk(g)
    <3>1. PICK k \in Conns :
             /\ handler[k] = "none"
             /\ conn' = [conn EXCEPT ![g] = k]
             /\ handler' = [handler EXCEPT ![k] = "accepted"]
             /\ wire' = [wire EXCEPT ![k] = <<>>]
      BY <2>2, Zenon DEF DialOk, Free
    <3>2. UNCHANGED <<published, queue, notified>> /\ queue[k] = <<>>
      BY <1>2, <2>2, <3>1 DEF DialOk
    <3>3. Emptied
      BY <1>2, <3>1, <3>2 DEF Emptied
    <3> QED
      BY <3>3, EmptiedKeeps
  <2>3. CASE Forget(g) \/ Exit(g)
    <3>1. /\ UNCHANGED <<published, handler, queue, notified>>
          /\ conn' = [conn EXCEPT ![g] = 0]
          /\ wire' = [wire EXCEPT ![conn[g]] = <<>>]
      BY <2>3 DEF Forget, Exit, serverVars
    <3>2. Emptied
      BY <1>2, <3>1, Zenon DEF Emptied
    <3> QED
      BY <3>2, EmptiedKeeps
  <2>4. CASE receiveV0(g)
    BY <2>4, ReadKeeps
  <2> QED
    BY <1>7, <2>1, <2>2, <2>3, <2>4 DEF startMonitoring
<1>8. CASE newMonitor
  <2>1. /\ UNCHANGED <<published, handler, queue, notified>>
        /\ conn' = [g \in Goroutines |-> 0] /\ wire' = [k \in Conns |-> <<>>]
    BY <1>8, Zenon DEF newMonitor, serverVars
  <2>2. Emptied
    BY <1>2, <2>1 DEF Emptied
  <2> QED
    BY <2>2, EmptiedKeeps
<1> QED
  BY <1>3, <1>4, <1>5, <1>6, <1>7, <1>8 DEF PipeNext, PipeSteps

(* PipeTypes, in two parts. *)
Plain ==
    /\ server \in {"down", "sealed", "ready"}
    /\ published \in 0 .. MaxPublished
    /\ handler \in [Conns -> {"none", "accepted", "registered"}]
    /\ alive \in [Conns -> BOOLEAN]
    /\ listed \in Goroutines \cup {0} /\ started \in Goroutines \cup {0}
    /\ alone \in [Goroutines -> BOOLEAN]
    /\ closeChannel \in [Goroutines -> BOOLEAN] /\ closedChannel \in [Goroutines -> BOOLEAN]
    /\ helper \in [Goroutines -> {"none", "waiting", "done"}]
    /\ conn \in [Goroutines -> Conns \cup {0}]
    /\ dialed \in [Goroutines -> Results]
    /\ at \in [Goroutines -> {"unborn", "new", "top", "status", "read", "exit", "end"}]
    /\ status \in Results \cup {Absent, "not yet probed"}

Sequenced ==
    /\ queue \in [Conns -> Seq(Nat)] /\ wire \in [Conns -> Seq(Nat)]
    /\ notified \in [Goroutines -> Seq(Nat)]
    /\ \A k \in Conns : Len(queue[k]) <= pipeLength

LEMMA TypesAre == PipeTypes <=> Plain /\ Sequenced
BY Zenon DEF PipeTypes, Plain, Sequenced

LEMMA PlainStep == PipeInv /\ PipeNext => Plain'
<1> USE PipeAssumption
<1> SUFFICES ASSUME PipeInv, PipeNext PROVE Plain'
  OBVIOUS
<1>1. Plain
  BY TypesAre, Zenon DEF PipeInv
<1> USE DEF Plain, Results
<1>2. CASE SetServer
  BY <1>1, <1>2, ZenonT(60) DEF SetServer, monitorVars, goVars
<1>3. CASE transmitEvent
  <2>1. /\ published < MaxPublished /\ published' = published + 1
        /\ UNCHANGED <<server, handler, netVars, monitorVars, goVars, status>>
    BY <1>3, Zenon DEF transmitEvent
  <2>2. published \in 0 .. MaxPublished
    BY <1>1, Zenon
  <2>3. published' \in 0 .. MaxPublished
    <3> HIDE DEF Plain
    <3> QED
      BY <2>1, <2>2
  <2> QED
    BY <1>1, <2>1, <2>3, Zenon DEF netVars, monitorVars, goVars
<1>4. CASE updateNotifierList
  <2>1. CASE Start
    BY <1>1, <1>4, <2>1, Zenon DEF updateNotifierList, Start, serverVars, netVars
  <2>2. CASE Unlist
    BY <1>1, <1>4, <2>2, Zenon DEF updateNotifierList, Unlist, serverVars, netVars
  <2> QED
    BY <1>4, <2>1, <2>2, Zenon DEF updateNotifierList
<1>5. ASSUME NEW k \in Conns, handleConnection(k) \/ BreakConn(k) PROVE Plain'
  <2>1. CASE BreakConn(k) \/ Register(k) \/ getCloseNotifier(k)
    BY <1>1, <2>1, ZenonT(40) DEF BreakConn, Register, getCloseNotifier, Leave, serverVars, netVars,
       monitorVars, goVars
  <2>2. CASE transmitV0(k)
    <3>1. /\ UNCHANGED <<handler, alive>> \/ Leave(k)
          /\ UNCHANGED <<server, published, monitorVars, goVars, status>>
      BY <2>2, Zenon DEF transmitV0
    <3> QED
      BY <1>1, <3>1, Zenon DEF Leave, monitorVars, goVars
  <2> QED
    BY <1>5, <2>1, <2>2, Zenon DEF handleConnection
<1>6. ASSUME NEW g \in Goroutines, startMonitoring(g) PROVE Plain'
  <2> USE DEF Go, serverVars, netVars, monitorVars
  <2>1. CASE NotYetProbed(g) \/ checkForEvent(g) \/ DialFails(g)
    BY <1>1, <2>1, ZenonT(60) DEF NotYetProbed, checkForEvent, DialFails
  <2>2. CASE setKeymasterStatus(g)
    BY <1>1, <2>2, Zenon DEF setKeymasterStatus
  <2>3. CASE DialOk(g)
    <3>1. PICK k \in Conns : /\ conn' = [conn EXCEPT ![g] = k]
                            /\ handler' = [handler EXCEPT ![k] = "accepted"]
                            /\ alive' = [alive EXCEPT ![k] = TRUE]
      BY <2>3, Zenon DEF DialOk
    <3>2. /\ at' = [at EXCEPT ![g] = "status"] /\ dialed' = [dialed EXCEPT ![g] = "ready"]
          /\ UNCHANGED <<server, published, listed, started, alone, closeChannel, closedChannel,
                         helper, status>>
      BY <2>3, Zenon DEF DialOk
    <3> QED
      BY <1>1, <3>1, <3>2, Zenon
  <2>4. CASE Forget(g) \/ Exit(g)
    BY <1>1, <2>4, ZenonT(60) DEF Forget, Exit
  <2>5. CASE receiveV0(g)
    BY <1>1, <2>5, Zenon DEF receiveV0
  <2>6. CASE ReceiveFails(g) \/ HelperTakes(g)
    BY <1>1, <2>6, ZenonT(60) DEF ReceiveFails, HelperTakes
  <2> QED
    BY <1>6, <2>1, <2>2, <2>3, <2>4, <2>5, <2>6, Zenon DEF startMonitoring
<1>7. CASE newMonitor
  BY <1>1, <1>7, Zenon DEF newMonitor, serverVars
<1> QED
  BY <1>2, <1>3, <1>4, <1>5, <1>6, <1>7, Zenon DEF PipeNext, PipeSteps

LEMMA SequencedStep == PipeInv /\ PipeNext => Sequenced'
<1> USE PipeAssumption
<1> SUFFICES ASSUME PipeInv, PipeNext PROVE Sequenced'
  OBVIOUS
<1>1. Sequenced
  BY TypesAre, Zenon DEF PipeInv
<1>2. /\ Len(<<>>) = 0 /\ <<>> \in Seq(Nat)
      /\ \A k \in Conns : queue[k] \in Seq(Nat) /\ Len(queue[k]) \in Nat
  BY <1>1 DEF Sequenced
<1>3. ASSUME queue' = queue \/ (\E k \in Conns : queue' = [queue EXCEPT ![k] = <<>>])
                \/ queue' = [k \in Conns |-> <<>>],
             wire' = wire \/ (\E g \in Goroutines : wire' = [wire EXCEPT ![conn[g]] = <<>>])
                \/ (\E k \in Conns : wire' = [wire EXCEPT ![k] = <<>>])
                \/ wire' = [k \in Conns |-> <<>>],
             notified' = notified
      PROVE  Sequenced'
  <2>1. queue' \in [Conns -> Seq(Nat)] /\ wire' \in [Conns -> Seq(Nat)]
    BY <1>1, <1>2, <1>3, ZenonT(40) DEF Sequenced
  <2>2. \A k \in Conns : queue'[k] = queue[k] \/ queue'[k] = <<>>
    BY <1>1, <1>3 DEF Sequenced
  <2>3. \A k \in Conns : Len(queue'[k]) <= pipeLength
    BY <1>1, <1>2, <2>2 DEF Sequenced
  <2> QED
    BY <1>1, <1>3, <2>1, <2>3 DEF Sequenced
<1>4. CASE SetServer \/ updateNotifierList
  BY <1>3, <1>4 DEF SetServer, updateNotifierList, serverVars, netVars
<1>5. CASE transmitEvent
  <2>1. queue' \in [Conns -> Seq(Nat)]
    BY <1>5, TransmitKeeps
  <2>2. published' \in Nat
    <3>1. Plain'
      BY PlainStep
    <3>2. published' \in 0 .. MaxPublished
      BY <3>1, Zenon DEF Plain
    <3> QED
      BY <3>2
  <2>3. ASSUME NEW k \in Conns PROVE Len(queue'[k]) <= pipeLength
    <3>1. Len(queue[k]) <= pipeLength
      BY <1>1 DEF Sequenced
    <3>2. Len(Append(queue[k], published')) = Len(queue[k]) + 1
      BY <1>2, <2>2
    <3>3. queue'[k] = IF handler[k] = "registered" /\ Len(queue[k]) < pipeLength
                      THEN Append(queue[k], published') ELSE queue[k]
      BY <1>5 DEF transmitEvent
    <3> QED
      BY <1>2, <3>1, <3>2, <3>3
  <2> QED
    BY <1>1, <1>5, <2>1, <2>3 DEF Sequenced, transmitEvent, netVars
<1>6. ASSUME NEW k \in Conns, handleConnection(k) \/ BreakConn(k) PROVE Sequenced'
  <2>1. CASE BreakConn(k) \/ Register(k) \/ getCloseNotifier(k)
    BY <1>3, <2>1 DEF BreakConn, Register, getCloseNotifier, Leave, serverVars, netVars
  <2>2. CASE transmitV0(k)
    <3>1. UNCHANGED <<published, conn, notified>> /\ queue[k] # <<>>
      BY <2>2 DEF transmitV0, goVars
    <3>2. CASE Leave(k) /\ UNCHANGED wire
      BY <1>3, <3>1, <3>2, Zenon DEF Leave
    <3>3. CASE /\ queue' = [queue EXCEPT ![k] = Tail(queue[k])]
               /\ wire' = [wire EXCEPT ![k] =
                              IF alive[k] THEN Append(wire[k], Head(queue[k])) ELSE wire[k]]
               /\ handler' = handler
      <4>1. queue' \in [Conns -> Seq(Nat)] /\ wire' \in [Conns -> Seq(Nat)]
        BY <3>1, <3>3, WriteKeeps, Zenon
      <4>2. Len(Tail(queue[k])) = Len(queue[k]) - 1
        BY <1>2, <3>1
      <4>3. \A l \in Conns : queue'[l] = IF l = k THEN Tail(queue[k]) ELSE queue[l]
        BY <1>1, <3>3 DEF Sequenced
      <4>4. \A l \in Conns : Len(queue[l]) <= pipeLength
        BY <1>1 DEF Sequenced
      <4>5. ASSUME NEW l \in Conns PROVE Len(queue'[l]) <= pipeLength
        <5>1. CASE l = k
          <6>1. queue'[l] = Tail(queue[k])
            BY <4>3, <5>1
          <6>2. Len(queue'[l]) = Len(queue[k]) - 1
            BY <4>2, <6>1
          <6> QED
            BY <1>2, <4>4, <6>2
        <5>2. CASE l # k
          BY <4>3, <4>4, <5>2
        <5> QED
          BY <5>1, <5>2
      <4> QED
        BY <1>1, <3>1, <4>1, <4>5 DEF Sequenced
    <3> QED
      BY <2>2, <3>2, <3>3 DEF transmitV0
  <2> QED
    BY <1>6, <2>1, <2>2 DEF handleConnection
<1>7. ASSUME NEW g \in Goroutines, startMonitoring(g) PROVE Sequenced'
  <2>1. CASE receiveV0(g)
    <3>1. wire' \in [Conns -> Seq(Nat)] /\ notified' \in [Goroutines -> Seq(Nat)]
      BY <2>1, <1>1, ReadKeeps, Zenon
    <3>2. queue' = queue
      BY <2>1, Zenon DEF receiveV0, serverVars
    <3> QED
      BY <1>1, <3>1, <3>2 DEF Sequenced
  <2>2. CASE ~receiveV0(g)
    BY <1>3, <1>7, <2>2, Zenon DEF startMonitoring, NotYetProbed, checkForEvent, DialOk, DialFails,
       setKeymasterStatus, Forget, ReceiveFails, Exit, HelperTakes, serverVars, netVars
  <2> QED
    BY <2>1, <2>2
<1>8. CASE newMonitor
  BY <1>3, <1>8 DEF newMonitor, serverVars
<1> QED
  BY <1>4, <1>5, <1>6, <1>7, <1>8 DEF PipeNext, PipeSteps

-----------------------------------------------------------------------------
(* Every step of the pipe keeps its invariant. *)
LEMMA PipeStep == PipeInv /\ [PipeNext]_pipeVars => PipeInv'
<1> SUFFICES ASSUME PipeInv, [PipeNext]_pipeVars PROVE PipeInv'
  OBVIOUS
<1>1. CASE PipeNext
  <2>1. PipeTypes'
    <3>1. Plain' /\ Sequenced'
      BY <1>1, PlainStep, SequencedStep
    <3> QED
      BY <3>1, Zenon DEF PipeTypes, Plain, Sequenced
  <2> QED
    BY <1>1, <2>1, ConnectedStep, OrderStep, ListingStep DEF PipeInv
<1>2. CASE UNCHANGED pipeVars
  <2>1. /\ UNCHANGED <<server, published, handler, queue, wire, alive, listed, started, alone>>
        /\ UNCHANGED <<closeChannel, closedChannel, helper, conn, dialed, at, status, notified>>
    BY <1>2, Zenon DEF pipeVars, serverVars, netVars, monitorVars, goVars
  <2>2. PipeTypes' /\ Connected'
    BY <2>1, Zenon DEF PipeInv, PipeTypes, Connected
  <2>3. InChannels' /\ InFeeds'
    BY <2>1, Zenon DEF PipeInv, InChannels, InFeeds
  <2>4. Listing'
    BY <2>1, Zenon DEF PipeInv, Listing
  <2> QED
    BY <2>2, <2>3, <2>4, Zenon DEF PipeInv
<1> QED
  BY <1>1, <1>2

THEOREM Invariance == PipeSpec => []PipeInv
BY InitInv, PipeStep, PTL DEF PipeSpec

(* Numbers that were published, in channels that are not overfull *)
LEMMA PipeTyped == PipeInv => PipeTypeOK
<1> SUFFICES ASSUME PipeInv PROVE PipeTypeOK
  OBVIOUS
<1>1. \A k \in Conns : Among(queue[k], 1 .. published) /\ Among(wire[k], 0 .. published)
  BY Zenon DEF PipeInv, InChannels
<1>2. \A k \in Conns : /\ Range(queue[k]) \subseteq 1 .. published
                       /\ Range(wire[k]) \subseteq 0 .. published
  BY <1>1, Zenon DEF Among, Range
<1> QED
  BY <1>2, Zenon DEF PipeInv, PipeTypes, PipeTypeOK

(***************************************************************************)
(* No transmitChannel ever holds more than pipeLength events, and what is  *)
(* in a channel or on a connection has been published                      *)
(* (eventnotifier/impl.go).                                                *)
(***************************************************************************)
THEOREM PipeTypeCorrect == PipeSpec => []PipeTypeOK
BY PipeTyped, Invariance, PTL

(***************************************************************************)
(* The goroutine of a listed address never waits for a helper that is gone *)
(* (the send on exitChannel in monitord/impl.go), and the status of an     *)
(* address whose goroutine is alone says ready while it reads.             *)
(***************************************************************************)
THEOREM Monitored == PipeSpec => []ListedIsMonitored
<1>1. PipeInv => ListedIsMonitored
  <2> SUFFICES ASSUME PipeInv PROVE ListedIsMonitored
    OBVIOUS
  <2>1. ASSUME listed # 0, at[listed] = "exit" PROVE helper[listed] = "waiting"
    <3>1. listed \in Goroutines
      BY <2>1, Zenon DEF PipeInv, PipeTypes
    <3> QED
      BY <2>1, <3>1 DEF PipeInv, Listing
  <2> QED
    BY <2>1, Zenon DEF PipeInv, Listing, ListedIsMonitored
<1> QED
  BY <1>1, Invariance, PTL

(***************************************************************************)
(* The pipe implements LossyFeed: each goroutine of the monitor gets each  *)
(* event at most once, and in the order of publication, although it has    *)
(* several connections one after the other, channels overflow, connections *)
(* break and the decoder of receiveV0 loses what it has read ahead.        *)
(***************************************************************************)
THEOREM FeedsOrdered == PipeSpec => FeedsInOrder
<1>1. PipeInit => Feed!Init
  BY DEF PipeInit, Feed!Init
<1>2. PipeInv /\ [PipeNext]_pipeVars =>
         [Feed!Publish \/ \E r \in Goroutines : Feed!Deliver(r)]_<<published, notified>>
  <2> SUFFICES ASSUME PipeInv, PipeNext,
                      ~UNCHANGED <<published, notified>>
               PROVE  Feed!Publish \/ \E r \in Goroutines : Feed!Deliver(r)
    BY Zenon DEF pipeVars, serverVars
  <2>1. CASE transmitEvent
    BY <2>1, Zenon DEF transmitEvent, Feed!Publish
  <2>2. ASSUME NEW g \in Goroutines, receiveV0(g) PROVE Feed!Deliver(g)
    <3>1. PICK e \in 1 .. published :
             /\ \A i \in DOMAIN notified[g] : notified[g][i] < e
             /\ notified' = [notified EXCEPT ![g] = Append(notified[g], e)]
      BY <2>2, ReadKeeps
    <3>2. published' = published
      BY <2>2, Zenon DEF receiveV0, serverVars
    <3> QED
      BY <3>1, <3>2, Zenon DEF Feed!Deliver
  <2>3. CASE SetServer \/ updateNotifierList
    BY <2>3, Zenon DEF SetServer, updateNotifierList, serverVars
  <2>4. ASSUME NEW k \in Conns, handleConnection(k) \/ BreakConn(k) PROVE FALSE
    BY <2>4, Zenon DEF handleConnection, BreakConn, Register, transmitV0, getCloseNotifier,
       serverVars
  <2>5. ASSUME NEW g \in Goroutines, startMonitoring(g), ~receiveV0(g) PROVE FALSE
    BY <2>5, Zenon DEF startMonitoring, NotYetProbed, checkForEvent, DialOk, DialFails,
       setKeymasterStatus, Forget, ReceiveFails, Exit, HelperTakes, serverVars
  <2>6. CASE newMonitor
    BY <2>6, Zenon DEF newMonitor, serverVars
  <2> QED
    BY <2>1, <2>2, <2>3, <2>4, <2>5, <2>6, Zenon DEF PipeNext, PipeSteps
<1> QED
  BY <1>1, <1>2, Invariance, PTL DEF PipeSpec, FeedsInOrder, Feed!Spec

-----------------------------------------------------------------------------
(* Goroutines that follow each other *)

(* What goroutine g has still to get is newer than every event of s. *)
Ahead(s, g) ==
    conn[g] \in Conns => Before(s, wire[conn[g]]) /\ Before(s, queue[conn[g]])

(* The events that are on their way to g stay so, whatever step is taken:   *)
(* they move on, they are lost, and those that are added are new.           *)
LEMMA AheadStep ==
    ASSUME PipeInv, PipeNext, NEW g \in Goroutines,
           NEW s, Among(s, 1 .. published), Ahead(s, g)
    PROVE  Ahead(s, g)'
<1> USE PipeAssumption
<1>1. /\ queue \in [Conns -> Seq(Nat)] /\ wire \in [Conns -> Seq(Nat)]
      /\ conn \in [Goroutines -> Conns \cup {0}] /\ published \in 0 .. MaxPublished
      /\ handler \in [Conns -> {"none", "accepted", "registered"}]
      /\ \A k \in Conns : handler[k] # "registered" => queue[k] = <<>>
  BY Zenon DEF PipeInv, PipeTypes, InChannels
<1>2. \A t : Before(t, <<>>)
  <2>1. DOMAIN <<>> = {}
    OBVIOUS
  <2> QED
    BY <2>1, Zenon DEF Before
<1>3. ASSUME conn'[g] = conn[g],
             conn[g] \in Conns =>
                /\ \A j \in DOMAIN wire'[conn[g]] :
                      \/ wire'[conn[g]][j] = Torn
                      \/ \E i \in DOMAIN wire[conn[g]] : wire'[conn[g]][j] = wire[conn[g]][i]
                      \/ \E i \in DOMAIN queue[conn[g]] : wire'[conn[g]][j] = queue[conn[g]][i]
                /\ \A j \in DOMAIN queue'[conn[g]] :
                      \/ queue'[conn[g]][j] = published + 1
                      \/ \E i \in DOMAIN queue[conn[g]] : queue'[conn[g]][j] = queue[conn[g]][i]
      PROVE  Ahead(s, g)'
  <2> SUFFICES ASSUME conn[g] \in Conns
               PROVE  Before(s, wire'[conn[g]]) /\ Before(s, queue'[conn[g]])
    BY <1>3, Zenon DEF Ahead
  <2>1. Before(s, wire[conn[g]]) /\ Before(s, queue[conn[g]])
    BY Zenon DEF Ahead
  <2>2. \A i \in DOMAIN s : s[i] < published + 1
    BY <1>1 DEF Among
  <2> DEFINE w == wire'[conn[g]]
             q == queue'[conn[g]]
             v == wire[conn[g]]
             r == queue[conn[g]]
  <2>3. /\ \A j \in DOMAIN w : \/ w[j] = Torn \/ \E i \in DOMAIN v : w[j] = v[i]
                              \/ \E i \in DOMAIN r : w[j] = r[i]
        /\ \A j \in DOMAIN q : q[j] = published + 1 \/ \E i \in DOMAIN r : q[j] = r[i]
    BY <1>3, Zenon
  <2>4. Before(s, v) /\ Before(s, r)
    BY <2>1
  <2> HIDE DEF w, q, v, r
  <2>5. Before(s, w)
    BY <2>3, <2>4 DEF Before
  <2>6. Before(s, q)
    BY <2>2, <2>3, <2>4 DEF Before
  <2> QED
    BY <2>5, <2>6, Zenon DEF w, q
<1>4. ASSUME conn' = conn, queue' = queue, wire' = wire PROVE Ahead(s, g)'
  BY <1>4, Zenon DEF Ahead
<1>5. ASSUME conn'[g] \notin Conns PROVE Ahead(s, g)'
  BY <1>5, Zenon DEF Ahead
<1>6. ASSUME conn'[g] \in Conns => wire'[conn'[g]] = <<>> /\ queue'[conn'[g]] = <<>>
      PROVE  Ahead(s, g)'
  BY <1>2, <1>6, Zenon DEF Ahead
<1>7. ASSUME conn'[g] = conn[g],
             conn[g] \in Conns =>
                /\ wire'[conn[g]] = wire[conn[g]] \/ wire'[conn[g]] = <<>>
                /\ queue'[conn[g]] = queue[conn[g]] \/ queue'[conn[g]] = <<>>
      PROVE  Ahead(s, g)'
  BY <1>2, <1>7, Zenon DEF Ahead
<1>8. CASE SetServer
  <2>1. /\ conn' = conn /\ wire' = wire
        /\ queue' = queue \/ queue' = [k \in Conns |-> <<>>]
    BY <1>8, Zenon DEF SetServer, goVars
  <2> QED
    BY <1>7, <2>1
<1>9. CASE transmitEvent
  <2>1. conn' = conn /\ wire' = wire /\ published' = published + 1
    BY <1>9, Zenon DEF transmitEvent, netVars, goVars
  <2>2. \A k \in Conns : queue'[k] = IF handler[k] = "registered" /\ Len(queue[k]) < pipeLength
                                     THEN Append(queue[k], published + 1) ELSE queue[k]
    BY <1>9, <2>1 DEF transmitEvent
  <2>3. ASSUME NEW k \in Conns, NEW j \in DOMAIN queue'[k]
        PROVE  queue'[k][j] = published + 1 \/ \E i \in DOMAIN queue[k] : queue'[k][j] = queue[k][i]
    <3>1. CASE queue'[k] = queue[k]
      BY <2>3, <3>1
    <3>2. CASE queue'[k] = Append(queue[k], published + 1)
      <4>1. queue[k] \in Seq(Nat) /\ published + 1 \in Nat
        BY <1>1
      <4> DEFINE q == queue[k]
                 n == published + 1
      <4> HIDE DEF q, n
      <4>2. ASSUME NEW i \in DOMAIN Append(q, n), q \in Seq(Nat), n \in Nat
            PROVE  Append(q, n)[i] = n \/ (i \in DOMAIN q /\ Append(q, n)[i] = q[i])
        <5>1. Len(q) \in Nat /\ DOMAIN q = 1 .. Len(q) /\ DOMAIN Append(q, n) = 1 .. Len(q) + 1
          BY <4>2
        <5> QED
          BY <4>2, <5>1
      <4> QED
        BY <2>3, <3>2, <4>1, <4>2 DEF q, n
    <3> QED
      BY <2>2, <3>1, <3>2, Zenon
  <2> QED
    BY <1>3, <2>1, <2>3, Zenon
<1>10. CASE updateNotifierList
  BY <1>4, <1>10, Zenon DEF updateNotifierList, serverVars, netVars
<1>11. ASSUME NEW k \in Conns, handleConnection(k) \/ BreakConn(k) PROVE Ahead(s, g)'
  <2>1. CASE BreakConn(k) \/ Register(k)
    BY <1>4, <2>1, Zenon DEF BreakConn, Register, serverVars, netVars, goVars
  <2>2. ASSUME Leave(k), UNCHANGED <<wire, conn>> PROVE Ahead(s, g)'
    <3>1. \A l \in Conns : queue'[l] = queue[l] \/ queue'[l] = <<>>
      BY <1>1, <2>2 DEF Leave
    <3> QED
      BY <1>7, <2>2, <3>1, Zenon
  <2>3. CASE getCloseNotifier(k)
    BY <2>2, <2>3, Zenon DEF getCloseNotifier, goVars
  <2>4. CASE transmitV0(k)
    <3>1. UNCHANGED conn /\ queue[k] # <<>>
      BY <2>4, Zenon DEF transmitV0, goVars
    <3>2. CASE Leave(k) /\ UNCHANGED wire
      BY <2>2, <3>1, <3>2, Zenon
    <3>3. CASE /\ queue' = [queue EXCEPT ![k] = Tail(queue[k])]
               /\ wire' = [wire EXCEPT ![k] =
                              IF alive[k] THEN Append(wire[k], Head(queue[k])) ELSE wire[k]]
      <4> DEFINE q == queue[k]
                 v == wire[k]
      <4>1. /\ queue'[k] = Tail(q) /\ wire'[k] = (IF alive[k] THEN Append(v, Head(q)) ELSE v)
            /\ \A l \in Conns \ {k} : queue'[l] = queue[l] /\ wire'[l] = wire[l]
            /\ q \in Seq(Nat) /\ v \in Seq(Nat) /\ q # <<>>
        BY <1>1, <3>1, <3>3
      <4>2. Increasing(q)
        BY Zenon DEF PipeInv, InChannels
      <4> HIDE DEF q, v
      <4>3. /\ 1 \in DOMAIN q /\ Head(q) = q[1] /\ Head(q) \in Nat
            /\ \A j \in DOMAIN Tail(q) : j + 1 \in DOMAIN q /\ Tail(q)[j] = q[j + 1]
        BY <4>1, <4>2, TailOf
      <4>4. ASSUME NEW j \in DOMAIN Append(v, Head(q))
            PROVE  \/ Append(v, Head(q))[j] = q[1]
                   \/ j \in DOMAIN v /\ Append(v, Head(q))[j] = v[j]
        <5>1. Len(v) \in Nat /\ DOMAIN v = 1 .. Len(v) /\ DOMAIN Append(v, Head(q)) = 1 .. Len(v) + 1
          BY <4>1, <4>3
        <5>2. v \in Seq(Nat) /\ Head(q) = q[1] /\ Head(q) \in Nat
          BY <4>1, <4>3, Zenon
        <5>3. CASE j = Len(v) + 1
          BY <5>1, <5>2, <5>3
        <5>4. CASE j # Len(v) + 1
          BY <5>1, <5>2, <5>4
        <5> QED
          BY <5>3, <5>4, Zenon
      <4>5. \A j \in DOMAIN wire'[k] : \/ \E i \in DOMAIN v : wire'[k][j] = v[i]
                                      \/ \E i \in DOMAIN q : wire'[k][j] = q[i]
        <5>1. CASE alive[k]
          <6>1. wire'[k] = Append(v, Head(q))
            BY <4>1, <5>1
          <6> QED
            BY <4>3, <4>4, <6>1, Zenon
        <5>2. CASE ~alive[k]
          <6>1. wire'[k] = v
            BY <4>1, <5>2
          <6> QED
            BY <6>1, Zenon
        <5> QED
          BY <5>1, <5>2, Zenon
      <4>6. \A j \in DOMAIN queue'[k] : \E i \in DOMAIN q : queue'[k][j] = q[i]
        <5>1. queue'[k] = Tail(q) /\ \A j \in DOMAIN Tail(q) : j + 1 \in DOMAIN q /\ Tail(q)[j] = q[j + 1]
          BY <4>1, <4>3, Zenon
        <5> QED
          BY <5>1, Zenon
      <4>7. CASE conn[g] = k
        BY <1>3, <3>1, <4>5, <4>6, <4>7, ZenonT(40) DEF q, v
      <4>8. CASE conn[g] # k
        BY <1>7, <3>1, <4>1, <4>8, Zenon
      <4> QED
        BY <4>7, <4>8, Zenon
    <3> QED
      BY <2>4, <3>2, <3>3, Zenon DEF transmitV0
  <2> QED
    BY <1>11, <2>1, <2>3, <2>4, Zenon DEF handleConnection
<1>12. ASSUME NEW h \in Goroutines, startMonitoring(h) PROVE Ahead(s, g)'
  <2>1. CASE \/ NotYetProbed(h) \/ checkForEvent(h) \/ DialFails(h) \/ setKeymasterStatus(h)
             \/ ReceiveFails(h) \/ HelperTakes(h)
    BY <1>4, <2>1, Zenon DEF NotYetProbed, checkForEvent, DialFails, setKeymasterStatus,
       ReceiveFails, HelperTakes, serverVars, netVars
  <2>2. CASE DialOk(h)
    <3>1. PICK k \in Conns : /\ handler[k] = "none"
                             /\ conn' = [conn EXCEPT ![h] = k]
                             /\ wire' = [wire EXCEPT ![k] = <<>>]
      BY <2>2, Zenon DEF DialOk, Free
    <3>2. queue' = queue /\ queue[k] = <<>>
      BY <1>1, <2>2, <3>1 DEF DialOk
    <3>3. CASE g = h
      BY <1>1, <1>6, <3>1, <3>2, <3>3
    <3>4. CASE g # h
      BY <1>1, <1>7, <3>1, <3>2, <3>4
    <3> QED
      BY <3>3, <3>4, Zenon
  <2>3. CASE Forget(h) \/ Exit(h)
    <3>1. /\ queue' = queue /\ conn' = [conn EXCEPT ![h] = 0]
          /\ wire' = [wire EXCEPT ![conn[h]] = <<>>]
      BY <2>3, Zenon DEF Forget, Exit, serverVars
    <3>2. CASE g = h
      BY <1>1, <1>5, <3>1, <3>2
    <3>3. CASE g # h
      BY <1>1, <1>7, <3>1, <3>3
    <3> QED
      BY <3>2, <3>3, Zenon
  <2>4. CASE receiveV0(h)
    <3> DEFINE k == conn[h]
               t == Tail(wire[k])
    <3>1. at[h] = "read" /\ wire[k] # <<>> /\ queue' = queue /\ conn' = conn
      BY <2>4, Zenon DEF receiveV0, Go, serverVars
    <3>2. PICK rest \in Unread(t) : wire' = [wire EXCEPT ![k] = rest]
      BY <2>4, Zenon DEF receiveV0
    <3>3. k \in Conns
      BY <3>1, Zenon DEF PipeInv, Connected
    <3> HIDE DEF k
    <3>4. Increasing(wire[k]) /\ wire[k] \in Seq(Nat)
      BY <1>1, <3>3 DEF PipeInv, InChannels
    <3>5. /\ t \in Seq(Nat) /\ Increasing(t) /\ Head(wire[k]) \in Nat
          /\ \A j \in DOMAIN t : j + 1 \in DOMAIN wire[k] /\ t[j] = wire[k][j + 1]
          /\ \A j \in DOMAIN t : Head(wire[k]) < t[j]
      BY <3>1, <3>4, TailOf DEF k
    <3>6. wire'[k] = rest /\ \A l \in Conns \ {k} : wire'[l] = wire[l]
      BY <1>1, <3>2, <3>3
    <3> HIDE DEF t
    <3>7. \A j \in DOMAIN t : t[j] > 0
      <4>1. \A j \in DOMAIN t : t[j] \in Nat
        BY <3>5
      <4> QED
        BY <3>5, <4>1
    <3>8. \A j \in DOMAIN rest : rest[j] = Torn \/ \E i \in DOMAIN t : rest[j] = t[i]
      BY <3>5, <3>7, UnreadOf
    <3>9. \A j \in DOMAIN wire'[k] :
             wire'[k][j] = Torn \/ \E i \in DOMAIN wire[k] : wire'[k][j] = wire[k][i]
      <4>1. \A j \in DOMAIN rest : rest[j] = Torn \/ \E i \in DOMAIN wire[k] : rest[j] = wire[k][i]
        BY <3>5, <3>8
      <4> QED
        BY <3>6, <4>1, Zenon
    <3>10. CASE conn[g] = k
      BY <1>3, <3>1, <3>9, <3>10, Zenon
    <3>11. CASE conn[g] # k
      BY <1>7, <3>1, <3>6, <3>11, Zenon
    <3> QED
      BY <3>10, <3>11, Zenon
  <2> QED
    BY <1>12, <2>1, <2>2, <2>3, <2>4, Zenon DEF startMonitoring
<1>13. CASE newMonitor
  <2>1. conn'[g] = 0
    BY <1>13 DEF newMonitor
  <2> QED
    BY <1>5, <2>1
<1> QED
  BY <1>8, <1>9, <1>10, <1>11, <1>12, <1>13, Zenon DEF PipeNext, PipeSteps

(***************************************************************************)
(* A goroutine that is not started has nothing; one that was started alone *)
(* has only stopped ones before it, and gets what comes after theirs.      *)
(***************************************************************************)
Succession ==
    \A g \in Goroutines :
        /\ at[g] = "unborn" => conn[g] = 0 /\ notified[g] = <<>>
        /\ alone[g] /\ at[g] # "unborn" =>
              \A h \in Goroutines : h < g =>
                  /\ at[h] = "end"
                  /\ Before(notified[h], notified[g]) /\ Ahead(notified[h], g)

LEMMA SuccessionInit == PipeInit => Succession
BY Zenon DEF PipeInit, Succession

(* Only Start makes a goroutine, only receiveV0 adds to what one has got,   *)
(* and one that has stopped stays so.                                       *)
LEMMA StepsOfOne ==
    ASSUME PipeInv, PipeNext, NEW g \in Goroutines
    PROVE  /\ at[g] = "end" => at'[g] = "end"
           /\ at'[g] = "unborn" => at[g] = "unborn" /\ (conn[g] = 0 => conn'[g] = 0)
           /\ notified'[g] = notified[g] \/ (at[g] = "read" /\ receiveV0(g))
           /\ alone'[g] = alone[g] \/ at[g] = "unborn"
           /\ at[g] = "unborn" /\ at'[g] # "unborn" =>
                 /\ started \in Nat /\ g = started + 1 /\ conn'[g] = conn[g]
                 /\ alone'[g] => \A h \in 1 .. started : at[h] = "end"
<1> USE PipeAssumption
<1>1. /\ at \in [Goroutines -> {"unborn", "new", "top", "status", "read", "exit", "end"}]
      /\ conn \in [Goroutines -> Conns \cup {0}] /\ alone \in [Goroutines -> BOOLEAN]
      /\ notified \in [Goroutines -> Seq(Nat)] /\ started \in Goroutines \cup {0}
  BY Zenon DEF PipeInv, PipeTypes
<1>2. started \in Nat /\ (g > started => at[g] = "unborn")
  <2>1. g > started => at[g] = "unborn"
    BY Zenon DEF PipeInv, Listing
  <2> QED
    BY <1>1, <2>1
<1>3. CASE /\ at'[g] = at[g] /\ conn'[g] = conn[g] /\ notified'[g] = notified[g]
           /\ alone'[g] = alone[g]
  BY <1>3, Zenon
<1>4. CASE SetServer \/ transmitEvent
  BY <1>3, <1>4, Zenon DEF SetServer, transmitEvent, goVars, monitorVars
<1>5. CASE updateNotifierList
  <2>1. conn' = conn /\ notified' = notified
    BY <1>5, Zenon DEF updateNotifierList
  <2>2. CASE Start
    <3> DEFINE n == started + 1
    <3>1. /\ at' = [at EXCEPT ![n] = "new"]
          /\ alone' = [alone EXCEPT ![n] = \A h \in 1 .. started : at[h] = "end"]
      BY <2>2, Zenon DEF Start
    <3>2. n \in Nat /\ n > started
      BY <1>2
    <3> HIDE DEF n
    <3>3. CASE g = n
      <4>1. at'[g] = "new" /\ at[g] = "unborn"
        BY <1>1, <1>2, <3>1, <3>2, <3>3
      <4>2. alone'[g] => \A h \in 1 .. started : at[h] = "end"
        BY <1>1, <3>1, <3>3, Zenon
      <4>3. g = started + 1
        BY <3>3 DEF n
      <4> QED
        BY <1>2, <2>1, <4>1, <4>2, <4>3, Zenon
    <3>4. CASE g # n
      <4>1. at'[g] = at[g]
        BY <1>1, <3>1, <3>4
      <4>2. alone'[g] = alone[g]
        BY <1>1, <3>1, <3>4, Zenon
      <4> QED
        BY <1>3, <2>1, <4>1, <4>2, Zenon
    <3> QED
      BY <3>3, <3>4, Zenon
  <2>3. CASE Unlist
    BY <1>3, <2>1, <2>3, Zenon DEF Unlist
  <2> QED
    BY <1>5, <2>2, <2>3, Zenon DEF updateNotifierList
<1>6. ASSUME NEW k \in Conns, handleConnection(k) \/ BreakConn(k)
      PROVE  UNCHANGED <<at, conn, notified, alone>>
  BY <1>6, Zenon DEF handleConnection, BreakConn, Register, transmitV0, getCloseNotifier,
     goVars, monitorVars
<1>7. ASSUME NEW h \in Goroutines, startMonitoring(h)
      PROVE  /\ alone' = alone
             /\ \/ at' = at /\ conn' = conn
                \/ /\ at[h] \notin {"unborn", "end"}
                   /\ \E to : to # "unborn" /\ at' = [at EXCEPT ![h] = to]
                   /\ conn' = conn \/ \E k : conn' = [conn EXCEPT ![h] = k]
             /\ \/ notified' = notified
                \/ /\ at[h] = "read" /\ receiveV0(h)
                   /\ notified' = [notified EXCEPT ![h] = Append(@, Head(wire[conn[h]]))]
  <2> USE DEF Go, monitorVars
  <2>1. CASE NotYetProbed(h) \/ checkForEvent(h) \/ DialFails(h) \/ ReceiveFails(h)
    BY <2>1, Zenon DEF NotYetProbed, checkForEvent, DialFails, ReceiveFails
  <2>2. CASE HelperTakes(h)
    BY <2>2, Zenon DEF HelperTakes
  <2>3. CASE setKeymasterStatus(h)
    <3>1. /\ at[h] = "status" /\ alone' = alone /\ conn' = conn /\ notified' = notified
          /\ at' = [at EXCEPT ![h] = IF dialed[h] = "ready" THEN "read" ELSE "top"]
      BY <2>3, Zenon DEF setKeymasterStatus
    <3>2. (IF dialed[h] = "ready" THEN "read" ELSE "top") # "unborn"
      OBVIOUS
    <3> QED
      BY <3>1, <3>2, Zenon
  <2>4. CASE DialOk(h) \/ Forget(h) \/ Exit(h)
    <3>1. /\ at[h] \in {"top", "read", "exit"} /\ alone' = alone /\ notified' = notified
          /\ \E to \in {"status", "end", "top"} : at' = [at EXCEPT ![h] = to]
          /\ \E k : conn' = [conn EXCEPT ![h] = k]
      BY <2>4, Zenon DEF DialOk, Forget, Exit
    <3> QED
      BY <3>1, Zenon
  <2>5. CASE receiveV0(h)
    <3>1. /\ at[h] = "read" /\ at' = [at EXCEPT ![h] = "read"] /\ alone' = alone /\ conn' = conn
          /\ notified' = [notified EXCEPT ![h] = Append(@, Head(wire[conn[h]]))]
      BY <2>5, Zenon DEF receiveV0
    <3> QED
      BY <2>5, <3>1, Zenon
  <2> QED
    BY <1>7, <2>1, <2>2, <2>3, <2>4, <2>5, Zenon DEF startMonitoring
<1>8. ASSUME NEW h \in Goroutines, startMonitoring(h) PROVE
         /\ alone'[g] = alone[g]
         /\ \/ at'[g] = at[g] /\ conn'[g] = conn[g]
            \/ at[g] \notin {"unborn", "end"} /\ at'[g] # "unborn"
         /\ notified'[g] = notified[g] \/ (at[g] = "read" /\ receiveV0(g))
  <2>1. alone'[g] = alone[g]
    BY <1>7, <1>8, Zenon
  <2>2. \/ at'[g] = at[g] /\ conn'[g] = conn[g]
        \/ at[g] \notin {"unborn", "end"} /\ at'[g] # "unborn"
    BY <1>1, <1>7, <1>8
  <2>3. notified'[g] = notified[g] \/ (at[g] = "read" /\ receiveV0(g))
    BY <1>1, <1>7, <1>8, Zenon
  <2> QED
    BY <2>1, <2>2, <2>3, Zenon
<1>9. CASE newMonitor
  <2>1. /\ at'[g] = IF at[g] = "unborn" THEN "unborn" ELSE "end"
        /\ conn'[g] = 0 /\ notified' = notified /\ alone' = alone
    BY <1>9 DEF newMonitor
  <2> QED
    BY <2>1
<1> QED
  BY <1>3, <1>4, <1>5, <1>6, <1>8, <1>9, Zenon DEF PipeNext, PipeSteps

(* What receiveV0 passes on is the first event of the wire. *)
LEMMA Received ==
    ASSUME PipeInv, NEW g \in Goroutines, receiveV0(g)
    PROVE  LET e == Head(wire[conn[g]])
               n == notified'[g]
           IN /\ e \in 1 .. published /\ n \in Seq(Nat)
              /\ \A j \in DOMAIN n : n[j] = e \/ (j \in DOMAIN notified[g] /\ n[j] = notified[g][j])
              /\ \A j \in DOMAIN notified[g] : j \in DOMAIN n /\ n[j] = notified[g][j]
              /\ Len(notified[g]) + 1 \in DOMAIN n /\ n[Len(notified[g]) + 1] = e
              /\ \A h \in Goroutines \ {g} : notified'[h] = notified[h]
              /\ \A i \in DOMAIN notified[g] : notified[g][i] < e
              /\ \A s : Ahead(s, g) => \A i \in DOMAIN s : s[i] < e
<1> DEFINE k == conn[g]
           w == wire[k]
           e == Head(w)
           m == notified[g]
<1>1. /\ w # <<>> /\ e # Torn /\ at[g] = "read"
      /\ notified' = [notified EXCEPT ![g] = Append(m, e)]
  BY Zenon DEF receiveV0, Go
<1>2. /\ wire \in [Conns -> Seq(Nat)] /\ notified \in [Goroutines -> Seq(Nat)]
      /\ published \in 0 .. MaxPublished
  BY Zenon DEF PipeInv, PipeTypes
<1>3. k \in Conns
  BY <1>1, Zenon DEF PipeInv, Connected
<1>4. w \in Seq(Nat) /\ m \in Seq(Nat)
  BY <1>2, <1>3
<1>5. notified'[g] = Append(m, e) /\ \A h \in Goroutines \ {g} : notified'[h] = notified[h]
  BY <1>1, <1>2
<1>6. Among(w, 0 .. published) /\ Increasing(w)
  BY <1>3, Zenon DEF PipeInv, InChannels
<1>7. Before(m, w)
  BY <1>3, Zenon DEF PipeInv, InFeeds
<1>8. ASSUME NEW s, Ahead(s, g) PROVE Before(s, w)
  BY <1>3, <1>8, Zenon DEF Ahead
<1> HIDE DEF k, w, m
<1>9. e = w[1] /\ 1 \in DOMAIN w /\ e \in Nat
  BY <1>1, <1>4, <1>6, TailOf
<1>10. e \in 1 .. published
  <2>1. e \in 0 .. published
    BY <1>6, <1>9, Zenon DEF Among
  <2> QED
    BY <1>1, <1>2, <1>9, <2>1, PipeAssumption DEF Torn
<1> HIDE DEF e
<1>11. \A s : Before(s, w) => \A i \in DOMAIN s : s[i] < e
  BY <1>1, <1>9, Zenon DEF Before
<1>12. Len(m) \in Nat /\ DOMAIN m = 1 .. Len(m)
  BY <1>4
<1>13. /\ Append(m, e) \in Seq(Nat) /\ DOMAIN Append(m, e) = 1 .. Len(m) + 1
       /\ \A j \in 1 .. Len(m) + 1 : Append(m, e)[j] = IF j = Len(m) + 1 THEN e ELSE m[j]
  BY <1>4, <1>9, <1>12
<1>14. /\ \A j \in 1 .. Len(m) + 1 : j = Len(m) + 1 \/ j \in 1 .. Len(m)
       /\ \A j \in 1 .. Len(m) : j \in 1 .. Len(m) + 1 /\ j # Len(m) + 1
       /\ Len(m) + 1 \in 1 .. Len(m) + 1
  BY <1>12
<1> DEFINE n == Append(m, e)
<1>15. /\ n \in Seq(Nat)
       /\ \A j \in DOMAIN n : n[j] = e \/ (j \in DOMAIN m /\ n[j] = m[j])
       /\ \A j \in DOMAIN m : j \in DOMAIN n /\ n[j] = m[j]
       /\ Len(m) + 1 \in DOMAIN n /\ n[Len(m) + 1] = e
  BY <1>12, <1>13, <1>14
<1>16. notified'[g] = n
  BY <1>5
<1> HIDE DEF n
<1>17. \A i \in DOMAIN m : m[i] < e
  BY <1>7, <1>11, Zenon
<1>18. \A s : Ahead(s, g) => \A i \in DOMAIN s : s[i] < e
  BY <1>8, <1>11, Zenon
<1> QED
  BY <1>5, <1>10, <1>15, <1>16, <1>17, <1>18, Zenon DEF e, w, k, m

LEMMA SuccessionStep == PipeInv /\ Succession /\ [PipeNext]_pipeVars => Succession'
<1> USE PipeAssumption
<1> SUFFICES ASSUME PipeInv, Succession, [PipeNext]_pipeVars PROVE Succession'
  OBVIOUS
<1>1. CASE UNCHANGED pipeVars
  <2>1. UNCHANGED <<at, conn, notified, alone, wire, queue>>
    BY <1>1, Zenon DEF pipeVars, serverVars, netVars, monitorVars, goVars
  <2> QED
    BY <2>1, Zenon DEF Succession, Ahead
<1>2. CASE PipeNext
  <2>0. DOMAIN <<>> = {} /\ \A h \in Goroutines : Among(notified[h], 1 .. published)
    <3>1. DOMAIN <<>> = {}
      OBVIOUS
    <3> QED
      BY <3>1, Zenon DEF PipeInv, InFeeds
  <2> SUFFICES ASSUME NEW g \in Goroutines
               PROVE  /\ at'[g] = "unborn" => conn'[g] = 0 /\ notified'[g] = <<>>
                      /\ alone'[g] /\ at'[g] # "unborn" =>
                            \A h \in Goroutines : h < g =>
                                /\ at'[h] = "end"
                                /\ Before(notified'[h], notified'[g])
                                /\ conn'[g] \in Conns => /\ Before(notified'[h], wire'[conn'[g]])
                                                         /\ Before(notified'[h], queue'[conn'[g]])
    BY Zenon DEF Succession, Ahead
  <2>1. ASSUME at'[g] = "unborn" PROVE conn'[g] = 0 /\ notified'[g] = <<>>
    <3>1. at[g] = "unborn" /\ (conn[g] = 0 => conn'[g] = 0)
      BY <1>2, <2>1, StepsOfOne
    <3>2. notified'[g] = notified[g] \/ at[g] = "read"
      BY <1>2, StepsOfOne
    <3>3. conn[g] = 0 /\ notified[g] = <<>>
      BY <3>1, Zenon DEF Succession
    <3> QED
      BY <3>1, <3>2, <3>3
  <2>2. ASSUME alone'[g], at'[g] # "unborn", NEW h \in Goroutines, h < g
        PROVE  /\ at'[h] = "end"
               /\ Before(notified'[h], notified'[g])
               /\ conn'[g] \in Conns => /\ Before(notified'[h], wire'[conn'[g]])
                                        /\ Before(notified'[h], queue'[conn'[g]])
    <3>1. at[h] = "end" => at'[h] = "end" /\ notified'[h] = notified[h]
      BY <1>2, StepsOfOne
    <3>2. CASE at[g] = "unborn"
      <4>1. /\ started \in Nat /\ g = started + 1 /\ conn'[g] = conn[g]
            /\ \A i \in 1 .. started : at[i] = "end"
        BY <1>2, <2>2, <3>2, StepsOfOne, Zenon
      <4>2. h \in 1 .. started
        BY <2>2, <4>1
      <4>3. at'[h] = "end"
        BY <3>1, <4>1, <4>2, Zenon
      <4>4. conn[g] = 0 /\ notified[g] = <<>>
        BY <3>2, Zenon DEF Succession
      <4>5. notified'[g] = notified[g] \/ at[g] = "read"
        BY <1>2, StepsOfOne
      <4>6. notified'[g] = <<>>
        BY <3>2, <4>4, <4>5
      <4>7. Before(notified'[h], notified'[g])
        BY <2>0, <4>6, Zenon DEF Before
      <4>8. conn'[g] \notin Conns
        BY <4>1, <4>4
      <4> QED
        BY <4>3, <4>7, <4>8, Zenon
    <3>3. CASE at[g] # "unborn"
      <4>1. alone'[g] = alone[g] \/ at[g] = "unborn"
        BY <1>2, StepsOfOne
      <4>2. alone[g]
        BY <2>2, <3>3, <4>1, Zenon
      <4>3. /\ at[h] = "end" /\ Before(notified[h], notified[g])
            /\ Ahead(notified[h], g)
        BY <2>2, <3>3, <4>2, Zenon DEF Succession
      <4>4. at'[h] = "end" /\ notified'[h] = notified[h]
        BY <3>1, <4>3, Zenon
      <4>5. conn'[g] \in Conns => /\ Before(notified[h], wire'[conn'[g]])
                                 /\ Before(notified[h], queue'[conn'[g]])
        <5>1. Among(notified[h], 1 .. published)
          BY <2>0, Zenon
        <5> QED
          BY <1>2, <4>3, <5>1, AheadStep, Zenon DEF Ahead
      <4>6. Before(notified[h], notified'[g])
        <5>1. CASE notified'[g] = notified[g]
          BY <4>3, <5>1, Zenon
        <5>2. CASE receiveV0(g)
          <6>1. PICK e : /\ \A j \in DOMAIN notified'[g] :
                                \/ notified'[g][j] = e
                                \/ j \in DOMAIN notified[g] /\ notified'[g][j] = notified[g][j]
                         /\ \A s : Ahead(s, g) => \A i \in DOMAIN s : s[i] < e
            BY <5>2, Received, Zenon
          <6>2. \A i \in DOMAIN notified[h] : notified[h][i] < e
            BY <4>3, <6>1, Zenon
          <6> QED
            BY <4>3, <6>1, <6>2, Zenon DEF Before
        <5> QED
          BY <1>2, <5>1, <5>2, StepsOfOne, Zenon
      <4> QED
        BY <4>4, <4>5, <4>6, Zenon
    <3> QED
      BY <3>2, <3>3, Zenon
  <2> QED
    BY <2>1, <2>2, Zenon
<1> QED
  BY <1>1, <1>2, Zenon

(* Goroutines that follow each other deliver nothing twice: by Succession. *)
LEMMA SucceedingFeeds == PipeInv /\ Succession => FeedsSucceed
<1> SUFFICES ASSUME PipeInv, Succession, NEW g \in Goroutines, NEW h \in Goroutines,
                    h < g, alone[g],
                    NEW m \in Range(notified[h]), NEW n \in Range(notified[g])
             PROVE  m < n
  BY Zenon DEF FeedsSucceed
<1>1. PICK i \in DOMAIN notified[h] : m = notified[h][i]
  BY Zenon DEF Range
<1>2. PICK j \in DOMAIN notified[g] : n = notified[g][j]
  BY Zenon DEF Range
<1>3. DOMAIN <<>> = {}
  OBVIOUS
<1>4. at[g] # "unborn"
  BY <1>2, <1>3, Zenon DEF Succession
<1>5. Before(notified[h], notified[g])
  BY <1>4, Zenon DEF Succession
<1>6. n # Torn
  <2>1. Among(notified[g], 1 .. published)
    BY Zenon DEF PipeInv, InFeeds
  <2>2. n \in 1 .. published
    BY <1>2, <2>1, Zenon DEF Among
  <2> QED
    BY <2>2 DEF Torn
<1> QED
  BY <1>1, <1>2, <1>5, <1>6, Zenon DEF Before

(***************************************************************************)
(* A goroutine of the monitor that is started when all others have stopped *)
(* passes on only what was published after all that they passed on,        *)
(* whatever was in channels and on connections when they stopped           *)
(* (startMonitoring in monitord/impl.go).                                  *)
(***************************************************************************)
THEOREM Successors == PipeSpec => []FeedsSucceed
<1>1. PipeSpec => []Succession
  BY SuccessionInit, SuccessionStep, Invariance, PTL DEF PipeSpec
<1> QED
  BY <1>1, SucceedingFeeds, Invariance, PTL
=============================================================================
