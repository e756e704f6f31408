---------------------------- MODULE EventRecorder ----------------------------
(***************************************************************************)
(* keymaster-eventmond from the channels of its monitor on: the main loop  *)
(* that relays events (cmd/keymaster-eventmond/main.go) and the recorder   *)
(* that keeps a month of them per user, lists them for the web page and    *)
(* saves them (eventmon/eventrecorder/impl.go).                            *)
(*                                                                         *)
(* Each type of event has a channel of its own, so events of different     *)
(* types may overtake each other.  eventLoop is one goroutine, and each of *)
(* its cases is one action.  Time is counted in hours; the save timer of   *)
(* five seconds fires at any moment after it was set, and every event sets *)
(* it again.  The process may be killed and started again at any time.     *)
(***************************************************************************)
EXTENDS Integers, Sequences, FiniteSetsExt

CONSTANTS
    Users, Types,
    CertLifetimes,   \* pairs: lifetime of a certificate, seconds until it is recorded
    durationMonth,   \* hours an event is kept
    bufferLength,    \* room in a channel
    MaxEvents,       \* bound: events that reach the monitor
    MaxTime,         \* bound: hours
    MaxRestarts      \* bound: how often the process is killed

ASSUME RecorderAssumption ==
    /\ durationMonth \in Nat \ {0} /\ bufferLength \in Nat \ {0}
    /\ MaxEvents \in Nat /\ MaxTime \in Nat /\ MaxRestarts \in Nat
    /\ \A cert \in CertLifetimes : cert \in Nat \X Nat /\ cert[2] <= cert[1]

VARIABLES
    now, hourDue,      \* the clock; has hourlyTimer fired?
    arrived,           \* events that reached the monitor
    monitorChannel, recorderChannel,
    relayed,           \* what the main loop has taken and not yet passed on
    eventsList,        \* user -> events, newest first
    lastEvents,        \* the listing eventLoop keeps for the next request
    file,              \* what saveEvents wrote last
    saveTimer,         \* is it running?
    saveFailed,        \* did the last save fail?
    restarts

channelVars == <<monitorChannel, recorderChannel, relayed>>
listVars == <<eventsList, lastEvents>>
saveVars == <<file, saveTimer, saveFailed>>
vars == <<now, hourDue, arrived, channelVars, listVars, saveVars, restarts>>

NoEvent == [id |-> 0]
NoListing == <<>>
Empty == [u \in Users |-> <<>>]
NoMessages == [t \in Types |-> <<>>]

(* CreateTime and the lifetime are filled in when the event is recorded;    *)
(* run is the number of restarts before that.                               *)
Messages == [id : 1 .. MaxEvents, user : Users, type : Types]
Events == [id : 1 .. MaxEvents, type : Types, CreateTime : 0 .. MaxTime,
           run : 0 .. MaxRestarts, issued : Nat, delay : Nat, LifetimeSeconds : Nat]

TypeOK ==
    /\ now \in 0 .. MaxTime /\ hourDue \in BOOLEAN
    /\ arrived \in 0 .. MaxEvents /\ restarts \in 0 .. MaxRestarts
    /\ \A t \in Types : \A c \in {monitorChannel[t], recorderChannel[t]} :
          c \in Seq(Messages) /\ Len(c) <= bufferLength /\ \A m \in Range(c) : m.type = t
    /\ relayed \in Messages \cup {NoEvent}
    /\ eventsList \in [Users -> Seq(Events)] /\ file \in [Users -> Seq(Events)]
    /\ lastEvents = NoListing \/ lastEvents \in [Users -> Seq(Events)]
    /\ saveTimer \in BOOLEAN /\ saveFailed \in BOOLEAN

(* getEventsList makes the listing only if there is none; in every state    *)
(* in which it is called lastEvents is NoListing or was made by it.         *)
getEventsList == IF lastEvents # NoListing THEN lastEvents ELSE eventsList

Init ==
    /\ now = 0 /\ hourDue = FALSE
    /\ arrived = 0 /\ restarts = 0
    /\ monitorChannel = NoMessages /\ recorderChannel = NoMessages
    /\ relayed = NoEvent
    /\ eventsList = Empty /\ lastEvents = Empty
    /\ file = Empty /\ saveTimer = FALSE /\ saveFailed = FALSE

-----------------------------------------------------------------------------
(* The monitor and the main loop *)

(* A full channel loses the event. *)
notify(t, u) ==
    /\ arrived < MaxEvents
    /\ arrived' = arrived + 1
    /\ monitorChannel' =
          IF Len(monitorChannel[t]) = bufferLength THEN monitorChannel
          ELSE [monitorChannel EXCEPT ![t] =
                  Append(@, [id |-> arrived', user |-> u, type |-> t])]
    /\ UNCHANGED <<now, hourDue, recorderChannel, relayed, listVars, saveVars, restarts>>

(* The main loop takes any event that is there, drops it if it is of a kind *)
(* of authentication that the recorder does not know ...                    *)
TakeEvent(t) ==
    /\ relayed = NoEvent
    /\ monitorChannel[t] # <<>>
    /\ \/ relayed' = Head(monitorChannel[t])
       \/ t = "auth" /\ relayed' = NoEvent
    /\ monitorChannel' = [monitorChannel EXCEPT ![t] = Tail(@)]
    /\ UNCHANGED <<now, hourDue, arrived, recorderChannel, listVars, saveVars, restarts>>

(* ... and waits until the recorder has room for it. *)
RelayEvent ==
    /\ relayed # NoEvent
    /\ Len(recorderChannel[relayed.type]) < bufferLength
    /\ recorderChannel' = [recorderChannel EXCEPT ![relayed.type] = Append(@, relayed)]
    /\ relayed' = NoEvent
    /\ UNCHANGED <<now, hourDue, arrived, monitorChannel, listVars, saveVars, restarts>>

-----------------------------------------------------------------------------
(* The recorder *)

(* recordCertEvent: seconds left to a lifetime that reads well *)
RoundLifetime(s) ==
    IF s >= 3600
    THEN IF (s + 60) \div 3600 > s \div 3600 THEN ((s + 60) \div 3600) * 3600 ELSE s
    ELSE IF s >= 60 /\ (s + 1) \div 60 > s \div 60 THEN ((s + 1) \div 60) * 60
    ELSE s

(* Mutant: the listing that was made before is kept. *)
recordEventStale(t) ==
    /\ recorderChannel[t] # <<>>
    /\ recorderChannel' = [recorderChannel EXCEPT ![t] = Tail(@)]
    /\ \E cert \in IF t = "cert" THEN CertLifetimes ELSE {<<0, 0>>} :
         eventsList' = [eventsList EXCEPT ![Head(recorderChannel[t]).user] =
            <<[id |-> Head(recorderChannel[t]).id, type |-> t, CreateTime |-> now,
               run |-> restarts, issued |-> cert[1], delay |-> cert[2],
               LifetimeSeconds |-> RoundLifetime(cert[1] - cert[2])]>> \o @]
    /\ saveTimer' = TRUE
    /\ UNCHANGED <<now, hourDue, arrived, monitorChannel, relayed, lastEvents,
                   file, saveFailed, restarts>>

(* Mutant: the event is put at the oldest end. *)
recordEventOldest(t) ==
    /\ recorderChannel[t] # <<>>
    /\ recorderChannel' = [recorderChannel EXCEPT ![t] = Tail(@)]
    /\ \E cert \in IF t = "cert" THEN CertLifetimes ELSE {<<0, 0>>} :
         eventsList' = [eventsList EXCEPT ![Head(recorderChannel[t]).user] = @ \o
            <<[id |-> Head(recorderChannel[t]).id, type |-> t, CreateTime |-> now,
               run |-> restarts, issued |-> cert[1], delay |-> cert[2],
               LifetimeSeconds |-> RoundLifetime(cert[1] - cert[2])]>>]
    /\ lastEvents' = NoListing
    /\ saveTimer' = TRUE
    /\ UNCHANGED <<now, hourDue, arrived, monitorChannel, relayed,
                   file, saveFailed, restarts>>

(* The cases of eventLoop that record: recordAuthEvent, recordCertEvent,    *)
(* recordSPLoginEvent and recordWebLoginEvent, all through recordEvent.     *)
recordEvent(t) ==
    /\ recorderChannel[t] # <<>>
    /\ recorderChannel' = [recorderChannel EXCEPT ![t] = Tail(@)]
    /\ \E cert \in IF t = "cert" THEN CertLifetimes ELSE {<<0, 0>>} :
         eventsList' = [eventsList EXCEPT ![Head(recorderChannel[t]).user] =
            <<[id |-> Head(recorderChannel[t]).id, type |-> t, CreateTime |-> now,
               run |-> restarts, issued |-> cert[1], delay |-> cert[2],
               LifetimeSeconds |-> RoundLifetime(cert[1] - cert[2])]>> \o @]
    /\ lastEvents' = NoListing
    /\ saveTimer' = TRUE
    /\ UNCHANGED <<now, hourDue, arrived, monitorChannel, relayed,
                   file, saveFailed, restarts>>

IsRecent(e) == e.CreateTime >= now - durationMonth

(* Mutant: the newest event is never looked at. *)
DropOldButNewest(list) ==
    SelectSeq(list, LAMBDA e : IsRecent(e) \/ e = list[1])

(* expireOldEvents on one list: from the oldest end, up to the first event  *)
(* that is recent.                                                          *)
DropOld(list) ==
    LET recent == {i \in DOMAIN list : IsRecent(list[i])}
    IN IF recent = {} THEN <<>> ELSE SubSeq(list, 1, Max(recent))

expireOldEvents ==
    /\ hourDue
    /\ hourDue' = FALSE
    /\ eventsList' = [u \in Users |-> DropOld(eventsList[u])]
    /\ IF eventsList' # eventsList
       THEN saveTimer' = TRUE /\ lastEvents' = NoListing
       ELSE UNCHANGED <<saveTimer, lastEvents>>
    /\ UNCHANGED <<now, arrived, channelVars, file, saveFailed, restarts>>

(* The web page asks for the listing. *)
requestEvents ==
    /\ lastEvents' = getEventsList
    /\ UNCHANGED <<now, hourDue, arrived, channelVars, eventsList, saveVars, restarts>>

(* Mutant: only a listing that somebody has asked for is saved. *)
saveEventsIfListed ==
    /\ saveTimer
    /\ lastEvents # NoListing
    /\ saveTimer' = FALSE
    /\ \/ file' = lastEvents /\ saveFailed' = FALSE
       \/ UNCHANGED file /\ saveFailed' = TRUE
    /\ UNCHANGED <<now, hourDue, arrived, channelVars, listVars, restarts>>

(* The timer fires once; an error is logged and the old file stays. *)
saveEvents ==
    /\ saveTimer
    /\ saveTimer' = FALSE
    /\ lastEvents' = getEventsList
    /\ \/ file' = lastEvents' /\ saveFailed' = FALSE
       \/ UNCHANGED file /\ saveFailed' = TRUE
    /\ UNCHANGED <<now, hourDue, arrived, channelVars, eventsList, restarts>>

(* Mutant: the oldest event of the file is not read. *)
LoadListButOldest(saved) ==
    LET upTo[n \in 0 .. Len(saved)] ==
          IF n = 0 THEN <<>>
          ELSE IF IsRecent(saved[n]) THEN <<saved[n]>> \o upTo[n - 1]
          ELSE upTo[n - 1]
    IN IF saved = <<>> THEN <<>> ELSE upTo[Len(saved) - 1]

(* loadEvents on one list, as far as the n-th event that was saved: every   *)
(* recent event that is read becomes the newest.                            *)
LoadList(saved) ==
    LET upTo[n \in 0 .. Len(saved)] ==
          IF n = 0 THEN <<>>
          ELSE IF IsRecent(saved[n]) THEN <<saved[n]>> \o upTo[n - 1]
          ELSE upTo[n - 1]
    IN upTo[Len(saved)]

loadEvents == [u \in Users |-> LoadList(file[u])]

newEventRecorder ==
    /\ restarts < MaxRestarts
    /\ restarts' = restarts + 1
    /\ monitorChannel' = NoMessages /\ recorderChannel' = NoMessages
    /\ relayed' = NoEvent
    /\ eventsList' = loadEvents /\ lastEvents' = loadEvents
    /\ hourDue' = FALSE
    /\ saveTimer' = FALSE /\ saveFailed' = FALSE
    /\ UNCHANGED <<now, arrived, file>>

(* hourlyTimer fires every hour, and its case runs before the next hour. *)
Hour ==
    /\ now < MaxTime
    /\ ~hourDue
    /\ now' = now + 1
    /\ hourDue' = TRUE
    /\ UNCHANGED <<arrived, channelVars, listVars, saveVars, restarts>>

RecorderSteps ==
    \/ \E t \in Types : TakeEvent(t) \/ recordEvent(t)
    \/ RelayEvent
    \/ expireOldEvents \/ requestEvents \/ saveEvents
    \/ Hour

Next ==
    \/ \E t \in Types, u \in Users : notify(t, u)
    \/ RecorderSteps
    \/ newEventRecorder

(* Both loops of the process run on. *)
Fairness ==
    /\ \A t \in Types : WF_vars(TakeEvent(t)) /\ WF_vars(recordEvent(t))
    /\ WF_vars(RelayEvent) /\ WF_vars(expireOldEvents) /\ WF_vars(saveEvents)

Spec == Init /\ [][Next]_vars /\ Fairness

-----------------------------------------------------------------------------
(***************************************************************************)
(* A listing that is kept for the next request is what the lists hold now: *)
(* nobody is shown, and no save writes, a listing from before an event or  *)
(* an expiry (lastEvents in eventLoop).                                    *)
(***************************************************************************)
ListingIsCurrent == lastEvents # NoListing => lastEvents = eventsList

(***************************************************************************)
(* No event is kept for more than two months and an hour.  One month is    *)
(* what expireOldEvents aims at, but it stops at the first recent event    *)
(* from the oldest end, and loadEvents turns the lists around.             *)
(***************************************************************************)
ForgottenInTime ==
    \A u \in Users : \A e \in Range(eventsList[u]) :
        now - e.CreateTime <= 2 * durationMonth + 1

(* e is rightly listed in front of f, which this process has recorded. *)
InOrder(e, f) ==
    /\ e.run = restarts
    /\ e.CreateTime >= f.CreateTime
    /\ e.type = f.type => e.id > f.id

(***************************************************************************)
(* The list tells what happened: what was recorded since the process       *)
(* started comes newest first, in front of what was loaded, and events of  *)
(* one type in the order in which they reached the monitor; and a          *)
(* certificate that is recorded within a minute of being issued for some   *)
(* hours, or within a second of being issued for some minutes, is listed   *)
(* with just those hours or minutes (recordCertEvent).                     *)
(***************************************************************************)
ListedAsHappened ==
    \A u \in Users :
        /\ \A i, j \in DOMAIN eventsList[u] :
              i < j /\ eventsList[u][j].run = restarts =>
                  InOrder(eventsList[u][i], eventsList[u][j])
        /\ \A e \in Range(eventsList[u]) :
              \/ e.issued % 3600 = 0 /\ e.delay <= 60 /\ e.issued - e.delay >= 3600
              \/ e.issued % 60 = 0 /\ e.delay <= 1 /\ 60 <= e.issued - e.delay /\ e.issued <= 3600
              => e.LifetimeSeconds = e.issued

(***************************************************************************)
(* An event that is listed and not in the file is about to be saved, or    *)
(* the last attempt to save it has failed: no expiry, no request, no other *)
(* event and no restart stops the timer that it has started (eventLoop).   *)
(***************************************************************************)
UnsavedIsDue ==
    \/ saveTimer \/ saveFailed
    \/ \A u \in Users : Range(eventsList[u]) \subseteq Range(file[u])

(***************************************************************************)
(* A restart loses only what has just been recorded: unless the timer was  *)
(* running or the last save had failed, every listed event that is recent  *)
(* is listed again, although loadEvents drops the old ones from any place  *)
(* of the file and turns the list around.                                  *)
(***************************************************************************)
RestartLosesOnlyUnsaved ==
    [][restarts' # restarts /\ ~saveTimer /\ ~saveFailed =>
          \A u \in Users : \A e \in Range(eventsList[u]) :
              IsRecent(e) => e \in Range(eventsList'[u])]_vars

(***************************************************************************)
(* Every event that gets into a list ends up in the file, unless the last  *)
(* save failed: the timer that each event starts is enough once events     *)
(* stop coming.                                                            *)
(***************************************************************************)
EventuallySaved ==
    <>[](saveFailed \/ \A u \in Users : Range(eventsList[u]) \subseteq Range(file[u]))
=============================================================================
