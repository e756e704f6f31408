--------------------------- MODULE EventPathProofs ---------------------------
(***************************************************************************)
(* Proofs about EventRecorder, for any users, types of events and          *)
(* certificates, any length of a month and of a channel and any number of  *)
(* events and restarts; and, with those of EventPipeProofs, about the      *)
(* whole way of an event (EventPath).                                      *)
(***************************************************************************)
EXTENDS MCEvents, EventPipeProofs, WellFoundedInduction, TLAPS

-----------------------------------------------------------------------------
(* The inductive invariant of the recorder *)

(* Events as the running process and those before it have recorded them *)
Recorded ==
    {e \in Events : /\ e.CreateTime <= now /\ e.run <= restarts
                    /\ e.delay <= e.issued
                    /\ e.LifetimeSeconds = RoundLifetime(e.issued - e.delay)}

RecorderTypes ==
    /\ now \in 0 .. MaxTime /\ hourDue \in BOOLEAN
    /\ arrived \in 0 .. MaxEvents /\ restarts \in 0 .. MaxRestarts
    /\ monitorChannel \in [Types -> Seq(Messages)]
    /\ recorderChannel \in [Types -> Seq(Messages)]
    /\ relayed \in Messages \cup {NoEvent}
    /\ eventsList \in [Users -> Seq(Recorded)] /\ file \in [Users -> Seq(Recorded)]
    /\ saveTimer \in BOOLEAN /\ saveFailed \in BOOLEAN

(* A channel of type t holds events of that type, of the first n, oldest    *)
(* first.                                                                   *)
Queue(c, t, n) ==
    /\ Len(c) <= bufferLength
    /\ \A i \in DOMAIN c : c[i].type = t /\ c[i].id <= n
    /\ \A i, j \in DOMAIN c : i < j => c[i].id < c[j].id

(* The event that the main loop holds, if it is of type t *)
Held(t) == relayed # NoEvent /\ relayed.type = t

(* Events of one type keep their order on the way to the list. *)
Queued(t) ==
    /\ Queue(monitorChannel[t], t, arrived) /\ Queue(recorderChannel[t], t, arrived)
    /\ \A i \in DOMAIN recorderChannel[t], j \in DOMAIN monitorChannel[t] :
          recorderChannel[t][i].id < monitorChannel[t][j].id
    /\ Held(t) =>
          /\ relayed.id <= arrived
          /\ \A i \in DOMAIN recorderChannel[t] : recorderChannel[t][i].id < relayed.id
          /\ \A j \in DOMAIN monitorChannel[t] : relayed.id < monitorChannel[t][j].id

(* Event number n of type t is older than what is on its way. *)
Past(n, t) ==
    /\ n <= arrived
    /\ \A i \in DOMAIN recorderChannel[t] : n < recorderChannel[t][i].id
    /\ Held(t) => n < relayed.id
    /\ \A j \in DOMAIN monitorChannel[t] : n < monitorChannel[t][j].id

(* What this run has recorded is in front of what it has loaded, newest     *)
(* first; what it has loaded was all recent at one time; and the oldest is  *)
(* recent, as of the last expiry.                                           *)
Ordered(list) ==
    /\ \A i \in DOMAIN list : list[i].run = restarts => Past(list[i].id, list[i].type)
    /\ \A i, j \in DOMAIN list : i < j =>
          /\ list[i].run = restarts => list[i].CreateTime >= list[j].CreateTime
          /\ list[j].run = restarts => InOrder(list[i], list[j])
Together(list) ==
    \A i, j \in DOMAIN list : list[i].run # restarts /\ list[j].run # restarts =>
        list[i].CreateTime - list[j].CreateTime <= durationMonth
LastRecent(list) ==
    list # <<>> =>
        now - list[Len(list)].CreateTime <= durationMonth + (IF hourDue THEN 1 ELSE 0)

Lists == \A u \in Users : /\ Ordered(eventsList[u]) /\ Together(eventsList[u])
                          /\ LastRecent(eventsList[u])

RecorderInv ==
    /\ RecorderTypes /\ ListingIsCurrent
    /\ \A t \in Types : Queued(t)
    /\ Lists

-----------------------------------------------------------------------------
(* What the operators compute *)

(* A set of natural numbers has a smallest element. *)
LEMMA Smallest ==
    ASSUME NEW T, T \subseteq Nat, T # {}
    PROVE  \E n \in T : \A m \in T : n <= m
<1>1. PICK n \in T : \A m \in T : ~(<<m, n>> \in OpToRel(<, Nat))
  BY NatLessThanWellFounded, WFMin, Zenon
<1>2. \A m \in T : ~(m < n)
  BY <1>1, Zenon DEF OpToRel
<1> QED
  BY <1>2

(* LoadList is defined by recursion, and the recursion has a solution. *)
LEMMA LoadDefined ==
    ASSUME NEW saved, Len(saved) \in Nat
    PROVE  \E f : f = [n \in 0 .. Len(saved) |->
                         IF n = 0 THEN <<>>
                         ELSE IF IsRecent(saved[n]) THEN <<saved[n]>> \o f[n - 1]
                         ELSE f[n - 1]]
<1> DEFINE Step(f, n) == IF n = 0 THEN <<>>
                         ELSE IF IsRecent(saved[n]) THEN <<saved[n]>> \o f[n - 1]
                         ELSE f[n - 1]
           Solved(m) == \E f : f = [n \in 0 .. m |-> Step(f, n)]
           Unsolved == {m \in Nat : ~Solved(m)}
<1>1. ASSUME Unsolved # {} PROVE FALSE
  <2>1. PICK m \in Unsolved : \A k \in Unsolved : m <= k
    BY <1>1, Smallest, Zenon
  <2>2. m \in Nat /\ ~Solved(m)
    BY SMTT(30), <2>1
  <2>3. m # 0
    <3>1. [n \in 0 .. 0 |-> <<>>] = [n \in 0 .. 0 |-> Step([k \in 0 .. 0 |-> <<>>], n)]
      OBVIOUS
    <3> QED
      BY <2>2, <3>1, Zenon
  <2>4. m - 1 \in Nat /\ Solved(m - 1)
    <3>1. m - 1 \in Nat /\ ~(m <= m - 1)
      BY <2>2, <2>3
    <3> QED
      BY <2>1, <3>1, Zenon
  <2>5. PICK f : f = [n \in 0 .. m - 1 |-> Step(f, n)]
    BY <2>4
  <2>6. ASSUME NEW n \in 0 .. m - 1 PROVE f[n] = Step(f, n)
    <3> HIDE DEF Step
    <3> QED
      BY <2>5, Zenon
  <2> DEFINE g == [n \in 0 .. m |-> IF n = m THEN Step(f, m) ELSE f[n]]
  <2>7. ASSUME NEW n \in 0 .. m PROVE g[n] = Step(g, n)
    <3>1. CASE n = 0
      <4>1. f[0] = Step(f, 0)
        <5>1. 0 \in 0 .. m - 1
          BY <2>2, <2>3
        <5> QED
          BY <2>6, <5>1, Zenon
      <4> QED
        BY <2>2, <2>3, <3>1, <4>1
    <3>2. CASE n # 0
      <4>1. n - 1 \in 0 .. m - 1 /\ g[n - 1] = f[n - 1]
        BY <2>2, <3>2
      <4>2. n # m => f[n] = Step(f, n)
        <5>1. n # m => n \in 0 .. m - 1
          BY <2>2
        <5> QED
          BY <2>6, <5>1, Zenon
      <4> QED
        BY <4>1, <4>2, <3>2
    <3> QED
      BY <3>1, <3>2
  <2>8. g = [n \in 0 .. m |-> Step(g, n)]
    <3> HIDE DEF Step
    <3> QED
      BY <2>7
  <2> QED
    BY <2>2, <2>8, Zenon
<1>2. Solved(Len(saved))
  BY <1>1, SMTT(30)
<1> QED
  BY <1>2

(* loadEvents takes nothing but recent events of the file, and all of them. *)
LEMMA LoadedRecent ==
    ASSUME NEW saved, NEW S, saved \in Seq(S)
    PROVE  /\ LoadList(saved) \in Seq({e \in S : IsRecent(e)})
           /\ \A i \in 1 .. Len(saved) : IsRecent(saved[i]) =>
                 \E j \in DOMAIN LoadList(saved) : LoadList(saved)[j] = saved[i]
<1> DEFINE R == {e \in S : IsRecent(e)}
           f == CHOOSE f : f = [n \in 0 .. Len(saved) |->
                         IF n = 0 THEN <<>>
                         ELSE IF IsRecent(saved[n]) THEN <<saved[n]>> \o f[n - 1]
                         ELSE f[n - 1]]
           Step(n) == IF n = 0 THEN <<>>
                      ELSE IF IsRecent(saved[n]) THEN <<saved[n]>> \o f[n - 1]
                      ELSE f[n - 1]
           Wrong == {n \in Nat : n <= Len(saved) /\ f[n] \notin Seq(R)}
           Taken(n, i) == \E j \in DOMAIN f[n] : f[n][j] = saved[i]
           Missing == {n \in Nat : n <= Len(saved) /\
                          \E i \in 1 .. n : IsRecent(saved[i]) /\ ~Taken(n, i)}
<1>1. Len(saved) \in Nat
  OBVIOUS
<1>2. f = [n \in 0 .. Len(saved) |-> Step(n)]
  BY <1>1, LoadDefined, Zenon
<1>3. LoadList(saved) = f[Len(saved)]
  BY DEF LoadList
<1> HIDE DEF f
<1>4. ASSUME NEW n \in 0 .. Len(saved) PROVE f[n] = Step(n)
  <2> HIDE DEF Step
  <2> QED
    BY <1>2, Zenon
<1>5. ASSUME Wrong # {} PROVE FALSE
  <2>1. PICK n \in Wrong : \A k \in Wrong : n <= k
    BY <1>5, Smallest, Zenon
  <2>2. n # 0
    <3>1. 0 \in 0 .. Len(saved)
      BY <1>1
    <3>2. f[0] = Step(0)
      BY <1>4, <3>1, Zenon
    <3>3. f[0] = <<>>
      BY <3>2
    <3>4. <<>> \in Seq(R)
      OBVIOUS
    <3> QED
      BY <2>1, <3>3, <3>4, Zenon
  <2>3. n - 1 \in Nat /\ n - 1 <= Len(saved) /\ ~(n <= n - 1)
    BY <1>1, <2>1, <2>2
  <2>4. f[n - 1] \in Seq(R)
    BY <2>1, <2>3
  <2>5. saved[n] \in S
    BY <2>1, <2>2
  <2>6. f[n] = IF IsRecent(saved[n]) THEN <<saved[n]>> \o f[n - 1] ELSE f[n - 1]
    BY <1>1, <1>4, <2>1, <2>2
  <2>7. IsRecent(saved[n]) => <<saved[n]>> \o f[n - 1] \in Seq(R)
    <3>1. IsRecent(saved[n]) => <<saved[n]>> \in Seq(R)
      BY <2>5
    <3> QED
      BY <2>4, <3>1
  <2> QED
    BY <2>1, <2>4, <2>6, <2>7, Zenon
<1>6. \A n \in 0 .. Len(saved) : f[n] \in Seq(R)
  BY <1>1, <1>5
<1>7. ASSUME Missing # {} PROVE FALSE
  <2>1. PICK n \in Missing : \A k \in Missing : n <= k
    <3> HIDE DEF Missing
    <3>1. Missing \subseteq Nat
      BY DEF Missing
    <3> QED
      BY <1>7, <3>1, Smallest, Zenon
  <2>2. n \in Nat /\ n <= Len(saved)
    BY <2>1
  <2>3. PICK i \in 1 .. n : IsRecent(saved[i]) /\ ~Taken(n, i)
    <3> HIDE DEF Taken
    <3> QED
      BY <2>1
  <2>4. n # 0 /\ n - 1 \in 0 .. Len(saved) /\ n - 1 \in Nat /\ ~(n <= n - 1) /\ n \in 0 .. Len(saved)
    BY <1>1, <2>2, <2>3
  <2>5. f[n] = IF IsRecent(saved[n]) THEN <<saved[n]>> \o f[n - 1] ELSE f[n - 1]
    BY <1>4, <2>4
  <2>6. n - 1 \notin Missing
    <3> HIDE DEF Missing
    <3> QED
      BY <2>1, <2>4, Zenon
  <2>7. f[n - 1] \in Seq(R)
    BY <1>6, <2>4
  <2>8. PICK g : g = f[n - 1]
    OBVIOUS
  <2>9. g \in Seq(R) /\ Len(g) \in Nat /\ DOMAIN g = 1 .. Len(g)
    BY <2>7, <2>8
  <2>10. ASSUME NEW x
         PROVE  /\ DOMAIN (<<x>> \o g) = 1 .. Len(g) + 1 /\ (<<x>> \o g)[1] = x
                /\ \A j \in DOMAIN g : j + 1 \in 1 .. Len(g) + 1 /\ (<<x>> \o g)[j + 1] = g[j]
    <3>1. <<x>> \in Seq({x}) /\ Len(<<x>>) = 1 /\ <<x>>[1] = x
      OBVIOUS
    <3> QED
      BY <2>9, <3>1
  <2>11. 1 \in 1 .. Len(g) + 1
    BY <2>9
  <2>12. CASE i = n
    BY <2>3, <2>5, <2>8, <2>10, <2>11, <2>12
  <2>13. CASE i # n
    <3>1. i \in 1 .. n - 1
      BY <2>2, <2>13
    <3>2. n - 1 <= Len(saved)
      BY <1>1, <2>2
    <3>3. Taken(n - 1, i)
      <4> HIDE DEF Taken
      <4> QED
        BY <2>3, <2>4, <2>6, <3>1, <3>2
    <3>4. PICK j \in DOMAIN g : g[j] = saved[i]
      BY <2>8, <3>3
    <3>5. CASE IsRecent(saved[n])
      <4>1. f[n] = <<saved[n]>> \o g
        BY <2>5, <2>8, <3>5, SMTT(30)
      <4>2. j + 1 \in DOMAIN f[n] /\ f[n][j + 1] = saved[i]
        BY <2>10, <3>4, <4>1
      <4> QED
        BY <2>3, <4>2, Zenon
    <3>6. CASE ~IsRecent(saved[n])
      BY <2>3, <2>5, <2>8, <3>4, <3>6
    <3> QED
      BY <3>5, <3>6
  <2> QED
    BY <2>12, <2>13
<1>8. \A i \in 1 .. Len(saved) : IsRecent(saved[i]) => Taken(Len(saved), i)
  <2> HIDE DEF Taken
  <2>1. Len(saved) <= Len(saved)
    BY <1>1
  <2> QED
    BY <1>1, <1>7, <2>1
<1>9. Len(saved) \in 0 .. Len(saved)
  BY <1>1
<1> QED
  BY <1>3, <1>6, <1>8, <1>9

(* The same of the events themselves. *)
LEMMA LoadedBack ==
    ASSUME NEW S, NEW saved \in Seq(S)
    PROVE  /\ Range(LoadList(saved)) \subseteq Range(saved)
           /\ \A e \in Range(saved) : IsRecent(e) => e \in Range(LoadList(saved))
<1>1. DOMAIN saved = 1 .. Len(saved) /\ saved \in Seq(Range(saved))
  BY DEF Range
<1>2. LoadList(saved) \in Seq({e \in Range(saved) : IsRecent(e)})
  BY <1>1, LoadedRecent
<1>3. \A i \in 1 .. Len(saved) : IsRecent(saved[i]) =>
         \E j \in DOMAIN LoadList(saved) : LoadList(saved)[j] = saved[i]
  BY LoadedRecent, Zenon
<1>4. PICK l : l = LoadList(saved)
  OBVIOUS
<1>5. \A j \in DOMAIN l : l[j] \in Range(saved)
  BY <1>2, <1>4
<1> QED
  BY <1>1, <1>3, <1>4, <1>5 DEF Range

(* expireOldEvents keeps a list up to its oldest recent event. *)
LEMMA DroppedOld ==
    ASSUME NEW S, NEW list \in Seq(S)
    PROVE  \E n \in 0 .. Len(list) :
              /\ DropOld(list) = [i \in 1 .. n |-> list[i]]
              /\ DropOld(list) \in Seq(S) /\ Len(DropOld(list)) = n
              /\ n # 0 => IsRecent(list[n])
<1> DEFINE recent == {i \in DOMAIN list : IsRecent(list[i])}
           Behind == {k \in Nat : Len(list) - k \in recent}
<1>1. Len(list) \in Nat /\ DOMAIN list = 1 .. Len(list)
  OBVIOUS
<1>2. CASE recent = {}
  <2>1. DropOld(list) = <<>>
    BY <1>2 DEF DropOld
  <2>2. <<>> = [i \in 1 .. 0 |-> list[i]] /\ Len(<<>>) = 0 /\ <<>> \in Seq(S)
    OBVIOUS
  <2> QED
    BY <1>1, <2>1, <2>2
<1>3. CASE recent # {}
  <2>1. PICK r : r \in recent
    BY <1>3
  <2>2. Len(list) - r \in Behind
    BY <1>1, <2>1
  <2>3. PICK k \in Behind : \A m \in Behind : k <= m
    BY <2>2, Smallest, Zenon
  <2>4. Len(list) - k \in recent /\ \A i \in recent : Len(list) - k >= i
    <3>1. \A i \in recent : Len(list) - i \in Behind
      BY <1>1
    <3> QED
      BY <1>1, <2>3, <3>1
  <2>5. Max(recent) \in recent /\ \A i \in recent : Max(recent) >= i
    BY <2>4 DEF Max
  <2>6. DropOld(list) = SubSeq(list, 1, Max(recent))
    BY <1>3, Zenon DEF DropOld
  <2> DEFINE n == Max(recent)
  <2>7. n \in 1 .. Len(list) /\ IsRecent(list[n])
    BY <1>1, <2>5
  <2> HIDE DEF n
  <2>8. SubSeq(list, 1, n) = [i \in 1 .. n |-> list[i]]
    BY <1>1, <2>7
  <2>9. SubSeq(list, 1, n) \in Seq(S) /\ Len(SubSeq(list, 1, n)) = n
    BY <1>1, <2>7
  <2>10. DropOld(list) = SubSeq(list, 1, n)
    BY <2>6 DEF n
  <2> QED
    BY <1>1, <2>7, <2>8, <2>9, <2>10
<1> QED
  BY <1>2, <1>3

(* recordCertEvent undoes a short delay. *)
LEMMA Rounded ==
    ASSUME NEW issued \in Nat, NEW delay \in Nat, delay <= issued,
           \/ issued % 3600 = 0 /\ delay <= 60 /\ issued - delay >= 3600
           \/ issued % 60 = 0 /\ delay <= 1 /\ 60 <= issued - delay /\ issued <= 3600
    PROVE  RoundLifetime(issued - delay) = issued
<1> DEFINE s == issued - delay
<1>1. CASE issued % 3600 = 0 /\ delay <= 60 /\ issued - delay >= 3600
  <2>1. PICK q \in Nat : issued = 3600 * q
    BY <1>1
  <2>2. (s + 60) \div 3600 = q
    BY <1>1, <2>1
  <2>3. s \div 3600 = IF delay = 0 THEN q ELSE q - 1
    BY <1>1, <2>1
  <2> QED
    BY <1>1, <2>1, <2>2, <2>3 DEF RoundLifetime
<1>2. CASE issued % 60 = 0 /\ delay <= 1 /\ 60 <= issued - delay /\ issued < 3600
  <2>1. PICK q \in Nat : issued = 60 * q
    BY <1>2
  <2>2. (s + 1) \div 60 = q
    BY <1>2, <2>1
  <2>3. s \div 60 = IF delay = 0 THEN q ELSE q - 1
    BY <1>2, <2>1
  <2> QED
    BY <1>2, <2>1, <2>2, <2>3 DEF RoundLifetime
<1>3. CASE issued = 3600 /\ delay = 0
  BY <1>3 DEF RoundLifetime
<1>4. CASE issued = 3600 /\ delay = 1
  BY <1>4 DEF RoundLifetime
<1> QED
  BY <1>1, <1>2, <1>3, <1>4

LEMMA RoundedNat == ASSUME NEW s \in Nat PROVE RoundLifetime(s) \in Nat
BY DEF RoundLifetime

-----------------------------------------------------------------------------
(* Sequences of messages and of events *)

LEMMA Room == \A l, b \in Nat : l <= b /\ l # b => l + 1 <= b
OBVIOUS

LEMMA QueueIds ==
    ASSUME NEW c \in Seq(Messages)
    PROVE  \A i \in DOMAIN c : c[i] \in Messages /\ c[i].id \in Nat
<1>1. \A i \in DOMAIN c : c[i] \in Messages
  OBVIOUS
<1>2. \A m \in Messages : m.id \in Nat
  BY DEF Messages
<1> QED
  BY <1>1, <1>2, Zenon

LEMMA QueueGrows ==
    ASSUME NEW t, NEW c \in Seq(Messages), NEW n \in Nat, NEW k \in Nat, n <= k,
           Queue(c, t, n)
    PROVE  Queue(c, t, k)
<1>1. \A i \in DOMAIN c : c[i].id \in Nat
  BY QueueIds, Zenon
<1> QED
  BY <1>1 DEF Queue

(* What notify and RelayEvent do to a channel *)
LEMMA QueueAppend ==
    ASSUME NEW t, NEW c \in Seq(Messages), NEW n \in Nat, NEW k \in Nat, n <= k,
           Queue(c, t, n), Len(c) # bufferLength,
           NEW m \in Messages, m.type = t, m.id <= k, \A i \in DOMAIN c : c[i].id < m.id
    PROVE  /\ Append(c, m) \in Seq(Messages) /\ Queue(Append(c, m), t, k)
           /\ \A j \in DOMAIN Append(c, m) :
                 Append(c, m)[j] = m \/ (j \in DOMAIN c /\ Append(c, m)[j] = c[j])
<1>1. Len(c) \in Nat /\ DOMAIN c = 1 .. Len(c) /\ \A i \in DOMAIN c : c[i] \in Messages
  OBVIOUS
<1>2. /\ Append(c, m) \in Seq(Messages) /\ Len(Append(c, m)) = Len(c) + 1
      /\ DOMAIN Append(c, m) = 1 .. Len(c) + 1
  BY <1>1
<1>3. \A j \in 1 .. Len(c) + 1 : Append(c, m)[j] = IF j = Len(c) + 1 THEN m ELSE c[j]
  BY <1>1, <1>2
<1>4. \A i \in DOMAIN c : c[i].type = t /\ c[i].id \in Nat /\ c[i].id <= k
  BY <1>1 DEF Queue, Messages
<1>5. Len(c) + 1 <= bufferLength
  <2>1. Len(c) <= bufferLength
    BY Zenon DEF Queue
  <2>2. bufferLength \in Nat
    BY RecorderAssumption
  <2> QED
    BY <1>1, <2>1, <2>2, Room, Zenon
<1>6. Queue(Append(c, m), t, k)
  <2>1. \A i \in DOMAIN Append(c, m) : Append(c, m)[i].type = t /\ Append(c, m)[i].id <= k
    BY <1>1, <1>2, <1>3, <1>4
  <2>2. \A i, j \in DOMAIN Append(c, m) : i < j => Append(c, m)[i].id < Append(c, m)[j].id
    BY <1>1, <1>2, <1>3 DEF Queue
  <2> QED
    BY <1>2, <1>5, <2>1, <2>2 DEF Queue
<1> QED
  BY <1>1, <1>2, <1>3, <1>6

(* What TakeEvent and recordEvent do to a channel *)
LEMMA QueueTail ==
    ASSUME NEW t, NEW c \in Seq(Messages), NEW n \in Nat, Queue(c, t, n), c # <<>>
    PROVE  /\ Tail(c) \in Seq(Messages) /\ Queue(Tail(c), t, n)
           /\ 1 \in DOMAIN c /\ Head(c) = c[1]
           /\ Head(c) \in Messages /\ Head(c).type = t /\ Head(c).id <= n
           /\ \A j \in DOMAIN Tail(c) : /\ j + 1 \in DOMAIN c /\ Tail(c)[j] = c[j + 1]
                                        /\ Head(c).id < Tail(c)[j].id
<1>1. Len(c) \in Nat \ {0} /\ DOMAIN c = 1 .. Len(c) /\ \A i \in DOMAIN c : c[i] \in Messages
  OBVIOUS
<1>2. 1 \in DOMAIN c /\ Head(c) = c[1] /\ Head(c) \in Messages
  BY <1>1
<1>3. Head(c).type = t /\ Head(c).id <= n
  BY <1>2 DEF Queue
<1>4. Tail(c) \in Seq(Messages) /\ Len(Tail(c)) = Len(c) - 1
  BY <1>1
<1>5. \A j \in DOMAIN Tail(c) : j \in Nat \ {0} /\ j + 1 \in DOMAIN c /\ Tail(c)[j] = c[j + 1]
  BY <1>1, <1>4
<1>6. \A j \in DOMAIN Tail(c) : Head(c).id < Tail(c)[j].id
  BY <1>2, <1>5 DEF Queue
<1>7. Queue(Tail(c), t, n)
  <2>1. Len(Tail(c)) <= bufferLength
    BY <1>1, <1>4, RecorderAssumption DEF Queue
  <2>2. \A i \in DOMAIN Tail(c) : Tail(c)[i].type = t /\ Tail(c)[i].id <= n
    BY <1>5 DEF Queue
  <2>3. \A i, j \in DOMAIN Tail(c) : i < j => Tail(c)[i].id < Tail(c)[j].id
    BY <1>5 DEF Queue
  <2> QED
    BY <2>1, <2>2, <2>3 DEF Queue
<1> QED
  BY <1>2, <1>3, <1>4, <1>5, <1>6, <1>7

(* What recordEvent does to a list *)
LEMMA Prepended ==
    ASSUME NEW S, NEW s \in Seq(S), NEW e \in S
    PROVE  /\ <<e>> \o s \in Seq(S)
           /\ DOMAIN (<<e>> \o s) = 1 .. Len(s) + 1 /\ Len(<<e>> \o s) = Len(s) + 1
           /\ (<<e>> \o s)[1] = e
           /\ \A i \in 2 .. Len(s) + 1 : i - 1 \in DOMAIN s /\ (<<e>> \o s)[i] = s[i - 1]
<1>1. Len(s) \in Nat /\ DOMAIN s = 1 .. Len(s) /\ <<e>> \in Seq(S) /\ Len(<<e>>) = 1
  OBVIOUS
<1>2. <<e>> \o s \in Seq(S) /\ Len(<<e>> \o s) = Len(s) + 1
  BY <1>1
<1> QED
  BY <1>1, <1>2

LEMMA SeqGrows == ASSUME NEW S, NEW T, S \subseteq T, NEW s \in Seq(S) PROVE s \in Seq(T)
OBVIOUS

(* Events stay as they were recorded while time passes and processes start. *)
LEMMA RecordedGrows ==
    ASSUME RecorderTypes, now' \in Nat, now <= now', restarts' \in Nat, restarts <= restarts'
    PROVE  /\ Recorded \subseteq Recorded'
           /\ eventsList \in [Users -> Seq(Recorded')] /\ file \in [Users -> Seq(Recorded')]
<1>1. Recorded \subseteq Recorded'
  <2> SUFFICES ASSUME NEW e \in Recorded PROVE e \in Recorded'
    OBVIOUS
  <2>1. e \in Events /\ e.CreateTime <= now /\ e.run <= restarts
    BY DEF Recorded
  <2>2. e.CreateTime \in Nat /\ e.run \in Nat /\ now \in Nat /\ restarts \in Nat
    BY <2>1 DEF Events, RecorderTypes
  <2>3. e.CreateTime <= now' /\ e.run <= restarts'
    BY <2>1, <2>2
  <2> QED
    BY <2>1, <2>3 DEF Recorded
<1>2. \A u \in Users : eventsList[u] \in Seq(Recorded') /\ file[u] \in Seq(Recorded')
  BY <1>1, SeqGrows DEF RecorderTypes
<1> QED
  BY <1>1, <1>2 DEF RecorderTypes

-----------------------------------------------------------------------------
(* The invariant is kept *)

LEMMA RecorderInitInv == Init => RecorderInv
<1> SUFFICES ASSUME Init PROVE RecorderInv
  OBVIOUS
<1>1. RecorderTypes
  <2>1. NoMessages \in [Types -> Seq(Messages)] /\ Empty \in [Users -> Seq(Recorded)]
    BY DEF NoMessages, Empty
  <2>2. 0 \in 0 .. MaxTime /\ 0 \in 0 .. MaxEvents /\ 0 \in 0 .. MaxRestarts
    BY RecorderAssumption
  <2> QED
    BY <2>1, <2>2, Zenon DEF Init, RecorderTypes
<1>2. \A t \in Types : Queued(t)
  <2>1. \A t \in Types : Queue(<<>>, t, arrived)
    BY RecorderAssumption DEF Queue
  <2>2. \A t \in Types : monitorChannel[t] = <<>> /\ recorderChannel[t] = <<>> /\ ~Held(t)
    BY DEF Init, NoMessages, Held
  <2> QED
    BY <2>1, <2>2 DEF Queued
<1>3. \A u \in Users : eventsList[u] = <<>>
  BY DEF Init, Empty
<1>4. Lists
  BY <1>3 DEF Lists, Ordered, Together, LastRecent
<1>5. ListingIsCurrent
  BY DEF Init, ListingIsCurrent
<1> QED
  BY <1>1, <1>2, <1>4, <1>5, Zenon DEF RecorderInv

(* What the recorder knows of an event that has been recorded *)
LEMMA RecordedIs ==
    ASSUME RecorderTypes, NEW e \in Recorded
    PROVE  /\ e.id \in 1 .. MaxEvents /\ e.type \in Types
           /\ e.CreateTime \in Nat /\ e.CreateTime <= now
           /\ e.run \in Nat /\ e.run <= restarts /\ e.issued \in Nat /\ e.delay \in Nat
BY DEF Recorded, Events

LEMMA Listed ==
    ASSUME RecorderTypes, NEW u \in Users
    PROVE  /\ eventsList[u] \in Seq(Recorded) /\ Len(eventsList[u]) \in Nat
           /\ DOMAIN eventsList[u] = 1 .. Len(eventsList[u])
           /\ \A i \in DOMAIN eventsList[u] : eventsList[u][i] \in Recorded
BY DEF RecorderTypes

(* The order of a list is not disturbed by what happens in the channels. *)
LEMMA OrderedKept ==
    ASSUME RecorderTypes, NEW list \in Seq(Recorded), Ordered(list), restarts' = restarts,
           \A n \in 1 .. MaxEvents, t \in Types : Past(n, t) => Past(n, t)'
    PROVE  Ordered(list)'
<1>1. \A i \in DOMAIN list : list[i] \in Recorded
  OBVIOUS
<1>2. ASSUME NEW i \in DOMAIN list, list[i].run = restarts
      PROVE  Past(list[i].id, list[i].type)'
  <2>1. Past(list[i].id, list[i].type)
    BY <1>2, Zenon DEF Ordered
  <2>2. list[i].id \in 1 .. MaxEvents /\ list[i].type \in Types
    BY <1>1, RecordedIs, Zenon
  <2> QED
    BY <2>1, <2>2, Zenon
<1> QED
  BY <1>2, Zenon DEF Ordered, InOrder

(* The monitor and the main loop leave the recorder and its lists alone. *)
LEMMA ListsKept ==
    ASSUME RecorderInv, UNCHANGED <<now, hourDue, listVars, saveVars, restarts>>,
           \A n \in 1 .. MaxEvents, t \in Types : Past(n, t) => Past(n, t)'
    PROVE  /\ ListingIsCurrent' /\ Lists'
           /\ now' \in 0 .. MaxTime /\ hourDue' \in BOOLEAN /\ restarts' \in 0 .. MaxRestarts
           /\ eventsList' \in [Users -> Seq(Recorded)]' /\ file' \in [Users -> Seq(Recorded)]'
           /\ saveTimer' \in BOOLEAN /\ saveFailed' \in BOOLEAN
<1>1. UNCHANGED <<now, hourDue, eventsList, lastEvents, file, saveTimer, saveFailed, restarts>>
  BY Zenon DEF listVars, saveVars
<1>2. RecorderTypes /\ ListingIsCurrent /\ Lists
  BY Zenon DEF RecorderInv
<1>3. Recorded' = Recorded
  BY <1>1, Zenon DEF Recorded
<1>4. ASSUME NEW u \in Users PROVE Ordered(eventsList[u])'
  <2>1. PICK q : q = eventsList[u]
    OBVIOUS
  <2>2. q \in Seq(Recorded) /\ Ordered(q) /\ eventsList'[u] = q
    BY <1>1, <1>2, <2>1, Listed DEF Lists
  <2>3. Ordered(q)'
    BY <1>1, <1>2, <2>2, OrderedKept, Zenon
  <2> QED
    BY <2>2, <2>3, Zenon DEF Ordered
<1>5. ASSUME NEW u \in Users
      PROVE  Together(eventsList[u])' /\ LastRecent(eventsList[u])'
  <2>1. Together(eventsList[u]) /\ LastRecent(eventsList[u])
    BY <1>2, Zenon DEF Lists
  <2>2. Together(eventsList[u])'
    BY <1>1, <2>1, Zenon DEF Together
  <2>3. LastRecent(eventsList[u])'
    BY <1>1, <2>1 DEF LastRecent
  <2> QED
    BY <2>2, <2>3
<1> QED
  BY <1>1, <1>2, <1>3, <1>4, <1>5, Zenon DEF Lists, RecorderTypes, ListingIsCurrent

LEMMA Channels ==
    ASSUME RecorderInv, NEW t \in Types
    PROVE  /\ monitorChannel[t] \in Seq(Messages) /\ Queue(monitorChannel[t], t, arrived)
           /\ recorderChannel[t] \in Seq(Messages) /\ Queue(recorderChannel[t], t, arrived)
           /\ \A i \in DOMAIN monitorChannel[t] : monitorChannel[t][i].id \in Nat
           /\ \A i \in DOMAIN recorderChannel[t] : recorderChannel[t][i].id \in Nat
           /\ Held(t) => relayed \in Messages /\ relayed.id \in Nat
<1>1. RecorderTypes /\ Queued(t)
  BY Zenon DEF RecorderInv
<1>2. monitorChannel[t] \in Seq(Messages) /\ recorderChannel[t] \in Seq(Messages)
  BY <1>1 DEF RecorderTypes
<1>3. Queue(monitorChannel[t], t, arrived) /\ Queue(recorderChannel[t], t, arrived)
  BY <1>1, Zenon DEF Queued
<1>4. Held(t) => relayed \in Messages /\ relayed.id \in Nat
  BY <1>1 DEF Held, RecorderTypes, Messages
<1> QED
  BY <1>2, <1>3, <1>4, QueueIds, Zenon

LEMMA NotifyInv ==
    ASSUME NEW t \in Types, NEW u \in Users, RecorderInv, notify(t, u)
    PROVE  RecorderInv'
<1> DEFINE m == [id |-> arrived + 1, user |-> u, type |-> t]
<1>1. /\ arrived < MaxEvents /\ arrived' = arrived + 1
      /\ monitorChannel' = IF Len(monitorChannel[t]) = bufferLength THEN monitorChannel
                           ELSE [monitorChannel EXCEPT ![t] = Append(monitorChannel[t], m)]
      /\ recorderChannel' = recorderChannel /\ relayed' = relayed
      /\ UNCHANGED <<now, hourDue, listVars, saveVars, restarts>>
  BY DEF notify
<1>2. RecorderTypes /\ \A t1 \in Types : Queued(t1)
  BY Zenon DEF RecorderInv
<1>3. arrived \in Nat /\ arrived' \in Nat /\ arrived' \in 0 .. MaxEvents /\ arrived + 1 \in 1 .. MaxEvents
  BY <1>1, <1>2, RecorderAssumption DEF RecorderTypes
<1>4. m \in Messages /\ m.type = t /\ m.id = arrived + 1
  BY <1>3 DEF Messages
<1>5. ASSUME NEW t1 \in Types
      PROVE  /\ monitorChannel[t1] \in Seq(Messages) /\ Queue(monitorChannel[t1], t1, arrived)
             /\ recorderChannel[t1] \in Seq(Messages) /\ Queue(recorderChannel[t1], t1, arrived)
             /\ \A i \in DOMAIN monitorChannel[t1] : monitorChannel[t1][i].id \in Nat
             /\ \A i \in DOMAIN recorderChannel[t1] : recorderChannel[t1][i].id \in Nat
             /\ Held(t1) => relayed \in Messages /\ relayed.id \in Nat
  BY Channels, Zenon
<1>6. ASSUME Len(monitorChannel[t]) # bufferLength
       PROVE  /\ Append(monitorChannel[t], m) \in Seq(Messages)
              /\ Queue(Append(monitorChannel[t], m), t, arrived')
              /\ \A j \in DOMAIN Append(monitorChannel[t], m) :
                    \/ Append(monitorChannel[t], m)[j] = m
                    \/ /\ j \in DOMAIN monitorChannel[t]
                       /\ Append(monitorChannel[t], m)[j] = monitorChannel[t][j]
  <2>1. monitorChannel[t] \in Seq(Messages) /\ Queue(monitorChannel[t], t, arrived)
    BY <1>5
  <2>2. \A i \in DOMAIN monitorChannel[t] : monitorChannel[t][i].id < m.id
    BY <1>3, <1>4, <1>5 DEF Queue
  <2>3. arrived <= arrived' /\ m.id <= arrived'
    BY <1>1, <1>3, <1>4
  <2> HIDE DEF m
  <2> DEFINE c == monitorChannel[t]
             n == arrived
             k == arrived'
  <2>4. c \in Seq(Messages) /\ n \in Nat /\ k \in Nat /\ n <= k /\ Queue(c, t, n) /\ Len(c) # bufferLength
        /\ m \in Messages /\ m.type = t /\ m.id <= k /\ \A i \in DOMAIN c : c[i].id < m.id
    BY <1>3, <1>4, <1>6, <2>1, <2>2, <2>3, Zenon
  <2> HIDE DEF c, n, k
  <2>5. /\ Append(c, m) \in Seq(Messages) /\ Queue(Append(c, m), t, k)
        /\ \A j \in DOMAIN Append(c, m) :
              Append(c, m)[j] = m \/ (j \in DOMAIN c /\ Append(c, m)[j] = c[j])
    BY <2>4, QueueAppend
  <2> QED
    BY <2>5 DEF c, k
<1>7. ASSUME NEW t1 \in Types
      PROVE  /\ monitorChannel'[t1] \in Seq(Messages) /\ Queue(monitorChannel'[t1], t1, arrived')
             /\ \A j \in DOMAIN monitorChannel'[t1] :
                   \/ monitorChannel'[t1][j].id = arrived + 1
                   \/ j \in DOMAIN monitorChannel[t1] /\ monitorChannel'[t1][j] = monitorChannel[t1][j]
  <2>1. CASE monitorChannel'[t1] = monitorChannel[t1]
    <3>1. arrived <= arrived'
      BY <1>1, <1>3
    <3>2. Queue(monitorChannel[t1], t1, arrived')
      BY <1>3, <1>5, <3>1, QueueGrows, Zenon
    <3> QED
      BY <1>5, <2>1, <3>2, Zenon
  <2>2. CASE monitorChannel'[t1] # monitorChannel[t1]
    <3>1. /\ t1 = t /\ Len(monitorChannel[t]) # bufferLength
          /\ monitorChannel'[t] = Append(monitorChannel[t], m)
      BY <1>1, <1>2, <2>2, SMTT(30) DEF RecorderTypes
    <3> QED
      BY <1>4, <1>6, <3>1
  <2> QED
    BY <2>1, <2>2
<1> HIDE DEF m
<1>8. monitorChannel' \in [Types -> Seq(Messages)] /\ recorderChannel' \in [Types -> Seq(Messages)]
  BY <1>1, <1>2, <1>7, SMTT(30) DEF RecorderTypes
<1>9. ASSUME NEW t1 \in Types PROVE Queued(t1)'
  <2>1. Queued(t1)
    BY <1>2
  <2>2. \A i \in DOMAIN recorderChannel[t1], j \in DOMAIN monitorChannel'[t1] :
           recorderChannel[t1][i].id < monitorChannel'[t1][j].id
    <3> SUFFICES ASSUME NEW i \in DOMAIN recorderChannel[t1], NEW j \in DOMAIN monitorChannel'[t1]
                 PROVE  recorderChannel[t1][i].id < monitorChannel'[t1][j].id
      OBVIOUS
    <3>1. recorderChannel[t1][i].id \in Nat /\ recorderChannel[t1][i].id <= arrived
      BY <1>5, Zenon DEF Queue
    <3>2. recorderChannel[t1][i].id < arrived + 1
      BY <1>3, <3>1, SMTT(30)
    <3> QED
      BY <1>7, <2>1, <3>2, Zenon DEF Queued
  <2>3. Held(t1) => relayed.id \in Nat
    BY <1>5, Zenon
  <2>4. Held(t1) => \A j \in DOMAIN monitorChannel'[t1] : relayed.id < monitorChannel'[t1][j].id
    BY <1>3, <1>7, <2>1, <2>3 DEF Queued
  <2>5. Held(t1)' <=> Held(t1)
    BY <1>1 DEF Held
  <2>6. arrived <= arrived'
    BY <1>1, <1>3
  <2>7. Queue(recorderChannel[t1], t1, arrived')
    BY <1>3, <1>5, <2>6, QueueGrows, Zenon
  <2>8. relayed' = relayed /\ recorderChannel' = recorderChannel
    BY <1>1, Zenon
  <2>9. Held(t1) => relayed.id <= arrived
    BY <2>1, Zenon DEF Queued
  <2>10. Held(t1) => relayed.id <= arrived'
    BY <1>1, <1>3, <2>3, <2>6, <2>9
  <2> QED
    BY <1>7, <2>1, <2>2, <2>4, <2>5, <2>7, <2>8, <2>10, ZenonT(40) DEF Queued
<1>10. ASSUME NEW n \in 1 .. MaxEvents, NEW t1 \in Types, Past(n, t1) PROVE Past(n, t1)'
  BY <1>1, <1>3, <1>7, <1>10 DEF Past, Held
<1>11. ListingIsCurrent' /\ Lists' /\ RecorderTypes'
  BY <1>1, <1>2, <1>3, <1>8, <1>10, ListsKept, Zenon DEF RecorderTypes
<1> QED
  BY <1>9, <1>11, Zenon DEF RecorderInv

LEMMA TakeInv == ASSUME NEW t \in Types, RecorderInv, TakeEvent(t) PROVE RecorderInv'
<1> DEFINE c == monitorChannel[t]
<1>1. /\ relayed = NoEvent /\ c # <<>>
      /\ relayed' = Head(c) \/ relayed' = NoEvent
      /\ monitorChannel' = [monitorChannel EXCEPT ![t] = Tail(c)]
      /\ UNCHANGED <<arrived, recorderChannel>>
      /\ UNCHANGED <<now, hourDue, listVars, saveVars, restarts>>
  BY DEF TakeEvent
<1>2. RecorderTypes /\ \A t1 \in Types : Queued(t1)
  BY Zenon DEF RecorderInv
<1>3. arrived \in Nat /\ c \in Seq(Messages) /\ Queue(c, t, arrived)
  BY <1>2, Channels DEF RecorderTypes
<1>4. /\ Tail(c) \in Seq(Messages) /\ Queue(Tail(c), t, arrived)
      /\ 1 \in DOMAIN c /\ Head(c) = c[1]
      /\ Head(c) \in Messages /\ Head(c).type = t /\ Head(c).id <= arrived
      /\ \A j \in DOMAIN Tail(c) : /\ j + 1 \in DOMAIN c /\ Tail(c)[j] = c[j + 1]
                                   /\ Head(c).id < Tail(c)[j].id
  <2> HIDE DEF c
  <2> QED
    BY <1>1, <1>3, QueueTail, Zenon
<1>5. monitorChannel'[t] = Tail(c) /\ \A t1 \in Types \ {t} : monitorChannel'[t1] = monitorChannel[t1]
  BY <1>1, <1>2 DEF RecorderTypes
<1>6. \A t1 \in Types : ~Held(t1) /\ (Held(t1)' => t1 = t /\ relayed' = Head(c))
  BY <1>1, <1>4 DEF Held
<1>7. ASSUME NEW t1 \in Types PROVE Queued(t1)'
  <2>1. Queued(t1) /\ Queued(t)
    BY <1>2
  <2>2. CASE t1 = t
    <3>1. \A i \in DOMAIN recorderChannel[t], j \in DOMAIN Tail(c) :
             recorderChannel[t][i].id < Tail(c)[j].id
      BY <1>4, <2>1, Zenon DEF Queued
    <3>2. \A i \in DOMAIN recorderChannel[t] : recorderChannel[t][i].id < Head(c).id
      BY <1>4, <2>1, Zenon DEF Queued
    <3>3. Queue(recorderChannel[t], t, arrived)
      BY <2>1, Zenon DEF Queued
    <3> HIDE DEF c
    <3>4. Held(t)' => /\ relayed'.id <= arrived
                      /\ \A i \in DOMAIN recorderChannel[t] : recorderChannel[t][i].id < relayed'.id
                      /\ \A j \in DOMAIN Tail(c) : relayed'.id < Tail(c)[j].id
      BY <1>4, <1>6, <3>2, Zenon
    <3>5. Queue(Tail(c), t, arrived)
      BY <1>4
    <3>6. arrived' = arrived /\ recorderChannel' = recorderChannel /\ monitorChannel'[t] = Tail(c)
      BY <1>1, <1>5
    <3> QED
      BY <2>2, <3>1, <3>3, <3>4, <3>5, <3>6, Zenon DEF Queued
  <2>3. CASE t1 # t
    BY <1>1, <1>5, <1>6, <2>1, <2>3, Zenon DEF Queued
  <2> QED
    BY <2>2, <2>3
<1>8. ASSUME NEW n \in 1 .. MaxEvents, NEW t1 \in Types, Past(n, t1) PROVE Past(n, t1)'
  <2>1. CASE t1 = t
    <3>1. \A j \in DOMAIN Tail(c) : n < Tail(c)[j].id
      BY <1>4, <1>8, <2>1, Zenon DEF Past
    <3>2. n < Head(c).id
      BY <1>4, <1>8, <2>1, Zenon DEF Past
    <3> HIDE DEF c
    <3> QED
      BY <1>1, <1>5, <1>6, <1>8, <2>1, <3>1, <3>2 DEF Past
  <2>2. CASE t1 # t
    BY <1>1, <1>5, <1>6, <1>8, <2>2, Zenon DEF Past
  <2> QED
    BY <2>1, <2>2
<1>9. monitorChannel' \in [Types -> Seq(Messages)] /\ relayed' \in Messages \cup {NoEvent}
  BY <1>1, <1>2, <1>4 DEF RecorderTypes
<1>10. ListingIsCurrent' /\ Lists' /\ RecorderTypes'
  BY <1>1, <1>2, <1>8, <1>9, ListsKept, Zenon DEF RecorderTypes
<1> QED
  BY <1>7, <1>10, Zenon DEF RecorderInv

LEMMA RelayInv == RecorderInv /\ RelayEvent => RecorderInv'
<1> SUFFICES ASSUME RecorderInv, RelayEvent PROVE RecorderInv'
  OBVIOUS
<1> DEFINE t == relayed.type
           m == relayed
           c == recorderChannel[t]
           n == arrived
<1>1. /\ relayed # NoEvent /\ Len(c) < bufferLength
      /\ recorderChannel' = [recorderChannel EXCEPT ![t] = Append(c, m)]
      /\ relayed' = NoEvent
      /\ UNCHANGED <<arrived, monitorChannel>>
      /\ UNCHANGED <<now, hourDue, listVars, saveVars, restarts>>
  BY DEF RelayEvent
<1>2. RecorderTypes /\ \A t1 \in Types : Queued(t1)
  BY Zenon DEF RecorderInv
<1>3. m \in Messages /\ t \in Types /\ Held(t) /\ n \in Nat /\ m.type = t
  BY <1>1, <1>2 DEF RecorderTypes, Messages, Held
<1>4. Queued(t)
  BY <1>2, <1>3, SMTT(30)
<1>5. /\ c \in Seq(Messages) /\ Queue(c, t, n) /\ n <= n
      /\ m.id <= n /\ \A i \in DOMAIN c : c[i].id < m.id
  BY <1>3, <1>4, Channels, SMTT(30) DEF Queued
<1>6. Len(c) # bufferLength
  BY <1>1, <1>5, RecorderAssumption
<1>7. /\ Append(c, m) \in Seq(Messages) /\ Queue(Append(c, m), t, n)
      /\ \A j \in DOMAIN Append(c, m) :
            Append(c, m)[j] = m \/ (j \in DOMAIN c /\ Append(c, m)[j] = c[j])
  <2> HIDE DEF c, t, m, n
  <2> QED
    BY <1>3, <1>5, <1>6, QueueAppend
<1>8. recorderChannel'[t] = Append(c, m) /\ \A t1 \in Types \ {t} : recorderChannel'[t1] = recorderChannel[t1]
  BY <1>1, <1>2, <1>3 DEF RecorderTypes
<1>9. \A t1 \in Types : ~Held(t1)' /\ (t1 # t => ~Held(t1))
  BY <1>1 DEF Held
<1>10. ASSUME NEW t1 \in Types PROVE Queued(t1)'
  <2>1. CASE t1 = t
    <3>1. \A i \in DOMAIN Append(c, m), j \in DOMAIN monitorChannel[t] :
             Append(c, m)[i].id < monitorChannel[t][j].id
      BY <1>3, <1>4, <1>7, Zenon DEF Queued
    <3>2. Queue(monitorChannel[t], t, n)
      BY <1>4, Zenon DEF Queued
    <3> HIDE DEF c, t, m
    <3> QED
      BY ZenonT(60), <1>1, <1>7, <1>8, <1>9, <2>1, <3>1, <3>2 DEF Queued
  <2>2. CASE t1 # t
    BY <1>1, <1>2, <1>8, <1>9, <2>2, Zenon DEF Queued
  <2> QED
    BY <2>1, <2>2
<1>11. ASSUME NEW k \in 1 .. MaxEvents, NEW t1 \in Types, Past(k, t1) PROVE Past(k, t1)'
  <2>1. CASE t1 = t
    <3>1. \A i \in DOMAIN Append(c, m) : k < Append(c, m)[i].id
      BY <1>3, <1>7, <1>11, <2>1, Zenon DEF Past
    <3> HIDE DEF c, t, m
    <3> QED
      BY <1>1, <1>8, <1>9, <1>11, <2>1, <3>1, Zenon DEF Past
  <2>2. CASE t1 # t
    BY <1>1, <1>8, <1>9, <1>11, <2>2, Zenon DEF Past
  <2> QED
    BY <2>1, <2>2
<1>12. recorderChannel' \in [Types -> Seq(Messages)] /\ relayed' \in Messages \cup {NoEvent}
  BY <1>1, <1>2, <1>7, ZenonT(40) DEF RecorderTypes
<1>13. ListingIsCurrent' /\ Lists' /\ RecorderTypes'
  BY <1>1, <1>2, <1>11, <1>12, ListsKept, Zenon DEF RecorderTypes
<1> QED
  BY <1>10, <1>13, Zenon DEF RecorderInv

LEMMA RecordInv == ASSUME NEW t \in Types, RecorderInv, recordEvent(t) PROVE RecorderInv'
<1> DEFINE c == recorderChannel[t]
           v == Head(c).user
           E(cert) == [id |-> Head(c).id, type |-> t, CreateTime |-> now, run |-> restarts,
                       issued |-> cert[1], delay |-> cert[2],
                       LifetimeSeconds |-> RoundLifetime(cert[1] - cert[2])]
<1>1. /\ c # <<>>
      /\ recorderChannel' = [recorderChannel EXCEPT ![t] = Tail(c)]
      /\ lastEvents' = NoListing /\ saveTimer' = TRUE
      /\ UNCHANGED <<now, hourDue, arrived, monitorChannel, relayed, file, saveFailed, restarts>>
  BY SMTT(30) DEF recordEvent
<1>2. PICK cert \in IF t = "cert" THEN CertLifetimes ELSE {<<0, 0>>} :
         eventsList' = [eventsList EXCEPT ![v] = <<E(cert)>> \o eventsList[v]]
  BY Zenon DEF recordEvent
<1> DEFINE e == E(cert)
           list == eventsList[v]
<1>3. RecorderTypes /\ Lists /\ \A t1 \in Types : Queued(t1)
  BY Zenon DEF RecorderInv
<1>4. cert[1] \in Nat /\ cert[2] \in Nat /\ cert[2] <= cert[1]
  BY <1>2, RecorderAssumption, SMTT(30)
<1>5. arrived \in Nat /\ c \in Seq(Messages) /\ Queue(c, t, arrived) /\ Queued(t)
  BY <1>3, Channels DEF RecorderTypes
<1>6. /\ Tail(c) \in Seq(Messages) /\ Queue(Tail(c), t, arrived)
      /\ 1 \in DOMAIN c /\ Head(c) = c[1]
      /\ Head(c) \in Messages /\ Head(c).type = t /\ Head(c).id <= arrived
      /\ \A j \in DOMAIN Tail(c) : /\ j + 1 \in DOMAIN c /\ Tail(c)[j] = c[j + 1]
                                   /\ Head(c).id < Tail(c)[j].id
  <2> HIDE DEF c
  <2> QED
    BY <1>1, <1>5, QueueTail, Zenon
<1>7. v \in Users /\ Head(c).id \in 1 .. MaxEvents
  BY <1>6 DEF Messages
<1>8. PICK h \in 1 .. MaxEvents : h = Head(c).id
  BY <1>7, Zenon
<1>9. e \in Recorded
  <2>1. RoundLifetime(cert[1] - cert[2]) \in Nat /\ now \in 0 .. MaxTime /\ restarts \in 0 .. MaxRestarts
    <3>1. cert[1] - cert[2] \in Nat
      BY <1>4, SMTT(30)
    <3> QED
      BY <1>3, <3>1, RoundedNat, Zenon DEF RecorderTypes
  <2> HIDE DEF c
  <2> QED
    BY <1>4, <1>7, <2>1 DEF Recorded, Events
<1>10. e.run = restarts /\ e.type = t /\ e.CreateTime = now /\ e.id = Head(c).id
  BY SMTT(30)
<1>11. eventsList' = [eventsList EXCEPT ![v] = <<e>> \o list]
  BY <1>2
<1>12. recorderChannel'[t] = Tail(c) /\ \A t1 \in Types \ {t} : recorderChannel'[t1] = recorderChannel[t1]
  BY <1>1, <1>3 DEF RecorderTypes
<1> HIDE DEF c, v, E, e, list
<1>13. list \in Seq(Recorded) /\ Len(list) \in Nat /\ DOMAIN list = 1 .. Len(list)
       /\ \A i \in DOMAIN list : list[i] \in Recorded
  BY <1>3, <1>7, Listed, Zenon DEF list
<1>14. /\ <<e>> \o list \in Seq(Recorded)
       /\ DOMAIN (<<e>> \o list) = 1 .. Len(list) + 1 /\ Len(<<e>> \o list) = Len(list) + 1
       /\ (<<e>> \o list)[1] = e
       /\ \A i \in 2 .. Len(list) + 1 : i - 1 \in DOMAIN list /\ (<<e>> \o list)[i] = list[i - 1]
  BY <1>9, <1>13, Prepended
<1>15. Recorded' = Recorded
  BY <1>1, Zenon DEF Recorded
<1>16. RecorderTypes'
  <2>1. eventsList' \in [Users -> Seq(Recorded)]
    BY <1>3, <1>11, <1>14, Zenon DEF RecorderTypes
  <2>2. recorderChannel' \in [Types -> Seq(Messages)]
    BY <1>1, <1>3, <1>6 DEF RecorderTypes
  <2> QED
    BY <1>1, <1>3, <1>15, <2>1, <2>2, SMTT(30) DEF RecorderTypes
<1>17. \A t1 \in Types : Held(t1)' <=> Held(t1)
  BY <1>1 DEF Held
<1>18. ASSUME NEW t1 \in Types PROVE Queued(t1)'
  <2>1. CASE t1 = t
    <3>1. \A i \in DOMAIN Tail(c), j \in DOMAIN monitorChannel[t] : Tail(c)[i].id < monitorChannel[t][j].id
      BY <1>5, <1>6, Zenon DEF Queued, c
    <3>2. Held(t) => \A i \in DOMAIN Tail(c) : Tail(c)[i].id < relayed.id
      BY <1>5, <1>6, Zenon DEF Queued, c
    <3>3. /\ Queue(Tail(c), t, arrived) /\ Queue(monitorChannel[t], t, arrived)
          /\ Held(t) => /\ relayed.id <= arrived
                        /\ \A j \in DOMAIN monitorChannel[t] : relayed.id < monitorChannel[t][j].id
      BY <1>5, <1>6, Zenon DEF Queued
    <3>4. /\ recorderChannel'[t] = Tail(c) /\ monitorChannel' = monitorChannel
          /\ arrived' = arrived /\ relayed' = relayed /\ (Held(t)' <=> Held(t))
      BY <1>1, <1>12, <1>17
    <3> QED
      BY <2>1, <3>1, <3>2, <3>3, <3>4, Zenon DEF Queued
  <2>2. CASE t1 # t
    BY <1>1, <1>3, <1>12, <1>17, <2>2, Zenon DEF Queued
  <2> QED
    BY <2>1, <2>2
<1>19. ASSUME NEW n \in 1 .. MaxEvents, NEW t1 \in Types, Past(n, t1) PROVE Past(n, t1)'
  <2>1. CASE t1 = t
    <3>1. \A i \in DOMAIN Tail(c) : n < Tail(c)[i].id
      BY <1>6, <1>19, <2>1, Zenon DEF Past, c
    <3> QED
      BY <1>1, <1>12, <1>17, <1>19, <2>1, <3>1, Zenon DEF Past
  <2>2. CASE t1 # t
    BY <1>1, <1>12, <1>17, <1>19, <2>2, Zenon DEF Past
  <2> QED
    BY <2>1, <2>2
<1>20. Past(h, t)'
  <2>1. h <= arrived /\ \A i \in DOMAIN Tail(c) : h < Tail(c)[i].id
    BY <1>6, <1>8, Zenon
  <2>2. Held(t) => h < relayed.id
    BY <1>5, <1>6, <1>8, Zenon DEF Queued, c
  <2>3. \A j \in DOMAIN monitorChannel[t] : h < monitorChannel[t][j].id
    BY <1>5, <1>6, <1>8, Zenon DEF Queued, c
  <2> QED
    BY <1>1, <1>12, <1>17, <2>1, <2>2, <2>3, Zenon DEF Past
<1>21. ASSUME NEW u \in Users \ {v}
       PROVE  (Ordered(eventsList[u]) /\ Together(eventsList[u]) /\ LastRecent(eventsList[u]))'
  <2>1. eventsList'[u] = eventsList[u]
    BY <1>3, <1>11, SMTT(30) DEF RecorderTypes
  <2>2. /\ eventsList[u] \in Seq(Recorded) /\ Ordered(eventsList[u])
        /\ Together(eventsList[u]) /\ LastRecent(eventsList[u])
    BY <1>3, Listed DEF Lists
  <2>3. PICK l : l = eventsList[u]
    OBVIOUS
  <2>4. Ordered(l)'
    BY <1>1, <1>3, <1>19, <2>2, <2>3, OrderedKept, Zenon
  <2>5. Ordered(eventsList[u])'
    BY <2>1, <2>3, <2>4, Zenon DEF Ordered
  <2>6. Together(eventsList[u])'
    BY <1>1, <2>1, <2>2, Zenon DEF Together
  <2>7. LastRecent(eventsList[u])'
    BY <1>1, <2>1, <2>2 DEF LastRecent
  <2> QED
    BY <2>5, <2>6, <2>7
<1>22. Ordered(list) /\ Together(list) /\ LastRecent(list)
  BY <1>3, <1>7, Zenon DEF Lists, list
<1>23. PICK q, l : q = list /\ l = <<e>> \o list
  BY ZenonT(40)
<1>24. eventsList'[v] = l
  BY <1>3, <1>7, <1>11, <1>23 DEF RecorderTypes
<1>25. /\ q \in Seq(Recorded) /\ Len(q) \in Nat /\ DOMAIN q = 1 .. Len(q)
       /\ Len(l) = Len(q) + 1 /\ DOMAIN l = 1 .. Len(q) + 1
       /\ \A i \in 2 .. Len(q) + 1 : i - 1 \in DOMAIN q /\ l[i] = q[i - 1]
       /\ \A i \in DOMAIN q : q[i] \in Recorded
  BY <1>13, <1>14, <1>23, SMTT(30)
<1>26. l[1].run = restarts /\ l[1].type = t /\ l[1].CreateTime = now /\ l[1].id = h
  BY <1>10, <1>14, <1>23, <1>8, SMTT(30)
<1>27. restarts' = restarts /\ now' = now /\ hourDue' = hourDue
  BY <1>1
<1>28. Ordered(q) /\ Ordered(q)' /\ Together(q) /\ LastRecent(q)
  BY <1>3, <1>19, <1>22, <1>23, <1>25, <1>27, OrderedKept, Zenon
<1>29. \A i \in DOMAIN q : /\ now >= q[i].CreateTime
                           /\ q[i].run = restarts /\ q[i].type = t => h > q[i].id
  <2> SUFFICES ASSUME NEW i \in DOMAIN q
               PROVE  /\ now >= q[i].CreateTime
                      /\ q[i].run = restarts /\ q[i].type = t => h > q[i].id
    OBVIOUS
  <2>1. q[i].CreateTime \in Nat /\ q[i].CreateTime <= now /\ q[i].id \in 1 .. MaxEvents
    BY <1>3, <1>25, RecordedIs, Zenon
  <2>2. now \in Nat
    BY <1>3 DEF RecorderTypes
  <2>3. q[i].run = restarts /\ q[i].type = t => q[i].id < h
    BY <1>6, <1>8, <1>28, Zenon DEF Ordered, Past, c
  <2> QED
    BY <2>1, <2>2, <2>3, SMTT(30)
<1>30. \A i \in DOMAIN l : i = 1 \/ i \in 2 .. Len(q) + 1
  BY <1>25
<1>31. Ordered(l)'
  <2>1. ASSUME NEW i \in DOMAIN l, l[i].run = restarts
        PROVE  Past(l[i].id, l[i].type)'
    <3>1. CASE i = 1
      BY <1>20, <1>26, <3>1, Zenon
    <3>2. CASE i \in 2 .. Len(q) + 1
      BY <1>25, <1>27, <1>28, <2>1, <3>2, Zenon DEF Ordered
    <3> QED
      BY <1>30, <3>1, <3>2
  <2>2. ASSUME NEW i \in DOMAIN l, NEW j \in DOMAIN l, i < j
        PROVE  /\ l[i].run = restarts => l[i].CreateTime >= l[j].CreateTime
               /\ l[j].run = restarts => InOrder(l[i], l[j])
    <3>1. j \in 2 .. Len(q) + 1 /\ j - 1 \in DOMAIN q /\ l[j] = q[j - 1]
      BY <1>25, <2>2
    <3>2. CASE i = 1
      <4>1. now >= q[j - 1].CreateTime /\ (q[j - 1].run = restarts /\ q[j - 1].type = t => h > q[j - 1].id)
        BY <1>29, <3>1, Zenon
      <4> QED
        BY <1>26, <3>1, <3>2, <4>1, Zenon DEF InOrder
    <3>3. CASE i \in 2 .. Len(q) + 1
      <4>1. i - 1 \in DOMAIN q /\ l[i] = q[i - 1] /\ i - 1 < j - 1
        BY <1>25, <2>2, <3>1, <3>3
      <4> QED
        BY <1>28, <3>1, <4>1, Zenon DEF Ordered
    <3> QED
      BY <1>30, <3>2, <3>3, SMTT(30)
  <2> QED
    BY <1>27, <2>1, <2>2, Zenon DEF Ordered, InOrder
<1>32. Together(l)'
  <2>1. \A i \in DOMAIN l : l[i].run # restarts => i - 1 \in DOMAIN q /\ l[i] = q[i - 1]
    BY <1>25, <1>26, <1>30
  <2> QED
    BY <1>27, <1>28, <2>1, Zenon DEF Together
<1>33. LastRecent(l)'
  <2>1. now \in Nat /\ durationMonth \in Nat
    BY <1>3, RecorderAssumption DEF RecorderTypes
  <2>2. CASE q = <<>>
    <3>1. Len(l) = 1
      BY <1>25, <2>2
    <3> QED
      BY <1>26, <1>27, <2>1, <3>1 DEF LastRecent
  <2>3. CASE q # <<>>
    <3>1. l[Len(l)] = q[Len(q)]
      BY <1>25, <2>3
    <3> QED
      BY <1>27, <1>28, <2>3, <3>1 DEF LastRecent
  <2> QED
    BY <2>2, <2>3
<1>34. ASSUME NEW u \in Users
       PROVE  (Ordered(eventsList[u]) /\ Together(eventsList[u]) /\ LastRecent(eventsList[u]))'
  <2>1. CASE u # v
    BY <1>21, <2>1
  <2>2. CASE u = v
    <3>1. eventsList'[u] = l
      BY <1>24, <2>2
    <3>2. Ordered(eventsList[u])'
      BY <1>31, <3>1, Zenon DEF Ordered
    <3>3. Together(eventsList[u])'
      BY <1>32, <3>1, Zenon DEF Together
    <3>4. LastRecent(eventsList[u])'
      BY <1>33, <3>1 DEF LastRecent
    <3> QED
      BY <3>2, <3>3, <3>4, SMTT(30)
  <2> QED
    BY <2>1, <2>2
<1>35. ListingIsCurrent'
  BY <1>1 DEF ListingIsCurrent
<1> QED
  BY <1>16, <1>18, <1>34, <1>35, Zenon DEF RecorderInv, Lists

(* The channels, when an action of the recorder leaves them alone *)
LEMMA QueuesKept ==
    ASSUME \A t \in Types : Queued(t), UNCHANGED <<arrived, channelVars>>
    PROVE  /\ \A t \in Types : Queued(t)'
           /\ \A n \in 1 .. MaxEvents, t \in Types : Past(n, t) => Past(n, t)'
<1>1. UNCHANGED <<arrived, monitorChannel, recorderChannel, relayed>>
  BY Zenon DEF channelVars
<1>2. \A t \in Types : Held(t)' <=> Held(t)
  BY <1>1, Zenon DEF Held
<1>3. ASSUME NEW t \in Types PROVE Queued(t)'
  BY <1>1, <1>2, Zenon DEF Queued
<1>4. ASSUME NEW n \in 1 .. MaxEvents, NEW t \in Types, Past(n, t) PROVE Past(n, t)'
  BY <1>1, <1>2, <1>4, Zenon DEF Past
<1> QED
  BY <1>3, <1>4

LEMMA ExpireInv == RecorderInv /\ expireOldEvents => RecorderInv'
<1> SUFFICES ASSUME RecorderInv, expireOldEvents PROVE RecorderInv'
  OBVIOUS
<1>1. /\ hourDue /\ hourDue' = FALSE
      /\ eventsList' = [u \in Users |-> DropOld(eventsList[u])]
      /\ UNCHANGED <<now, restarts, file, saveFailed>>
      /\ UNCHANGED <<arrived, channelVars>>
      /\ \/ eventsList' # eventsList /\ saveTimer' = TRUE /\ lastEvents' = NoListing
         \/ eventsList' = eventsList /\ UNCHANGED <<saveTimer, lastEvents>>
  BY Zenon DEF expireOldEvents
<1>2. RecorderTypes /\ ListingIsCurrent /\ Lists /\ \A t \in Types : Queued(t)
  BY Zenon DEF RecorderInv
<1>3. Recorded' = Recorded
  BY <1>1, Zenon DEF Recorded
<1>4. /\ \A t \in Types : Queued(t)'
      /\ \A n \in 1 .. MaxEvents, t \in Types : Past(n, t) => Past(n, t)'
  BY <1>1, <1>2, QueuesKept, Zenon
<1>5. ASSUME NEW u \in Users
      PROVE  /\ eventsList'[u] \in Seq(Recorded)
             /\ (Ordered(eventsList[u]) /\ Together(eventsList[u]) /\ LastRecent(eventsList[u]))'
  <2>1. PICK q, l : q = eventsList[u] /\ l = DropOld(eventsList[u])
    OBVIOUS
  <2>2. q \in Seq(Recorded) /\ Ordered(q) /\ Together(q) /\ DOMAIN q = 1 .. Len(q) /\ Len(q) \in Nat
    BY <1>2, <2>1, Listed, Zenon DEF Lists
  <2>3. PICK n \in 0 .. Len(q) : /\ l = [i \in 1 .. n |-> q[i]] /\ l \in Seq(Recorded) /\ Len(l) = n
                                 /\ n # 0 => IsRecent(q[n])
    BY <2>1, <2>2, DroppedOld, Zenon
  <2>4. DOMAIN l = 1 .. n /\ \A i \in DOMAIN l : i \in DOMAIN q /\ l[i] = q[i]
    BY <2>2, <2>3
  <2>5. eventsList'[u] = l
    BY <1>1, <2>1
  <2>6. Ordered(q)'
    BY <1>1, <1>2, <1>4, <2>2, OrderedKept, Zenon
  <2>7. Ordered(l)' /\ Together(l)'
    <3>1. Ordered(l)'
      BY <2>4, <2>6, Zenon DEF Ordered
    <3>2. Together(l)
      BY <2>2, <2>4, Zenon DEF Together
    <3> QED
      BY <1>1, <3>1, <3>2, Zenon DEF Together
  <2>8. LastRecent(l)'
    <3> SUFFICES ASSUME l # <<>> PROVE now - l[n].CreateTime <= durationMonth
      <4>1. durationMonth + 0 = durationMonth
        BY RecorderAssumption
      <4> QED
        BY <1>1, <2>3, <4>1, SMTT(30) DEF LastRecent
    <3>1. n # 0
      BY <2>3
    <3>2. n \in DOMAIN q /\ l[n] = q[n] /\ IsRecent(q[n])
      BY <2>2, <2>3, <2>4, <3>1, SMTT(30)
    <3>3. q[n].CreateTime \in Nat
      BY <1>2, <2>2, <3>2, RecordedIs
    <3>4. now \in Nat /\ durationMonth \in Nat
      BY <1>2, RecorderAssumption DEF RecorderTypes
    <3> QED
      BY <3>2, <3>3, <3>4, SMTT(30) DEF IsRecent
  <2>9. Ordered(eventsList[u])' /\ Together(eventsList[u])'
    BY <2>5, <2>7, Zenon DEF Ordered, Together
  <2>10. LastRecent(eventsList[u])'
    BY <2>5, <2>8 DEF LastRecent
  <2> QED
    BY <2>3, <2>5, <2>9, <2>10
<1>6. RecorderTypes'
  <2>1. eventsList' \in [Users -> Seq(Recorded)]
    BY <1>1, <1>5
  <2>2. UNCHANGED <<arrived, monitorChannel, recorderChannel, relayed>>
    BY <1>1, Zenon DEF channelVars
  <2> QED
    BY <1>1, <1>2, <1>3, <2>1, <2>2, Zenon DEF RecorderTypes
<1>7. ListingIsCurrent'
  BY <1>1, <1>2, Zenon DEF ListingIsCurrent
<1> QED
  BY <1>4, <1>5, <1>6, <1>7, Zenon DEF RecorderInv, Lists

(* Both read the lists and change nothing but the listing and the file. *)
LEMMA ListingInv == RecorderInv /\ (requestEvents \/ saveEvents) => RecorderInv'
<1> SUFFICES ASSUME RecorderInv, requestEvents \/ saveEvents PROVE RecorderInv'
  OBVIOUS
<1>1. RecorderTypes /\ ListingIsCurrent /\ Lists /\ \A t \in Types : Queued(t)
  BY Zenon DEF RecorderInv
<1>2. getEventsList = eventsList
  BY <1>1, Zenon DEF getEventsList, ListingIsCurrent
<1>3. /\ lastEvents' = eventsList
      /\ file' = file \/ file' = eventsList
      /\ saveTimer' \in BOOLEAN /\ saveFailed' \in BOOLEAN
      /\ UNCHANGED <<now, hourDue, eventsList, restarts>>
      /\ UNCHANGED <<arrived, channelVars>>
  <2>1. CASE requestEvents
    BY <1>1, <1>2, <2>1, Zenon DEF requestEvents, saveVars, RecorderTypes
  <2>2. CASE saveEvents
    BY <1>2, <2>2, Zenon DEF saveEvents
  <2> QED
    BY <2>1, <2>2
<1>4. /\ \A t \in Types : Queued(t)'
      /\ \A n \in 1 .. MaxEvents, t \in Types : Past(n, t) => Past(n, t)'
  BY <1>1, <1>3, QueuesKept, Zenon
<1>5. ASSUME NEW u \in Users
      PROVE  (Ordered(eventsList[u]) /\ Together(eventsList[u]) /\ LastRecent(eventsList[u]))'
  <2>1. PICK q : q = eventsList[u]
    OBVIOUS
  <2>2. q \in Seq(Recorded) /\ Ordered(q) /\ Together(q) /\ LastRecent(q)
    BY <1>1, <2>1, Listed, Zenon DEF Lists
  <2>3. Ordered(q)'
    BY <1>1, <1>3, <1>4, <2>2, OrderedKept, Zenon
  <2>4. eventsList'[u] = q
    BY <1>3, <2>1
  <2>5. Ordered(eventsList[u])' /\ Together(eventsList[u])'
    BY <1>3, <2>2, <2>3, <2>4, Zenon DEF Ordered, Together
  <2>6. LastRecent(eventsList[u])'
    BY <1>3, <2>2, <2>4 DEF LastRecent
  <2> QED
    BY <2>5, <2>6
<1>6. RecorderTypes'
  <2>1. UNCHANGED <<arrived, monitorChannel, recorderChannel, relayed>>
    BY <1>3, Zenon DEF channelVars
  <2>2. Recorded' = Recorded
    BY <1>3, Zenon DEF Recorded
  <2> QED
    BY <1>1, <1>3, <2>1, <2>2, Zenon DEF RecorderTypes
<1>7. ListingIsCurrent'
  BY <1>3 DEF ListingIsCurrent
<1> QED
  BY <1>4, <1>5, <1>6, <1>7, Zenon DEF RecorderInv, Lists

LEMMA RestartInv == RecorderInv /\ newEventRecorder => RecorderInv'
<1> SUFFICES ASSUME RecorderInv, newEventRecorder PROVE RecorderInv'
  OBVIOUS
<1>1. /\ restarts < MaxRestarts /\ restarts' = restarts + 1
      /\ monitorChannel' = NoMessages /\ recorderChannel' = NoMessages /\ relayed' = NoEvent
      /\ eventsList' = loadEvents /\ lastEvents' = loadEvents
      /\ hourDue' = FALSE /\ saveTimer' = FALSE /\ saveFailed' = FALSE
      /\ UNCHANGED <<now, arrived, file>>
  BY Zenon DEF newEventRecorder
<1>2. RecorderTypes
  BY Zenon DEF RecorderInv
<1>3. /\ now \in Nat /\ now' = now /\ restarts \in Nat /\ restarts' \in 0 .. MaxRestarts
      /\ restarts' \in Nat /\ restarts <= restarts' /\ now <= now' /\ durationMonth \in Nat
  BY <1>1, <1>2, RecorderAssumption DEF RecorderTypes
<1>4. Recorded \subseteq Recorded' /\ file \in [Users -> Seq(Recorded')]
  BY <1>2, <1>3, RecordedGrows, Zenon
<1> DEFINE R == {e \in Recorded : IsRecent(e)}
<1>5. ASSUME NEW u \in Users
      PROVE  /\ eventsList'[u] \in Seq(R) /\ eventsList'[u] \in Seq(Recorded')
             /\ (Ordered(eventsList[u]) /\ Together(eventsList[u]) /\ LastRecent(eventsList[u]))'
  <2>1. eventsList'[u] = LoadList(file[u]) /\ file[u] \in Seq(Recorded)
    BY <1>1, <1>2 DEF loadEvents, RecorderTypes
  <2>2. eventsList'[u] \in Seq(R)
    BY <2>1, LoadedRecent
  <2>3. PICK l : l = eventsList'[u]
    OBVIOUS
  <2>4. R \subseteq Recorded'
    BY <1>4
  <2>5. l \in Seq(R) /\ DOMAIN l = 1 .. Len(l) /\ Len(l) \in Nat /\ \A i \in DOMAIN l : l[i] \in R
    BY <2>2, <2>3
  <2>6. eventsList'[u] \in Seq(Recorded')
    BY <2>2, <2>4, SeqGrows, SMTT(30)
  <2>7. ASSUME NEW i \in DOMAIN l
        PROVE  /\ l[i].run # restarts' /\ l[i].CreateTime \in Nat
               /\ l[i].CreateTime <= now /\ now - l[i].CreateTime <= durationMonth
    <3>1. l[i] \in Recorded /\ IsRecent(l[i])
      BY <2>5
    <3>2. /\ l[i].CreateTime \in Nat /\ l[i].CreateTime <= now
          /\ l[i].run \in Nat /\ l[i].run <= restarts
      BY <1>2, <3>1, RecordedIs, Zenon
    <3> QED
      BY <1>1, <1>3, <3>1, <3>2 DEF IsRecent
  <2>8. Ordered(l)'
    BY <2>7, Zenon DEF Ordered
  <2>9. Together(l)'
    <3> SUFFICES ASSUME NEW i \in DOMAIN l, NEW j \in DOMAIN l
                 PROVE  l[i].CreateTime - l[j].CreateTime <= durationMonth
      BY DEF Together
    <3> QED
      BY <1>3, <2>7, SMTT(30)
  <2>10. LastRecent(l)'
    <3> SUFFICES ASSUME l # <<>> PROVE now - l[Len(l)].CreateTime <= durationMonth
      <4>1. durationMonth + 0 = durationMonth
        BY <1>3
      <4> QED
        BY <1>1, <4>1 DEF LastRecent
    <3>1. Len(l) \in DOMAIN l
      BY <2>5
    <3> QED
      BY <2>7, <3>1
  <2>11. Ordered(eventsList[u])' /\ Together(eventsList[u])'
    BY <2>3, <2>8, <2>9, Zenon DEF Ordered, Together
  <2>12. LastRecent(eventsList[u])'
    BY <2>3, <2>10 DEF LastRecent
  <2> QED
    BY <2>2, <2>6, <2>11, <2>12
<1>6. NoMessages \in [Types -> Seq(Messages)]
  BY DEF NoMessages
<1>7. RecorderTypes'
  <2>1. eventsList' \in [Users -> Seq(Recorded')]
    BY <1>1, <1>5, Zenon DEF loadEvents
  <2> QED
    BY <1>1, <1>2, <1>3, <1>4, <1>6, <2>1, Zenon DEF RecorderTypes
<1>8. ASSUME NEW t \in Types PROVE Queued(t)'
  <2>1. Queue(<<>>, t, arrived')
    BY RecorderAssumption DEF Queue
  <2>2. monitorChannel'[t] = <<>> /\ recorderChannel'[t] = <<>> /\ ~Held(t)'
    BY <1>1 DEF NoMessages, Held
  <2> QED
    BY <2>1, <2>2 DEF Queued
<1>9. ListingIsCurrent'
  BY <1>1 DEF ListingIsCurrent
<1> QED
  BY <1>5, <1>7, <1>8, <1>9, Zenon DEF RecorderInv, Lists

LEMMA HourInv == RecorderInv /\ Hour => RecorderInv'
<1> SUFFICES ASSUME RecorderInv, Hour PROVE RecorderInv'
  OBVIOUS
<1>1. /\ now < MaxTime /\ ~hourDue /\ now' = now + 1 /\ hourDue' = TRUE
      /\ UNCHANGED <<restarts, eventsList, lastEvents, file, saveTimer, saveFailed>>
      /\ UNCHANGED <<arrived, channelVars>>
  BY Zenon DEF Hour, listVars, saveVars
<1>2. RecorderTypes /\ ListingIsCurrent /\ Lists /\ \A t \in Types : Queued(t)
  BY Zenon DEF RecorderInv
<1>3. /\ \A t \in Types : Queued(t)'
      /\ \A n \in 1 .. MaxEvents, t \in Types : Past(n, t) => Past(n, t)'
  BY <1>1, <1>2, QueuesKept, Zenon
<1>4. /\ now \in Nat /\ now' \in Nat /\ now' \in 0 .. MaxTime /\ now <= now' /\ durationMonth \in Nat
      /\ restarts' \in Nat /\ restarts <= restarts'
  BY <1>1, <1>2, RecorderAssumption DEF RecorderTypes
<1>5. eventsList \in [Users -> Seq(Recorded')] /\ file \in [Users -> Seq(Recorded')]
  BY <1>2, <1>4, RecordedGrows, Zenon
<1>6. RecorderTypes'
  <2>1. UNCHANGED <<arrived, monitorChannel, recorderChannel, relayed>>
    BY <1>1, Zenon DEF channelVars
  <2> QED
    BY <1>1, <1>2, <1>4, <1>5, <2>1 DEF RecorderTypes
<1>7. ASSUME NEW u \in Users
      PROVE  (Ordered(eventsList[u]) /\ Together(eventsList[u]) /\ LastRecent(eventsList[u]))'
  <2>1. PICK q : q = eventsList[u]
    OBVIOUS
  <2>2. /\ q \in Seq(Recorded) /\ Ordered(q) /\ Together(q) /\ LastRecent(q)
        /\ Len(q) \in Nat /\ DOMAIN q = 1 .. Len(q) /\ \A i \in DOMAIN q : q[i] \in Recorded
    BY <1>2, <2>1, Listed, Zenon DEF Lists
  <2>3. Ordered(q)'
    BY <1>1, <1>2, <1>3, <2>2, OrderedKept, Zenon
  <2>4. eventsList'[u] = q
    BY <1>1, <2>1
  <2>5. Ordered(eventsList[u])' /\ Together(eventsList[u])'
    BY <1>1, <2>2, <2>3, <2>4, Zenon DEF Ordered, Together
  <2>6. LastRecent(q)'
    <3> SUFFICES ASSUME q # <<>>
                 PROVE  now' - q[Len(q)].CreateTime <= durationMonth + (IF hourDue' THEN 1 ELSE 0)
      BY Zenon DEF LastRecent
    <3>1. Len(q) \in DOMAIN q
      BY <2>2
    <3>2. q[Len(q)].CreateTime \in Nat
      BY <1>2, <2>2, <3>1, RecordedIs, Zenon
    <3>3. now - q[Len(q)].CreateTime <= durationMonth + 0
      BY <1>1, <2>2 DEF LastRecent
    <3>4. (IF hourDue' THEN 1 ELSE 0) = 1
      BY <1>1, Zenon
    <3>5. now' - q[Len(q)].CreateTime <= durationMonth + 1
      BY <1>1, <1>4, <3>2, <3>3, SMTT(30)
    <3> QED
      BY <3>4, <3>5, Zenon
  <2>7. LastRecent(eventsList[u])'
    BY <2>4, <2>6 DEF LastRecent
  <2> QED
    BY <2>5, <2>7
<1>8. ListingIsCurrent'
  BY <1>1, <1>2, Zenon DEF ListingIsCurrent
<1> QED
  BY <1>3, <1>6, <1>7, <1>8, Zenon DEF RecorderInv, Lists

LEMMA RecorderNextInv == RecorderInv /\ Next => RecorderInv'
BY NotifyInv, TakeInv, RelayInv, RecordInv, ExpireInv, ListingInv, RestartInv, HourInv, Zenon
   DEF Next, RecorderSteps

LEMMA RecorderStutters == RecorderInv /\ UNCHANGED vars => RecorderInv'
<1> SUFFICES ASSUME RecorderInv, UNCHANGED vars PROVE RecorderInv'
  OBVIOUS
<1>1. /\ UNCHANGED <<now, hourDue, listVars, saveVars, restarts>>
      /\ UNCHANGED <<arrived, channelVars>>
      /\ UNCHANGED <<arrived, monitorChannel, recorderChannel, relayed>>
  BY Zenon DEF vars, channelVars
<1>2. RecorderTypes /\ \A t \in Types : Queued(t)
  BY Zenon DEF RecorderInv
<1>3. /\ \A t \in Types : Queued(t)'
      /\ \A n \in 1 .. MaxEvents, t \in Types : Past(n, t) => Past(n, t)'
  BY <1>1, <1>2, QueuesKept, Zenon
<1>4. ListingIsCurrent' /\ Lists' /\ RecorderTypes'
  BY <1>1, <1>2, <1>3, ListsKept, Zenon DEF RecorderTypes
<1> QED
  BY <1>3, <1>4, Zenon DEF RecorderInv

(***************************************************************************)
(* The inductive invariant of the recorder, on which the theorems below    *)
(* rest.                                                                   *)
(***************************************************************************)
THEOREM RecorderInvariance == Spec => []RecorderInv
<1>1. Init => RecorderInv
  BY RecorderInitInv
<1>2. RecorderInv /\ [Next]_vars => RecorderInv'
  BY RecorderNextInv, RecorderStutters
<1> QED
  BY <1>1, <1>2, PTL DEF Spec

(***************************************************************************)
(* No listing from before an event or an expiry is shown or saved: a       *)
(* listing that eventLoop keeps is what the lists hold.                    *)
(***************************************************************************)
THEOREM CurrentListing == Spec => []ListingIsCurrent
<1>1. RecorderInv => ListingIsCurrent
  BY Zenon DEF RecorderInv
<1> QED
  BY <1>1, RecorderInvariance, PTL

(***************************************************************************)
(* Whatever the order of the lists after any number of restarts            *)
(* (loadEvents turns them around), expireOldEvents lets no event become    *)
(* older than two months and an hour.                                      *)
(***************************************************************************)
THEOREM OldForgotten == Spec => []ForgottenInTime
<1>1. ASSUME RecorderInv, NEW u \in Users, NEW e \in Range(eventsList[u])
      PROVE  now - e.CreateTime <= 2 * durationMonth + 1
  <2>1. RecorderTypes /\ Lists
    BY <1>1, Zenon DEF RecorderInv
  <2>2. PICK q : q = eventsList[u]
    OBVIOUS
  <2>3. /\ Ordered(q) /\ Together(q) /\ LastRecent(q) /\ Len(q) \in Nat
        /\ DOMAIN q = 1 .. Len(q) /\ \A i \in DOMAIN q : q[i] \in Recorded
    BY <2>1, <2>2, Listed, Zenon DEF Lists
  <2>4. PICK i \in DOMAIN q : e = q[i]
    BY <2>2 DEF Range
  <2> DEFINE last == Len(q)
             f == q[last]
  <2>5. last \in DOMAIN q /\ i \in 1 .. last /\ q # <<>>
    BY <2>3, <2>4, SMTT(30)
  <2>6. e.CreateTime \in Nat /\ f.CreateTime \in Nat
    BY <2>1, <2>3, <2>4, <2>5, RecordedIs
  <2>7. now - f.CreateTime <= durationMonth + 1
    <3>1. durationMonth \in Nat /\ now \in Nat
      BY <2>1, RecorderAssumption DEF RecorderTypes
    <3>2. now - f.CreateTime <= durationMonth + 0 \/ now - f.CreateTime <= durationMonth + 1
      BY <2>3, <2>5 DEF LastRecent
    <3> QED
      BY <2>6, <3>1, <3>2
  <2>8. e.CreateTime >= f.CreateTime \/ f.CreateTime - e.CreateTime <= durationMonth
    <3>1. CASE i = last
      BY <2>4, <2>6, <3>1
    <3>2. CASE i < last /\ e.run = restarts
      BY <2>3, <2>4, <2>5, <3>2, Zenon DEF Ordered
    <3>3. CASE i < last /\ e.run # restarts
      <4>1. f.run # restarts
        BY <2>3, <2>4, <2>5, <3>3, Zenon DEF Ordered, InOrder
      <4> QED
        BY <2>3, <2>4, <2>5, <3>3, <4>1, Zenon DEF Together
    <3> QED
      BY <2>3, <2>5, <3>1, <3>2, <3>3, SMTT(30)
  <2>9. now \in Nat /\ durationMonth \in Nat
    BY <2>1, RecorderAssumption DEF RecorderTypes
  <2> HIDE DEF f
  <2> QED
    BY <2>6, <2>7, <2>8, <2>9
<1>2. RecorderInv => ForgottenInTime
  BY <1>1, Zenon DEF ForgottenInTime
<1> QED
  BY <1>2, RecorderInvariance, PTL

(***************************************************************************)
(* What a process has recorded is listed newest first and in front of what *)
(* it has loaded, events of one type in the order of their arrival         *)
(* although each passes two channels and two loops, and recordCertEvent    *)
(* makes up for a short delay.                                             *)
(***************************************************************************)
THEOREM Chronicle == Spec => []ListedAsHappened
<1>0. RecorderInv => RecorderTypes
  BY Zenon DEF RecorderInv
<1>1. ASSUME RecorderInv, NEW u \in Users, NEW i \in DOMAIN eventsList[u], NEW j \in DOMAIN eventsList[u],
             i < j, eventsList[u][j].run = restarts
      PROVE  InOrder(eventsList[u][i], eventsList[u][j])
  BY <1>1, Zenon DEF RecorderInv, Lists, Ordered
<1>2. ASSUME RecorderInv, NEW u \in Users, NEW e \in Range(eventsList[u]),
             \/ e.issued % 3600 = 0 /\ e.delay <= 60 /\ e.issued - e.delay >= 3600
             \/ e.issued % 60 = 0 /\ e.delay <= 1 /\ 60 <= e.issued - e.delay /\ e.issued <= 3600
      PROVE  e.LifetimeSeconds = e.issued
  <2>1. RecorderTypes
    BY <1>0, <1>2
  <2>2. e \in Recorded
    BY <2>1, Listed DEF Range
  <2>3. e.issued \in Nat /\ e.delay \in Nat
    BY <2>1, <2>2, RecordedIs
  <2>4. e.delay <= e.issued /\ e.LifetimeSeconds = RoundLifetime(e.issued - e.delay)
    BY <2>2, SMTT(30) DEF Recorded
  <2> QED
    BY SMTT(30), <1>2, <2>3, <2>4, Rounded
<1>3. RecorderInv => ListedAsHappened
  <2> SUFFICES ASSUME RecorderInv, NEW u \in Users
               PROVE  /\ \A i, j \in DOMAIN eventsList[u] :
                            i < j /\ eventsList[u][j].run = restarts =>
                                InOrder(eventsList[u][i], eventsList[u][j])
                      /\ \A e \in Range(eventsList[u]) :
                            \/ e.issued % 3600 = 0 /\ e.delay <= 60 /\ e.issued - e.delay >= 3600
                            \/ e.issued % 60 = 0 /\ e.delay <= 1 /\ 60 <= e.issued - e.delay /\ e.issued <= 3600
                            => e.LifetimeSeconds = e.issued
    BY DEF ListedAsHappened
  <2> QED
    BY <1>1, <1>2, SMTT(30)
<1> QED
  BY <1>3, RecorderInvariance, PTL

(* Events as they were recorded, in channels that are not overfull *)
LEMMA RecorderTyped == RecorderInv => TypeOK
<1> SUFFICES ASSUME RecorderInv PROVE TypeOK
  OBVIOUS
<1>1. RecorderTypes /\ ListingIsCurrent
  BY Zenon DEF RecorderInv
<1>2. Recorded \subseteq Events
  BY DEF Recorded
<1>3. eventsList \in [Users -> Seq(Events)] /\ file \in [Users -> Seq(Events)]
  <2>1. \A u \in Users : eventsList[u] \in Seq(Events) /\ file[u] \in Seq(Events)
    BY <1>1, <1>2, SeqGrows DEF RecorderTypes
  <2> QED
    BY <1>1, <2>1 DEF RecorderTypes
<1>4. ASSUME NEW t \in Types, NEW c \in {monitorChannel[t], recorderChannel[t]}
      PROVE  c \in Seq(Messages) /\ Len(c) <= bufferLength /\ \A m \in Range(c) : m.type = t
  <2>1. c \in Seq(Messages) /\ Queue(c, t, arrived)
    BY Channels
  <2> QED
    BY <2>1, SMTT(30) DEF Queue, Range
<1>5. lastEvents = NoListing \/ lastEvents \in [Users -> Seq(Events)]
  BY <1>1, <1>3, Zenon DEF ListingIsCurrent
<1> QED
  BY <1>1, <1>3, <1>4, <1>5 DEF RecorderTypes, TypeOK

(***************************************************************************)
(* No channel of the monitor or the recorder holds more than it can or an  *)
(* event of another type, and lists, listing and file hold events as they  *)
(* were recorded (eventrecorder/impl.go).                                  *)
(***************************************************************************)
THEOREM TypeCorrect == Spec => []TypeOK
BY RecorderTyped, RecorderInvariance, PTL

-----------------------------------------------------------------------------
(* What is saved, and what a restart brings back *)

LEMMA DueStep == RecorderInv /\ UnsavedIsDue /\ [Next]_vars => UnsavedIsDue'
<1> SUFFICES ASSUME RecorderInv, UnsavedIsDue, [Next]_vars PROVE UnsavedIsDue'
  OBVIOUS
<1>1. ASSUME UNCHANGED <<eventsList, file, saveTimer, saveFailed>> PROVE UnsavedIsDue'
  BY <1>1, Zenon DEF UnsavedIsDue
<1>2. ASSUME saveTimer' = TRUE \/ saveFailed' = TRUE PROVE UnsavedIsDue'
  BY <1>2, Zenon DEF UnsavedIsDue
<1>3. ASSUME NEW t \in Types, NEW u \in Users, notify(t, u) PROVE UnsavedIsDue'
  BY <1>1, <1>3, Zenon DEF notify, listVars, saveVars
<1>4. ASSUME NEW t \in Types, TakeEvent(t) \/ recordEvent(t) PROVE UnsavedIsDue'
  <2>1. CASE TakeEvent(t)
    BY <1>1, <2>1, Zenon DEF TakeEvent, listVars, saveVars
  <2>2. CASE recordEvent(t)
    BY <1>2, <2>2, Zenon DEF recordEvent
  <2> QED
    BY <1>4, <2>1, <2>2
<1>5. CASE RelayEvent \/ requestEvents \/ Hour \/ UNCHANGED vars
  <2>1. UNCHANGED <<eventsList, file, saveTimer, saveFailed>>
    BY <1>5, Zenon DEF RelayEvent, requestEvents, Hour, listVars, saveVars, vars
  <2> QED
    BY <1>1, <2>1
<1>6. CASE expireOldEvents
  <2>1. \/ saveTimer' = TRUE
        \/ UNCHANGED <<eventsList, file, saveTimer, saveFailed>>
    BY <1>6, Zenon DEF expireOldEvents
  <2> QED
    BY <1>1, <1>2, <2>1, Zenon
<1>7. CASE saveEvents
  <2>1. /\ lastEvents' = getEventsList /\ eventsList' = eventsList
        /\ file' = lastEvents' \/ saveFailed' = TRUE
    BY <1>7, Zenon DEF saveEvents
  <2>2. getEventsList = eventsList
    BY Zenon DEF RecorderInv, ListingIsCurrent, getEventsList
  <2>3. ASSUME file' = eventsList' PROVE UnsavedIsDue'
    BY <2>3, Zenon DEF UnsavedIsDue
  <2> QED
    BY <1>2, <2>1, <2>2, <2>3, Zenon
<1>8. CASE newEventRecorder
  <2>1. eventsList' = loadEvents /\ file' = file
    BY <1>8, Zenon DEF newEventRecorder
  <2>2. file \in [Users -> Seq(Recorded)]
    BY Zenon DEF RecorderInv, RecorderTypes
  <2>3. ASSUME NEW u \in Users PROVE Range(eventsList'[u]) \subseteq Range(file'[u])
    <3>1. eventsList'[u] = LoadList(file[u]) /\ file[u] \in Seq(Recorded)
      BY <2>1, <2>2 DEF loadEvents
    <3> QED
      BY <2>1, <3>1, LoadedBack
  <2> QED
    BY <2>3, Zenon DEF UnsavedIsDue
<1> QED
  BY <1>3, <1>4, <1>5, <1>6, <1>7, <1>8, SMTT(30) DEF Next, RecorderSteps

(***************************************************************************)
(* Whatever is listed and not in the file waits for the save timer, unless *)
(* the last save has failed (eventLoop, expireOldEvents, loadEvents).      *)
(***************************************************************************)
THEOREM SaveIsDue == Spec => []UnsavedIsDue
<1>1. Init => UnsavedIsDue
  BY Zenon DEF Init, UnsavedIsDue
<1> QED
  BY <1>1, DueStep, RecorderInvariance, PTL DEF Spec

(***************************************************************************)
(* A process that is killed when no save is due and started again lists    *)
(* every event of the last month that was listed before, however often the *)
(* lists have been saved, expired and turned around (loadEvents).          *)
(***************************************************************************)
THEOREM Restored == Spec => RestartLosesOnlyUnsaved
<1> DEFINE Kept == restarts' # restarts /\ ~saveTimer /\ ~saveFailed =>
                      \A u \in Users : \A e \in Range(eventsList[u]) :
                          IsRecent(e) => e \in Range(eventsList'[u])
<1>1. RecorderInv /\ UnsavedIsDue /\ [Next]_vars => [Kept]_vars
  <2> SUFFICES ASSUME RecorderInv, UnsavedIsDue, Next, restarts' # restarts, ~saveTimer, ~saveFailed,
                      NEW u \in Users, NEW e \in Range(eventsList[u]), IsRecent(e)
               PROVE  e \in Range(eventsList'[u])
    BY Zenon
  <2>1. newEventRecorder
    BY Zenon DEF Next, RecorderSteps, notify, TakeEvent, recordEvent, RelayEvent,
       expireOldEvents, requestEvents, saveEvents, Hour
  <2>2. eventsList' = loadEvents
    BY <2>1, Zenon DEF newEventRecorder
  <2>3. file \in [Users -> Seq(Recorded)]
    BY Zenon DEF RecorderInv, RecorderTypes
  <2>4. eventsList'[u] = LoadList(file[u]) /\ file[u] \in Seq(Recorded)
    BY <2>2, <2>3 DEF loadEvents
  <2>5. e \in Range(file[u])
    BY Zenon DEF UnsavedIsDue
  <2> QED
    BY <2>4, <2>5, LoadedBack
<1> QED
  BY <1>1, RecorderInvariance, SaveIsDue, PTL DEF Spec, RestartLosesOnlyUnsaved

-----------------------------------------------------------------------------
(* The whole way of an event *)

(* Each step of the whole is one of each half, or leaves it alone. *)
LEMMA PathHalves ==
    ASSUME [PathNext]_pathVars PROVE (Next \/ UNCHANGED vars) /\ [PipeNext]_pipeVars
<1>1. CASE UNCHANGED pathVars
  BY <1>1, Zenon DEF pathVars
<1>2. ASSUME NEW g \in Goroutines, monitor(g)
      PROVE  (Next \/ UNCHANGED vars) /\ PipeNext
  <2>1. Next \/ UNCHANGED vars
    BY <1>2, Zenon DEF monitor, Next
  <2>2. PipeNext
    BY <1>2, Zenon DEF monitor, PipeNext, PipeSteps, startMonitoring
  <2> QED
    BY <2>1, <2>2
<1>3. CASE PipeSteps /\ UNCHANGED <<notified, vars, origin>>
  BY <1>3, Zenon DEF PipeNext
<1>4. CASE RecorderSteps /\ UNCHANGED <<pipeVars, origin>>
  BY <1>4, Zenon DEF Next
<1>5. CASE Restart
  BY <1>5, Zenon DEF Restart, Next, PipeNext
<1> QED
  BY <1>1, <1>2, <1>3, <1>4, <1>5, Zenon DEF PathNext

(***************************************************************************)
(* No channel of the daemon, the monitor or the recorder holds more than   *)
(* it can, and each variable of the two components has its type, whichever *)
(* of them runs, and when both do.                                         *)
(***************************************************************************)
THEOREM MCTypeCorrect == MCSpec => []MCTypeOK
<1>1. MCInit => RecorderInv /\ PipeInv
  BY RecorderInitInv, InitInv, Zenon DEF MCInit, PathInit
<1>2. RecorderInv /\ PipeInv /\ [MCNext]_allVars => RecorderInv' /\ PipeInv'
  <2> SUFFICES ASSUME RecorderInv, PipeInv, [MCNext]_allVars PROVE RecorderInv' /\ PipeInv'
    OBVIOUS
  <2>1. CASE part = "path" /\ SmallPath /\ UNCHANGED part
    <3>1. PathNext
      BY <2>1, Zenon DEF SmallPath, PathNext, RecorderSteps
    <3> QED
      BY <3>1, PathHalves, RecorderNextInv, RecorderStutters, PipeStep, Zenon
  <2>2. CASE ~(part = "path" /\ SmallPath /\ UNCHANGED part)
    <3>1. (Next \/ UNCHANGED vars) /\ [PipeNext]_pipeVars
      BY <2>2, Zenon DEF MCNext, allVars, pathVars
    <3> QED
      BY <3>1, RecorderNextInv, RecorderStutters, PipeStep, Zenon
  <2> QED
    BY <2>1, <2>2
<1>3. RecorderInv /\ PipeInv => MCTypeOK
  BY RecorderTyped, PipeTyped, Zenon DEF MCTypeOK
<1> QED
  BY <1>1, <1>2, <1>3, PTL DEF MCSpec

(***************************************************************************)
(* Each event that arrived was passed on by a goroutine, and those that    *)
(* came one at a time have come by the order of publication.               *)
(***************************************************************************)
Traced ==
    /\ origin \in Seq(Goroutines \X Nat) /\ Len(origin) = arrived
    /\ \A i \in DOMAIN origin :
          \E j \in DOMAIN notified[origin[i][1]] : notified[origin[i][1]][j] = origin[i][2]
    /\ \A i, j \in DOMAIN origin : i < j /\ OneAtATime(i, j) => PublishedBefore(i, j)

PathInv == RecorderInv /\ PipeInv /\ Succession /\ Traced

LEMMA PathInitInv == PathInit => PathInv
<1> SUFFICES ASSUME PathInit PROVE Traced
  BY RecorderInitInv, InitInv, SuccessionInit, Zenon DEF PathInit, PathInv
<1>1. origin = <<>> /\ arrived = 0
  BY Zenon DEF PathInit, Init
<1> QED
  BY <1>1 DEF Traced

(* What a goroutine has passed on stays on record, and whether it was alone *)
(* is settled before it passes anything on.                                 *)
LEMMA FeedGrows ==
    ASSUME PipeInv, Succession, [PipeNext]_pipeVars, NEW g \in Goroutines,
           NEW j \in DOMAIN notified[g]
    PROVE  /\ j \in DOMAIN notified'[g] /\ notified'[g][j] = notified[g][j]
           /\ alone'[g] = alone[g]
<1>1. CASE UNCHANGED pipeVars
  BY <1>1, Zenon DEF pipeVars, monitorVars
<1>2. CASE PipeNext
  <2>1. at[g] # "unborn"
    <3>1. DOMAIN <<>> = {}
      OBVIOUS
    <3> QED
      BY <3>1, Zenon DEF Succession
  <2>2. alone'[g] = alone[g] \/ at[g] = "unborn"
    BY <1>2, StepsOfOne, SMTT(30)
  <2>3. notified'[g] = notified[g] \/ receiveV0(g)
    BY <1>2, StepsOfOne
  <2>4. CASE notified'[g] = notified[g]
    BY <2>1, <2>2, <2>4, Zenon
  <2>5. CASE receiveV0(g)
    <3>1. j \in DOMAIN notified'[g] /\ notified'[g][j] = notified[g][j]
      BY <2>5, Received, Zenon
    <3> QED
      BY <2>1, <2>2, <3>1, Zenon
  <2> QED
    BY <2>3, <2>4, <2>5, Zenon
<1> QED
  BY <1>1, <1>2, Zenon

(* The goroutine and the number of an event that arrived *)
LEMMA OriginIs ==
    ASSUME Traced, NEW i \in DOMAIN origin
    PROVE  /\ origin[i][1] \in Goroutines /\ origin[i][2] \in Nat
           /\ \E j \in DOMAIN notified[origin[i][1]] : notified[origin[i][1]][j] = origin[i][2]
<1>1. origin \in Seq(Goroutines \X Nat)
  BY Zenon DEF Traced
<1>2. origin[i] \in Goroutines \X Nat
  BY <1>1
<1>3. origin[i][1] \in Goroutines /\ origin[i][2] \in Nat
  BY <1>2
<1> QED
  BY <1>3, Zenon DEF Traced

(* Steps with which no event arrives *)
LEMMA TracedKept ==
    ASSUME PipeInv, Succession, Traced, [PipeNext]_pipeVars, origin' = origin, arrived' = arrived
    PROVE  Traced'
<1>1. origin' \in Seq(Goroutines \X Nat) /\ Len(origin') = arrived'
  BY Zenon DEF Traced
<1>2. ASSUME NEW i \in DOMAIN origin
      PROVE  /\ \E j \in DOMAIN notified'[origin[i][1]] : notified'[origin[i][1]][j] = origin[i][2]
             /\ alone'[origin[i][1]] = alone[origin[i][1]]
  <2> DEFINE g == origin[i][1]
  <2>1. g \in Goroutines
    BY OriginIs, SMTT(30)
  <2>2. PICK j \in DOMAIN notified[g] : notified[g][j] = origin[i][2]
    BY OriginIs, SMTT(30)
  <2>3. /\ j \in DOMAIN notified'[g] /\ notified'[g][j] = notified[g][j]
        /\ alone'[g] = alone[g]
    BY <2>1, FeedGrows
  <2> QED
    BY <2>2, <2>3, Zenon
<1>3. ASSUME NEW i \in DOMAIN origin, NEW j \in DOMAIN origin, i < j, OneAtATime(i, j)'
      PROVE  PublishedBefore(i, j)'
  <2>1. OneAtATime(i, j)
    BY <1>2, <1>3, Zenon DEF OneAtATime
  <2>2. PublishedBefore(i, j)
    BY <1>3, <2>1, Zenon DEF Traced
  <2> QED
    BY <2>2, Zenon DEF PublishedBefore
<1> QED
  BY <1>1, <1>2, <1>3, Zenon DEF Traced

(* An event arrives: it is newer than those that came before it through the *)
(* same goroutine, and through those that had stopped when it was started.  *)
LEMMA TracedMore ==
    ASSUME PipeInv, Succession, Traced, arrived \in Nat, NEW g \in Goroutines, receiveV0(g),
           arrived' = arrived + 1, origin' = Append(origin, <<g, Head(wire[conn[g]])>>)
    PROVE  Traced'
<1> DEFINE e == Head(wire[conn[g]])
           n == Len(origin) + 1
<1>1. /\ e \in 1 .. published
      /\ Len(notified[g]) + 1 \in DOMAIN notified'[g] /\ notified'[g][Len(notified[g]) + 1] = e
      /\ \A j \in DOMAIN notified[g] : notified[g][j] < e
      /\ \A s : Ahead(s, g) => \A j \in DOMAIN s : s[j] < e
  BY Received, Zenon
<1>2. at[g] = "read" /\ alone' = alone
  BY ZenonT(40) DEF receiveV0, Go, monitorVars
<1>3. e \in Nat
  <2> HIDE DEF e
  <2>1. e \in 1 .. published
    BY <1>1, Zenon
  <2> QED
    BY <2>1
<1>4. origin' = Append(origin, <<g, e>>)
  OBVIOUS
<1>5. /\ origin \in Seq(Goroutines \X Nat) /\ Len(origin) = arrived
  BY Zenon DEF Traced
<1>6. PipeNext
  BY Zenon DEF PipeNext, PipeSteps, startMonitoring
<1> HIDE DEF e
<1>7. /\ Len(origin) \in Nat /\ DOMAIN origin = 1 .. Len(origin)
      /\ <<g, e>> \in Goroutines \X Nat
  BY <1>3, <1>5, SMTT(30)
<1>8. /\ origin' \in Seq(Goroutines \X Nat) /\ Len(origin') = n /\ DOMAIN origin' = 1 .. n
      /\ \A i \in DOMAIN origin : origin'[i] = origin[i]
      /\ origin'[n] = <<g, e>>
  BY <1>4, <1>5, <1>7, SMTT(30)
<1>9. origin'[n][1] = g /\ origin'[n][2] = e
  BY <1>8
<1>10. \A i \in DOMAIN origin' : i = n \/ (i \in DOMAIN origin /\ i < n)
  BY <1>7, <1>8, SMTT(30)
<1>11. \A i, j \in DOMAIN origin' : i < j => i \in DOMAIN origin
  BY <1>7, <1>8
<1> HIDE DEF n
<1>12. ASSUME NEW i \in DOMAIN origin'
       PROVE  \E j \in DOMAIN notified'[origin'[i][1]] :
                 notified'[origin'[i][1]][j] = origin'[i][2]
  <2>1. CASE i = n
    BY <1>1, <1>9, <2>1, Zenon
  <2>2. CASE i \in DOMAIN origin
    <3> DEFINE h == origin[i][1]
    <3>1. h \in Goroutines
      BY <2>2, OriginIs, SMTT(30)
    <3>2. PICK j \in DOMAIN notified[h] : notified[h][j] = origin[i][2]
      BY <2>2, OriginIs, SMTT(30)
    <3>3. j \in DOMAIN notified'[h] /\ notified'[h][j] = notified[h][j]
      BY <1>6, <3>1, FeedGrows
    <3> QED
      BY <1>8, <2>2, <3>2, <3>3, Zenon
  <2> QED
    BY <1>10, <2>1, <2>2, Zenon
<1>13. ASSUME NEW i \in DOMAIN origin', NEW j \in DOMAIN origin', i < j, OneAtATime(i, j)'
       PROVE  PublishedBefore(i, j)'
  <2>1. i \in DOMAIN origin /\ origin'[i] = origin[i]
    BY <1>8, <1>11, <1>13, Zenon
  <2>2. CASE j \in DOMAIN origin
    <3>1. origin'[j] = origin[j]
      BY <1>8, <2>2, Zenon
    <3>2. OneAtATime(i, j)
      BY <1>2, <1>13, <2>1, <3>1, Zenon DEF OneAtATime
    <3>3. PublishedBefore(i, j)
      BY <1>13, <2>1, <2>2, <3>2, Zenon DEF Traced
    <3> QED
      BY <2>1, <3>1, <3>3, Zenon DEF PublishedBefore
  <2>3. CASE j = n
    <3> DEFINE h == origin[i][1]
    <3>1. h \in Goroutines
      BY <2>1, OriginIs, SMTT(30)
    <3>2. PICK l \in DOMAIN notified[h] : notified[h][l] = origin[i][2]
      BY <2>1, OriginIs
    <3>3. h = g \/ (h < g /\ alone[g])
      BY <1>2, <1>9, <1>13, <2>1, <2>3, Zenon DEF OneAtATime
    <3>4. notified[h][l] < e
      <4>1. CASE h = g
        BY <1>1, <4>1, Zenon
      <4>2. CASE h < g /\ alone[g]
        <5>1. at[g] # "unborn"
          BY <1>2
        <5>2. Ahead(notified[h], g)
          BY <3>1, <4>2, <5>1, Zenon DEF Succession
        <5> QED
          BY <1>1, <5>2, Zenon
      <4> QED
        BY <3>3, <4>1, <4>2, Zenon
    <3> QED
      BY <1>9, <2>1, <2>3, <3>2, <3>4, ZenonT(40) DEF PublishedBefore
  <2> QED
    BY <1>10, <2>2, <2>3, Zenon
<1>14. Len(origin') = arrived'
  BY <1>5, <1>8 DEF n
<1> QED
  BY <1>8, <1>12, <1>13, <1>14, Zenon DEF Traced

LEMMA PathStep == PathInv /\ [PathNext]_pathVars => PathInv'
<1> SUFFICES ASSUME PathInv, [PathNext]_pathVars PROVE PathInv'
  OBVIOUS
<1>1. RecorderInv /\ PipeInv /\ Succession /\ Traced
  BY Zenon DEF PathInv
<1>2. (Next \/ UNCHANGED vars) /\ [PipeNext]_pipeVars
  BY PathHalves, Zenon
<1>3. RecorderInv' /\ PipeInv' /\ Succession'
  BY <1>1, <1>2, RecorderNextInv, RecorderStutters, PipeStep, SuccessionStep, Zenon
<1> SUFFICES Traced'
  BY <1>3, Zenon DEF PathInv
<1>4. ASSUME origin' = origin, arrived' = arrived PROVE Traced'
  BY <1>1, <1>2, <1>4, TracedKept, Zenon
<1>5. CASE UNCHANGED pathVars
  BY <1>4, <1>5, Zenon DEF pathVars, vars
<1>6. ASSUME NEW g \in Goroutines, monitor(g) PROVE Traced'
  <2>1. CASE UNCHANGED <<vars, origin>>
    BY <1>4, <2>1, Zenon DEF vars
  <2>2. CASE /\ \E t \in Types, u \in Users : notify(t, u)
             /\ origin' = Append(origin, <<g, Head(wire[conn[g]])>>)
    <3>1. receiveV0(g)
      BY <1>6, Zenon DEF monitor
    <3>2. arrived' = arrived + 1
      BY <2>2, Zenon DEF notify
    <3>3. arrived \in 0 .. MaxEvents
      BY <1>1, Zenon DEF RecorderInv, RecorderTypes
    <3>4. arrived \in Nat
      BY <3>3
    <3> QED
      BY <1>1, <2>2, <3>1, <3>2, <3>4, TracedMore, Zenon
  <2> QED
    BY <1>6, <2>1, <2>2, Zenon DEF monitor
<1>7. CASE PipeSteps /\ UNCHANGED <<notified, vars, origin>>
  BY <1>4, <1>7, Zenon DEF vars
<1>8. CASE RecorderSteps /\ UNCHANGED <<pipeVars, origin>>
  <2>1. arrived' = arrived
    BY <1>8, Zenon DEF RecorderSteps, TakeEvent, recordEvent, RelayEvent, expireOldEvents,
       requestEvents, saveEvents, Hour
  <2> QED
    BY <1>4, <1>8, <2>1, Zenon
<1>9. CASE Restart
  BY <1>4, <1>9, Zenon DEF Restart, newEventRecorder
<1> QED
  BY <1>5, <1>6, <1>7, <1>8, <1>9, Zenon DEF PathNext

(***************************************************************************)
(* From the daemon to the list of a user: the events of one type that this *)
(* process has recorded are listed newest first by the order in which      *)
(* keymasterd published them, and none is listed twice, although channels  *)
(* on both sides overflow, connections break and are made again, and both  *)
(* processes are stopped and started; across goroutines of the monitor for *)
(* one address as well, as long as they follow each other.                 *)
(***************************************************************************)
THEOREM EndToEnd == PathSpec => []ListedAsPublished
<1>1. ASSUME PathInv, NEW u \in Users,
             NEW i \in DOMAIN eventsList[u], NEW j \in DOMAIN eventsList[u], i < j,
             eventsList[u][j].run = restarts, eventsList[u][i].type = eventsList[u][j].type,
             OneAtATime(eventsList[u][j].id, eventsList[u][i].id)
      PROVE  PublishedBefore(eventsList[u][j].id, eventsList[u][i].id)
  <2> DEFINE e == eventsList[u][i]
             f == eventsList[u][j]
  <2>1. RecorderInv /\ RecorderTypes /\ Traced
    BY <1>1, Zenon DEF PathInv, RecorderInv
  <2>2. Ordered(eventsList[u])
    BY <2>1, Zenon DEF RecorderInv, Lists
  <2>3. InOrder(e, f)
    BY <1>1, <2>2, Zenon DEF Ordered
  <2>4. e.run = restarts /\ e.id > f.id
    BY <1>1, <2>3, Zenon DEF InOrder
  <2>5. e.id <= arrived /\ f.id <= arrived
    BY <1>1, <2>2, <2>4, Zenon DEF Ordered, Past
  <2>6. e \in Recorded /\ f \in Recorded
    BY <2>1, Listed, SMTT(30)
  <2>7. e.id \in 1 .. MaxEvents /\ f.id \in 1 .. MaxEvents
    BY <2>6 DEF Recorded, Events
  <2>8. origin \in Seq(Goroutines \X Nat) /\ Len(origin) = arrived
    BY <2>1, Zenon DEF Traced
  <2>9. DOMAIN origin = 1 .. arrived
    BY <2>8
  <2>10. arrived \in 0 .. MaxEvents
    BY <2>1, Zenon DEF RecorderTypes
  <2>11. e.id \in DOMAIN origin /\ f.id \in DOMAIN origin /\ f.id < e.id
    BY <2>4, <2>5, <2>7, <2>9, <2>10
  <2> QED
    BY <1>1, <2>1, <2>11, Zenon DEF Traced
<1>2. PathInv => ListedAsPublished
  BY <1>1, Zenon DEF ListedAsPublished
<1> QED
  BY <1>2, PathInitInv, PathStep, PTL DEF PathSpec
=============================================================================
