------------------------- MODULE PendingAuthProofs -------------------------
(***************************************************************************)
(* Proofs about the three tables of authentications that wait for an       *)
(* answer: localAuthData (U2FSign), vipPushCookie (VIPPush) and            *)
(* pendingOauth2 (FederatedLogin), for any number of keys, requests and    *)
(* values and any times of expiry and cleanup.                             *)
(***************************************************************************)
EXTENDS MCPendingAuth, TLAPS

-----------------------------------------------------------------------------
(***************************************************************************)
(* What holds of each of the three tables.  Values are numbered as they    *)
(* are drawn; an entry's value has been stored; the cleanup loop is never  *)
(* late; and the next cleanup comes in time for every entry.               *)
(***************************************************************************)
Holds(k, v) == pending[k] # NoEntry /\ pending[k].value = v

Book ==
    /\ stored \subseteq 1 .. drawn
    /\ now <= nextCleanup /\ nextCleanup <= now + secsBetweenCleanup
    /\ \A k \in Keys : pending[k] # NoEntry =>
          /\ pending[k].value \in stored
          /\ nextCleanup <= pending[k].ExpiresAt + secsBetweenCleanup

TableOK == TableTypeOK /\ Book

(* NoEntry is not an entry. *)
LEMMA NoEntryIsNoEntry == NoEntry \notin Entry
<1> SUFFICES ASSUME NoEntry \in Entry PROVE FALSE
  OBVIOUS
<1>1. "value" \in DOMAIN NoEntry
  BY DEF Entry
<1>2. "value" \notin DOMAIN NoEntry
  BY DEF NoEntry
<1> QED BY <1>1, <1>2

(* Parts of the types of a table. *)
LEMMA TableParts ==
    ASSUME TableTypeOK
    PROVE  /\ now \in Nat /\ nextCleanup \in Nat /\ drawn \in Nat /\ MaxTime \in Nat
           /\ MaxValue \in Nat /\ maxAge \in Nat /\ secsBetweenCleanup \in Nat
           /\ now \in 0 .. MaxTime /\ drawn \in 0 .. MaxValue
           /\ nextCleanup \in 0 .. MaxTime + secsBetweenCleanup
           /\ LastIssue + maxAge \in Nat
           /\ pending \in [Keys -> Entry \cup {NoEntry}]
           /\ stored \subseteq Values /\ claimed \subseteq Values
           /\ \A k \in Keys : pending[k] # NoEntry =>
                 pending[k] \in Entry /\ pending[k].value \in Values /\ pending[k].ExpiresAt \in Nat
<1>1. MaxTime \in Nat /\ LastIssue + maxAge \in Nat
  BY PendingTableAssumption DEF MaxTime
<1>2. /\ now \in 0 .. MaxTime /\ drawn \in 0 .. MaxValue
      /\ nextCleanup \in 0 .. MaxTime + secsBetweenCleanup
      /\ pending \in [Keys -> Entry \cup {NoEntry}]
      /\ stored \subseteq Values /\ claimed \subseteq Values
  BY Zenon DEF TableTypeOK
<1>3. ASSUME NEW k \in Keys, pending[k] # NoEntry
      PROVE  pending[k] \in Entry /\ pending[k].value \in Values /\ pending[k].ExpiresAt \in Nat
  <2>1. pending[k] \in Entry
    BY <1>2, <1>3
  <2> QED
    BY <1>1, <2>1 DEF Entry
<1> QED
  BY <1>1, <1>2, <1>3, PendingTableAssumption

LEMMA TableStart == TableInit => TableOK
<1> SUFFICES ASSUME TableInit PROVE TableOK
  OBVIOUS
<1> USE PendingTableAssumption DEF TableInit
<1>1. TableTypeOK
  BY DEF TableTypeOK, MaxTime
<1>2. Book
  BY DEF Book
<1> QED BY <1>1, <1>2 DEF TableOK

(* An entry is stored: it will be removed in time. *)
LEMMA StoreOK ==
    ASSUME TableOK, NEW k \in Keys, NEW v \in Values, Store(k, v), v <= drawn',
           drawn' \in 0 .. MaxValue, drawn <= drawn', UNCHANGED <<now, nextCleanup, claimed>>
    PROVE  TableOK'
<1> DEFINE e == [value |-> v, ExpiresAt |-> now + maxAge]
<1>1. /\ now <= LastIssue /\ pending' = [pending EXCEPT ![k] = e] /\ stored' = stored \cup {v}
      /\ now' = now /\ nextCleanup' = nextCleanup /\ claimed' = claimed
  BY Zenon DEF Store
<1>2. /\ now \in Nat /\ nextCleanup \in Nat /\ drawn \in Nat /\ drawn' \in Nat
      /\ maxAge \in Nat /\ secsBetweenCleanup \in Nat /\ v \in Nat /\ v >= 1
      /\ pending \in [Keys -> Entry \cup {NoEntry}]
      /\ now + maxAge \in 0 .. LastIssue + maxAge
  BY <1>1, TableParts, PendingTableAssumption DEF TableOK, Values
<1>3. e \in Entry /\ e.value = v /\ e.ExpiresAt = now + maxAge
  BY <1>2 DEF Entry
<1> HIDE DEF e
<1>4. pending' \in [Keys -> Entry \cup {NoEntry}] /\ stored' \subseteq Values
  BY <1>1, <1>2, <1>3, TableParts DEF TableOK
<1>5. TableTypeOK'
  BY <1>1, <1>4, Zenon DEF TableTypeOK, TableOK
<1>6. pending'[k] = e /\ \A j \in Keys \ {k} : pending'[j] = pending[j]
  BY <1>1, <1>2
<1>7. /\ stored \subseteq 1 .. drawn
      /\ now <= nextCleanup /\ nextCleanup <= now + secsBetweenCleanup
      /\ \A j \in Keys : pending[j] # NoEntry =>
            /\ pending[j].value \in stored
            /\ nextCleanup <= pending[j].ExpiresAt + secsBetweenCleanup
  BY Zenon DEF TableOK, Book
<1>8. stored' \subseteq 1 .. drawn'
  BY <1>1, <1>2, <1>7
<1>9. nextCleanup <= (now + maxAge) + secsBetweenCleanup
  BY <1>2, <1>7
<1>10. ASSUME NEW j \in Keys, pending'[j] # NoEntry
       PROVE  /\ pending'[j].value \in stored'
              /\ nextCleanup' <= pending'[j].ExpiresAt + secsBetweenCleanup
  <2>1. CASE j = k
    BY <1>1, <1>3, <1>6, <1>9, <2>1
  <2>2. CASE j # k
    <3>1. pending'[j] = pending[j] /\ pending[j] # NoEntry
      BY <1>6, <1>10, <2>2
    <3> QED
      BY <1>1, <1>7, <3>1
  <2> QED
    BY <2>1, <2>2
<1>11. Book'
  BY <1>1, <1>7, <1>8, <1>10, Zenon DEF Book
<1> QED BY <1>5, <1>11 DEF TableOK

(* Entries that go away, or an answer that finds one. *)
LEMMA ShrinkOK ==
    ASSUME TableOK, UNCHANGED <<now, nextCleanup, drawn, stored>>, claimed' \subseteq Values,
           pending' \in [Keys -> Entry \cup {NoEntry}],
           \A k \in Keys : pending'[k] = pending[k] \/ pending'[k] = NoEntry
    PROVE  TableOK'
<1>1. TableTypeOK'
  BY Zenon DEF TableOK, TableTypeOK
<1>2. Book'
  BY Zenon DEF TableOK, Book
<1> QED BY <1>1, <1>2 DEF TableOK

LEMMA WithoutType ==
    ASSUME TableTypeOK, NEW K
    PROVE  /\ Without(K) \in [Keys -> Entry \cup {NoEntry}]
           /\ \A k \in Keys : Without(K)[k] = IF k \in K THEN NoEntry ELSE pending[k]
BY TableParts DEF Without

(* performStateCleanup, the crash and the clock. *)
LEMMA CleanupOK == ASSUME TableOK, performStateCleanup PROVE TableOK'
<1>1. /\ now >= nextCleanup /\ pending' = Without(ExpiredKeys)
      /\ nextCleanup' = now + secsBetweenCleanup
      /\ now' = now /\ drawn' = drawn /\ stored' = stored /\ claimed' = claimed
  BY Zenon DEF performStateCleanup
<1>2. /\ now \in Nat /\ nextCleanup \in Nat /\ secsBetweenCleanup \in Nat /\ MaxTime \in Nat
      /\ now \in 0 .. MaxTime
      /\ \A k \in Keys : pending[k] # NoEntry => pending[k].ExpiresAt \in Nat
  BY TableParts, Zenon DEF TableOK
<1>3. /\ pending' \in [Keys -> Entry \cup {NoEntry}]
      /\ \A k \in Keys : pending'[k] = IF k \in ExpiredKeys THEN NoEntry ELSE pending[k]
  BY <1>1, WithoutType DEF TableOK
<1>4. nextCleanup' \in 0 .. MaxTime + secsBetweenCleanup
  BY <1>1, <1>2
<1>5. TableTypeOK'
  BY <1>1, <1>3, <1>4, Zenon DEF TableOK, TableTypeOK
<1>6. now' <= nextCleanup' /\ nextCleanup' <= now' + secsBetweenCleanup
  BY <1>1, <1>2
<1>7. ASSUME NEW k \in Keys, pending'[k] # NoEntry
      PROVE  /\ pending'[k].value \in stored'
             /\ nextCleanup' <= pending'[k].ExpiresAt + secsBetweenCleanup
  <2>1. k \notin ExpiredKeys /\ pending'[k] = pending[k] /\ pending[k] # NoEntry
    BY <1>3, <1>7
  <2>2. ~(pending[k].ExpiresAt < now)
    BY <2>1 DEF ExpiredKeys, Expired
  <2>3. now + secsBetweenCleanup <= pending[k].ExpiresAt + secsBetweenCleanup
    BY <1>2, <2>1, <2>2
  <2>4. pending[k].value \in stored
    BY <2>1, Zenon DEF TableOK, Book
  <2> QED
    BY <1>1, <2>1, <2>3, <2>4
<1>8. stored' \subseteq 1 .. drawn'
  BY <1>1, Zenon DEF TableOK, Book
<1> QED BY <1>5, <1>6, <1>7, <1>8, Zenon DEF TableOK, Book

LEMMA CrashOK == ASSUME TableOK, TableCrash PROVE TableOK'
<1>1. /\ \A k \in Keys : pending'[k] = NoEntry
      /\ pending' \in [Keys -> Entry \cup {NoEntry}] /\ nextCleanup' = now
      /\ now' = now /\ drawn' = drawn /\ stored' = stored /\ claimed' = claimed
  BY DEF TableCrash
<1>2. now \in Nat /\ secsBetweenCleanup \in Nat /\ MaxTime \in Nat /\ now \in 0 .. MaxTime
  BY TableParts, Zenon DEF TableOK
<1>3. /\ nextCleanup' \in 0 .. MaxTime + secsBetweenCleanup
      /\ now' <= nextCleanup' /\ nextCleanup' <= now' + secsBetweenCleanup
  BY <1>1, <1>2
<1>4. TableTypeOK'
  BY <1>1, <1>3, Zenon DEF TableOK, TableTypeOK
<1> QED BY <1>1, <1>3, <1>4, Zenon DEF TableOK, Book

LEMMA TickOK == ASSUME TableOK, Tick PROVE TableOK'
<1>1. /\ now < MaxTime /\ now < nextCleanup /\ now' = now + 1
      /\ nextCleanup' = nextCleanup /\ pending' = pending /\ drawn' = drawn
      /\ stored' = stored /\ claimed' = claimed
  BY Zenon DEF Tick
<1>2. /\ now \in Nat /\ nextCleanup \in Nat /\ secsBetweenCleanup \in Nat /\ MaxTime \in Nat
      /\ now \in 0 .. MaxTime
  BY TableParts, Zenon DEF TableOK
<1>3. nextCleanup <= now + secsBetweenCleanup
  BY Zenon DEF TableOK, Book
<1>4. /\ now' \in 0 .. MaxTime
      /\ now' <= nextCleanup' /\ nextCleanup' <= now' + secsBetweenCleanup
  BY <1>1, <1>2, <1>3
<1>5. TableTypeOK'
  BY <1>1, <1>4, Zenon DEF TableOK, TableTypeOK
<1> QED BY <1>1, <1>4, <1>5, Zenon DEF TableOK, Book

-----------------------------------------------------------------------------
(***************************************************************************)
(* What a step of a table is in PendingLifecycle.                          *)
(***************************************************************************)
LifecycleStep == Lifecycle!Next \/ UNCHANGED <<StatusOfValues, claimed>>

Held(v) == \E k \in Keys : Holds(k, v)

LEMMA Statuses ==
    ASSUME Book
    PROVE  /\ StatusOfValues = [v \in Values |-> StatusOfValues[v]]
           /\ \A v \in Values : StatusOfValues[v] =
                 IF v \notin stored THEN "new" ELSE IF Held(v) THEN "open" ELSE "closed"
<1>1. StatusOfValues = [v \in Values |-> StatusOfValues[v]]
  BY DEF StatusOfValues
<1>2. ASSUME NEW v \in Values
      PROVE  StatusOfValues[v] =
                IF v \notin stored THEN "new" ELSE IF Held(v) THEN "open" ELSE "closed"
  <2>1. Held(v) => v \in stored
    BY Zenon DEF Book, Held, Holds
  <2> QED
    BY <2>1 DEF StatusOfValues, Held, Holds
<1> QED BY <1>1, <1>2, Zenon

(* A fresh value is stored, perhaps in the place of another. *)
LEMMA IssueStep ==
    ASSUME TableOK, Book', NEW k \in Keys, NEW v \in Values \ stored, Store(k, v),
           UNCHANGED claimed
    PROVE  LifecycleStep
<1> DEFINE e == [value |-> v, ExpiresAt |-> now + maxAge]
           C == {w \in Values : w \in stored /\ Held(w) /\ ~Held(w)'}
<1>1. pending' = [pending EXCEPT ![k] = e] /\ stored' = stored \cup {v}
  BY Zenon DEF Store
<1>2. pending \in [Keys -> Entry \cup {NoEntry}]
  BY TableParts DEF TableOK
<1>3. pending'[k] = e /\ \A j \in Keys \ {k} : pending'[j] = pending[j]
  BY <1>1, <1>2
<1>4. e # NoEntry /\ e.value = v
  BY DEF NoEntry
<1> HIDE DEF e
<1>5. Holds(k, v)' /\ Held(v)'
  BY <1>3, <1>4, Zenon DEF Held, Holds
<1>6. \A w \in Values \ {v} : Held(w)' => Held(w)
  <2> SUFFICES ASSUME NEW w \in Values \ {v}, NEW j \in Keys, Holds(j, w)' PROVE Holds(j, w)
    BY Zenon DEF Held
  <2>1. j # k
    BY <1>3, <1>4 DEF Holds
  <2> QED
    BY <1>3, <2>1, Zenon DEF Holds
<1>7. Book
  BY DEF TableOK
<1>8. /\ StatusOfValues = [w \in Values |-> StatusOfValues[w]]
      /\ \A w \in Values : StatusOfValues[w] =
            IF w \notin stored THEN "new" ELSE IF Held(w) THEN "open" ELSE "closed"
  BY <1>7, Statuses
<1>9. /\ StatusOfValues' = [w \in Values |-> StatusOfValues'[w]]
      /\ \A w \in Values : StatusOfValues'[w] =
            IF w \notin stored' THEN "new" ELSE IF Held(w)' THEN "open" ELSE "closed"
  <2>1. StatusOfValues' = [w \in Values |-> StatusOfValues'[w]]
    BY DEF StatusOfValues
  <2>2. ASSUME NEW w \in Values
        PROVE  StatusOfValues'[w] =
                  IF w \notin stored' THEN "new" ELSE IF Held(w)' THEN "open" ELSE "closed"
    <3>1. Held(w)' => w \in stored'
      BY Zenon DEF Book, Held, Holds
    <3> QED
      BY <3>1 DEF StatusOfValues, Held, Holds
  <2> QED
    BY <2>1, <2>2, Zenon
<1>10. C \in SUBSET Lifecycle!Open
  BY <1>8 DEF Lifecycle!Open
<1>11. StatusOfValues[v] = "new"
  BY <1>8
<1>12. \A w \in Values : StatusOfValues'[w] =
          IF w = v THEN "open" ELSE IF w \in C THEN "closed" ELSE StatusOfValues[w]
  BY <1>1, <1>5, <1>6, <1>8, <1>9
<1>13. StatusOfValues' = [Lifecycle!Closing(C) EXCEPT ![v] = "open"]
  <2> HIDE DEF C
  <2>1. StatusOfValues' = [w \in Values |->
          IF w = v THEN "open" ELSE IF w \in C THEN "closed" ELSE StatusOfValues[w]]
    BY <1>9, <1>12
  <2> QED
    BY <2>1, Zenon DEF Lifecycle!Closing
<1>14. Lifecycle!Issue
  BY <1>10, <1>11, <1>13, Zenon DEF Lifecycle!Issue
<1> QED
  BY <1>14 DEF LifecycleStep, Lifecycle!Next

(* An answer finds an entry. *)
LEMMA ClaimStep ==
    ASSUME TableOK, NEW k \in Keys, Lookup(k), UNCHANGED <<pending, stored>>
    PROVE  LifecycleStep
<1>1. pending[k] # NoEntry /\ claimed' = claimed \cup {pending[k].value}
  BY Zenon DEF Lookup
<1>2. Book /\ pending[k].value \in stored /\ pending[k].value \in Values
  BY <1>1, TableParts DEF TableOK, Book
<1>3. Held(pending[k].value)
  BY <1>1, Zenon DEF Held, Holds
<1>4. pending[k].value \in Lifecycle!Open
  BY <1>2, <1>3, Statuses DEF Lifecycle!Open
<1>5. StatusOfValues' = StatusOfValues
  BY DEF StatusOfValues
<1>6. Lifecycle!Claim
  BY <1>1, <1>4, <1>5, Zenon DEF Lifecycle!Claim
<1> QED
  BY <1>6 DEF LifecycleStep, Lifecycle!Next

(* Entries go away. *)
LEMMA CloseStep ==
    ASSUME TableOK, Book', UNCHANGED <<stored, claimed>>,
           \A k \in Keys : pending'[k] = pending[k] \/ pending'[k] = NoEntry
    PROVE  LifecycleStep
<1> DEFINE C == {w \in Values : w \in stored /\ Held(w) /\ ~Held(w)'}
<1>1. Book
  BY DEF TableOK
<1>2. /\ StatusOfValues = [w \in Values |-> StatusOfValues[w]]
      /\ \A w \in Values : StatusOfValues[w] =
            IF w \notin stored THEN "new" ELSE IF Held(w) THEN "open" ELSE "closed"
  BY <1>1, Statuses
<1>3. /\ StatusOfValues' = [w \in Values |-> StatusOfValues'[w]]
      /\ \A w \in Values : StatusOfValues'[w] =
            IF w \notin stored' THEN "new" ELSE IF Held(w)' THEN "open" ELSE "closed"
  <2>1. StatusOfValues' = [w \in Values |-> StatusOfValues'[w]]
    BY DEF StatusOfValues
  <2>2. ASSUME NEW w \in Values
        PROVE  StatusOfValues'[w] =
                  IF w \notin stored' THEN "new" ELSE IF Held(w)' THEN "open" ELSE "closed"
    <3>1. Held(w)' => w \in stored'
      BY Zenon DEF Book, Held, Holds
    <3> QED
      BY <3>1 DEF StatusOfValues, Held, Holds
  <2> QED
    BY <2>1, <2>2, Zenon
<1>4. \A w \in Values : Held(w)' => Held(w)
  BY Zenon DEF Held, Holds
<1>5. C \in SUBSET Lifecycle!Open
  BY <1>2 DEF Lifecycle!Open
<1>6. \A w \in Values : StatusOfValues'[w] = IF w \in C THEN "closed" ELSE StatusOfValues[w]
  BY <1>2, <1>3, <1>4
<1>7. StatusOfValues' = Lifecycle!Closing(C)
  <2> HIDE DEF C
  <2> QED
    BY <1>3, <1>6 DEF Lifecycle!Closing
<1>8. Lifecycle!Close
  BY <1>5, <1>7 DEF Lifecycle!Close
<1> QED
  BY <1>8 DEF LifecycleStep, Lifecycle!Next

-----------------------------------------------------------------------------
(* U2FSign *)

U2FTypes == U2FTypeOK /\ response \in [Responses -> ResponseState \cup {NoResponse}]

(* No challenge is filed under two names. *)
Distinct == \A j, k \in Keys, v \in Values : Holds(j, v) /\ Holds(k, v) => j = k

(***************************************************************************)
(* What a response in progress knows of the challenge it looked up: only   *)
(* its user can still have it; the user has no other one, unless one was   *)
(* stored since; and only a removal that has raced can take others with it.*)
(***************************************************************************)
Known ==
    \A r \in Responses : Active(r) =>
        /\ response[r].value \in stored
        /\ \A k \in Keys : Holds(k, response[r].value) => k = response[r].user
        /\ ~response[r].replaced /\ pending[response[r].user] # NoEntry
             => pending[response[r].user].value = response[r].value
        /\ ~response[r].raced => response[r].beside = {}

(* What has been answered and removed is not in the table. *)
Gone == settled \subseteq stored /\ \A k \in Keys, v \in settled : ~Holds(k, v)

U2FInv == U2FTypes /\ Book /\ Distinct /\ Known /\ Gone

LEMMA U2FParts ==
    ASSUME U2FTypes
    PROVE  /\ TableTypeOK /\ settled \subseteq Values
           /\ response \in [Responses -> ResponseState \cup {NoResponse}]
BY Zenon DEF U2FTypes, U2FTypeOK

(* The shapes of a response's state. *)
LEMMA ResponseShapes ==
    ASSUME U2FTypes, NEW r \in Responses
    PROVE  /\ Active(r) <=> response[r] \in ResponseState
           /\ Active(r) <=> response[r] # NoResponse
           /\ Deleting(r) => Active(r)
           /\ Active(r) => /\ response[r].pc \in {"checking", "deleting"}
                           /\ response[r].user \in Keys /\ response[r].value \in Values
                           /\ response[r].replaced \in BOOLEAN /\ response[r].raced \in BOOLEAN
                           /\ response[r].beside \subseteq Keys
<1>1. response[r] \in ResponseState \/ response[r] = NoResponse
  BY U2FParts
<1>2. NoResponse.pc = "idle"
  BY DEF NoResponse
<1>3. \A q \in ResponseState :
         /\ q.pc \in {"checking", "deleting"} /\ q.user \in Keys /\ q.value \in Values
         /\ q.replaced \in BOOLEAN /\ q.raced \in BOOLEAN /\ q.beside \subseteq Keys
         /\ q.pc # "idle"
  BY DEF ResponseState
<1> QED
  BY <1>1, <1>2, <1>3 DEF Active, Deleting

(* A response whose removal has raced, and one whose challenge is replaced. *)
LEMMA MarkedResponse ==
    ASSUME NEW q \in ResponseState, NEW U \in SUBSET Keys
    PROVE  /\ [q EXCEPT !.raced = TRUE, !.beside = @ \cup U] \in ResponseState
           /\ [q EXCEPT !.raced = TRUE, !.beside = @ \cup U].pc = q.pc
           /\ [q EXCEPT !.raced = TRUE, !.beside = @ \cup U].user = q.user
           /\ [q EXCEPT !.raced = TRUE, !.beside = @ \cup U].value = q.value
           /\ [q EXCEPT !.raced = TRUE, !.beside = @ \cup U].replaced = q.replaced
           /\ [q EXCEPT !.raced = TRUE, !.beside = @ \cup U].raced = TRUE
           /\ [q EXCEPT !.replaced = TRUE] \in ResponseState
           /\ [q EXCEPT !.replaced = TRUE].pc = q.pc
           /\ [q EXCEPT !.replaced = TRUE].user = q.user
           /\ [q EXCEPT !.replaced = TRUE].value = q.value
           /\ [q EXCEPT !.replaced = TRUE].replaced = TRUE
           /\ [q EXCEPT !.replaced = TRUE].raced = q.raced
           /\ [q EXCEPT !.replaced = TRUE].beside = q.beside
BY Zenon DEF ResponseState

(***************************************************************************)
(* The state of a response after another write of the map: it is about the *)
(* same challenge, and what it does not call raced has not raced.          *)
(***************************************************************************)
Follows(q, p) ==
    /\ q.pc = p.pc /\ q.user = p.user /\ q.value = p.value
    /\ ~q.replaced => ~p.replaced
    /\ ~q.raced => ~p.raced /\ q.beside = p.beside

LEMMA RacedResponses ==
    ASSUME U2FTypes, NEW U \in SUBSET Keys
    PROVE  /\ Raced(U) \in [Responses -> ResponseState \cup {NoResponse}]
           /\ \A r \in Responses :
                 /\ ~Active(r) => Raced(U)[r] = NoResponse
                 /\ Active(r) => Raced(U)[r] \in ResponseState /\ Follows(Raced(U)[r], response[r])
<1> SUFFICES ASSUME NEW r \in Responses
             PROVE  /\ Raced(U)[r] \in ResponseState \cup {NoResponse}
                    /\ ~Active(r) => Raced(U)[r] = NoResponse
                    /\ Active(r) => /\ Raced(U)[r] \in ResponseState
                                    /\ Follows(Raced(U)[r], response[r])
  BY Zenon DEF Raced
<1>1. CASE Deleting(r)
  <2>1. response[r] \in ResponseState /\ Active(r)
    BY <1>1, ResponseShapes
  <2>2. Raced(U)[r] = [response[r] EXCEPT !.raced = TRUE, !.beside = @ \cup U]
    BY <1>1 DEF Raced
  <2>3. PICK q \in ResponseState : q = response[r]
    BY <2>1, Zenon
  <2> DEFINE m == [q EXCEPT !.raced = TRUE, !.beside = @ \cup U]
  <2>4. /\ m \in ResponseState /\ m.pc = q.pc /\ m.user = q.user /\ m.value = q.value
        /\ m.replaced = q.replaced /\ m.raced = TRUE
    BY MarkedResponse, Zenon
  <2>5. Raced(U)[r] = m
    BY <2>2, <2>3
  <2> HIDE DEF m
  <2>6. Follows(m, q)
    BY <2>4 DEF Follows
  <2> QED
    BY <2>1, <2>3, <2>4, <2>5, <2>6, Zenon
<1>2. CASE ~Deleting(r)
  <2>1. Raced(U)[r] = response[r]
    BY <1>2 DEF Raced
  <2> QED
    BY <2>1, ResponseShapes DEF Follows
<1> QED BY <1>1, <1>2

LEMMA ReplacedResponses ==
    ASSUME U2FTypes, NEW u \in Keys
    PROVE  /\ Replaced(u) \in [Responses -> ResponseState \cup {NoResponse}]
           /\ \A r \in Responses :
                 /\ ~Active(r) => Replaced(u)[r] = NoResponse
                 /\ Active(r) => /\ Replaced(u)[r] \in ResponseState
                                 /\ Follows(Replaced(u)[r], response[r])
                                 /\ response[r].user = u => Replaced(u)[r].replaced
<1> SUFFICES ASSUME NEW r \in Responses
             PROVE  /\ Replaced(u)[r] \in ResponseState \cup {NoResponse}
                    /\ ~Active(r) => Replaced(u)[r] = NoResponse
                    /\ Active(r) => /\ Replaced(u)[r] \in ResponseState
                                    /\ Follows(Replaced(u)[r], response[r])
                                    /\ response[r].user = u => Replaced(u)[r].replaced
  BY Zenon DEF Replaced
<1> DEFINE q == Raced({u})[r]
<1>1. /\ ~Active(r) => q = NoResponse
      /\ Active(r) => q \in ResponseState /\ Follows(q, response[r])
  BY RacedResponses
<1>2. Replaced(u)[r] = IF Active(r) /\ response[r].user = u THEN [q EXCEPT !.replaced = TRUE] ELSE q
  BY DEF Replaced
<1> HIDE DEF q
<1>3. CASE Active(r) /\ response[r].user = u
  <2>1. PICK p \in ResponseState : p = q /\ Follows(p, response[r])
    BY <1>1, <1>3, Zenon
  <2> DEFINE m == [p EXCEPT !.replaced = TRUE]
  <2>2. /\ m \in ResponseState /\ m.pc = p.pc /\ m.user = p.user /\ m.value = p.value
        /\ m.replaced = TRUE /\ m.raced = p.raced /\ m.beside = p.beside
    BY MarkedResponse, Zenon
  <2>3. Replaced(u)[r] = m
    BY <1>2, <1>3, <2>1
  <2> HIDE DEF m
  <2>4. Follows(m, response[r])
    BY <2>1, <2>2 DEF Follows
  <2> QED
    BY <1>3, <2>2, <2>3, <2>4
<1>4. CASE ~(Active(r) /\ response[r].user = u)
  BY <1>1, <1>2, <1>4
<1> QED BY <1>3, <1>4

LEMMA InitU2FInv == U2FInit => U2FInv
<1> SUFFICES ASSUME U2FInit PROVE U2FInv
  OBVIOUS
<1>1. /\ TableInit /\ response = [r \in Responses |-> NoResponse] /\ settled = {}
  BY Zenon DEF U2FInit
<1>2. TableTypeOK /\ Book /\ \A k \in Keys : pending[k] = NoEntry
  BY <1>1, TableStart DEF TableOK, TableInit
<1>3. U2FTypes
  BY <1>1, <1>2 DEF U2FTypes, U2FTypeOK
<1>4. \A r \in Responses : ~Active(r)
  BY <1>1 DEF Active, NoResponse
<1>5. Distinct /\ Known /\ Gone
  BY <1>1, <1>2, <1>4, Zenon DEF Distinct, Known, Gone, Holds
<1> QED BY <1>2, <1>3, <1>5 DEF U2FInv

(* Entries go away, and the responses go on with the same challenges.       *)
LEMMA U2FShrink ==
    ASSUME U2FInv, TableOK', stored' = stored,
           response' \in [Responses -> ResponseState \cup {NoResponse}],
           \A k \in Keys : pending'[k] = pending[k] \/ pending'[k] = NoEntry,
           \A r \in Responses : response'[r] # NoResponse =>
              Active(r) /\ response'[r].user = response[r].user
                        /\ response'[r].value = response[r].value
                        /\ (~response'[r].replaced => ~response[r].replaced)
                        /\ (~response'[r].raced => ~response[r].raced
                                                   /\ response'[r].beside = response[r].beside),
           settled' \subseteq stored, \A k \in Keys, v \in settled' : ~Holds(k, v)'
    PROVE  U2FInv'
<1>1. U2FTypes'
  <2>1. settled' \subseteq Values
    BY TableParts DEF U2FInv, U2FTypes, U2FTypeOK
  <2>2. \A r \in Responses : response'[r] \in ResponseState \cup {NoResponse}
    OBVIOUS
  <2>3. TableTypeOK'
    BY DEF TableOK
  <2> QED
    BY <2>1, <2>2, <2>3, Zenon DEF U2FTypes, U2FTypeOK
<1>2. \A k \in Keys : \A v : Holds(k, v)' => Holds(k, v)
  BY Zenon DEF Holds
<1>3. Distinct'
  BY <1>2, Zenon DEF U2FInv, Distinct
<1>4. Known'
  <2> SUFFICES ASSUME NEW r \in Responses, Active(r)'
               PROVE  /\ response'[r].value \in stored'
                      /\ \A k \in Keys : Holds(k, response[r].value)' => k = response'[r].user
                      /\ ~response'[r].replaced /\ pending'[response'[r].user] # NoEntry
                            => pending'[response'[r].user].value = response'[r].value
                      /\ ~response'[r].raced => response'[r].beside = {}
    BY Zenon DEF Known
  <2>1. response'[r] # NoResponse
    BY DEF Active, NoResponse
  <2>2. /\ Active(r) /\ response'[r].user = response[r].user
        /\ response'[r].value = response[r].value
        /\ (~response'[r].replaced => ~response[r].replaced)
        /\ (~response'[r].raced => ~response[r].raced /\ response'[r].beside = response[r].beside)
    BY <2>1, Zenon
  <2>3. /\ response[r].value \in stored
        /\ \A k \in Keys : Holds(k, response[r].value) => k = response[r].user
        /\ ~response[r].replaced /\ pending[response[r].user] # NoEntry
              => pending[response[r].user].value = response[r].value
        /\ ~response[r].raced => response[r].beside = {}
    BY <2>2, Zenon DEF U2FInv, Known
  <2>4. response[r].user \in Keys
    BY <2>2, ResponseShapes DEF U2FInv
  <2>5. pending'[response[r].user] # NoEntry => pending'[response[r].user] = pending[response[r].user]
    BY <2>4, Zenon
  <2>6. \A k \in Keys : Holds(k, response[r].value)' => k = response'[r].user
    <3> SUFFICES ASSUME NEW k \in Keys, pending'[k] # NoEntry, pending'[k].value = response'[r].value
                 PROVE  k = response'[r].user
      BY Zenon DEF Holds
    <3>1. Holds(k, response[r].value)
      BY <2>2, Zenon DEF Holds
    <3> QED
      BY <2>2, <2>3, <3>1, Zenon
  <2>7. response'[r].value \in stored'
    BY <2>2, <2>3, Zenon
  <2>8. ~response'[r].replaced /\ pending'[response'[r].user] # NoEntry
            => pending'[response'[r].user].value = response'[r].value
    BY <2>2, <2>3, <2>5, Zenon
  <2>9. ~response'[r].raced => response'[r].beside = {}
    BY <2>2, <2>3, Zenon
  <2> QED
    BY <2>6, <2>7, <2>8, <2>9, Zenon
<1>5. Gone'
  BY Zenon DEF Gone
<1>6. Book'
  BY DEF TableOK
<1> QED BY <1>1, <1>3, <1>4, <1>5, <1>6, Zenon DEF U2FInv

(* A fresh challenge is filed: the ones that responses know are older. *)
LEMMA RequestInv == ASSUME U2FInv, NEW u \in Keys, u2fSignRequest(u) PROVE U2FInv' /\ LifecycleStep
<1>1. PICK n : n = drawn + 1
  OBVIOUS
<1> DEFINE e == [value |-> n, ExpiresAt |-> now + maxAge]
<1>2. /\ drawn < MaxValue /\ drawn' = n /\ Store(u, n)
      /\ response' = Replaced(u) /\ pending' = [pending EXCEPT ![u] = e]
      /\ stored' = stored \cup {n}
      /\ now' = now /\ nextCleanup' = nextCleanup /\ claimed' = claimed /\ settled' = settled
  BY <1>1, Zenon DEF u2fSignRequest, Store
<1>3. /\ U2FTypes /\ TableTypeOK /\ Book /\ TableOK /\ stored \subseteq 1 .. drawn
      /\ settled \subseteq stored
  BY U2FParts DEF U2FInv, TableOK, Book, Gone
<1>4. /\ drawn \in Nat /\ MaxValue \in Nat /\ pending \in [Keys -> Entry \cup {NoEntry}]
      /\ stored \subseteq Values
  BY <1>3, TableParts
<1>5. /\ n \in Values /\ n \in 0 .. MaxValue /\ n <= drawn' /\ drawn <= drawn'
      /\ n \notin stored
  BY <1>1, <1>2, <1>3, <1>4 DEF Values
<1>6. e # NoEntry /\ e.value = n
  BY DEF NoEntry
<1> HIDE DEF e
<1>7. drawn' \in 0 .. MaxValue
  BY <1>2, <1>5
<1>8. TableOK'
  BY <1>2, <1>3, <1>5, <1>7, StoreOK
<1>9. pending'[u] = e /\ \A k \in Keys \ {u} : pending'[k] = pending[k]
  BY <1>2, <1>4
<1>10. /\ response' \in [Responses -> ResponseState \cup {NoResponse}]
      /\ \A r \in Responses :
            /\ ~Active(r) => response'[r] = NoResponse
            /\ Active(r) => /\ response'[r] \in ResponseState
                            /\ Follows(response'[r], response[r])
                            /\ response[r].user = u => response'[r].replaced
  BY <1>2, <1>3, ReplacedResponses
<1>11. U2FTypes'
  <2>1. settled' \subseteq Values
    BY <1>2, <1>3, U2FParts
  <2>2. \A r \in Responses : response'[r] \in ResponseState \cup {NoResponse}
    BY <1>10
  <2>3. TableTypeOK'
    BY <1>8 DEF TableOK
  <2> QED
    BY <1>10, <2>1, <2>2, <2>3, Zenon DEF U2FTypes, U2FTypeOK
<1>12. \A k \in Keys, v \in stored : Holds(k, v)' => k # u /\ Holds(k, v)
  BY <1>5, <1>6, <1>9 DEF Holds
<1>13. \A k \in Keys : Holds(k, n)' => k = u
  <2> SUFFICES ASSUME NEW k \in Keys, Holds(k, n)', k # u PROVE FALSE
    OBVIOUS
  <2>1. pending[k] # NoEntry /\ pending[k].value = n
    BY <1>9, Zenon DEF Holds
  <2>2. pending[k].value \in stored
    BY <1>3, <2>1, Zenon DEF Book
  <2> QED
    BY <1>5, <2>1, <2>2
<1>14. \A k \in Keys, v \in Values : Holds(k, v)' => v \in stored \/ v = n
  <2> SUFFICES ASSUME NEW k \in Keys, NEW v \in Values, Holds(k, v)' PROVE v \in stored \/ v = n
    OBVIOUS
  <2>1. v \in stored'
    BY <1>8, Zenon DEF TableOK, Book, Holds
  <2> QED
    BY <1>2, <2>1
<1>15. Distinct'
  <2> SUFFICES ASSUME NEW j \in Keys, NEW k \in Keys, NEW v \in Values, Holds(j, v)', Holds(k, v)'
               PROVE  j = k
    BY Zenon DEF Distinct
  <2>1. CASE v = n
    BY <1>13, <2>1, Zenon
  <2>2. CASE v \in stored
    BY <1>12, <2>2, Zenon DEF U2FInv, Distinct
  <2> QED
    BY <1>14, <2>1, <2>2
<1>16. Known'
  <2> SUFFICES ASSUME NEW r \in Responses, Active(r)'
               PROVE  /\ response'[r].value \in stored'
                      /\ \A k \in Keys : Holds(k, response[r].value)' => k = response'[r].user
                      /\ ~response'[r].replaced /\ pending'[response'[r].user] # NoEntry
                            => pending'[response'[r].user].value = response'[r].value
                      /\ ~response'[r].raced => response'[r].beside = {}
    BY Zenon DEF Known
  <2>1. Active(r)
    BY <1>10 DEF Active, NoResponse
  <2>2. /\ response'[r].user = response[r].user /\ response'[r].value = response[r].value
        /\ (~response'[r].replaced => ~response[r].replaced)
        /\ (~response'[r].raced => ~response[r].raced /\ response'[r].beside = response[r].beside)
        /\ response[r].user = u => response'[r].replaced
    BY <1>10, <2>1, Zenon DEF Follows
  <2>3. /\ response[r].value \in stored
        /\ \A k \in Keys : Holds(k, response[r].value) => k = response[r].user
        /\ ~response[r].replaced /\ pending[response[r].user] # NoEntry
              => pending[response[r].user].value = response[r].value
        /\ ~response[r].raced => response[r].beside = {}
    BY <2>1, Zenon DEF U2FInv, Known
  <2>4. response[r].user \in Keys
    BY <1>3, <2>1, ResponseShapes
  <2>5. ~response'[r].replaced => pending'[response[r].user] = pending[response[r].user]
    BY <1>9, <2>2, <2>4
  <2>6. \A k \in Keys : Holds(k, response[r].value)' => k = response'[r].user
    <3> SUFFICES ASSUME NEW k \in Keys, pending'[k] # NoEntry, pending'[k].value = response'[r].value
                 PROVE  k = response'[r].user
      BY Zenon DEF Holds
    <3>1. k # u
      BY <1>5, <1>6, <1>9, <2>2, <2>3
    <3>2. Holds(k, response[r].value)
      BY <1>9, <2>2, <3>1, Zenon DEF Holds
    <3> QED
      BY <2>2, <2>3, <3>2, Zenon
  <2>7. response'[r].value \in stored'
    BY <1>2, <2>2, <2>3
  <2>8. ~response'[r].replaced /\ pending'[response'[r].user] # NoEntry
            => pending'[response'[r].user].value = response'[r].value
    BY <2>2, <2>3, <2>5, Zenon
  <2>9. ~response'[r].raced => response'[r].beside = {}
    BY <2>2, <2>3, Zenon
  <2> QED
    BY <2>6, <2>7, <2>8, <2>9, Zenon
<1>17. Gone'
  <2>1. settled' \subseteq stored'
    BY <1>2, <1>3
  <2>2. ASSUME NEW k \in Keys, NEW v \in settled', Holds(k, v)' PROVE FALSE
    <3>1. v \in stored /\ v \in settled
      BY <1>2, <1>3, <2>2
    <3> QED
      BY <1>12, <2>2, <3>1, Zenon DEF U2FInv, Gone
  <2> QED
    BY <2>1, <2>2, Zenon DEF Gone
<1>18. LifecycleStep
  <2>1. n \in Values \ stored /\ Book' /\ UNCHANGED claimed
    BY <1>2, <1>5, <1>8 DEF TableOK
  <2> QED
    BY <1>2, <1>3, <2>1, IssueStep
<1> QED BY <1>8, <1>11, <1>15, <1>16, <1>17, <1>18, Zenon DEF U2FInv, TableOK

(* A response looks its user's challenge up. *)
LEMMA LookupInv ==
    ASSUME U2FInv, NEW r \in Responses, NEW u \in Keys, LookupChallenge(r, u)
    PROVE  U2FInv' /\ LifecycleStep
<1>1. PICK v : v = pending[u].value
  OBVIOUS
<1> DEFINE new == [pc |-> "checking", user |-> u, value |-> v,
                   replaced |-> FALSE, raced |-> FALSE, beside |-> {}]
<1>2. /\ ~Active(r) /\ pending[u] # NoEntry /\ claimed' = claimed \cup {v}
      /\ response' = [response EXCEPT ![r] = new] /\ Lookup(u)
      /\ now' = now /\ nextCleanup' = nextCleanup /\ pending' = pending /\ drawn' = drawn
      /\ stored' = stored /\ settled' = settled
  BY <1>1, Zenon DEF LookupChallenge, Lookup
<1>3. /\ TableOK /\ U2FTypes /\ TableTypeOK /\ v \in stored
      /\ response \in [Responses -> ResponseState \cup {NoResponse}]
  BY <1>1, <1>2, U2FParts DEF U2FInv, TableOK, Book
<1>4. v \in Values /\ claimed' \subseteq Values /\ pending \in [Keys -> Entry \cup {NoEntry}]
  BY <1>1, <1>2, <1>3, TableParts
<1>5. TableOK'
  BY <1>2, <1>3, <1>4, ShrinkOK
<1>6. /\ new \in ResponseState /\ new.user = u /\ new.value = v /\ new.beside = {}
      /\ new.pc = "checking"
  BY <1>4 DEF ResponseState
<1> HIDE DEF new
<1>7. /\ response' \in [Responses -> ResponseState \cup {NoResponse}]
      /\ response'[r] = new /\ \A q \in Responses \ {r} : response'[q] = response[q]
  BY <1>2, <1>3, <1>6
<1>8. U2FTypes'
  <2>1. TableTypeOK' /\ settled' \subseteq Values
    BY <1>2, <1>3, <1>5, U2FParts DEF TableOK
  <2>2. \A q \in Responses : response'[q] \in ResponseState \cup {NoResponse}
    BY <1>7
  <2> QED
    BY <1>7, <2>1, <2>2, Zenon DEF U2FTypes, U2FTypeOK
<1>9. Distinct' /\ Gone'
  BY <1>2, Zenon DEF U2FInv, Distinct, Gone, Holds
<1>10. Known'
  <2> SUFFICES ASSUME NEW q \in Responses, Active(q)'
               PROVE  /\ response'[q].value \in stored
                      /\ \A k \in Keys : pending[k] # NoEntry /\ pending[k].value = response'[q].value
                            => k = response'[q].user
                      /\ ~response'[q].replaced /\ pending[response'[q].user] # NoEntry
                            => pending[response'[q].user].value = response'[q].value
                      /\ ~response'[q].raced => response'[q].beside = {}
    BY <1>2, Zenon DEF Known, Holds
  <2>1. CASE q = r
    <3>1. Holds(u, v)
      BY <1>1, <1>2, Zenon DEF Holds
    <3>2. \A k \in Keys : pending[k] # NoEntry /\ pending[k].value = v => k = u
      BY <1>4, <3>1, Zenon DEF U2FInv, Distinct, Holds
    <3>3. /\ response'[q].value = v /\ response'[q].user = u /\ response'[q].beside = {}
      BY <1>6, <1>7, <2>1
    <3> QED
      BY <1>1, <1>3, <3>2, <3>3
  <2>2. CASE q # r
    <3>1. response'[q] = response[q] /\ Active(q)
      BY <1>7, <2>2 DEF Active
    <3>2. /\ response[q].value \in stored
          /\ \A k \in Keys : pending[k] # NoEntry /\ pending[k].value = response[q].value
                => k = response[q].user
          /\ ~response[q].replaced /\ pending[response[q].user] # NoEntry
                => pending[response[q].user].value = response[q].value
          /\ ~response[q].raced => response[q].beside = {}
      BY <3>1, Zenon DEF U2FInv, Known, Holds
    <3> QED
      BY <3>1, <3>2
  <2> QED
    BY <2>1, <2>2
<1>11. LifecycleStep
  BY <1>2, <1>3, ClaimStep
<1> QED BY <1>5, <1>8, <1>9, <1>10, <1>11, Zenon DEF U2FInv, TableOK

(* The signature is checked: the table stays as it is. *)
LEMMA AuthenticateInv ==
    ASSUME U2FInv, NEW r \in Responses, Authenticate(r)
    PROVE  U2FInv' /\ LifecycleStep
<1>1. /\ response[r].pc = "checking"
      /\ \/ response' = [response EXCEPT ![r].pc = "deleting"]
         \/ response' = [response EXCEPT ![r] = NoResponse]
      /\ now' = now /\ nextCleanup' = nextCleanup /\ pending' = pending /\ drawn' = drawn
      /\ stored' = stored /\ claimed' = claimed /\ settled' = settled
  BY Zenon DEF Authenticate, tableVars
<1>2. /\ TableOK /\ U2FTypes /\ TableTypeOK /\ Book
      /\ response \in [Responses -> ResponseState \cup {NoResponse}]
      /\ settled \subseteq stored /\ \A k \in Keys, v \in settled : ~Holds(k, v)
  BY U2FParts DEF U2FInv, TableOK, Gone
<1>3. /\ pending \in [Keys -> Entry \cup {NoEntry}] /\ claimed \subseteq Values
  BY <1>2, TableParts
<1>4. TableOK'
  BY <1>1, <1>2, <1>3, ShrinkOK
<1>5. Active(r) /\ response[r] \in ResponseState
  BY <1>1, <1>2, ResponseShapes DEF Active
<1>6. PICK p \in ResponseState : p = response[r]
  BY <1>5, Zenon
<1> DEFINE m == [p EXCEPT !.pc = "deleting"]
<1>7. /\ m \in ResponseState /\ m.user = p.user /\ m.value = p.value /\ m.replaced = p.replaced
      /\ m.raced = p.raced /\ m.beside = p.beside
  BY DEF ResponseState
<1>8. /\ response'[r] = m \/ response'[r] = NoResponse
      /\ \A q \in Responses \ {r} : response'[q] = response[q]
  BY <1>1, <1>2, <1>6
<1> HIDE DEF m
<1>9. response' \in [Responses -> ResponseState \cup {NoResponse}]
  BY <1>1, <1>2, <1>7, <1>8
<1>10. ASSUME NEW q \in Responses, response'[q] # NoResponse
       PROVE  /\ Active(q) /\ response'[q].user = response[q].user
              /\ response'[q].value = response[q].value
              /\ response'[q].replaced = response[q].replaced
              /\ response'[q].raced = response[q].raced
              /\ response'[q].beside = response[q].beside
  <2>1. CASE q = r
    BY <1>5, <1>6, <1>7, <1>8, <1>10, <2>1, Zenon
  <2>2. CASE q # r
    BY <1>2, <1>8, <1>10, <2>2, ResponseShapes, Zenon
  <2> QED BY <2>1, <2>2
<1>11. \A k \in Keys, v \in settled' : ~Holds(k, v)'
  BY <1>1, <1>2, Zenon DEF Holds
<1>12. U2FInv'
  BY <1>1, <1>2, <1>4, <1>9, <1>10, <1>11, U2FShrink, Zenon
<1>13. LifecycleStep
  BY <1>1, <1>2, <1>4, CloseStep DEF TableOK
<1> QED BY <1>12, <1>13

(* The removal: what it settles was its user's challenge, if anybody's. *)
LEMMA DeleteInv ==
    ASSUME U2FInv, NEW r \in Responses, DeleteChallenge(r)
    PROVE  U2FInv' /\ LifecycleStep
<1>1. PICK lost \in SUBSET response[r].beside :
         \/ pending' = Without({response[r].user} \cup lost)
         \/ response[r].raced /\ pending' = Without(lost)
  BY Zenon DEF DeleteChallenge
<1>2. /\ Deleting(r) /\ response' = [Raced({}) EXCEPT ![r] = NoResponse]
      /\ settled' = IF response[r].raced THEN settled ELSE settled \cup {response[r].value}
      /\ now' = now /\ nextCleanup' = nextCleanup /\ drawn' = drawn
      /\ stored' = stored /\ claimed' = claimed
  BY Zenon DEF DeleteChallenge
<1>3. /\ TableOK /\ U2FTypes /\ TableTypeOK /\ Book
      /\ settled \subseteq stored /\ \A k \in Keys, v \in settled : ~Holds(k, v)
  BY U2FParts DEF U2FInv, TableOK, Gone
<1>4. claimed \subseteq Values
  BY <1>3, TableParts
<1>5. Active(r) /\ response[r].user \in Keys
  BY <1>2, <1>3, ResponseShapes
<1>6. /\ response[r].value \in stored
      /\ \A k \in Keys : Holds(k, response[r].value) => k = response[r].user
      /\ ~response[r].raced => response[r].beside = {}
  BY <1>5, Zenon DEF U2FInv, Known
<1>7. /\ pending' \in [Keys -> Entry \cup {NoEntry}]
      /\ \A k \in Keys : pending'[k] = pending[k] \/ pending'[k] = NoEntry
      /\ ~response[r].raced => pending'[response[r].user] = NoEntry
  <2>1. CASE pending' = Without({response[r].user} \cup lost)
    BY <1>3, <1>5, <2>1, WithoutType
  <2>2. CASE response[r].raced /\ pending' = Without(lost)
    BY <1>3, <2>2, WithoutType
  <2> QED BY <1>1, <2>1, <2>2
<1>8. TableOK'
  BY <1>2, <1>3, <1>4, <1>7, ShrinkOK
<1>9. /\ Raced({}) \in [Responses -> ResponseState \cup {NoResponse}]
      /\ \A q \in Responses :
            /\ ~Active(q) => Raced({})[q] = NoResponse
            /\ Active(q) => Raced({})[q] \in ResponseState /\ Follows(Raced({})[q], response[q])
  BY <1>3, RacedResponses
<1>10. /\ response' \in [Responses -> ResponseState \cup {NoResponse}]
       /\ response'[r] = NoResponse /\ \A q \in Responses \ {r} : response'[q] = Raced({})[q]
  BY <1>2, <1>9
<1>11. ASSUME NEW q \in Responses, response'[q] # NoResponse
       PROVE  /\ Active(q) /\ response'[q].user = response[q].user
              /\ response'[q].value = response[q].value
              /\ (~response'[q].replaced => ~response[q].replaced)
              /\ (~response'[q].raced => ~response[q].raced
                                         /\ response'[q].beside = response[q].beside)
  <2>1. response'[q] = Raced({})[q]
    BY <1>10, <1>11
  <2> QED
    BY <1>9, <1>11, <2>1, Zenon DEF Follows
<1>12. settled' \subseteq stored
  BY <1>2, <1>3, <1>6
<1>13. ASSUME NEW k \in Keys, NEW v \in settled', Holds(k, v)' PROVE FALSE
  <2>1. Holds(k, v) /\ pending'[k] # NoEntry
    BY <1>7, <1>13, Zenon DEF Holds
  <2>2. v \notin settled
    BY <1>3, <2>1, Zenon
  <2>3. ~response[r].raced /\ v = response[r].value
    BY <1>2, <2>2
  <2>4. k = response[r].user
    BY <1>6, <2>1, <2>3, Zenon
  <2> QED
    BY <1>7, <2>1, <2>3, <2>4, Zenon
<1>14. U2FInv'
  BY <1>2, <1>7, <1>8, <1>10, <1>11, <1>12, <1>13, U2FShrink, Zenon
<1>15. LifecycleStep
  BY <1>2, <1>3, <1>7, <1>8, CloseStep DEF TableOK
<1> QED BY <1>14, <1>15

LEMMA NextU2FInv == ASSUME U2FInv, [U2FNext]_u2fVars PROVE U2FInv' /\ LifecycleStep
<1>1. /\ TableOK /\ U2FTypes /\ TableTypeOK /\ Book
      /\ response \in [Responses -> ResponseState \cup {NoResponse}]
      /\ settled \subseteq stored /\ \A k \in Keys, v \in settled : ~Holds(k, v)
  BY U2FParts DEF U2FInv, TableOK, Gone
<1>2. /\ pending \in [Keys -> Entry \cup {NoEntry}] /\ claimed \subseteq Values
  BY <1>1, TableParts
<1>3. \A r \in Responses : response[r] # NoResponse => Active(r)
  BY <1>1, ResponseShapes
<1>4. ASSUME TableOK', stored' = stored, claimed' = claimed, settled' = settled,
             \A k \in Keys : pending'[k] = pending[k] \/ pending'[k] = NoEntry,
             response' \in [Responses -> ResponseState \cup {NoResponse}],
             \A r \in Responses : response'[r] # NoResponse =>
                Active(r) /\ Follows(response'[r], response[r])
      PROVE  U2FInv' /\ LifecycleStep
  <2>1. \A k \in Keys, v \in settled' : ~Holds(k, v)'
    BY <1>1, <1>4, Zenon DEF Holds
  <2>2. \A r \in Responses : response'[r] # NoResponse =>
              Active(r) /\ response'[r].user = response[r].user
                        /\ response'[r].value = response[r].value
                        /\ (~response'[r].replaced => ~response[r].replaced)
                        /\ (~response'[r].raced => ~response[r].raced
                                                   /\ response'[r].beside = response[r].beside)
    BY <1>4, Zenon DEF Follows
  <2>3. U2FInv'
    BY <1>1, <1>4, <2>1, <2>2, U2FShrink, Zenon
  <2>4. LifecycleStep
    BY <1>1, <1>4, CloseStep DEF TableOK
  <2> QED BY <2>3, <2>4
<1>5. \A r \in Responses : Follows(response[r], response[r])
  BY Zenon DEF Follows
<1>6. CASE UNCHANGED u2fVars
  <2>1. /\ now' = now /\ nextCleanup' = nextCleanup /\ pending' = pending /\ drawn' = drawn
        /\ stored' = stored /\ claimed' = claimed /\ response' = response /\ settled' = settled
    BY <1>6, Zenon DEF u2fVars, tableVars
  <2>2. TableOK'
    BY <1>1, <1>2, <2>1, ShrinkOK
  <2> QED
    BY <1>1, <1>3, <1>4, <1>5, <2>1, <2>2, Zenon
<1>7. ASSUME U2FCleanup PROVE U2FInv' /\ LifecycleStep
  <2>1. /\ performStateCleanup /\ pending' = Without(ExpiredKeys) /\ stored' = stored
        /\ claimed' = claimed /\ settled' = settled
        /\ response' = response \/ response' = Raced({})
    BY <1>7, Zenon DEF U2FCleanup, performStateCleanup
  <2>2. TableOK'
    BY <1>1, <2>1, CleanupOK
  <2>3. \A k \in Keys : pending'[k] = pending[k] \/ pending'[k] = NoEntry
    BY <1>1, <2>1, WithoutType
  <2>4. CASE response' = response
    BY <1>1, <1>3, <1>4, <1>5, <2>1, <2>2, <2>3, <2>4, Zenon
  <2>5. CASE response' = Raced({})
    <3>1. /\ response' \in [Responses -> ResponseState \cup {NoResponse}]
          /\ \A r \in Responses :
                /\ ~Active(r) => response'[r] = NoResponse
                /\ Active(r) => Follows(response'[r], response[r])
      BY <1>1, <2>5, RacedResponses
    <3> QED
      BY <1>4, <2>1, <2>2, <2>3, <3>1, Zenon
  <2> QED BY <2>1, <2>4, <2>5
<1>8. ASSUME U2FCrash PROVE U2FInv' /\ LifecycleStep
  <2>1. /\ TableCrash /\ response' = [r \in Responses |-> NoResponse] /\ settled' = settled
        /\ pending' = [k \in Keys |-> NoEntry] /\ stored' = stored /\ claimed' = claimed
    BY <1>8, Zenon DEF U2FCrash, TableCrash
  <2>2. TableOK'
    BY <1>1, <2>1, CrashOK
  <2>3. /\ \A k \in Keys : pending'[k] = NoEntry
        /\ response' \in [Responses -> ResponseState \cup {NoResponse}]
        /\ \A r \in Responses : response'[r] = NoResponse
    BY <2>1
  <2> QED
    BY <1>4, <2>1, <2>2, <2>3, Zenon
<1>9. ASSUME U2FTime PROVE U2FInv' /\ LifecycleStep
  <2>1. /\ Tick /\ pending' = pending /\ stored' = stored /\ claimed' = claimed
        /\ response' = response /\ settled' = settled
    BY <1>9, Zenon DEF U2FTime, Tick
  <2>2. TableOK'
    BY <1>1, <2>1, TickOK
  <2> QED
    BY <1>1, <1>3, <1>4, <1>5, <2>1, <2>2, Zenon
<1> QED
  BY <1>6, <1>7, <1>8, <1>9, RequestInv, LookupInv, AuthenticateInv, DeleteInv
  DEF U2FNext, u2fSignResponse

-----------------------------------------------------------------------------
(* Only the lookup makes a response that is not in progress check a         *)
(* challenge.                                                               *)
LEMMA FoundByLookup ==
    ASSUME U2FInv, U2FNext, NEW r \in Responses, FindsChallenge(r)
    PROVE  \E u \in Keys : LookupChallenge(r, u)
<1>1. /\ U2FTypes /\ response \in [Responses -> ResponseState \cup {NoResponse}]
  BY U2FParts DEF U2FInv
<1>2. ~Active(r) /\ response'[r].pc = "checking"
  BY Zenon DEF FindsChallenge
<1>3. NoResponse.pc = "idle" /\ response[r] = NoResponse /\ response[r].pc = "idle"
  BY <1>1, <1>2, ResponseShapes DEF NoResponse
<1>4. \A U \in SUBSET Keys : Raced(U)[r] = NoResponse
  BY <1>1, <1>2, RacedResponses
<1>5. response'[r] # NoResponse
  BY <1>2, <1>3
<1>6. ASSUME NEW u \in Keys, u2fSignRequest(u) PROVE FALSE
  <2>1. response' = Replaced(u)
    BY <1>6, Zenon DEF u2fSignRequest
  <2>2. Replaced(u)[r] = NoResponse
    BY <1>1, <1>2, ReplacedResponses
  <2> QED BY <1>5, <2>1, <2>2
<1>7. ASSUME NEW q \in Responses, NEW u \in Keys, LookupChallenge(q, u) PROVE q = r
  <2>1. PICK new : response' = [response EXCEPT ![q] = new]
    BY <1>7, Zenon DEF LookupChallenge
  <2> QED BY <1>1, <1>3, <1>5, <2>1
<1>8. ASSUME NEW q \in Responses, Authenticate(q) PROVE FALSE
  <2>1. /\ response[q].pc = "checking"
        /\ \/ response' = [response EXCEPT ![q].pc = "deleting"]
           \/ response' = [response EXCEPT ![q] = NoResponse]
    BY <1>8, Zenon DEF Authenticate
  <2>2. q # r
    BY <1>3, <2>1
  <2>3. response'[r] = response[r]
    BY <1>1, <2>1, <2>2
  <2> QED BY <1>3, <1>5, <2>3
<1>9. ASSUME NEW q \in Responses, DeleteChallenge(q) PROVE FALSE
  <2>1. response' = [Raced({}) EXCEPT ![q] = NoResponse]
    BY <1>9, Zenon DEF DeleteChallenge
  <2>2. response'[r] = NoResponse
    BY <1>1, <1>4, <2>1, RacedResponses
  <2> QED BY <1>5, <2>2
<1>10. ASSUME U2FCleanup PROVE FALSE
  <2>1. response' = response \/ response' = Raced({})
    BY <1>10, Zenon DEF U2FCleanup
  <2> QED BY <1>3, <1>4, <1>5, <2>1
<1>11. ASSUME U2FCrash \/ U2FTime PROVE FALSE
  <2>1. response' = response \/ response' = [q \in Responses |-> NoResponse]
    BY <1>11, Zenon DEF U2FCrash, U2FTime
  <2> QED BY <1>3, <1>5, <2>1
<1> QED
  BY <1>6, <1>7, <1>8, <1>9, <1>10, <1>11 DEF U2FNext, u2fSignResponse

LEMMA U2FFinds ==
    ASSUME U2FInv, U2FNext PROVE FindsOpenChallenges /\ FindsInTime
<1> SUFFICES ASSUME NEW r \in Responses, FindsChallenge(r)
             PROVE  /\ response'[r].value \notin settled
                    /\ now <= pending[response'[r].user].ExpiresAt + secsBetweenCleanup
  BY Zenon DEF FindsOpenChallenges, FindsInTime
<1>1. PICK u \in Keys : LookupChallenge(r, u)
  BY FoundByLookup
<1>2. PICK v : v = pending[u].value
  OBVIOUS
<1> DEFINE new == [pc |-> "checking", user |-> u, value |-> v,
                   replaced |-> FALSE, raced |-> FALSE, beside |-> {}]
<1>3. pending[u] # NoEntry /\ response' = [response EXCEPT ![r] = new]
  BY <1>1, <1>2, Zenon DEF LookupChallenge, Lookup
<1>4. response'[r] = new /\ new.user = u /\ new.value = v
  BY <1>3, U2FParts DEF U2FInv
<1> HIDE DEF new
<1>5. Holds(u, v)
  BY <1>2, <1>3, Zenon DEF Holds
<1>6. v \notin settled
  BY <1>5, Zenon DEF U2FInv, Gone
<1>7. now <= nextCleanup /\ nextCleanup <= pending[u].ExpiresAt + secsBetweenCleanup
  BY <1>3, Zenon DEF U2FInv, Book
<1>8. /\ now \in Nat /\ nextCleanup \in Nat /\ pending[u].ExpiresAt \in Nat
      /\ secsBetweenCleanup \in Nat
  BY <1>3, U2FParts, TableParts DEF U2FInv
<1>9. now <= pending[u].ExpiresAt + secsBetweenCleanup
  BY <1>7, <1>8
<1> QED
  BY <1>4, <1>6, <1>9

(* What a removal takes is what it was for, or was stored beside it. *)
LEMMA U2FKeeps == ASSUME U2FInv, U2FNext PROVE KeepsChallenges
<1> SUFFICES ASSUME ~U2FCrash, NEW u \in Keys, pending[u] # NoEntry, pending'[u] = NoEntry,
                    ~Expired(pending[u])
             PROVE  \E r \in Responses :
                       /\ Deleting(r)
                       /\ \/ /\ response[r].user = u
                             /\ response[r].replaced \/ response[r].value = pending[u].value
                          \/ u \in response[r].beside
  BY Zenon DEF KeepsChallenges
<1>1. U2FTypes /\ TableTypeOK /\ pending \in [Keys -> Entry \cup {NoEntry}]
  BY U2FParts, TableParts DEF U2FInv
<1>2. ASSUME NEW k \in Keys, u2fSignRequest(k) PROVE FALSE
  <2>1. PICK n : pending' = [pending EXCEPT ![k] = [value |-> n, ExpiresAt |-> now + maxAge]]
    BY <1>2, Zenon DEF u2fSignRequest, Store
  <2> QED
    BY <1>1, <2>1 DEF NoEntry
<1>3. ASSUME NEW r \in Responses, \/ \E k \in Keys : LookupChallenge(r, k)
                                  \/ Authenticate(r)
      PROVE  FALSE
  <2>1. pending' = pending
    BY <1>3, Zenon DEF LookupChallenge, Authenticate, tableVars
  <2> QED BY <2>1
<1>4. ASSUME U2FCleanup PROVE FALSE
  <2>1. pending' = Without(ExpiredKeys)
    BY <1>4, Zenon DEF U2FCleanup, performStateCleanup
  <2>2. u \in ExpiredKeys
    BY <1>1, <2>1, WithoutType
  <2> QED
    BY <2>2 DEF ExpiredKeys
<1>5. ASSUME U2FTime PROVE FALSE
  BY <1>5, Zenon DEF U2FTime, Tick
<1>6. PICK r \in Responses : DeleteChallenge(r)
  BY <1>2, <1>3, <1>4, <1>5 DEF U2FNext, u2fSignResponse
<1>7. Deleting(r) /\ Active(r)
  BY <1>1, <1>6, ResponseShapes DEF DeleteChallenge
<1>8. PICK lost \in SUBSET response[r].beside :
         \/ pending' = Without({response[r].user} \cup lost)
         \/ pending' = Without(lost)
  BY <1>6, Zenon DEF DeleteChallenge
<1>9. u = response[r].user \/ u \in response[r].beside
  BY <1>1, <1>8, WithoutType
<1>10. ~response[r].replaced /\ pending[response[r].user] # NoEntry
          => pending[response[r].user].value = response[r].value
  BY <1>7, Zenon DEF U2FInv, Known
<1> QED
  BY <1>7, <1>9, <1>10

-----------------------------------------------------------------------------
(* VIPPush *)

(* What a request knows: the value is a push for its cookie. *)
Working ==
    \A r \in Requests : request[r].pc \in {"storing", "polling"} =>
        request[r].value \in 1 .. drawn /\ pushed[request[r].value] = request[r].cookie

(* What the table holds is a push for its key. *)
Filed ==
    \A k \in Keys : pending[k] # NoEntry =>
        pending[k].value \in 1 .. drawn /\ pushed[pending[k].value] = k

(***************************************************************************)
(* For a cookie whose start requests have never overlapped: there is one   *)
(* start request at most; while there is one the table holds nothing, as   *)
(* it was found empty and nobody else stores; and the push that is about   *)
(* to be stored is the last one.                                           *)
(***************************************************************************)
Alone ==
    \A q, r \in Requests : \A k \in Keys \ crowded :
        Starting(q, k) /\ Starting(r, k) => q = r

Clear ==
    \A r \in Requests : \A k \in Keys \ crowded : Starting(r, k) => pending[k] = NoEntry

Newest ==
    \A r \in Requests : request[r].pc = "storing" /\ request[r].cookie \notin crowded =>
        \A v \in 1 .. drawn : pushed[v] = request[r].cookie => v <= request[r].value

VIPTypes == VIPTypeOK /\ request \in [Requests -> RequestState \cup {NoRequest}]

VIPInv ==
    /\ VIPTypes /\ Working /\ Filed /\ Alone /\ Clear /\ Newest
    /\ PollsLastPush /\ GrantedWasApproved

(* The shapes of a request's state. *)
LEMMA RequestShapes ==
    ASSUME VIPTypes, NEW r \in Requests
    PROVE  /\ request[r] = NoRequest <=> request[r].pc = "idle"
           /\ request[r].pc \in {"idle", "starting", "storing", "polling"}
           /\ request[r] # NoRequest => request[r].cookie \in Keys
           /\ \A k : Starting(r, k) <=>
                 request[r].pc \in {"starting", "storing"} /\ request[r].cookie = k
<1>1. /\ request[r] = NoRequest <=> request[r].pc = "idle"
      /\ request[r].pc \in {"idle", "starting", "storing", "polling"}
      /\ request[r] # NoRequest => request[r].cookie \in Keys
  BY DEF VIPTypes, RequestState, NoRequest
<1> QED
  BY <1>1 DEF Starting

LEMMA InitVIPInv == VIPInit => VIPInv
<1> SUFFICES ASSUME VIPInit PROVE VIPInv
  OBVIOUS
<1> USE PendingTableAssumption DEF VIPInit, TableInit
<1>1. VIPTypes
  <2>1. TableTypeOK
    BY DEF TableTypeOK, MaxTime
  <2>2. pushed \in Seq(Keys) /\ Len(pushed) = drawn /\ 1 .. drawn = {}
    OBVIOUS
  <2> QED
    BY <2>1, <2>2 DEF VIPTypes, VIPTypeOK
<1>2. Working /\ Newest
  BY DEF Working, Newest, NoRequest
<1>3. Filed /\ Alone /\ Clear /\ PollsLastPush /\ GrantedWasApproved
  BY DEF Filed, Alone, Clear, Starting, PollsLastPush, GrantedWasApproved
<1> QED
  BY <1>1, <1>2, <1>3 DEF VIPInv

(* VIPParts of the type invariant. *)
LEMMA VIPParts ==
    ASSUME VIPTypes
    PROVE  /\ now \in Nat /\ drawn \in Nat /\ drawn \in 0 .. MaxValue
           /\ pending \in [Keys -> Entry \cup {NoEntry}]
           /\ request \in [Requests -> RequestState \cup {NoRequest}]
           /\ approved \subseteq 1 .. drawn /\ granted \subseteq Keys /\ crowded \subseteq Keys
           /\ pushed \in Seq(Keys) /\ Len(pushed) = drawn
<1>1. /\ now \in 0 .. MaxTime /\ drawn \in 0 .. MaxValue
      /\ pending \in [Keys -> Entry \cup {NoEntry}]
      /\ request \in [Requests -> RequestState \cup {NoRequest}]
      /\ approved \subseteq 1 .. drawn /\ granted \subseteq Keys /\ crowded \subseteq Keys
      /\ pushed \in Seq(Keys) /\ Len(pushed) = drawn
  BY Zenon DEF VIPTypes, VIPTypeOK, TableTypeOK
<1>2. MaxTime \in Nat /\ MaxValue \in Nat
  BY PendingTableAssumption DEF MaxTime
<1> QED
  BY <1>1, <1>2

(* An entry that goes away hurts nobody. *)
LEMMA LossInv ==
    ASSUME VIPInv, VIPTypes',
           UNCHANGED <<drawn, request, approved, granted, pushed, crowded>>,
           \A k \in Keys : pending'[k] = pending[k] \/ pending'[k] = NoEntry
    PROVE  VIPInv'
<1>1. Working' /\ Alone' /\ Newest' /\ GrantedWasApproved'
  BY Zenon DEF VIPInv, Working, Alone, Newest, GrantedWasApproved, Starting
<1>2. Filed' /\ Clear' /\ PollsLastPush'
  BY Zenon DEF VIPInv, Filed, Clear, PollsLastPush, Starting
<1> QED
  BY <1>1, <1>2 DEF VIPInv

-----------------------------------------------------------------------------
LEMMA VIPTypesStep == VIPInv /\ [VIPNext]_vipVars => VIPTypes'
<1> SUFFICES ASSUME VIPInv, [VIPNext]_vipVars PROVE VIPTypes'
  OBVIOUS
<1>1. VIPTypes
  BY DEF VIPInv
<1> USE PendingTableAssumption
<1>2. /\ now \in 0 .. MaxTime /\ nextCleanup \in 0 .. MaxTime + secsBetweenCleanup
      /\ stored \subseteq Values /\ claimed \subseteq Values
      /\ MaxTime \in Nat /\ LastIssue + maxAge \in Nat
  BY <1>1 DEF VIPTypes, VIPTypeOK, TableTypeOK, MaxTime
<1>3. /\ now \in Nat /\ drawn \in Nat /\ drawn \in 0 .. MaxValue
      /\ pending \in [Keys -> Entry \cup {NoEntry}]
      /\ request \in [Requests -> RequestState \cup {NoRequest}]
      /\ approved \subseteq 1 .. drawn /\ granted \subseteq Keys /\ crowded \subseteq Keys
      /\ pushed \in Seq(Keys) /\ Len(pushed) = drawn
  BY <1>1, VIPParts
<1>4. ASSUME now' \in 0 .. MaxTime, nextCleanup' \in 0 .. MaxTime + secsBetweenCleanup,
             pending' \in [Keys -> Entry \cup {NoEntry}], drawn' \in 0 .. MaxValue,
             stored' \subseteq Values, claimed' \subseteq Values,
             request' \in [Requests -> RequestState \cup {NoRequest}],
             approved' \subseteq 1 .. drawn', granted' \subseteq Keys,
             pushed' \in Seq(Keys), Len(pushed') = drawn', crowded' \subseteq Keys
      PROVE  VIPTypes'
  <2>1. \A r \in Requests : request'[r] \in RequestState \cup {NoRequest}
    BY <1>4
  <2> QED
    BY <1>4, <2>1, Zenon DEF VIPTypes, VIPTypeOK, TableTypeOK
<1>5. CASE UNCHANGED vipVars
  BY <1>2, <1>3, <1>4, <1>5, Zenon DEF vipVars, tableVars, auxVars
<1>6. ASSUME NEW r \in Requests, NEW k \in Keys, vipPushStartHandler(r, k)
      PROVE  VIPTypes'
  <2>1. /\ UNCHANGED <<now, nextCleanup, pending, drawn, stored, claimed, approved, granted, pushed>>
        /\ request' = [request EXCEPT ![r] = [pc |-> "starting", cookie |-> k, value |-> 0]]
        /\ crowded' = IF \E q \in Requests : Starting(q, k) THEN crowded \cup {k} ELSE crowded
    BY <1>6, Zenon DEF vipPushStartHandler, Start, tableVars
  <2>2. request' \in [Requests -> RequestState \cup {NoRequest}]
    BY <1>3, <2>1 DEF RequestState
  <2>3. crowded' \subseteq Keys
    BY <1>3, <2>1
  <2> QED
    BY <1>2, <1>3, <1>4, <2>1, <2>2, <2>3, Zenon
<1>7. ASSUME NEW r \in Requests, NEW k \in Keys, getPushPollTransaction(r, k)
      PROVE  VIPTypes'
  <2>1. /\ UNCHANGED <<now, nextCleanup, pending, drawn, stored, approved, granted, pushed, crowded>>
        /\ pending[k] # NoEntry /\ claimed' = claimed \cup {pending[k].value}
        /\ request' = [request EXCEPT ![r] = [pc |-> "polling", cookie |-> k,
                                             value |-> pending[k].value]]
    BY <1>7, Zenon DEF getPushPollTransaction, Lookup, auxVars
  <2>2. pending[k].value \in Values
    BY <1>3, <2>1 DEF Entry
  <2>3. request' \in [Requests -> RequestState \cup {NoRequest}] /\ claimed' \subseteq Values
    BY <1>2, <1>3, <2>1, <2>2 DEF RequestState
  <2> QED
    BY <1>2, <1>3, <1>4, <2>1, <2>3, Zenon
<1>8. ASSUME NEW r \in Requests, StartUserVIPPush(r) PROVE VIPTypes'
  <2>1. /\ UNCHANGED <<now, nextCleanup, pending, stored, claimed, approved, granted, crowded>>
        /\ request[r].pc = "starting"
    BY <1>8, Zenon DEF StartUserVIPPush
  <2>2. CASE /\ drawn < MaxValue /\ drawn' = drawn + 1
             /\ pushed' = Append(pushed, request[r].cookie)
             /\ request' = [request EXCEPT ![r].pc = "storing", ![r].value = drawn + 1]
    <3>1. request[r] \in RequestState
      BY <1>3, <2>1 DEF NoRequest
    <3>2. request[r].cookie \in Keys /\ drawn + 1 \in Values /\ drawn' \in 0 .. MaxValue
      BY <1>3, <2>2, <3>1 DEF RequestState, Values
    <3>3. request' \in [Requests -> RequestState \cup {NoRequest}]
      BY <1>3, <2>2, <3>1, <3>2, Zenon DEF RequestState
    <3>4. pushed' \in Seq(Keys) /\ Len(pushed') = drawn'
      BY <1>3, <2>2, <3>2
    <3>5. approved \subseteq 1 .. drawn'
      BY <1>3, <2>2
    <3> QED
      BY <1>2, <1>3, <1>4, <2>1, <3>2, <3>3, <3>4, <3>5, Zenon
  <2>3. CASE request' = [request EXCEPT ![r] = NoRequest] /\ UNCHANGED <<drawn, pushed>>
    <3>1. request' \in [Requests -> RequestState \cup {NoRequest}]
      BY <1>3, <2>3
    <3> QED
      BY <1>2, <1>3, <1>4, <2>1, <2>3, <3>1, Zenon
  <2> QED
    BY <1>8, <2>2, <2>3 DEF StartUserVIPPush
<1>9. ASSUME NEW r \in Requests, startVIPPush(r) PROVE VIPTypes'
  <2>1. /\ UNCHANGED <<now, nextCleanup, drawn, claimed, approved, granted, pushed, crowded>>
        /\ request[r].pc = "storing" /\ now <= LastIssue
        /\ pending' = [pending EXCEPT ![request[r].cookie] =
                          [value |-> request[r].value, ExpiresAt |-> now + maxAge]]
        /\ stored' = stored \cup {request[r].value}
        /\ request' = [request EXCEPT ![r] = NoRequest]
    BY <1>9, Zenon DEF startVIPPush, Store, auxVars
  <2>2. request[r].value \in Values
    <3>1. request[r].value \in 1 .. drawn
      BY <2>1, Zenon DEF VIPInv, Working
    <3> QED
      BY <1>3, <3>1 DEF Values
  <2>3. now + maxAge \in 0 .. LastIssue + maxAge
    BY <1>2, <1>3, <2>1
  <2>4. /\ pending' \in [Keys -> Entry \cup {NoEntry}] /\ stored' \subseteq Values
        /\ request' \in [Requests -> RequestState \cup {NoRequest}]
    BY <1>2, <1>3, <2>1, <2>2, <2>3, Zenon DEF Entry
  <2> QED
    BY <1>2, <1>3, <1>4, <2>1, <2>4, Zenon
<1>10. ASSUME NEW r \in Requests, VIPPollCheckHandler(r) PROVE VIPTypes'
  <2>1. /\ UNCHANGED <<now, nextCleanup, pending, drawn, stored, claimed, approved, pushed, crowded>>
        /\ granted' = granted \cup {request[r].cookie} \/ granted' = granted
        /\ request' = [request EXCEPT ![r] = NoRequest] /\ request[r].pc = "polling"
    BY <1>10, Zenon DEF VIPPollCheckHandler, tableVars
  <2>2. request' \in [Requests -> RequestState \cup {NoRequest}]
    BY <1>3, <2>1
  <2>3. request[r].cookie \in Keys
    <3>1. request[r] # NoRequest
      <4>1. NoRequest.pc # "polling"
        BY DEF NoRequest
      <4> QED
        BY <2>1, <4>1, Zenon
    <3>2. request[r] \in RequestState
      BY <1>3, <3>1
    <3> QED
      BY <3>2 DEF RequestState
  <2>4. granted' \subseteq Keys
    BY <1>3, <2>1, <2>3
  <2> QED
    BY <1>2, <1>3, <1>4, <2>1, <2>2, <2>4, Zenon
<1>11. ASSUME NEW v \in Values, Approve(v) PROVE VIPTypes'
  <2>1. /\ UNCHANGED <<now, nextCleanup, pending, drawn, stored, claimed, request, granted, pushed,
                       crowded>>
        /\ approved' = approved \cup {v} /\ v <= drawn
    BY <1>11, Zenon DEF Approve, tableVars, auxVars
  <2>2. approved' \subseteq 1 .. drawn
    BY <1>3, <2>1 DEF Values
  <2> QED
    BY <1>2, <1>3, <1>4, <2>1, <2>2, Zenon
<1>12. CASE VIPCleanup \/ VIPCrash \/ VIPTime
  <2>1. UNCHANGED <<drawn, stored, claimed, approved, granted, pushed, crowded>>
    BY <1>12, Zenon DEF VIPCleanup, VIPCrash, VIPTime, performStateCleanup, TableCrash, Tick, auxVars
  <2>2. request' \in [Requests -> RequestState \cup {NoRequest}]
    BY <1>3, <1>12 DEF VIPCleanup, VIPCrash, VIPTime
  <2>3. pending' \in [Keys -> Entry \cup {NoEntry}]
    BY <1>3, <1>12 DEF VIPCleanup, VIPCrash, VIPTime, performStateCleanup, TableCrash, Tick, Without
  <2>4. now' \in 0 .. MaxTime /\ nextCleanup' \in 0 .. MaxTime + secsBetweenCleanup
    BY <1>2, <1>12 DEF VIPCleanup, VIPCrash, VIPTime, performStateCleanup, TableCrash, Tick
  <2> QED
    BY <1>2, <1>3, <1>4, <2>1, <2>2, <2>3, <2>4, Zenon
<1> QED
  BY <1>5, <1>6, <1>7, <1>8, <1>9, <1>10, <1>11, <1>12 DEF VIPNext

-----------------------------------------------------------------------------
(* A request that ends, and does nothing else. *)
LEMMA EndInv ==
    ASSUME VIPInv, VIPTypes', NEW r \in Requests, request' = [request EXCEPT ![r] = NoRequest],
           UNCHANGED <<pending, drawn, approved, pushed, crowded>>, GrantedWasApproved'
    PROVE  VIPInv'
<1>1. request'[r] = NoRequest /\ \A q \in Requests \ {r} : request'[q] = request[q]
  BY VIPParts DEF VIPInv
<1>2. NoRequest.pc = "idle"
  BY DEF NoRequest
<1>3. \A q \in Requests, k \in Keys : Starting(q, k)' => Starting(q, k)
  BY <1>1, Zenon DEF Starting
<1>4. Working' /\ Newest'
  BY <1>1, <1>2 DEF VIPInv, Working, Newest
<1>5. Alone' /\ Clear'
  BY <1>3, Zenon DEF VIPInv, Alone, Clear
<1>6. Filed' /\ PollsLastPush'
  BY Zenon DEF VIPInv, Filed, PollsLastPush
<1> QED
  BY <1>4, <1>5, <1>6 DEF VIPInv

LEMMA StartInv ==
    ASSUME VIPInv, VIPTypes', NEW r \in Requests, NEW k \in Keys, vipPushStartHandler(r, k)
    PROVE  VIPInv'
<1> DEFINE new == [pc |-> "starting", cookie |-> k, value |-> 0]
<1>1. /\ UNCHANGED <<pending, drawn, approved, granted, pushed>>
      /\ request[r] = NoRequest /\ pending[k] = NoEntry
      /\ request' = [request EXCEPT ![r] = new]
      /\ crowded' = IF \E q \in Requests : Starting(q, k) THEN crowded \cup {k} ELSE crowded
  BY Zenon DEF vipPushStartHandler, Start, tableVars
<1>2. request'[r] = new /\ \A q \in Requests \ {r} : request'[q] = request[q]
  BY <1>1, VIPParts DEF VIPInv
<1>3. new.pc = "starting" /\ new.cookie = k
  OBVIOUS
<1> HIDE DEF new
<1>4. crowded \subseteq crowded'
  BY <1>1
<1>5. \A j \in Keys : Starting(r, j)' => j = k
  BY <1>2, <1>3, Zenon DEF Starting
<1>6. \A q \in Requests \ {r} : \A j \in Keys : Starting(q, j)' => Starting(q, j)
  BY <1>2, Zenon DEF Starting
<1>7. Alone'
  <2> SUFFICES ASSUME NEW p \in Requests, NEW q \in Requests, NEW j \in Keys \ crowded',
                      Starting(p, j)', Starting(q, j)'
               PROVE  p = q
    BY Zenon DEF Alone
  <2>1. j \notin crowded
    BY <1>4
  <2>2. CASE p # r /\ q # r
    BY <1>6, <2>1, <2>2, Zenon DEF VIPInv, Alone
  <2>3. CASE p = r /\ q # r
    <3>1. j = k /\ Starting(q, k)
      BY <1>5, <1>6, <2>3, Zenon
    <3> QED
      BY <1>1, <3>1
  <2>4. CASE q = r /\ p # r
    <3>1. j = k /\ Starting(p, k)
      BY <1>5, <1>6, <2>4, Zenon
    <3> QED
      BY <1>1, <3>1
  <2> QED
    BY <2>2, <2>3, <2>4
<1>8. Clear'
  <2> SUFFICES ASSUME NEW q \in Requests, NEW j \in Keys \ crowded', Starting(q, j)'
               PROVE  pending[j] = NoEntry
    BY <1>1, Zenon DEF Clear
  <2>1. CASE q = r
    BY <1>1, <1>5, <2>1, Zenon
  <2>2. CASE q # r
    BY SMTT(30), <1>4, <1>6, <2>2 DEF VIPInv, Clear
  <2> QED
    BY <2>1, <2>2
<1>9. Working' /\ Newest'
  BY SMTT(30), <1>1, <1>2, <1>3, <1>4 DEF VIPInv, Working, Newest
<1>10. Filed' /\ PollsLastPush' /\ GrantedWasApproved'
  BY <1>1, <1>4 DEF VIPInv, Filed, PollsLastPush, GrantedWasApproved
<1> QED
  BY <1>7, <1>8, <1>9, <1>10 DEF VIPInv

(* A push is sent: it is the newest one, for a cookie without an entry. *)
LEMMA PushInv ==
    ASSUME VIPInv, VIPTypes', NEW r \in Requests, request[r].pc = "starting",
           UNCHANGED <<pending, approved, granted, crowded>>,
           drawn' = drawn + 1, pushed' = Append(pushed, request[r].cookie),
           request' = [request EXCEPT ![r].pc = "storing", ![r].value = drawn + 1]
    PROVE  VIPInv'
<1> DEFINE k == request[r].cookie
<1>1. /\ drawn \in Nat /\ pushed \in Seq(Keys) /\ Len(pushed) = drawn
      /\ request \in [Requests -> RequestState \cup {NoRequest}] /\ VIPTypes
      /\ approved \subseteq 1 .. drawn
  BY VIPParts DEF VIPInv
<1>2. request[r] \in RequestState /\ k \in Keys
  BY <1>1 DEF RequestState, NoRequest
<1>3. /\ request'[r].pc = "storing" /\ request'[r].value = drawn + 1 /\ request'[r].cookie = k
      /\ request'[r] # NoRequest
      /\ \A q \in Requests \ {r} : request'[q] = request[q]
  BY <1>1, <1>2, Zenon DEF RequestState, NoRequest
<1> HIDE DEF k
<1>4. /\ \A v \in 1 .. drawn : pushed'[v] = pushed[v] /\ v \in 1 .. drawn' /\ v # drawn + 1
      /\ pushed'[drawn + 1] = k /\ drawn + 1 \in 1 .. drawn'
      /\ \A v \in 1 .. drawn' : v = drawn + 1 \/ v \in 1 .. drawn
  BY <1>1, <1>2 DEF k
<1>5. Starting(r, k) /\ \A q \in Requests, j \in Keys : Starting(q, j)' => Starting(q, j)
  <2>1. Starting(r, k)
    BY <1>1, RequestShapes DEF k
  <2>2. \A j \in Keys : Starting(r, j)' => j = k
    BY <1>3, Zenon DEF Starting
  <2>3. \A q \in Requests \ {r} : \A j \in Keys : Starting(q, j)' => Starting(q, j)
    BY <1>3, Zenon DEF Starting
  <2> QED
    BY <2>1, <2>2, <2>3, Zenon
<1>6. Alone' /\ Clear'
  BY <1>5, Zenon DEF VIPInv, Alone, Clear
<1>7. Working' /\ Filed'
  <2>1. ASSUME NEW q \in Requests, request'[q].pc \in {"storing", "polling"}
        PROVE  /\ request'[q].value \in 1 .. drawn'
               /\ pushed'[request'[q].value] = request'[q].cookie
    <3>1. CASE q = r
      BY <1>3, <1>4, <3>1, Zenon
    <3>2. CASE q # r
      <4>1. request'[q] = request[q] /\ request[q].pc \in {"storing", "polling"}
        BY <1>3, <2>1, <3>2, Zenon
      <4>2. request[q].value \in 1 .. drawn /\ pushed[request[q].value] = request[q].cookie
        BY <4>1, Zenon DEF VIPInv, Working
      <4> QED
        BY <1>4, <4>1, <4>2, Zenon
    <3> QED
      BY <3>1, <3>2, Zenon
  <2>2. Filed'
    BY <1>4, Zenon DEF VIPInv, Filed
  <2> QED
    BY <2>1, <2>2, Zenon DEF Working
<1>8. Newest'
  <2> SUFFICES ASSUME NEW q \in Requests, request'[q].pc = "storing",
                      request'[q].cookie \notin crowded, NEW v \in 1 .. drawn',
                      pushed'[v] = request'[q].cookie
               PROVE  v <= request'[q].value
    BY Zenon DEF Newest
  <2>1. CASE q = r
    <3>1. v <= drawn + 1
      BY <1>1, <1>4
    <3> QED
      BY <1>3, <2>1, <3>1
  <2>2. CASE q # r
    <3>1. /\ request[q].pc = "storing" /\ request[q].cookie \notin crowded
          /\ request'[q] = request[q]
      BY <1>3, <2>2, Zenon
    <3>2. request[q].cookie \in Keys /\ Starting(q, request[q].cookie)
      BY <1>1, <3>1, RequestShapes
    <3>3. request[q].cookie # k
      BY <1>5, <2>2, <3>1, <3>2 DEF VIPInv, Alone
    <3>4. v \in 1 .. drawn /\ pushed[v] = request[q].cookie
      BY <1>4, <3>1, <3>3, Zenon
    <3> QED
      BY <3>1, <3>4, Zenon DEF VIPInv, Newest
  <2> QED
    BY <2>1, <2>2
<1>9. PollsLastPush'
  <2> SUFFICES ASSUME NEW j \in Keys \ crowded, pending[j] # NoEntry
               PROVE  /\ pushed'[pending[j].value] = j
                      /\ \A v \in 1 .. drawn' : pushed'[v] = j => v <= pending[j].value
    BY Zenon DEF PollsLastPush
  <2>1. j # k
    BY <1>5, Zenon DEF VIPInv, Clear
  <2>2. pending[j].value \in 1 .. drawn /\ pushed[pending[j].value] = j
    BY Zenon DEF VIPInv, Filed
  <2>3. \A v \in 1 .. drawn : pushed[v] = j => v <= pending[j].value
    BY Zenon DEF VIPInv, PollsLastPush
  <2> QED
    BY <1>4, <2>1, <2>2, <2>3, Zenon
<1>10. GrantedWasApproved'
  BY <1>1, <1>4, Zenon DEF VIPInv, GrantedWasApproved
<1> QED
  BY <1>6, <1>7, <1>8, <1>9, <1>10 DEF VIPInv

(* The push is filed. *)
LEMMA FileInv ==
    ASSUME VIPInv, VIPTypes', NEW r \in Requests, startVIPPush(r) PROVE VIPInv'
<1> DEFINE k == request[r].cookie
           v == request[r].value
           e == [value |-> v, ExpiresAt |-> now + maxAge]
<1>1. /\ UNCHANGED <<drawn, approved, granted, pushed, crowded>>
      /\ request[r].pc = "storing" /\ request' = [request EXCEPT ![r] = NoRequest]
      /\ pending' = [pending EXCEPT ![k] = e]
  BY Zenon DEF startVIPPush, Store, auxVars
<1>2. /\ VIPTypes /\ pending \in [Keys -> Entry \cup {NoEntry}]
      /\ request \in [Requests -> RequestState \cup {NoRequest}]
  BY VIPParts DEF VIPInv
<1>3. k \in Keys /\ Starting(r, k)
  BY <1>1, <1>2, RequestShapes
<1>4. v \in 1 .. drawn /\ pushed[v] = k
  BY <1>1, Zenon DEF VIPInv, Working
<1>5. e.value = v
  OBVIOUS
<1>6. request'[r] = NoRequest /\ \A q \in Requests \ {r} : request'[q] = request[q]
  BY <1>1, <1>2
<1>7. pending'[k] = e /\ \A j \in Keys \ {k} : pending'[j] = pending[j]
  BY <1>1, <1>2, <1>3
<1>8. k \notin crowded => \A u \in 1 .. drawn : pushed[u] = k => u <= v
  BY <1>1, Zenon DEF VIPInv, Newest
<1>9. \A q \in Requests, j \in Keys : Starting(q, j)' => q # r /\ Starting(q, j)
  BY <1>6, Zenon DEF Starting
<1> HIDE DEF k, v, e
<1>10. Alone'
  BY <1>1, <1>9, Zenon DEF VIPInv, Alone
<1>11. Clear'
  <2> SUFFICES ASSUME NEW q \in Requests, NEW j \in Keys \ crowded, Starting(q, j)'
               PROVE  pending'[j] = NoEntry
    BY <1>1, Zenon DEF Clear
  <2>1. q # r /\ Starting(q, j)
    BY <1>9
  <2>2. j # k
    BY <1>3, <2>1, Zenon DEF VIPInv, Alone
  <2> QED
    BY <1>7, <2>1, <2>2, Zenon DEF VIPInv, Clear
<1>12. Working' /\ Newest'
  BY <1>1, <1>6 DEF VIPInv, Working, Newest, NoRequest
<1>13. Filed'
  BY <1>1, <1>4, <1>5, <1>7, Zenon DEF VIPInv, Filed
<1>14. PollsLastPush'
  <2> SUFFICES ASSUME NEW j \in Keys \ crowded, pending'[j] # NoEntry
               PROVE  /\ pushed[pending'[j].value] = j
                      /\ \A u \in 1 .. drawn : pushed[u] = j => u <= pending'[j].value
    BY <1>1, Zenon DEF PollsLastPush
  <2>1. CASE j = k
    BY <1>4, <1>5, <1>7, <1>8, <2>1
  <2>2. CASE j # k
    BY <1>7, <2>2, Zenon DEF VIPInv, PollsLastPush
  <2> QED
    BY <2>1, <2>2
<1>15. GrantedWasApproved'
  BY <1>1, Zenon DEF VIPInv, GrantedWasApproved
<1> QED
  BY <1>10, <1>11, <1>12, <1>13, <1>14, <1>15 DEF VIPInv

(* A poll finds the filed push. *)
LEMMA PollInv ==
    ASSUME VIPInv, VIPTypes', NEW r \in Requests, NEW k \in Keys, getPushPollTransaction(r, k)
    PROVE  VIPInv'
<1> DEFINE new == [pc |-> "polling", cookie |-> k, value |-> pending[k].value]
<1>1. /\ UNCHANGED <<pending, drawn, approved, granted, pushed, crowded>>
      /\ pending[k] # NoEntry /\ request' = [request EXCEPT ![r] = new]
  BY Zenon DEF getPushPollTransaction, Lookup, auxVars
<1>2. request'[r] = new /\ \A q \in Requests \ {r} : request'[q] = request[q]
  BY <1>1, VIPParts DEF VIPInv
<1>3. new.pc = "polling" /\ new.cookie = k /\ new.value = pending[k].value
  OBVIOUS
<1> HIDE DEF new
<1>4. pending[k].value \in 1 .. drawn /\ pushed[pending[k].value] = k
  BY <1>1, Zenon DEF VIPInv, Filed
<1>5. \A q \in Requests, j \in Keys : Starting(q, j)' => Starting(q, j)
  BY <1>2, <1>3, Zenon DEF Starting
<1>6. Alone' /\ Clear'
  BY <1>1, <1>5, Zenon DEF VIPInv, Alone, Clear
<1>7. Working' /\ Newest'
  BY <1>1, <1>2, <1>3, <1>4 DEF VIPInv, Working, Newest
<1>8. Filed' /\ PollsLastPush' /\ GrantedWasApproved'
  BY <1>1, Zenon DEF VIPInv, Filed, PollsLastPush, GrantedWasApproved
<1> QED
  BY <1>6, <1>7, <1>8 DEF VIPInv

LEMMA NextVIPInv == VIPInv /\ [VIPNext]_vipVars => VIPInv'
<1> SUFFICES ASSUME VIPInv, [VIPNext]_vipVars PROVE VIPInv'
  OBVIOUS
<1>1. VIPTypes'
  BY VIPTypesStep
<1>2. CASE UNCHANGED vipVars
  BY <1>1, <1>2, LossInv DEF vipVars, tableVars, auxVars
<1>3. ASSUME NEW r \in Requests, NEW k \in Keys,
             vipPushStartHandler(r, k) \/ getPushPollTransaction(r, k)
      PROVE  VIPInv'
  BY <1>1, <1>3, StartInv, PollInv
<1>4. ASSUME NEW r \in Requests, StartUserVIPPush(r) PROVE VIPInv'
  <2>1. /\ request[r].pc = "starting"
        /\ UNCHANGED <<pending, approved, granted, crowded>>
    BY <1>4, Zenon DEF StartUserVIPPush
  <2>2. CASE /\ drawn' = drawn + 1 /\ pushed' = Append(pushed, request[r].cookie)
             /\ request' = [request EXCEPT ![r].pc = "storing", ![r].value = drawn + 1]
    BY <1>1, <2>1, <2>2, PushInv, Zenon
  <2>3. CASE request' = [request EXCEPT ![r] = NoRequest] /\ UNCHANGED <<drawn, pushed>>
    <3>1. GrantedWasApproved'
      BY <2>1, <2>3, Zenon DEF VIPInv, GrantedWasApproved
    <3> QED
      BY <1>1, <2>1, <2>3, <3>1, EndInv, Zenon
  <2> QED
    BY <1>4, <2>2, <2>3 DEF StartUserVIPPush
<1>5. ASSUME NEW r \in Requests, startVIPPush(r) PROVE VIPInv'
  BY <1>1, <1>5, FileInv
<1>6. ASSUME NEW r \in Requests, VIPPollCheckHandler(r) PROVE VIPInv'
  <2>1. /\ UNCHANGED <<pending, drawn, approved, pushed, crowded>>
        /\ request[r].pc = "polling" /\ request' = [request EXCEPT ![r] = NoRequest]
        /\ \/ request[r].value \in approved /\ granted' = granted \cup {request[r].cookie}
           \/ granted' = granted
    BY <1>6, Zenon DEF VIPPollCheckHandler, tableVars
  <2>2. pushed[request[r].value] = request[r].cookie
    BY <2>1 DEF VIPInv, Working
  <2>3. GrantedWasApproved'
    BY <2>1, <2>2 DEF VIPInv, GrantedWasApproved
  <2> QED
    BY <1>1, <2>1, <2>3, EndInv, Zenon
<1>7. ASSUME NEW v \in Values, Approve(v) PROVE VIPInv'
  <2>1. /\ UNCHANGED <<pending, drawn, request, granted, pushed, crowded>>
        /\ approved \subseteq approved'
    BY <1>7 DEF Approve, tableVars, auxVars
  <2>2. Working' /\ Alone' /\ Newest' /\ Filed' /\ Clear' /\ PollsLastPush'
    BY <2>1, Zenon DEF VIPInv, Working, Alone, Newest, Filed, Clear, PollsLastPush, Starting
  <2>3. GrantedWasApproved'
    BY <2>1 DEF VIPInv, GrantedWasApproved
  <2> QED
    BY <1>1, <2>2, <2>3 DEF VIPInv
<1>8. CASE VIPCleanup \/ VIPTime
  <2>1. UNCHANGED <<drawn, request, approved, granted, pushed, crowded>>
    BY <1>8, Zenon DEF VIPCleanup, VIPTime, performStateCleanup, Tick, auxVars
  <2>2. \A k \in Keys : pending'[k] = pending[k] \/ pending'[k] = NoEntry
    BY <1>8 DEF VIPCleanup, VIPTime, performStateCleanup, Tick, Without
  <2> QED
    BY <1>1, <2>1, <2>2, LossInv
<1>9. CASE VIPCrash
  <2>1. /\ UNCHANGED <<drawn, approved, granted, pushed, crowded>>
        /\ \A k \in Keys : pending'[k] = NoEntry
        /\ \A r \in Requests : request'[r] = NoRequest
    BY <1>9 DEF VIPCrash, TableCrash, auxVars
  <2>2. NoRequest.pc = "idle"
    BY DEF NoRequest
  <2>3. Working' /\ Newest'
    BY <2>1, <2>2 DEF Working, Newest
  <2>4. Alone' /\ Clear' /\ Filed' /\ PollsLastPush'
    BY <2>1, Zenon DEF Alone, Clear, Filed, PollsLastPush, Starting
  <2>5. GrantedWasApproved'
    BY <2>1, Zenon DEF VIPInv, GrantedWasApproved
  <2> QED
    BY <1>1, <2>3, <2>4, <2>5 DEF VIPInv
<1> QED
  BY <1>2, <1>3, <1>4, <1>5, <1>6, <1>7, <1>8, <1>9 DEF VIPNext

-----------------------------------------------------------------------------
(* A push that is about to be filed never was, and is no other request's. *)
Unfiled ==
    \A r \in Requests : request[r].pc = "storing" =>
        /\ request[r].value \notin stored
        /\ \A q \in Requests \ {r} :
              request[q].pc = "storing" => request[q].value # request[r].value

LEMMA VIPTableOK == ASSUME VIPInv, Book PROVE TableOK
BY Zenon DEF VIPInv, VIPTypes, VIPTypeOK, TableOK

(* Steps in which no push is sent or filed. *)
LEMMA UnfiledKept ==
    ASSUME Unfiled, stored' = stored,
           \A r \in Requests : request'[r].pc = "storing" => request'[r] = request[r]
    PROVE  Unfiled'
<1> SUFFICES ASSUME NEW r \in Requests, request'[r].pc = "storing"
             PROVE  /\ request'[r].value \notin stored
                    /\ \A q \in Requests \ {r} :
                          request'[q].pc = "storing" => request'[q].value # request'[r].value
  BY Zenon DEF Unfiled
<1>1. request'[r] = request[r] /\ request[r].pc = "storing"
  OBVIOUS
<1>2. request[r].value \notin stored
  BY <1>1, Zenon DEF Unfiled
<1>3. ASSUME NEW q \in Requests \ {r}, request'[q].pc = "storing"
      PROVE  request'[q].value # request'[r].value
  <2>1. request'[q] = request[q] /\ request[q].pc = "storing"
    BY <1>3
  <2>2. request[q].value # request[r].value
    BY <1>1, <2>1, Zenon DEF Unfiled
  <2> QED BY <1>1, <2>1, <2>2
<1> QED BY <1>1, <1>2, <1>3

LEMMA NextVIPTable ==
    ASSUME VIPInv, Book, Unfiled, [VIPNext]_vipVars
    PROVE  Book' /\ Unfiled' /\ LifecycleStep
<1>1. TableOK /\ TableTypeOK /\ VIPTypes
  BY VIPTableOK DEF TableOK, VIPInv
<1>2. /\ pending \in [Keys -> Entry \cup {NoEntry}] /\ claimed \subseteq Values
      /\ drawn \in Nat /\ drawn \in 0 .. MaxValue /\ MaxValue \in Nat
      /\ request \in [Requests -> RequestState \cup {NoRequest}]
  BY <1>1, TableParts, VIPParts
<1>3. NoRequest.pc = "idle"
  BY DEF NoRequest
<1>4. ASSUME UNCHANGED <<now, nextCleanup, pending, drawn, stored, claimed>>
      PROVE  Book' /\ LifecycleStep
  <2>1. TableOK'
    BY <1>1, <1>2, <1>4, ShrinkOK
  <2> QED
    BY <1>1, <1>4, <2>1, CloseStep DEF TableOK
<1>5. CASE UNCHANGED vipVars
  BY <1>4, <1>5, UnfiledKept DEF vipVars, tableVars
<1>6. ASSUME NEW r \in Requests, NEW k \in Keys, vipPushStartHandler(r, k)
      PROVE  Book' /\ Unfiled' /\ LifecycleStep
  <2>1. /\ UNCHANGED <<now, nextCleanup, pending, drawn, stored, claimed>>
        /\ request' = [request EXCEPT ![r] = [pc |-> "starting", cookie |-> k, value |-> 0]]
    BY <1>6, Zenon DEF vipPushStartHandler, Start, tableVars
  <2>2. \A q \in Requests : request'[q].pc = "storing" => request'[q] = request[q]
    BY <1>2, <2>1
  <2> QED
    BY <1>4, <2>1, <2>2, UnfiledKept
<1>7. ASSUME NEW r \in Requests, NEW k \in Keys, getPushPollTransaction(r, k)
      PROVE  Book' /\ Unfiled' /\ LifecycleStep
  <2>1. /\ Lookup(k) /\ UNCHANGED <<now, nextCleanup, pending, drawn, stored>>
        /\ pending[k] # NoEntry /\ claimed' = claimed \cup {pending[k].value}
        /\ request' = [request EXCEPT ![r] = [pc |-> "polling", cookie |-> k,
                                             value |-> pending[k].value]]
    BY <1>7, Zenon DEF getPushPollTransaction, Lookup
  <2>2. claimed' \subseteq Values
    BY <1>1, <2>1, TableParts
  <2>3. TableOK'
    BY <1>1, <1>2, <2>1, <2>2, ShrinkOK
  <2>4. \A q \in Requests : request'[q].pc = "storing" => request'[q] = request[q]
    BY <1>2, <2>1
  <2>5. LifecycleStep
    BY <1>1, <2>1, ClaimStep
  <2> QED
    BY <2>1, <2>3, <2>4, <2>5, UnfiledKept DEF TableOK
<1>8. ASSUME NEW r \in Requests, StartUserVIPPush(r)
      PROVE  Book' /\ Unfiled' /\ LifecycleStep
  <2>1. UNCHANGED <<now, nextCleanup, pending, stored, claimed>> /\ request[r].pc = "starting"
    BY <1>8, Zenon DEF StartUserVIPPush
  <2>2. CASE request' = [request EXCEPT ![r] = NoRequest] /\ UNCHANGED <<drawn, pushed>>
    <3>1. \A q \in Requests : request'[q].pc = "storing" => request'[q] = request[q]
      BY <1>2, <1>3, <2>2
    <3> QED
      BY <1>4, <2>1, <2>2, <3>1, UnfiledKept
  <2>3. CASE /\ drawn' = drawn + 1
             /\ request' = [request EXCEPT ![r].pc = "storing", ![r].value = drawn + 1]
    <3>1. stored \subseteq 1 .. drawn /\ stored \subseteq 1 .. drawn' /\ drawn + 1 \notin stored
      BY <1>2, <2>3 DEF Book
    <3>2. Book'
      BY <2>1, <3>1, Zenon DEF Book
    <3>3. LifecycleStep
      BY <1>1, <2>1, <3>2, CloseStep
    <3>4. request[r] \in RequestState
      BY <1>2, <1>3, <2>1
    <3>5. /\ request'[r].value = drawn + 1
          /\ \A q \in Requests \ {r} : request'[q] = request[q]
      BY <1>2, <2>3, <3>4 DEF RequestState
    <3>6. \A q \in Requests \ {r} : request[q].pc = "storing" =>
             request[q].value \in 1 .. drawn /\ request[q].value \notin stored
      BY Zenon DEF VIPInv, Working, Unfiled
    <3>7. \A q \in Requests \ {r} : request[q].pc = "storing" => request[q].value # drawn + 1
      BY <1>2, <3>6
    <3>8. ASSUME NEW p \in Requests, request'[p].pc = "storing"
          PROVE  /\ request'[p].value \notin stored
                 /\ \A q \in Requests \ {p} :
                       request'[q].pc = "storing" => request'[q].value # request'[p].value
      <4>1. CASE p = r
        BY <3>1, <3>5, <3>7, <4>1
      <4>2. CASE p # r
        <5>1. request'[p] = request[p] /\ request[p].pc = "storing"
          BY <3>5, <3>8, <4>2
        <5>2. ASSUME NEW q \in Requests \ {p}, request'[q].pc = "storing"
              PROVE  request'[q].value # request'[p].value
          <6>1. CASE q = r
            BY <3>5, <3>7, <4>2, <5>1, <6>1
          <6>2. CASE q # r
            <7>1. request'[q] = request[q] /\ request[q].pc = "storing"
              BY <3>5, <5>2, <6>2
            <7>2. request[q].value # request[p].value
              BY <5>1, <7>1, Zenon DEF Unfiled
            <7> QED BY <5>1, <7>1, <7>2
          <6> QED BY <6>1, <6>2
        <5>3. request[p].value \notin stored
          BY <3>6, <4>2, <5>1
        <5> QED BY <5>1, <5>2, <5>3
      <4> QED BY <4>1, <4>2
    <3>9. Unfiled'
      BY <2>1, <3>8, Zenon DEF Unfiled
    <3> QED BY <3>2, <3>3, <3>9
  <2> QED
    BY <1>8, <2>2, <2>3 DEF StartUserVIPPush
<1>9. ASSUME NEW r \in Requests, startVIPPush(r)
      PROVE  Book' /\ Unfiled' /\ LifecycleStep
  <2>1. PICK v : v = request[r].value
    OBVIOUS
  <2>2. PICK k : k = request[r].cookie
    OBVIOUS
  <2>3. /\ UNCHANGED <<now, nextCleanup, drawn, claimed>> /\ request[r].pc = "storing"
        /\ Store(k, v) /\ stored' = stored \cup {v}
        /\ request' = [request EXCEPT ![r] = NoRequest]
    BY <1>9, <2>1, <2>2, Zenon DEF startVIPPush, Store
  <2>4. k \in Keys
    BY <1>1, <1>3, <2>2, <2>3, RequestShapes
  <2>5. v \in 1 .. drawn /\ v \notin stored
    BY <2>1, <2>3, Zenon DEF VIPInv, Working, Unfiled
  <2>6. v \in Values \ stored /\ v <= drawn' /\ drawn' \in 0 .. MaxValue /\ drawn <= drawn'
    BY <1>2, <2>3, <2>5 DEF Values
  <2>7. TableOK'
    BY <1>1, <2>3, <2>4, <2>6, StoreOK
  <2>8. LifecycleStep
    BY <1>1, <2>3, <2>4, <2>6, <2>7, IssueStep DEF TableOK
  <2>9. \A p \in Requests : request'[p].pc = "storing" =>
           p # r /\ request'[p] = request[p] /\ request[p].pc = "storing"
    BY <1>2, <1>3, <2>3
  <2>10. \A p \in Requests \ {r} : request[p].pc = "storing" =>
            request[p].value \notin stored /\ request[p].value # v
    BY <2>1, <2>3, Zenon DEF Unfiled
  <2>11. ASSUME NEW p \in Requests, request'[p].pc = "storing"
         PROVE  /\ request'[p].value \notin stored'
                /\ \A q \in Requests \ {p} :
                      request'[q].pc = "storing" => request'[q].value # request'[p].value
    <3>1. p # r /\ request'[p] = request[p] /\ request[p].pc = "storing"
      BY <2>9, <2>11, Zenon
    <3>2. request'[p].value \notin stored'
      BY <2>3, <2>10, <3>1
    <3>3. ASSUME NEW q \in Requests \ {p}, request'[q].pc = "storing"
          PROVE  request'[q].value # request'[p].value
      <4>1. request'[q] = request[q] /\ request[q].pc = "storing"
        BY <2>9, <3>3
      <4>2. request[q].value # request[p].value
        BY <3>1, <4>1, Zenon DEF Unfiled
      <4> QED BY <3>1, <4>1, <4>2
    <3> QED BY <3>2, <3>3
  <2> QED
    BY <2>7, <2>8, <2>11, Zenon DEF TableOK, Unfiled
<1>10. ASSUME NEW r \in Requests, VIPPollCheckHandler(r)
       PROVE  Book' /\ Unfiled' /\ LifecycleStep
  <2>1. /\ UNCHANGED <<now, nextCleanup, pending, drawn, stored, claimed>>
        /\ request' = [request EXCEPT ![r] = NoRequest]
    BY <1>10, Zenon DEF VIPPollCheckHandler, tableVars
  <2>2. \A q \in Requests : request'[q].pc = "storing" => request'[q] = request[q]
    BY <1>2, <1>3, <2>1
  <2> QED
    BY <1>4, <2>1, <2>2, UnfiledKept
<1>11. ASSUME NEW v \in Values, Approve(v) PROVE Book' /\ Unfiled' /\ LifecycleStep
  <2>1. UNCHANGED <<now, nextCleanup, pending, drawn, stored, claimed, request>>
    BY <1>11, Zenon DEF Approve, tableVars
  <2> QED
    BY <1>4, <2>1, UnfiledKept
<1>12. ASSUME VIPCleanup PROVE Book' /\ Unfiled' /\ LifecycleStep
  <2>1. /\ performStateCleanup /\ pending' = Without(ExpiredKeys)
        /\ UNCHANGED <<stored, claimed, request>>
    BY <1>12, Zenon DEF VIPCleanup, performStateCleanup
  <2>2. TableOK' /\ \A k \in Keys : pending'[k] = pending[k] \/ pending'[k] = NoEntry
    BY <1>1, <2>1, CleanupOK, WithoutType
  <2> QED
    BY <1>1, <2>1, <2>2, CloseStep, UnfiledKept DEF TableOK
<1>13. ASSUME VIPCrash PROVE Book' /\ Unfiled' /\ LifecycleStep
  <2>1. /\ TableCrash /\ pending' = [k \in Keys |-> NoEntry] /\ UNCHANGED <<stored, claimed>>
        /\ request' = [r \in Requests |-> NoRequest]
    BY <1>13, Zenon DEF VIPCrash, TableCrash
  <2>2. TableOK' /\ \A k \in Keys : pending'[k] = pending[k] \/ pending'[k] = NoEntry
    BY <1>1, <2>1, CrashOK
  <2>3. \A r \in Requests : request'[r].pc = "storing" => request'[r] = request[r]
    BY SMTT(30), <1>3, <2>1
  <2> QED
    BY <1>1, <2>1, <2>2, <2>3, CloseStep, UnfiledKept DEF TableOK
<1>14. ASSUME VIPTime PROVE Book' /\ Unfiled' /\ LifecycleStep
  <2>1. Tick /\ UNCHANGED <<pending, stored, claimed, request>>
    BY <1>14, Zenon DEF VIPTime, Tick
  <2>2. TableOK'
    BY <1>1, <2>1, TickOK
  <2> QED
    BY <1>1, <2>1, <2>2, CloseStep, UnfiledKept DEF TableOK
<1> QED
  BY <1>5, <1>6, <1>7, <1>8, <1>9, <1>10, <1>11, <1>12, <1>13, <1>14 DEF VIPNext

(* A push is filed only where none is, unless start requests overlapped. *)
LEMMA VIPKeeps == ASSUME VIPInv, VIPNext PROVE KeepsTransactions
<1> SUFFICES ASSUME ~VIPCrash, NEW k \in Keys \ crowded, pending[k] # NoEntry,
                    pending'[k] # pending[k]
             PROVE  Expired(pending[k])
  BY Zenon DEF KeepsTransactions
<1>1. VIPTypes /\ TableTypeOK /\ pending \in [Keys -> Entry \cup {NoEntry}]
  BY VIPParts DEF VIPInv, VIPTypes, VIPTypeOK
<1>2. ASSUME NEW r \in Requests, startVIPPush(r) PROVE FALSE
  <2>1. PICK e : pending' = [pending EXCEPT ![request[r].cookie] = e]
    BY <1>2, Zenon DEF startVIPPush, Store
  <2>2. request[r].cookie = k
    BY <1>1, <2>1
  <2>3. request[r].pc = "storing"
    BY <1>2, Zenon DEF startVIPPush
  <2>4. Starting(r, k)
    BY <1>1, <2>2, <2>3, RequestShapes
  <2> QED
    BY <2>4, Zenon DEF VIPInv, Clear
<1>3. ASSUME VIPCleanup PROVE Expired(pending[k])
  <2>1. pending' = Without(ExpiredKeys)
    BY <1>3, Zenon DEF VIPCleanup, performStateCleanup
  <2>2. k \in ExpiredKeys
    BY <1>1, <2>1, WithoutType
  <2> QED
    BY <2>2 DEF ExpiredKeys
<1>4. ASSUME pending' = pending PROVE FALSE
  BY <1>4
<1>5. ASSUME NEW r \in Requests,
             \/ \E j \in Keys : vipPushStartHandler(r, j) \/ getPushPollTransaction(r, j)
             \/ StartUserVIPPush(r) \/ VIPPollCheckHandler(r)
      PROVE  pending' = pending
  BY <1>5, Zenon DEF vipPushStartHandler, Start, getPushPollTransaction, StartUserVIPPush,
                     VIPPollCheckHandler, tableVars
<1>6. ASSUME NEW v \in Values, Approve(v) PROVE pending' = pending
  BY <1>6, Zenon DEF Approve, tableVars
<1>7. ASSUME VIPTime PROVE pending' = pending
  BY <1>7, Zenon DEF VIPTime, Tick
<1> QED
  BY <1>2, <1>3, <1>4, <1>5, <1>6, <1>7 DEF VIPNext

-----------------------------------------------------------------------------
(* FederatedLogin *)

LoginTypes == LoginTypeOK /\ callback \in [Callbacks -> CallbackState \cup {NoCallback}]

(* Cookies are numbered as they are drawn, and a login precedes a removal. *)
Numbered ==
    /\ \A k \in Keys : pending[k] # NoEntry => k \in 1 .. drawn
    /\ \A c \in Callbacks : callback[c] # NoCallback => callback[c].cookie \in 1 .. drawn
    /\ \A c \in Callbacks : callback[c].pc = "deleting" => callback[c].cookie \in loggedIn

(* The cookies of finished logins are not in the table, and not drawn again. *)
Done == finished \subseteq 1 .. drawn /\ \A k \in finished : pending[k] = NoEntry

LoginInv == LoginTypes /\ Book /\ Numbered /\ Done

LEMMA LoginParts ==
    ASSUME LoginTypes
    PROVE  /\ TableTypeOK /\ loggedIn \subseteq Keys /\ finished \subseteq loggedIn
           /\ callback \in [Callbacks -> CallbackState \cup {NoCallback}]
BY Zenon DEF LoginTypes, LoginTypeOK

LEMMA CallbackShapes ==
    ASSUME LoginTypes, NEW c \in Callbacks
    PROVE  /\ callback[c] = NoCallback <=> callback[c].pc = "idle"
           /\ callback[c] # NoCallback => callback[c] \in CallbackState /\ callback[c].cookie \in Keys
<1>1. callback[c] \in CallbackState \/ callback[c] = NoCallback
  BY LoginParts
<1> QED
  BY <1>1 DEF CallbackState, NoCallback

LEMMA InitLoginInv == LoginInit => LoginInv
<1> SUFFICES ASSUME LoginInit PROVE LoginInv
  OBVIOUS
<1>1. /\ TableInit /\ callback = [c \in Callbacks |-> NoCallback] /\ loggedIn = {} /\ finished = {}
  BY Zenon DEF LoginInit
<1>2. TableTypeOK /\ Book /\ \A k \in Keys : pending[k] = NoEntry
  BY <1>1, TableStart DEF TableOK, TableInit
<1>3. LoginTypes
  BY <1>1, <1>2 DEF LoginTypes, LoginTypeOK
<1>4. Numbered /\ Done
  BY <1>1, <1>2 DEF Numbered, Done, NoCallback
<1> QED BY <1>2, <1>3, <1>4 DEF LoginInv

(* Entries go away, and each callback stays, ends or goes on. *)
LEMMA LoginShrink ==
    ASSUME LoginInv, TableOK', drawn' = drawn,
           \A k \in Keys : pending'[k] = pending[k] \/ pending'[k] = NoEntry,
           callback' \in [Callbacks -> CallbackState \cup {NoCallback}],
           \A c \in Callbacks : callback'[c] # NoCallback =>
              /\ callback'[c].cookie \in 1 .. drawn
              /\ callback'[c].pc = "deleting" => callback'[c].cookie \in loggedIn',
           loggedIn' \subseteq Keys, finished' \subseteq loggedIn',
           finished' \subseteq 1 .. drawn, \A k \in finished' : pending'[k] = NoEntry
    PROVE  LoginInv'
<1>1. LoginTypes'
  <2>1. \A c \in Callbacks : callback'[c] \in CallbackState \cup {NoCallback}
    OBVIOUS
  <2>2. TableTypeOK'
    BY DEF TableOK
  <2> QED
    BY <2>1, <2>2, Zenon DEF LoginTypes, LoginTypeOK
<1>2. \A k \in Keys : pending'[k] # NoEntry => k \in 1 .. drawn'
  BY Zenon DEF LoginInv, Numbered
<1>3. \A c \in Callbacks : callback'[c].pc = "deleting" => callback'[c] # NoCallback
  BY DEF NoCallback
<1>4. Numbered'
  BY <1>2, <1>3, Zenon DEF Numbered
<1>5. Done'
  BY Zenon DEF Done
<1>6. Book'
  BY DEF TableOK
<1> QED BY <1>1, <1>4, <1>5, <1>6 DEF LoginInv

LEMMA NextLoginInv == ASSUME LoginInv, [LoginNext]_loginVars PROVE LoginInv' /\ LifecycleStep
<1>1. /\ TableOK /\ LoginTypes /\ TableTypeOK /\ Book
      /\ loggedIn \subseteq Keys /\ finished \subseteq loggedIn
      /\ callback \in [Callbacks -> CallbackState \cup {NoCallback}]
      /\ finished \subseteq 1 .. drawn /\ \A k \in finished : pending[k] = NoEntry
      /\ finished \subseteq Keys
  BY LoginParts DEF LoginInv, TableOK, Done
<1>2. /\ pending \in [Keys -> Entry \cup {NoEntry}] /\ claimed \subseteq Values
      /\ drawn \in Nat /\ MaxValue \in Nat
  BY <1>1, TableParts
<1>3. \A c \in Callbacks : callback[c] # NoCallback =>
         /\ callback[c].cookie \in 1 .. drawn /\ callback[c].cookie \in Keys
         /\ callback[c] \in CallbackState
         /\ callback[c].pc = "deleting" => callback[c].cookie \in loggedIn
  BY <1>1, CallbackShapes DEF LoginInv, Numbered
<1>4. ASSUME TableOK', UNCHANGED <<drawn, stored, claimed, loggedIn, finished>>,
             \A k \in Keys : pending'[k] = pending[k] \/ pending'[k] = NoEntry,
             callback' \in [Callbacks -> CallbackState \cup {NoCallback}],
             \A c \in Callbacks : callback'[c] # NoCallback => callback'[c] = callback[c]
      PROVE  LoginInv' /\ LifecycleStep
  <2>1. \A k \in finished' : pending'[k] = NoEntry
    BY <1>1, <1>4
  <2>2. \A c \in Callbacks : callback'[c] # NoCallback =>
              /\ callback'[c].cookie \in 1 .. drawn
              /\ callback'[c].pc = "deleting" => callback'[c].cookie \in loggedIn'
    BY SMTT(30), <1>3, <1>4
  <2>3. loggedIn' \subseteq Keys /\ finished' \subseteq loggedIn' /\ finished' \subseteq 1 .. drawn
    BY SMTT(30), <1>1, <1>4
  <2>4. LoginInv'
    BY SMTT(30), <1>1, <1>4, <2>1, <2>2, <2>3, LoginShrink
  <2>5. LifecycleStep
    BY <1>1, <1>4, CloseStep DEF TableOK
  <2> QED BY <2>4, <2>5
<1>5. ASSUME UNCHANGED tableVars PROVE TableOK' /\ LifecycleStep /\ UNCHANGED <<drawn, pending>>
  <2>1. UNCHANGED <<now, nextCleanup, pending, drawn, stored, claimed>>
    BY <1>5, Zenon DEF tableVars
  <2>2. TableOK'
    BY <1>1, <1>2, <2>1, ShrinkOK
  <2> QED
    BY <1>1, <2>1, <2>2, CloseStep DEF TableOK
<1>6. CASE UNCHANGED loginVars
  <2>1. UNCHANGED <<tableVars, drawn, pending, stored, claimed, callback, loggedIn, finished>>
    BY <1>6, Zenon DEF loginVars, tableVars
  <2> QED
    BY <1>1, <1>4, <1>5, <2>1
<1>7. ASSUME oauth2DoRedirectoToProviderHandler PROVE LoginInv' /\ LifecycleStep
  <2>1. PICK n : n = drawn + 1
    OBVIOUS
  <2> DEFINE e == [value |-> n, ExpiresAt |-> now + maxAge]
  <2>2. /\ drawn < MaxValue /\ n \in Keys /\ drawn' = n /\ Store(n, n)
        /\ pending' = [pending EXCEPT ![n] = e]
        /\ UNCHANGED <<now, nextCleanup, claimed, callback, loggedIn, finished>>
    BY <1>7, <2>1, Zenon DEF oauth2DoRedirectoToProviderHandler, Store
  <2>3. stored \subseteq 1 .. drawn
    BY <1>1 DEF Book
  <2>4. /\ n \in Values \ stored /\ n <= drawn' /\ drawn <= drawn' /\ drawn' \in 0 .. MaxValue
        /\ n \notin finished /\ \A i \in 1 .. drawn : i \in 1 .. drawn'
        /\ n \in 1 .. drawn'
    BY SMTT(30), <1>1, <1>2, <2>1, <2>2, <2>3 DEF Values
  <2>5. TableOK'
    BY <1>1, <2>2, <2>4, StoreOK
  <2>6. LifecycleStep
    BY <1>1, <2>2, <2>4, <2>5, IssueStep DEF TableOK
  <2> HIDE DEF e
  <2>7. \A k \in Keys \ {n} : pending'[k] = pending[k]
    BY <1>2, <2>2
  <2>8. LoginTypes'
    BY <1>1, <2>2, <2>5, Zenon DEF LoginTypes, LoginTypeOK, TableOK
  <2>9. \A k \in Keys : pending'[k] # NoEntry => k \in 1 .. drawn'
    BY SMTT(30), <2>4, <2>7 DEF LoginInv, Numbered
  <2>10. Numbered'
    BY <1>3, <2>2, <2>4, <2>9 DEF Numbered, NoCallback
  <2>11. Done'
    BY <1>1, <2>2, <2>4, <2>7 DEF Done
  <2> QED
    BY <2>5, <2>6, <2>8, <2>10, <2>11 DEF LoginInv, TableOK
<1>8. ASSUME NEW c \in Callbacks, NEW k \in Keys, LookupPending(c, k)
      PROVE  LoginInv' /\ LifecycleStep
  <2> DEFINE new == [pc |-> "exchanging", cookie |-> k]
  <2>1. /\ Lookup(k) /\ pending[k] # NoEntry /\ claimed' = claimed \cup {pending[k].value}
        /\ callback' = [callback EXCEPT ![c] = new]
        /\ UNCHANGED <<now, nextCleanup, pending, drawn, stored, loggedIn, finished>>
    BY <1>8, Zenon DEF LookupPending, Lookup
  <2>2. claimed' \subseteq Values
    BY <1>1, <2>1, TableParts
  <2>3. TableOK'
    BY <1>1, <1>2, <2>1, <2>2, ShrinkOK
  <2>4. LifecycleStep
    BY <1>1, <2>1, ClaimStep
  <2>5. k \in 1 .. drawn
    BY <2>1, Zenon DEF LoginInv, Numbered
  <2>6. new \in CallbackState /\ new.cookie = k /\ new.pc = "exchanging"
    BY DEF CallbackState
  <2> HIDE DEF new
  <2>7. /\ callback' \in [Callbacks -> CallbackState \cup {NoCallback}]
        /\ callback'[c] = new /\ \A d \in Callbacks \ {c} : callback'[d] = callback[d]
    BY <1>1, <2>1, <2>6
  <2>8. \A d \in Callbacks : callback'[d] # NoCallback =>
           /\ callback'[d].cookie \in 1 .. drawn
           /\ callback'[d].pc = "deleting" => callback'[d].cookie \in loggedIn'
    BY SMTT(30), <1>3, <2>1, <2>5, <2>6, <2>7
  <2>9. LoginInv'
    BY <1>1, <2>1, <2>3, <2>7, <2>8, LoginShrink
  <2> QED BY <2>4, <2>9
<1>9. ASSUME NEW c \in Callbacks, Exchange(c) \/ setNewAuthCookie(c)
      PROVE  LoginInv' /\ LifecycleStep
  <2>1. /\ callback[c].pc \in {"exchanging", "granting"}
        /\ UNCHANGED <<tableVars, finished>>
        /\ \/ /\ callback' = [callback EXCEPT ![c].pc = "granting"] /\ loggedIn' = loggedIn
           \/ /\ callback' = [callback EXCEPT ![c].pc = "deleting"]
              /\ loggedIn' = loggedIn \cup {callback[c].cookie}
           \/ /\ callback' = [callback EXCEPT ![c] = NoCallback] /\ loggedIn' = loggedIn
    BY <1>9 DEF Exchange, setNewAuthCookie
  <2>2. TableOK' /\ LifecycleStep /\ drawn' = drawn /\ pending' = pending
    BY <1>5, <2>1
  <2>3. callback[c] # NoCallback
    BY <1>1, <2>1, CallbackShapes
  <2>4. PICK q \in CallbackState :
           q = callback[c] /\ q.cookie \in 1 .. drawn /\ q.cookie \in Keys
    BY <1>3, <2>3, Zenon
  <2>5. /\ [q EXCEPT !.pc = "granting"] \in CallbackState
        /\ [q EXCEPT !.pc = "granting"].cookie = q.cookie
        /\ [q EXCEPT !.pc = "granting"].pc = "granting"
        /\ [q EXCEPT !.pc = "deleting"] \in CallbackState
        /\ [q EXCEPT !.pc = "deleting"].cookie = q.cookie
    BY DEF CallbackState
  <2>6. /\ \A d \in Callbacks \ {c} : callback'[d] = callback[d]
        /\ \/ callback'[c] = [q EXCEPT !.pc = "granting"] /\ loggedIn' = loggedIn
           \/ callback'[c] = [q EXCEPT !.pc = "deleting"] /\ loggedIn' = loggedIn \cup {q.cookie}
           \/ callback'[c] = NoCallback /\ loggedIn' = loggedIn
    BY <1>1, <2>1, <2>4
  <2>7. callback' \in [Callbacks -> CallbackState \cup {NoCallback}]
    BY <1>1, <2>1, <2>4, <2>5, <2>6
  <2>8. loggedIn \subseteq loggedIn' /\ loggedIn' \subseteq Keys
    BY <1>1, <2>4, <2>6
  <2>9. \A d \in Callbacks : callback'[d] # NoCallback =>
           /\ callback'[d].cookie \in 1 .. drawn
           /\ callback'[d].pc = "deleting" => callback'[d].cookie \in loggedIn'
    <3>1. ASSUME NEW d \in Callbacks, d # c, callback'[d] # NoCallback
          PROVE  /\ callback'[d].cookie \in 1 .. drawn
                 /\ callback'[d].pc = "deleting" => callback'[d].cookie \in loggedIn'
      <4>1. callback'[d] = callback[d]
        BY <2>6, <3>1, Zenon
      <4>2. /\ callback[d].cookie \in 1 .. drawn
            /\ callback[d].pc = "deleting" => callback[d].cookie \in loggedIn
        BY <1>3, <3>1, <4>1, Zenon
      <4> QED
        BY <2>8, <4>1, <4>2, Zenon
    <3>2. ASSUME callback'[c] # NoCallback
          PROVE  /\ callback'[c].cookie \in 1 .. drawn
                 /\ callback'[c].pc = "deleting" => callback'[c].cookie \in loggedIn'
      <4>1. CASE callback'[c] = [q EXCEPT !.pc = "granting"]
        <5>1. callback'[c].cookie = q.cookie /\ callback'[c].pc = "granting"
          BY <2>5, <4>1, Zenon
        <5> QED
          BY <2>4, <5>1
      <4>2. CASE callback'[c] = [q EXCEPT !.pc = "deleting"] /\ loggedIn' = loggedIn \cup {q.cookie}
        <5>1. callback'[c].cookie = q.cookie /\ q.cookie \in loggedIn'
          BY <2>5, <4>2, Zenon
        <5> QED
          BY <2>4, <5>1, Zenon
      <4> QED
        BY <2>6, <3>2, <4>1, <4>2, Zenon
    <3> QED
      BY <3>1, <3>2, Zenon
  <2>10. /\ finished' \subseteq loggedIn' /\ finished' \subseteq 1 .. drawn
         /\ \A k \in finished' : pending'[k] = NoEntry
    BY <1>1, <2>1, <2>2, <2>8
  <2>11. LoginInv'
    BY <1>1, <2>2, <2>7, <2>8, <2>9, <2>10, LoginShrink
  <2> QED BY <2>2, <2>11
<1>10. ASSUME NEW c \in Callbacks, DeletePending(c) PROVE LoginInv' /\ LifecycleStep
  <2>1. PICK k : k = callback[c].cookie
    OBVIOUS
  <2>2. /\ callback[c].pc = "deleting" /\ pending' = Without({k})
        /\ callback' = [callback EXCEPT ![c] = NoCallback] /\ finished' = finished \cup {k}
        /\ UNCHANGED <<now, nextCleanup, drawn, stored, claimed, loggedIn>>
    BY <1>10, <2>1, Zenon DEF DeletePending
  <2>3. callback[c] # NoCallback
    BY <1>1, <2>2, CallbackShapes
  <2>4. k \in Keys /\ k \in 1 .. drawn /\ k \in loggedIn
    BY <1>3, <2>1, <2>2, <2>3, Zenon
  <2>5. /\ pending' \in [Keys -> Entry \cup {NoEntry}] /\ pending'[k] = NoEntry
        /\ \A j \in Keys : pending'[j] = pending[j] \/ pending'[j] = NoEntry
    BY <1>1, <2>2, <2>4, WithoutType
  <2>6. TableOK'
    BY <1>1, <1>2, <2>2, <2>5, ShrinkOK
  <2>7. LifecycleStep
    BY SMTT(30), <1>1, <2>2, <2>5, <2>6, CloseStep DEF TableOK
  <2>8. /\ callback' \in [Callbacks -> CallbackState \cup {NoCallback}]
        /\ \A d \in Callbacks : callback'[d] # NoCallback => callback'[d] = callback[d]
    BY <1>1, <2>2
  <2>9. \A d \in Callbacks : callback'[d] # NoCallback =>
           /\ callback'[d].cookie \in 1 .. drawn
           /\ callback'[d].pc = "deleting" => callback'[d].cookie \in loggedIn'
    BY <1>3, <2>2, <2>8
  <2>10. /\ loggedIn' \subseteq Keys /\ finished' \subseteq loggedIn' /\ finished' \subseteq 1 .. drawn
         /\ \A j \in finished' : pending'[j] = NoEntry
    BY SMTT(30), <1>1, <2>2, <2>4, <2>5
  <2>11. LoginInv'
    BY <1>1, <2>2, <2>5, <2>6, <2>8, <2>9, <2>10, LoginShrink, Zenon
  <2> QED BY <2>7, <2>11
<1>11. ASSUME LoginCleanup PROVE LoginInv' /\ LifecycleStep
  <2>1. /\ performStateCleanup /\ pending' = Without(ExpiredKeys)
        /\ UNCHANGED <<drawn, stored, claimed, callback, loggedIn, finished>>
    BY <1>11, Zenon DEF LoginCleanup, performStateCleanup
  <2>2. TableOK' /\ \A k \in Keys : pending'[k] = pending[k] \/ pending'[k] = NoEntry
    BY <1>1, <2>1, CleanupOK, WithoutType
  <2> QED
    BY <1>1, <1>4, <2>1, <2>2
<1>12. ASSUME LoginCrash PROVE LoginInv' /\ LifecycleStep
  <2>1. /\ TableCrash /\ pending' = [k \in Keys |-> NoEntry]
        /\ callback' = [c \in Callbacks |-> NoCallback]
        /\ UNCHANGED <<drawn, stored, claimed, loggedIn, finished>>
    BY <1>12, Zenon DEF LoginCrash, TableCrash
  <2>2. TableOK' /\ \A k \in Keys : pending'[k] = pending[k] \/ pending'[k] = NoEntry
    BY <1>1, <2>1, CrashOK
  <2>3. /\ callback' \in [Callbacks -> CallbackState \cup {NoCallback}]
        /\ \A c \in Callbacks : callback'[c] = NoCallback
    BY <2>1
  <2> QED
    BY <1>4, <2>1, <2>2, <2>3
<1>13. ASSUME LoginTime PROVE LoginInv' /\ LifecycleStep
  <2>1. Tick /\ UNCHANGED <<pending, drawn, stored, claimed, callback, loggedIn, finished>>
    BY <1>13, Zenon DEF LoginTime, Tick
  <2>2. TableOK'
    BY <1>1, <2>1, TickOK
  <2> QED
    BY <1>1, <1>4, <2>1, <2>2
<1> QED
  BY <1>6, <1>7, <1>8, <1>9, <1>10, <1>11, <1>12, <1>13 DEF LoginNext, oauth2RedirectPathHandler

LEMMA LoginFinds == ASSUME LoginInv, LoginNext PROVE FindsOpenLogins
<1> SUFFICES ASSUME NEW c \in Callbacks, FindsLogin(c) PROVE callback'[c].cookie \notin finished
  BY Zenon DEF FindsOpenLogins
<1>1. LoginTypes /\ callback \in [Callbacks -> CallbackState \cup {NoCallback}]
  BY LoginParts DEF LoginInv
<1>2. callback[c].pc = "idle" /\ callback'[c].pc = "exchanging" /\ NoCallback.pc = "idle"
  BY DEF FindsLogin, NoCallback
<1>3. ASSUME NEW d \in Callbacks, NEW k \in Keys, LookupPending(d, k)
      PROVE  d = c /\ callback'[c].cookie = k /\ pending[k] # NoEntry
  <2>1. callback' = [callback EXCEPT ![d] = [pc |-> "exchanging", cookie |-> k]] /\ pending[k] # NoEntry
    BY <1>3, Zenon DEF LookupPending, Lookup
  <2> QED BY <1>1, <1>2, <2>1
<1>4. ASSUME NEW d \in Callbacks, Exchange(d) \/ setNewAuthCookie(d) \/ DeletePending(d)
      PROVE  FALSE
  <2>1. /\ callback[d].pc # "idle"
        /\ \E q : callback' = [callback EXCEPT ![d] = q]
    BY <1>4 DEF Exchange, setNewAuthCookie, DeletePending
  <2> QED BY <1>1, <1>2, <2>1
<1>5. ASSUME \/ callback' = callback
             \/ callback' = [d \in Callbacks |-> NoCallback]
      PROVE  FALSE
  BY <1>2, <1>5
<1>6. ASSUME \/ oauth2DoRedirectoToProviderHandler \/ LoginCleanup \/ LoginCrash \/ LoginTime
      PROVE  FALSE
  BY <1>5, <1>6, Zenon DEF oauth2DoRedirectoToProviderHandler, LoginCleanup, LoginCrash, LoginTime
<1>7. PICK k \in Keys : callback'[c].cookie = k /\ pending[k] # NoEntry
  <2>1. PICK d \in Callbacks : oauth2RedirectPathHandler(d)
    BY <1>6, Zenon DEF LoginNext
  <2>2. PICK k \in Keys : LookupPending(d, k)
    BY <1>4, <2>1, Zenon DEF oauth2RedirectPathHandler
  <2> QED
    BY <1>3, <2>2, Zenon
<1> QED
  BY <1>7, Zenon DEF LoginInv, Done

LEMMA LoginKeeps == ASSUME LoginInv, LoginNext PROVE KeepsLogins
<1> SUFFICES ASSUME ~LoginCrash, NEW k \in Keys, pending[k] # NoEntry, pending'[k] = NoEntry,
                    ~Expired(pending[k])
             PROVE  k \in loggedIn
  BY Zenon DEF KeepsLogins
<1>1. LoginTypes /\ TableTypeOK /\ pending \in [Keys -> Entry \cup {NoEntry}]
  BY LoginParts, TableParts DEF LoginInv
<1>2. ASSUME oauth2DoRedirectoToProviderHandler PROVE FALSE
  <2>1. pending' = [pending EXCEPT ![drawn + 1] = [value |-> drawn + 1, ExpiresAt |-> now + maxAge]]
    BY <1>2, Zenon DEF oauth2DoRedirectoToProviderHandler, Store
  <2> QED
    BY <1>1, <2>1 DEF NoEntry
<1>3. ASSUME NEW c \in Callbacks, \/ \E j \in Keys : LookupPending(c, j)
                                  \/ Exchange(c) \/ setNewAuthCookie(c)
      PROVE  FALSE
  BY <1>3, Zenon DEF LookupPending, Exchange, setNewAuthCookie, tableVars
<1>4. ASSUME NEW c \in Callbacks, DeletePending(c) PROVE k \in loggedIn
  <2>1. callback[c].pc = "deleting" /\ pending' = Without({callback[c].cookie})
    BY <1>4, Zenon DEF DeletePending
  <2>2. k = callback[c].cookie
    BY <1>1, <2>1, WithoutType
  <2> QED
    BY <2>1, <2>2, Zenon DEF LoginInv, Numbered
<1>5. ASSUME LoginCleanup PROVE FALSE
  <2>1. pending' = Without(ExpiredKeys)
    BY <1>5, Zenon DEF LoginCleanup, performStateCleanup
  <2>2. k \in ExpiredKeys
    BY <1>1, <2>1, WithoutType
  <2> QED
    BY <2>2 DEF ExpiredKeys
<1>6. ASSUME LoginTime PROVE FALSE
  BY <1>6, Zenon DEF LoginTime, Tick
<1> QED
  BY <1>2, <1>3, <1>4, <1>5, <1>6 DEF LoginNext, oauth2RedirectPathHandler

-----------------------------------------------------------------------------
(***************************************************************************)
(* The three tables together: the one that the initial state chose keeps   *)
(* its component's inductive invariant.                                    *)
(***************************************************************************)
MCInv ==
    /\ kind \in {"u2f", "vip", "oauth2"}
    /\ kind = "u2f" => U2FInv
    /\ kind = "vip" => VIPInv /\ Book /\ Unfiled
    /\ kind = "oauth2" => LoginInv
    /\ kind # "vip" => granted = {}

LEMMA InitMCInv == MCInit => MCInv
<1> SUFFICES ASSUME MCInit PROVE MCInv
  OBVIOUS
<1>1. /\ kind \in {"u2f", "vip", "oauth2"} /\ U2FInit /\ VIPInit /\ LoginInit
  BY Zenon DEF MCInit
<1>2. U2FInv /\ VIPInv /\ LoginInv
  BY <1>1, InitU2FInv, InitVIPInv, InitLoginInv
<1>3. /\ Book /\ granted = {} /\ request = [r \in Requests |-> NoRequest]
  BY <1>1, <1>2, Zenon DEF U2FInv, VIPInit
<1>4. Unfiled
  BY <1>3 DEF Unfiled, NoRequest
<1> QED BY <1>1, <1>2, <1>3, <1>4 DEF MCInv

(* A step is one of the chosen component. *)
LEMMA StepOfKind ==
    ASSUME [MCNext]_allVars, kind \in {"u2f", "vip", "oauth2"}
    PROVE  /\ kind' = kind
           /\ kind = "u2f" => [U2FNext]_u2fVars /\ granted' = granted
           /\ kind = "vip" => [VIPNext]_vipVars
           /\ kind = "oauth2" => [LoginNext]_loginVars /\ granted' = granted
<1>1. CASE InU2F(U2FNext)
  BY <1>1 DEF InU2F, auxVars
<1>2. CASE InVIP(VIPNext)
  BY <1>2 DEF InVIP
<1>3. CASE InLogin(LoginNext)
  BY <1>3 DEF InLogin, auxVars
<1>4. CASE UNCHANGED allVars
  BY <1>4, Zenon DEF allVars, vipVars, auxVars
<1> QED BY <1>1, <1>2, <1>3, <1>4 DEF MCNext

LEMMA NextMCInv == MCInv /\ [MCNext]_allVars => MCInv' /\ LifecycleStep
<1> SUFFICES ASSUME MCInv, [MCNext]_allVars PROVE MCInv' /\ LifecycleStep
  OBVIOUS
<1>1. kind \in {"u2f", "vip", "oauth2"}
  BY DEF MCInv
<1>2. /\ kind' = kind
      /\ kind = "u2f" => [U2FNext]_u2fVars /\ granted' = granted
      /\ kind = "vip" => [VIPNext]_vipVars
      /\ kind = "oauth2" => [LoginNext]_loginVars /\ granted' = granted
  BY <1>1, StepOfKind
<1>3. CASE kind = "u2f"
  <2>1. U2FInv' /\ LifecycleStep
    BY <1>2, <1>3, NextU2FInv DEF MCInv
  <2> QED BY <1>2, <1>3, <2>1 DEF MCInv
<1>4. CASE kind = "vip"
  <2>1. VIPInv /\ Book /\ Unfiled
    BY <1>4 DEF MCInv
  <2>2. VIPInv'
    BY <1>2, <1>4, <2>1, NextVIPInv
  <2>3. Book' /\ Unfiled' /\ LifecycleStep
    BY <1>2, <1>4, <2>1, NextVIPTable
  <2> QED BY <1>2, <1>4, <2>2, <2>3 DEF MCInv
<1>5. CASE kind = "oauth2"
  <2>1. LoginInv' /\ LifecycleStep
    BY <1>2, <1>5, NextLoginInv DEF MCInv
  <2> QED BY <1>2, <1>5, <2>1 DEF MCInv
<1> QED BY <1>1, <1>3, <1>4, <1>5

(* MCInv holds of every state that is reached. *)
THEOREM Invariance == MCSpec => []MCInv
BY InitMCInv, NextMCInv, PTL DEF MCSpec

(***************************************************************************)
(* The tables localAuthData, vipPushCookie and pendingOauth2, and the      *)
(* handlers that work on them, have their types.                           *)
(***************************************************************************)
THEOREM TypeCorrect == MCSpec => []MCTypeOK
<1>1. MCInv => MCTypeOK
  BY Zenon DEF MCInv, MCTypeOK, U2FInv, U2FTypes, VIPInv, VIPTypes, LoginInv, LoginTypes
<1> QED BY <1>1, Invariance, PTL

(***************************************************************************)
(* Polls ask about the last push that was sent for the cookie, unless two  *)
(* start requests for it overlapped (vipPushStartHandler, startVIPPush).   *)
(***************************************************************************)
THEOREM PolledLast == MCSpec => []PolledIsLastPush
<1>1. MCInv => PolledIsLastPush
  BY Zenon DEF MCInv, VIPInv, PolledIsLastPush
<1> QED BY <1>1, Invariance, PTL

(***************************************************************************)
(* A session gets the VIP level only if the user approved a push that was  *)
(* sent for its cookie (VIPPollCheckHandler), whatever requests overlap    *)
(* and whenever the daemon stops.                                          *)
(***************************************************************************)
THEOREM ApprovedFirst == MCSpec => []GrantedWasApproved
<1>1. MCInv => GrantedWasApproved
  BY DEF MCInv, VIPInv, GrantedWasApproved
<1> QED BY <1>1, Invariance, PTL

(***************************************************************************)
(* A challenge that was answered and removed without a race is not checked *)
(* against again (u2fSignResponse), and a federated login that finished is *)
(* not taken to the provider again (oauth2RedirectPathHandler).            *)
(***************************************************************************)
THEOREM AnsweredOnce == MCSpec => AnsweredGone
<1> DEFINE A == /\ kind = "u2f" => FindsOpenChallenges
                /\ kind = "oauth2" => FindsOpenLogins
<1>1. MCInv /\ [MCNext]_allVars => [A]_allVars
  <2> SUFFICES ASSUME MCInv, MCNext PROVE A
    OBVIOUS
  <2>1. CASE InU2F(U2FNext)
    BY <2>1, U2FFinds DEF InU2F, MCInv
  <2>2. CASE InVIP(VIPNext)
    BY <2>2 DEF InVIP
  <2>3. CASE InLogin(LoginNext)
    BY <2>3, LoginFinds DEF InLogin, MCInv
  <2> QED BY <2>1, <2>2, <2>3 DEF MCNext
<1> QED BY <1>1, InitMCInv, NextMCInv, PTL DEF MCSpec, AnsweredGone

(***************************************************************************)
(* A challenge is accepted at most secsBetweenCleanup seconds after it has *)
(* expired, although u2fSignResponse does not look at the time: the loop   *)
(* performStateCleanup has removed it by then.                             *)
(***************************************************************************)
THEOREM AcceptedInTime == MCSpec => FoundInTime
<1> DEFINE A == kind = "u2f" => FindsInTime
<1>1. MCInv /\ [MCNext]_allVars => [A]_allVars
  <2> SUFFICES ASSUME MCInv, MCNext PROVE A
    OBVIOUS
  <2>1. CASE InU2F(U2FNext)
    BY <2>1, U2FFinds DEF InU2F, MCInv
  <2>2. CASE InVIP(VIPNext) \/ InLogin(LoginNext)
    BY <2>2 DEF InVIP, InLogin
  <2> QED BY <2>1, <2>2 DEF MCNext
<1> QED BY <1>1, InitMCInv, NextMCInv, PTL DEF MCSpec, FoundInTime

(***************************************************************************)
(* An entry that has not expired leaves its table only by what it waits    *)
(* for: an accepted answer of its user or one whose unlocked removal was   *)
(* under way (u2fSignResponse), nothing for a push (startVIPPush), unless  *)
(* start requests overlapped, or a login that worked                       *)
(* (oauth2RedirectPathHandler).  A crash loses the tables.                 *)
(***************************************************************************)
THEOREM KeptUntilAnswered == MCSpec => PendingKept
<1> DEFINE A == /\ kind = "u2f" => KeepsChallenges
                /\ kind = "vip" => KeepsTransactions
                /\ kind = "oauth2" => KeepsLogins
<1>1. MCInv /\ [MCNext]_allVars => [A]_allVars
  <2> SUFFICES ASSUME MCInv, MCNext PROVE A
    OBVIOUS
  <2>1. CASE InU2F(U2FNext)
    BY <2>1, U2FKeeps DEF InU2F, MCInv
  <2>2. CASE InVIP(VIPNext)
    BY <2>2, VIPKeeps DEF InVIP, MCInv
  <2>3. CASE InLogin(LoginNext)
    BY <2>3, LoginKeeps DEF InLogin, MCInv
  <2> QED BY <2>1, <2>2, <2>3 DEF MCNext
<1> QED BY <1>1, InitMCInv, NextMCInv, PTL DEF MCSpec, PendingKept

(***************************************************************************)
(* Every step of a table is a step of PendingLifecycle: whatever the       *)
(* handlers, the cleanup and a crash do, a value is opened once, claimed   *)
(* only while it is open, and never opened again after it was closed       *)
(* (localAuthData, vipPushCookie and pendingOauth2).                       *)
(***************************************************************************)
THEOREM LifecycleSafety ==
    MCSpec => Lifecycle!Init /\ [][Lifecycle!Next]_<<StatusOfValues, claimed>>
<1>1. MCInit => Lifecycle!Init
  <2> SUFFICES ASSUME MCInit PROVE Lifecycle!Init
    OBVIOUS
  <2>1. stored = {} /\ claimed = {}
    BY Zenon DEF MCInit, VIPInit, TableInit
  <2>2. Book
    BY InitMCInv, InitU2FInv, Zenon DEF MCInit, U2FInv
  <2>3. StatusOfValues = [v \in Values |-> "new"]
    BY <2>1, <2>2, Statuses
  <2> QED BY <2>1, <2>3 DEF Lifecycle!Init
<1>2. MCInv /\ [MCNext]_allVars => [Lifecycle!Next]_<<StatusOfValues, claimed>>
  BY NextMCInv DEF LifecycleStep
<1> QED BY <1>1, <1>2, InitMCInv, NextMCInv, PTL DEF MCSpec
=============================================================================
