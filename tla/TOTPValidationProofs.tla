------------------------ MODULE TOTPValidationProofs ------------------------
(***************************************************************************)
(* Proofs about TOTPValidation, for any calls, periods and bounds.         *)
(***************************************************************************)
EXTENDS TOTPValidation, TLAPS

-----------------------------------------------------------------------------
(***************************************************************************)
(* The inductive invariant, in two parts.  As to the rate limit: a call    *)
(* whose copy of the entry is not outdated has the lastCheckTime of the    *)
(* entry, which is the last time anyone passed unless some write-back      *)
(* landed on an entry set since.  As to the periods: a call whose profile  *)
(* is from the primary and not outdated has its counter, so the counter    *)
(* only grows, and what has been recorded or is about to be reported lies  *)
(* below it and differs.                                                   *)
(***************************************************************************)
Checked == {"limited", "saving", "succeeded", "failed"}

RateInv ==
    /\ \A c \in Calls : call[c].pc \in Checked /\ ~call[c].rateStale =>
          call[c].userRateLimit.lastCheckTime = rateLimit.lastCheckTime
    /\ rateOverlapped \/ rateLimit.lastCheckTime = lastGate

InSync(c) ==
    ~call[c].fromCache =>
        /\ call[c].last # NoRow
        /\ call[c].pc \in {"loaded", "limited", "saving"} /\ ~call[c].stale => call[c].last = db

Saves(c) ==
    call[c].pc = "saving" => ~call[c].fromCache /\ call[c].last # counter(call[c].t)

(* Call c has recorded its period and not yet returned. *)
Recorded(c) == call[c].pc = "succeeded" /\ ~call[c].fromCache

PeriodsDiffer ==
    /\ \A i \in DOMAIN successes : successes[i] \in cached \/ successes[i] <= db
    /\ \A i, j \in DOMAIN successes :
          i # j /\ successes[i] = successes[j] => successes[i] \in cached
    /\ \A c \in Calls : Recorded(c) =>
          /\ counter(call[c].t) <= db
          /\ \A i \in DOMAIN successes :
                successes[i] = counter(call[c].t) => successes[i] \in cached
    /\ \A c, d \in Calls : c # d /\ Recorded(c) /\ Recorded(d) =>
          counter(call[c].t) # counter(call[d].t)

PeriodInv ==
    /\ \A c \in Calls : InSync(c) /\ Saves(c)
    /\ overlapped \/ late \/ PeriodsDiffer

Inv == TypeOK /\ RateInv /\ PeriodInv

-----------------------------------------------------------------------------
(* Later times lie in later periods. *)
LEMMA DivMonotone ==
    ASSUME NEW a \in Nat, NEW b \in Nat, NEW p \in Nat \ {0}, a <= b
    PROVE  a \div p \in Nat /\ a \div p <= b \div p
OBVIOUS

LEMMA CounterType == \A t \in Times : counter(t) \in Counters
BY DivMonotone, TOTPValidationAssumption DEF Times, counter, Counters

LEMMA CountersInt == Counters \subseteq Int /\ NoRow \in Int
BY DivMonotone, TOTPValidationAssumption DEF Counters, counter, NoRow

(* An entry of the rate limit keeps its type when times are put into it. *)
LEMMA EntryType ==
    ASSUME NEW e \in totpRateLimitInfo, NEW n \in Times
    PROVE  /\ [e EXCEPT !.lastCheckTime = n] \in totpRateLimitInfo
           /\ [e EXCEPT !.failCount = 0, !.lockoutExpirationTime = n] \in totpRateLimitInfo
<1>1. 0 \in 0 .. MaxFailCount
  BY TOTPValidationAssumption
<1> QED BY <1>1, Zenon DEF totpRateLimitInfo

LEMMA IdleType == Idle \in CallState
BY TOTPValidationAssumption, CounterType
   DEF Idle, CallState, NoRateLimit, totpRateLimitInfo, Times, Counters, Never, counter, minSecsBetweenTOTPValidations

(* Other calls may be marked as outdated, and nothing else happens to them. *)
LEMMA OutdatedIs ==
    ASSUME TypeOK, NEW c \in Calls
    PROVE  /\ Outdated(c) \in [Calls -> CallState]
           /\ Outdated(c)[c] = call[c]
           /\ \A d \in Calls \ {c} :
                 \/ Outdated(c)[d] = call[d] /\ call[d].pc \in {"idle", "called"}
                 \/ Outdated(c)[d] = [call[d] EXCEPT !.stale = TRUE]
BY ZenonT(40) DEF TypeOK, Outdated, CallState

LEMMA RateOutdatedIs ==
    ASSUME TypeOK, NEW c \in Calls
    PROVE  /\ RateOutdated(c) \in [Calls -> CallState]
           /\ RateOutdated(c)[c] = call[c]
           /\ \A d \in Calls \ {c} :
                 \/ RateOutdated(c)[d] = call[d] /\ call[d].pc \notin Checked
                 \/ RateOutdated(c)[d] = [call[d] EXCEPT !.rateStale = TRUE]
BY ZenonT(40) DEF TypeOK, RateOutdated, CallState, Checked

LEMMA InitInv == Init => Inv
<1> SUFFICES ASSUME Init PROVE Inv
  OBVIOUS
<1>1. TypeOK
  <2>1. 0 \in Counters /\ 1 \in Times
    BY TOTPValidationAssumption, DivMonotone DEF Counters, counter, Times, minSecsBetweenTOTPValidations
  <2>2. NoRateLimit \in totpRateLimitInfo
    BY TOTPValidationAssumption DEF NoRateLimit, totpRateLimitInfo
  <2>3. overlapped \in BOOLEAN /\ late \in BOOLEAN /\ rateOverlapped \in BOOLEAN
    BY Zenon DEF Init
  <2>4. /\ now \in Times /\ db \in Counters /\ cache \in Counters \cup {NoRow} /\ copy \in Counters
        /\ rateLimit \in totpRateLimitInfo /\ call \in [Calls -> CallState]
        /\ successes \in Seq(Counters) /\ cached \subseteq Counters
        /\ lastGate \in Times \cup {Never}
    BY <2>1, <2>2, IdleType DEF Init
  <2> QED BY <2>3, <2>4 DEF TypeOK
<1>2. RateInv
  BY DEF Init, RateInv, Idle, Checked, NoRateLimit
<1>3. PeriodInv
  BY DEF Init, PeriodInv, InSync, Saves, PeriodsDiffer, Recorded, Idle, NoRow
<1> QED BY <1>1, <1>2, <1>3 DEF Inv

-----------------------------------------------------------------------------
(* A step of call c that touches nothing that is shared. *)
LEMMA LocalInv ==
    ASSUME Inv, NEW c \in Calls, NEW q \in CallState,
           call' = [call EXCEPT ![c] = q],
           UNCHANGED <<now, profileVars, rateLimit, historyVars>>,
           q.pc \in Checked =>
              /\ call[c].pc \in Checked
              /\ q.rateStale = call[c].rateStale
              /\ q.userRateLimit.lastCheckTime = call[c].userRateLimit.lastCheckTime,
           ~q.fromCache =>
              /\ q.last # NoRow
              /\ q.pc \in {"loaded", "limited", "saving"} /\ ~q.stale => q.last = db,
           q.pc = "saving" => ~q.fromCache /\ q.last # counter(q.t),
           q.pc = "succeeded" => q.fromCache
    PROVE  Inv'
<1> USE DEF Inv, profileVars, historyVars
<1>1. call'[c] = q /\ \A d \in Calls \ {c} : call'[d] = call[d]
  BY DEF TypeOK
<1>2. TypeOK'
  BY DEF TypeOK
<1>3. RateInv'
  BY <1>1 DEF RateInv
<1>4. \A d \in Calls : InSync(d)' /\ Saves(d)'
  BY <1>1 DEF PeriodInv, InSync, Saves
<1>5. \A d \in Calls : Recorded(d)' => Recorded(d) /\ call'[d] = call[d]
  BY <1>1 DEF Recorded
<1>6. PeriodsDiffer => PeriodsDiffer'
  BY <1>5 DEF PeriodsDiffer
<1>7. PeriodInv'
  BY <1>4, <1>6 DEF PeriodInv
<1> QED BY <1>2, <1>3, <1>7

LEMMA ReturnInv ==
    ASSUME Inv, NEW c \in Calls, Return(c),
           UNCHANGED <<now, profileVars, rateLimit, historyVars>>
    PROVE  Inv'
<1>1. Idle.pc = "idle" /\ Idle.last # NoRow
  BY DEF Idle, NoRow
<1> QED BY <1>1, IdleType, LocalInv, Zenon DEF Return, Checked

LEMMA CallInv == ASSUME Inv, NEW c \in Calls, Call(c) PROVE Inv'
<1> DEFINE q == [call[c] EXCEPT !.pc = "called", !.t = now]
<1>1. call' = [call EXCEPT ![c] = q]
  BY Zenon DEF Call, Inv, TypeOK, CallState
<1>2. /\ q \in CallState /\ q.pc = "called"
      /\ q.fromCache = call[c].fromCache /\ q.last = call[c].last
  BY Zenon DEF Inv, TypeOK, CallState
<1> HIDE DEF q
<1> QED BY <1>1, <1>2, LocalInv, Zenon DEF Call, Checked, Inv, PeriodInv, InSync

LEMMA LoadInv == ASSUME Inv, NEW c \in Calls, LoadUserProfile(c) PROVE Inv'
<1>1. PICK f \in {FALSE, UseCache} :
         call' = [call EXCEPT ![c].pc = "loaded", ![c].fromCache = f,
                              ![c].last = IF f THEN cache ELSE db]
  BY Zenon DEF LoadUserProfile
<1>2. f \in BOOLEAN
  BY TOTPValidationAssumption, Zenon
<1> DEFINE q == [call[c] EXCEPT !.pc = "loaded", !.fromCache = f, !.last = IF f THEN cache ELSE db]
<1>3. call' = [call EXCEPT ![c] = q]
  BY <1>1, Zenon DEF Inv, TypeOK, CallState
<1>4. q \in CallState /\ q.pc = "loaded" /\ q.fromCache = f /\ q.last = IF f THEN cache ELSE db
  BY <1>2, Zenon DEF Inv, TypeOK, CallState
<1> HIDE DEF q
<1>5. ~q.fromCache => q.last = db
  BY <1>2, <1>4
<1>6. db # NoRow
  BY TOTPValidationAssumption DEF Inv, TypeOK, Counters, NoRow
<1> QED BY <1>3, <1>4, <1>5, <1>6, LocalInv, Zenon DEF LoadUserProfile, Checked

LEMMA MatchInv ==
    ASSUME Inv, NEW c \in Calls, MatchDevice(c) \/ MatchNone(c) PROVE Inv'
<1> DEFINE u == AfterReset(call[c].userRateLimit)
<1>1. call[c] \in CallState /\ call[c].userRateLimit \in totpRateLimitInfo /\ now \in Times
  BY DEF Inv, TypeOK, CallState
<1>2. u \in totpRateLimitInfo /\ u.lastCheckTime = call[c].userRateLimit.lastCheckTime
  <2>1. u = call[c].userRateLimit
        \/ u = [call[c].userRateLimit EXCEPT !.failCount = 0, !.lockoutExpirationTime = now]
    BY DEF AfterReset
  <2> QED BY <1>1, <2>1, EntryType, Zenon DEF totpRateLimitInfo
<1> HIDE DEF u
<1>3. /\ call[c].pc = "limited" /\ MayTry(c)
      /\ UNCHANGED <<now, profileVars, rateLimit, historyVars>>
  BY DEF MatchDevice, MatchNone
<1>4. call[c].last # counter(call[c].t) /\ InSync(c)
  BY <1>3 DEF MayTry, Inv, PeriodInv
<1>5. CASE MatchDevice(c)
  <2> DEFINE p == IF call[c].fromCache THEN "succeeded" ELSE "saving"
             q == [call[c] EXCEPT !.pc = p, !.userRateLimit = u]
  <2>1. call' = [call EXCEPT ![c] = q]
    BY <1>5, Zenon DEF MatchDevice, Inv, TypeOK, CallState, u
  <2>2. /\ q \in CallState /\ q.pc = p /\ q.userRateLimit = u
        /\ q.rateStale = call[c].rateStale /\ q.stale = call[c].stale /\ q.t = call[c].t
        /\ q.fromCache = call[c].fromCache /\ q.last = call[c].last
    BY <1>1, <1>2, Zenon DEF CallState
  <2> HIDE DEF q
  <2> QED BY <1>2, <1>3, <1>4, <2>1, <2>2, LocalInv, Zenon DEF Checked, InSync
<1>6. CASE MatchNone(c)
  <2> DEFINE q == [call[c] EXCEPT !.pc = "failed", !.userRateLimit = Failed(u)]
  <2>1. call' = [call EXCEPT ![c] = q]
    BY <1>6, Zenon DEF MatchNone, Inv, TypeOK, CallState, u
  <2>2. Failed(u) \in totpRateLimitInfo /\ Failed(u).lastCheckTime = u.lastCheckTime
    <3>1. u.failCount < MaxFailCount
      BY <1>6 DEF MatchNone, u
    <3>2. u.failCount \in 0 .. MaxFailCount
      BY <1>2 DEF totpRateLimitInfo
    <3>3. u.failCount + 1 \in 0 .. MaxFailCount
      BY <3>1, <3>2, TOTPValidationAssumption
    <3> QED BY <1>1, <1>2, <3>3, Zenon DEF Failed, totpRateLimitInfo
  <2>3. /\ q \in CallState /\ q.pc = "failed" /\ q.userRateLimit = Failed(u)
        /\ q.rateStale = call[c].rateStale
        /\ q.fromCache = call[c].fromCache /\ q.last = call[c].last
    BY <1>1, <2>2, Zenon DEF CallState
  <2> HIDE DEF q
  <2> QED BY <1>2, <1>3, <1>4, <2>1, <2>2, <2>3, LocalInv, Zenon DEF Checked, InSync
<1> QED BY <1>5, <1>6

(* The entry of the rate limit is set, and call c becomes q; the periods    *)
(* are as before.                                                           *)
LEMMA RateStepInv ==
    ASSUME Inv, NEW c \in Calls, NEW q \in CallState,
           call' = [RateOutdated(c) EXCEPT ![c] = q],
           now' = now, UNCHANGED profileVars
    PROVE  /\ call' \in [Calls -> CallState] /\ call'[c] = q
           /\ \A d \in Calls \ {c} :
                 /\ call'[d].pc \in Checked => call'[d].rateStale
                 /\ call'[d].pc = call[d].pc /\ call'[d].t = call[d].t
                 /\ call'[d].last = call[d].last /\ call'[d].fromCache = call[d].fromCache
                 /\ call'[d].stale = call[d].stale
           /\ \A d \in Calls \ {c} : InSync(d)' /\ Saves(d)' /\ (Recorded(d)' <=> Recorded(d))
<1> USE DEF Inv, profileVars
<1>1. call' \in [Calls -> CallState] /\ call'[c] = q
  BY RateOutdatedIs
<1>2. ASSUME NEW d \in Calls \ {c}
      PROVE  /\ call'[d].pc \in Checked => call'[d].rateStale
             /\ call'[d].pc = call[d].pc /\ call'[d].t = call[d].t
             /\ call'[d].last = call[d].last /\ call'[d].fromCache = call[d].fromCache
             /\ call'[d].stale = call[d].stale
  <2>1. call[d] \in CallState
    BY DEF TypeOK
  <2>2. \/ call'[d] = call[d] /\ call[d].pc \notin Checked
        \/ call'[d] = [call[d] EXCEPT !.rateStale = TRUE]
    BY RateOutdatedIs
  <2> QED BY <2>1, <2>2 DEF CallState
<1>3. \A d \in Calls \ {c} : InSync(d)' /\ Saves(d)' /\ (Recorded(d)' <=> Recorded(d))
  BY <1>2 DEF PeriodInv, InSync, Saves, Recorded
<1> QED BY <1>1, <1>2, <1>3

LEMMA CheckInv == ASSUME Inv, NEW c \in Calls, CheckRateLimit(c) PROVE Inv'
<1> USE DEF Inv
<1>1. call[c].pc = "loaded" /\ UNCHANGED <<now, profileVars>>
  BY DEF CheckRateLimit
<1>2. CASE TooSoon
  BY <1>1, <1>2, ReturnInv DEF CheckRateLimit
<1>3. CASE ~TooSoon
  <2> DEFINE checked == [rateLimit EXCEPT !.lastCheckTime = now]
             q == [call[c] EXCEPT !.pc = "limited", !.userRateLimit = checked]
  <2>1. /\ rateLimit' = checked /\ lastGate' = now
        /\ UNCHANGED <<successes, cached, overlapped, late, rateOverlapped>>
        /\ call' = [RateOutdated(c) EXCEPT ![c].pc = "limited", ![c].userRateLimit = checked]
    BY <1>3 DEF CheckRateLimit
  <2>2. checked \in totpRateLimitInfo /\ checked.lastCheckTime = now
    BY EntryType, Zenon DEF TypeOK, totpRateLimitInfo
  <2>3. call' = [RateOutdated(c) EXCEPT ![c] = q]
    <3>1. RateOutdated(c)[c] = call[c] /\ RateOutdated(c) \in [Calls -> CallState]
      BY RateOutdatedIs
    <3> HIDE DEF checked
    <3> QED BY <2>1, <3>1, Zenon DEF CallState
  <2>4. /\ q \in CallState /\ q.pc = "limited" /\ q.userRateLimit = checked
        /\ q.t = call[c].t /\ q.last = call[c].last
        /\ q.fromCache = call[c].fromCache /\ q.stale = call[c].stale
    <3> HIDE DEF checked
    <3> QED BY <2>2, Zenon DEF TypeOK, CallState
  <2> HIDE DEF q, checked
  <2>5. /\ call' \in [Calls -> CallState] /\ call'[c] = q
        /\ \A d \in Calls \ {c} : call'[d].pc \in Checked => call'[d].rateStale
        /\ \A d \in Calls \ {c} : InSync(d)' /\ Saves(d)' /\ (Recorded(d)' <=> Recorded(d))
        /\ \A d \in Calls \ {c} : call'[d].t = call[d].t
    BY <1>1, <2>3, <2>4, RateStepInv, Zenon
  <2>6. TypeOK'
    BY <1>1, <2>1, <2>2, <2>5 DEF TypeOK, profileVars
  <2>7. RateInv'
    BY <2>1, <2>2, <2>4, <2>5 DEF RateInv
  <2>8. InSync(c)' /\ Saves(c)' /\ ~Recorded(c)'
    BY <1>1, <2>4, <2>5 DEF PeriodInv, InSync, Saves, Recorded, profileVars
  <2>9. PeriodsDiffer => PeriodsDiffer'
    BY <1>1, <2>1, <2>5, <2>8 DEF PeriodsDiffer, profileVars
  <2>10. PeriodInv'
    BY <2>1, <2>5, <2>8, <2>9 DEF PeriodInv
  <2> QED BY <2>6, <2>7, <2>10
<1> QED BY <1>2, <1>3

LEMMA WriteBackInv == ASSUME Inv, NEW c \in Calls, Succeed(c) \/ Fail(c) PROVE Inv'
<1> USE DEF Inv
<1>1. UNCHANGED <<now, profileVars, overlapped, late, lastGate>>
  BY DEF Succeed, Fail
<1>2. call[c] \in CallState /\ call[c].userRateLimit \in totpRateLimitInfo /\ now \in Times
  BY DEF TypeOK, CallState
<1>3. PICK e \in totpRateLimitInfo :
         e.lastCheckTime = call[c].userRateLimit.lastCheckTime /\ WriteBack(c, e)
  <2>1. CASE Succeed(c)
    <3> DEFINE e == [call[c].userRateLimit EXCEPT !.failCount = 0,
                                                  !.lockoutExpirationTime = now]
    <3>1. e \in totpRateLimitInfo /\ e.lastCheckTime = call[c].userRateLimit.lastCheckTime
      BY <1>2, EntryType, Zenon DEF totpRateLimitInfo
    <3>2. WriteBack(c, e)
      BY <2>1 DEF Succeed
    <3> QED BY <3>1, <3>2, Zenon
  <2>2. CASE Fail(c)
    BY <1>2, <2>2 DEF Fail
  <2> QED BY <2>1, <2>2
<1>4. call[c].pc \in Checked
  BY DEF Succeed, Fail, Checked
<1>5. /\ call' \in [Calls -> CallState] /\ call'[c] = Idle
      /\ \A d \in Calls \ {c} : call'[d].pc \in Checked => call'[d].rateStale
      /\ \A d \in Calls \ {c} : InSync(d)' /\ Saves(d)' /\ (Recorded(d)' <=> Recorded(d))
      /\ \A d \in Calls \ {c} : call'[d].t = call[d].t
  BY <1>1, <1>3, RateStepInv, IdleType, Zenon DEF WriteBack
<1>6. /\ successes' \in Seq(Counters) /\ cached' \subseteq Counters
  <2>1. counter(call[c].t) \in Counters
    BY <1>2, CounterType DEF CallState
  <2> QED BY SMTT(30), <2>1 DEF Succeed, Fail, TypeOK
<1>7. rateOverlapped' \in BOOLEAN
  BY <1>2, <1>3 DEF WriteBack, TypeOK, CallState
<1>8. TypeOK'
  BY <1>1, <1>3, <1>5, <1>6, <1>7 DEF TypeOK, profileVars, WriteBack
<1>9. RateInv'
  <2>1. rateOverlapped' <=> (rateOverlapped \/ call[c].rateStale)
    BY <1>3, Zenon DEF WriteBack
  <2>2. rateLimit' = e
    BY <1>3 DEF WriteBack
  <2> QED BY <1>1, <1>3, <1>4, <1>5, <2>1, <2>2 DEF RateInv, Idle, Checked
<1>10. InSync(c)' /\ Saves(c)' /\ ~Recorded(c)'
  BY <1>5 DEF InSync, Saves, Recorded, Idle, NoRow
<1>11. PeriodsDiffer => PeriodsDiffer'
  <2>1. CASE Fail(c)
    BY <1>1, <1>5, <1>10, <2>1 DEF Fail, PeriodsDiffer, profileVars
  <2>2. CASE Succeed(c)
    <3> DEFINE p == counter(call[c].t)
    <3>1. /\ successes' = Append(successes, p) /\ cached \subseteq cached'
          /\ p \in cached' \/ Recorded(c)
      BY <2>2 DEF Succeed, Recorded
    <3>2. p \in Counters
      BY <1>2, CounterType DEF CallState
    <3>3. /\ DOMAIN successes' = DOMAIN successes \cup {Len(successes) + 1}
          /\ successes'[Len(successes) + 1] = p
          /\ \A i \in DOMAIN successes : successes'[i] = successes[i]
      BY <3>1, <3>2 DEF TypeOK
    <3> HIDE DEF p
    <3> SUFFICES ASSUME PeriodsDiffer PROVE PeriodsDiffer'
      OBVIOUS
    <3>4. Recorded(c) => p <= db /\ \A i \in DOMAIN successes : successes[i] = p => p \in cached
      BY DEF PeriodsDiffer, p
    <3>5. \A i \in DOMAIN successes' : successes'[i] \in cached' \/ successes'[i] <= db'
      BY <1>1, <3>1, <3>3, <3>4 DEF PeriodsDiffer, profileVars
    <3>6. \A i, j \in DOMAIN successes' :
             i # j /\ successes'[i] = successes'[j] => successes'[i] \in cached'
      BY <3>1, <3>3, <3>4 DEF PeriodsDiffer
    <3>7. ASSUME NEW d \in Calls, Recorded(d)'
          PROVE  /\ counter(call'[d].t) <= db'
                 /\ \A i \in DOMAIN successes' :
                       successes'[i] = counter(call'[d].t) => successes'[i] \in cached'
      <4>1. d # c /\ Recorded(d) /\ call'[d].t = call[d].t
        BY <1>5, <1>10, <3>7
      <4>2. Recorded(c) => counter(call[d].t) # p
        BY <4>1 DEF PeriodsDiffer, p
      <4> QED BY <1>1, <3>1, <3>3, <4>1, <4>2 DEF PeriodsDiffer, profileVars
    <3>8. \A d, f \in Calls : d # f /\ Recorded(d)' /\ Recorded(f)' =>
             counter(call'[d].t) # counter(call'[f].t)
      BY <1>5, <1>10 DEF PeriodsDiffer
    <3> QED BY <3>5, <3>6, <3>7, <3>8 DEF PeriodsDiffer
  <2> QED BY <2>1, <2>2
<1>12. PeriodInv'
  BY <1>1, <1>5, <1>10, <1>11 DEF PeriodInv
<1> QED BY <1>8, <1>9, <1>12

(* The row is written by call c, which becomes q. *)
LEMMA WrittenStep ==
    ASSUME Inv, NEW c \in Calls, NEW q \in CallState,
           call' = [Outdated(c) EXCEPT ![c] = q]
    PROVE  /\ call' \in [Calls -> CallState] /\ call'[c] = q
           /\ \A d \in Calls \ {c} :
                 /\ call'[d].pc = call[d].pc /\ call'[d].t = call[d].t
                 /\ call'[d].userRateLimit = call[d].userRateLimit
                 /\ call'[d].rateStale = call[d].rateStale
                 /\ InSync(d)' /\ Saves(d)' /\ (Recorded(d)' <=> Recorded(d))
<1> USE DEF Inv
<1>1. call' \in [Calls -> CallState] /\ call'[c] = q
  BY OutdatedIs
<1>2. ASSUME NEW d \in Calls \ {c}
      PROVE  /\ call'[d].pc \notin {"idle", "called"} => call'[d].stale
             /\ call'[d].pc = call[d].pc /\ call'[d].t = call[d].t
             /\ call'[d].last = call[d].last /\ call'[d].fromCache = call[d].fromCache
             /\ call'[d].userRateLimit = call[d].userRateLimit
             /\ call'[d].rateStale = call[d].rateStale
  <2>1. call[d] \in CallState
    BY DEF TypeOK
  <2>2. \/ call'[d] = call[d] /\ call[d].pc \in {"idle", "called"}
        \/ call'[d] = [call[d] EXCEPT !.stale = TRUE]
    BY OutdatedIs
  <2> QED BY <2>1, <2>2 DEF CallState
<1>3. \A d \in Calls \ {c} : InSync(d)' /\ Saves(d)' /\ (Recorded(d)' <=> Recorded(d))
  BY <1>2 DEF PeriodInv, InSync, Saves, Recorded
<1> QED BY <1>1, <1>2, <1>3

LEMMA SaveInv == ASSUME Inv, NEW c \in Calls, SaveUserProfile(c) PROVE Inv'
<1> USE DEF Inv
<1> DEFINE value == counter(call[c].t)
<1>1. /\ call[c] \in CallState /\ call[c].pc = "saving" /\ value \in Counters
      /\ UNCHANGED <<now, rateLimit>>
  BY CounterType DEF SaveUserProfile, TypeOK, CallState
<1>2. CASE Return(c) /\ UNCHANGED <<profileVars, historyVars>>
  BY <1>1, <1>2, ReturnInv
<1>3. CASE ~(Return(c) /\ UNCHANGED <<profileVars, historyVars>>)
  <2>1. Written(c, value) /\ late' = (late \/ value < db)
    BY <1>3 DEF SaveUserProfile
  <2>2. /\ db' = value /\ overlapped' = (overlapped \/ call[c].stale)
        /\ UNCHANGED <<cache, copy, successes, cached, lastGate, rateOverlapped>>
    BY <2>1 DEF Written
  <2>3. PICK q \in {Idle, [call[c] EXCEPT !.pc = "succeeded"]} :
           call' = [Outdated(c) EXCEPT ![c] = q]
    <3>1. Outdated(c)[c] = call[c] /\ Outdated(c) \in [Calls -> CallState]
      BY OutdatedIs
    <3>2. \/ call' = [Outdated(c) EXCEPT ![c].pc = "succeeded"]
          \/ call' = [Outdated(c) EXCEPT ![c] = Idle]
      BY <1>3 DEF SaveUserProfile
    <3>3. [Outdated(c) EXCEPT ![c].pc = "succeeded"]
            = [Outdated(c) EXCEPT ![c] = [call[c] EXCEPT !.pc = "succeeded"]]
      BY <3>1 DEF CallState
    <3> QED BY <3>2, <3>3
  <2>4. /\ q \in CallState /\ q.pc \in {"idle", "succeeded"}
        /\ q.pc = "succeeded" =>
              /\ q.t = call[c].t /\ q.rateStale = call[c].rateStale
              /\ q.userRateLimit = call[c].userRateLimit
        /\ ~q.fromCache => q.last # NoRow
    <3>1. CASE q = Idle
      BY <3>1, IdleType DEF Idle, NoRow
    <3>2. CASE q = [call[c] EXCEPT !.pc = "succeeded"]
      BY <1>1, <3>2 DEF CallState, PeriodInv, InSync
    <3> QED BY <2>3, <3>1, <3>2
  <2>5. /\ call' \in [Calls -> CallState] /\ call'[c] = q
        /\ \A d \in Calls \ {c} :
              /\ call'[d].pc = call[d].pc /\ call'[d].t = call[d].t
              /\ call'[d].userRateLimit = call[d].userRateLimit
              /\ call'[d].rateStale = call[d].rateStale
              /\ InSync(d)' /\ Saves(d)' /\ (Recorded(d)' <=> Recorded(d))
    BY <2>3, <2>4, WrittenStep, Zenon
  <2>6. overlapped' \in BOOLEAN /\ late' \in BOOLEAN
    BY <1>1, <2>1, <2>2 DEF TypeOK, CallState
  <2>7. TypeOK'
    BY <1>1, <2>2, <2>5, <2>6 DEF TypeOK
  <2>8. RateInv'
    BY <1>1, <2>2, <2>4, <2>5 DEF RateInv, Checked
  <2>9. InSync(c)' /\ Saves(c)'
    BY <2>4, <2>5 DEF InSync, Saves
  <2>10. ASSUME ~overlapped', ~late' PROVE PeriodsDiffer'
    <3>1. ~overlapped /\ ~late /\ ~call[c].stale /\ ~(value < db)
      BY <2>1, <2>2, <2>10, Zenon
    <3>2. call[c].last = db /\ call[c].last # value
      BY <1>1, <3>1 DEF PeriodInv, InSync, Saves
    <3>3. db < value
      BY <1>1, <3>1, <3>2, CountersInt DEF TypeOK
    <3>4. PeriodsDiffer
      BY <3>1 DEF PeriodInv
    <3>5. db \in Int /\ value \in Int
          /\ \A i \in DOMAIN successes : successes[i] \in Int
      BY <1>1, CountersInt DEF TypeOK
    <3>6. \A d \in Calls : counter(call[d].t) \in Int
      BY CounterType, CountersInt DEF TypeOK, CallState
    <3>7. \A i \in DOMAIN successes : successes[i] \in cached \/ successes[i] < value
      BY <3>3, <3>4, <3>5 DEF PeriodsDiffer
    <3>8. \A d \in Calls \ {c} : Recorded(d)' =>
             Recorded(d) /\ call'[d].t = call[d].t /\ counter(call[d].t) < value
      BY <2>5, <3>3, <3>4, <3>5, <3>6 DEF PeriodsDiffer
    <3>9. Recorded(c)' => call'[c].t = call[c].t
      BY <2>4, <2>5 DEF Recorded
    <3> HIDE DEF value
    <3>10. \A i \in DOMAIN successes' : successes'[i] \in cached' \/ successes'[i] <= db'
      BY <2>2, <3>5, <3>7
    <3>11. \A i, j \in DOMAIN successes' :
              i # j /\ successes'[i] = successes'[j] => successes'[i] \in cached'
      BY <2>2, <3>4 DEF PeriodsDiffer
    <3>12. ASSUME NEW d \in Calls, Recorded(d)'
           PROVE  /\ counter(call'[d].t) <= db'
                  /\ \A i \in DOMAIN successes' :
                        successes'[i] = counter(call'[d].t) => successes'[i] \in cached'
      <4>1. CASE d = c
        <5>1. counter(call'[c].t) = value
          BY <3>9, <3>12, <4>1 DEF value
        <5> QED BY <2>2, <3>5, <3>7, <4>1, <5>1
      <4>2. CASE d # c
        BY <2>2, <3>4, <3>5, <3>6, <3>8, <3>12, <4>2 DEF PeriodsDiffer
      <4> QED BY <4>1, <4>2
    <3>13. ASSUME NEW d \in Calls, NEW f \in Calls, d # f, Recorded(d)', Recorded(f)'
           PROVE  counter(call'[d].t) # counter(call'[f].t)
      <4>1. CASE d # c /\ f # c
        BY <3>4, <3>8, <3>13, <4>1 DEF PeriodsDiffer
      <4>2. CASE d = c \/ f = c
        <5>1. Recorded(c)' => counter(call'[c].t) = value
          BY <3>9 DEF value
        <5> QED BY <3>5, <3>6, <3>8, <3>13, <4>2, <5>1
      <4> QED BY <4>1, <4>2
    <3> QED BY <3>10, <3>11, <3>12, <3>13 DEF PeriodsDiffer
  <2>11. PeriodInv'
    BY <2>5, <2>9, <2>10 DEF PeriodInv
  <2> QED BY <2>7, <2>8, <2>11
<1> QED BY <1>2, <1>3

LEMMA OtherSavesInv == ASSUME Inv, NEW c \in Calls, OtherHandlerSaves(c) PROVE Inv'
<1> USE DEF Inv
<1>1. /\ call[c] \in CallState /\ call[c].pc = "loaded" /\ ~call[c].fromCache
      /\ Written(c, call[c].last) /\ call' = [Outdated(c) EXCEPT ![c] = Idle]
      /\ UNCHANGED <<now, rateLimit, late>>
  BY DEF OtherHandlerSaves, TypeOK
<1>2. /\ db' = call[c].last /\ overlapped' = (overlapped \/ call[c].stale)
      /\ UNCHANGED <<cache, copy, successes, cached, lastGate, rateOverlapped>>
  BY <1>1 DEF Written
<1>3. /\ call' \in [Calls -> CallState] /\ call'[c] = Idle
      /\ \A d \in Calls \ {c} :
            /\ call'[d].pc = call[d].pc /\ call'[d].t = call[d].t
            /\ call'[d].userRateLimit = call[d].userRateLimit
            /\ call'[d].rateStale = call[d].rateStale
            /\ InSync(d)' /\ Saves(d)' /\ (Recorded(d)' <=> Recorded(d))
  BY <1>1, IdleType, WrittenStep, Zenon
<1>4. overlapped' \in BOOLEAN
  BY <1>1, <1>2 DEF TypeOK, CallState
<1>5. call[c].last \in Counters
  BY <1>1 DEF CallState, PeriodInv, InSync
<1>6. TypeOK'
  BY <1>1, <1>2, <1>3, <1>4, <1>5 DEF TypeOK
<1>7. RateInv'
  BY <1>1, <1>2, <1>3 DEF RateInv, Checked, Idle
<1>8. InSync(c)' /\ Saves(c)' /\ ~Recorded(c)'
  BY <1>3 DEF InSync, Saves, Recorded, Idle, NoRow
<1>9. ASSUME ~overlapped', ~late' PROVE PeriodsDiffer'
  <2>1. ~overlapped /\ ~late /\ ~call[c].stale
    BY <1>1, <1>2, <1>9, Zenon
  <2>2. db' = db /\ PeriodsDiffer
    BY <1>1, <1>2, <2>1 DEF PeriodInv, InSync
  <2> QED BY <1>2, <1>3, <1>8, <2>2 DEF PeriodsDiffer
<1>10. PeriodInv'
  BY <1>3, <1>8, <1>9 DEF PeriodInv
<1> QED BY <1>6, <1>7, <1>10

LEMMA NextInv == Inv /\ [Next]_vars => Inv'
<1> SUFFICES ASSUME Inv, [Next]_vars PROVE Inv'
  OBVIOUS
<1>1. ASSUME NEW c \in Calls, ReturnError(c) \/ Refuse(c) PROVE Inv'
  BY <1>1, ReturnInv DEF ReturnError, Refuse
<1>2. CASE UNCHANGED <<call, rateLimit, db, historyVars>> /\ TypeOK'
  <2> USE <1>2 DEF Inv, historyVars
  <2>1. RateInv'
    BY DEF RateInv
  <2>2. PeriodInv'
    BY DEF PeriodInv, InSync, Saves, PeriodsDiffer, Recorded
  <2> QED BY <2>1, <2>2
<1>3. CASE BackgroundDBCopy
  <2>1. TypeOK'
    BY <1>3 DEF Inv, BackgroundDBCopy, CopyBegin, CopyCommit, TypeOK, historyVars
  <2> QED BY <1>2, <1>3, <2>1 DEF BackgroundDBCopy, CopyBegin, CopyCommit
<1>4. CASE Tick
  <2>1. now' \in Times
    BY <1>4, TOTPValidationAssumption DEF Inv, TypeOK, Tick, Times
  <2>2. TypeOK'
    BY <1>4, <2>1 DEF Inv, Tick, TypeOK, profileVars, historyVars
  <2> QED BY <1>2, <1>4, <2>2 DEF Tick, profileVars
<1>5. CASE UNCHANGED vars
  <2>1. TypeOK'
    BY <1>5 DEF Inv, TypeOK, vars, profileVars, historyVars
  <2> QED BY <1>2, <1>5, <2>1 DEF vars, profileVars
<1> QED
  BY <1>1, <1>3, <1>4, <1>5, CallInv, LoadInv, CheckInv, MatchInv, SaveInv,
     OtherSavesInv, WriteBackInv DEF Next

-----------------------------------------------------------------------------
(* Inv holds of every state that is reached. *)
THEOREM Invariance == Spec => []Inv
BY InitInv, NextInv, PTL DEF Spec

(***************************************************************************)
(* The clock, the rows, the entry of the rate limit and the calls always   *)
(* have their types.                                                       *)
(***************************************************************************)
THEOREM TypeCorrect == Spec => []TypeOK
<1>1. Inv => TypeOK
  BY DEF Inv
<1> QED BY <1>1, Invariance, PTL

(***************************************************************************)
(* A period gives one success, for any number of overlapping calls of      *)
(* validateUserTOTP, but for a success on the local copy, a save over a    *)
(* row that has changed, and a call that took its time in an older period. *)
(***************************************************************************)
THEOREM PeriodsUsedOnce == Spec => []OncePerPeriod
<1>1. Inv => OncePerPeriod
  BY DEF Inv, PeriodInv, PeriodsDiffer, OncePerPeriod
<1> QED BY <1>1, Invariance, PTL

(***************************************************************************)
(* Two calls pass the rate limit of validateUserTOTP at least              *)
(* minSecsBetweenTOTPValidations apart, unless an entry was written back   *)
(* that another call had set meanwhile.                                    *)
(***************************************************************************)
THEOREM ChecksApart == Spec => ChecksSpaced
<1> DEFINE A == \A c \in Calls :
                  call[c].pc = "loaded" /\ call'[c].pc = "limited"
                    => \/ lastGate = Never
                       \/ now - lastGate >= minSecsBetweenTOTPValidations
                       \/ rateOverlapped
<1>1. Inv /\ [Next]_vars => [A]_vars
  <2> SUFFICES ASSUME Inv, Next, NEW c \in Calls,
                      call[c].pc = "loaded", call'[c].pc = "limited", ~rateOverlapped
               PROVE  lastGate = Never \/ now - lastGate >= minSecsBetweenTOTPValidations
    OBVIOUS
  <2>1. CheckRateLimit(c) /\ ~TooSoon
    <3>1. call \in [Calls -> CallState] /\ Idle.pc # "limited"
      BY DEF Inv, TypeOK, Idle
    <3>2. ASSUME NEW d \in Calls, CheckRateLimit(d) PROVE d = c /\ ~TooSoon
      <4>1. d = c
        <5>1. CASE d # c
          <6>1. call'[c].pc = call[c].pc
            BY <3>1, <3>2, <5>1, Zenon DEF CheckRateLimit, Return, RateOutdated, CallState
          <6> QED BY <6>1
        <5> QED BY <5>1
      <4>2. CASE TooSoon
        BY <3>1, <3>2, <4>1, <4>2 DEF CheckRateLimit, Return
      <4> QED BY <4>1, <4>2
    <3>3. ASSUME NEW d \in Calls,
                 Call(d) \/ LoadUserProfile(d) \/ ReturnError(d) \/ Refuse(d)
                 \/ MatchDevice(d) \/ MatchNone(d)
          PROVE  FALSE
      BY <3>1, <3>3 DEF Call, LoadUserProfile, ReturnError, Refuse, MatchDevice, MatchNone,
                        Return, CallState
    <3>4. ASSUME NEW d \in Calls, SaveUserProfile(d) \/ OtherHandlerSaves(d) PROVE FALSE
      BY <3>1, <3>4, Zenon DEF SaveUserProfile, OtherHandlerSaves, Outdated, Return, CallState
    <3>5. ASSUME NEW d \in Calls, Succeed(d) \/ Fail(d) PROVE FALSE
      BY <3>1, <3>5, Zenon DEF Succeed, Fail, WriteBack, RateOutdated, CallState
    <3>6. ~BackgroundDBCopy /\ ~Tick
      BY DEF BackgroundDBCopy, Tick
    <3> QED BY <3>2, <3>3, <3>4, <3>5, <3>6 DEF Next
  <2>2. rateLimit.lastCheckTime = lastGate
    BY DEF Inv, RateInv
  <2>3. now \in Int /\ (lastGate # Never => lastGate \in Int)
    BY DEF Inv, TypeOK, Times
  <2> QED BY <2>1, <2>2, <2>3 DEF TooSoon, minSecsBetweenTOTPValidations
<1>2. Spec => [][A]_vars
  BY <1>1, Invariance, PTL DEF Spec
<1> QED BY <1>2 DEF ChecksSpaced
=============================================================================
