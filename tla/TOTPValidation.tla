--------------------------- MODULE TOTPValidation ---------------------------
(***************************************************************************)
(* validateUserTOTP (cmd/keymasterd/2fa_totp.go) for one user, called by   *)
(* any number of concurrent requests.  It combines two pieces of shared    *)
(* state: the last accepted period in the user's profile, in the primary   *)
(* database db and its local copy cache, and the user's entry of the map   *)
(* totpLocalRateLimit.  The entry is read, and its lastCheckTime set,      *)
(* under totpLocalTateLimitMutex; the rest of the function works on a copy *)
(* of the entry, which it writes back at its end.                          *)
(*                                                                         *)
(* The user has an enabled TOTP device; whether the presented value is     *)
(* right is the environment's choice.  Other handlers that save the same   *)
(* profile appear as a save of the copy they loaded.                       *)
(***************************************************************************)
EXTENDS Integers, Sequences

CONSTANTS
    Calls,          \* bound: calls that may be in progress
    MaxTime,        \* bound: the last second of the modelled clock
    MaxFailCount,   \* bound: failures that are counted
    MaxSuccesses,   \* bound: successes that are recorded
    Period,         \* defaultPeriod, in seconds
    ResetSecs,      \* numHoursForLocalTOTPRateLimitReset, in seconds
    UseCache        \* BOOLEAN: whether the primary may time out on a load

minSecsBetweenTOTPValidations == 2
numFailedTOTPChecksForTimeoutIncrease == 5

ASSUME TOTPValidationAssumption ==
    /\ MaxTime \in Nat /\ MaxTime >= minSecsBetweenTOTPValidations
    /\ MaxFailCount \in Nat
    /\ MaxSuccesses \in Nat
    /\ Period \in Nat \ {0}
    /\ ResetSecs \in Nat \ {0}
    /\ UseCache \in BOOLEAN

(* Go's zero time lies before every second of the clock. *)
Never == 0
Times == 1 .. MaxTime
counter(time) == 1 + (time \div Period)
Counters == 0 .. counter(MaxTime)

(* The copy has no row for the user: no device and no counter. *)
NoRow == -1

totpRateLimitInfo ==
    [lastCheckTime : Times \cup {Never}, failCount : 0 .. MaxFailCount,
     lastFailTime : Times \cup {Never}, lockoutExpirationTime : Times \cup {Never}]
NoRateLimit ==
    [lastCheckTime |-> Never, failCount |-> 0,
     lastFailTime |-> Never, lockoutExpirationTime |-> Never]

VARIABLES
    now,            \* the clock
    db,             \* LastSuccessfullTOTPCounter in the primary database
    cache,          \* and in its local copy, which may lack the row
    copy,           \* the counter that the copy in progress has read
    rateLimit,      \* totpLocalRateLimit[username]
    call,           \* call -> its local state
    successes,      \* history: the periods of the successful calls, in order
    cached,         \* history: periods of successes on a profile from the cache
    overlapped,     \* history: a save landed on a row changed since its load
    late,           \* history: a success for a period before the recorded one
    lastGate,       \* history: the last time a call passed the rate limit
    rateOverlapped  \* history: a write-back landed on an entry set since its read

profileVars == <<db, cache, copy>>
historyVars == <<successes, cached, overlapped, late, lastGate, rateOverlapped>>
vars == <<now, profileVars, rateLimit, call, historyVars>>

CallState ==
    [pc : {"idle", "called", "loaded", "limited", "saving", "succeeded", "failed"},
     t : Times, last : Counters \cup {NoRow}, fromCache : BOOLEAN,
     userRateLimit : totpRateLimitInfo, stale : BOOLEAN, rateStale : BOOLEAN]

TypeOK ==
    /\ now \in Times
    /\ db \in Counters
    /\ cache \in Counters \cup {NoRow}
    /\ copy \in Counters
    /\ rateLimit \in totpRateLimitInfo
    /\ call \in [Calls -> CallState]
    /\ successes \in Seq(Counters)
    /\ cached \subseteq Counters
    /\ overlapped \in BOOLEAN
    /\ late \in BOOLEAN
    /\ lastGate \in Times \cup {Never}
    /\ rateOverlapped \in BOOLEAN

-----------------------------------------------------------------------------
Idle ==
    [pc |-> "idle", t |-> 1, last |-> 0, fromCache |-> FALSE,
     userRateLimit |-> NoRateLimit, stale |-> FALSE, rateStale |-> FALSE]

Init ==
    /\ now = 1
    /\ db = 0
    /\ cache = 0
    /\ copy = 0
    /\ rateLimit = NoRateLimit
    /\ call = [c \in Calls |-> Idle]
    /\ successes = << >>
    /\ cached = {}
    /\ overlapped = FALSE
    /\ late = FALSE
    /\ lastGate = Never
    /\ rateOverlapped = FALSE

Return(c) == call' = [call EXCEPT ![c] = Idle]

(* The other calls work on a row, or on an entry, that has changed.         *)
Outdated(c) ==
    [d \in Calls |-> IF d # c /\ call[d].pc \notin {"idle", "called"}
                     THEN [call[d] EXCEPT !.stale = TRUE] ELSE call[d]]
RateOutdated(c) ==
    [d \in Calls |-> IF d # c /\ call[d].pc \in {"limited", "saving", "succeeded",
                                                "failed"}
                     THEN [call[d] EXCEPT !.rateStale = TRUE] ELSE call[d]]

-----------------------------------------------------------------------------
(* The caller evaluates time.Now() for the argument t. *)
Call(c) ==
    /\ call[c].pc = "idle"
    /\ call' = [call EXCEPT ![c].pc = "called", ![c].t = now]
    /\ UNCHANGED <<now, profileVars, rateLimit, historyVars>>

LoadUserProfile(c) ==
    /\ call[c].pc = "called"
    /\ \E fromCache \in {FALSE, UseCache} :
          call' = [call EXCEPT ![c].pc = "loaded", ![c].fromCache = fromCache,
                               ![c].last = IF fromCache THEN cache ELSE db]
    /\ UNCHANGED <<now, profileVars, rateLimit, historyVars>>

(* The profile cannot be loaded, or a device's secret cannot be decrypted.  *)
ReturnError(c) ==
    /\ \/ call[c].pc = "called"
       \/ call[c].pc = "limited" /\ call[c].last # NoRow
    /\ Return(c)
    /\ UNCHANGED <<now, profileVars, rateLimit, historyVars>>

(* The section under the mutex: too soon after the last check, or checked.  *)
TooSoon ==
    /\ rateLimit.lastCheckTime # Never
    /\ rateLimit.lastCheckTime + minSecsBetweenTOTPValidations > now

(* Mutant: the time of the check is not stored. *)
CheckRateLimitUnrecorded(c) ==
    /\ call[c].pc = "loaded"
    /\ IF TooSoon
       THEN /\ Return(c)
            /\ UNCHANGED historyVars
       ELSE /\ call' = [RateOutdated(c) EXCEPT ![c].pc = "limited",
                                               ![c].userRateLimit = rateLimit]
            /\ lastGate' = now
            /\ UNCHANGED <<successes, cached, overlapped, late, rateOverlapped>>
    /\ UNCHANGED <<now, profileVars, rateLimit>>

CheckRateLimit(c) ==
    LET checked == [rateLimit EXCEPT !.lastCheckTime = now] IN
    /\ call[c].pc = "loaded"
    /\ IF TooSoon
       THEN /\ Return(c)
            /\ UNCHANGED <<rateLimit, historyVars>>
       ELSE /\ rateLimit' = checked
            /\ call' = [RateOutdated(c) EXCEPT ![c].pc = "limited",
                                               ![c].userRateLimit = checked]
            /\ lastGate' = now
            /\ UNCHANGED <<successes, cached, overlapped, late, rateOverlapped>>
    /\ UNCHANGED <<now, profileVars>>

(* The copy of the entry after the daily reset. *)
AfterReset(entry) ==
    IF entry.lastFailTime = Never \/ entry.lastFailTime + ResetSecs < now
    THEN [entry EXCEPT !.failCount = 0, !.lockoutExpirationTime = now]
    ELSE entry

(* A failure counts; the lockout is computed, and the result thrown away.   *)
Failed(entry) ==
    [entry EXCEPT !.failCount = @ + 1, !.lastFailTime = now]

(* Mutant: the period of the last success is not looked at. *)
MayTryAnyPeriod(c) == ~(call[c].userRateLimit.lockoutExpirationTime > now)

(* From the mutex to the save, or to the write-back: nothing is shared.     *)
MayTry(c) ==
    /\ ~(call[c].userRateLimit.lockoutExpirationTime > now)
    /\ call[c].last # counter(call[c].t)

Refuse(c) ==
    /\ call[c].pc = "limited"
    /\ ~MayTry(c)
    /\ Return(c)
    /\ UNCHANGED <<now, profileVars, rateLimit, historyVars>>

MatchDevice(c) ==
    /\ call[c].pc = "limited"
    /\ MayTry(c)
    /\ call[c].last # NoRow
    /\ call' = [call EXCEPT
                  ![c].pc = IF call[c].fromCache THEN "succeeded" ELSE "saving",
                  ![c].userRateLimit = AfterReset(@)]
    /\ UNCHANGED <<now, profileVars, rateLimit, historyVars>>

MatchNone(c) ==
    /\ call[c].pc = "limited"
    /\ MayTry(c)
    /\ AfterReset(call[c].userRateLimit).failCount < MaxFailCount
    /\ call' = [call EXCEPT ![c].pc = "failed",
                            ![c].userRateLimit = Failed(AfterReset(@))]
    /\ UNCHANGED <<now, profileVars, rateLimit, historyVars>>

-----------------------------------------------------------------------------
(* The whole profile is saved.  A save that reports an error, which ends    *)
(* the call, may have taken effect.                                         *)
Written(c, value) ==
    /\ db' = value
    /\ overlapped' = (overlapped \/ call[c].stale)
    /\ UNCHANGED <<cache, copy, successes, cached, lastGate, rateOverlapped>>

SaveUserProfile(c) ==
    LET value == counter(call[c].t) IN
    /\ call[c].pc = "saving"
    /\ \/ /\ Written(c, value)
          /\ late' = (late \/ value < db)
          /\ call' = [Outdated(c) EXCEPT ![c].pc = "succeeded"]
       \/ /\ Written(c, value)
          /\ late' = (late \/ value < db)
          /\ call' = [Outdated(c) EXCEPT ![c] = Idle]
       \/ /\ Return(c)
          /\ UNCHANGED <<profileVars, historyVars>>
    /\ UNCHANGED <<now, rateLimit>>

(* Another handler saves the profile it loaded, its counter unchanged.      *)
OtherHandlerSaves(c) ==
    /\ call[c].pc = "loaded"
    /\ ~call[c].fromCache
    /\ Written(c, call[c].last)
    /\ call' = [Outdated(c) EXCEPT ![c] = Idle]
    /\ UNCHANGED <<now, rateLimit, late>>

(* The entry is written back whole.                                         *)
WriteBack(c, entry) ==
    /\ rateLimit' = entry
    /\ rateOverlapped' = (rateOverlapped \/ call[c].rateStale)
    /\ call' = [RateOutdated(c) EXCEPT ![c] = Idle]

Succeed(c) ==
    LET entry == [call[c].userRateLimit EXCEPT !.failCount = 0,
                                               !.lockoutExpirationTime = now]
        period == counter(call[c].t) IN
    /\ call[c].pc = "succeeded"
    /\ Len(successes) < MaxSuccesses
    /\ WriteBack(c, entry)
    /\ successes' = Append(successes, period)
    /\ cached' = IF call[c].fromCache THEN cached \cup {period} ELSE cached
    /\ UNCHANGED <<now, profileVars, overlapped, late, lastGate>>

Fail(c) ==
    /\ call[c].pc = "failed"
    /\ WriteBack(c, call[c].userRateLimit)
    /\ UNCHANGED <<now, profileVars, successes, cached, overlapped, late, lastGate>>

-----------------------------------------------------------------------------
(* copyDBIntoSQLite reads the row, clears the copy, and writes the row; it   *)
(* may stop at any point, and starts over after SyncInterval.               *)
CopyBegin ==
    /\ copy' = db
    /\ cache' \in {cache, NoRow}
    /\ UNCHANGED db

CopyCommit ==
    /\ cache' = copy
    /\ UNCHANGED <<db, copy>>

BackgroundDBCopy ==
    /\ UseCache
    /\ CopyBegin \/ CopyCommit
    /\ UNCHANGED <<now, rateLimit, call, historyVars>>

Tick ==
    /\ now < MaxTime
    /\ now' = now + 1
    /\ UNCHANGED <<profileVars, rateLimit, call, historyVars>>

Next ==
    \/ \E c \in Calls :
          \/ Call(c) \/ LoadUserProfile(c) \/ ReturnError(c) \/ CheckRateLimit(c)
          \/ Refuse(c) \/ MatchDevice(c) \/ MatchNone(c) \/ SaveUserProfile(c)
          \/ OtherHandlerSaves(c) \/ Succeed(c) \/ Fail(c)
    \/ BackgroundDBCopy
    \/ Tick

Spec == Init /\ [][Next]_vars

-----------------------------------------------------------------------------
(***************************************************************************)
(* One TOTP period gives at most one success.  There are three ways to a   *)
(* second one: a success on a profile from the cache, which is not saved;  *)
(* a save that lands on a row changed since it was loaded; and a call that *)
(* took its time t in a period before the one recorded by the time it      *)
(* loaded the profile, since validateUserTOTP compares for equality only.  *)
(***************************************************************************)
OncePerPeriod ==
    \A i, j \in DOMAIN successes :
        i # j /\ successes[i] = successes[j]
          => successes[i] \in cached \/ overlapped \/ late

(***************************************************************************)
(* Two calls pass the rate limit at least minSecsBetweenTOTPValidations    *)
(* apart, unless a write-back of an entry set meanwhile by another call    *)
(* has put an older lastCheckTime back.                                    *)
(***************************************************************************)
ChecksSpaced ==
    [][\A c \in Calls :
          call[c].pc = "loaded" /\ call'[c].pc = "limited"
            => \/ lastGate = Never
               \/ now - lastGate >= minSecsBetweenTOTPValidations
               \/ rateOverlapped]_vars

(***************************************************************************)
(* "Returns true if the previous OTP success for this user is NOT on this  *)
(* period" (2fa_totp.go, comment of validateUserTOTP).                     *)
(***************************************************************************)
PreviousSuccessNotInPeriod ==
    \A i \in 1 .. Len(successes) - 1 : successes[i] # successes[i + 1]

(***************************************************************************)
(* "every 5th bad try, make it wait an extra hour" (2fa_totp.go): after    *)
(* such a try the lockout lies ahead.                                      *)
(***************************************************************************)
FifthFailureLocksOut ==
    rateLimit.failCount > 0
      /\ rateLimit.failCount % numFailedTOTPChecksForTimeoutIncrease = 0
      => rateLimit.lockoutExpirationTime > rateLimit.lastFailTime
=============================================================================
