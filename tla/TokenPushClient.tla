--------------------------- MODULE TokenPushClient ---------------------------
(***************************************************************************)
(* The second factor in the command-line client: authenticateToTargetUrls  *)
(* and authenticateUser (lib/client/twofa/twofa.go), the U2F and TOTP      *)
(* factors, and pushtoken.go, where one goroutine starts a push and polls  *)
(* for the answer while another waits for a code to be typed; the first to *)
(* send its result decides, and after a time the client gives up.          *)
(*                                                                         *)
(* The targets are tried one after the other; a goroutine that an attempt  *)
(* leaves behind goes on during the next.  Of the server the client sees   *)
(* the status of an answer, and 200 means that the level of the cookie was *)
(* raised, as OktaAuth has it; an answer may get lost, and it may never    *)
(* come.  left[t] is the time that is left for the attempt, pushLeft[t]    *)
(* for polling.                                                            *)
(***************************************************************************)
EXTENDS Integers, Sequences

CONSTANTS
    targetUrls,             \* 1 .. n
    vipCheckTimeoutSecs

ASSUME ClientAssumption ==
    /\ 1 \in targetUrls
    /\ \A t \in targetUrls : t \in Nat \ {0} /\ 1 .. t \subseteq targetUrls
    /\ vipCheckTimeoutSecs \in Nat

VARIABLES
    client,     \* "login", "choose", "wait", "ok", "failed"
    attempt,    \* the target it is about
    backends,   \* CertAuthBackend of the server and what the client has
    raised,     \* target -> has the server raised the level of the cookie?
    ch,         \* target -> the channel, of capacity 1
    otp, push,  \* target -> where the two goroutines are
    left, pushLeft,
    otpResult, pushResult,      \* target -> what they have to send
    timedOut,   \* history: target -> did the client give it up?
    refused     \* history: target -> was a code or signature refused?

clientVars == <<client, attempt, backends, raised, ch, otp, push, left, pushLeft,
                otpResult, pushResult, timedOut, refused>>

Ended == {"none", "ended"}

(* The variables have their types; no channel holds more than it can. *)
ClientTypeOK ==
    /\ client \in {"login", "choose", "wait", "ok", "failed"}
    /\ attempt \in targetUrls
    /\ \A t \in targetUrls :
          /\ Len(ch[t]) <= 1
          /\ otp[t] \in Ended \cup {"reading", "posting", "sending"}
          /\ push[t] \in Ended \cup {"starting", "polling", "sleeping", "sending"}
          /\ left[t] \in 0 .. vipCheckTimeoutSecs
          /\ pushLeft[t] \in 0 .. vipCheckTimeoutSecs

ClientInit ==
    /\ client = "login" /\ attempt = 1
    /\ backends \in {{"Password", "TOTP"}, {"U2F", "TOTP"}, {"TOTP", "Okta"}, {"Okta"}, {}}
    /\ raised = [t \in targetUrls |-> FALSE]
    /\ ch = [t \in targetUrls |-> <<>>]
    /\ otp = [t \in targetUrls |-> "none"]
    /\ push = [t \in targetUrls |-> "none"]
    /\ left = [t \in targetUrls |-> 0]
    /\ pushLeft = [t \in targetUrls |-> 0]
    /\ otpResult = [t \in targetUrls |-> "error"]
    /\ pushResult = [t \in targetUrls |-> "error"]
    /\ timedOut = [t \in targetUrls |-> FALSE]
    /\ refused = [t \in targetUrls |-> FALSE]

(* Time passes; what sleeps or waits has that much less left. *)
ClientTick ==
    LET less(f) == [t \in targetUrls |-> IF f[t] > 0 THEN f[t] - 1 ELSE 0] IN
    /\ \E t \in targetUrls : left[t] + pushLeft[t] > 0
    /\ left' = less(left)
    /\ pushLeft' = less(pushLeft)
    /\ UNCHANGED <<client, attempt, backends, raised, ch, otp, push, otpResult, pushResult,
                   timedOut, refused>>

-----------------------------------------------------------------------------
(* authenticateToTargetUrls: the next one, or no more. *)
NextTarget ==
    IF attempt + 1 \in targetUrls
    THEN attempt' = attempt + 1 /\ client' = "login"
    ELSE attempt' = attempt /\ client' = "failed"

goroutines == <<ch, otp, push, pushLeft, otpResult, pushResult>>

(* authenticateUser sends the password and has a cookie, or an error. *)
Login ==
    /\ client = "login"
    /\ (client' = "choose" /\ UNCHANGED attempt) \/ NextTarget
    /\ UNCHANGED <<backends, raised, goroutines, left, timedOut, refused>>

(* One way of U2F and TOTP: the server takes it, refuses it (and the        *)
(* client takes that for success: both return err, which is nil by then),   *)
(* or there is an error and the next target is tried.  Both wait for the    *)
(* user, to touch the token or to type a code, as long as it takes.         *)
DirectFactor ==
    \/ /\ raised' = [raised EXCEPT ![attempt] = TRUE]
       /\ client' = "ok"
       /\ UNCHANGED <<attempt, refused>>
    \/ /\ refused' = [refused EXCEPT ![attempt] = TRUE]
       /\ client' = "ok"
       /\ UNCHANGED <<attempt, raised>>
    \/ NextTarget /\ UNCHANGED <<refused, raised>>

(* Some errors with the token are fatal. *)
doU2FAuthenticate ==
    /\ "U2F" \in backends
    /\ \/ DirectFactor
       \/ client' = "failed" /\ UNCHANGED <<attempt, refused, raised>>

doTOTPAuthenticate == "TOTP" \in backends /\ "U2F" \notin backends /\ DirectFactor

(* authenticateUser: no second factor where a password is enough, then U2F  *)
(* if there is a device, TOTP, and Okta (VIP alike); with none of them the  *)
(* attempt has failed.                                                      *)
authenticateUser ==
    /\ client = "choose"
    /\ \/ /\ "Password" \in backends
          /\ client' = "ok"
          /\ UNCHANGED <<attempt, otp, push, left, refused, raised>>
       \/ /\ "Password" \notin backends
          /\ doU2FAuthenticate \/ doTOTPAuthenticate
          /\ UNCHANGED <<otp, push, left>>
       \/ /\ backends = {"Okta"}
          /\ client' = "wait"
          /\ otp' = [otp EXCEPT ![attempt] = "reading"]
          /\ push' = [push EXCEPT ![attempt] = "starting"]
          /\ left' = [left EXCEPT ![attempt] = vipCheckTimeoutSecs]
          /\ UNCHANGED <<attempt, refused, raised>>
       \/ /\ backends = {}
          /\ NextTarget
          /\ UNCHANGED <<otp, push, left, refused, raised>>
    /\ UNCHANGED <<backends, ch, pushLeft, otpResult, pushResult, timedOut>>

(* The factor that is chosen waits for the user. *)
WaitsForUser == "Password" \notin backends /\ backends \cap {"U2F", "TOTP"} # {}

(* The time is over. *)
GiveUp ==
    /\ client = "wait" /\ left[attempt] = 0
    /\ timedOut' = [timedOut EXCEPT ![attempt] = TRUE]
    /\ NextTarget
    /\ UNCHANGED <<backends, raised, goroutines, left, refused>>

(* doGenericTokenPushAuthenticate: the first result decides, or the time is *)
(* over; where both are there, either.                                      *)
doGenericTokenPushAuthenticate ==
    \/ GiveUp
    \/ /\ client = "wait" /\ ch[attempt] # <<>>
       /\ ch' = [ch EXCEPT ![attempt] = <<>>]
       /\ IF Head(ch[attempt]) = "ok" THEN client' = "ok" /\ UNCHANGED attempt ELSE NextTarget
       /\ UNCHANGED <<backends, raised, otp, push, left, pushLeft, otpResult, pushResult,
                      timedOut, refused>>

-----------------------------------------------------------------------------
(* The goroutine that reads a code *)

clientRest == <<client, attempt, backends, left, timedOut>>

(* A line is typed, and one of those that read takes it, even one that a    *)
(* former attempt has left behind; or reading fails.                        *)
EnterLine(t) ==
    /\ otp[t] = "reading"
    /\ \/ otp' = [otp EXCEPT ![t] = "posting"]
       \/ otp' = [otp EXCEPT ![t] = "sending"]
    /\ UNCHANGED <<clientRest, raised, ch, push, pushLeft, otpResult, pushResult, refused>>

(* The answer to a request is 200 and the level was raised, it is another,  *)
(* or it gets lost, whatever the server did.                                *)
Answered(t, status) ==
    \/ status = 200 /\ raised' = [raised EXCEPT ![t] = TRUE]
    \/ status \notin {0, 200} /\ UNCHANGED raised
    \/ status = 0 /\ \E r \in {raised[t], TRUE} : raised' = [raised EXCEPT ![t] = r]

(* genericAuthenticateWithToken: any status but 200 is no error either.     *)
genericAuthenticateWithToken(t) ==
    /\ otp[t] = "posting"
    /\ \E status \in {200, 401, 0} :
          /\ Answered(t, status)
          /\ otpResult' = [otpResult EXCEPT ![t] = IF status = 0 THEN "error" ELSE "ok"]
          /\ refused' = [refused EXCEPT ![t] = @ \/ status = 401]
    /\ otp' = [otp EXCEPT ![t] = "sending"]
    /\ UNCHANGED <<clientRest, ch, push, pushLeft, pushResult>>

-----------------------------------------------------------------------------
(* The goroutine that polls *)

PushSends(t, r) ==
    /\ push' = [push EXCEPT ![t] = "sending"]
    /\ pushResult' = [pushResult EXCEPT ![t] = r]
    /\ UNCHANGED pushLeft

(* From here on there is so much time, to poll or to hold back an error     *)
(* while a code may be typed.                                               *)
PushWaits(t, how) ==
    /\ push' = [push EXCEPT ![t] = how]
    /\ pushLeft' = [pushLeft EXCEPT ![t] = vipCheckTimeoutSecs]
    /\ UNCHANGED pushResult

startGenericPush(t) ==
    /\ push[t] = "starting"
    /\ PushWaits(t, "polling") \/ PushWaits(t, "sleeping")
    /\ UNCHANGED <<clientRest, raised, ch, otp, otpResult, refused>>

(* Mutant: a push that is still waiting is taken for an approved one. *)
PollOkEager(status) == status \in {200, 412}

PollOk(status) == status = 200

(* doGenericPushCheck and checkGenericPollStatus: any answer but 200 is     *)
(* waited through, also that of a push the user has rejected.               *)
doGenericPushCheck(t) ==
    /\ \/ /\ push[t] = "polling" /\ pushLeft[t] > 0
          /\ \E status \in {200, 412, 0} :
                /\ Answered(t, status)
                /\ \/ PollOk(status) /\ PushSends(t, "ok")
                   \/ status = 0 /\ PushWaits(t, "sleeping")
                   \/ ~PollOk(status) /\ status # 0 /\ UNCHANGED <<push, pushLeft, pushResult>>
       \/ /\ push[t] \in {"polling", "sleeping"} /\ pushLeft[t] = 0
          /\ PushSends(t, "error")
          /\ UNCHANGED raised
    /\ UNCHANGED <<clientRest, ch, otp, otpResult, refused>>

(* Mutant: the channel has no room, a result is sent when the client waits. *)
SendUnbuffered(t, g) ==
    /\ g[t] = "sending"
    /\ client = "wait" /\ attempt = t
    /\ ch[t] = <<>>

(* A result can be sent while there is room in the channel. *)
CanSend(t, g) ==
    /\ g[t] = "sending"
    /\ ch[t] = <<>>

(* One of the two goroutines sends its result and ends. *)
SendResult(t) ==
    /\ \/ /\ CanSend(t, otp)
          /\ ch' = [ch EXCEPT ![t] = <<otpResult[t]>>]
          /\ otp' = [otp EXCEPT ![t] = "ended"]
          /\ UNCHANGED push
       \/ /\ CanSend(t, push)
          /\ ch' = [ch EXCEPT ![t] = <<pushResult[t]>>]
          /\ push' = [push EXCEPT ![t] = "ended"]
          /\ UNCHANGED otp
    /\ UNCHANGED <<clientRest, raised, pushLeft, otpResult, pushResult, refused>>

-----------------------------------------------------------------------------
ClientSteps ==
    \/ Login \/ doGenericTokenPushAuthenticate
    \/ ~WaitsForUser /\ authenticateUser

ClientNext ==
    \/ ClientTick
    \/ Login \/ authenticateUser \/ doGenericTokenPushAuthenticate
    \/ \E t \in targetUrls :
          \/ EnterLine(t) \/ genericAuthenticateWithToken(t)
          \/ startGenericPush(t) \/ doGenericPushCheck(t) \/ SendResult(t)

(* Time goes on, the client is scheduled and so are goroutines that have a  *)
(* result to send, and a login is answered; nobody has to type a code or to *)
(* approve a push, and the requests of the goroutines need not be answered. *)
ClientFairness ==
    /\ WF_clientVars(ClientTick)
    /\ WF_clientVars(ClientSteps)
    /\ \A t \in targetUrls : WF_clientVars(SendResult(t))

ClientSpec == ClientInit /\ [][ClientNext]_clientVars /\ ClientFairness

-----------------------------------------------------------------------------
(***************************************************************************)
(* The client takes no attempt for a success unless the level of its       *)
(* cookie was raised, passwords are enough, or the server has refused a    *)
(* code or a signature: genericAuthenticateWithToken, doTOTPAuthenticate   *)
(* and doU2FAuthenticate return no error then.  A code that is typed late, *)
(* for a former attempt, makes no success of another one.                  *)
(***************************************************************************)
SuccessMeansRaised ==
    client = "ok" =>
        raised[attempt] \/ refused[attempt] \/ "Password" \in backends

(***************************************************************************)
(* A goroutine with a result finds room for it in the channel, or the      *)
(* client is still there to take what fills it; only where the client gave *)
(* up may there be two results for the room of one (ch in                  *)
(* doGenericTokenPushAuthenticate).                                        *)
(***************************************************************************)
RoomForResult ==
    \A t \in targetUrls :
        (otp[t] = "sending" \/ push[t] = "sending") /\ ch[t] # <<>> =>
            timedOut[t] \/ (client = "wait" /\ attempt = t)

(***************************************************************************)
(* The client comes to an end, with every target tried or one that worked, *)
(* although nobody types a code and the server never answers about the     *)
(* push (the timeout of doGenericTokenPushAuthenticate).  U2F and TOTP     *)
(* have no such timeout.                                                   *)
(***************************************************************************)
ClientReturns == WaitsForUser \/ <>(client \in {"ok", "failed"})

(***************************************************************************)
(* A goroutine with a result is rid of it, whichever result decided: the   *)
(* channel has room for the second one.  Only where the client gave up     *)
(* before the first may one of the two be left.                            *)
(***************************************************************************)
ResultNeverStuck ==
    \A t \in targetUrls :
        /\ otp[t] = "sending" ~> otp[t] = "ended" \/ timedOut[t]
        /\ push[t] = "sending" ~> push[t] = "ended" \/ timedOut[t]
=============================================================================
