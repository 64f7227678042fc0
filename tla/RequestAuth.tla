---------------------------- MODULE RequestAuth ----------------------------
(***************************************************************************)
(* Authentication as the coroutines of one device share it: _auth_method   *)
(* of ISAPIClient with request, _detect_auth_method, the fallback to       *)
(* sessionLogin and open_arming_stream (isapi/isapi.py), the cookie of a   *)
(* SessionLoginAuth (isapi/session_auth.py), and auth_token_expired with   *)
(* handle_exception (hikvision_device.py), which decides when the user is  *)
(* asked for new credentials.                                              *)
(*                                                                         *)
(* Every await is a point where another coroutine may run.  A cookie is    *)
(* "good" while the device knows its session and "stale" after a reboot.   *)
(***************************************************************************)
EXTENDS Naturals, FiniteSets

CONSTANTS
    Pollers,        \* coordinators: their 401s go to handle_exception
    Clearing,       \* the pollers that reset auth_token_expired (Events)
    Users,          \* service calls: their errors go to the user
    Streams,        \* the arming connection
    Objects,        \* SessionLoginAuth objects, one in use per caller at most
    Requests,       \* requests of one coordinator update
    MaxReboots,     \* bound: reboots of the device
    MaxErrors,      \* bound: transient errors
    MaxCalls        \* bound: service calls

Callers == Pollers \union Users \union Streams

ASSUME CallersAssumption ==
    /\ IsFiniteSet(Callers)
    /\ Clearing \subseteq Pollers
    /\ Pollers \intersect (Users \union Streams) = {} /\ Users \intersect Streams = {}
ASSUME ObjectsAssumption ==
    /\ Objects # {} /\ IsFiniteSet(Objects) /\ Cardinality(Objects) >= Cardinality(Callers)
    /\ Objects \intersect {"none", "plain", "noop"} = {}
ASSUME BoundsAssumption ==
    /\ Requests \in Nat \ {0}
    /\ MaxReboots \in Nat /\ MaxErrors \in Nat /\ MaxCalls \in Nat

VARIABLES
    mode,       \* what the device accepts: Basic/Digest or sessionLogin
    trusted,    \* the configured password is the device's password
    refusal,    \* how its firmware answers a sessionLogin it does not grant
    auth,       \* _auth_method
    cookie,     \* per SessionLoginAuth object, its cookie
    jar,        \* the session cookie in the shared httpx client's cookie jar
    pc,         \* per caller, the await it is suspended in
    sent,       \* per caller, the auth object of its request
    used,       \* per caller, the cookie its request carries
    tried,      \* per caller, its request is the sessionLogin retry
    left,       \* per poller, the requests its update still has to make
    result,     \* per caller, how its last request ended
    expired,    \* auth_token_expired
    reauth,     \* a reauthentication flow has been started
    raced,      \* history: _auth_method had changed when a 401 came in
    reboots, errors, calls   \* counters, for the bounds

device == <<mode, trusted, refusal, reboots>>
own == <<pc, sent, used, tried, left, calls, result>>
vars == <<device, auth, cookie, jar, own, expired, reauth, raced, errors>>

Auths == {"none", "plain", "noop"} \union Objects
Cookies == {"none", "good", "stale"}

\* how a login exchange that yields no session ends: with a 401, with another
\* status or something that is no XML, or with a 200 that carries no session
Refusals == {"unauthorized", "error", "answer"}

\* "foreign": the login exchange's answer was taken for the request's own
Results == {"ok", "unauthorized", "error", "foreign"}

TypeOK ==
    /\ mode \in {"plain", "session"} /\ trusted \in BOOLEAN /\ refusal \in Refusals
    /\ auth \in Auths
    /\ cookie \in [Objects -> Cookies]
    /\ jar \in Cookies
    /\ pc \in [Callers -> {"idle", "probing", "sent", "login", "resent"}]
    /\ sent \in [Callers -> Auths]
    /\ used \in [Callers -> Cookies]
    /\ tried \in [Callers -> BOOLEAN]
    /\ left \in [Callers -> 0 .. Requests]
    /\ result \in [Callers -> Results]
    /\ expired \in BOOLEAN /\ reauth \in BOOLEAN /\ raced \in BOOLEAN
    /\ reboots \in 0 .. MaxReboots /\ errors \in 0 .. MaxErrors /\ calls \in 0 .. MaxCalls

\* The entry is set up.  Its requests, made one after the other, have found
\* what works: Basic/Digest, or sessionLogin, or, when the entry was reloaded,
\* the session whose cookie the shared httpx client still has in its jar.
Settled(a, k) ==
    /\ auth = a
    /\ jar = k
    /\ cookie = [o \in Objects |-> IF o = a THEN k ELSE "none"]

Init ==
    /\ \/ mode = "plain" /\ Settled("plain", "none")
       \/ mode = "session" /\ Settled(CHOOSE o \in Objects : TRUE, "good")
       \/ mode = "session" /\ Settled("noop", "good")
    /\ trusted = TRUE /\ refusal \in Refusals
    /\ pc = [c \in Callers |-> "idle"]
    /\ sent = [c \in Callers |-> "none"]
    /\ used = [c \in Callers |-> "none"]
    /\ tried = [c \in Callers |-> FALSE]
    /\ left = [c \in Callers |-> 0]
    /\ result = [c \in Callers |-> "ok"]
    /\ expired = FALSE /\ reauth = FALSE /\ raced = FALSE
    /\ reboots = 0 /\ errors = 0 /\ calls = 0

-----------------------------------------------------------------------------
(* The device.                                                             *)

Staled(k) == IF k = "good" THEN "stale" ELSE k

ForgetSessions ==
    /\ cookie' = [o \in Objects |-> Staled(cookie[o])]
    /\ jar' = Staled(jar)
    /\ used' = [c \in Callers |-> Staled(used[c])]

Reboot ==
    /\ reboots < MaxReboots
    /\ reboots' = reboots + 1
    /\ ForgetSessions
    /\ UNCHANGED <<mode, trusted, refusal, auth, pc, sent, tried, left, calls, result, expired,
                   reauth, raced, errors>>

ChangePassword ==
    /\ trusted
    /\ trusted' = FALSE
    /\ ForgetSessions
    /\ UNCHANGED <<mode, refusal, reboots, auth, pc, sent, tried, left, calls, result, expired,
                   reauth, raced, errors>>

Accepted(c) ==
    \/ used[c] = "good"
    \/ sent[c] = "plain" /\ mode = "plain" /\ trusted

-----------------------------------------------------------------------------
(* Sending a request.                                                      *)

\* httpx adds the jar's cookie; a SessionLoginAuth overrides it with its own
CookieSent(a) == IF a \in Objects /\ cookie[a] # "none" THEN cookie[a] ELSE jar

Issue(c, a) ==
    /\ pc' = [pc EXCEPT ![c] = "sent"]
    /\ sent' = [sent EXCEPT ![c] = a]
    /\ used' = [used EXCEPT ![c] = CookieSent(a)]

\* a call starts, or a coordinator's update goes on to its next request
Call(c) ==
    /\ pc[c] = "idle"
    /\ IF c \in Users THEN calls < MaxCalls /\ calls' = calls + 1 ELSE UNCHANGED calls
    /\ left' = [left EXCEPT ![c] = IF c \notin Pollers THEN 0
                                   ELSE IF @ = 0 THEN Requests - 1 ELSE @ - 1]
    /\ IF auth = "none"
       THEN pc' = [pc EXCEPT ![c] = "probing"] /\ UNCHANGED <<sent, used>>
       ELSE Issue(c, auth)
    /\ UNCHANGED <<device, auth, cookie, jar, tried, result, expired, reauth, raced, errors>>

\* _detect_auth_method: a challenge, or 200 thanks to the jar's cookie;
\* the answer overwrites what another coroutine has established meanwhile
Probe(c) ==
    /\ pc[c] = "probing"
    /\ auth' = IF jar = "good" THEN "noop" ELSE "plain"
    /\ Issue(c, auth')
    /\ UNCHANGED <<device, cookie, jar, tried, left, calls, result, expired, reauth, raced, errors>>

\* some other status: the request goes out with whatever is there
ProbeUndecided(c) ==
    /\ pc[c] = "probing"
    /\ errors < MaxErrors
    /\ errors' = errors + 1
    /\ Issue(c, auth)
    /\ UNCHANGED <<device, auth, cookie, jar, tried, left, calls, result, expired, reauth, raced>>

-----------------------------------------------------------------------------
(* How a request ends.                                                     *)

Ends(c, how) ==
    /\ pc' = [pc EXCEPT ![c] = "idle"]
    /\ sent' = [sent EXCEPT ![c] = "none"]
    /\ used' = [used EXCEPT ![c] = "none"]
    /\ tried' = [tried EXCEPT ![c] = FALSE]
    /\ result' = [result EXCEPT ![c] = how]
    /\ UNCHANGED <<left, calls>>

\* slip: the flag is reset after every request of the update
UpdateClearsEarly(c) == c \in Clearing

\* the end of EventsCoordinator._async_update_data resets the flag
UpdateClears(c) == c \in Clearing /\ left[c] = 0

\* anything but a 401 leaves the authentication alone
Over(c, how) ==
    /\ Ends(c, how)
    /\ expired' = (expired /\ ~UpdateClears(c))
    /\ UNCHANGED <<auth, cookie, jar, reauth, raced>>

\* slip: the first 401 already asks the user
HandleUnauthorizedAtOnce(c) ==
    reauth' = TRUE /\ expired' = FALSE /\ UNCHANGED auth

\* handle_exception on ISAPIUnauthorizedError
HandleUnauthorized(c) ==
    IF expired
    THEN reauth' = TRUE /\ expired' = FALSE /\ UNCHANGED auth
    ELSE auth' = "none" /\ expired' = ~UpdateClears(c) /\ UNCHANGED reauth

Unauthorized(c) ==
    /\ Ends(c, "unauthorized")
    /\ IF c \in Pollers THEN HandleUnauthorized(c)
       ELSE UNCHANGED <<auth, expired, reauth>>
    /\ UNCHANGED <<cookie, jar>>

\* slip: the class is stored instead of an object of it
FallbackToClass(c) ==
    /\ auth' = "session"
    /\ tried' = [tried EXCEPT ![c] = TRUE]
    /\ pc' = [pc EXCEPT ![c] = "sent"]
    /\ UNCHANGED <<cookie, sent, used, jar, left, calls, result, expired, reauth>>

\* _fallback_to_session_login: a new object without a cookie, and a retry
\* (an object that nobody refers to any more stands for the new one)
Fallback(c) ==
    LET o == CHOOSE x \in Objects : \A d \in Callers \ {c} : sent[d] # x IN
    /\ auth' = o
    /\ cookie' = [cookie EXCEPT ![o] = "none"]
    /\ tried' = [tried EXCEPT ![c] = TRUE]
    /\ pc' = [pc EXCEPT ![c] = "sent"]
    /\ sent' = [sent EXCEPT ![c] = o]
    /\ used' = [used EXCEPT ![c] = jar]
    /\ UNCHANGED <<jar, left, calls, result, expired, reauth>>

\* slip: a 401 is final
FallsBackNever(c) == FALSE

\* the test after the await looks at the current _auth_method, which need
\* not be the one this request was sent with
FallsBack(c) == c \notin Streams /\ ~tried[c] /\ auth \notin Objects

Rejected(c) ==
    /\ IF FallsBack(c) THEN Fallback(c) ELSE Unauthorized(c)
    /\ raced' = (raced \/ auth # sent[c])

Succeed(c) ==
    /\ pc[c] \in {"sent", "resent"} /\ Accepted(c)
    /\ Over(c, "ok")
    /\ UNCHANGED <<device, errors>>

\* 401 to a request that is not under SessionLoginAuth
Refuse(c) ==
    /\ pc[c] = "sent" /\ ~Accepted(c) /\ sent[c] \notin Objects
    /\ Rejected(c)
    /\ UNCHANGED <<device, errors>>

\* 401 under SessionLoginAuth: the cookie is dropped and a login attempted
DropCookie(c) ==
    /\ pc[c] = "sent" /\ ~Accepted(c) /\ sent[c] \in Objects
    /\ cookie' = [cookie EXCEPT ![sent[c]] = "none"]
    /\ pc' = [pc EXCEPT ![c] = "login"]
    /\ UNCHANGED <<device, auth, jar, sent, used, tried, left, calls, result, expired,
                   reauth, raced, errors>>

\* the challenge and the login are accepted: the request is sent once more
Login(c) ==
    /\ pc[c] = "login" /\ mode = "session" /\ trusted
    /\ cookie' = [cookie EXCEPT ![sent[c]] = "good"]
    /\ jar' = "good"
    /\ used' = [used EXCEPT ![c] = "good"]
    /\ pc' = [pc EXCEPT ![c] = "resent"]
    /\ UNCHANGED <<device, auth, sent, tried, left, calls, result, expired, reauth, raced, errors>>

\* another caller has logged in on the same object meanwhile: its cookie is
\* there, and the request is sent once more with it
Borrow(c) ==
    /\ cookie[sent[c]] # "none"
    /\ used' = [used EXCEPT ![c] = cookie[sent[c]]]
    /\ pc' = [pc EXCEPT ![c] = "resent"]
    /\ UNCHANGED <<auth, cookie, jar, sent, tried, left, calls, result, expired, reauth, raced>>

\* The flow ends without a session, and httpx hands the last answer of the
\* login exchange to the caller as the answer to its own request; request()
\* parses a 200, open_arming_stream finds no multipart boundary in it.
NoSession(c, answer) ==
    \/ answer = "unauthorized" /\ Rejected(c)
    \/ answer = "error" /\ Over(c, "error")
    \/ answer = "answer" /\ Over(c, IF c \in Streams THEN "error" ELSE "foreign")
    \/ answer = "answer" /\ Borrow(c)

\* sessionLogin is not supported, or the password is wrong
LoginRefused(c) ==
    /\ pc[c] = "login" /\ ~(mode = "session" /\ trusted)
    /\ NoSession(c, refusal)
    /\ UNCHANGED <<device, errors>>

\* a device still booting answers the login requests with whatever it has
LoginFails(c) ==
    /\ pc[c] = "login" /\ errors < MaxErrors
    /\ errors' = errors + 1
    /\ \E answer \in Refusals : NoSession(c, answer)
    /\ UNCHANGED device

\* the new session was lost before the request was answered
RefuseAgain(c) ==
    /\ pc[c] = "resent" /\ ~Accepted(c)
    /\ Rejected(c)
    /\ UNCHANGED <<device, errors>>

\* a timeout, a lost connection or another HTTP status ends the request
Break(c) ==
    /\ pc[c] # "idle" /\ errors < MaxErrors
    /\ errors' = errors + 1
    /\ Over(c, "error")
    /\ UNCHANGED device

-----------------------------------------------------------------------------

Progress(c) ==
    \/ Probe(c) \/ Succeed(c) \/ Refuse(c) \/ DropCookie(c)
    \/ Login(c) \/ LoginRefused(c) \/ RefuseAgain(c)

Next ==
    \/ Reboot \/ ChangePassword
    \/ \E c \in Callers : Call(c) \/ Progress(c) \/ ProbeUndecided(c)
                          \/ LoginFails(c) \/ Break(c)

Spec == Init /\ [][Next]_vars

(* A request in flight is answered; coordinators poll for ever and the      *)
(* arming listener reopens its connection.  Service calls may stop.        *)
Fairness ==
    /\ \A c \in Callers : WF_vars(Progress(c))
    /\ \A c \in Pollers \union Streams : WF_vars(Call(c))

FairSpec == Spec /\ Fairness

-----------------------------------------------------------------------------

(* The user is asked for new credentials only when the configured ones are *)
(* no longer right: a reboot is absorbed by auth_token_expired and the     *)
(* retries.                                                                *)
ReauthOnlyIfWrong == reauth => ~trusted

(* What a reauthentication flow with the right password takes: a 401 that  *)
(* came in when another coroutine had changed _auth_method meanwhile, or   *)
(* three disturbances.  A reboot and an error while logging in again, for  *)
(* instance, are absorbed by auth_token_expired.                           *)
ReauthExplained == reauth /\ trusted => raced \/ reboots + errors >= 3

(* When the password has been changed on the device the user is asked, if  *)
(* the device answers the refused login with a 401; a device that answers  *)
(* with another status, or with a 200 without a session, only leaves       *)
(* coordinators that fail, or that read the login's answer as their own.   *)
WrongIsNoticed == ~trusted /\ refusal = "unauthorized" ~> reauth

(* As long as the password is right no coroutine stays shut out, whatever  *)
(* session was lost, whatever a login was answered with and whoever        *)
(* overwrote _auth_method meanwhile: after every 401, every error and      *)
(* every foreign answer a request of its own succeeds again.               *)
Recovers ==
    \A c \in Pollers \union Streams :
        result[c] # "ok" ~> result[c] = "ok" \/ ~trusted
=============================================================================
