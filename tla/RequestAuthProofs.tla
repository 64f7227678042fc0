-------------------------- MODULE RequestAuthProofs --------------------------
(***************************************************************************)
(* Proofs about RequestAuth, for every number of coordinators, service     *)
(* calls, streams, requests, reboots and errors: the types, and what it    *)
(* takes to ask the user for a password that is right.                     *)
(***************************************************************************)
EXTENDS RequestAuth, FiniteSetTheorems, TLAPS

(* A caller that is retrying or logging in does so under an object of      *)
(* SessionLoginAuth.                                                       *)
Tied ==
    \A c \in Callers :
        /\ pc[c] \in {"login", "resent"} \/ tried[c] => sent[c] \in Objects
        /\ pc[c] \in {"idle", "probing"} => ~tried[c]

(* A device with Basic or Digest refuses nothing while the password is     *)
(* right.                                                                  *)
PlainQuiet ==
    mode = "plain" /\ trusted =>
        /\ auth = "plain" /\ ~expired /\ ~reauth
        /\ \A c \in Callers : pc[c] = "idle" \/ (pc[c] = "sent" /\ sent[c] = "plain")

Disturbances == reboots + errors

(* Nor does one with sessions before the first disturbance.                *)
FreshGood ==
    mode = "session" /\ trusted /\ Disturbances = 0 =>
        /\ jar = "good" /\ \A o \in Objects : cookie[o] # "stale"
        /\ \A c \in Callers : pc[c] \in {"sent", "login", "resent"} => used[c] = "good"

(* What has to have happened to be so close to asking the user.  A caller  *)
(* whose new session was lost again meets the 401 that counts only if      *)
(* _auth_method is still its own object; the coordinator that set          *)
(* auth_token_expired has put it aside.                                    *)
Accounted ==
    mode = "session" /\ trusted /\ ~raced =>
        /\ expired => Disturbances >= 2
        /\ reauth => Disturbances >= 3
        /\ \A c \in Callers :
              /\ pc[c] \in {"login", "resent"} => Disturbances >= 1
              /\ pc[c] = "resent" /\ used[c] # "good" =>
                    /\ Disturbances >= 2
                    /\ expired => Disturbances >= 3 \/ auth # sent[c]

Inv == TypeOK /\ Tied /\ PlainQuiet /\ FreshGood /\ Accounted

-----------------------------------------------------------------------------

(* An object is left for a new SessionLoginAuth: the others hold fewer.    *)
LEMMA FreeObject ==
    ASSUME NEW c \in Callers
    PROVE  \E o \in Objects : \A d \in Callers \ {c} : sent[d] # o
<1> DEFINE D == Callers \ {c}
<1>1. IsFiniteSet(D) /\ Cardinality(D) = Cardinality(Callers) - 1 /\ Cardinality(Callers) \in Nat
  BY CallersAssumption, FS_RemoveElement, FS_CardinalityType
<1>2. IsFiniteSet(Objects) /\ Cardinality(D) < Cardinality(Objects)
  BY <1>1, ObjectsAssumption, FS_CardinalityType
<1>3. SUFFICES ASSUME \A o \in Objects : \E d \in D : sent[d] = o
               PROVE  FALSE
  OBVIOUS
<1> DEFINE f == [o \in Objects |-> CHOOSE d \in D : sent[d] = o]
<1>4. f \in [Objects -> D] /\ \A o \in Objects : sent[f[o]] = o
  BY <1>3
<1> HIDE DEF f, D
<1>5. \E x, y \in Objects : x # y /\ f[x] = f[y]
  BY <1>1, <1>2, <1>4, FS_PigeonHole
<1> QED
  BY <1>4, <1>5

(* A fallback makes an object its own that no other request is sent with.  *)
LEMMA FallbackNew ==
    ASSUME NEW c \in Callers, Fallback(c)
    PROVE  \E o \in Objects :
              /\ \A d \in Callers \ {c} : sent[d] # o
              /\ auth' = o /\ cookie' = [cookie EXCEPT ![o] = "none"]
              /\ sent' = [sent EXCEPT ![c] = o]
<1> DEFINE o == CHOOSE x \in Objects : \A d \in Callers \ {c} : sent[d] # x
<1>1. o \in Objects /\ \A d \in Callers \ {c} : sent[d] # o
  BY FreeObject
<1>2. auth' = o /\ cookie' = [cookie EXCEPT ![o] = "none"] /\ sent' = [sent EXCEPT ![c] = o]
  BY DEF Fallback
<1> QED
  BY <1>1, <1>2

(* How a request that is not accepted goes on: under a new object, or it   *)
(* ends and a coordinator takes note of it.                                *)
FallsBackTo(c, o) ==
    /\ ~tried[c] /\ o \in Objects /\ \A d \in Callers \ {c} : sent[d] # o
    /\ auth' = o /\ cookie' = [cookie EXCEPT ![o] = "none"]
    /\ tried' = [tried EXCEPT ![c] = TRUE] /\ pc' = [pc EXCEPT ![c] = "sent"]
    /\ sent' = [sent EXCEPT ![c] = o] /\ used' = [used EXCEPT ![c] = jar]
    /\ jar' = jar /\ left' = left /\ calls' = calls /\ result' = result
    /\ expired' = expired /\ reauth' = reauth

GivesUp(c) ==
    /\ Ends(c, "unauthorized") /\ cookie' = cookie /\ jar' = jar
    /\ \/ c \notin Pollers /\ auth' = auth /\ expired' = expired /\ reauth' = reauth
       \/ /\ c \in Pollers /\ (tried[c] \/ auth \in Objects)
          /\ \/ expired /\ reauth' = TRUE /\ expired' = FALSE /\ auth' = auth
             \/ /\ ~expired /\ reauth' = reauth /\ expired' \in BOOLEAN /\ auth' = "none"

LEMMA RejectedCases ==
    ASSUME TypeOK, NEW c \in Callers, Rejected(c)
    PROVE  /\ (\E o \in Objects : FallsBackTo(c, o)) \/ GivesUp(c)
           /\ raced' = (raced \/ auth # sent[c])
<1>1. raced' = (raced \/ auth # sent[c])
  BY DEF Rejected
<1>2. CASE FallsBack(c)
  <2>1. Fallback(c) /\ ~tried[c]
    BY <1>2 DEF Rejected, FallsBack
  <2>2. PICK o \in Objects :
              /\ \A d \in Callers \ {c} : sent[d] # o
              /\ auth' = o /\ cookie' = [cookie EXCEPT ![o] = "none"]
              /\ sent' = [sent EXCEPT ![c] = o]
    BY <2>1, FallbackNew
  <2>3. FallsBackTo(c, o)
    BY <2>1, <2>2 DEF Fallback, FallsBackTo
  <2> QED
    BY <1>1, <2>3
<1>3. CASE ~FallsBack(c)
  <2>1. Unauthorized(c)
    BY <1>3 DEF Rejected
  <2>2. CASE c \notin Pollers
    BY <1>1, <2>1, <2>2 DEF Unauthorized, GivesUp
  <2>3. CASE c \in Pollers
    <3>1. tried[c] \/ auth \in Objects
      BY <1>3, <2>3, CallersAssumption DEF FallsBack
    <3>2. (~UpdateClears(c)) \in BOOLEAN
      BY DEF UpdateClears
    <3>3. \/ expired /\ reauth' = TRUE /\ expired' = FALSE /\ auth' = auth
          \/ ~expired /\ reauth' = reauth /\ expired' \in BOOLEAN /\ auth' = "none"
      BY <2>1, <2>3, <3>2 DEF Unauthorized, HandleUnauthorized
    <3>4. Ends(c, "unauthorized") /\ cookie' = cookie /\ jar' = jar
      BY <2>1 DEF Unauthorized
    <3> QED
      BY <1>1, <2>3, <3>1, <3>3, <3>4 DEF GivesUp
  <2> QED
    BY <2>2, <2>3
<1> QED
  BY <1>2, <1>3

(* Why a request may be rejected.                                          *)
Refused(c) ==
    \/ pc[c] = "sent" /\ ~Accepted(c) /\ sent[c] \notin Objects /\ errors' = errors
    \/ pc[c] = "login" /\ ~(mode = "session" /\ trusted) /\ errors' = errors
    \/ pc[c] = "login" /\ errors < MaxErrors /\ errors' = errors + 1
    \/ pc[c] = "resent" /\ ~Accepted(c) /\ errors' = errors

LEMMA Sums ==
    \A x, y, z \in Nat :
        /\ x + y \in Nat
        /\ z >= y => x + z >= x + y
        /\ x + z = 0 => x = 0 /\ z = 0
OBVIOUS

LEMMA RejectedKeeps ==
    ASSUME Inv, NEW c \in Callers, Rejected(c), Refused(c), UNCHANGED device
    PROVE  Inv'
<1>1. /\ mode' = mode /\ trusted' = trusted /\ reboots' = reboots
      /\ errors' \in 0 .. MaxErrors /\ errors' >= errors
      /\ raced' = (raced \/ auth # sent[c])
  BY RejectedCases, BoundsAssumption DEF device, Refused, Inv, TypeOK
<1>2. /\ {"none", "plain", "noop"} \intersect Objects = {}
      /\ Disturbances \in Nat /\ Disturbances' \in Nat /\ Disturbances' >= Disturbances
  <2>1. /\ reboots \in Nat /\ errors \in Nat /\ errors' \in Nat
    BY <1>1, BoundsAssumption DEF Inv, TypeOK
  <2>2. {"none", "plain", "noop"} \intersect Objects = {}
    BY ObjectsAssumption
  <2>3. Disturbances' = reboots + errors'
    BY <1>1 DEF Disturbances
  <2>4. errors' >= errors
    BY <1>1
  <2>5. reboots + errors' >= reboots + errors /\ reboots + errors' \in Nat /\ reboots + errors \in Nat
    BY <2>1, <2>4, Sums
  <2> QED
    BY <2>2, <2>3, <2>5 DEF Disturbances
<1>3. ~(mode = "plain" /\ trusted)
  BY DEF Inv, PlainQuiet, Refused, Accepted
<1>4. mode = "session" /\ trusted => Disturbances' >= 1
  <2> SUFFICES ASSUME mode = "session", trusted, Disturbances' = 0
               PROVE  FALSE
    BY <1>2
  <2>1. Disturbances = 0 /\ errors' = errors
    <3>1. /\ reboots \in Nat /\ errors \in Nat /\ errors' \in Nat
      BY <1>1, BoundsAssumption DEF Inv, TypeOK
    <3>2. reboots + errors' = 0
      BY <1>1 DEF Disturbances
    <3>3. errors' >= errors
      BY <1>1
    <3>4. reboots = 0 /\ errors' = 0
      BY <3>1, <3>2, Sums
    <3> QED
      BY <3>1, <3>3, <3>4 DEF Disturbances
  <2>2. pc[c] \in {"sent", "login", "resent"} => used[c] = "good"
    BY <2>1 DEF Inv, FreshGood
  <2>3. ~(errors' = errors + 1)
    BY <2>1, BoundsAssumption DEF Inv, TypeOK
  <2> QED
    BY <2>2, <2>3 DEF Refused, Accepted
<1>5. PlainQuiet' /\ FreshGood'
  BY <1>1, <1>2, <1>3, <1>4 DEF PlainQuiet, FreshGood
<1>6. ASSUME NEW o \in Objects, FallsBackTo(c, o)
      PROVE  Inv'
  <2>1. TypeOK'
    <3>1. /\ auth' \in Auths /\ sent' \in [Callers -> Auths]
          /\ cookie' \in [Objects -> Cookies] /\ jar' \in Cookies /\ used' \in [Callers -> Cookies]
      BY <1>6 DEF FallsBackTo, Inv, TypeOK, Auths, Cookies
    <3>2. /\ pc' \in [Callers -> {"idle", "probing", "sent", "login", "resent"}]
          /\ tried' \in [Callers -> BOOLEAN] /\ raced' \in BOOLEAN
      BY <1>1, <1>6 DEF FallsBackTo, Inv, TypeOK
    <3> QED
      BY <1>1, <1>6, <3>1, <3>2 DEF device, FallsBackTo, Inv, TypeOK
  <2>2. Tied'
    BY <1>6 DEF FallsBackTo, Inv, Tied, TypeOK
  <2>3. Accounted'
    BY <1>1, <1>2, <1>6 DEF FallsBackTo, Inv, Accounted, TypeOK
  <2> QED
    BY <1>5, <2>1, <2>2, <2>3 DEF Inv
<1>7. CASE GivesUp(c)
  <2>1. TypeOK'
    <3>1. /\ auth' \in Auths /\ sent' \in [Callers -> Auths]
          /\ cookie' \in [Objects -> Cookies] /\ jar' \in Cookies /\ used' \in [Callers -> Cookies]
      BY <1>7 DEF GivesUp, Ends, Inv, TypeOK, Auths, Cookies
    <3>2. /\ pc' \in [Callers -> {"idle", "probing", "sent", "login", "resent"}]
          /\ tried' \in [Callers -> BOOLEAN] /\ raced' \in BOOLEAN
          /\ result' \in [Callers -> Results]
          /\ expired' \in BOOLEAN /\ reauth' \in BOOLEAN
      BY <1>1, <1>7 DEF GivesUp, Ends, Inv, TypeOK, Results
    <3> QED
      BY <1>1, <1>7, <3>1, <3>2 DEF device, GivesUp, Ends, Inv, TypeOK, Results
  <2>2. Tied'
    BY <1>7 DEF GivesUp, Ends, Inv, Tied, TypeOK
  <2>3. ASSUME mode = "session", trusted, ~raced, auth = sent[c], c \in Pollers,
               tried[c] \/ auth \in Objects
        PROVE  /\ Disturbances' >= 2
               /\ expired => Disturbances' >= 3
    <3>1. sent[c] \in Objects
      BY <2>3 DEF Inv, Tied
    <3>2. CASE pc[c] = "login" /\ errors < MaxErrors /\ errors' = errors + 1
      BY <1>1, <1>2, <2>3, <3>2 DEF Inv, Accounted, Disturbances, TypeOK
    <3>3. CASE pc[c] = "resent" /\ ~Accepted(c)
      BY <1>2, <2>3, <3>3 DEF Inv, Accounted, Accepted
    <3> QED
      BY <2>3, <3>1, <3>2, <3>3 DEF Refused
  <2>4. Accounted'
    <3> SUFFICES ASSUME mode = "session", trusted, ~raced, auth = sent[c]
                 PROVE  Accounted'
      BY <1>1 DEF Accounted
    <3>1. CASE c \notin Pollers
      BY <1>1, <1>2, <1>7, <3>1 DEF GivesUp, Ends, Inv, Accounted, TypeOK
    <3>2. CASE c \in Pollers
      BY <1>1, <1>2, <1>7, <2>3, <3>2 DEF GivesUp, Ends, Inv, Accounted, Tied, TypeOK
    <3> QED
      BY <3>1, <3>2
  <2> QED
    BY <1>5, <2>1, <2>2, <2>4 DEF Inv
<1> QED
  BY <1>6, <1>7, RejectedCases DEF Inv

-----------------------------------------------------------------------------
(* The other steps.                                                        *)

LEMMA StaledTypes ==
    \A k \in Cookies : Staled(k) \in Cookies
BY DEF Staled, Cookies

LEMMA RebootKeeps == ASSUME Inv, Reboot PROVE Inv'
<1>1. /\ Disturbances \in Nat /\ Disturbances' = Disturbances + 1
      /\ reboots \in Nat /\ errors \in Nat
  <2>1. reboots \in Nat /\ errors \in Nat
    BY BoundsAssumption DEF Inv, TypeOK
  <2>2. reboots' = reboots + 1 /\ errors' = errors
    BY DEF Reboot
  <2> QED
    BY <2>1, <2>2 DEF Disturbances
<1>2. TypeOK'
  <2>1. /\ cookie' \in [Objects -> Cookies] /\ jar' \in Cookies /\ used' \in [Callers -> Cookies]
    BY StaledTypes DEF Reboot, ForgetSessions, Inv, TypeOK
  <2>2. reboots' \in 0 .. MaxReboots
    BY BoundsAssumption DEF Reboot, Inv, TypeOK
  <2> QED
    BY <2>1, <2>2 DEF Reboot, Inv, TypeOK
<1>3. Tied' /\ PlainQuiet'
  BY DEF Reboot, Inv, Tied, PlainQuiet
<1>4. FreshGood'
  BY <1>1 DEF FreshGood
<1>5. Accounted'
  BY <1>1 DEF Reboot, Inv, Accounted
<1> QED
  BY <1>2, <1>3, <1>4, <1>5 DEF Inv

LEMMA ChangePasswordKeeps == ASSUME Inv, ChangePassword PROVE Inv'
<1>1. TypeOK'
  <2>1. /\ cookie' \in [Objects -> Cookies] /\ jar' \in Cookies /\ used' \in [Callers -> Cookies]
    BY StaledTypes DEF ChangePassword, ForgetSessions, Inv, TypeOK
  <2> QED
    BY <2>1 DEF ChangePassword, Inv, TypeOK
<1>2. Tied'
  BY DEF ChangePassword, Inv, Tied
<1>3. ~trusted'
  BY DEF ChangePassword
<1> QED
  BY <1>1, <1>2, <1>3 DEF Inv, PlainQuiet, FreshGood, Accounted

(* What a request sent with `a' carries is a cookie, a good one while      *)
(* nothing has happened.                                                   *)
LEMMA CookieSentGood ==
    ASSUME Inv, NEW a
    PROVE  /\ CookieSent(a) \in Cookies
           /\ mode = "session" /\ trusted /\ Disturbances = 0 => CookieSent(a) = "good"
<1>1. CASE a \in Objects /\ cookie[a] # "none"
  BY <1>1 DEF CookieSent, Inv, TypeOK, FreshGood, Cookies
<1>2. CASE ~(a \in Objects /\ cookie[a] # "none")
  BY <1>2 DEF CookieSent, Inv, TypeOK, FreshGood
<1> QED
  BY <1>1, <1>2

(* A request that is sent changes nothing but its caller's state.          *)
LEMMA IssueKeeps ==
    ASSUME Inv, NEW c \in Callers, NEW a \in Auths, pc[c] \in {"idle", "probing"}, Issue(c, a),
           auth' \in {auth, "plain", "noop"}, mode = "plain" /\ trusted => auth' = auth /\ a = "plain",
           UNCHANGED <<device, cookie, jar, tried, result, expired, reauth, raced>>,
           left' \in [Callers -> 0 .. Requests], calls' \in 0 .. MaxCalls,
           errors' \in 0 .. MaxErrors, errors' >= errors
    PROVE  Inv'
<1>1. /\ Disturbances \in Nat /\ Disturbances' \in Nat /\ Disturbances' >= Disturbances
      /\ Disturbances' = 0 => Disturbances = 0
  <2>1. reboots \in Nat /\ errors \in Nat /\ errors' \in Nat
    BY BoundsAssumption DEF Inv, TypeOK
  <2>2. Disturbances' = reboots + errors'
    BY DEF Disturbances, device
  <2>3. Disturbances = reboots + errors /\ errors' >= errors
    BY DEF Disturbances
  <2>4. reboots + errors' >= reboots + errors /\ reboots + errors' \in Nat /\ reboots + errors \in Nat
    BY <2>1, <2>3, Sums
  <2>5. \A m, n \in Nat : m >= n /\ m = 0 => n = 0
    OBVIOUS
  <2> HIDE DEF Disturbances
  <2> QED
    BY <2>2, <2>3, <2>4, <2>5
<1>2. /\ pc' = [pc EXCEPT ![c] = "sent"] /\ sent' = [sent EXCEPT ![c] = a]
      /\ used' = [used EXCEPT ![c] = CookieSent(a)]
  BY DEF Issue
<1>3. TypeOK'
  <2>1. auth' \in Auths /\ sent' \in [Callers -> Auths] /\ used' \in [Callers -> Cookies]
    BY <1>2, CookieSentGood DEF Inv, TypeOK, Auths
  <2>2. pc' \in [Callers -> {"idle", "probing", "sent", "login", "resent"}]
    BY <1>2 DEF Inv, TypeOK
  <2> QED
    BY <2>1, <2>2 DEF device, Inv, TypeOK
<1>4. Tied'
  BY <1>2 DEF Inv, Tied, TypeOK
<1>5. PlainQuiet'
  BY <1>2 DEF device, Inv, PlainQuiet, TypeOK
<1>6. FreshGood'
  BY <1>1, <1>2, CookieSentGood DEF device, Inv, FreshGood, TypeOK
<1>7. Accounted'
  <2>1. auth' = auth \/ auth' \notin Objects
    BY ObjectsAssumption
  <2>2. \A d \in Callers : pc[d] = "resent" => sent[d] \in Objects
    BY DEF Inv, Tied
  <2>3. \A d \in Callers : pc'[d] \in {"login", "resent"} =>
           d # c /\ pc'[d] = pc[d] /\ sent'[d] = sent[d] /\ used'[d] = used[d]
    BY <1>2 DEF Inv, TypeOK
  <2> HIDE DEF Disturbances
  <2> QED
    BY <1>1, <2>1, <2>2, <2>3 DEF device, Inv, Accounted
<1> QED
  BY <1>3, <1>4, <1>5, <1>6, <1>7 DEF Inv

LEMMA CallKeeps == ASSUME Inv, NEW c \in Callers, Call(c) PROVE Inv'
<1>1. left' \in [Callers -> 0 .. Requests] /\ calls' \in 0 .. MaxCalls
  <2>1. calls' \in 0 .. MaxCalls
    BY BoundsAssumption DEF Call, Inv, TypeOK
  <2>2. (IF c \notin Pollers THEN 0 ELSE IF left[c] = 0 THEN Requests - 1 ELSE left[c] - 1)
           \in 0 .. Requests
    BY BoundsAssumption DEF Inv, TypeOK
  <2>3. left' = [left EXCEPT ![c] = IF c \notin Pollers THEN 0
                                    ELSE IF left[c] = 0 THEN Requests - 1 ELSE left[c] - 1]
    BY DEF Call
  <2> QED
    BY <2>1, <2>2, <2>3 DEF Inv, TypeOK
<1>2. CASE auth = "none"
  <2>1. pc' = [pc EXCEPT ![c] = "probing"] /\ ~(mode = "plain" /\ trusted) /\ pc[c] = "idle"
    BY <1>2 DEF Call, Inv, PlainQuiet
  <2>2. UNCHANGED <<device, auth, cookie, jar, sent, used, tried, result, expired, reauth, raced, errors>>
    BY <1>2 DEF Call
  <2>3. TypeOK' /\ Tied'
    BY <1>1, <2>1, <2>2 DEF device, Inv, TypeOK, Tied
  <2>4. PlainQuiet' /\ FreshGood' /\ Accounted'
    BY <2>1, <2>2 DEF device, Inv, TypeOK, PlainQuiet, FreshGood, Accounted, Disturbances
  <2> QED
    BY <2>3, <2>4 DEF Inv
<1>3. CASE auth # "none"
  <2>1. Issue(c, auth) /\ auth \in Auths /\ pc[c] = "idle"
    BY <1>3 DEF Call, Inv, TypeOK
  <2>2. UNCHANGED <<device, auth, cookie, jar, tried, result, expired, reauth, raced, errors>>
    BY DEF Call
  <2>3. errors' >= errors /\ errors' \in 0 .. MaxErrors
    BY <2>2, BoundsAssumption DEF Inv, TypeOK
  <2>4. mode = "plain" /\ trusted => auth' = auth /\ auth = "plain"
    BY <2>2 DEF Inv, PlainQuiet
  <2> QED
    BY <1>1, <2>1, <2>2, <2>3, <2>4, IssueKeeps
<1> QED
  BY <1>2, <1>3

LEMMA ProbeKeeps ==
    ASSUME Inv, NEW c \in Callers, Probe(c) \/ ProbeUndecided(c)
    PROVE  Inv'
<1>1. pc[c] = "probing" /\ ~(mode = "plain" /\ trusted)
  BY DEF Probe, ProbeUndecided, Inv, PlainQuiet
<1>2. left' \in [Callers -> 0 .. Requests] /\ calls' \in 0 .. MaxCalls
  BY DEF Probe, ProbeUndecided, Inv, TypeOK
<1>3. UNCHANGED <<device, cookie, jar, tried, result, expired, reauth, raced>>
  BY DEF Probe, ProbeUndecided
<1>4. PICK a \in Auths : Issue(c, a) /\ auth' \in {auth, "plain", "noop"}
  BY DEF Probe, ProbeUndecided, Auths, Inv, TypeOK
<1>5. errors' >= errors /\ errors' \in 0 .. MaxErrors
  BY BoundsAssumption DEF Probe, ProbeUndecided, Inv, TypeOK
<1> QED
  BY <1>1, <1>2, <1>3, <1>4, <1>5, IssueKeeps

(* A request that ends in another way than with a 401.                     *)
LEMMA OverKeeps ==
    ASSUME Inv, NEW c \in Callers, NEW how \in Results, Over(c, how), UNCHANGED device,
           errors' \in 0 .. MaxErrors, errors' >= errors
    PROVE  Inv'
<1>1. /\ pc' = [pc EXCEPT ![c] = "idle"] /\ sent' = [sent EXCEPT ![c] = "none"]
      /\ used' = [used EXCEPT ![c] = "none"] /\ tried' = [tried EXCEPT ![c] = FALSE]
      /\ result' \in [Callers -> Results]
      /\ UNCHANGED <<left, calls, device, auth, cookie, jar, reauth, raced>>
  BY DEF Over, Ends, Inv, TypeOK
<1>2. expired' \in BOOLEAN /\ (expired' => expired)
  BY DEF Over, Inv, TypeOK
<1>3. errors' \in 0 .. MaxErrors /\ errors' >= errors
  OBVIOUS
<1>4. /\ Disturbances \in Nat /\ Disturbances' \in Nat /\ Disturbances' >= Disturbances
      /\ Disturbances' = 0 => Disturbances = 0
  <2>1. reboots \in Nat /\ errors \in Nat /\ errors' \in Nat
    BY <1>3, BoundsAssumption DEF Inv, TypeOK
  <2>2. Disturbances' = reboots + errors'
    BY <1>1 DEF Disturbances, device
  <2>3. Disturbances = reboots + errors /\ errors' >= errors
    BY <1>3 DEF Disturbances
  <2>4. reboots + errors' >= reboots + errors /\ reboots + errors' \in Nat /\ reboots + errors \in Nat
    BY <2>1, <2>3, Sums
  <2>5. \A m, n \in Nat : m >= n /\ m = 0 => n = 0
    OBVIOUS
  <2> HIDE DEF Disturbances
  <2> QED
    BY <2>2, <2>3, <2>4, <2>5
<1>5. TypeOK'
  <2>1. sent' \in [Callers -> Auths] /\ used' \in [Callers -> Cookies]
    BY <1>1 DEF Inv, TypeOK, Auths, Cookies
  <2>2. /\ pc' \in [Callers -> {"idle", "probing", "sent", "login", "resent"}]
        /\ tried' \in [Callers -> BOOLEAN]
    BY <1>1 DEF Inv, TypeOK
  <2> QED
    BY <1>1, <1>2, <1>3, <2>1, <2>2 DEF device, Inv, TypeOK
<1>6. Tied' /\ PlainQuiet'
  <2>1. Tied'
    BY <1>1 DEF Inv, Tied, TypeOK
  <2>2. PlainQuiet'
    <3> SUFFICES ASSUME mode = "plain", trusted
                 PROVE  PlainQuiet'
      BY <1>1 DEF device, PlainQuiet
    <3>1. /\ auth' = "plain" /\ ~expired' /\ ~reauth'
      BY <1>1, <1>2 DEF Inv, PlainQuiet
    <3>2. \A d \in Callers : pc'[d] = "idle" \/ (pc'[d] = "sent" /\ sent'[d] = "plain")
      <4> SUFFICES ASSUME NEW d \in Callers
                   PROVE  pc'[d] = "idle" \/ (pc'[d] = "sent" /\ sent'[d] = "plain")
        OBVIOUS
      <4>1. CASE d = c
        BY <1>1, <4>1 DEF Inv, TypeOK
      <4>2. CASE d # c
        <5>1. pc'[d] = pc[d] /\ sent'[d] = sent[d]
          BY <1>1, <4>2 DEF Inv, TypeOK
        <5> QED
          BY <5>1 DEF Inv, PlainQuiet
      <4> QED
        BY <4>1, <4>2
    <3> QED
      BY <3>1, <3>2 DEF PlainQuiet
  <2> QED
    BY <2>1, <2>2
<1>7. FreshGood'
  BY <1>1, <1>4 DEF device, Inv, FreshGood, TypeOK
<1>8. Accounted'
  <2> HIDE DEF Disturbances
  <2> QED
    BY <1>1, <1>2, <1>4 DEF device, Inv, Accounted, TypeOK
<1> QED
  BY <1>5, <1>6, <1>7, <1>8 DEF Inv

(* A request that is sent once more with a cookie that another caller has  *)
(* got for the same object, after an error of the login.                   *)
LEMMA BorrowKeeps ==
    ASSUME Inv, NEW c \in Callers, pc[c] = "login", Borrow(c), UNCHANGED device,
           \/ ~(mode = "session" /\ trusted) /\ errors' = errors
           \/ errors < MaxErrors /\ errors' = errors + 1
    PROVE  Inv'
<1>1. /\ pc' = [pc EXCEPT ![c] = "resent"] /\ used' = [used EXCEPT ![c] = cookie[sent[c]]]
      /\ sent[c] \in Objects
      /\ UNCHANGED <<mode, trusted, refusal, reboots, auth, cookie, jar, sent, tried, left, calls,
                     result, expired, reauth, raced>>
  BY DEF Borrow, device, Inv, Tied
<1>2. ~(mode = "plain" /\ trusted)
  BY DEF Inv, PlainQuiet
<1>3. mode = "session" /\ trusted => Disturbances' = Disturbances + 1
  BY BoundsAssumption DEF Inv, TypeOK, Disturbances, device
<1>4. Disturbances \in Nat
  BY BoundsAssumption DEF Disturbances, Inv, TypeOK
<1>5. TypeOK'
  <2>1. errors' \in 0 .. MaxErrors
    BY BoundsAssumption DEF Inv, TypeOK
  <2> QED
    BY <1>1, <2>1 DEF Inv, TypeOK
<1>6. Tied'
  BY <1>1 DEF Inv, TypeOK, Tied
<1>7. PlainQuiet' /\ FreshGood'
  BY <1>1, <1>2, <1>3, <1>4 DEF PlainQuiet, FreshGood
<1>8. Accounted'
  <2>1. mode = "session" /\ trusted /\ ~raced => Disturbances >= 1
    BY DEF Inv, Accounted
  <2> HIDE DEF Disturbances
  <2> QED
    BY <1>1, <1>3, <1>4, <2>1 DEF Inv, Accounted, TypeOK
<1> QED
  BY <1>5, <1>6, <1>7, <1>8 DEF Inv

(* A login that yields no session keeps the invariant, whatever it was     *)
(* answered with.                                                          *)
LEMMA NoSessionKeeps ==
    ASSUME Inv, NEW c \in Callers, NEW answer \in Refusals, NoSession(c, answer),
           pc[c] = "login", UNCHANGED device,
           \/ ~(mode = "session" /\ trusted) /\ errors' = errors
           \/ errors < MaxErrors /\ errors' = errors + 1
    PROVE  Inv'
<1>1. errors' \in 0 .. MaxErrors /\ errors' >= errors
  BY BoundsAssumption DEF Inv, TypeOK
<1>2. CASE Rejected(c)
  <2>1. Refused(c)
    BY DEF Refused
  <2> QED
    BY <1>2, <2>1, RejectedKeeps
<1>3. ASSUME NEW how \in Results, Over(c, how)
      PROVE  Inv'
  BY <1>1, <1>3, OverKeeps
<1>4. CASE Borrow(c)
  BY <1>4, BorrowKeeps
<1>5. {"ok", "error", "foreign"} \subseteq Results
  BY DEF Results
<1> QED
  BY <1>2, <1>3, <1>4, <1>5 DEF NoSession

LEMMA DropCookieKeeps == ASSUME Inv, NEW c \in Callers, DropCookie(c) PROVE Inv'
<1>1. /\ pc' = [pc EXCEPT ![c] = "login"] /\ sent[c] \in Objects
      /\ cookie' = [cookie EXCEPT ![sent[c]] = "none"]
      /\ UNCHANGED <<device, auth, jar, sent, used, tried, left, calls, result, expired,
                     reauth, raced, errors>>
  BY DEF DropCookie
<1>2. ~(mode = "plain" /\ trusted)
  BY DEF DropCookie, Accepted, Inv, PlainQuiet
<1>3. mode = "session" /\ trusted => Disturbances # 0
  BY DEF DropCookie, Accepted, Inv, FreshGood
<1>4. Disturbances \in Nat /\ Disturbances' = Disturbances
  BY <1>1, BoundsAssumption DEF device, Disturbances, Inv, TypeOK
<1>5. TypeOK' /\ Tied'
  BY <1>1 DEF device, Inv, TypeOK, Tied, Cookies
<1>6. PlainQuiet' /\ FreshGood'
  BY <1>1, <1>2, <1>3, <1>4 DEF device, PlainQuiet, FreshGood
<1>7. Accounted'
  <2> HIDE DEF Disturbances
  <2> QED
    BY <1>1, <1>3, <1>4 DEF device, Inv, Accounted, TypeOK
<1> QED
  BY <1>5, <1>6, <1>7 DEF Inv

LEMMA LoginKeeps == ASSUME Inv, NEW c \in Callers, Login(c) PROVE Inv'
<1>1. /\ pc' = [pc EXCEPT ![c] = "resent"] /\ pc[c] = "login" /\ mode = "session"
      /\ cookie' = [cookie EXCEPT ![sent[c]] = "good"] /\ jar' = "good"
      /\ used' = [used EXCEPT ![c] = "good"]
      /\ UNCHANGED <<device, auth, sent, tried, left, calls, result, expired, reauth, raced, errors>>
  BY DEF Login
<1>2. Disturbances' = Disturbances
  BY <1>1 DEF device, Disturbances
<1>3. TypeOK' /\ Tied'
  BY <1>1 DEF device, Inv, TypeOK, Tied, Cookies
<1>4. PlainQuiet'
  BY <1>1 DEF device, PlainQuiet
<1>5. FreshGood'
  BY <1>1, <1>2 DEF device, Inv, FreshGood, TypeOK
<1>6. Accounted'
  <2> HIDE DEF Disturbances
  <2> QED
    BY <1>1, <1>2 DEF device, Inv, Accounted, TypeOK
<1> QED
  BY <1>3, <1>4, <1>5, <1>6 DEF Inv

LEMMA UnchangedKeeps == ASSUME Inv, UNCHANGED vars PROVE Inv'
<1>1. UNCHANGED <<mode, trusted, refusal, reboots, auth, cookie, jar, pc, sent, used, tried, left, calls,
                  result, expired, reauth, raced, errors>>
  BY DEF vars, device, own
<1>2. TypeOK' /\ Tied'
  BY <1>1 DEF Inv, TypeOK, Tied
<1>3. PlainQuiet' /\ FreshGood' /\ Accounted'
  BY <1>1 DEF Inv, PlainQuiet, FreshGood, Accounted, Disturbances
<1> QED
  BY <1>2, <1>3 DEF Inv

LEMMA InitInv == Init => Inv
<1> SUFFICES ASSUME Init PROVE Inv
  OBVIOUS
<1> DEFINE first == CHOOSE o \in Objects : TRUE
<1>1. first \in Objects
  BY ObjectsAssumption
<1> HIDE DEF first
<1>2. PICK a \in Auths, k \in Cookies :
         /\ auth = a /\ jar = k /\ cookie = [o \in Objects |-> IF o = a THEN k ELSE "none"]
         /\ a \in {"plain", "noop", first}
         /\ \/ mode = "plain" /\ a = "plain" /\ k = "none"
            \/ mode = "session" /\ k = "good"
  BY <1>1 DEF Init, Settled, Cookies, Auths, first
<1>3. /\ trusted = TRUE /\ reboots = 0 /\ errors = 0 /\ calls = 0
      /\ expired = FALSE /\ reauth = FALSE /\ raced = FALSE /\ refusal \in Refusals
      /\ pc = [c \in Callers |-> "idle"] /\ sent = [c \in Callers |-> "none"]
      /\ used = [c \in Callers |-> "none"] /\ tried = [c \in Callers |-> FALSE]
      /\ left = [c \in Callers |-> 0] /\ result = [c \in Callers |-> "ok"]
  BY DEF Init
<1>4. TypeOK
  <2>1. cookie \in [Objects -> Cookies] /\ jar \in Cookies
    BY <1>2 DEF Cookies
  <2>2. sent \in [Callers -> Auths] /\ used \in [Callers -> Cookies]
    BY <1>3 DEF Auths, Cookies
  <2>3. 0 \in 0 .. MaxReboots /\ 0 \in 0 .. MaxErrors /\ 0 \in 0 .. MaxCalls /\ 0 \in 0 .. Requests
    BY BoundsAssumption
  <2>4. mode \in {"plain", "session"} /\ auth \in Auths
    BY <1>2
  <2>5. /\ pc \in [Callers -> {"idle", "probing", "sent", "login", "resent"}]
        /\ tried \in [Callers -> BOOLEAN] /\ left \in [Callers -> 0 .. Requests]
        /\ result \in [Callers -> Results]
    BY <1>3, <2>3 DEF Results
  <2> QED
    BY <1>3, <2>1, <2>2, <2>3, <2>4, <2>5 DEF TypeOK
<1>5. Tied /\ PlainQuiet /\ FreshGood /\ Accounted
  <2>1. Disturbances = 0
    BY <1>3 DEF Disturbances
  <2> HIDE DEF Disturbances
  <2>2. Tied /\ FreshGood /\ Accounted
    BY <1>2, <1>3, <2>1 DEF Tied, FreshGood, Accounted
  <2>3. PlainQuiet
    <3>1. mode = "plain" => auth = "plain"
      BY <1>2
    <3>2. ~expired /\ ~reauth /\ \A c \in Callers : pc[c] = "idle"
      BY <1>3
    <3> QED
      BY <3>1, <3>2, Zenon DEF PlainQuiet
  <2> QED
    BY <2>2, <2>3
<1> QED
  BY <1>4, <1>5 DEF Inv

THEOREM Invariance == Spec => []Inv
<1>1. Inv /\ [Next]_vars => Inv'
  <2> SUFFICES ASSUME Inv, [Next]_vars
               PROVE  Inv'
    OBVIOUS
  <2>1. CASE Reboot
    BY <2>1, RebootKeeps
  <2>2. CASE ChangePassword
    BY <2>2, ChangePasswordKeeps
  <2>3. ASSUME NEW c \in Callers, Call(c)
        PROVE  Inv'
    BY <2>3, CallKeeps
  <2>4. ASSUME NEW c \in Callers, Probe(c) \/ ProbeUndecided(c)
        PROVE  Inv'
    BY <2>4, ProbeKeeps
  <2>5. ASSUME NEW c \in Callers, Succeed(c) \/ Break(c)
        PROVE  Inv'
    <3>1. PICK how \in Results : Over(c, how)
      BY <2>5 DEF Succeed, Break, Results
    <3>2. UNCHANGED device /\ errors' \in 0 .. MaxErrors /\ errors' >= errors
      BY <2>5, BoundsAssumption DEF Succeed, Break, Inv, TypeOK
    <3> QED
      BY <3>1, <3>2, OverKeeps
  <2>6. ASSUME NEW c \in Callers, Refuse(c) \/ RefuseAgain(c)
        PROVE  Inv'
    <3>1. Rejected(c) /\ UNCHANGED device
      BY <2>6 DEF Refuse, RefuseAgain
    <3>2. Refused(c)
      BY <2>6 DEF Refuse, RefuseAgain, Refused
    <3> QED
      BY <3>1, <3>2, RejectedKeeps
  <2>7. ASSUME NEW c \in Callers, DropCookie(c)
        PROVE  Inv'
    BY <2>7, DropCookieKeeps
  <2>8. ASSUME NEW c \in Callers, Login(c)
        PROVE  Inv'
    BY <2>8, LoginKeeps
  <2>9. ASSUME NEW c \in Callers, LoginRefused(c)
        PROVE  Inv'
    <3>1. refusal \in Refusals
      BY DEF Inv, TypeOK
    <3> QED
      BY <2>9, <3>1, NoSessionKeeps DEF LoginRefused
  <2>10. ASSUME NEW c \in Callers, LoginFails(c)
         PROVE  Inv'
    BY <2>10, NoSessionKeeps DEF LoginFails
  <2>11. CASE UNCHANGED vars
    BY <2>11, UnchangedKeeps
  <2> QED
    BY <2>1, <2>2, <2>3, <2>4, <2>5, <2>6, <2>7, <2>8, <2>9, <2>10, <2>11 DEF Next, Progress
<1> QED
  BY InitInv, <1>1, PTL DEF Spec

(* Every variable keeps its type, and there is always an object for a new  *)
(* SessionLoginAuth.                                                       *)
THEOREM TypeCorrect == Spec => []TypeOK
<1>1. Inv => TypeOK
  BY DEF Inv
<1> QED
  BY <1>1, Invariance, PTL

(* Whoever polls, calls or listens, a reauthentication flow with the right *)
(* password takes a race for _auth_method, or three disturbances.          *)
THEOREM ReauthNeedsReason == Spec => []ReauthExplained
<1>1. Inv => ReauthExplained
  BY BoundsAssumption DEF Inv, TypeOK, PlainQuiet, Accounted, ReauthExplained, Disturbances
<1> QED
  BY <1>1, Invariance, PTL
=============================================================================
