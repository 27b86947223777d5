---------------------------- MODULE CookieRotation ----------------------------
(***************************************************************************)
(* Several servers that share a session store and the keys of its cookies, *)
(* while the keys are rotated as docs/session/security.md says:            *)
(*                                                                         *)
(*   1. add the new key while retaining the old key;                       *)
(*   2. make the new key active for new cookies;                           *)
(*   3. accept old configured keys during the migration window;            *)
(*   4. remove the old key after its cookie lifetime.                      *)
(*                                                                         *)
(* A server gets a new configuration by being restarted with it.  How many *)
(* times that happened is its stage: the rotation from version v to v + 1  *)
(* adds a key at stage 3v + 1, makes it active at 3v + 2, and drops the    *)
(* old one at 3v + 3.  With CookieKeyVersion set (pinned), servers follow  *)
(* one by one; left to the default, the highest version is active as soon  *)
(* as a server has it, so all are restarted together.                      *)
(*                                                                         *)
(* Store and sessions are those of Sessioned; here every session lives, so *)
(* that a session is lost only if its cookie is refused.                   *)
(***************************************************************************)
EXTENDS SignedCookie

CONSTANTS
    Servers,      \* servers behind one address
    Clients,      \* user agents
    LastVersion,  \* the last key version rotated to
    SecretOf,     \* the secret of each key version
    MaxSkew,      \* how far a server's clock may run ahead
    Start,        \* the time when the first rotation begins
    LegacyTimes,  \* times at which version 1 cookies were signed before
    MaxClock,     \* bound: time stands still from here on
    NoCookie      \* an empty jar

Versions == 0..LastVersion

LastStage == 3 * LastVersion

Jar == [cookie : Cookie, since : Int]

ASSUME RotationAssumption ==
    /\ LastVersion \in Nat
    /\ SecretOf \in [Versions -> Secrets]
    /\ \A v, w \in Versions : SecretOf[v] = SecretOf[w] => v = w
    /\ MaxSkew \in Nat
    /\ Start \in Nat
    /\ MaxAge <= Start
    /\ LegacyTimes \subseteq 0..Start
    /\ MaxClock \in Nat
    /\ Servers # {}
ASSUME JarAssumption == NoCookie \notin Jar

VARIABLES
    pinned,     \* is CookieKeyVersion set?
    stage,      \* the configurations each server has been through
    skew,       \* how far each server's clock is ahead
    jar,        \* each client's cookie, and when it was signed
    clock,      \* the time
    activated   \* when the last server made the newest active key active

vars == <<pinned, stage, skew, jar, clock, activated>>

\* The key versions a server is configured with, and the one that signs.
Held(st) == {v \in Versions : 3 * v - 2 <= st /\ st <= 3 * v + 2}

Chosen(st) == CHOOSE v \in Versions : 3 * v - 1 <= st /\ st <= 3 * v + 1

\* The first key was configured as CookieSecret, later ones by version.
ConfigAt(st) ==
    WithProperties(Unset,
        [secret  |-> IF 0 \in Held(st) THEN SecretOf[0] ELSE NoSecret,
         secrets |-> [v \in Held(st) \ {0} |-> SecretOf[v]],
         pin     |-> IF pinned THEN Chosen(st) ELSE NoVersion])

Now(s) == clock + skew[s]

\* Jars may hold version 1 cookies, or bare ids from before signing was on.
Init ==
    /\ pinned \in BOOLEAN
    /\ stage = [s \in Servers |-> 0]
    /\ skew \in [Servers -> 0..MaxSkew]
    /\ jar \in [Clients ->
           {NoCookie}
           \cup {[cookie |-> Unsigned("raw"), since |-> Start]}
           \cup {[cookie |-> LegacyValue(SecretOf[0], Timestamp(t)), since |-> t] :
                     t \in LegacyTimes}]
    /\ clock = Start
    /\ activated = Start

----------------------------------------------------------------------------

\* Does server s find a session id in client c's cookie?
Recognised(c, s) ==
    /\ jar[c] # NoCookie
    /\ Accepts(ConfigAt(stage[s]), jar[c].cookie, Now(s))

\* The session is found, and the response sets no cookie.
SessionKept(c, s) ==
    /\ Recognised(c, s)
    /\ UNCHANGED vars

\* No cookie, or one that is refused: a new session in a new cookie.
SessionReplaced(c, s) ==
    /\ ~Recognised(c, s)
    /\ jar' = [jar EXCEPT ![c] = [cookie |-> SessionCookie(ConfigAt(stage[s]), Now(s)),
                                  since |-> clock]]
    /\ UNCHANGED <<pinned, stage, skew, clock, activated>>

\* The browser is closed, its cookies are cleared, or Max-Age is over.
Forget(c) ==
    /\ jar[c] # NoCookie
    /\ jar' = [jar EXCEPT ![c] = NoCookie]
    /\ UNCHANGED <<pinned, stage, skew, clock, activated>>

\* The step from this stage makes a new key active.
Activates(st) ==
    \E v \in Versions : st = IF pinned THEN 3 * v + 1 ELSE 3 * v

\* The step from this stage removes a key.
Retires(st) == \E v \in Versions : st = 3 * v + 2

\* The operator waits for all servers to reach a stage before the next one
\* begins, and for the lifetime of cookies before a key goes.
MayLeave(st) ==
    /\ st < LastStage
    /\ \A s \in Servers : stage[s] >= st
    /\ Retires(st) => clock > activated + MaxAge

Deploy(s) ==
    /\ pinned
    /\ MayLeave(stage[s])
    /\ stage' = [stage EXCEPT ![s] = @ + 1]
    /\ activated' = IF Activates(stage[s]) THEN clock ELSE activated
    /\ UNCHANGED <<pinned, skew, jar, clock>>

DeployAll ==
    /\ ~pinned
    /\ \A s \in Servers : MayLeave(stage[s])
    /\ stage' = [s \in Servers |-> stage[s] + 1]
    /\ activated' = IF \E s \in Servers : Activates(stage[s])
                    THEN clock ELSE activated
    /\ UNCHANGED <<pinned, skew, jar, clock>>

Tick ==
    /\ clock < MaxClock
    /\ clock' = clock + 1
    /\ UNCHANGED <<pinned, stage, skew, jar, activated>>

Next ==
    \/ \E c \in Clients, s \in Servers : SessionKept(c, s) \/ SessionReplaced(c, s)
    \/ \E c \in Clients : Forget(c)
    \/ \E s \in Servers : Deploy(s)
    \/ DeployAll \/ Tick

Spec == Init /\ [][Next]_vars

----------------------------------------------------------------------------
(* Properties.                                                             *)

(* The variables keep their types; what a server signs carries a whole     *)
(* second and the secret of its version, and is never the empty value.     *)
TypeOK ==
    /\ pinned \in BOOLEAN
    /\ stage \in [Servers -> 0..LastStage]
    /\ skew \in [Servers -> 0..MaxSkew]
    /\ jar \in [Clients -> {NoCookie} \cup Jar]
    /\ clock \in Nat
    /\ activated \in Nat
    /\ \A c \in Clients : jar[c] # NoCookie =>
           LET cookie == jar[c].cookie
           IN  /\ cookie.format \in {"raw", "v1", "v2"}
               /\ cookie.time % Second = 0
               /\ cookie.format = "v2" => /\ cookie.version \in Versions
                                         /\ cookie.secret = SecretOf[cookie.version]

(* A rotation logs nobody out: whichever server a client comes to, and     *)
(* however far each of them is with the rotation, its signed cookie is     *)
(* accepted for the whole of MaxAge, less the second that the timestamp    *)
(* may lose and the difference between two clocks.                         *)
SessionsSurviveRotation ==
    \A c \in Clients, s \in Servers :
        (/\ jar[c] # NoCookie
         /\ jar[c].cookie.format # "raw"
         /\ clock - jar[c].since <= MaxAge - Second - MaxSkew) => Recognised(c, s)

(* No server accepts a cookie that was signed more than MaxAge ago, as far *)
(* as their clocks agree.                                                  *)
NoneOutlivesMaxAge ==
    \A c \in Clients, s \in Servers :
        Recognised(c, s) => clock - jar[c].since <= MaxAge + MaxSkew
===============================================================================
