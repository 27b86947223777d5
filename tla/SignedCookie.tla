----------------------------- MODULE SignedCookie -----------------------------
(***************************************************************************)
(* What a session cookie is made of and when a server takes it:            *)
(* security/signedcookie.go, and the functions of middleware/session.go    *)
(* that choose its keys.  Everything here is a function of the             *)
(* configuration, the cookie and the time.                                 *)
(*                                                                         *)
(* Time is in ticks, a fraction of a second, because the code mixes whole  *)
(* seconds (the timestamp in the cookie) with a finer clock (now).  A MAC  *)
(* verifies exactly if it was made with the same secret.  The name of the  *)
(* cookie and the id it carries are the same on both sides and left out.   *)
(***************************************************************************)
EXTENDS Integers

CONSTANTS
    Secrets,    \* keys that are not empty
    NoSecret,   \* the empty key
    NoVersion,  \* CookieKeyVersion is nil
    Second,     \* ticks per second
    MaxAge,     \* CookieMaxAge
    MaxFuture   \* maxCookieFuture, for version 1 values only

ASSUME CookieAssumption ==
    /\ NoSecret \notin Secrets
    /\ NoVersion \notin Int
    /\ Second \in Nat \ {0}
    /\ MaxAge \in Nat
    /\ MaxFuture \in Nat

\* The cookie's part of EngineProperties: CookieSecret, CookieSecrets and
\* CookieKeyVersion.
Unset == [secret |-> NoSecret, secrets |-> [v \in {} |-> NoSecret],
          pin |-> NoVersion]

\* Only what p sets is taken over.
WithProperties(base, p) ==
    [secret  |-> IF p.secret # NoSecret THEN p.secret ELSE base.secret,
     secrets |-> IF DOMAIN p.secrets # {} THEN p.secrets ELSE base.secrets,
     pin     |-> IF p.pin # NoVersion THEN p.pin ELSE base.pin]

\* Faulty variant of CookieSecrets: CookieSecret counts only on its own.
VersionedOnly(p) ==
    IF DOMAIN p.secrets # {} THEN p.secrets ELSE [v \in {0} |-> p.secret]

\* The keys by version: CookieSecret is version 0, unless there is one.
CookieSecrets(p) ==
    [v \in DOMAIN p.secrets \cup (IF p.secret # NoSecret THEN {0} ELSE {}) |->
        IF v \in DOMAIN p.secrets THEN p.secrets[v] ELSE p.secret]

Usable(keys) == {v \in DOMAIN keys : keys[v] # NoSecret}

\* Faulty variant of Active: CookieKeyVersion is ignored.
ActiveUnpinned(p) ==
    LET usable == Usable(CookieSecrets(p))
    IN  {v \in usable : \A w \in usable : w <= v}

\* activeCookieSecret: the version that signs, or none.  The code looks for
\* the highest version in map order; which order it is makes no difference.
Active(p) ==
    LET usable == Usable(CookieSecrets(p))
    IN  IF p.pin # NoVersion
        THEN usable \cap {p.pin}
        ELSE {v \in usable : \A w \in usable : w <= v}

----------------------------------------------------------------------------
(* Cookies: the bare id, nothing at all, or a value signed in either of    *)
(* Tornado's formats.  Version 1 names no key; its field says NoVersion.   *)

Cookie == [format : {"raw", "empty", "v1", "v2"}, version : Int \cup {NoVersion},
           secret : Secrets \cup {NoSecret}, time : Int]

Unsigned(format) ==
    [format |-> format, version |-> NoVersion, secret |-> NoSecret, time |-> 0]

LegacyValue(secret, time) ==
    [format |-> "v1", version |-> NoVersion, secret |-> secret, time |-> time]

\* Faulty variant of Timestamp: rounded up to a second that is still to come.
TimestampRoundedUp(now) == now + (Second - 1) - ((now + (Second - 1)) % Second)

\* Faulty variant of Timestamp: not converted to seconds.
TimestampExact(now) == now

\* now.Unix(): the last full second.
Timestamp(now) == now - (now % Second)

SignedValue(secret, version, now) ==
    [format |-> "v2", version |-> version, secret |-> secret,
     time |-> Timestamp(now)]

\* Without keys the id goes out as it is; without an active key, nothing does.
SessionCookie(p, now) ==
    LET keys == CookieSecrets(p)
    IN  IF DOMAIN keys = {} THEN Unsigned("raw")
        ELSE IF Active(p) = {} THEN Unsigned("empty")
        ELSE LET version == CHOOSE v \in Active(p) : TRUE
             IN  SignedValue(keys[version], version, now)

ValidTimestamp(time, now) == time >= 0 /\ time >= now - MaxAge

\* "0" is the only non-negative number that begins with a zero.
ValidV1Timestamp(time, now) ==
    time # 0 /\ ValidTimestamp(time, now) /\ time <= now + MaxFuture

\* Every configured key is tried, an empty one too.
DecodesV1(keys, value, now) ==
    /\ \E v \in DOMAIN keys : keys[v] = value.secret
    /\ ValidV1Timestamp(value.time, now)

DecodesV2(keys, value, now) ==
    /\ value.version >= 0
    /\ value.version \in Usable(keys)
    /\ ValidTimestamp(value.time, now)
    /\ keys[value.version] = value.secret

\* A bare id is taken for a malformed version 1 value.
Decodes(keys, value, now) ==
    \/ value.format = "v1" /\ DecodesV1(keys, value, now)
    \/ value.format = "v2" /\ DecodesV2(keys, value, now)

\* Does sessionIDFromCookie find a session id in the cookie?
Accepts(p, value, now) ==
    LET keys == CookieSecrets(p)
    IN  DOMAIN keys = {} \/ Decodes(keys, value, now)
===============================================================================
