------------------------- MODULE CookieRotationProofs -------------------------
(***************************************************************************)
(* Theorems about CookieRotation, for any servers, clients, clocks and     *)
(* number of rotations.                                                    *)
(*                                                                         *)
(* The argument: servers are never more than one stage apart (InStep), so  *)
(* what one of them signs with, all of them hold; and a key is only        *)
(* dropped when every cookie it signed is older than MaxAge, because it    *)
(* has not signed since `activated' (SignedBefore).                        *)
(***************************************************************************)
EXTENDS CookieRotation, TLAPS

(* What the configuration of a stage amounts to.                           *)

\* The version a server signs with at a stage.
Signs(v, st) ==
    IF pinned THEN 3 * v - 1 <= st /\ st <= 3 * v + 1
              ELSE 3 * v - 2 <= st /\ st <= 3 * v

\* Timestamps are whole seconds and lose less than one.
LEMMA TimestampLemma ==
    ASSUME NEW now \in Int
    PROVE  /\ Timestamp(now) \in Int
           /\ Timestamp(now) <= now
           /\ now - Second < Timestamp(now)
           /\ Timestamp(now) % Second = 0
<1>1. Second \in Nat \ {0}
  BY CookieAssumption
<1>2. now % Second \in 0..(Second - 1)
  BY <1>1, SMT
<1>3. (now - (now % Second)) % Second = 0
  BY <1>1, SMT
<1> QED
  BY <1>1, <1>2, <1>3 DEF Timestamp

\* Rotation chooses a version at every stage.
LEMMA ChosenLemma ==
    ASSUME NEW st \in 0..LastStage
    PROVE  /\ Chosen(st) \in Versions
           /\ 3 * Chosen(st) - 1 <= st
           /\ st <= 3 * Chosen(st) + 1
<1> DEFINE v == (st + 1) \div 3
<1>1. LastVersion \in Nat
  BY RotationAssumption
<1>2. v \in Versions /\ 3 * v - 1 <= st /\ st <= 3 * v + 1
  BY <1>1, SMT DEF Versions, LastStage
<1> QED
  BY <1>2 DEF Chosen

\* The highest version a server holds, which signs by default.
LEMMA HighestLemma ==
    ASSUME NEW st \in 0..LastStage
    PROVE  \E v \in Held(st) : \A w \in Held(st) : w <= v
<1> DEFINE v == (st + 2) \div 3
<1>1. LastVersion \in Nat
  BY RotationAssumption
<1>2. v \in Versions /\ 3 * v - 2 <= st /\ st <= 3 * v
  BY <1>1, SMT DEF Versions, LastStage
<1>3. v \in Held(st)
  BY <1>1, <1>2 DEF Held, Versions
<1>4. ASSUME NEW w \in Held(st)
      PROVE  w <= v
  BY <1>1, <1>2 DEF Held, Versions
<1> QED
  BY <1>3, <1>4

\* A server's keys are those of the versions it holds, CookieSecret included.
LEMMA KeysLemma ==
    ASSUME NEW st \in 0..LastStage
    PROVE  /\ CookieSecrets(ConfigAt(st)) = [v \in Held(st) |-> SecretOf[v]]
           /\ Usable(CookieSecrets(ConfigAt(st))) = Held(st)
           /\ ConfigAt(st).pin = IF pinned THEN Chosen(st) ELSE NoVersion
<1> DEFINE given == [secret  |-> IF 0 \in Held(st) THEN SecretOf[0] ELSE NoSecret,
                     secrets |-> [v \in Held(st) \ {0} |-> SecretOf[v]],
                     pin     |-> IF pinned THEN Chosen(st) ELSE NoVersion]
           config == ConfigAt(st)
<1>1. Held(st) \subseteq Versions /\ \A v \in Versions : SecretOf[v] \in Secrets
  BY RotationAssumption DEF Held
<1>2. NoSecret \notin Secrets
  BY CookieAssumption
<1>3. config.secret = given.secret
  BY DEF ConfigAt, WithProperties, Unset
<1>4. config.pin = given.pin
  BY DEF ConfigAt, WithProperties, Unset
<1>5. config.secrets = given.secrets
  <2>1. CASE Held(st) \ {0} = {}
    BY <2>1 DEF ConfigAt, WithProperties, Unset
  <2>2. CASE Held(st) \ {0} # {}
    BY <2>2 DEF ConfigAt, WithProperties, Unset
  <2> QED
    BY <2>1, <2>2
<1>6. DOMAIN config.secrets = Held(st) \ {0}
  BY <1>5
<1>7. config.secret # NoSecret <=> 0 \in Held(st)
  BY <1>1, <1>2, <1>3
<1>8. DOMAIN config.secrets \cup (IF config.secret # NoSecret THEN {0} ELSE {})
          = Held(st)
  BY <1>6, <1>7
<1>9. ASSUME NEW v \in Held(st)
      PROVE  (IF v \in DOMAIN config.secrets THEN config.secrets[v]
                                             ELSE config.secret) = SecretOf[v]
  BY <1>3, <1>5, <1>6
<1>10. CookieSecrets(config) = [v \in Held(st) |-> SecretOf[v]]
  BY <1>8, <1>9 DEF CookieSecrets
<1>11. Usable(CookieSecrets(config)) = Held(st)
  BY <1>1, <1>2, <1>10 DEF Usable
<1> QED
  BY <1>4, <1>10, <1>11

\* There is an active version, and it is the one of the stage.
LEMMA ActiveLemma ==
    ASSUME NEW st \in 0..LastStage, pinned \in BOOLEAN
    PROVE  /\ Active(ConfigAt(st)) # {}
           /\ \A v \in Active(ConfigAt(st)) :
                  v \in Versions /\ v \in Held(st) /\ Signs(v, st)
<1>0. LastVersion \in Nat /\ Versions \subseteq Int
  BY RotationAssumption DEF Versions
<1>1. CASE pinned
  <2>1. Chosen(st) \in Held(st) /\ Signs(Chosen(st), st)
    BY <1>0, <1>1, ChosenLemma DEF Held, Signs, Versions
  <2>2. Chosen(st) # NoVersion
    BY <1>0, ChosenLemma, CookieAssumption
  <2>3. Active(ConfigAt(st)) = {Chosen(st)}
    BY <1>1, <2>1, <2>2, KeysLemma DEF Active
  <2> QED
    BY <2>1, <2>3, ChosenLemma
<1>2. CASE ~pinned
  <2>1. Active(ConfigAt(st)) = {v \in Held(st) : \A w \in Held(st) : w <= v}
    BY <1>2, KeysLemma DEF Active
  <2>2. ASSUME NEW v \in Held(st), \A w \in Held(st) : w <= v
        PROVE  Signs(v, st)
    <3>1. v \in Versions /\ 3 * v - 2 <= st
      BY DEF Held
    <3>2. SUFFICES ASSUME 3 * v < st
                   PROVE  FALSE
      BY <1>0, <1>2, <3>1 DEF Signs, Versions, LastStage
    <3>3. v + 1 \in Held(st)
      BY <1>0, <2>2, <3>1, <3>2 DEF Held, Versions, LastStage
    <3> QED
      BY <1>0, <2>2, <3>1, <3>3 DEF Versions
  <2> QED
    BY <2>1, <2>2, HighestLemma DEF Held
<1> QED
  BY <1>1, <1>2

\* What a server signs at a stage.
LEMMA SignedLemma ==
    ASSUME NEW st \in 0..LastStage, NEW now \in Int, pinned \in BOOLEAN
    PROVE  \E v \in Held(st) :
               /\ v \in Versions
               /\ Signs(v, st)
               /\ SessionCookie(ConfigAt(st), now) = SignedValue(SecretOf[v], v, now)
<1> DEFINE config == ConfigAt(st)
           v == CHOOSE w \in Active(config) : TRUE
<1>1. v \in Active(config) /\ v \in Versions /\ v \in Held(st) /\ Signs(v, st)
  BY ActiveLemma
<1>2. DOMAIN CookieSecrets(config) # {} /\ CookieSecrets(config)[v] = SecretOf[v]
  BY <1>1, KeysLemma
<1>3. Active(config) # {}
  BY <1>1
<1>4. SessionCookie(config, now) = SignedValue(SecretOf[v], v, now)
  BY <1>2, <1>3 DEF SessionCookie
<1> QED
  BY <1>1, <1>4

----------------------------------------------------------------------------
(* Types.                                                                  *)

THEOREM TypeInitial == Init => TypeOK
<1> SUFFICES ASSUME Init PROVE TypeOK
  OBVIOUS
<1>1. /\ Start \in Nat /\ LastVersion \in Nat /\ MaxSkew \in Nat
      /\ LegacyTimes \subseteq Int
      /\ SecretOf[0] \in Secrets
      /\ Second \in Nat \ {0}
  BY RotationAssumption, CookieAssumption DEF Versions
<1>2. stage \in [Servers -> 0..LastStage]
  BY <1>1 DEF Init, LastStage
<1>3. 0 % Second = 0
  BY <1>1, SMT
<1>4. ASSUME NEW t \in LegacyTimes
      PROVE  /\ [cookie |-> LegacyValue(SecretOf[0], Timestamp(t)), since |-> t] \in Jar
             /\ Timestamp(t) % Second = 0
  BY <1>1, TimestampLemma DEF Jar, Cookie, LegacyValue
<1>5. [cookie |-> Unsigned("raw"), since |-> Start] \in Jar
  BY <1>1 DEF Jar, Cookie, Unsigned
<1>6. ASSUME NEW c \in Clients
      PROVE  /\ jar[c] \in {NoCookie} \cup Jar
             /\ jar[c] # NoCookie =>
                    /\ jar[c].cookie.format \in {"raw", "v1"}
                    /\ jar[c].cookie.time % Second = 0
  BY <1>3, <1>4, <1>5 DEF Init, Unsigned, LegacyValue
<1>7. jar \in [Clients -> {NoCookie} \cup Jar]
  BY <1>6 DEF Init
<1> QED
  BY <1>1, <1>2, <1>6, <1>7 DEF Init, TypeOK

\* The cookie of a new session.
LEMMA ReplacedLemma ==
    ASSUME TypeOK, NEW c \in Clients, NEW s \in Servers, SessionReplaced(c, s)
    PROVE  \E v \in Held(stage[s]) :
               /\ v \in Versions
               /\ Signs(v, stage[s])
               /\ jar' = [jar EXCEPT ![c] =
                             [cookie |-> SignedValue(SecretOf[v], v, Now(s)),
                              since |-> clock]]
<1>1. stage[s] \in 0..LastStage /\ Now(s) \in Int /\ pinned \in BOOLEAN
  BY RotationAssumption DEF TypeOK, Now
<1> QED
  BY <1>1, SignedLemma DEF SessionReplaced

THEOREM TypeStep == TypeOK /\ [Next]_vars => TypeOK'
<1> SUFFICES ASSUME TypeOK, [Next]_vars PROVE TypeOK'
  OBVIOUS
<1>0. LastVersion \in Nat /\ LastStage \in Nat /\ MaxSkew \in Nat
  BY RotationAssumption DEF LastStage
<1>1. ASSUME NEW c \in Clients, NEW s \in Servers, SessionReplaced(c, s)
      PROVE  TypeOK'
  <2>1. PICK v \in Held(stage[s]) :
            /\ v \in Versions
            /\ jar' = [jar EXCEPT ![c] =
                          [cookie |-> SignedValue(SecretOf[v], v, Now(s)),
                           since |-> clock]]
    BY <1>1, ReplacedLemma
  <2>2. Now(s) \in Int /\ clock \in Int
    BY <1>0 DEF TypeOK, Now
  <2> DEFINE new == SignedValue(SecretOf[v], v, Now(s))
  <2>3. /\ new \in Cookie
        /\ new.format = "v2"
        /\ new.time % Second = 0
        /\ new.version = v
        /\ new.secret = SecretOf[v]
    BY <1>0, <2>1, <2>2, TimestampLemma, RotationAssumption
    DEF SignedValue, Cookie, Versions
  <2>4. /\ UNCHANGED <<pinned, stage, skew, clock, activated>>
        /\ jar' \in [Clients -> {NoCookie} \cup Jar]
    BY <1>1, <2>1, <2>2, <2>3 DEF SessionReplaced, TypeOK, Jar
  <2>5. \A d \in Clients : jar'[d] = IF d = c THEN [cookie |-> new, since |-> clock]
                                              ELSE jar[d]
    BY <2>1 DEF TypeOK
  <2> QED
    BY <2>1, <2>3, <2>4, <2>5 DEF TypeOK
<1>2. ASSUME NEW c \in Clients, Forget(c)
      PROVE  TypeOK'
  BY <1>2 DEF Forget, TypeOK
<1>3. ASSUME NEW s \in Servers, Deploy(s)
      PROVE  TypeOK'
  BY <1>0, <1>3 DEF Deploy, MayLeave, TypeOK
<1>4. ASSUME DeployAll
      PROVE  TypeOK'
  BY <1>0, <1>4 DEF DeployAll, MayLeave, TypeOK
<1>5. ASSUME Tick
      PROVE  TypeOK'
  BY <1>5 DEF Tick, TypeOK
<1>6. ASSUME UNCHANGED vars
      PROVE  TypeOK'
  BY <1>6 DEF vars, TypeOK
<1> QED
  BY <1>1, <1>2, <1>3, <1>4, <1>5, <1>6 DEF Next, SessionKept

(* The variables of CookieRotation keep their types, and every signed      *)
(* cookie carries a whole second and the secret of its version.            *)
THEOREM TypeCorrect == Spec => []TypeOK
  BY TypeInitial, TypeStep, PTL DEF Spec

----------------------------------------------------------------------------
(* The inductive invariant.                                                *)

Signed(c) == jar[c] # NoCookie /\ jar[c].cookie.format # "raw"

\* The version whose secret signed a client's cookie.
KeyOf(c) == IF jar[c].cookie.format = "v1" THEN 0 ELSE jar[c].cookie.version

\* Servers are never more than a stage apart.
InStep ==
    \A s, t \in Servers : /\ stage[s] <= stage[t] + 1
                          /\ ~pinned => stage[s] = stage[t]

\* The timestamp of a cookie is that of its signing, less a second at most.
Dated ==
    /\ Start <= clock
    /\ activated <= clock
    /\ \A c \in Clients : jar[c] # NoCookie => jar[c].since \in 0..clock
    /\ \A c \in Clients : Signed(c) =>
           /\ KeyOf(c) \in Versions
           /\ jar[c].cookie.secret = SecretOf[KeyOf(c)]
           /\ jar[c].cookie.time <= jar[c].since + MaxSkew
           /\ jar[c].since - Second < jar[c].cookie.time
           /\ jar[c].cookie.format = "v1" => jar[c].cookie.time <= clock

\* The step that makes the version after v active is over.
Superseded(v, st) == IF pinned THEN 3 * v + 2 <= st ELSE 3 * v + 1 <= st

\* A version that no server signs with any more has not signed since then.
SignedBefore ==
    \A c \in Clients :
        (Signed(c) /\ \A s \in Servers : Superseded(KeyOf(c), stage[s]))
            => jar[c].since <= activated

\* The key of a cookie that has not outlived MaxAge is known everywhere.
KeysInHand ==
    \A c \in Clients, s \in Servers :
        (Signed(c) /\ clock - jar[c].since <= MaxAge) => KeyOf(c) \in Held(stage[s])

RotationInv == TypeOK /\ InStep /\ Dated /\ SignedBefore /\ KeysInHand

LEMMA ConstantsLemma ==
    /\ LastVersion \in Nat /\ LastStage \in Nat /\ LastStage = 3 * LastVersion
    /\ Versions = 0..LastVersion
    /\ MaxSkew \in Nat /\ MaxAge \in Nat /\ Second \in Nat \ {0} /\ Start \in Nat
    /\ MaxFuture \in Nat
  BY RotationAssumption, CookieAssumption DEF LastStage, Versions

THEOREM RotationInitial == Init => RotationInv
<1> SUFFICES ASSUME Init PROVE RotationInv
  OBVIOUS
<1>1. TypeOK
  BY TypeInitial
<1>2. InStep
  BY DEF Init, InStep
<1>3. ASSUME NEW c \in Clients, jar[c] # NoCookie
      PROVE  /\ jar[c].since \in 0..Start
             /\ Signed(c) =>
                    /\ jar[c].cookie.format = "v1"
                    /\ jar[c].cookie.secret = SecretOf[0]
                    /\ jar[c].cookie.time = Timestamp(jar[c].since)
  BY <1>3, RotationAssumption DEF Init, Signed, Unsigned, LegacyValue
<1>4. ASSUME NEW c \in Clients, jar[c] # NoCookie
      PROVE  /\ Timestamp(jar[c].since) <= jar[c].since
             /\ jar[c].since - Second < Timestamp(jar[c].since)
             /\ Timestamp(jar[c].since) \in Int
  <2>1. jar[c].since \in Int
    BY <1>3, <1>4, ConstantsLemma
  <2> QED
    BY <2>1, TimestampLemma
<1>5. Dated
  BY <1>3, <1>4, ConstantsLemma DEF Init, Dated, Signed, KeyOf
<1>6. SignedBefore
  BY <1>3, ConstantsLemma DEF Init, SignedBefore, Signed
<1>7. KeysInHand
  BY <1>3, ConstantsLemma DEF Init, KeysInHand, Signed, KeyOf, Held
<1> QED
  BY <1>1, <1>2, <1>5, <1>6, <1>7 DEF RotationInv

\* A new session's cookie keeps the invariant: all servers hold its key.
LEMMA ReplacedKeeps ==
    ASSUME RotationInv, NEW c \in Clients, NEW s \in Servers, SessionReplaced(c, s)
    PROVE  (InStep /\ Dated /\ SignedBefore /\ KeysInHand)'
<1> USE DEF RotationInv
<1>1. PICK v \in Held(stage[s]) :
          /\ v \in Versions
          /\ Signs(v, stage[s])
          /\ jar' = [jar EXCEPT ![c] =
                        [cookie |-> SignedValue(SecretOf[v], v, Now(s)),
                         since |-> clock]]
  BY ReplacedLemma
<1>2. UNCHANGED <<pinned, stage, skew, clock, activated>>
  BY DEF SessionReplaced
<1>3. /\ jar'[c] # NoCookie
      /\ jar'[c].since = clock
      /\ jar'[c].cookie.format = "v2"
      /\ jar'[c].cookie.version = v
      /\ jar'[c].cookie.secret = SecretOf[v]
      /\ jar'[c].cookie.time = Timestamp(Now(s))
  <2>1. jar'[c] = [cookie |-> SignedValue(SecretOf[v], v, Now(s)), since |-> clock]
    BY <1>1 DEF TypeOK
  <2>2. jar'[c] \in Jar
    <3>1. Now(s) \in Int /\ clock \in Int
      BY ConstantsLemma DEF TypeOK, Now
    <3>2. v \in Int /\ SecretOf[v] \in Secrets /\ Timestamp(Now(s)) \in Int
      BY <1>1, <3>1, TimestampLemma, RotationAssumption DEF Versions
    <3> QED
      BY <2>1, <3>1, <3>2 DEF SignedValue, Cookie, Jar
  <2>3. jar'[c] # NoCookie
    BY <2>2, JarAssumption
  <2> QED
    BY <2>1, <2>3 DEF SignedValue
<1>4. \A d \in Clients \ {c} : jar'[d] = jar[d]
  BY <1>1 DEF TypeOK
<1>5. /\ Signed(c)' /\ KeyOf(c)' = v
      /\ \A d \in Clients \ {c} : /\ Signed(d)' <=> Signed(d)
                                  /\ KeyOf(d)' = KeyOf(d)
  BY <1>3, <1>4 DEF Signed, KeyOf
<1>6. InStep'
  BY <1>2 DEF InStep
<1>7. Dated'
  <2>1. Now(s) \in Int /\ clock <= Now(s) /\ Now(s) <= clock + MaxSkew
    BY ConstantsLemma DEF TypeOK, Now
  <2>2. /\ Timestamp(Now(s)) <= Now(s)
        /\ Now(s) - Second < Timestamp(Now(s))
        /\ Timestamp(Now(s)) \in Int
    BY <2>1, TimestampLemma
  <2>3. (Start <= clock /\ activated <= clock)'
    BY <1>2 DEF Dated
  <2>4. ASSUME NEW d \in Clients, jar'[d] # NoCookie
        PROVE  jar'[d].since \in 0..clock'
    BY <1>2, <1>3, <1>4, <2>4 DEF Dated, TypeOK
  <2>5. ASSUME NEW d \in Clients, Signed(d)'
        PROVE  (/\ KeyOf(d) \in Versions
                /\ jar[d].cookie.secret = SecretOf[KeyOf(d)]
                /\ jar[d].cookie.time <= jar[d].since + MaxSkew
                /\ jar[d].since - Second < jar[d].cookie.time
                /\ jar[d].cookie.format = "v1" => jar[d].cookie.time <= clock)'
    <3>1. CASE d = c
      <4>1. clock \in Int /\ Second \in Int /\ MaxSkew \in Int
        BY ConstantsLemma DEF TypeOK
      <4> QED
        BY <1>1, <1>3, <1>5, <2>1, <2>2, <3>1, <4>1
    <3>2. CASE d # c
      BY <1>2, <1>4, <1>5, <2>5, <3>2 DEF Dated
    <3> QED
      BY <3>1, <3>2
  <2> QED
    BY <2>3, <2>4, <2>5 DEF Dated
<1>8. SignedBefore'
  <2>1. SUFFICES ASSUME NEW d \in Clients, Signed(d)',
                        \A t \in Servers : Superseded(KeyOf(d), stage[t])'
                 PROVE  (jar[d].since <= activated)'
    BY DEF SignedBefore
  <2>2. CASE d = c
    <3>1. Superseded(v, stage[s])
      BY <1>2, <1>5, <2>1, <2>2 DEF Superseded
    <3>2. stage[s] \in Int /\ v \in Int
      BY <1>1, ConstantsLemma DEF TypeOK
    <3> QED
      BY <1>1, <3>1, <3>2 DEF Superseded, Signs
  <2>3. CASE d # c
    BY <1>2, <1>4, <1>5, <2>1, <2>3 DEF SignedBefore, Superseded
  <2> QED
    BY <2>2, <2>3
<1>9. KeysInHand'
  <2>1. SUFFICES ASSUME NEW d \in Clients, NEW t \in Servers, Signed(d)',
                        (clock - jar[d].since <= MaxAge)'
                 PROVE  (KeyOf(d) \in Held(stage[t]))'
    BY DEF KeysInHand
  <2>2. CASE d = c
    <3>1. v \in Held(stage[t])
      <4>1. stage[s] \in Int /\ stage[t] \in Int /\ v \in Int
        BY <1>1, ConstantsLemma DEF TypeOK
      <4>2. /\ stage[s] <= stage[t] + 1 /\ stage[t] <= stage[s] + 1
            /\ ~pinned => stage[s] = stage[t]
        BY DEF InStep
      <4> QED
        BY <1>1, <4>1, <4>2 DEF Held, Signs
    <3> QED
      BY <1>2, <1>5, <2>2, <3>1 DEF Held
  <2>3. CASE d # c
    BY <1>2, <1>4, <1>5, <2>1, <2>3 DEF KeysInHand, Held
  <2> QED
    BY <2>2, <2>3
<1> QED
  BY <1>6, <1>7, <1>8, <1>9

\* One server goes on to its next stage, or all of them do.
LEMMA DeployedKeeps ==
    ASSUME RotationInv, TypeOK',
           (\E s \in Servers : Deploy(s)) \/ DeployAll
    PROVE  (InStep /\ Dated /\ SignedBefore /\ KeysInHand)'
<1> USE DEF RotationInv
<1>1. /\ UNCHANGED <<pinned, skew, jar, clock>>
      /\ activated' \in {activated, clock}
  BY DEF Deploy, DeployAll
<1>2. /\ \A c \in Clients : (Signed(c)' <=> Signed(c)) /\ KeyOf(c)' = KeyOf(c)
      /\ activated <= activated' /\ activated' <= clock
  BY <1>1 DEF Signed, KeyOf, Dated, TypeOK
<1>3. \A s \in Servers :
          \/ stage'[s] = stage[s]
          \/ /\ MayLeave(stage[s])
             /\ stage'[s] = stage[s] + 1
             /\ Activates(stage[s]) => activated' = clock
  BY DEF Deploy, DeployAll, TypeOK
<1>4. InStep'
  <2>1. ASSUME NEW s \in Servers, Deploy(s)
        PROVE  InStep'
    BY <2>1, ConstantsLemma DEF Deploy, MayLeave, InStep, TypeOK
  <2>2. ASSUME DeployAll
        PROVE  InStep'
    BY <2>2, ConstantsLemma DEF DeployAll, InStep, TypeOK
  <2> QED
    BY <2>1, <2>2
<1>5. Dated'
  BY <1>1, <1>2 DEF Dated
<1>6. SignedBefore'
  <2>1. SUFFICES ASSUME NEW c \in Clients, Signed(c),
                        \A s \in Servers : Superseded(KeyOf(c), stage'[s])
                 PROVE  jar[c].since <= activated'
    BY <1>1, <1>2 DEF SignedBefore, Superseded
  <2>2. jar[c].since \in Int /\ jar[c].since <= clock /\ KeyOf(c) \in Versions
    BY <2>1, ConstantsLemma DEF Dated, Signed, TypeOK
  <2>3. CASE \A s \in Servers : Superseded(KeyOf(c), stage[s])
    <3>1. jar[c].since <= activated /\ activated \in Int /\ activated' \in Int
      BY <2>1, <2>3 DEF SignedBefore, TypeOK
    <3> QED
      BY <1>2, <2>2, <3>1
  <2>4. CASE \E s \in Servers : ~Superseded(KeyOf(c), stage[s])
    <3>1. PICK s \in Servers : ~Superseded(KeyOf(c), stage[s])
      BY <2>4
    <3>2. stage'[s] = stage[s] + 1 /\ (Activates(stage[s]) => activated' = clock)
      BY <1>3, <2>1, <3>1
    <3>3. stage[s] \in Int /\ KeyOf(c) \in Int
      BY <2>2, ConstantsLemma DEF TypeOK
    <3>4. stage[s] = IF pinned THEN 3 * KeyOf(c) + 1 ELSE 3 * KeyOf(c)
      BY <2>1, <3>1, <3>2, <3>3 DEF Superseded
    <3>5. Activates(stage[s])
      BY <2>2, <3>4 DEF Activates
    <3> QED
      BY <2>2, <3>2, <3>5
  <2> QED
    BY <2>3, <2>4
<1>7. KeysInHand'
  <2>1. SUFFICES ASSUME NEW c \in Clients, NEW s \in Servers, Signed(c),
                        clock - jar[c].since <= MaxAge
                 PROVE  KeyOf(c) \in Held(stage'[s])
    BY <1>1, <1>2 DEF KeysInHand, Held
  <2>2. KeyOf(c) \in Held(stage[s]) /\ KeyOf(c) \in Versions
    BY <2>1 DEF KeysInHand, Dated
  <2>3. CASE stage'[s] = stage[s]
    BY <2>2, <2>3
  <2>4. CASE stage'[s] = stage[s] + 1 /\ MayLeave(stage[s])
    <3>1. SUFFICES ASSUME stage[s] = 3 * KeyOf(c) + 2
                   PROVE  FALSE
      <4>1. stage[s] \in Int /\ KeyOf(c) \in Int
        BY <2>2, ConstantsLemma DEF TypeOK
      <4>2. /\ 3 * KeyOf(c) - 2 <= stage[s]
            /\ stage[s] <= 3 * KeyOf(c) + 2
        BY <2>2 DEF Held
      <4>3. stage[s] # 3 * KeyOf(c) + 2
            => 3 * KeyOf(c) - 2 <= stage[s] + 1 /\ stage[s] + 1 <= 3 * KeyOf(c) + 2
        BY <4>1, <4>2
      <4> QED
        BY <2>2, <2>4, <4>3 DEF Held
    <3>2. clock > activated + MaxAge
      BY <2>2, <2>4, <3>1 DEF MayLeave, Retires
    <3>3. ASSUME NEW t \in Servers
          PROVE  Superseded(KeyOf(c), stage[t])
      <4>1. stage[t] \in Int /\ KeyOf(c) \in Int /\ stage[t] >= stage[s]
        BY <2>2, <2>4, ConstantsLemma DEF MayLeave, TypeOK
      <4> QED
        BY <3>1, <4>1 DEF Superseded
    <3>4. jar[c].since <= activated
      BY <2>1, <3>3 DEF SignedBefore
    <3>5. jar[c].since \in Int /\ clock \in Int /\ activated \in Int
      BY <2>1, ConstantsLemma DEF Dated, Signed, TypeOK
    <3> QED
      BY <2>1, <3>2, <3>4, <3>5, ConstantsLemma
  <2> QED
    BY <1>3, <2>3, <2>4
<1> QED
  BY <1>4, <1>5, <1>6, <1>7

THEOREM RotationStep == RotationInv /\ [Next]_vars => RotationInv'
<1> SUFFICES ASSUME RotationInv, [Next]_vars PROVE RotationInv'
  OBVIOUS
<1> USE DEF RotationInv
<1>1. TypeOK'
  BY TypeStep
<1>2. ASSUME NEW c \in Clients, NEW s \in Servers, SessionReplaced(c, s)
      PROVE  RotationInv'
  BY <1>1, <1>2, ReplacedKeeps
<1>3. ASSUME NEW c \in Clients, Forget(c)
      PROVE  RotationInv'
  <2>1. /\ UNCHANGED <<pinned, stage, skew, clock, activated>>
        /\ jar'[c] = NoCookie
        /\ \A d \in Clients \ {c} : jar'[d] = jar[d]
    BY <1>3 DEF Forget, TypeOK
  <2>2. \A d \in Clients : Signed(d)' => /\ d # c /\ Signed(d)
                                         /\ jar'[d] = jar[d]
                                         /\ KeyOf(d)' = KeyOf(d)
    BY <2>1 DEF Signed, KeyOf
  <2>3. InStep'
    BY <2>1 DEF InStep
  <2>4. Dated'
    BY <2>1, <2>2 DEF Dated
  <2>5. SignedBefore'
    BY <2>1, <2>2 DEF SignedBefore, Superseded
  <2>6. KeysInHand'
    BY <2>1, <2>2 DEF KeysInHand, Held
  <2> QED
    BY <1>1, <2>3, <2>4, <2>5, <2>6
<1>4. ASSUME (\E s \in Servers : Deploy(s)) \/ DeployAll
      PROVE  RotationInv'
  BY <1>1, <1>4, DeployedKeeps
<1>5. ASSUME Tick
      PROVE  RotationInv'
  <2>1. /\ UNCHANGED <<pinned, stage, skew, jar, activated>>
        /\ clock' = clock + 1
        /\ clock \in Nat /\ activated \in Nat
    BY <1>5 DEF Tick, TypeOK
  <2>2. \A c \in Clients : (Signed(c)' <=> Signed(c)) /\ KeyOf(c)' = KeyOf(c)
    BY <2>1 DEF Signed, KeyOf
  <2>3. InStep'
    BY <2>1 DEF InStep
  <2>4. Dated'
    <3>1. (Start <= clock /\ activated <= clock)'
      BY <2>1, ConstantsLemma DEF Dated
    <3>2. ASSUME NEW c \in Clients, jar[c] # NoCookie
          PROVE  jar[c].since \in 0..clock'
      BY <2>1, <3>2, ConstantsLemma DEF Dated
    <3>3. ASSUME NEW c \in Clients, Signed(c), jar[c].cookie.format = "v1"
          PROVE  jar[c].cookie.time <= clock'
      <4>1. jar[c].cookie.time \in Int
        BY <3>3 DEF Signed, TypeOK, Jar, Cookie
      <4> QED
        BY <2>1, <3>3, <4>1 DEF Dated
    <3> QED
      BY <2>1, <2>2, <3>1, <3>2, <3>3 DEF Dated
  <2>5. SignedBefore'
    BY <2>1, <2>2 DEF SignedBefore, Superseded
  <2>6. KeysInHand'
    <3>1. SUFFICES ASSUME NEW c \in Clients, NEW s \in Servers, Signed(c),
                          clock' - jar[c].since <= MaxAge
                   PROVE  KeyOf(c) \in Held(stage[s])
      BY <2>1, <2>2 DEF KeysInHand, Held
    <3>2. jar[c].since \in Int
      BY <3>1, <2>1 DEF Dated, Signed
    <3> QED
      BY <2>1, <3>1, <3>2, ConstantsLemma DEF KeysInHand
  <2> QED
    BY <1>1, <2>3, <2>4, <2>5, <2>6
<1>6. ASSUME UNCHANGED vars
      PROVE  RotationInv'
  BY <1>1, <1>6 DEF vars, InStep, Dated, SignedBefore, KeysInHand, Signed, KeyOf,
                    Superseded, Held
<1> QED
  BY <1>2, <1>3, <1>4, <1>5, <1>6 DEF Next, SessionKept

THEOREM RotationInvariant == Spec => []RotationInv
  BY RotationInitial, RotationStep, PTL DEF Spec

----------------------------------------------------------------------------
(* What follows for servers and clients.                                   *)

\* The keys of a server, and what its decoder does with a client's cookie.
LEMMA RecognisedLemma ==
    ASSUME RotationInv, NEW c \in Clients, NEW s \in Servers, Signed(c)
    PROVE  Recognised(c, s)
               <=> /\ KeyOf(c) \in Held(stage[s])
                   /\ jar[c].cookie.time >= 0
                   /\ jar[c].cookie.time >= Now(s) - MaxAge
                   /\ jar[c].cookie.format = "v1" => jar[c].cookie.time # 0
<1> DEFINE cookie == jar[c].cookie
           keys == CookieSecrets(ConfigAt(stage[s]))
<1>1. stage[s] \in 0..LastStage /\ pinned \in BOOLEAN
  BY DEF RotationInv, TypeOK
<1>2. keys = [v \in Held(stage[s]) |-> SecretOf[v]] /\ Usable(keys) = Held(stage[s])
  BY <1>1, KeysLemma
<1>3. DOMAIN keys # {}
  BY <1>1, <1>2, HighestLemma
<1>4. KeyOf(c) \in Versions /\ cookie.secret = SecretOf[KeyOf(c)]
  BY DEF RotationInv, Dated
<1>5. \A v \in Held(stage[s]) : v \in Versions
  BY DEF Held
<1>6. CASE cookie.format = "v1"
  <2>1. (\E v \in DOMAIN keys : keys[v] = cookie.secret)
            <=> KeyOf(c) \in Held(stage[s])
    BY <1>2, <1>4, <1>5, RotationAssumption
  <2>2. cookie.time <= Now(s) + MaxFuture
    <3>1. cookie.time <= clock /\ cookie.time \in Int /\ clock \in Int
      BY <1>6 DEF RotationInv, Dated, TypeOK, Signed, Jar, Cookie
    <3> QED
      BY <3>1, ConstantsLemma DEF RotationInv, TypeOK, Now
  <2> QED
    BY <1>3, <1>6, <2>1, <2>2
    DEF Recognised, Accepts, Decodes, DecodesV1, ValidV1Timestamp, ValidTimestamp,
        Signed
<1>7. CASE cookie.format = "v2"
  <2>1. KeyOf(c) = cookie.version /\ cookie.version >= 0
    BY <1>4, <1>7, ConstantsLemma DEF KeyOf
  <2>2. DecodesV2(keys, cookie, Now(s))
            <=> KeyOf(c) \in Held(stage[s]) /\ ValidTimestamp(cookie.time, Now(s))
    BY <1>2, <1>4, <2>1 DEF DecodesV2
  <2> QED
    BY <1>3, <1>7, <2>2 DEF Recognised, Accepts, Decodes, ValidTimestamp, Signed
<1> QED
  BY <1>6, <1>7 DEF RotationInv, TypeOK, Signed

(* A cookie that has not outlived MaxAge, less the rounding of timestamps  *)
(* and the difference of clocks, is accepted by every server at every      *)
(* moment of any number of rotations.                                      *)
THEOREM SessionsSurviveRotationHolds == Spec => []SessionsSurviveRotation
<1>1. RotationInv => SessionsSurviveRotation
  <2> SUFFICES ASSUME RotationInv, NEW c \in Clients, NEW s \in Servers, Signed(c),
                      clock - jar[c].since <= MaxAge - Second - MaxSkew
               PROVE  Recognised(c, s)
    BY DEF SessionsSurviveRotation, Signed
  <2> DEFINE time == jar[c].cookie.time
             since == jar[c].since
  <2>1. /\ since \in Int /\ time \in Int /\ clock \in Int /\ Now(s) \in Int
        /\ Start <= clock
        /\ since - Second < time
        /\ Now(s) <= clock + MaxSkew
    BY ConstantsLemma DEF RotationInv, Dated, TypeOK, Signed, Jar, Cookie, Now
  <2>2. clock - since <= MaxAge
    <3>1. /\ MaxAge \in Int /\ MaxSkew \in Nat /\ Second \in Nat
          /\ clock - since <= MaxAge - Second - MaxSkew
      BY ConstantsLemma
    <3> HIDE DEF since
    <3> QED
      BY <2>1, <3>1
  <2>3. KeyOf(c) \in Held(stage[s])
    BY <2>2 DEF RotationInv, KeysInHand
  <2>4. MaxAge <= Start
    BY RotationAssumption
  <2>5. time >= Now(s) - MaxAge /\ time > 0
    <3>1. /\ MaxAge \in Int /\ MaxSkew \in Nat /\ Second \in Nat /\ Start \in Int
          /\ clock - since <= MaxAge - Second - MaxSkew
      BY ConstantsLemma
    <3> HIDE DEF since, time
    <3> QED
      BY <2>1, <2>4, <3>1
  <2> QED
    BY <2>1, <2>3, <2>5, RecognisedLemma
<1> QED
  BY <1>1, RotationInvariant, PTL

(* No server accepts a cookie signed more than MaxAge ago, but for the     *)
(* difference of clocks.                                                   *)
THEOREM NoneOutlivesMaxAgeHolds == Spec => []NoneOutlivesMaxAge
<1>1. RotationInv => NoneOutlivesMaxAge
  <2> SUFFICES ASSUME RotationInv, NEW c \in Clients, NEW s \in Servers,
                      Recognised(c, s)
               PROVE  clock - jar[c].since <= MaxAge + MaxSkew
    BY DEF NoneOutlivesMaxAge
  <2>1. Signed(c)
    <3>1. stage[s] \in 0..LastStage /\ pinned \in BOOLEAN
      BY DEF RotationInv, TypeOK
    <3>2. DOMAIN CookieSecrets(ConfigAt(stage[s])) # {}
      BY <3>1, KeysLemma, HighestLemma
    <3> QED
      BY <3>2 DEF Recognised, Accepts, Decodes, Signed
  <2>2. /\ jar[c].since \in Int /\ jar[c].cookie.time \in Int
        /\ clock \in Int /\ Now(s) \in Int
        /\ jar[c].cookie.time <= jar[c].since + MaxSkew
        /\ clock <= Now(s)
    BY <2>1, ConstantsLemma DEF RotationInv, Dated, TypeOK, Signed, Jar, Cookie, Now
  <2>3. jar[c].cookie.time >= Now(s) - MaxAge
    BY <2>1, RecognisedLemma
  <2> QED
    BY <2>2, <2>3, ConstantsLemma
<1> QED
  BY <1>1, RotationInvariant, PTL

(* What a server signs it accepts itself, with any keys under any versions *)
(* and whichever is active, as long as the cookie is no older than MaxAge  *)
(* less a second.  There are two exceptions: no key is active, or a        *)
(* negative version is, which the decoder does not take.                   *)
THEOREM FreshCookieIsAccepted ==
    ASSUME NEW p, NEW signedAt \in Nat, NEW now \in Int,
           now - signedAt <= MaxAge - Second,
           MaxAge <= now,
           Active(p) # {},
           \A v \in Active(p) : v \in Nat
    PROVE  Accepts(p, SessionCookie(p, signedAt), now)
<1> DEFINE keys == CookieSecrets(p)
           version == CHOOSE v \in Active(p) : TRUE
           value == SignedValue(keys[version], version, signedAt)
<1>1. version \in Active(p) /\ version \in Nat
  OBVIOUS
<1>2. version \in Usable(keys)
  BY <1>1 DEF Active
<1>3. DOMAIN keys # {}
  BY <1>2 DEF Usable
<1>4. SessionCookie(p, signedAt) = value
  BY <1>3 DEF SessionCookie
<1>5. ValidTimestamp(Timestamp(signedAt), now)
  <2>1. Timestamp(signedAt) \in Int /\ signedAt - Second < Timestamp(signedAt)
    BY TimestampLemma
  <2> QED
    BY <2>1, CookieAssumption DEF ValidTimestamp
<1>6. DecodesV2(keys, value, now)
  BY <1>1, <1>2, <1>5 DEF DecodesV2, SignedValue
<1> QED
  BY <1>3, <1>4, <1>6 DEF Accepts, Decodes, SignedValue

\* The active version is at most one: versions are whole numbers.
LEMMA ActiveIsOne ==
    ASSUME NEW p, DOMAIN CookieSecrets(p) \subseteq Int,
           NEW v \in Active(p), NEW w \in Active(p)
    PROVE  v = w
<1>1. v \in Int /\ w \in Int
  BY DEF Active, Usable
<1>2. CASE p.pin # NoVersion
  BY <1>2 DEF Active
<1>3. CASE p.pin = NoVersion
  <2>1. v <= w /\ w <= v
    BY <1>3 DEF Active
  <2> QED
    BY <1>1, <2>1
<1> QED
  BY <1>2, <1>3

(* Two servers that were configured apart: one of them takes a cookie of   *)
(* the other, as long as it is no older than MaxAge less a second, exactly *)
(* if it has the key that the other one signs with, under the same version *)
(* (a negative one never counts), or has no keys at all and checks nothing.*)
THEOREM PeerTakesCookie ==
    ASSUME NEW p, NEW q, NEW v \in Int, NEW signedAt \in Nat, NEW now \in Int,
           DOMAIN CookieSecrets(p) \subseteq Int,
           v \in Active(p),
           now - signedAt <= MaxAge - Second,
           MaxAge <= now
    PROVE  Accepts(q, SessionCookie(p, signedAt), now)
               <=> \/ DOMAIN CookieSecrets(q) = {}
                   \/ /\ v >= 0
                      /\ v \in DOMAIN CookieSecrets(q)
                      /\ CookieSecrets(q)[v] = CookieSecrets(p)[v]
<1> DEFINE ours == CookieSecrets(p)
           theirs == CookieSecrets(q)
           value == SignedValue(ours[v], v, signedAt)
<1>1. v \in DOMAIN ours /\ ours[v] # NoSecret
  BY DEF Active, Usable
<1>2. SessionCookie(p, signedAt) = value
  <2>1. (CHOOSE w \in Active(p) : TRUE) = v
    BY ActiveIsOne
  <2>2. DOMAIN ours # {} /\ Active(p) # {}
    BY <1>1
  <2> QED
    BY <2>1, <2>2 DEF SessionCookie
<1>3. /\ value.format = "v2" /\ value.version = v /\ value.secret = ours[v]
      /\ value.time = Timestamp(signedAt)
  BY DEF SignedValue
<1>4. ValidTimestamp(Timestamp(signedAt), now)
  <2>1. Timestamp(signedAt) \in Int /\ signedAt - Second < Timestamp(signedAt)
    BY TimestampLemma
  <2> QED
    BY <2>1, CookieAssumption DEF ValidTimestamp
<1>5. DecodesV2(theirs, value, now)
          <=> v >= 0 /\ v \in Usable(theirs) /\ theirs[v] = ours[v]
  BY <1>3, <1>4 DEF DecodesV2
<1>6. Decodes(theirs, value, now) <=> DecodesV2(theirs, value, now)
  BY <1>3 DEF Decodes
<1>7. v \in Usable(theirs) /\ theirs[v] = ours[v]
          <=> v \in DOMAIN theirs /\ theirs[v] = ours[v]
  BY <1>1 DEF Usable
<1> QED
  BY <1>2, <1>5, <1>6, <1>7 DEF Accepts

(* No server with keys takes a cookie that any server signed more than     *)
(* MaxAge ago, and none takes what a server without a usable key sends,    *)
(* the bare id or the empty value, however old it is.                      *)
THEOREM OldCookieIsRefused ==
    ASSUME NEW p, NEW q, NEW signedAt \in Int, NEW now \in Int,
           DOMAIN CookieSecrets(q) # {},
           Active(p) = {} \/ now - signedAt > MaxAge
    PROVE  ~Accepts(q, SessionCookie(p, signedAt), now)
<1> DEFINE ours == CookieSecrets(p)
           version == CHOOSE v \in Active(p) : TRUE
           value == SessionCookie(p, signedAt)
<1>1. Timestamp(signedAt) \in Int /\ Timestamp(signedAt) <= signedAt
  BY TimestampLemma
<1>2. \/ value.format \in {"raw", "empty"}
      \/ Active(p) # {} /\ value = SignedValue(ours[version], version, signedAt)
  BY DEF SessionCookie, Unsigned
<1>3. CASE value.format \in {"raw", "empty"}
  BY <1>3 DEF Accepts, Decodes
<1>4. CASE Active(p) # {} /\ value = SignedValue(ours[version], version, signedAt)
  <2>1. value.format = "v2" /\ value.time = Timestamp(signedAt)
    BY <1>4 DEF SignedValue
  <2>2. ~ValidTimestamp(value.time, now)
    BY <1>1, <1>4, <2>1, CookieAssumption DEF ValidTimestamp
  <2> QED
    BY <2>1, <2>2 DEF Accepts, Decodes, DecodesV2
<1> QED
  BY <1>2, <1>3, <1>4
===============================================================================
