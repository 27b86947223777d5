---------------------------- MODULE ResponsesProofs ----------------------------
(***************************************************************************)
(* Theorems about Responses, for chains of any length and any statuses.    *)
(*                                                                         *)
(* The argument: while Chain runs, what it has made so far is the end of   *)
(* the list that is not left to do, in its order, around the handler.      *)
(* From then on layers are entered inwards, one by one, and once one of   *)
(* them has concluded (calling is FALSE) only left; so what happened at a  *)
(* layer depends on the layers inside it, whose calls of the writer it     *)
(* sees, and on those outside it, which may have written before.           *)
(***************************************************************************)
EXTENDS Responses, SequenceTheorems, TLAPS

Layers == Middlewares \cup {"handler"}

\* The invariant of Chain's loop: the middlewares that are wrapped are the last
\* ones of the list, in its order.
ChainInv ==
    /\ given \in Chains
    /\ unwrapped \in 0..Len(given)
    /\ layers = SubSeq(given, unwrapped + 1, Len(given)) \o <<"handler">>

\* Until the request arrives there is no trace of it.
NothingYet ==
    /\ at = 0 /\ calling = TRUE
    /\ status = 0 /\ header = FALSE /\ sent = FALSE
    /\ recorded = [i \in Positions |-> 0]
    /\ log = [i \in Positions |-> Unlogged]
    /\ panicked = FALSE /\ writes = 0
    /\ writers = {} /\ overruled = FALSE /\ unwound = {}

\* When the loop is over the layers are those given, and the handler innermost.
ShapeInv ==
    /\ given \in Chains
    /\ unwrapped = 0
    /\ layers = given \o <<"handler">>

\* How far inwards the request went, and where it is.
PlaceInv ==
    /\ at \in 0..Len(layers)
    /\ Len(entered) \in 1..Len(layers)
    /\ at <= Len(entered)
    /\ (at # 0 /\ calling) => at = Len(entered)
    /\ at = 0 => panicked \/ ~calling
    /\ panicked => at = 0

EnteredInv ==
    /\ entered \in Seq(Layers)
    /\ \A i \in 1..Len(entered) : entered[i] = layers[i]

\* Only layers that were entered write; before the end, a status was sent only
\* if one did; and a layer of this repository has not written while it is still
\* to call the next one.
WritersInv ==
    /\ writers \subseteq 1..Len(entered)
    /\ (at # 0 /\ status # 0) => writers # {}
    /\ (at \in writers /\ calling) => layers[at] \in {"other", "handler"}

\* What a Logging layer records while no layer outside it writes, and nobody
\* gives a second status.
InsideOnly(i) == ~overruled /\ \A w \in writers : w > i

RecordInv ==
    /\ ~calling => layers[Len(entered)] # "logging"
    /\ \A i \in 1..Len(entered) : (layers[i] = "logging" /\ i < Len(entered)) =>
           /\ recorded[i] # 0
           /\ InsideOnly(i) => recorded[i] = IF status = 0 THEN 200 ELSE status

\* A layer that returned has logged what it recorded; at the end a status is sent.
LogInv ==
    ~panicked =>
        /\ \A i \in (1..Len(entered)) \ unwound :
               (layers[i] = "logging" /\ at < i) => log[i] = Line(recorded[i])
        /\ at = 0 => status # 0

\* A layer outside Sessioned called the writer.
WrittenOutside == \E w \in writers : \A i \in 1..w : layers[i] # "sessioned"

\* A cookie that was set in time goes out with the status.
CookieInv == (status # 0 /\ header) => (sent \/ WrittenOutside)

\* What holds of a request that has arrived.
ServingInv ==
    /\ TypeOK /\ ShapeInv /\ PlaceInv /\ EnteredInv /\ WritersInv
    /\ RecordInv /\ LogInv /\ CookieInv

ResponseInv ==
    /\ ChainInv
    /\ entered = <<>> => NothingYet
    /\ entered # <<>> => ServingInv

(***************************************************************************)
(* What the chain looks like.                                              *)
(***************************************************************************)
LEMMA LayersLemma ==
    ASSUME ShapeInv
    PROVE  /\ layers \in Seq(Layers)
           /\ Len(layers) \in Nat \ {0}
           /\ DOMAIN layers = 1..Len(layers)
           /\ Positions = 1..Len(layers)
           /\ \A i \in 1..Len(layers) : layers[i] \in Layers
           /\ layers[Len(layers)] = "handler"
           /\ \A i, j \in 1..Len(layers) :
                  (layers[i] = "sessioned" /\ layers[j] = "sessioned") => i = j
<1>1. given \in Seq(Middlewares)
  BY ResponseAssumption DEF ShapeInv
<1>2. given \in Seq(Layers) /\ <<"handler">> \in Seq(Layers) /\ Len(<<"handler">>) = 1
  BY <1>1, SeqMonotonic DEF Layers
<1>3. /\ layers \in Seq(Layers)
      /\ Len(layers) = Len(given) + 1
      /\ \A i \in 1..Len(given) + 1 :
             layers[i] = IF i <= Len(given) THEN given[i] ELSE <<"handler">>[i - Len(given)]
  BY <1>2, ConcatProperties DEF ShapeInv
<1>4. Len(given) \in Nat /\ DOMAIN given = 1..Len(given)
  BY <1>1, LenProperties
<1>5. /\ Len(layers) \in Nat \ {0} /\ DOMAIN layers = 1..Len(layers)
      /\ Positions = 1..Len(layers)
  BY <1>3, <1>4, LenProperties DEF Positions
<1>6. layers[Len(layers)] = "handler"
  BY <1>3, <1>4
<1>7. \A i \in 1..Len(layers) : layers[i] \in Layers
  BY <1>3, ElementOfSeq
<1>8. ASSUME NEW i \in 1..Len(layers), NEW j \in 1..Len(layers),
             layers[i] = "sessioned", layers[j] = "sessioned"
      PROVE  i = j
  <2>1. i # Len(layers) /\ j # Len(layers)
    BY <1>6, <1>8
  <2>2. i \in 1..Len(given) /\ j \in 1..Len(given)
    BY <1>3, <1>4, <2>1
  <2>3. given[i] = "sessioned" /\ given[j] = "sessioned"
    BY <1>3, <1>4, <1>8, <2>2
  <2> QED
    BY <1>4, <2>2, <2>3, ResponseAssumption DEF ShapeInv
<1> QED
  BY <1>3, <1>5, <1>6, <1>7, <1>8

\* Where the request is, in numbers.
LEMMA PlaceLemma ==
    ASSUME ServingInv
    PROVE  /\ Len(layers) \in Nat /\ Len(entered) \in Nat /\ at \in Nat
           /\ DOMAIN layers = 1..Len(layers)
           /\ 1..Len(entered) \subseteq DOMAIN layers
           /\ at # 0 => at \in 1..Len(entered)
           /\ \A i \in DOMAIN layers : layers[i] \in Layers
BY LayersLemma DEF ServingInv, PlaceInv

\* A layer that calls the next one is not the innermost.
LEMMA CallNextLemma ==
    ASSUME ServingInv, at # 0, calling, layers[at] # "handler", CallNext
    PROVE  /\ at = Len(entered) /\ at < Len(layers) /\ at' = at + 1
           /\ entered' \in Seq(Layers) /\ Len(entered') = at + 1
           /\ \A i \in 1..at : entered'[i] = entered[i]
           /\ entered'[at + 1] = layers[at + 1]
<1>1. at = Len(entered) /\ at \in Nat /\ Len(layers) \in Nat /\ at <= Len(layers)
  BY PlaceLemma DEF ServingInv, PlaceInv
<1>2. at < Len(layers)
  BY <1>1, LayersLemma DEF ServingInv
<1>3. at + 1 \in 1..Len(layers)
  BY <1>1, <1>2
<1>4. layers[at + 1] \in Layers
  BY <1>3, LayersLemma DEF ServingInv
<1>5. entered \in Seq(Layers) /\ entered' = Append(entered, layers[at + 1]) /\ at' = at + 1
  BY DEF CallNext, ServingInv, EnteredInv
<1> QED
  BY <1>1, <1>2, <1>4, <1>5, AppendProperties

LogLines == {"none", "info", "warn", "error"} \X (0..599)

\* What the writer and the layers keep, without where the request is.
DataTyped ==
    /\ calling \in BOOLEAN
    /\ status \in {0, 101} \cup 200..599
    /\ header \in BOOLEAN
    /\ sent \in BOOLEAN
    /\ recorded \in [DOMAIN layers -> {0} \cup 100..599]
    /\ log \in [DOMAIN layers -> LogLines]
    /\ panicked \in BOOLEAN
    /\ writes \in 0..MaxWrites
    /\ overruled \in BOOLEAN
    /\ unwound \in SUBSET DOMAIN layers

LEMMA TypeParts ==
    ASSUME TypeOK, ShapeInv
    PROVE  DataTyped
<1>0. Positions = DOMAIN layers
  BY LayersLemma
<1>1. log \in [DOMAIN layers -> LogLines]
  BY <1>0 DEF TypeOK, LogLines
<1>2. recorded \in [DOMAIN layers -> {0} \cup 100..599]
  BY <1>0 DEF TypeOK
<1>3. /\ calling \in BOOLEAN
      /\ status \in {0, 101} \cup 200..599
      /\ header \in BOOLEAN
      /\ sent \in BOOLEAN
      /\ panicked \in BOOLEAN
      /\ writes \in 0..MaxWrites
      /\ overruled \in BOOLEAN
  BY DEF TypeOK, FinalStatuses
<1>4. unwound \in SUBSET DOMAIN layers
  BY <1>0 DEF TypeOK
<1> QED
  BY <1>1, <1>2, <1>3, <1>4 DEF DataTyped

(***************************************************************************)
(* What the steps do, by kind.                                             *)
(***************************************************************************)
Enters == LoggingCalls \/ SessionedCalls \/ ExactPathCalls \/ OtherCalls

Answers == SessionedFails \/ ExactPathRefuses

\* What a call of the writer does, whoever makes it: the first final status is
\* sent with the header as it then is, and a Logging layer outside the caller
\* learns the status, unless it is the implicit 200.
WriterCalled ==
    /\ at # 0
    /\ writers' = writers \cup {at}
    /\ overruled' \in BOOLEAN
    /\ ~overruled' => ~overruled
    /\ recorded' \in [DOMAIN layers -> {0} \cup 100..599]
    /\ \/ UNCHANGED <<status, sent>>
       \/ status = 0 /\ status' \in {101} \cup 200..599 /\ sent' = header'
    /\ \A i \in DOMAIN layers :
           /\ recorded[i] # 0 => recorded'[i] # 0
           /\ ~(i < at) => recorded'[i] = recorded[i]
           /\ (i < at /\ layers[i] = "logging" /\ ~overruled') =>
                  IF status # 0
                  THEN recorded'[i] = recorded[i]
                  ELSE \/ status' # 0 /\ recorded'[i] = status'
                       \/ status' = 200 /\ recorded'[i] = recorded[i]
    /\ UNCHANGED <<given, layers, unwrapped, at, log, panicked, entered, unwound>>

LEMMA EntersLemma ==
    ASSUME ServingInv, Enters
    PROVE  /\ at # 0 /\ calling /\ layers[at] \in Middlewares /\ CallNext
           /\ recorded' = IF layers[at] = "logging"
                          THEN [recorded EXCEPT ![at] = 200]
                          ELSE recorded
           /\ header' \in BOOLEAN
           /\ layers[at] # "sessioned" => header' = header
           /\ UNCHANGED <<given, layers, unwrapped, calling, status, sent, log, panicked,
                          writes, writers, overruled, unwound>>
<1>1. header \in BOOLEAN
  BY TypeParts DEF ServingInv, DataTyped
<1> QED
  BY <1>1 DEF Enters, LoggingCalls, SessionedCalls, ExactPathCalls, OtherCalls, Is, chain,
              response,
              Middlewares

LEMMA AnswersLemma ==
    ASSUME ServingInv, Answers
    PROVE  /\ at # 0 /\ calling /\ layers[at] \in {"sessioned", "exact"}
           /\ header' \in BOOLEAN
           /\ layers[at] # "sessioned" => header' = header
           /\ WriterCalled
           /\ calling' = FALSE
           /\ UNCHANGED writes
<1>0. /\ header \in BOOLEAN /\ overruled \in BOOLEAN
      /\ recorded \in [DOMAIN layers -> {0} \cup 100..599]
      /\ status \in {0, 101} \cup 200..599
  BY TypeParts DEF ServingInv, DataTyped
<1>1. ASSUME NEW code \in {404, 500}, at # 0, WriteHeader(code, header'),
             UNCHANGED <<given, layers, unwrapped, at, log, panicked, entered, unwound>>
      PROVE  WriterCalled
  <2>1. /\ IF status = 0 /\ ~Informational(code)
           THEN status' = code /\ sent' = header'
           ELSE UNCHANGED <<status, sent>>
        /\ recorded' = [i \in DOMAIN layers |->
                           IF i < at /\ layers[i] = "logging" THEN code ELSE recorded[i]]
        /\ overruled' = (overruled \/ status # 0 \/ Informational(code))
        /\ writers' = writers \cup {at}
    BY <1>1 DEF WriteHeader, SendStatus, response
  <2>2. recorded' \in [DOMAIN layers -> {0} \cup 100..599]
    BY <1>0, <2>1
  <2>3. (overruled' \in BOOLEAN) /\ (~overruled' => (~overruled /\ status = 0 /\ ~Informational(code)))
    BY ONLY <2>1, Zenon
  <2>4. code \in 100..599 /\ code \in {101} \cup 200..599
    OBVIOUS
  <2>5. \A i \in DOMAIN layers :
            /\ recorded[i] # 0 => recorded'[i] # 0
            /\ ~(i < at) => recorded'[i] = recorded[i]
            /\ (i < at /\ layers[i] = "logging" /\ ~overruled') =>
                   status = 0 /\ status' # 0 /\ recorded'[i] = status'
    BY <2>1, <2>3, <2>4
  <2>6. \/ UNCHANGED <<status, sent>>
        \/ status = 0 /\ status' \in {101} \cup 200..599 /\ sent' = header'
    BY <2>1, <2>4
  <2> QED
    BY <1>1, <2>1, <2>2, <2>3, <2>5, <2>6 DEF WriterCalled
<1>2. CASE SessionedFails
  <2>1. /\ at # 0 /\ calling /\ layers[at] = "sessioned" /\ header' \in BOOLEAN
        /\ WriteHeader(500, header') /\ calling' = FALSE
        /\ UNCHANGED <<given, layers, unwrapped, at, log, panicked, writes, entered, unwound>>
    BY <1>0, <1>2 DEF SessionedFails, Is, chain
  <2> QED
    BY <1>1, <2>1
<1>3. CASE ExactPathRefuses
  <2>1. /\ at # 0 /\ calling /\ layers[at] = "exact" /\ header' = header
        /\ WriteHeader(404, header') /\ calling' = FALSE
        /\ UNCHANGED <<given, layers, unwrapped, at, log, panicked, writes, entered, unwound>>
    BY <1>0, <1>3 DEF ExactPathRefuses, Is, chain, WriteHeader, SendStatus
  <2> QED
    BY <1>0, <1>1, <2>1
<1> QED
  BY <1>2, <1>3 DEF Answers

LEMMA WritesLemma ==
    ASSUME ServingInv, Writes
    PROVE  /\ at # 0 /\ layers[at] \in {"handler", "other"}
           /\ writes < MaxWrites /\ writes' = writes + 1
           /\ WriterCalled
           /\ UNCHANGED <<calling, header>>
<1>0. /\ header \in BOOLEAN /\ overruled \in BOOLEAN
      /\ recorded \in [DOMAIN layers -> {0} \cup 100..599]
      /\ status \in {0, 101} \cup 200..599
  BY TypeParts DEF ServingInv, DataTyped
<1>1. /\ at # 0 /\ layers[at] \in {"handler", "other"}
      /\ writes < MaxWrites /\ writes' = writes + 1
      /\ UNCHANGED <<given, layers, unwrapped, at, calling, header, log, panicked, entered,
                     unwound>>
  BY DEF Writes, Is, chain
<1>2. CASE Write
  <2>1. /\ IF status = 0
           THEN status' = 200 /\ sent' = header'
           ELSE UNCHANGED <<status, sent>>
        /\ writers' = writers \cup {at}
        /\ UNCHANGED <<recorded, overruled>>
    BY <1>1, <1>2 DEF Write, SendStatus, Informational, response
  <2> QED
    BY <1>0, <1>1, <2>1 DEF WriterCalled
<1>3. ASSUME NEW code \in Statuses, WriteHeader(code, header)
      PROVE  WriterCalled
  <2>1. code \in 100..599
    BY ResponseAssumption
  <2>2. /\ IF status = 0 /\ ~Informational(code)
           THEN status' = code /\ sent' = header'
           ELSE UNCHANGED <<status, sent>>
        /\ recorded' = [i \in DOMAIN layers |->
                           IF i < at /\ layers[i] = "logging" THEN code ELSE recorded[i]]
        /\ overruled' = (overruled \/ status # 0 \/ Informational(code))
        /\ writers' = writers \cup {at}
    BY <1>1, <1>3 DEF WriteHeader, SendStatus, response
  <2>3. recorded' \in [DOMAIN layers -> {0} \cup 100..599]
    BY <1>0, <2>1, <2>2
  <2>4. (overruled' \in BOOLEAN) /\ (~overruled' => (~overruled /\ status = 0 /\ ~Informational(code)))
    BY ONLY <2>2, Zenon
  <2>5. ~Informational(code) => code \in {101} \cup 200..599
    BY <2>1 DEF Informational
  <2>6. \A i \in DOMAIN layers :
            /\ recorded[i] # 0 => recorded'[i] # 0
            /\ ~(i < at) => recorded'[i] = recorded[i]
            /\ (i < at /\ layers[i] = "logging" /\ ~overruled') =>
                   status = 0 /\ status' # 0 /\ recorded'[i] = status'
    BY <2>1, <2>2, <2>4, <2>5
  <2>7. \/ UNCHANGED <<status, sent>>
        \/ status = 0 /\ status' \in {101} \cup 200..599 /\ sent' = header'
    BY <1>1, <2>2, <2>5
  <2> QED
    BY <1>1, <2>2, <2>3, <2>4, <2>6, <2>7 DEF WriterCalled
<1> QED
  BY <1>1, <1>2, <1>3 DEF Writes

LEMMA ConcludesLemma ==
    ASSUME Concludes
    PROVE  /\ at # 0 /\ calling /\ layers[at] \in {"handler", "other"}
           /\ calling' = FALSE
           /\ UNCHANGED <<given, layers, unwrapped, at, status, sent, header, recorded, log,
                          panicked, writes, entered, writers, overruled, unwound>>
BY DEF Concludes, Is, chain, response, history

LEMMA ReturnsLemma ==
    ASSUME ServingInv, Returns
    PROVE  /\ at # 0 /\ ~calling /\ at' = at - 1 /\ at' \in Nat
           /\ log' = IF layers[at] = "logging"
                     THEN [log EXCEPT ![at] = Line(recorded[at])]
                     ELSE log
           /\ at = 1 => SendStatus(200, header)
           /\ at # 1 => UNCHANGED <<status, sent>>
           /\ UNCHANGED <<given, layers, unwrapped, calling, header, recorded, panicked,
                          writes, entered, writers, overruled, unwound>>
BY PlaceLemma DEF Returns, chain, response, history

LEMMA PanicsLemma ==
    ASSUME Panics
    PROVE  /\ at # 0 /\ layers[at] \in {"handler", "other"}
           /\ \/ at' = 0 /\ panicked' = TRUE /\ UNCHANGED <<calling, unwound>>
              \/ /\ at' \in 1..(at - 1) /\ layers[at'] = "other"
                 /\ unwound' = unwound \cup (at' + 1)..at
                 /\ calling' = FALSE /\ panicked' = panicked
           /\ UNCHANGED <<given, layers, unwrapped, status, sent, header, recorded, log,
                          writes, entered, writers, overruled>>
BY DEF Panics, Is, chain, response, history

LEMMA ServeByKind ==
    Serve <=> Enters \/ Answers \/ Writes \/ Concludes \/ Returns \/ Panics
BY DEF Serve, Enters, Answers

(***************************************************************************)
(* Each part of the invariant, step by step.                               *)
(***************************************************************************)
LEMMA ShapeStep ==
    ASSUME ServingInv, [Serve]_vars
    PROVE  ShapeInv'
<1>1. given' = given /\ layers' = layers /\ unwrapped' = unwrapped
  BY DEF Serve, LoggingCalls, SessionedCalls, SessionedFails, ExactPathCalls, ExactPathRefuses,
         OtherCalls, Writes, Concludes, Returns, Panics, chain, vars
<1> QED
  BY <1>1 DEF ServingInv, ShapeInv

LEMMA PlaceStep ==
    ASSUME ServingInv, [Serve]_vars
    PROVE  PlaceInv'
<1> USE DEF PlaceInv
<1>0. /\ PlaceInv /\ panicked \in BOOLEAN /\ calling \in BOOLEAN
      /\ Len(layers) \in Nat /\ Len(entered) \in Nat /\ at \in Nat
  BY PlaceLemma, TypeParts DEF ServingInv, DataTyped
<1>1. CASE Enters
  <2>1. /\ at # 0 /\ calling /\ layers[at] \in Middlewares /\ CallNext
        /\ UNCHANGED <<layers, calling, panicked>>
    BY <1>1, EntersLemma
  <2>2. /\ at = Len(entered) /\ at < Len(layers) /\ at' = at + 1
        /\ Len(entered') = at + 1
    BY <2>1, CallNextLemma DEF Middlewares
  <2> QED
    BY <1>0, <2>1, <2>2
<1>2. CASE Answers
  <2>1. at # 0 /\ calling' = FALSE /\ UNCHANGED <<layers, at, panicked, entered>>
    BY <1>2, AnswersLemma DEF WriterCalled
  <2> QED
    BY <1>0, <2>1
<1>3. CASE Writes
  <2>1. UNCHANGED <<layers, at, calling, panicked, entered>>
    BY <1>3, WritesLemma DEF WriterCalled
  <2> QED
    BY <1>0, <2>1
<1>4. CASE Concludes
  BY <1>0, <1>4, ConcludesLemma
<1>5. CASE Returns
  BY <1>0, <1>5, ReturnsLemma
<1>6. CASE Panics
  <2>1. /\ at # 0
        /\ \/ at' = 0 /\ panicked' = TRUE
           \/ at' \in 1..(at - 1) /\ calling' = FALSE /\ panicked' = panicked
        /\ UNCHANGED <<layers, entered>>
    BY <1>6, PanicsLemma
  <2> QED
    BY <1>0, <2>1
<1>7. CASE UNCHANGED vars
  BY <1>0, <1>7 DEF vars
<1> QED
  BY <1>1, <1>2, <1>3, <1>4, <1>5, <1>6, <1>7, ServeByKind

LEMMA EnteredStep ==
    ASSUME ServingInv, [Serve]_vars
    PROVE  EnteredInv'
<1> USE DEF EnteredInv
<1>0. EnteredInv /\ layers' = layers /\ Len(entered) \in Nat
  <2>1. layers' = layers
    BY ShapeStep DEF ServingInv, ShapeInv, Serve, LoggingCalls, SessionedCalls, SessionedFails,
       ExactPathCalls, ExactPathRefuses, OtherCalls, Writes, Concludes, Returns, Panics, chain, vars
  <2> QED
    BY <2>1, PlaceLemma DEF ServingInv
<1>1. CASE Enters
  <2>1. at # 0 /\ calling /\ layers[at] # "handler" /\ CallNext
    BY <1>1, EntersLemma DEF Middlewares
  <2>2. /\ at = Len(entered) /\ entered' \in Seq(Layers) /\ Len(entered') = at + 1
        /\ \A i \in 1..at : entered'[i] = entered[i]
        /\ entered'[at + 1] = layers[at + 1]
    BY <2>1, CallNextLemma
  <2>3. ASSUME NEW i \in 1..(at + 1)
        PROVE  entered'[i] = layers[i]
    <3>1. CASE i = at + 1
      BY <2>2, <3>1
    <3>2. CASE i # at + 1
      <4>1. i \in 1..at
        BY <1>0, <2>2, <3>2
      <4> QED
        BY <1>0, <2>2, <4>1
    <3> QED
      BY <3>1, <3>2
  <2> QED
    BY <1>0, <2>2, <2>3
<1>2. entered' = entered => EnteredInv'
  BY <1>0
<1>3. ASSUME ~Enters PROVE entered' = entered
  <2>1. CASE Answers
    BY <2>1, AnswersLemma DEF WriterCalled
  <2>2. CASE Writes
    BY <2>2, WritesLemma DEF WriterCalled
  <2>3. CASE Concludes
    BY <2>3, ConcludesLemma
  <2>4. CASE Returns
    BY <2>4, ReturnsLemma
  <2>5. CASE Panics
    BY <2>5, PanicsLemma
  <2>6. CASE UNCHANGED vars
    BY <2>6 DEF vars
  <2> QED
    BY <1>3, <2>1, <2>2, <2>3, <2>4, <2>5, <2>6, ServeByKind
<1> QED
  BY <1>1, <1>2, <1>3

LEMMA WritersStep ==
    ASSUME ServingInv, [Serve]_vars
    PROVE  WritersInv'
<1>0. /\ writers \subseteq 1..Len(entered)
      /\ (at # 0 /\ status # 0) => writers # {}
      /\ (at \in writers /\ calling) => layers[at] \in {"other", "handler"}
      /\ Len(entered) \in Nat /\ at \in Nat
      /\ at # 0 => at \in 1..Len(entered)
  BY PlaceLemma DEF ServingInv, WritersInv
<1>1. CASE Enters
  <2>1. /\ at # 0 /\ calling /\ layers[at] # "handler" /\ CallNext
        /\ UNCHANGED <<layers, calling, status, writers>>
    BY <1>1, EntersLemma DEF Middlewares
  <2>2. at = Len(entered) /\ at' = at + 1 /\ Len(entered') = at + 1
    BY <2>1, CallNextLemma
  <2>3. at' \notin writers'
    BY <1>0, <2>1, <2>2
  <2> QED
    BY <1>0, <2>1, <2>2, <2>3 DEF WritersInv
<1>2. CASE Answers
  <2>1. /\ at # 0 /\ calling' = FALSE
        /\ writers' = writers \cup {at}
        /\ UNCHANGED <<layers, at, entered>>
    BY <1>2, AnswersLemma DEF WriterCalled
  <2> QED
    BY <1>0, <2>1 DEF WritersInv
<1>3. CASE Writes
  <2>1. /\ at # 0 /\ layers[at] \in {"handler", "other"}
        /\ writers' = writers \cup {at}
        /\ UNCHANGED <<layers, at, calling, entered>>
    BY <1>3, WritesLemma DEF WriterCalled
  <2> QED
    BY <1>0, <2>1 DEF WritersInv
<1>4. CASE Concludes
  BY <1>0, <1>4, ConcludesLemma DEF WritersInv
<1>5. CASE Returns
  <2>1. /\ at # 0 /\ ~calling /\ at' = at - 1
        /\ at # 1 => status' = status
        /\ UNCHANGED <<layers, calling, entered, writers>>
    BY <1>5, ReturnsLemma
  <2>2. at' # 0 => at # 1
    BY <1>0, <2>1
  <2> QED
    BY <1>0, <2>1, <2>2 DEF WritersInv
<1>6. CASE Panics
  <2>1. /\ at # 0
        /\ at' = 0 \/ calling' = FALSE
        /\ UNCHANGED <<layers, status, entered, writers>>
    BY <1>6, PanicsLemma
  <2>2. ~(at' \in writers' /\ calling')
    BY <1>0, <2>1
  <2> QED
    BY <1>0, <2>1, <2>2 DEF WritersInv
<1>7. CASE UNCHANGED vars
  BY <1>0, <1>7 DEF vars, WritersInv
<1> QED
  BY <1>1, <1>2, <1>3, <1>4, <1>5, <1>6, <1>7, ServeByKind

\* What a Logging layer that was entered records when the writer is called.
LEMMA CalledRecord ==
    ASSUME ServingInv, WriterCalled,
           NEW i \in 1..Len(entered), layers[i] = "logging", i < Len(entered)
    PROVE  /\ recorded'[i] # 0
           /\ InsideOnly(i)' => recorded'[i] = IF status' = 0 THEN 200 ELSE status'
<1>1. i \in DOMAIN layers /\ i \in Nat /\ at \in Nat
  BY PlaceLemma
<1>2. /\ recorded[i] # 0
      /\ InsideOnly(i) => recorded[i] = IF status = 0 THEN 200 ELSE status
  BY DEF ServingInv, RecordInv
<1>3. /\ status' = status \/ status = 0
      /\ recorded[i] # 0 => recorded'[i] # 0
      /\ (i < at /\ ~overruled') =>
             IF status # 0
             THEN recorded'[i] = recorded[i]
             ELSE \/ status' # 0 /\ recorded'[i] = status'
                  \/ status' = 200 /\ recorded'[i] = recorded[i]
  BY <1>1 DEF WriterCalled
<1>4. recorded'[i] # 0
  BY <1>2, <1>3
<1>5. ASSUME InsideOnly(i)'
      PROVE  recorded'[i] = IF status' = 0 THEN 200 ELSE status'
  <2>1. /\ ~overruled' /\ \A w \in writers' : w > i
        /\ writers' = writers \cup {at} /\ ~overruled
    BY <1>5 DEF InsideOnly, WriterCalled
  <2>2. i < at
    BY <1>1, <2>1
  <2>3. InsideOnly(i)
    BY <2>1 DEF InsideOnly
  <2>4. recorded[i] = IF status = 0 THEN 200 ELSE status
    BY <1>2, <2>3
  <2>5. CASE status # 0
    BY <1>3, <2>1, <2>2, <2>4, <2>5
  <2>6. CASE status = 0
    <3>1. \/ status' # 0 /\ recorded'[i] = status'
          \/ status' = 200 /\ recorded'[i] = recorded[i]
      BY <1>3, <2>1, <2>2, <2>6
    <3> QED
      BY <2>4, <2>6, <3>1
  <2> QED
    BY <2>5, <2>6
<1> QED
  BY <1>4, <1>5

LEMMA RecordStep ==
    ASSUME ServingInv, [Serve]_vars
    PROVE  RecordInv'
<1>0. /\ RecordInv /\ recorded \in [DOMAIN layers -> {0} \cup 100..599]
      /\ Len(entered) \in Nat /\ at \in Nat
      /\ at # 0 => at \in 1..Len(entered)
      /\ (at # 0 /\ calling) => at = Len(entered)
      /\ 1..Len(entered) \subseteq DOMAIN layers
      /\ header \in BOOLEAN
  BY PlaceLemma, TypeParts DEF ServingInv, PlaceInv, DataTyped
<1>1. CASE Enters
  <2>1. /\ at # 0 /\ calling /\ layers[at] # "handler" /\ CallNext
        /\ recorded' = IF layers[at] = "logging"
                       THEN [recorded EXCEPT ![at] = 200]
                       ELSE recorded
        /\ UNCHANGED <<layers, calling, status, writers, overruled>>
    BY <1>1, EntersLemma DEF Middlewares
  <2>2. at = Len(entered) /\ Len(entered') = at + 1
    BY <2>1, CallNextLemma
  <2>3. ASSUME NEW i \in 1..Len(entered'), layers[i] = "logging", i < Len(entered')
        PROVE  /\ recorded'[i] # 0
               /\ InsideOnly(i)' => recorded'[i] = IF status' = 0 THEN 200 ELSE status'
    <3>1. CASE i < at
      <4>1. i \in 1..Len(entered) /\ i < Len(entered)
        BY <1>0, <2>2, <3>1
      <4>2. recorded'[i] = recorded[i]
        BY <1>0, <2>1, <3>1, <4>1
      <4>3. InsideOnly(i)' <=> InsideOnly(i)
        BY <2>1 DEF InsideOnly
      <4>4. /\ recorded[i] # 0
            /\ InsideOnly(i) => recorded[i] = IF status = 0 THEN 200 ELSE status
        BY <1>0, <2>3, <4>1 DEF RecordInv
      <4> QED
        BY <2>1, <4>2, <4>3, <4>4
    <3>2. CASE i = at
      <4>1. recorded'[i] = 200
        BY <1>0, <2>1, <2>3, <3>2
      <4>2. ASSUME InsideOnly(i)' PROVE status = 0
        <5>1. \A w \in writers : w > at /\ w \in 1..at
          BY <2>1, <2>2, <3>2, <4>2 DEF InsideOnly, ServingInv, WritersInv
        <5>2. writers = {}
          BY <1>0, <5>1
        <5> QED
          BY <2>1, <5>2 DEF ServingInv, WritersInv
      <4> QED
        BY <2>1, <4>1, <4>2
    <3> QED
      BY <1>0, <2>2, <2>3, <3>1, <3>2
  <2> QED
    BY <2>1, <2>3 DEF RecordInv
<1>2. ASSUME WriterCalled, ~calling' => layers[Len(entered)] # "logging"
      PROVE  RecordInv'
  <2>1. UNCHANGED <<layers, entered>>
    BY <1>2 DEF WriterCalled
  <2> QED
    BY <1>2, <2>1, CalledRecord DEF RecordInv
<1>3. CASE Answers
  <2>1. layers[Len(entered)] # "logging" /\ WriterCalled
    BY <1>0, <1>3, AnswersLemma
  <2> QED
    BY <1>2, <2>1
<1>4. CASE Writes
  <2>1. WriterCalled /\ calling' = calling
    BY <1>4, WritesLemma
  <2> QED
    BY <1>0, <1>2, <2>1 DEF RecordInv
<1>5. CASE Concludes
  <2>1. /\ layers[Len(entered)] # "logging"
        /\ UNCHANGED <<layers, status, recorded, entered, writers, overruled>>
    BY <1>0, <1>5, ConcludesLemma
  <2> QED
    BY <1>0, <2>1 DEF RecordInv, InsideOnly
<1>6. CASE Returns
  <2>1. /\ UNCHANGED <<layers, calling, header, recorded, entered, writers, overruled>>
        /\ at = 1 => SendStatus(200, header)
        /\ at # 1 => status' = status
    BY <1>6, ReturnsLemma
  <2>2. status' = status \/ (status = 0 /\ status' = 200)
    BY <2>1 DEF SendStatus, Informational, response
  <2>3. (IF status' = 0 THEN 200 ELSE status') = IF status = 0 THEN 200 ELSE status
    BY <2>2
  <2>4. \A i : InsideOnly(i)' <=> InsideOnly(i)
    BY <2>1 DEF InsideOnly
  <2> QED
    BY <1>0, <2>1, <2>3, <2>4 DEF RecordInv
<1>7. CASE Panics
  <2>1. /\ at # 0 /\ layers[at] \in {"handler", "other"}
        /\ UNCHANGED <<layers, status, recorded, entered, writers, overruled>>
    BY <1>7, PanicsLemma
  <2>2. layers[Len(entered)] # "logging"
    BY <1>0, <2>1 DEF RecordInv
  <2>3. \A i : InsideOnly(i)' <=> InsideOnly(i)
    BY <2>1 DEF InsideOnly
  <2> QED
    BY <1>0, <2>1, <2>2, <2>3 DEF RecordInv
<1>8. CASE UNCHANGED vars
  BY <1>0, <1>8 DEF vars, RecordInv, InsideOnly
<1> QED
  BY <1>1, <1>3, <1>4, <1>5, <1>6, <1>7, <1>8, ServeByKind

\* What is above the low end of a range and not in it is above the high end.
LEMMA BeyondRange ==
    ASSUME NEW low \in Nat, NEW high \in Nat, NEW i \in Nat,
           low < i, i \notin (low + 1)..high
    PROVE  high < i
OBVIOUS

LEMMA LogStep ==
    ASSUME ServingInv, [Serve]_vars
    PROVE  LogInv'
<1>0. /\ LogInv
      /\ Len(entered) \in Nat /\ at \in Nat
      /\ at # 0 => at \in 1..Len(entered)
      /\ (at # 0 /\ calling) => at = Len(entered)
      /\ 1..Len(entered) \subseteq DOMAIN layers
      /\ header \in BOOLEAN
      /\ log \in [DOMAIN layers -> LogLines]
      /\ panicked => at = 0
  BY PlaceLemma, TypeParts DEF ServingInv, PlaceInv, DataTyped
<1>1. CASE Enters
  <2>1. at # 0 /\ calling /\ layers[at] # "handler" /\ CallNext
    BY <1>1, EntersLemma DEF Middlewares
  <2>2. at' = at + 1 /\ Len(entered') = at + 1
    BY <2>1, CallNextLemma
  <2>3. at' # 0 /\ \A i \in 1..Len(entered') : ~(at' < i)
    BY <1>0, <2>2
  <2> QED
    BY <2>3 DEF LogInv
<1>2. CASE Answers
  <2>1. at # 0 /\ calling /\ UNCHANGED <<at, entered>>
    BY <1>2, AnswersLemma DEF WriterCalled
  <2>2. at' # 0 /\ \A i \in 1..Len(entered') : ~(at' < i)
    BY <1>0, <2>1
  <2> QED
    BY <2>2 DEF LogInv
<1>3. CASE Writes
  <2>1. /\ at # 0 /\ UNCHANGED <<layers, at, log, panicked, entered, unwound>>
        /\ \A i \in DOMAIN layers : ~(i < at) => recorded'[i] = recorded[i]
    BY <1>3, WritesLemma DEF WriterCalled
  <2>2. \A i \in 1..Len(entered) : at < i => recorded'[i] = recorded[i]
    BY <1>0, <2>1
  <2> QED
    BY <1>0, <2>1, <2>2 DEF LogInv
<1>4. CASE Concludes
  BY <1>0, <1>4, ConcludesLemma DEF LogInv
<1>5. CASE Returns
  <2>1. /\ at # 0 /\ at' = at - 1
        /\ log' = IF layers[at] = "logging"
                  THEN [log EXCEPT ![at] = Line(recorded[at])]
                  ELSE log
        /\ at = 1 => SendStatus(200, header)
        /\ UNCHANGED <<layers, recorded, panicked, entered, unwound>>
    BY <1>5, ReturnsLemma
  <2>2. ~panicked
    BY <1>0, <2>1
  <2>3. at' = 0 => status' # 0
    BY <1>0, <2>1 DEF SendStatus, Informational, response
  <2>4. ASSUME NEW i \in (1..Len(entered)) \ unwound, layers[i] = "logging", at - 1 < i
        PROVE  log'[i] = Line(recorded[i])
    <3>1. CASE i = at
      BY <1>0, <2>1, <2>4, <3>1
    <3>2. CASE i # at
      <4>1. at < i
        BY <1>0, <2>4, <3>2
      <4>2. log'[i] = log[i]
        BY <1>0, <2>1, <3>2
      <4> QED
        BY <1>0, <2>2, <2>4, <4>1, <4>2 DEF LogInv
    <3> QED
      BY <3>1, <3>2
  <2> QED
    BY <2>1, <2>3, <2>4 DEF LogInv
<1>6. CASE Panics
  <2>1. CASE panicked' = TRUE
    BY <2>1 DEF LogInv
  <2>2. CASE panicked' # TRUE
    <3>1. /\ at' \in 1..(at - 1) /\ unwound' = unwound \cup (at' + 1)..at
          /\ panicked' = panicked
          /\ UNCHANGED <<layers, log, recorded, entered>>
      BY <1>6, <2>2, PanicsLemma
    <3>2. at # 0 /\ at' # 0 /\ at' \in Nat
      BY <1>0, <3>1
    <3>3. ~panicked
      BY <1>0, <3>2
    <3>4. ASSUME NEW i \in 1..Len(entered), i \notin unwound', layers[i] = "logging",
                 at' < i
          PROVE  log[i] = Line(recorded[i])
      <4>1. i \notin unwound /\ i \notin (at' + 1)..at
        BY <3>1, <3>4
      <4>2. at < i
        <5>1. i \in Nat /\ at \in Nat /\ at' \in Nat
          BY <1>0, <3>2
        <5> QED
          BY <3>4, <4>1, <5>1, BeyondRange
      <4> QED
        BY <1>0, <3>3, <3>4, <4>1, <4>2 DEF LogInv
    <3> QED
      BY <3>1, <3>2, <3>4 DEF LogInv
  <2> QED
    BY <2>1, <2>2
<1>7. CASE UNCHANGED vars
  BY <1>0, <1>7 DEF vars, LogInv
<1> QED
  BY <1>1, <1>2, <1>3, <1>4, <1>5, <1>6, <1>7, ServeByKind

\* A cookie that is set too late: Sessioned is only now entered, and it is the
\* only one, so whoever wrote before is outside it.
LEMMA LateCookie ==
    ASSUME ServingInv, at # 0, calling, layers[at] = "sessioned", status # 0
    PROVE  WrittenOutside
<1>1. /\ writers \subseteq 1..Len(entered)
      /\ writers # {}
      /\ at \notin writers
  BY DEF ServingInv, WritersInv
<1>2. /\ at = Len(entered) /\ at \in Nat
      /\ at \in 1..Len(layers) /\ Len(layers) \in Nat
  BY PlaceLemma DEF ServingInv, PlaceInv
<1>3. PICK w \in writers : TRUE
  BY <1>1
<1>4. w \in 1..at /\ w # at
  BY <1>1, <1>2, <1>3
<1>5. \A i \in 1..w : i \in 1..Len(layers) /\ i # at
  BY <1>2, <1>4
<1>6. \A i \in 1..w : layers[i] # "sessioned"
  BY <1>2, <1>5, LayersLemma DEF ServingInv
<1> QED
  BY <1>3, <1>6 DEF WrittenOutside

LEMMA CookieStep ==
    ASSUME ServingInv, [Serve]_vars
    PROVE  CookieInv'
<1>0. CookieInv /\ header \in BOOLEAN /\ sent \in BOOLEAN
  BY TypeParts DEF ServingInv, DataTyped
<1>1. ASSUME UNCHANGED layers, writers \subseteq writers', WrittenOutside
      PROVE  WrittenOutside'
  BY <1>1 DEF WrittenOutside
<1>2. CASE Enters
  <2>1. /\ at # 0 /\ calling
        /\ layers[at] # "sessioned" => header' = header
        /\ UNCHANGED <<layers, status, sent, writers>>
    BY <1>2, EntersLemma
  <2> QED
    BY <1>0, <1>1, <2>1, LateCookie DEF CookieInv
<1>3. CASE Answers
  <2>1. /\ at # 0 /\ calling
        /\ header' \in BOOLEAN
        /\ layers[at] # "sessioned" => header' = header
        /\ layers' = layers /\ writers' = writers \cup {at}
        /\ UNCHANGED <<status, sent>> \/ sent' = header'
    BY <1>3, AnswersLemma DEF WriterCalled
  <2>2. CASE sent' = header'
    BY <2>2 DEF CookieInv
  <2>3. CASE UNCHANGED <<status, sent>> /\ layers[at] = "sessioned"
    <3>1. status # 0 => WrittenOutside'
      BY <1>1, <2>1, <2>3, LateCookie
    <3> QED
      BY <2>3, <3>1 DEF CookieInv
  <2>4. CASE UNCHANGED <<status, sent>> /\ layers[at] # "sessioned"
    BY <1>0, <1>1, <2>1, <2>4 DEF CookieInv
  <2> QED
    BY <2>1, <2>2, <2>3, <2>4
<1>4. CASE Writes
  <2>1. /\ layers' = layers /\ writers' = writers \cup {at} /\ header' = header
        /\ UNCHANGED <<status, sent>> \/ sent' = header'
    BY <1>4, WritesLemma DEF WriterCalled
  <2> QED
    BY <1>0, <1>1, <2>1 DEF CookieInv
<1>5. CASE Concludes
  BY <1>0, <1>1, <1>5, ConcludesLemma DEF CookieInv
<1>6. CASE Returns
  <2>1. /\ UNCHANGED <<layers, header, writers>>
        /\ at = 1 => SendStatus(200, header)
        /\ at # 1 => UNCHANGED <<status, sent>>
    BY <1>6, ReturnsLemma
  <2>2. UNCHANGED <<status, sent>> \/ sent' = header
    BY <2>1 DEF SendStatus, Informational, response
  <2>3. WrittenOutside => WrittenOutside'
    BY <1>1, <2>1
  <2>4. CASE sent' = header
    BY <2>1, <2>4 DEF CookieInv
  <2>5. CASE UNCHANGED <<status, sent>>
    BY <1>0, <2>1, <2>3, <2>5 DEF CookieInv
  <2> QED
    BY <2>2, <2>4, <2>5
<1>7. CASE Panics
  BY <1>0, <1>1, <1>7, PanicsLemma DEF CookieInv
<1>8. CASE UNCHANGED vars
  BY <1>0, <1>1, <1>8 DEF vars, CookieInv
<1> QED
  BY <1>2, <1>3, <1>4, <1>5, <1>6, <1>7, <1>8, ServeByKind

LEMMA LineType ==
    ASSUME NEW code \in {0} \cup 100..599
    PROVE  Line(code) \in LogLines /\ Line(code) # Unlogged
<1>1. Level(code) \in {"info", "warn", "error"} /\ code \in 0..599
  BY DEF Level
<1>2. Line(code) = <<Level(code), code>> /\ Unlogged = <<"none", 0>>
  BY DEF Line, Unlogged
<1>3. Level(code) # "none"
  BY <1>1
<1> QED
  BY <1>1, <1>2, <1>3 DEF LogLines

LEMMA DataStep ==
    ASSUME ServingInv, [Serve]_vars, UNCHANGED layers
    PROVE  DataTyped'
<1>0. /\ calling \in BOOLEAN
      /\ status \in {0, 101} \cup 200..599
      /\ header \in BOOLEAN
      /\ sent \in BOOLEAN
      /\ recorded \in [DOMAIN layers -> {0} \cup 100..599]
      /\ log \in [DOMAIN layers -> LogLines]
      /\ panicked \in BOOLEAN
      /\ writes \in 0..MaxWrites
      /\ overruled \in BOOLEAN
      /\ unwound \in SUBSET DOMAIN layers
  BY TypeParts DEF ServingInv, DataTyped
<1>a. log \in [DOMAIN layers -> LogLines]
  BY <1>0
<1>b. panicked \in BOOLEAN
  BY <1>0
<1>1. /\ MaxWrites \in Nat
      /\ at # 0 => at \in DOMAIN layers
  BY PlaceLemma, ResponseAssumption
<1>2. CASE Enters
  <2>1. recorded' = [recorded EXCEPT ![at] = 200] \/ recorded' = recorded
    BY <1>2, EntersLemma
  <2>2. recorded' \in [DOMAIN layers -> {0} \cup 100..599]
    BY <1>0, <2>1
  <2>3. /\ header' \in BOOLEAN
        /\ UNCHANGED <<calling, status, sent, log, panicked, writes, overruled, unwound>>
    BY <1>2, EntersLemma
  <2> QED
    BY <1>0, <2>2, <2>3 DEF DataTyped
<1>3. CASE Answers
  <2>1. header' \in BOOLEAN /\ calling' = FALSE /\ writes' = writes /\ WriterCalled
    BY <1>3, AnswersLemma
  <2>2. /\ recorded' \in [DOMAIN layers -> {0} \cup 100..599] /\ overruled' \in BOOLEAN
        /\ UNCHANGED <<log, panicked, unwound>>
        /\ \/ UNCHANGED <<status, sent>>
           \/ status' \in {101} \cup 200..599 /\ sent' = header'
    BY <2>1 DEF WriterCalled
  <2>3. status' \in {0, 101} \cup 200..599
    BY <1>0, <2>2
  <2>4. sent' \in BOOLEAN
    BY <1>0, <2>1, <2>2
  <2>5. log' \in [DOMAIN layers -> LogLines]
    <3>1. log' = log
      BY <2>2
    <3> QED
      BY <1>a, <3>1
  <2>6. panicked' \in BOOLEAN /\ calling' \in BOOLEAN
    <3>1. panicked' = panicked /\ calling' = FALSE
      BY <2>1, <2>2
    <3> QED
      BY <1>b, <3>1
  <2>7. writes' \in 0..MaxWrites /\ unwound' \in SUBSET DOMAIN layers
    BY <1>0, <2>1, <2>2
  <2> QED
    BY <2>1, <2>2, <2>3, <2>4, <2>5, <2>6, <2>7 DEF DataTyped
<1>4. CASE Writes
  <2>1. /\ writes < MaxWrites /\ writes' = writes + 1
        /\ header' = header /\ calling' = calling /\ WriterCalled
    BY <1>4, WritesLemma
  <2>2. writes' \in 0..MaxWrites
    BY <1>0, <1>1, <2>1
  <2> QED
    BY <1>0, <2>1, <2>2 DEF WriterCalled, DataTyped
<1>5. CASE Concludes
  BY <1>0, <1>5, ConcludesLemma DEF DataTyped
<1>6. CASE Returns
  <2>1. /\ at # 0
        /\ log' = IF layers[at] = "logging"
                  THEN [log EXCEPT ![at] = Line(recorded[at])]
                  ELSE log
        /\ SendStatus(200, header) \/ UNCHANGED <<status, sent>>
        /\ UNCHANGED <<calling, header, recorded, panicked, writes, overruled, unwound>>
    BY <1>6, ReturnsLemma
  <2>2. recorded[at] \in {0} \cup 100..599
    BY <1>0, <1>1, <2>1
  <2>3. Line(recorded[at]) \in LogLines
    BY <2>2, LineType
  <2>4. log' \in [DOMAIN layers -> LogLines]
    BY <1>a, <2>1, <2>3
  <2>5. status' \in {0, 101} \cup 200..599 /\ sent' \in BOOLEAN
    BY <1>0, <2>1 DEF SendStatus, Informational, response
  <2> QED
    BY <1>0, <2>1, <2>4, <2>5 DEF DataTyped
<1>7. CASE Panics
  <2>1. /\ panicked' \in BOOLEAN /\ calling' \in BOOLEAN
        /\ UNCHANGED <<status, sent, header, recorded, log, writes, overruled>>
    BY <1>0, <1>7, PanicsLemma
  <2>2. unwound' \subseteq unwound \cup 1..at
    <3>1. CASE unwound' = unwound
      BY <3>1
    <3>2. CASE at' \in 1..(at - 1) /\ unwound' = unwound \cup (at' + 1)..at
      <4>1. at' \in Int /\ at \in Nat /\ at' >= 1
        BY <3>2, PlaceLemma
      <4> QED
        BY <3>2, <4>1
    <3> QED
      BY <1>7, <3>1, <3>2, PanicsLemma
  <2>3. 1..at \subseteq DOMAIN layers
    BY <1>7, PanicsLemma, PlaceLemma
  <2> QED
    BY <1>0, <2>1, <2>2, <2>3 DEF DataTyped
<1>8. CASE UNCHANGED vars
  BY <1>0, <1>8 DEF vars, DataTyped
<1> QED
  BY <1>2, <1>3, <1>4, <1>5, <1>6, <1>7, <1>8, ServeByKind

LEMMA TypeStep ==
    ASSUME ServingInv, [Serve]_vars
    PROVE  TypeOK'
<1>0. at \in Nat /\ Len(entered) \in Nat /\ Len(layers) \in Nat
      /\ DOMAIN layers = 1..Len(layers) /\ Positions = DOMAIN layers
      /\ unwrapped = 0 /\ unwrapped \in 0..Len(given)
  BY PlaceLemma, LayersLemma DEF ServingInv, ShapeInv, TypeOK
<1>1. given' = given /\ layers' = layers /\ unwrapped' = unwrapped
  BY DEF Serve, LoggingCalls, SessionedCalls, SessionedFails, ExactPathCalls,
         ExactPathRefuses, OtherCalls, Writes, Concludes, Returns, Panics, chain, vars
<1>b. Positions' = Positions /\ unwrapped' \in 0..Len(given')
  BY <1>0, <1>1 DEF Positions
<1>2. ShapeInv' /\ PlaceInv' /\ EnteredInv' /\ WritersInv' /\ RecordInv' /\ DataTyped'
  BY <1>1, ShapeStep, PlaceStep, EnteredStep, WritersStep, RecordStep, DataStep
<1>3. /\ at' \in 0..Len(layers) /\ at' <= Len(entered')
      /\ Len(entered') \in 1..Len(layers)
  BY <1>1, <1>2 DEF PlaceInv
<1>4. writers' \subseteq 1..Len(layers)
  BY <1>0, <1>2, <1>3 DEF WritersInv
<1>5. ASSUME NEW i \in DOMAIN layers, layers[i] = "logging", i < at'
      PROVE  recorded'[i] # 0
  <2>1. i \in 1..Len(entered') /\ i < Len(entered')
    BY <1>0, <1>3, <1>5
  <2> QED
    BY <1>1, <1>2, <1>5, <2>1 DEF RecordInv
<1>6. /\ given' \in Chains /\ layers' \in Seq(Layers)
      /\ entered' \in Seq(Layers) /\ writers' \in SUBSET DOMAIN layers
  <2>1. given' \in Chains /\ entered' \in Seq(Layers)
    BY <1>2 DEF ShapeInv, EnteredInv
  <2>2. layers' \in Seq(Layers)
    BY <1>1, LayersLemma DEF ServingInv
  <2> QED
    BY <1>0, <1>4, <2>1, <2>2
<1>7. /\ calling' \in BOOLEAN
      /\ status' \in {0} \cup FinalStatuses
      /\ header' \in BOOLEAN
      /\ sent' \in BOOLEAN
      /\ panicked' \in BOOLEAN
      /\ writes' \in 0..MaxWrites
      /\ overruled' \in BOOLEAN
  BY <1>2 DEF DataTyped, FinalStatuses
<1>8. recorded' \in [Positions' -> {0} \cup 100..599]
  BY <1>0, <1>1, <1>2, <1>b DEF DataTyped
<1>9. log' \in [Positions' -> {"none", "info", "warn", "error"} \X (0..599)]
  BY <1>0, <1>1, <1>2, <1>b DEF DataTyped, LogLines
<1>c. writers' \in SUBSET Positions' /\ unwound' \in SUBSET Positions'
  <2>1. writers' \in SUBSET DOMAIN layers
    BY <1>6
  <2>2. unwound' \in SUBSET DOMAIN layers'
    BY <1>2 DEF DataTyped
  <2> QED
    BY <1>0, <1>1, <1>b, <2>1, <2>2
<1>10. /\ at' \in 0..Len(layers')
       /\ \A i \in DOMAIN layers' : (layers'[i] = "logging" /\ i < at') => recorded'[i] # 0
  BY <1>1, <1>3, <1>5
<1> QED
  BY <1>6, <1>7, <1>8, <1>9, <1>10, <1>b, <1>c, Zenon DEF TypeOK, Layers

(***************************************************************************)
(* The invariant.                                                          *)
(***************************************************************************)
\* One round of Chain's loop puts the last of the middlewares left in front.
LEMMA WrapStep ==
    ASSUME ChainInv, unwrapped > 0, layers' = <<given[unwrapped]>> \o layers,
           unwrapped' = unwrapped - 1, given' = given
    PROVE  ChainInv'
<1>1. /\ given \in Seq(Middlewares) /\ Len(given) \in Nat
      /\ unwrapped \in 1..Len(given) /\ Len(given) \in unwrapped..Len(given)
  BY ResponseAssumption, LenProperties DEF ChainInv
<1> DEFINE left == SubSeq(given, unwrapped + 1, Len(given))
<1>2. SubSeq(given, unwrapped, Len(given)) = <<given[unwrapped]>> \o left
  BY <1>1, SubSeqRecursiveFirst
<1>3. /\ <<given[unwrapped]>> \in Seq(Layers) /\ left \in Seq(Layers)
      /\ <<"handler">> \in Seq(Layers)
  <2>1. given[unwrapped] \in Layers
    BY <1>1, ElementOfSeq DEF Layers
  <2>2. \A i \in (unwrapped + 1)..Len(given) : given[i] \in Layers
    BY <1>1, ElementOfSeq DEF Layers
  <2>3. left \in Seq(Layers)
    BY <1>1, <2>2, SubSeqProperties
  <2>4. "handler" \in Layers
    BY DEF Layers
  <2> QED
    BY <2>1, <2>3, <2>4
<1>4. <<given[unwrapped]>> \o (left \o <<"handler">>) =
          (<<given[unwrapped]>> \o left) \o <<"handler">>
  <2> HIDE DEF left
  <2>1. \A a, b, c \in Seq(Layers) : (a \o b) \o c = a \o (b \o c)
    BY ConcatAssociative
  <2> QED
    BY <1>3, <2>1
<1>5. layers' = SubSeq(given, unwrapped, Len(given)) \o <<"handler">>
  BY <1>2, <1>4 DEF ChainInv
<1>6. unwrapped - 1 \in 0..Len(given) /\ (unwrapped - 1) + 1 = unwrapped
  BY <1>1
<1>7. given \in Chains
  BY DEF ChainInv
<1> QED
  BY <1>5, <1>6, <1>7 DEF ChainInv

\* After the last round every middleware is in place.
LEMMA ChainIsComplete ==
    ASSUME ChainInv, unwrapped = 0
    PROVE  ShapeInv
<1>1. given \in Seq(Middlewares) /\ Len(given) \in Nat
  BY ResponseAssumption, LenProperties DEF ChainInv
<1>2. SubSeq(given, unwrapped + 1, Len(given)) = given
  <2>1. unwrapped + 1 = 1
    OBVIOUS
  <2> QED
    BY <1>1, <2>1, SubSeqFull
<1> QED
  BY <1>2 DEF ChainInv, ShapeInv

\* The invariant of the loop holds before its first round.
LEMMA ResponseInit ==
    Init => ResponseInv
<1> SUFFICES ASSUME Init PROVE ResponseInv
  OBVIOUS
<1>1. /\ given \in Chains /\ given \in Seq(Middlewares) /\ Len(given) \in Nat
      /\ unwrapped = Len(given) /\ layers = <<"handler">> /\ entered = <<>>
  BY ResponseAssumption, LenProperties DEF Init
<1>2. SubSeq(given, Len(given) + 1, Len(given)) \o <<"handler">> = <<"handler">>
  <2>1. Len(given) < Len(given) + 1 /\ Len(given) \in Int /\ Len(given) + 1 \in Int
    BY <1>1
  <2>2. SubSeq(given, Len(given) + 1, Len(given)) = <<>>
    BY <2>1, SubSeqEmpty
  <2>3. <<"handler">> \in Seq(Layers)
    BY DEF Layers
  <2> QED
    BY <2>2, <2>3, ConcatEmptySeq
<1>3. ChainInv
  BY <1>1, <1>2 DEF ChainInv
<1>4. NothingYet
  BY DEF Init, NothingYet
<1> QED
  BY <1>1, <1>3, <1>4 DEF ResponseInv

\* When the request arrives the chain is complete.
LEMMA ArriveStep ==
    ASSUME ResponseInv, Arrive
    PROVE  ServingInv'
<1>1. /\ entered = <<>> /\ unwrapped = 0 /\ at' = 1 /\ entered' = <<layers[1]>>
      /\ UNCHANGED <<given, layers, unwrapped, calling, status, sent, header, recorded,
                     log, panicked, writes, writers, overruled, unwound>>
  BY DEF Arrive, chain, response
<1>2. ShapeInv /\ NothingYet
  BY <1>1, ChainIsComplete DEF ResponseInv
<1>3. /\ layers \in Seq(Layers)
      /\ Len(layers) \in Nat \ {0}
      /\ DOMAIN layers = 1..Len(layers)
      /\ Positions = 1..Len(layers)
      /\ 1 \in DOMAIN layers
      /\ layers[1] \in Layers
  BY <1>2, LayersLemma
<1>4. /\ entered' \in Seq(Layers) /\ Len(entered') = 1 /\ entered'[1] = layers[1]
  BY <1>1, <1>3
<1>5. /\ writers' = {} /\ status' = 0 /\ calling' = TRUE /\ at' = 1
      /\ header' = FALSE /\ sent' = FALSE /\ panicked' = FALSE /\ writes' = 0
      /\ overruled' = FALSE /\ unwound' = {}
  BY <1>1, <1>2 DEF NothingYet
<1>6. ShapeInv'
  BY <1>1, <1>2 DEF ShapeInv
<1>7. PlaceInv' /\ EnteredInv'
  BY <1>1, <1>3, <1>4, <1>5 DEF PlaceInv, EnteredInv
<1>8. WritersInv' /\ RecordInv' /\ LogInv' /\ CookieInv'
  <2>1. \A i \in 1..Len(entered') : ~(i < Len(entered')) /\ ~(at' < i)
    BY <1>4, <1>5
  <2> QED
    BY <1>4, <1>5, <2>1 DEF WritersInv, RecordInv, LogInv, CookieInv
<1>9. TypeOK'
  <2>1. Positions' = Positions
    BY <1>1 DEF Positions
  <2>2. /\ recorded' = [i \in Positions |-> 0]
        /\ log' = [i \in Positions |-> <<"none", 0>>]
    BY <1>1, <1>2 DEF NothingYet, Unlogged
  <2>3. /\ recorded' \in [Positions' -> {0} \cup 100..599]
        /\ log' \in [Positions' -> {"none", "info", "warn", "error"} \X (0..599)]
    BY <2>1, <2>2
  <2>4. writes' \in 0..MaxWrites /\ at' \in 0..Len(layers')
    BY <1>1, <1>3, <1>5, ResponseAssumption
  <2>5. \A i \in DOMAIN layers' : ~(i < at')
    BY <1>1, <1>3, <1>5
  <2>6. given' \in Chains /\ layers' \in Seq(Layers) /\ entered' \in Seq(Layers)
    BY <1>1, <1>3, <1>4, <1>6 DEF ShapeInv
  <2>7. unwrapped' \in 0..Len(given')
    BY <1>1 DEF ResponseInv, ChainInv
  <2> QED
    BY <1>5, <2>3, <2>4, <2>5, <2>6, <2>7 DEF TypeOK, Layers
<1> QED
  BY <1>6, <1>7, <1>8, <1>9 DEF ServingInv

\* While Chain runs, the variables have their types too.
LEMMA NothingYetTyped ==
    ASSUME ResponseInv, entered = <<>>
    PROVE  TypeOK
<1>1. given \in Chains /\ given \in Seq(Middlewares) /\ Len(given) \in Nat
  BY ResponseAssumption, LenProperties DEF ResponseInv, ChainInv
<1>2. unwrapped \in 0..Len(given)
  BY DEF ResponseInv, ChainInv
<1>3. layers \in Seq(Layers) /\ Len(layers) \in Nat
  <2>1. SubSeq(given, unwrapped + 1, Len(given)) \in Seq(Middlewares)
    BY <1>1, <1>2, SubSeqProperties
  <2>2. SubSeq(given, unwrapped + 1, Len(given)) \in Seq(Layers) /\ <<"handler">> \in Seq(Layers)
    BY <2>1, SeqMonotonic DEF Layers
  <2> QED
    BY <2>2, ConcatProperties, LenProperties DEF ResponseInv, ChainInv
<1>4. /\ at = 0 /\ calling = TRUE /\ status = 0 /\ header = FALSE /\ sent = FALSE
      /\ recorded = [i \in Positions |-> 0]
      /\ log = [i \in Positions |-> <<"none", 0>>]
      /\ panicked = FALSE /\ writes = 0
      /\ writers = {} /\ overruled = FALSE /\ unwound = {}
  BY DEF ResponseInv, NothingYet, Unlogged
<1>5. /\ recorded \in [Positions -> {0} \cup 100..599]
      /\ log \in [Positions -> {"none", "info", "warn", "error"} \X (0..599)]
  BY <1>4
<1>6. writes \in 0..MaxWrites /\ at \in 0..Len(layers) /\ entered \in Seq(Layers)
  BY <1>3, <1>4, ResponseAssumption
<1>7. \A i \in DOMAIN layers : ~(i < at)
  <2>1. DOMAIN layers = 1..Len(layers)
    BY <1>3, LenProperties
  <2> QED
    BY <1>4, <2>1
<1> QED
  BY <1>1, <1>2, <1>3, <1>4, <1>5, <1>6, <1>7 DEF TypeOK, Layers

\* Every reachable state satisfies the invariant, whatever chain was built.
THEOREM ResponseInvariant ==
    Spec => []ResponseInv
<1>1. ResponseInv /\ [Next]_vars => ResponseInv'
  <2> SUFFICES ASSUME ResponseInv, [Next]_vars PROVE ResponseInv'
    OBVIOUS
  <2>1. CASE Wrap
    <3>1. /\ unwrapped > 0 /\ layers' = <<given[unwrapped]>> \o layers
          /\ unwrapped' = unwrapped - 1 /\ given' = given
          /\ UNCHANGED <<at, calling, status, sent, header, recorded, log, panicked,
                         writes, entered, writers, overruled, unwound>>
      BY <2>1 DEF Wrap, response, history
    <3>2. ChainInv'
      BY <3>1, WrapStep DEF ResponseInv
    <3>3. entered = <<>> /\ NothingYet
      BY <3>1 DEF ResponseInv, ServingInv, ShapeInv
    <3>4. NothingYet'
      BY <3>1, <3>3 DEF NothingYet, Positions
    <3> QED
      BY <3>1, <3>2, <3>3, <3>4 DEF ResponseInv
  <2>2. CASE Arrive
    <3>1. ServingInv'
      BY <2>2, ArriveStep
    <3>2. UNCHANGED <<given, layers, unwrapped>> /\ entered' # <<>>
      BY <2>2 DEF Arrive, chain
    <3> QED
      BY <3>1, <3>2 DEF ResponseInv, ChainInv
  <2>3. CASE Serve
    <3>1. at # 0
      BY <2>3
      DEF Serve, LoggingCalls, SessionedCalls, SessionedFails, ExactPathCalls,
          ExactPathRefuses, OtherCalls, Writes, Concludes, Returns, Panics, Is
    <3>2. entered # <<>>
      BY <3>1 DEF ResponseInv, NothingYet
    <3>3. ServingInv'
      BY <2>3, <3>2, TypeStep, ShapeStep, PlaceStep, EnteredStep, WritersStep,
         RecordStep, LogStep, CookieStep DEF ResponseInv, ServingInv
    <3>4. entered' # <<>>
      BY <3>3 DEF ServingInv, PlaceInv
    <3>5. UNCHANGED <<given, layers, unwrapped>>
      BY <2>3
      DEF Serve, LoggingCalls, SessionedCalls, SessionedFails, ExactPathCalls,
          ExactPathRefuses, OtherCalls, Writes, Concludes, Returns, Panics, chain
    <3> QED
      BY <3>3, <3>4, <3>5 DEF ResponseInv, ChainInv
  <2>4. CASE UNCHANGED vars
    <3>1. CASE entered = <<>>
      BY <2>4, <3>1 DEF ResponseInv, ChainInv, NothingYet, Positions, vars
    <3>2. CASE entered # <<>>
      <4>1. ServingInv'
        BY <2>4, <3>2, TypeStep, ShapeStep, PlaceStep, EnteredStep, WritersStep,
           RecordStep, LogStep, CookieStep DEF ResponseInv, ServingInv
      <4> QED
        BY <2>4, <3>2, <4>1 DEF ResponseInv, ChainInv, vars
    <3> QED
      BY <3>1, <3>2
  <2> QED
    BY <2>1, <2>2, <2>3, <2>4 DEF Next
<1> QED
  BY ResponseInit, <1>1, PTL DEF Spec

\* The variables keep their types, and the status that a Logging layer is
\* going to log is never the zero of a fresh WrappedWriter (Logging sets 200).
THEOREM TypeCorrect ==
    Spec => []TypeOK
<1>1. ResponseInv => TypeOK
  <2> SUFFICES ASSUME ResponseInv PROVE TypeOK
    OBVIOUS
  <2>1. CASE entered # <<>>
    BY <2>1 DEF ResponseInv, ServingInv
  <2>2. CASE entered = <<>>
    BY <2>2, NothingYetTyped
  <2> QED
    BY <2>1, <2>2
<1> QED
  BY <1>1, ResponseInvariant, PTL

\* Chain's promise, from the invariant of its loop: the layers are entered in the
\* order in which the middlewares were given, and the handler through all of them.
THEOREM InOrderGivenHolds ==
    Spec => []InOrderGiven
<1>1. entered = <<>> => InOrderGiven
  BY EmptySeq DEF InOrderGiven
<1>2. ServingInv => InOrderGiven
  <2> SUFFICES ASSUME ServingInv PROVE InOrderGiven
    OBVIOUS
  <2>1. /\ layers = given \o <<"handler">> /\ layers \in Seq(Layers)
        /\ Len(layers) \in Nat
        /\ entered \in Seq(Layers) /\ Len(entered) \in 1..Len(layers)
        /\ \A i \in 1..Len(entered) : entered[i] = layers[i]
    BY LayersLemma DEF ServingInv, ShapeInv, PlaceInv, EnteredInv
  <2>2. /\ SubSeq(layers, 1, Len(entered)) \in Seq(Layers)
        /\ Len(SubSeq(layers, 1, Len(entered))) = Len(entered)
        /\ \A i \in 1..Len(entered) : SubSeq(layers, 1, Len(entered))[i] = layers[i]
    BY <2>1, SubSeqProperties
  <2>3. entered = SubSeq(layers, 1, Len(entered))
    BY <2>1, <2>2, SeqEqual
  <2> QED
    BY <2>1, <2>3 DEF InOrderGiven
<1>3. ResponseInv => InOrderGiven
  BY <1>1, <1>2 DEF ResponseInv
<1> QED
  BY <1>3, ResponseInvariant, PTL

LEMMA RecordedType ==
    ASSUME ServingInv, NEW i \in DOMAIN layers
    PROVE  recorded[i] \in {0} \cup 100..599
<1>1. recorded \in [DOMAIN layers -> {0} \cup 100..599]
  BY TypeParts DEF ServingInv, DataTyped
<1> QED
  BY <1>1

\* Logging's promise: every request whose response is sent is logged by every
\* Logging layer it went through, and with the status that was sent unless a
\* layer outside that one wrote or a second status was given; only a Logging layer
\* that a panic went through logs nothing.
THEOREM LoggedIsSentHolds ==
    Spec => []LoggedIsSent
<1>1. entered = <<>> => LoggedIsSent
  BY DEF LoggedIsSent
<1>2. ServingInv => LoggedIsSent
  <2> SUFFICES ASSUME ServingInv, at = 0, ~panicked,
                      NEW i \in (1..Len(entered)) \ unwound, layers[i] = "logging"
               PROVE  /\ log[i] # Unlogged
                      /\ InsideOnly(i) => log[i] = Line(status)
    BY DEF LoggedIsSent, InsideOnly
  <2>1. i \in DOMAIN layers /\ i \in Nat /\ i > 0 /\ Len(entered) \in Nat
    BY PlaceLemma
  <2>2. i < Len(entered)
    <3>1. ~calling /\ layers[Len(entered)] # "logging"
      BY DEF ServingInv, PlaceInv, RecordInv
    <3> QED
      BY <2>1, <3>1
  <2>3. log[i] = Line(recorded[i]) /\ status # 0
    BY <2>1 DEF ServingInv, LogInv
  <2>4. recorded[i] \in {0} \cup 100..599
    BY <2>1, RecordedType
  <2>5. InsideOnly(i) => recorded[i] = status
    BY <2>2, <2>3 DEF ServingInv, RecordInv
  <2>6. Line(recorded[i]) # Unlogged
    BY <2>4, LineType
  <2> QED
    BY <2>3, <2>5, <2>6
<1>3. ResponseInv => LoggedIsSent
  BY <1>1, <1>2 DEF ResponseInv
<1> QED
  BY <1>3, ResponseInvariant, PTL

\* Sessioned's promise: the cookie of a new session goes out with the response,
\* on the error paths too, unless a layer outside Sessioned wrote.
THEOREM CookieIsSentHolds ==
    Spec => []CookieIsSent
<1>1. NothingYet => CookieIsSent
  BY DEF NothingYet, CookieIsSent
<1>2. ServingInv => CookieIsSent
  <2> SUFFICES ASSUME ServingInv, at = 0, ~panicked, header,
                      \A w \in writers : \E i \in 1..w : layers[i] = "sessioned"
               PROVE  sent
    BY DEF CookieIsSent
  <2>1. status # 0
    BY DEF ServingInv, LogInv
  <2>2. ~WrittenOutside
    BY DEF WrittenOutside
  <2> QED
    BY <2>1, <2>2 DEF ServingInv, CookieInv
<1>3. ResponseInv => CookieIsSent
  BY <1>1, <1>2 DEF ResponseInv
<1> QED
  BY <1>3, ResponseInvariant, PTL
===============================================================================
