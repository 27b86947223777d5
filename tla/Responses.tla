------------------------------- MODULE Responses -------------------------------
(***************************************************************************)
(* How one response comes about: middleware.Chain wraps a handler, one     *)
(* middleware at a time; then a request goes through the layers, each free *)
(* to set headers and to write before and after it calls the next one,     *)
(* with the WrappedWriter through which Logging learns the status          *)
(* (http.go); and the writer of net/http at the bottom, which sends the    *)
(* first final status it is given, or 200, together with the headers as    *)
(* they are then.                                                          *)
(*                                                                         *)
(* The layers are Logging, Sessioned and ExactPath of this repository, any *)
(* number of others that applications write, and the handler innermost.    *)
(* Requests share nothing here, so there is one.                           *)
(***************************************************************************)
EXTENDS Naturals, Sequences

CONSTANTS
    Chains,     \* the lists of middlewares Chain may be given
    Statuses,   \* what layers pass to WriteHeader
    MaxWrites   \* bound on the calls of the writer by handler and others

Middlewares == {"logging", "sessioned", "exact", "other"}

ASSUME ResponseAssumption ==
    /\ Chains \subseteq Seq(Middlewares)
    /\ \A ms \in Chains : \A i, j \in DOMAIN ms :
           (ms[i] = "sessioned" /\ ms[j] = "sessioned") => i = j
    /\ Statuses \subseteq 100..599
    /\ MaxWrites \in Nat

VARIABLES
    given,      \* the middlewares, as they were passed to Chain
    layers,     \* what Chain has made of them so far: outermost first
    unwrapped,  \* how many of them Chain has still to put around the handler
    at,         \* the layer whose code runs; 0 while net/http's does
    calling,    \* is that layer still to call the next one?
    status,     \* the status sent, 0 while none is
    header,     \* is the session cookie in the header map?
    sent,       \* was it there when the headers were sent?
    recorded,   \* StatusCode of each Logging layer's WrappedWriter
    log,        \* how each Logging layer logged the request
    panicked,   \* did a panic reach net/http?
    writes,     \* calls of the writer by handler and other layers so far
    entered,    \* history: the layers, in the order they were entered
    writers,    \* history: the layers that called the writer
    overruled,  \* history: was a status given that is not the one sent?
    unwound     \* history: the layers that a panic went through

chain == <<given, layers, unwrapped>>
response == <<status, sent>>
history == <<entered, writers, overruled, unwound>>
vars == <<given, layers, unwrapped, at, calling, status, header, sent, recorded,
          log, panicked, writes, entered, writers, overruled, unwound>>

\* Where a layer can be once the chain is complete: the handler is innermost.
Positions == 1..(Len(given) + 1)

\* 1xx other than 101 (Switching Protocols) announces another status.
Informational(code) == code < 200 /\ code # 101

FinalStatuses == {101} \cup 200..599

\* A line of the log: how it was logged, and the status it shows.
Unlogged == <<"none", 0>>

Level(code) ==
    IF code >= 500 THEN "error" ELSE IF code >= 400 THEN "warn" ELSE "info"

Line(code) == <<Level(code), code>>

Init ==
    /\ given \in Chains
    /\ layers = <<"handler">>
    /\ unwrapped = Len(given)
    /\ at = 0
    /\ calling = TRUE
    /\ status = 0
    /\ header = FALSE
    /\ sent = FALSE
    /\ recorded = [i \in Positions |-> 0]
    /\ log = [i \in Positions |-> Unlogged]
    /\ panicked = FALSE
    /\ writes = 0
    /\ entered = <<>>
    /\ writers = {}
    /\ overruled = FALSE
    /\ unwound = {}

----------------------------------------------------------------------------
(* Chain, and the arrival of a request.                                    *)

\* Faulty variant of Wrap: the loop runs from the first to the last.
WrapForward ==
    /\ unwrapped > 0
    /\ layers' = <<given[Len(given) + 1 - unwrapped]>> \o layers
    /\ unwrapped' = unwrapped - 1
    /\ UNCHANGED <<given, at, calling, response, header, recorded, log, panicked,
                   writes, history>>

\* One round of Chain's loop, which runs from the last to the first: next = m(next).
Wrap ==
    /\ unwrapped > 0
    /\ layers' = <<given[unwrapped]>> \o layers
    /\ unwrapped' = unwrapped - 1
    /\ UNCHANGED <<given, at, calling, response, header, recorded, log, panicked,
                   writes, history>>

\* net/http calls what Chain has returned.
Arrive ==
    /\ unwrapped = 0
    /\ entered = <<>>
    /\ at' = 1
    /\ entered' = <<layers[1]>>
    /\ UNCHANGED <<chain, calling, response, header, recorded, log, panicked, writes,
                   writers, overruled, unwound>>

----------------------------------------------------------------------------
(* The writer, as layer `at' sees it.                                      *)

\* net/http: an informational status goes out at once and leaves the response
\* to come; of the others the first is sent, and later ones are ignored.
SendStatus(code, cookie) ==
    IF status = 0 /\ ~Informational(code)
    THEN status' = code /\ sent' = cookie
    ELSE UNCHANGED response

\* WrappedWriter.WriteHeader, for every Logging layer outside this one.
WriteHeader(code, cookie) ==
    /\ SendStatus(code, cookie)
    /\ recorded' = [i \in DOMAIN layers |->
                       IF i < at /\ layers[i] = "logging" THEN code ELSE recorded[i]]
    /\ overruled' = (overruled \/ status # 0 \/ Informational(code))
    /\ writers' = writers \cup {at}

\* Faulty variant of Write: WrappedWriter has a Write that records 200.
WriteRecorded ==
    /\ SendStatus(200, header)
    /\ recorded' = [i \in DOMAIN layers |->
                       IF i < at /\ layers[i] = "logging" THEN 200 ELSE recorded[i]]
    /\ writers' = writers \cup {at}
    /\ UNCHANGED overruled

\* WrappedWriter has no Write of its own: the implicit 200 is not recorded.
Write ==
    /\ SendStatus(200, header)
    /\ writers' = writers \cup {at}
    /\ UNCHANGED <<recorded, overruled>>

\* The layer calls the next one.
CallNext ==
    /\ at' = at + 1
    /\ entered' = Append(entered, layers[at + 1])

Is(layer) == at # 0 /\ layers[at] = layer

----------------------------------------------------------------------------
(* The layers.                                                             *)

\* Faulty variant of LoggingCalls: StatusCode is left at its zero value.
LoggingCallsUnset ==
    /\ Is("logging") /\ calling
    /\ CallNext
    /\ UNCHANGED <<chain, calling, response, header, recorded, log, panicked,
                   writes, writers, overruled, unwound>>

LoggingCalls ==
    /\ Is("logging") /\ calling
    /\ recorded' = [recorded EXCEPT ![at] = 200]
    /\ CallNext
    /\ UNCHANGED <<chain, calling, response, header, log, panicked, writes,
                   writers, overruled, unwound>>

\* The cookie is known, or a new one is set before the next layer is called.
SessionedCalls ==
    /\ Is("sessioned") /\ calling
    /\ \E new \in BOOLEAN : header' = (header \/ new)
    /\ CallNext
    /\ UNCHANGED <<chain, calling, response, recorded, log, panicked, writes,
                   writers, overruled, unwound>>

\* SessionExists fails, or GetSession does, perhaps with a new cookie set.
SessionedFails ==
    /\ Is("sessioned") /\ calling
    /\ \E new \in BOOLEAN :
           /\ header' = (header \/ new)
           /\ WriteHeader(500, header')
    /\ calling' = FALSE
    /\ UNCHANGED <<chain, at, log, panicked, writes, entered, unwound>>

ExactPathCalls ==
    /\ Is("exact") /\ calling
    /\ CallNext
    /\ UNCHANGED <<chain, calling, response, header, recorded, log, panicked,
                   writes, writers, overruled, unwound>>

\* Another path: http.NotFound.
ExactPathRefuses ==
    /\ Is("exact") /\ calling
    /\ WriteHeader(404, header)
    /\ calling' = FALSE
    /\ UNCHANGED <<chain, at, header, log, panicked, writes, entered, unwound>>

\* The handler, and layers from elsewhere on both sides of their call.
Writes ==
    /\ Is("handler") \/ Is("other")
    /\ writes < MaxWrites
    /\ writes' = writes + 1
    /\ Write \/ \E code \in Statuses : WriteHeader(code, header)
    /\ UNCHANGED <<chain, at, calling, header, log, panicked, entered, unwound>>

OtherCalls ==
    /\ Is("other") /\ calling
    /\ CallNext
    /\ UNCHANGED <<chain, calling, response, header, recorded, log, panicked,
                   writes, writers, overruled, unwound>>

\* The handler is done, or another layer answers by itself.
Concludes ==
    /\ Is("handler") \/ Is("other")
    /\ calling
    /\ calling' = FALSE
    /\ UNCHANGED <<chain, at, response, header, recorded, log, panicked, writes,
                   history>>

\* Faulty variant of Returns: Sessioned sets its cookie on the way back.
ReturnsWithCookie ==
    /\ at # 0
    /\ ~calling
    /\ at' = at - 1
    /\ header' = (header \/ layers[at] = "sessioned")
    /\ IF at = 1 THEN SendStatus(200, header') ELSE UNCHANGED response
    /\ UNCHANGED <<chain, calling, recorded, log, panicked, writes, history>>

\* A layer returns.  Only Logging has something left to do; when the
\* outermost has returned, net/http sends 200 if nothing was sent.
Returns ==
    /\ at # 0
    /\ ~calling
    /\ at' = at - 1
    /\ log' = IF layers[at] = "logging"
              THEN [log EXCEPT ![at] = Line(recorded[at])]
              ELSE log
    /\ IF at = 1 THEN SendStatus(200, header) ELSE UNCHANGED response
    /\ UNCHANGED <<chain, calling, header, recorded, panicked, writes, history>>

\* A panic.  No layer of this repository recovers, so what is left of their code
\* does not run.  Another layer outside may recover, and then answer by itself;
\* otherwise net/http does, and drops the connection.
Panics ==
    /\ Is("handler") \/ Is("other")
    /\ \/ /\ at' = 0
          /\ panicked' = TRUE
          /\ UNCHANGED <<calling, unwound>>
       \/ \E outer \in 1..(at - 1) :
              /\ layers[outer] = "other"
              /\ at' = outer
              /\ unwound' = unwound \cup (outer + 1)..at
              /\ calling' = FALSE
              /\ UNCHANGED panicked
    /\ UNCHANGED <<chain, response, header, recorded, log, writes, entered, writers,
                   overruled>>

\* A request is on its way through the layers.
Serve ==
    \/ LoggingCalls \/ SessionedCalls \/ SessionedFails
    \/ ExactPathCalls \/ ExactPathRefuses
    \/ OtherCalls \/ Writes \/ Concludes \/ Returns \/ Panics

Next == Wrap \/ Arrive \/ Serve

Spec == Init /\ [][Next]_vars

----------------------------------------------------------------------------
(* Properties.                                                             *)

(* The variables keep their types; the status a Logging layer will log is  *)
(* never the zero of a fresh WrappedWriter.                                *)
TypeOK ==
    /\ given \in Chains
    /\ layers \in Seq(Middlewares \cup {"handler"})
    /\ unwrapped \in 0..Len(given)
    /\ at \in 0..Len(layers)
    /\ calling \in BOOLEAN
    /\ status \in {0} \cup FinalStatuses
    /\ header \in BOOLEAN
    /\ sent \in BOOLEAN
    /\ recorded \in [Positions -> {0} \cup 100..599]
    /\ log \in [Positions -> {"none", "info", "warn", "error"} \X (0..599)]
    /\ panicked \in BOOLEAN
    /\ writes \in 0..MaxWrites
    /\ entered \in Seq(Middlewares \cup {"handler"})
    /\ writers \in SUBSET Positions
    /\ overruled \in BOOLEAN
    /\ unwound \in SUBSET Positions
    /\ \A i \in DOMAIN layers : (layers[i] = "logging" /\ i < at) => recorded[i] # 0

(* "Chain applies each middleware in the order they are provided": the     *)
(* loop that wraps from the last to the first leaves layers that a request *)
(* enters from the first one given inwards, and the handler last of all.   *)
InOrderGiven ==
    entered = SubSeq(given \o <<"handler">>, 1, Len(entered))

(* "Logging records the response status": every request whose response is  *)
(* sent is logged by each Logging layer it went through, unless a panic    *)
(* went through that layer too, and with the status that was sent,         *)
(* provided that nothing outside that layer called the writer and nothing  *)
(* inside it gave a second status.                                         *)
LoggedIsSent ==
    (at = 0 /\ ~panicked) =>
        \A i \in (1..Len(entered)) \ unwound : layers[i] = "logging" =>
            /\ log[i] # Unlogged
            /\ (~overruled /\ \A w \in writers : w > i) => log[i] = Line(status)

(* The cookie of a new session goes out with the response, on the error    *)
(* paths of Sessioned too, provided that no layer outside Sessioned called *)
(* the writer.                                                             *)
CookieIsSent ==
    (/\ at = 0 /\ ~panicked /\ header
     /\ \A w \in writers : \E i \in 1..w : layers[i] = "sessioned") => sent
===============================================================================
