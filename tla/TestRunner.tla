------------------------------ MODULE TestRunner ------------------------------
(***************************************************************************)
(* testrunner.HttpTestRunner: one runner that a test configures and runs   *)
(* again and again.  What is set stays for the runs that follow, unless it *)
(* was marked to be cleared afterwards or Clear is called.                 *)
(*                                                                         *)
(* Run defers reset, and the methods named after HTTP methods defer        *)
(* resetMethod around it, so both happen also when the test fails inside a *)
(* run (FailNow ends the goroutine, deferred calls included).  A request   *)
(* is sent and answered in one step; a runner has one user.                *)
(*                                                                         *)
(* Of the header, the body and the handler function it matters how many    *)
(* entries are set: any number for the header, one at most for the others. *)
(***************************************************************************)
EXTENDS Naturals

CONSTANTS
    Methods,     \* what WithMethod makes of its argument: in upper case
    Verbs,       \* the methods that Run supports
    Paths,       \* what WithPath may be given
    MaxEntries   \* bound on the entries of a header

Root == "/"

NoMethod == "none"   \* lower case, so never a method

Settings == {"body", "handlerFunc", "header"}

Entries == [Settings -> 0..MaxEntries]

ASSUME RunnerAssumption ==
    /\ "GET" \in Verbs
    /\ Verbs \subseteq Methods
    /\ NoMethod \notin Methods
    /\ Root \in Paths
    /\ MaxEntries \in Nat \ {0}

VARIABLES
    set,       \* body, handlerFunc and header
    unread,    \* is the body, an io.Reader, still to be read?
    clear,     \* the flags clearBody, clearHandlerFunc and clearHeader
    method,    \* the method of the next run
    path,      \* the path of the next run
    values,    \* are there URL values?
    handler,   \* is there a handler?
    pc,        \* idle, running, resetting, or restoring the method
    previous,  \* previousMethod of the verb being run
    request,   \* the request of this run, as the server gets it
    wanted,    \* history: the entries set and not yet due to be cleared
    marked,    \* history: the settings due to be cleared after the next run
    before     \* history: the method when the call in progress began

settings == <<set, unread, path, values, handler>>
history == <<wanted, marked, before>>
vars == <<set, unread, clear, method, path, values, handler, pc, previous,
          request, wanted, marked, before>>

NoRequest == [method |-> NoMethod, path |-> Root, header |-> 0, values |-> FALSE,
              by |-> "nobody", body |-> FALSE]

Nothing == [x \in Settings |-> 0]

\* NewHttpTestRunner.
Init ==
    /\ set = Nothing
    /\ unread = FALSE
    /\ clear = {}
    /\ method = "GET"
    /\ path = Root
    /\ values = FALSE
    /\ handler = FALSE
    /\ pc = "idle"
    /\ previous = NoMethod
    /\ request = NoRequest
    /\ wanted = Nothing
    /\ marked = {}
    /\ before = "GET"

----------------------------------------------------------------------------
(* Between runs.                                                           *)

\* Faulty variant of Clear: a flag raised before survives it.
ClearKeepsFlags ==
    /\ pc = "idle"
    /\ set' = Nothing
    /\ unread' = FALSE
    /\ values' = FALSE
    /\ wanted' = Nothing
    /\ marked' = {}
    /\ UNCHANGED <<clear, method, path, handler, pc, previous, request, before>>

\* Everything but handler, method and path.
Clear ==
    /\ pc = "idle"
    /\ set' = Nothing
    /\ unread' = FALSE
    /\ clear' = {}
    /\ values' = FALSE
    /\ wanted' = Nothing
    /\ marked' = {}
    /\ UNCHANGED <<method, path, handler, pc, previous, request, before>>

\* ClearBodyAfter, ClearHandlerFuncAfter, ClearHeaderAfter.
ClearAfter(x) ==
    /\ pc = "idle"
    /\ clear' = clear \cup {x}
    /\ marked' = marked \cup {x}
    /\ UNCHANGED <<settings, method, pc, previous, request, wanted, before>>

Add(entries, x) ==
    [entries EXCEPT ![x] = IF x = "header" THEN @ + 1 ELSE 1]

\* A body or a handler function replaces the one before; headers add up.
With(x) ==
    /\ pc = "idle"
    /\ x = "header" => set[x] < MaxEntries
    /\ set' = Add(set, x)
    /\ unread' = (unread \/ x = "body")
    /\ wanted' = Add(wanted, x)
    /\ UNCHANGED <<clear, method, path, values, handler, pc, previous, request, marked, before>>

\* WithBody(nil) and WithHandlerFunc(nil) take the setting back; a flag to clear
\* it stays up, and clears what is set until the next run.
WithNil(x) ==
    /\ pc = "idle"
    /\ x # "header"
    /\ set' = [set EXCEPT ![x] = 0]
    /\ unread' = (unread /\ x # "body")
    /\ wanted' = [wanted EXCEPT ![x] = 0]
    /\ UNCHANGED <<clear, method, path, values, handler, pc, previous, request, marked, before>>

\* The handler may be nil.
WithHandler ==
    /\ pc = "idle"
    /\ handler' \in BOOLEAN
    /\ UNCHANGED <<set, unread, clear, method, path, values, pc, previous, request, history>>

WithMethod(m) ==
    /\ pc = "idle"
    /\ method' = m
    /\ UNCHANGED <<settings, clear, pc, previous, request, history>>

WithPath(p) ==
    /\ pc = "idle"
    /\ path' = p
    /\ UNCHANGED <<set, unread, clear, method, values, handler, pc, previous, request,
                   history>>

\* The values may be empty.
WithValues ==
    /\ pc = "idle"
    /\ values' \in BOOLEAN
    /\ UNCHANGED <<set, unread, clear, method, path, handler, pc, previous, request, history>>

----------------------------------------------------------------------------
(* A run.                                                                  *)

\* Run with the method that is set.
RunCall ==
    /\ pc = "idle"
    /\ pc' = "running"
    /\ before' = method
    /\ UNCHANGED <<settings, clear, method, previous, request, wanted, marked>>

\* Faulty variant of VerbCall: the method is set before it is remembered.
VerbCallForgetful(verb) ==
    /\ pc = "idle"
    /\ pc' = "running"
    /\ before' = method
    /\ method' = verb
    /\ previous' = verb
    /\ UNCHANGED <<settings, clear, request, wanted, marked>>

\* Delete, Get, Head, Patch, Post and Put.
VerbCall(verb) ==
    /\ pc = "idle"
    /\ pc' = "running"
    /\ before' = method
    /\ previous' = method
    /\ method' = verb
    /\ UNCHANGED <<settings, clear, request, wanted, marked>>

\* A handler function goes before a handler; without either, httptest serves
\* with net/http's default mux.
Server ==
    IF set["handlerFunc"] = 1 THEN "function"
    ELSE IF handler THEN "handler" ELSE "default"

Request ==
    [method |-> method, path |-> path, header |-> set["header"], values |-> values,
     by |-> Server, body |-> unread]

\* The request is made, and the body read to its end.
RunMethod ==
    /\ pc = "running"
    /\ method \in Verbs
    /\ request' = Request
    /\ unread' = FALSE
    /\ pc' = "resetting"
    /\ UNCHANGED <<set, clear, method, path, values, handler, previous, history>>

\* An unsupported method, or an error on the way, which fails the test; the
\* body may have been read by then.
RunFails ==
    /\ pc = "running"
    /\ unread' \in IF method \in Verbs THEN {unread, FALSE} ELSE {unread}
    /\ pc' = "resetting"
    /\ UNCHANGED <<set, clear, method, path, values, handler, previous, request, history>>

\* The run is over; what was due to be cleared is not wanted any more.
EndRun ==
    /\ pc = "resetting"
    /\ request' = NoRequest
    /\ wanted' = [x \in Settings |-> IF x \in marked THEN 0 ELSE wanted[x]]
    /\ marked' = {}
    /\ pc' = IF previous = NoMethod THEN "idle" ELSE "restoring"
    /\ UNCHANGED <<method, path, values, handler, previous, before>>

\* Faulty variant of Reset: the flag stays up, and the next run clears again.
ResetKeepsFlags ==
    /\ EndRun
    /\ set' = [x \in Settings |-> IF x \in clear THEN 0 ELSE set[x]]
    /\ unread' = (unread /\ "body" \notin clear)
    /\ UNCHANGED clear

\* clearValues is never raised, so values stay.
Reset ==
    /\ EndRun
    /\ set' = [x \in Settings |-> IF x \in clear THEN 0 ELSE set[x]]
    /\ unread' = (unread /\ "body" \notin clear)
    /\ clear' = {}

ResetMethod ==
    /\ pc = "restoring"
    /\ method' = previous
    /\ previous' = NoMethod
    /\ pc' = "idle"
    /\ UNCHANGED <<settings, clear, request, history>>

Next ==
    \/ Clear
    \/ \E x \in Settings : ClearAfter(x) \/ With(x) \/ WithNil(x)
    \/ WithHandler \/ WithValues
    \/ \E m \in Methods : WithMethod(m)
    \/ \E p \in Paths : WithPath(p)
    \/ RunCall
    \/ \E verb \in Verbs : VerbCall(verb)
    \/ RunMethod \/ RunFails \/ Reset \/ ResetMethod

Spec == Init /\ [][Next]_vars

----------------------------------------------------------------------------
(* Properties.                                                             *)

(* A setting is in every request from when it is made until it is taken    *)
(* back with nil, the first run after it was marked with its Clear...After *)
(* method, or a Clear, and in none after that, whether the runs in between *)
(* succeeded, failed or had an unsupported method.  A body can be read     *)
(* only once.                                                              *)
SettingsLastAsMarked ==
    request # NoRequest =>
        /\ request.header = wanted["header"]
        /\ request.by = "function" <=> wanted["handlerFunc"] = 1
        /\ request.body => wanted["body"] = 1

(* However a run ends, the runner then has the method that it had before:  *)
(* "it will reset to the previous method".                                 *)
MethodIsRestored ==
    [][(pc # "idle" /\ pc' = "idle") => method' = before]_vars
===============================================================================
