----------------------------- MODULE Lifecycle -----------------------------
(***************************************************************************)
(* A process from start to exit: cmd/guardrail/main.go, Execute of         *)
(* internal/cmd/run.go and Server.Run of internal/gateway/server.go, with  *)
(* as much of the request handlers as tells whether their work is kept:    *)
(* when they use the ledger and the audit store.                           *)
(*                                                                         *)
(* The actors are the main goroutine, the goroutine in ListenAndServe, the *)
(* handlers, and the operator's signal.  A handler is not cancelled by the *)
(* signal (its context is not derived from that of main), and a Shutdown   *)
(* that times out leaves it running while Execute closes the databases.    *)
(* net/http is external: Shutdown closes the listener at once, closes the  *)
(* connections that are idle, and returns when there is none left, or when *)
(* its context expires.  A connection outlives the listener: it is served  *)
(* when it was accepted before, or kept alive, and then brings a request.  *)
(***************************************************************************)
CONSTANT Request   \* requests, as many as the process sees in its life

VARIABLES
  step,      \* where the main goroutine is
  result,    \* what Execute returns
  signalled, \* SIGINT or SIGTERM has come: the context of main is done
  listener,  \* the state of ListenAndServe
  expired,   \* the shutdown timeout has run out
  store,     \* the databases: "unopened", "open" or "closed"
  handler,   \* request |-> where its handler is
  lost       \* requests whose charge or audit event a closed database refused

vars == <<step, result, signalled, listener, expired, store, handler, lost>>

Startup == {"config", "audit", "ledger", "auth", "assemble"}
Step == Startup \cup {"select", "shutdown", "close ledger", "close audit", "return", "exit"}
Listener == {"off", "starting", "up", "failed", "closed"}
Phase == {"none", "connected", "allow", "upstream", "charge", "audit", "done"}
Active(q) == handler[q] \notin {"none", "connected", "done"}

TypeOK ==
  /\ step \in Step
  /\ result \in {"none", "nil", "error"}
  /\ signalled \in BOOLEAN
  /\ listener \in Listener
  /\ expired \in BOOLEAN
  /\ store \in [{"audit", "ledger"} -> {"unopened", "open", "closed"}]
  /\ handler \in [Request -> Phase]
  /\ lost \subseteq Request

Init ==
  /\ step = "config"
  /\ result = "none"
  /\ signalled = FALSE
  /\ listener = "off"
  /\ expired = FALSE
  /\ store = [d \in {"audit", "ledger"} |-> "unopened"]
  /\ handler = [q \in Request |-> "none"]
  /\ lost = {}

----------------------------------------------------------------------------
(***************************************************************************)
(* Execute up to Run.  Any step can fail; the deferred calls then close    *)
(* what is open, in the reverse order.  Once the signal has come, opening  *)
(* a database or discovering the issuer fails, as they use the context;    *)
(* a refresh of the prices that fails is only logged.                      *)
(***************************************************************************)
serving == <<listener, expired, handler, lost>>

\* The deferred Close calls that are due at this point, the last first.
FirstClose ==
  IF store["ledger"] = "open" THEN "close ledger"
  ELSE IF store["audit"] = "open" THEN "close audit" ELSE "return"

Fail ==
  /\ step \in {"config", "audit", "ledger", "auth"}
  /\ step' = FirstClose
  /\ result' = "error"
  /\ UNCHANGED <<signalled, store, serving>>

LoadConfig ==
  /\ step = "config"
  /\ step' = "audit"
  /\ UNCHANGED <<result, signalled, store, serving>>

OpenAudit ==
  /\ step = "audit" /\ ~signalled
  /\ store' = [store EXCEPT !["audit"] = "open"]
  /\ step' = "ledger"
  /\ UNCHANGED <<result, signalled, serving>>

OpenLedger ==
  /\ step = "ledger" /\ ~signalled
  /\ store' = [store EXCEPT !["ledger"] = "open"]
  /\ step' = "auth"
  /\ UNCHANGED <<result, signalled, serving>>

\* Without OIDC nothing here looks at the context.
NewManager ==
  /\ step = "auth"
  /\ step' = "assemble"
  /\ UNCHANGED <<result, signalled, store, serving>>

\* Prices, router, server; Run starts ListenAndServe in a goroutine.
Assemble ==
  /\ step = "assemble"
  /\ step' = "select"
  /\ listener' = "starting"
  /\ UNCHANGED <<result, signalled, expired, store, handler, lost>>

----------------------------------------------------------------------------
(***************************************************************************)
(* ListenAndServe: it gets its address or not, and accepting connections   *)
(* can fail for good later on.  Either error goes to errCh.                *)
(***************************************************************************)
main == <<step, result, signalled, expired, store, handler, lost>>

Listen == listener = "starting" /\ listener' = "up" /\ UNCHANGED main
ListenFails == listener \in {"starting", "up"} /\ listener' = "failed" /\ UNCHANGED main

Signal ==
  /\ ~signalled /\ step # "exit"
  /\ signalled' = TRUE
  /\ UNCHANGED <<step, result, store, serving>>

(***************************************************************************)
(* Run: whichever of the two is ready first, and either if both are.       *)
(***************************************************************************)
SelectDone ==
  /\ step = "select" /\ signalled
  /\ step' = "shutdown"
  /\ listener' = "closed"
  /\ UNCHANGED <<result, signalled, expired, store, handler, lost>>

SelectError ==
  /\ step = "select" /\ listener = "failed"
  /\ step' = FirstClose
  /\ result' = "error"
  /\ UNCHANGED <<signalled, store, serving>>

Expire ==
  /\ step = "shutdown" /\ ~expired
  /\ expired' = TRUE
  /\ UNCHANGED <<step, result, signalled, listener, store, handler, lost>>

\* Mutant: Shutdown does not wait.
DrainedAtOnce ==
  /\ step = "shutdown"
  /\ step' = FirstClose
  /\ result' = "nil"
  /\ UNCHANGED <<signalled, store, serving>>

Drained ==
  /\ step = "shutdown" /\ \A q \in Request : handler[q] \in {"none", "done"}
  /\ step' = FirstClose
  /\ result' = "nil"
  /\ UNCHANGED <<signalled, store, serving>>

\* Mutant: Shutdown gets a context that does not expire.
NeverTimesOut == FALSE /\ UNCHANGED vars

\* Mutant: an error of Shutdown is logged and forgotten.
TimedOutUnnoticed ==
  /\ step = "shutdown" /\ expired
  /\ step' = FirstClose
  /\ result' = "nil"
  /\ UNCHANGED <<signalled, store, serving>>

TimedOut ==
  /\ step = "shutdown" /\ expired
  /\ step' = FirstClose
  /\ result' = "error"
  /\ UNCHANGED <<signalled, store, serving>>

----------------------------------------------------------------------------
(***************************************************************************)
(* The deferred calls, and the end of main.                                *)
(***************************************************************************)
CloseLedger ==
  /\ step = "close ledger"
  /\ store' = [store EXCEPT !["ledger"] = "closed"]
  /\ step' = "close audit"
  /\ UNCHANGED <<result, signalled, serving>>

\* Mutant: the audit store stays open.
CloseAuditForgotten ==
  /\ step = "close audit"
  /\ step' = "return"
  /\ UNCHANGED <<result, signalled, store, serving>>

CloseAudit ==
  /\ step = "close audit"
  /\ store' = [store EXCEPT !["audit"] = "closed"]
  /\ step' = "return"
  /\ UNCHANGED <<result, signalled, serving>>

Exit ==
  /\ step = "return"
  /\ step' = "exit"
  /\ UNCHANGED <<result, signalled, store, serving>>

----------------------------------------------------------------------------
(***************************************************************************)
(* The connection by which a request may come is opened, and closed by the *)
(* client, for being idle, or by Shutdown.  The request's handler asks     *)
(* AllowTenant, calls the providers, charges, and writes its audit event.  *)
(* It may end early: refused before or by the budget check, without a      *)
(* provider, or with nothing to audit.                                     *)
(***************************************************************************)
Alive == step # "exit"
Goto(q, phase) == handler' = [handler EXCEPT ![q] = phase]
others == <<step, result, signalled, listener, expired, store>>

Connect(q) ==
  /\ Alive /\ listener = "up" /\ handler[q] = "none"
  /\ Goto(q, "connected")
  /\ UNCHANGED <<others, lost>>

HangUp(q) ==
  /\ Alive /\ handler[q] = "connected"
  /\ Goto(q, "none")
  /\ UNCHANGED <<others, lost>>

Accept(q) ==
  /\ Alive /\ handler[q] = "connected"
  /\ Goto(q, "allow")
  /\ UNCHANGED <<others, lost>>

Allow(q) ==
  /\ Alive /\ handler[q] = "allow"
  /\ \/ store["ledger"] = "open" /\ Goto(q, "upstream")
     \/ Goto(q, "audit")
     \/ Goto(q, "done")
  /\ UNCHANGED <<others, lost>>

CallProviders(q) ==
  /\ Alive /\ handler[q] = "upstream"
  /\ Goto(q, "charge") \/ Goto(q, "audit")
  /\ UNCHANGED <<others, lost>>

\* recordUsage and recordAudit log an error of the database and go on.
Refused(q, d) == IF store[d] = "open" THEN lost ELSE lost \cup {q}

RecordUsage(q) ==
  /\ Alive /\ handler[q] = "charge"
  /\ Goto(q, "audit")
  /\ lost' = Refused(q, "ledger")
  /\ UNCHANGED others

RecordAudit(q) ==
  /\ Alive /\ handler[q] = "audit"
  /\ Goto(q, "done")
  /\ lost' = Refused(q, "audit")
  /\ UNCHANGED others

Main ==
  \/ Fail \/ LoadConfig \/ OpenAudit \/ OpenLedger \/ NewManager \/ Assemble
  \/ SelectDone \/ SelectError \/ Drained \/ TimedOut
  \/ CloseLedger \/ CloseAudit \/ Exit

Handle(q) == Allow(q) \/ CallProviders(q) \/ RecordUsage(q) \/ RecordAudit(q)

Next ==
  \/ Main \/ Listen \/ ListenFails \/ Signal \/ Expire
  \/ \E q \in Request : Connect(q) \/ HangUp(q) \/ Accept(q) \/ Handle(q)

(***************************************************************************)
(* The main goroutine goes on when it can, and timers run out.  Nothing is *)
(* assumed of handlers or connections: one may wait for its provider, or   *)
(* for its client, for ever.                                               *)
(***************************************************************************)
Spec == Init /\ [][Next]_vars /\ WF_vars(Main) /\ WF_vars(Expire)

----------------------------------------------------------------------------
(***************************************************************************)
(* The mapping to what the process promises.                               *)
(***************************************************************************)
mode ==
  IF step \in Startup THEN "starting"
  ELSE IF step = "select" THEN "serving"
  ELSE IF step = "shutdown" THEN "draining"
  ELSE IF result = "nil" THEN "stopped"
  ELSE IF listener = "off" \/ step = "exit" THEN "failed" ELSE "aborting"

work ==
  [q \in Request |->
     IF handler[q] \in {"none", "connected"} THEN "none"
     ELSE IF q \in lost THEN "lost"
     ELSE IF handler[q] = "done" THEN "kept"
     ELSE IF step = "exit" THEN "lost" ELSE "open"]

S == INSTANCE Service WITH mode <- mode, work <- work

(***************************************************************************)
(* The process keeps the promise of module Service: Execute returns nil    *)
(* only after a drain that lost nothing, the databases are closed under a  *)
(* running handler only on the way to an error, and a process told to stop *)
(* comes to an end whatever its handlers do.                               *)
(***************************************************************************)
KeepsPromise == S!Spec

(***************************************************************************)
(* Exit code 0 means that every request ever accepted has been charged and *)
(* audited as far as its handler meant to: no handler was cut off, none    *)
(* came upon a closed database.                                            *)
(***************************************************************************)
CleanExit ==
  step = "exit" /\ result = "nil" => lost = {} /\ \A q \in Request : ~Active(q)

(***************************************************************************)
(* However far startup got and however the process ends, no database is    *)
(* left open by Execute, and none is used before it was opened.            *)
(***************************************************************************)
StoresReleased ==
  /\ step \in {"return", "exit"} => \A d \in DOMAIN store : store[d] # "open"
  /\ \A q \in Request : Active(q) => \A d \in DOMAIN store : store[d] # "unopened"

(***************************************************************************)
(* A signal ends the process, at any moment of startup, with any handlers  *)
(* at work.  So does a listener that fails.                                *)
(***************************************************************************)
Terminates ==
  /\ signalled ~> step = "exit"
  /\ listener = "failed" ~> step = "exit"
=============================================================================
