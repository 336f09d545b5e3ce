------------------------- MODULE ServerLifecycle -------------------------
(* The process of cmd/api/main.go, from its start to its exit: the main    *)
(* goroutine, the one that runs the HTTP server, the tickers' workers, the *)
(* handlers, the access-log goroutines they leave behind, and the pool of  *)
(* database connections they all share.                                    *)
EXTENDS Naturals, FiniteSets

CONSTANTS
    Requests,       \* connections served at a time
    Workers,        \* the two background workers
    MaxOpenConns,   \* size of the pool
    MaxStatements   \* bound on the statements of one request

ASSUME MaxOpenConnsAssumption == MaxOpenConns \in Nat \ {0}
ASSUME MaxStatementsAssumption == MaxStatements \in Nat \ {0}

VARIABLES
    main,       \* where the main goroutine is
    outcome,    \* how the process ends
    quit,       \* signals in the channel of capacity 1
    serverErr,  \* errors in the channel of capacity 1
    done,       \* the done channel is closed
    server,     \* where the goroutine of ListenAndServe is
    stopping,   \* Shutdown was called on the server
    pool,       \* the connection pool
    worker,     \* worker[w]: where the worker is
    tick,       \* tick[w]: ticks in its ticker's channel of capacity 1
    pc,         \* pc[r]: where the connection's handler is
    left,       \* left[r]: statements it still has to make
    logger      \* logger[r]: the goroutine its last access left behind

control == <<main, outcome, done, stopping, pool>>
serving == <<server, serverErr>>
working == <<worker, tick>>
handling == <<pc, left, logger>>
vars == <<control, quit, serving, working, handling>>

(* A connection is closed, or open and idle, or it carries a request. *)
PCs == {"closed", "idle", "running", "statement", "begun", "commit", "hung"}

TypeOK ==
    /\ main \in {"boot", "notify", "spawn", "select", "announce", "shutdown",
                 "draining", "closing", "returning", "exited"}
    /\ outcome \in {"none", "clean", "forced", "fatal", "killed"}
    /\ quit \in 0..1
    /\ serverErr \in 0..1
    /\ done \in BOOLEAN
    /\ server \in {"none", "starting", "serving", "returned", "ended"}
    /\ stopping \in BOOLEAN
    /\ pool \in {"none", "open", "closed"}
    /\ worker \in [Workers -> {"none", "select", "waiting", "statement", "stopped"}]
    /\ tick \in [Workers -> 0..1]
    /\ pc \in [Requests -> PCs]
    /\ left \in [Requests -> 0..MaxStatements]
    /\ logger \in [Requests -> {"none", "waiting", "statement"}]

Init ==
    /\ main = "boot" /\ outcome = "none"
    /\ quit = 0 /\ serverErr = 0
    /\ done = FALSE /\ stopping = FALSE
    /\ server = "none" /\ pool = "none"
    /\ worker = [w \in Workers |-> "none"]
    /\ tick = [w \in Workers |-> 0]
    /\ pc = [r \in Requests |-> "closed"]
    /\ left = [r \in Requests |-> 0]
    /\ logger = [r \in Requests |-> "none"]

InFlight == {r \in Requests : pc[r] \notin {"closed", "idle"}}

InUse ==
    Cardinality({r \in Requests : pc[r] \in {"statement", "begun", "commit", "hung"}})
    + Cardinality({r \in Requests : logger[r] = "statement"})
    + Cardinality({w \in Workers : worker[w] = "statement"})

ConnectionFree == pool = "open" /\ InUse < MaxOpenConns

-----------------------------------------------------------------------------
(* The main goroutine *)

Exit(how) == main' = "exited" /\ outcome' = how

(* A required variable is missing, or the database does not answer. *)
StartFails ==
    /\ main = "boot"
    /\ Exit("fatal")
    /\ UNCHANGED <<done, stopping, pool, quit, serving, working, handling>>

NewDB ==
    /\ main = "boot"
    /\ main' = "notify"
    /\ pool' = "open"
    /\ UNCHANGED <<outcome, done, stopping, quit, serving, working, handling>>

Notify ==
    /\ main = "notify"
    /\ main' = "spawn"
    /\ UNCHANGED <<outcome, done, stopping, pool, quit, serving, working, handling>>

Spawn ==
    /\ main = "spawn"
    /\ main' = "select"
    /\ worker' = [w \in Workers |-> "select"]
    /\ server' = "starting"
    /\ UNCHANGED <<outcome, done, stopping, pool, quit, serverErr, tick, handling>>

TakeServerErr ==
    /\ main = "select" /\ serverErr = 1
    /\ Exit("fatal")
    /\ serverErr' = 0
    /\ UNCHANGED <<done, stopping, pool, quit, server, working, handling>>

TakeSignal ==
    /\ main = "select" /\ quit = 1
    /\ main' = "announce"
    /\ quit' = 0
    /\ UNCHANGED <<outcome, done, stopping, pool, serving, working, handling>>

CloseDone ==
    /\ main = "announce"
    /\ main' = "shutdown"
    /\ done' = TRUE
    /\ UNCHANGED <<outcome, stopping, pool, quit, serving, working, handling>>

(* Faulty variant: the pool is closed before the requests are waited for. *)
BeginShutdownClosesPool ==
    /\ main = "shutdown"
    /\ main' = "draining"
    /\ stopping' = TRUE
    /\ pool' = "closed"
    /\ UNCHANGED <<outcome, done, quit, serving, working, handling>>

BeginShutdown ==
    /\ main = "shutdown"
    /\ main' = "draining"
    /\ stopping' = TRUE
    /\ UNCHANGED <<outcome, done, pool, quit, serving, working, handling>>

(* Shutdown waits for the accept loop, and then until no connection has a  *)
(* request, which closes them all.                                         *)
Drained ==
    /\ main = "draining"
    /\ server # "serving"
    /\ InFlight = {}
    /\ pc' = [r \in Requests |-> "closed"]
    /\ main' = "closing"
    /\ outcome' = "clean"
    /\ UNCHANGED <<done, stopping, pool, quit, serving, working, left, logger>>

(* Faulty variant: Shutdown is given a context without a deadline. *)
ShutdownNeverTimesOut == FALSE

ShutdownTimesOut ==
    /\ main = "draining"
    /\ main' = "closing"
    /\ outcome' = "forced"
    /\ UNCHANGED <<done, stopping, pool, quit, serving, working, handling>>

(* The deferred db.Close. *)
ClosePool ==
    /\ main = "closing"
    /\ main' = "returning"
    /\ pool' = "closed"
    /\ UNCHANGED <<outcome, done, stopping, quit, serving, working, handling>>

(* The other goroutines end where they are. *)
Return ==
    /\ main = "returning"
    /\ main' = "exited"
    /\ UNCHANGED <<outcome, done, stopping, pool, quit, serving, working, handling>>

MainStep ==
    \/ NewDB \/ Notify \/ Spawn
    \/ TakeServerErr \/ TakeSignal
    \/ CloseDone \/ BeginShutdown \/ Drained \/ ShutdownTimesOut
    \/ ClosePool \/ Return

-----------------------------------------------------------------------------
(* Signals *)

(* Faulty variant: the channel keeps every signal. *)
SignalQueues ==
    /\ main \notin {"boot", "notify"}
    /\ quit' = quit + 1
    /\ UNCHANGED <<control, serving, working, handling>>

(* SIGINT or SIGTERM; one that finds the channel full is dropped. *)
Signal ==
    /\ main \notin {"boot", "notify"}
    /\ quit' = 1
    /\ UNCHANGED <<control, serving, working, handling>>

(* SIGKILL, or a signal nobody listens to yet. *)
Kill ==
    /\ Exit("killed")
    /\ UNCHANGED <<done, stopping, pool, quit, serving, working, handling>>

-----------------------------------------------------------------------------
(* The goroutine of ListenAndServe *)

ServerTo(state) ==
    /\ server' = state
    /\ UNCHANGED <<control, quit, serverErr, working, handling>>

Listen ==
    /\ server = "starting"
    /\ ~stopping
    /\ ServerTo("serving")

(* The port is taken, accepting fails, or Shutdown was called. *)
ListenAndServeReturns ==
    /\ server \in {"starting", "serving"}
    /\ ServerTo("returned")

(* Faulty variant: the error is only logged. *)
SendErrForgotten ==
    /\ server = "returned"
    /\ ServerTo("ended")

SendErr ==
    /\ server = "returned"
    /\ serverErr = 0
    /\ serverErr' = 1
    /\ server' = "ended"
    /\ UNCHANGED <<control, quit, working, handling>>

-----------------------------------------------------------------------------
(* The workers *)

WorkerTo(w, state) ==
    /\ worker' = [worker EXCEPT ![w] = state]
    /\ UNCHANGED <<control, quit, serving, handling>>

Tick(w) ==
    /\ worker[w] # "none"
    /\ tick' = [tick EXCEPT ![w] = 1]
    /\ UNCHANGED <<control, quit, serving, worker, handling>>

(* With done closed as well, the select takes either. *)
TakeTick(w) ==
    /\ worker[w] = "select" /\ tick[w] = 1
    /\ tick' = [tick EXCEPT ![w] = 0]
    /\ WorkerTo(w, "waiting")

TakeDone(w) ==
    /\ worker[w] = "select" /\ done
    /\ WorkerTo(w, "stopped")
    /\ UNCHANGED tick

WorkerAcquires(w) ==
    /\ worker[w] = "waiting"
    /\ ConnectionFree
    /\ WorkerTo(w, "statement")
    /\ UNCHANGED tick

(* The statement is over, or its 30 seconds are. *)
WorkerEnds(w) ==
    /\ worker[w] \in {"waiting", "statement"}
    /\ WorkerTo(w, "select")
    /\ UNCHANGED tick

-----------------------------------------------------------------------------
(* Handlers, and the goroutine AccessLink leaves behind *)

HandlerTo(r, state) ==
    /\ pc' = [pc EXCEPT ![r] = state]
    /\ UNCHANGED <<control, quit, serving, working>>

(* Shutdown closes the listener, but the accept loop may be a connection   *)
(* ahead of it.                                                            *)
Accept(r) ==
    /\ server = "serving"
    /\ pc[r] = "closed"
    /\ HandlerTo(r, "idle")
    /\ UNCHANGED <<left, logger>>

(* The client, IdleTimeout or Shutdown ends an idle connection. *)
CloseIdle(r) ==
    /\ pc[r] = "idle"
    /\ HandlerTo(r, "closed")
    /\ UNCHANGED <<left, logger>>

(* A request on an open connection: a new one, or one kept alive, also     *)
(* when the server no longer accepts.                                      *)
ReadRequest(r) ==
    /\ pc[r] = "idle"
    /\ left' \in {[left EXCEPT ![r] = n] : n \in 1..MaxStatements}
    /\ HandlerTo(r, "running")
    /\ UNCHANGED logger

(* A statement, or the BEGIN of a transaction, takes a connection. *)
HandlerAcquires(r) ==
    /\ pc[r] = "running" /\ left[r] > 0
    /\ ConnectionFree
    /\ \E state \in {"statement", "begun"} : HandlerTo(r, state)
    /\ UNCHANGED <<left, logger>>

(* Faulty variant: the statement is not told of its transaction, and asks  *)
(* the pool for a connection of its own.                                   *)
TxStatementFromPool(r) ==
    /\ pc[r] = "begun"
    /\ ConnectionFree
    /\ HandlerTo(r, "commit")
    /\ UNCHANGED <<left, logger>>

(* A statement in a transaction uses its connection. *)
TxStatement(r) ==
    /\ pc[r] = "begun"
    /\ HandlerTo(r, "commit")
    /\ UNCHANGED <<left, logger>>

(* The connection goes back to the pool, after a statement, a COMMIT or a  *)
(* ROLLBACK; the UPDATE of an access starts the access-log goroutine.      *)
StatementEnds(r) ==
    /\ pc[r] \in {"statement", "commit"}
    /\ left' = [left EXCEPT ![r] = @ - 1]
    /\ \/ UNCHANGED logger
       \/ /\ pc[r] = "statement" /\ logger[r] = "none"
          /\ logger' = [logger EXCEPT ![r] = "waiting"]
    /\ HandlerTo(r, "running")

(* After the last statement, or an early return; nothing is kept alive     *)
(* once Shutdown was called.                                               *)
Respond(r) ==
    /\ pc[r] = "running"
    /\ left' = [left EXCEPT ![r] = 0]
    /\ HandlerTo(r, IF stopping THEN "closed" ELSE "idle")
    /\ UNCHANGED logger

(* A handler's statements have no deadline of their own ... *)
DatabaseHangs(r) ==
    /\ pc[r] \in {"statement", "begun", "commit"}
    /\ HandlerTo(r, "hung")
    /\ UNCHANGED <<left, logger>>

(* ... but end when the client goes away. *)
ClientLeaves(r) ==
    /\ pc[r] \in {"statement", "begun", "commit", "hung"}
    /\ left' = [left EXCEPT ![r] = 0]
    /\ HandlerTo(r, "running")
    /\ UNCHANGED logger

LoggerTo(r, state) ==
    /\ logger' = [logger EXCEPT ![r] = state]
    /\ UNCHANGED <<control, quit, serving, working, pc, left>>

LoggerAcquires(r) ==
    /\ logger[r] = "waiting"
    /\ ConnectionFree
    /\ LoggerTo(r, "statement")

(* Its INSERT is over, or its 5 seconds are. *)
LoggerEnds(r) ==
    /\ logger[r] \in {"waiting", "statement"}
    /\ LoggerTo(r, "none")

-----------------------------------------------------------------------------
(* Specification *)

ServerStep == Listen \/ ListenAndServeReturns \/ SendErr

WorkerStep(w) == TakeTick(w) \/ TakeDone(w) \/ WorkerAcquires(w) \/ WorkerEnds(w)

HandlerStep(r) ==
    \/ HandlerAcquires(r) \/ TxStatement(r) \/ StatementEnds(r) \/ Respond(r)

LoggerStep(r) == LoggerAcquires(r) \/ LoggerEnds(r)

Next ==
    /\ main # "exited"
    /\ \/ MainStep \/ StartFails
       \/ Signal \/ Kill
       \/ ServerStep
       \/ \E w \in Workers : Tick(w) \/ WorkerStep(w)
       \/ \E r \in Requests :
             \/ Accept(r) \/ CloseIdle(r) \/ ReadRequest(r) \/ HandlerStep(r)
             \/ DatabaseHangs(r) \/ ClientLeaves(r)
             \/ LoggerStep(r)

Spec == Init /\ [][Next]_vars

(* Every goroutine runs, the pool serves those who wait in turn, and the   *)
(* deadlines of Shutdown, of the workers and of the log pass.              *)
Alive(step) == main # "exited" /\ step

FairSpec ==
    /\ Spec
    /\ WF_vars(Alive(MainStep))
    /\ WF_vars(Alive(SendErr))
    /\ WF_vars(Alive(stopping /\ ListenAndServeReturns))
    /\ \A w \in Workers : WF_vars(Alive(WorkerEnds(w)))
    /\ \A r \in Requests :
          /\ SF_vars(Alive(HandlerAcquires(r)))
          /\ WF_vars(Alive(TxStatement(r)))
          /\ WF_vars(Alive(StatementEnds(r)))
          /\ WF_vars(Alive(left[r] = 0 /\ Respond(r)))
          /\ WF_vars(Alive(LoggerEnds(r)))

-----------------------------------------------------------------------------
(* Properties *)

(* A shutdown that reports itself clean cut no request off, and no request *)
(* runs on a closed pool unless the shutdown was forced.                   *)
NothingCutOff ==
    (outcome = "clean" \/ pool = "closed") =>
        (InFlight = {} \/ outcome \in {"forced", "killed"})

(* A signal that main listens to ends the process, even when the database  *)
(* hangs under a handler.                                                  *)
SignalEndsServer == quit = 1 ~> main = "exited"

(* When the server no longer accepts, whatever the reason, the process     *)
(* ends, so that the restart policy brings it back.                        *)
DeafServerExits == server = "ended" ~> main = "exited"

(* Unless the database hangs, every accepted request is answered, however  *)
(* few connections transactions, workers and log goroutines leave it, or   *)
(* the process ends.                                                       *)
AcceptedEnds ==
    [](\A r \in Requests : pc[r] # "hung") =>
        \A r \in Requests : r \in InFlight ~> (r \notin InFlight \/ main = "exited")
===========================================================================
