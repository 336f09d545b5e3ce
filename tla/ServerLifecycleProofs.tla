----------------------- MODULE ServerLifecycleProofs -----------------------
(* A clean shutdown cuts nothing off, the server's error reaches main and  *)
(* every handler comes nearer to its end, for any number of requests and   *)
(* workers and any size of the pool.                                       *)
EXTENDS ServerLifecycle, TLAPS

USE DEF PCs

(* A handler that holds a connection has a statement left to make. *)
StatementsLeft ==
    \A r \in Requests :
        pc[r] \in {"statement", "begun", "commit", "hung"} => left[r] > 0

(* What the main goroutine has done tells how the process ends. *)
Stages ==
    /\ main \in {"draining", "closing", "returning"} => stopping
    /\ outcome \in {"clean", "forced"} => stopping
    /\ main \in {"closing", "returning"} => outcome \in {"clean", "forced"}
    /\ outcome \in {"clean", "forced"} =>
          main \in {"closing", "returning", "exited"}
    /\ pool = "closed" =>
          /\ main \in {"returning", "exited"}
          /\ outcome \in {"clean", "forced", "killed"}

(* Spawn starts the server and the workers. *)
Started == main \in {"boot", "notify", "spawn"} => server = "none"

(* A clean Shutdown left no connection open and nobody to accept another:  *)
(* the accept loop had ended before it looked for requests.                *)
CleanIsClosed ==
    outcome = "clean" =>
        server # "serving" /\ \A r \in Requests : pc[r] = "closed"

IInv == TypeOK /\ StatementsLeft /\ Stages /\ Started /\ CleanIsClosed

-----------------------------------------------------------------------------
LEMMA Initially == Init => IInv
  <1> SUFFICES ASSUME Init PROVE IInv
    OBVIOUS
  <1>1. TypeOK
    <2>1. left \in [Requests -> 0..MaxStatements]
      BY MaxStatementsAssumption DEF Init
    <2>2. worker \in [Workers -> {"none", "select", "waiting", "statement", "stopped"}]
          /\ tick \in [Workers -> 0..1]
      BY DEF Init
    <2>3. pc \in [Requests -> PCs]
          /\ logger \in [Requests -> {"none", "waiting", "statement"}]
      BY DEF Init
    <2>4. quit \in 0..1 /\ serverErr \in 0..1
      BY DEF Init
    <2>5. done \in BOOLEAN /\ stopping \in BOOLEAN
      BY Zenon DEF Init
    <2>6. main = "boot" /\ outcome = "none" /\ server = "none" /\ pool = "none"
      BY DEF Init
    <2> QED BY <2>1, <2>2, <2>3, <2>4, <2>5, <2>6 DEF TypeOK
  <1>2. StatementsLeft /\ Stages /\ Started /\ CleanIsClosed
    BY DEF Init, StatementsLeft, Stages, Started, CleanIsClosed, InFlight
  <1> QED BY <1>1, <1>2 DEF IInv

(* The steps of main and of the signals. *)
LEMMA MainKeeps ==
    IInv /\ (MainStep \/ StartFails \/ Signal \/ Kill) => IInv'
  <1> SUFFICES ASSUME IInv, MainStep \/ StartFails \/ Signal \/ Kill
               PROVE  IInv'
    OBVIOUS
  <1> USE DEF IInv, TypeOK, StatementsLeft, Stages, Started, CleanIsClosed, InFlight,
              control, serving, working, handling
  <1>1. CASE StartFails \/ Kill BY <1>1 DEF StartFails, Kill, Exit
  <1>2. CASE Signal BY <1>2 DEF Signal
  <1>3. CASE NewDB BY <1>3 DEF NewDB
  <1>4. CASE Notify BY <1>4 DEF Notify
  <1>5. CASE Spawn BY <1>5 DEF Spawn
  <1>6. CASE TakeServerErr BY <1>6 DEF TakeServerErr, Exit
  <1>7. CASE TakeSignal BY <1>7 DEF TakeSignal
  <1>8. CASE CloseDone BY <1>8 DEF CloseDone
  <1>9. CASE BeginShutdown BY <1>9 DEF BeginShutdown
  <1>10. CASE Drained BY <1>10 DEF Drained
  <1>11. CASE ShutdownTimesOut BY <1>11 DEF ShutdownTimesOut
  <1>12. CASE ClosePool BY <1>12 DEF ClosePool
  <1>13. CASE Return BY <1>13 DEF Return
  <1> QED
    BY <1>1, <1>2, <1>3, <1>4, <1>5, <1>6, <1>7, <1>8, <1>9, <1>10, <1>11,
       <1>12, <1>13 DEF MainStep

(* The goroutine of the server and the workers touch no request. *)
LEMMA ServerKeeps == IInv /\ ServerStep => IInv'
  BY DEF IInv, TypeOK, StatementsLeft, Stages, Started, CleanIsClosed, InFlight,
         control, serving, working, handling,
         ServerStep, Listen, ListenAndServeReturns, SendErr, ServerTo

LEMMA WorkerKeeps ==
    ASSUME NEW w \in Workers, IInv, Tick(w) \/ WorkerStep(w)
    PROVE  IInv'
  <1> USE DEF IInv, TypeOK, StatementsLeft, Stages, Started, CleanIsClosed, InFlight,
              control, serving, working, handling
  <1>1. CASE Tick(w) BY <1>1 DEF Tick
  <1>2. CASE WorkerStep(w)
    BY <1>2 DEF WorkerStep, TakeTick, TakeDone, WorkerAcquires, WorkerEnds, WorkerTo
  <1> QED BY <1>1, <1>2

(* A request's steps leave main, the server and the workers alone. *)
HandlerMoves(r) ==
    \/ Accept(r) \/ CloseIdle(r) \/ ReadRequest(r) \/ HandlerStep(r)
    \/ DatabaseHangs(r) \/ ClientLeaves(r)

LEMMA HandlersLeaveServer ==
    ASSUME NEW r \in Requests, HandlerMoves(r)
    PROVE  UNCHANGED <<control, quit, serving, working>>
  BY DEF HandlerMoves, HandlerTo, Accept, CloseIdle, ReadRequest, HandlerStep, HandlerAcquires,
         TxStatement, StatementEnds, Respond, DatabaseHangs, ClientLeaves

(* Once Shutdown was clean there is no connection to take a step on, and   *)
(* no accept loop for a new one.                                           *)
LEMMA HandlerKeeps ==
    ASSUME NEW r \in Requests, IInv, HandlerMoves(r)
    PROVE  IInv'
  <1> USE MaxStatementsAssumption
  <1>1. /\ UNCHANGED <<control, quit, serving, working>>
        /\ outcome # "clean"
    <2> USE DEF IInv, Stages, Started, CleanIsClosed, InFlight, HandlerTo
    <2>1. CASE Accept(r) \/ CloseIdle(r) \/ ReadRequest(r)
      BY <2>1 DEF Accept, CloseIdle, ReadRequest
    <2>2. CASE HandlerStep(r)
      BY <2>2 DEF HandlerStep, HandlerAcquires, TxStatement, StatementEnds, Respond
    <2>3. CASE DatabaseHangs(r) \/ ClientLeaves(r)
      BY <2>3 DEF DatabaseHangs, ClientLeaves
    <2> QED BY <2>1, <2>2, <2>3 DEF HandlerMoves
  <1>2. Stages' /\ Started' /\ CleanIsClosed'
    BY <1>1 DEF IInv, Stages, Started, CleanIsClosed, control, serving
  <1>3. (TypeOK /\ StatementsLeft)'
    <2> USE DEF IInv, TypeOK, StatementsLeft, control, serving, working, HandlerTo
    <2>1. CASE Accept(r) \/ CloseIdle(r) \/ ReadRequest(r)
      BY <2>1, <1>1 DEF Accept, CloseIdle, ReadRequest
    <2>2. CASE HandlerAcquires(r) BY <2>2, <1>1 DEF HandlerAcquires
    <2>3. CASE TxStatement(r) BY <2>3, <1>1 DEF TxStatement
    <2>4. CASE StatementEnds(r) BY <2>4, <1>1 DEF StatementEnds
    <2>5. CASE Respond(r) BY <2>5, <1>1 DEF Respond
    <2>6. CASE DatabaseHangs(r) BY <2>6, <1>1 DEF DatabaseHangs
    <2>7. CASE ClientLeaves(r) BY <2>7, <1>1 DEF ClientLeaves
    <2> QED BY <2>1, <2>2, <2>3, <2>4, <2>5, <2>6, <2>7 DEF HandlerMoves, HandlerStep
  <1> QED BY <1>2, <1>3 DEF IInv

LEMMA LoggerKeeps ==
    ASSUME NEW r \in Requests, IInv, LoggerStep(r)
    PROVE  IInv'
  BY DEF IInv, TypeOK, StatementsLeft, Stages, Started, CleanIsClosed, InFlight,
         control, serving, working, LoggerStep, LoggerAcquires, LoggerEnds,
         LoggerTo

LEMMA StutterKeeps == IInv /\ UNCHANGED vars => IInv'
  BY DEF IInv, TypeOK, StatementsLeft, Stages, Started, CleanIsClosed, InFlight,
         vars, control, serving, working, handling

-----------------------------------------------------------------------------
(* The strengthening holds in every reachable state. *)
THEOREM LifecycleInvariant == Spec => []IInv
  <1>1. Init => IInv BY Initially
  <1>2. IInv /\ [Next]_vars => IInv'
    <2> SUFFICES ASSUME IInv, Next PROVE IInv'
      BY StutterKeeps
    <2>1. CASE MainStep \/ StartFails \/ Signal \/ Kill BY <2>1, MainKeeps
    <2>2. CASE ServerStep BY <2>2, ServerKeeps
    <2>3. CASE \E w \in Workers : Tick(w) \/ WorkerStep(w)
      BY <2>3, WorkerKeeps
    <2>4. CASE \E r \in Requests :
                  \/ Accept(r) \/ CloseIdle(r) \/ ReadRequest(r) \/ HandlerStep(r)
                  \/ DatabaseHangs(r) \/ ClientLeaves(r)
      BY <2>4, HandlerKeeps DEF HandlerMoves
    <2>5. CASE \E r \in Requests : LoggerStep(r)
      BY <2>5, LoggerKeeps
    <2> QED BY <2>1, <2>2, <2>3, <2>4, <2>5 DEF Next
  <1> QED BY <1>1, <1>2, PTL DEF Spec

(* Every variable keeps to its values: the channels hold one message each, *)
(* and no handler makes more statements than it has.                       *)
THEOREM LifecycleTypeOK == Spec => []TypeOK
  <1>1. IInv => TypeOK BY DEF IInv
  <1> QED BY <1>1, LifecycleInvariant, PTL

(* A clean shutdown cut no request off, and only a forced one closes the   *)
(* pool under a request.                                                   *)
THEOREM CleanShutdown == Spec => []NothingCutOff
  <1>1. IInv => NothingCutOff
    BY DEF IInv, Stages, Started, CleanIsClosed, NothingCutOff, InFlight
  <1> QED BY <1>1, LifecycleInvariant, PTL

-----------------------------------------------------------------------------
(* The error of ListenAndServe *)

(* The channel of capacity 1 is empty when the goroutine sends, so that it *)
(* ends; the error waits for main, or the process is over.                 *)
ErrorArrives ==
    /\ serverErr = 1 => server = "ended"
    /\ server = "ended" => serverErr = 1 \/ main = "exited"

(* The goroutine never hangs on its send, and the error of a server that   *)
(* stopped accepting is never lost before the process ends: what           *)
(* DeafServerExits needs of main is only that it comes to its select, or   *)
(* was already told to stop.                                               *)
THEOREM ServerErrorArrives == Spec => []ErrorArrives
  <1>1. Init => ErrorArrives
    BY DEF Init, ErrorArrives
  <1>2. IInv /\ ErrorArrives /\ [Next]_vars => ErrorArrives'
    <2> SUFFICES ASSUME IInv, ErrorArrives, [Next]_vars PROVE ErrorArrives'
      OBVIOUS
    <2> USE DEF ErrorArrives
    <2>0. server \in {"none", "starting", "serving", "returned", "ended"}
          /\ serverErr \in 0..1
      BY DEF IInv, TypeOK
    <2>1. CASE Spawn
      BY <2>1 DEF Spawn, IInv, Started
    <2>2. CASE TakeServerErr
      BY <2>2 DEF TakeServerErr, Exit
    <2>3. CASE MainStep /\ ~Spawn /\ ~TakeServerErr
      BY <2>3 DEF MainStep, NewDB, Notify, TakeSignal, CloseDone, BeginShutdown,
                  Drained, ShutdownTimesOut, ClosePool, Return, serving
    <2>4. CASE StartFails \/ Kill
      BY <2>4 DEF StartFails, Kill, Exit, serving
    <2>5. CASE Signal
      BY <2>5 DEF Signal, control, serving
    <2>6. CASE ServerStep
      BY <2>0, <2>6 DEF ServerStep, Listen, ListenAndServeReturns, SendErr,
                        ServerTo, control
    <2>7. CASE \E w \in Workers : Tick(w) \/ WorkerStep(w)
      BY <2>7 DEF Tick, WorkerStep, TakeTick, TakeDone, WorkerAcquires,
                  WorkerEnds, WorkerTo, control, serving
    <2>8. CASE \E r \in Requests : HandlerMoves(r) \/ LoggerStep(r)
      BY <2>8, HandlersLeaveServer DEF LoggerStep, LoggerAcquires, LoggerEnds,
                  LoggerTo, control, serving
    <2>9. CASE UNCHANGED vars
      BY <2>9 DEF vars, control, serving
    <2> QED
      BY <2>1, <2>2, <2>3, <2>4, <2>5, <2>6, <2>7, <2>8, <2>9 DEF Next, HandlerMoves
  <1> QED BY <1>1, <1>2, LifecycleInvariant, PTL DEF Spec

-----------------------------------------------------------------------------
(* Handlers come to an end *)

(* What a handler has before it: five steps for each statement it may      *)
(* still make, less those it has made of the present one.                  *)
Rank(r) ==
    CASE pc[r] \in {"closed", "idle"}      -> 0
      [] pc[r] = "running"                -> 5 * left[r] + 1
      [] pc[r] \in {"statement", "begun"} -> 5 * left[r]
      [] pc[r] = "commit"                 -> 5 * left[r] - 1
      [] pc[r] = "hung"                   -> 5 * left[r] - 2

RanksFall ==
    \A r \in Requests :
        r \in InFlight => IF pc'[r] = pc[r] THEN Rank(r)' = Rank(r)
                                            ELSE Rank(r)' < Rank(r)

(* The rank of each place, and that it is a natural number. *)
RankOK ==
    \A r \in Requests :
       /\ pc[r] \in {"closed", "idle"} => Rank(r) = 0
       /\ pc[r] = "running" => Rank(r) = 5 * left[r] + 1
       /\ pc[r] \in {"statement", "begun"} => Rank(r) = 5 * left[r]
       /\ pc[r] = "commit" => Rank(r) = 5 * left[r] - 1
       /\ pc[r] = "hung" => Rank(r) = 5 * left[r] - 2
       /\ left[r] \in Nat /\ Rank(r) \in Nat

LEMMA RankValues == IInv => RankOK
  <1> SUFFICES ASSUME IInv PROVE RankOK
    OBVIOUS
  <1>1. ASSUME NEW r \in Requests
        PROVE  /\ pc[r] \in {"closed", "idle"} => Rank(r) = 0
               /\ pc[r] = "running" => Rank(r) = 5 * left[r] + 1
               /\ pc[r] \in {"statement", "begun"} => Rank(r) = 5 * left[r]
               /\ pc[r] = "commit" => Rank(r) = 5 * left[r] - 1
               /\ pc[r] = "hung" => Rank(r) = 5 * left[r] - 2
    BY DEF Rank
  <1>2. ASSUME NEW r \in Requests
        PROVE  left[r] \in Nat /\ Rank(r) \in Nat
    <2>1. left[r] \in Nat
      BY MaxStatementsAssumption DEF IInv, TypeOK
    <2>2. pc[r] \in {"statement", "begun", "commit", "hung"} => left[r] > 0
      BY DEF IInv, StatementsLeft
    <2>3. pc[r] \in PCs
      BY DEF IInv, TypeOK
    <2> QED BY <1>1, <2>1, <2>2, <2>3
  <1> QED BY <1>1, <1>2 DEF RankOK

LEMMA RankValuesNext == IInv' => RankOK'
  BY RankValues, PTL

(* Each step of a handler brings it nearer to its end. *)
LEMMA StepsLowerRank ==
    ASSUME IInv, IInv', NEW r \in Requests, HandlerMoves(r), r \in InFlight
    PROVE  Rank(r)' < Rank(r)
  <1>0. /\ pc' = [pc EXCEPT ![r] = pc'[r]]
        /\ left[r] \in Nat /\ left'[r] \in Nat
    <2>1. pc \in [Requests -> PCs]
      BY DEF IInv, TypeOK
    <2>2. left[r] \in Nat /\ left'[r] \in Nat
      BY RankValues, RankValuesNext DEF RankOK
    <2>3. \E state : HandlerTo(r, state)
      BY DEF HandlerMoves, Accept, CloseIdle, ReadRequest, HandlerStep, HandlerAcquires, TxStatement,
             StatementEnds, Respond, DatabaseHangs, ClientLeaves
    <2> QED BY <2>1, <2>2, <2>3 DEF HandlerTo
  <1>1. /\ pc \in [Requests -> PCs]
        /\ left \in [Requests -> 0..MaxStatements]
    BY DEF IInv, TypeOK
  <1>2. pc[r] \in {"statement", "begun", "commit", "hung"} => left[r] > 0
    BY DEF IInv, StatementsLeft
  <1>3. CASE HandlerAcquires(r)
    <2>1. pc[r] = "running" /\ pc'[r] \in {"statement", "begun"} /\ left'[r] = left[r]
      BY <1>1, <1>3 DEF HandlerAcquires, HandlerTo
    <2>2. Rank(r) = 5 * left[r] + 1 /\ Rank(r)' = 5 * left'[r]
      BY <2>1, RankValues, RankValuesNext DEF RankOK
    <2> QED BY <1>0, <2>1, <2>2
  <1>4. CASE TxStatement(r)
    <2>1. pc[r] = "begun" /\ pc'[r] = "commit" /\ left'[r] = left[r]
      BY <1>1, <1>4 DEF TxStatement, HandlerTo
    <2>2. Rank(r) = 5 * left[r] /\ Rank(r)' = 5 * left'[r] - 1
      BY <2>1, RankValues, RankValuesNext DEF RankOK
    <2> QED BY <1>0, <2>1, <2>2
  <1>5. CASE StatementEnds(r)
    <2>1. pc[r] \in {"statement", "commit"} /\ pc'[r] = "running" /\ left'[r] = left[r] - 1
      BY <1>1, <1>5 DEF StatementEnds, HandlerTo
    <2>2. Rank(r) \in {5 * left[r], 5 * left[r] - 1} /\ Rank(r)' = 5 * left'[r] + 1
      BY <2>1, RankValues, RankValuesNext DEF RankOK
    <2> QED BY <1>0, <2>1, <2>2
  <1>6. CASE Respond(r)
    <2>1. pc[r] = "running" /\ pc'[r] \in {"closed", "idle"}
      BY <1>1, <1>6 DEF Respond, HandlerTo
    <2>2. Rank(r) = 5 * left[r] + 1 /\ Rank(r)' = 0
      BY <2>1, RankValues, RankValuesNext DEF RankOK
    <2> QED BY <1>0, <2>2
  <1>7. CASE DatabaseHangs(r)
    <2>1. pc[r] \in {"statement", "begun", "commit"} /\ pc'[r] = "hung" /\ left'[r] = left[r]
      BY <1>1, <1>7 DEF DatabaseHangs, HandlerTo
    <2>2. Rank(r) \in {5 * left[r], 5 * left[r] - 1} /\ Rank(r)' = 5 * left'[r] - 2
      BY <2>1, RankValues, RankValuesNext DEF RankOK
    <2> QED BY <1>0, <2>1, <2>2
  <1>8. CASE ClientLeaves(r)
    <2>1. /\ pc[r] \in {"statement", "begun", "commit", "hung"}
          /\ pc'[r] = "running" /\ left'[r] = 0
      BY <1>1, <1>8 DEF ClientLeaves, HandlerTo
    <2>2. /\ Rank(r) \in {5 * left[r], 5 * left[r] - 1, 5 * left[r] - 2}
          /\ Rank(r)' = 5 * left'[r] + 1
      BY <2>1, RankValues, RankValuesNext DEF RankOK
    <2> QED BY <1>0, <1>2, <2>1, <2>2
  <1>9. ~Accept(r) /\ ~CloseIdle(r) /\ ~ReadRequest(r)
    BY DEF Accept, CloseIdle, ReadRequest, InFlight
  <1> QED
    BY <1>3, <1>4, <1>5, <1>6, <1>7, <1>8, <1>9 DEF HandlerMoves, HandlerStep

(* No handler goes round in circles: every step of one, the database       *)
(* hanging and the client leaving included, lowers a natural number that   *)
(* no other goroutine changes.  What AcceptedEnds leaves to fairness is    *)
(* only that a handler that can go on does.                                *)
THEOREM HandlersAdvance == Spec => []RankOK /\ [][RanksFall]_vars
  <1>1. IInv /\ IInv' /\ [Next]_vars => [RanksFall]_vars
    <2> SUFFICES ASSUME IInv, IInv', Next, NEW r \in Requests, r \in InFlight
                 PROVE  IF pc'[r] = pc[r] THEN Rank(r)' = Rank(r)
                                          ELSE Rank(r)' < Rank(r)
      BY DEF RanksFall
    <2>0. /\ pc \in [Requests -> PCs]
          /\ left \in [Requests -> 0..MaxStatements]
      BY DEF IInv, TypeOK
    <2>1. CASE HandlerMoves(r)
      <3>1. Rank(r)' < Rank(r)
        BY <2>1, StepsLowerRank
      <3>2. pc'[r] # pc[r]
        BY <2>0, <2>1 DEF HandlerMoves, Accept, CloseIdle, ReadRequest, HandlerStep, HandlerAcquires, TxStatement,
                    StatementEnds, Respond, DatabaseHangs, ClientLeaves, HandlerTo
      <3> QED BY <3>1, <3>2
    <2>2. ASSUME NEW q \in Requests, HandlerMoves(q), q # r
          PROVE  pc'[r] = pc[r] /\ left'[r] = left[r]
      <3>1. \E state : pc' = [pc EXCEPT ![q] = state]
        BY <2>2 DEF HandlerMoves, Accept, CloseIdle, ReadRequest, HandlerStep, HandlerAcquires, TxStatement,
                    StatementEnds, Respond, DatabaseHangs, ClientLeaves, HandlerTo
      <3>2. \E n : left' = [left EXCEPT ![q] = n]
        <4>1. CASE ReadRequest(q) BY <4>1 DEF ReadRequest
        <4>2. CASE StatementEnds(q) BY <4>2 DEF StatementEnds
        <4>3. CASE Respond(q) BY <4>3 DEF Respond
        <4>4. CASE ClientLeaves(q) BY <4>4 DEF ClientLeaves
        <4>5. CASE \/ Accept(q) \/ CloseIdle(q) \/ HandlerAcquires(q)
                   \/ TxStatement(q) \/ DatabaseHangs(q)
          <5>1. left' = [left EXCEPT ![q] = left[q]]
            BY <2>0, <4>5 DEF Accept, CloseIdle, HandlerAcquires, TxStatement,
                              DatabaseHangs
          <5> QED BY <5>1
        <4> QED BY <2>2, <4>1, <4>2, <4>3, <4>4, <4>5 DEF HandlerMoves, HandlerStep
      <3> QED BY <2>0, <2>2, <3>1, <3>2
    <2>3. (\E q \in Requests : HandlerMoves(q)) \/ UNCHANGED <<pc, left>>
      <3>1. CASE MainStep \/ StartFails
        BY <3>1 DEF MainStep, NewDB, Notify, Spawn, TakeServerErr, TakeSignal,
                    CloseDone, BeginShutdown, Drained, ShutdownTimesOut,
                    ClosePool, Return, StartFails, handling, InFlight
      <3>2. CASE Signal \/ Kill \/ ServerStep
        BY <3>2 DEF Signal, Kill, ServerStep, Listen, ListenAndServeReturns,
                    SendErr, ServerTo, handling
      <3>3. CASE \E w \in Workers : Tick(w) \/ WorkerStep(w)
        BY <3>3 DEF Tick, WorkerStep, TakeTick, TakeDone, WorkerAcquires,
                    WorkerEnds, WorkerTo, handling
      <3>4. CASE \E q \in Requests : LoggerStep(q)
        BY <3>4 DEF LoggerStep, LoggerAcquires, LoggerEnds, LoggerTo
      <3> QED BY <3>1, <3>2, <3>3, <3>4 DEF Next, HandlerMoves
    <2>4. ASSUME pc'[r] = pc[r], left'[r] = left[r]
          PROVE  Rank(r)' = Rank(r)
      BY <2>4 DEF Rank
    <2>5. CASE pc'[r] = pc[r] /\ left'[r] = left[r]
      BY <2>4, <2>5
    <2> QED BY <2>1, <2>2, <2>3, <2>5
  <1>2. IInv => RankOK
    BY RankValues
  <1> QED BY <1>1, <1>2, LifecycleInvariant, PTL DEF Spec
===========================================================================
