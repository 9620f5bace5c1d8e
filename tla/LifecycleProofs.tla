-------------------------- MODULE LifecycleProofs --------------------------
(***************************************************************************)
(* For any number of clients, connections and queries: no connection leaks *)
(* from the pool, the pool outlives the requests of a drained server, and  *)
(* the exit code tells what ended the process.                             *)
(***************************************************************************)
EXTENDS Lifecycle, TLAPS

-----------------------------------------------------------------------------
(* The pool alone.                                                           *)
PoolInv == PoolTypeOK /\ QueriesLeft /\ NoConnectionLeaks

LEMMA PoolInitial == PoolInit => PoolInv
  BY PoolAssumption DEF PoolInit, PoolInv, PoolTypeOK, QueriesLeft, NoConnectionLeaks, Stages

(* A handler touches its own stage and count, and only its own connections.  *)
LEMMA HandlerStepInv ==
  ASSUME PoolInv, NEW h \in Handlers, HandlerStep(h) \/ Connect(h)
  PROVE  PoolInv'
<1> USE PoolAssumption DEF PoolInv, PoolTypeOK, QueriesLeft, NoConnectionLeaks, Stages
<1>1. CASE Connect(h)
  BY <1>1 DEF Connect
<1>2. ASSUME NEW q \in 0 .. MaxQueries, NEW asks \in BOOLEAN, Request(h, q, asks)
      PROVE  PoolInv'
  BY <1>2 DEF Request
<1>3. ASSUME NEW granted \in BOOLEAN, Authorized(h, granted)
      PROVE  PoolInv'
  BY <1>3 DEF Authorized
<1>4. CASE Acquire(h)
  <2>1. PICK c \in Conns : holder[c] = Free /\ holder' = [holder EXCEPT ![c] = h]
    BY <1>4 DEF Acquire
  <2>2. PoolTypeOK'
    BY <1>4, <2>1 DEF Acquire
  <2>3. QueriesLeft'
    BY <1>4, <2>1 DEF Acquire
  <2>4. NoConnectionLeaks'
    BY <1>4, <2>1 DEF Acquire
  <2> QED
    BY <2>2, <2>3, <2>4
<1>5. CASE QueryDone(h)
  BY <1>5 DEF QueryDone, Released
<1>6. CASE QueryFails(h)
  BY <1>6 DEF QueryFails, Released
<1>7. CASE Unserved(h)
  BY <1>7 DEF Unserved
<1>8. ASSUME NEW next \in {"idle", "none"}, Answer(h, next)
      PROVE  PoolInv'
  BY <1>8 DEF Answer
<1> QED
  BY <1>1, <1>2, <1>3, <1>4, <1>5, <1>6, <1>7, <1>8 DEF HandlerStep

(* The pool's inductive step, for every step of ConnPool. *)
LEMMA PoolStep == PoolInv /\ [PoolNext]_poolVars => PoolInv'
<1> SUFFICES ASSUME PoolInv, [PoolNext]_poolVars
             PROVE  PoolInv'
  OBVIOUS
<1>1. ASSUME NEW h \in Handlers, Connect(h) \/ HandlerStep(h)
      PROVE  PoolInv'
  BY <1>1, HandlerStepInv
<1>2. CASE ClosePool
  BY <1>2 DEF ClosePool, PoolInv, PoolTypeOK, QueriesLeft, NoConnectionLeaks
<1>3. CASE UNCHANGED poolVars
  BY <1>3 DEF poolVars, PoolInv, PoolTypeOK, QueriesLeft, NoConnectionLeaks
<1> QED
  BY <1>1, <1>2, <1>3 DEF PoolNext

(* punishment_repo.go:245-259: in every behaviour of the pool, a connection  *)
(* in use is used by a query that is running.                                *)
THEOREM NoLeaks == PoolSpec => []NoConnectionLeaks
<1>1. PoolInv => NoConnectionLeaks
  BY DEF PoolInv
<1> QED
  BY <1>1, PoolInitial, PoolStep, PTL DEF PoolSpec

-----------------------------------------------------------------------------
(* The process.                                                              *)
LEMMA Initial == Init => IInv
<1> SUFFICES ASSUME Init PROVE IInv
  OBVIOUS
<1>1. PoolTypeOK /\ QueriesLeft
  BY PoolInitial DEF Init, PoolInv
<1>2. TypeOK
  BY <1>1 DEF Init, TypeOK
<1>3. StartedInOrder /\ ReportKept /\ ExitTells /\ Quiet
  BY DEF Init, StartedInOrder, ReportKept, ExitTells, Quiet
<1>4. PoolOpen
  BY DEF Init, PoolInit, PoolOpen
<1> QED
  BY <1>1, <1>2, <1>3, <1>4 DEF IInv

(* Steps that leave the handlers and the pool alone. *)
LEMMA ProcessStep ==
  ASSUME IInv,
         Signal \/ Opened \/ StartFails \/ Run \/ Listening \/ ListenerFails
           \/ ListenerCloses \/ TakeSignal \/ TakeError \/ Drained
           \/ DrainTimesOut \/ AwaitListener
  PROVE  IInv'
<1> USE DEF IInv, TypeOK, StartedInOrder, ReportKept, ExitTells, Quiet, PoolOpen
<1>0. UNCHANGED poolVars
  BY DEF Signal, Opened, StartFails, Run, Listening, ListenerFails, ListenerCloses, Report,
         TakeSignal, TakeError, Drained, DrainTimesOut, AwaitListener
<1>1. PoolTypeOK' /\ QueriesLeft'
  BY <1>0 DEF PoolTypeOK, QueriesLeft, poolVars
<1>2. UNCHANGED <<stage, open>>
  BY <1>0 DEF poolVars
<1>3. CASE Signal
  BY <1>1, <1>2, <1>3 DEF Signal
<1>4. CASE Opened
  BY <1>1, <1>2, <1>4 DEF Opened
<1>5. CASE StartFails
  BY <1>1, <1>2, <1>5 DEF StartFails
<1>6. CASE Run
  BY <1>1, <1>2, <1>6 DEF Run
<1>7. CASE Listening
  BY <1>1, <1>2, <1>7 DEF Listening
<1>8. CASE ListenerFails
  BY <1>1, <1>2, <1>8 DEF ListenerFails, Report
<1>9. CASE ListenerCloses
  BY <1>1, <1>2, <1>9 DEF ListenerCloses, Report
<1>10. CASE TakeSignal
  BY <1>1, <1>2, <1>10 DEF TakeSignal
<1>11. CASE TakeError
  BY <1>1, <1>2, <1>11 DEF TakeError
<1>12. CASE Drained
  BY <1>1, <1>2, <1>12 DEF Drained
<1>13. CASE DrainTimesOut
  BY <1>1, <1>2, <1>13 DEF DrainTimesOut
<1>14. CASE AwaitListener
  BY <1>1, <1>2, <1>14 DEF AwaitListener, Exit
<1> QED
  BY <1>3, <1>4, <1>5, <1>6, <1>7, <1>8, <1>9, <1>10, <1>11, <1>12, <1>13, <1>14

(* db.Close, and the exit that follows it when the listener has failed. *)
LEMMA CloseStep ==
  ASSUME IInv, CloseDB
  PROVE  IInv'
  BY DEF CloseDB, ClosePool, Exit, IInv, TypeOK, PoolTypeOK, QueriesLeft, StartedInOrder, ReportKept,
         ExitTells, Quiet, PoolOpen

(* Handlers keep their types, and a server that has drained has none left.   *)
LEMMA HandlersStep ==
  ASSUME IInv, NEW h \in Handlers, Accept(h) \/ Serve(h) \/ CloseIdle(h)
  PROVE  IInv'
<1> USE DEF IInv
<1>1. UNCHANGED <<procVars, open>>
  BY DEF Accept, Serve, CloseIdle, Connect, HandlerStep, Request, Authorized, Acquire,
         QueryDone, QueryFails, Unserved, Answer
<1>2. PoolTypeOK' /\ QueriesLeft'
  BY PoolAssumption
  DEF TypeOK, PoolTypeOK, QueriesLeft, Stages, Accept, Serve, CloseIdle, Connect, HandlerStep, Request,
      Authorized, Acquire, QueryDone, QueryFails, Unserved, Answer, Released
<1>3. TypeOK' /\ QueriesLeft' /\ StartedInOrder' /\ ReportKept' /\ ExitTells' /\ PoolOpen'
  BY <1>1, <1>2 DEF TypeOK, StartedInOrder, ReportKept, ExitTells, PoolOpen, procVars
<1>4. Quiet'
  <2>1. CASE Accept(h)
    BY <1>1, <2>1 DEF Accept, Quiet, procVars
  <2>2. CASE CloseIdle(h)
    BY <1>1, <2>2 DEF CloseIdle, Quiet, procVars
  <2>3. CASE Serve(h)
    <3>1. stage[h] # "none"
      BY <2>3 DEF Serve, HandlerStep, Request, Authorized, Acquire, QueryDone, QueryFails,
                  Unserved, Answer
    <3> QED
      BY <1>1, <3>1 DEF Quiet, procVars
  <2> QED
    BY <2>1, <2>2, <2>3
<1> QED
  BY <1>3, <1>4

LEMMA Step == IInv /\ [Next]_vars => IInv'
<1> SUFFICES ASSUME IInv, [Next]_vars
             PROVE  IInv'
  OBVIOUS
<1>1. CASE Signal \/ MainStep \/ DrainTimesOut \/ ListenerStep
  BY <1>1, ProcessStep, CloseStep DEF MainStep, ListenerStep
<1>2. ASSUME NEW h \in Handlers, Accept(h) \/ Serve(h) \/ CloseIdle(h)
      PROVE  IInv'
  BY <1>2, HandlersStep
<1>3. CASE UNCHANGED vars
  BY <1>3 DEF vars, poolVars, procVars, IInv, TypeOK, PoolTypeOK, QueriesLeft, StartedInOrder,
              ReportKept, ExitTells, Quiet, PoolOpen
<1> QED
  BY <1>1, <1>2, <1>3 DEF Next

(* app.go:61-86: what main, the listener goroutine and the channel know of   *)
(* each other holds whatever the order of signal, failure and handlers.      *)
THEOREM Invariance == Spec => []IInv
  BY Initial, Step, PTL DEF Spec

(* app.go:77-80: a server that drained in time closes the pool under no      *)
(* request.                                                                  *)
THEOREM DrainTheorem == Spec => []DrainedBeforeClose
<1>1. IInv => DrainedBeforeClose
  BY DEF IInv, Quiet, PoolOpen, DrainedBeforeClose, Active
<1> QED
  BY <1>1, Invariance, PTL

(* app.go:72-85, main.go:36-39: the exit code is 1 after every failure of    *)
(* the listener and 0 only after a signal.                                   *)
THEOREM ExitTheorem == Spec => []ExitCodeTruthful
<1>1. IInv => ExitCodeTruthful
  <2> SUFFICES ASSUME IInv, main = "exited"
               PROVE  (listenerFailed => exitCode = 1) /\ (exitCode = 0 => signalled)
    BY DEF ExitCodeTruthful
  <2>1. CASE listener = "none"
    BY <2>1 DEF IInv, TypeOK, StartedInOrder, ReportKept, ExitTells
  <2>2. CASE listener # "none"
    BY <2>2 DEF IInv, TypeOK, StartedInOrder, ReportKept, ExitTells
  <2> QED
    BY <2>1, <2>2
<1> QED
  BY <1>1, Invariance, PTL
=============================================================================
