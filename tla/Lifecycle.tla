----------------------------- MODULE Lifecycle -----------------------------
(***************************************************************************)
(* The process: main, App.New, App.Run with its listener goroutine, and    *)
(* the handlers of ConnPool, from start to exit.  A signal may come at any *)
(* time, also while the listener is failing.                               *)
(***************************************************************************)
EXTENDS ConnPool

VARIABLES
    main,           \* what the main goroutine is at
    signalled,      \* SIGINT or SIGTERM has come: ctx is done
    listener,       \* the goroutine that runs ListenAndServe
    shuttingDown,   \* Server.Shutdown has begun
    errCh,          \* the channel of capacity 1 it reports on
    result,         \* the error Run has received, "none" before
    timedOut,       \* history: Shutdown gave up waiting for the handlers
    listenerFailed, \* history: ListenAndServe failed
    exitCode        \* -1 while the process runs

procVars == <<main, signalled, listener, shuttingDown, errCh, result, timedOut,
              listenerFailed, exitCode>>
vars == <<poolVars, procVars>>

TypeOK ==
    /\ PoolTypeOK
    /\ main \in {"opening", "wiring", "running", "draining", "closing", "awaiting", "exited"}
    /\ signalled \in BOOLEAN
    /\ listener \in {"none", "starting", "listening", "returned"}
    /\ shuttingDown \in BOOLEAN
    /\ errCh \in {"empty", "nil", "error"}
    /\ result \in {"none", "nil", "error"}
    /\ timedOut \in BOOLEAN
    /\ listenerFailed \in BOOLEAN
    /\ exitCode \in {-1, 0, 1}

Init ==
    /\ PoolInit
    /\ main = "opening" /\ signalled = FALSE
    /\ listener = "none" /\ shuttingDown = FALSE /\ errCh = "empty"
    /\ result = "none" /\ timedOut = FALSE /\ listenerFailed = FALSE /\ exitCode = -1

-----------------------------------------------------------------------------
(* Start and end of the process.                                             *)
Signal ==
    /\ main # "exited" /\ ~ signalled
    /\ signalled' = TRUE
    /\ UNCHANGED <<main, listener, shuttingDown, errCh, result, timedOut,
                   listenerFailed, exitCode>>
    /\ UNCHANGED poolVars

(* db.Open has pinged the database. *)
Opened ==
    /\ main = "opening"
    /\ main' = "wiring"
    /\ UNCHANGED <<signalled, listener, shuttingDown, errCh, result, timedOut,
                   listenerFailed, exitCode>>
    /\ UNCHANGED poolVars

(* The ping fails or is cancelled by the signal, or the JWT key is unusable: *)
(* App.New returns the error.                                                *)
StartFails ==
    /\ main \in {"opening", "wiring"}
    /\ main' = "exited"
    /\ exitCode' = 1
    /\ UNCHANGED <<signalled, listener, shuttingDown, errCh, result, timedOut, listenerFailed>>
    /\ UNCHANGED poolVars

Run ==
    /\ main = "wiring"
    /\ main' = "running"
    /\ listener' = "starting"
    /\ UNCHANGED <<signalled, shuttingDown, errCh, result, timedOut, listenerFailed, exitCode>>
    /\ UNCHANGED poolVars

-----------------------------------------------------------------------------
(* The listener goroutine.                                                   *)
Listening ==
    /\ listener = "starting" /\ ~ shuttingDown
    /\ listener' = "listening"
    /\ UNCHANGED <<main, signalled, shuttingDown, errCh, result, timedOut,
                   listenerFailed, exitCode>>
    /\ UNCHANGED poolVars

Report(message) ==
    /\ errCh = "empty"
    /\ errCh' = message
    /\ listener' = "returned"
    /\ UNCHANGED <<main, signalled, shuttingDown, result, timedOut, exitCode>>
    /\ UNCHANGED poolVars

(* The port cannot be bound, even while a shutdown begins, or Accept fails.  *)
ListenerFails ==
    /\ listener = "starting" \/ (listener = "listening" /\ ~ shuttingDown)
    /\ listenerFailed' = TRUE
    /\ Report("error")

(* Mutant of ListenerCloses: ErrServerClosed is reported like any error. *)
ListenerClosesLoudly ==
    /\ listener \in {"starting", "listening"} /\ shuttingDown
    /\ Report("error")
    /\ UNCHANGED listenerFailed

(* ErrServerClosed. *)
ListenerCloses ==
    /\ listener \in {"starting", "listening"} /\ shuttingDown
    /\ Report("nil")
    /\ UNCHANGED listenerFailed

-----------------------------------------------------------------------------
(* Run's select takes either ready case. *)
TakeSignal ==
    /\ main = "running" /\ signalled
    /\ main' = "draining"
    /\ shuttingDown' = TRUE
    /\ UNCHANGED <<signalled, listener, errCh, result, timedOut, listenerFailed, exitCode>>
    /\ UNCHANGED poolVars

(* Mutant of TakeError: Run looks at the channel only after the signal. *)
TakeErrorLate ==
    /\ main = "running" /\ errCh # "empty" /\ signalled
    /\ result' = errCh
    /\ errCh' = "empty"
    /\ main' = "closing"
    /\ UNCHANGED <<signalled, listener, shuttingDown, timedOut, listenerFailed, exitCode>>
    /\ UNCHANGED poolVars

TakeError ==
    /\ main = "running" /\ errCh # "empty"
    /\ result' = errCh
    /\ errCh' = "empty"
    /\ main' = "closing"
    /\ UNCHANGED <<signalled, listener, shuttingDown, timedOut, listenerFailed, exitCode>>
    /\ UNCHANGED poolVars

(* Mutant of Drained: accepted connections without a request are not awaited. *)
DrainedButNew ==
    /\ main = "draining" /\ \A h \in Handlers : stage[h] \in {"none", "new"}
    /\ main' = "closing"
    /\ UNCHANGED <<signalled, listener, shuttingDown, errCh, result, timedOut,
                   listenerFailed, exitCode>>
    /\ UNCHANGED poolVars

(* Shutdown returns nil: every connection is closed. *)
Drained ==
    /\ main = "draining" /\ \A h \in Handlers : stage[h] = "none"
    /\ main' = "closing"
    /\ UNCHANGED <<signalled, listener, shuttingDown, errCh, result, timedOut,
                   listenerFailed, exitCode>>
    /\ UNCHANGED poolVars

(* Mutant of DrainTimesOut: Shutdown with a context that has no deadline. *)
DrainWaits == FALSE /\ UNCHANGED vars

(* Ten seconds have passed; the error is logged and dropped. *)
DrainTimesOut ==
    /\ main = "draining"
    /\ main' = "closing"
    /\ timedOut' = TRUE
    /\ UNCHANGED <<signalled, listener, shuttingDown, errCh, result, listenerFailed, exitCode>>
    /\ UNCHANGED poolVars

(* Exit of the process takes the handlers with it. *)
Exit(error) ==
    /\ main' = "exited"
    /\ exitCode' = IF error = "error" THEN 1 ELSE 0

(* db.Close; after a signal, Run then waits for the listener. *)
CloseDB ==
    /\ main = "closing"
    /\ ClosePool
    /\ IF result = "none" THEN main' = "awaiting" /\ UNCHANGED exitCode
                          ELSE Exit(result)
    /\ UNCHANGED <<signalled, listener, shuttingDown, errCh, result, timedOut, listenerFailed>>

(* Mutant of AwaitListener: after a signal Run returns nil. *)
ForgetListener ==
    /\ main = "awaiting" /\ errCh # "empty"
    /\ Exit("nil")
    /\ UNCHANGED <<signalled, listener, shuttingDown, errCh, result, timedOut, listenerFailed>>
    /\ UNCHANGED poolVars

(* return <-errCh *)
AwaitListener ==
    /\ main = "awaiting" /\ errCh # "empty"
    /\ result' = errCh
    /\ errCh' = "empty"
    /\ Exit(errCh)
    /\ UNCHANGED <<signalled, listener, shuttingDown, timedOut, listenerFailed>>
    /\ UNCHANGED poolVars

-----------------------------------------------------------------------------
(* Handlers run while the process lives.  A connection is accepted only      *)
(* while the server listens; one kept alive may outlive a failed listener.   *)
(* A server that shuts down keeps no connection alive, closes the idle ones, *)
(* and those still without a request after five seconds.                     *)
Accept(h) ==
    /\ main # "exited" /\ listener = "listening" /\ ~ shuttingDown
    /\ Connect(h)
    /\ UNCHANGED procVars

Serve(h) ==
    /\ main # "exited"
    /\ HandlerStep(h)
    /\ shuttingDown => stage'[h] # "idle"
    /\ UNCHANGED procVars

CloseIdle(h) ==
    /\ main = "draining" /\ stage[h] \in {"new", "idle"}
    /\ stage' = [stage EXCEPT ![h] = "none"]
    /\ UNCHANGED <<left, holder, open>> /\ UNCHANGED procVars

MainStep ==
    \/ Opened \/ StartFails \/ Run
    \/ TakeSignal \/ TakeError \/ Drained \/ CloseDB \/ AwaitListener

ListenerStep == Listening \/ ListenerFails \/ ListenerCloses

Next ==
    \/ Signal
    \/ MainStep
    \/ DrainTimesOut
    \/ ListenerStep
    \/ \E h \in Handlers : Accept(h) \/ Serve(h) \/ CloseIdle(h)

(* The goroutines of Run are scheduled and the timer of Shutdown fires; the  *)
(* start-up steps end because the ping has a timeout.  Nothing is assumed of *)
(* the handlers, the clients or Authority.                                   *)
Fairness == WF_vars(MainStep) /\ WF_vars(DrainTimesOut) /\ WF_vars(ListenerStep)

Spec == Init /\ [][Next]_vars /\ Fairness

-----------------------------------------------------------------------------
(* app.go:77-80: after a signal the pool is closed under a request in flight *)
(* only if the drain timed out; a request accepted before the signal and     *)
(* read after it still has its database.                                     *)
DrainedBeforeClose ==
    ~ open /\ shuttingDown /\ ~ timedOut => \A h \in Handlers : ~ Active(h)

(* app.go:65-82, main.go:36-39: the exit code tells what happened however    *)
(* the signal and a failure of the listener race: 1 after every failure, and *)
(* 0 only after a signal.                                                    *)
ExitCodeTruthful ==
    main = "exited" => /\ listenerFailed => exitCode = 1
                       /\ exitCode = 0 => signalled

(* app.go:72-81: a signal ends the process even if no request ever finishes, *)
(* no client hangs up and Authority never answers.                           *)
SignalEndsProcess == signalled ~> main = "exited"

(* app.go:82: so does a failed listener, with no signal: the process does    *)
(* not go on without serving.                                                *)
FailureEndsProcess == listenerFailed ~> exitCode = 1

-----------------------------------------------------------------------------
(* The inductive invariant: how far main, the listener and the channel are   *)
(* from each other.                                                          *)
StartedInOrder ==
    /\ main \in {"opening", "wiring"} => listener = "none"
    /\ main \notin {"opening", "wiring", "exited"} => listener # "none"
    /\ listener = "none" => ~ shuttingDown /\ ~ listenerFailed /\ errCh = "empty"
    /\ main \in {"draining", "awaiting"} => shuttingDown
    /\ main = "running" => ~ shuttingDown
    /\ shuttingDown => signalled

(* What the listener has reported is in the channel until Run takes it.      *)
ReportKept ==
    /\ errCh # "empty" => listener = "returned" /\ result = "none"
    /\ result # "none" => listener = "returned"
    /\ listener \in {"starting", "listening"} => ~ listenerFailed
    /\ listener = "returned" => errCh # "empty" \/ result # "none"
    /\ "error" \in {errCh, result} <=> listenerFailed
    /\ "nil" \in {errCh, result} => shuttingDown
    /\ main \in {"running", "draining", "awaiting"} => result = "none"
    /\ main = "closing" /\ result = "none" => shuttingDown

ExitTells ==
    main = "exited" =>
        /\ exitCode = IF result = "nil" THEN 0 ELSE 1
        /\ listener # "none" => result # "none"

Quiet ==
    main \in {"closing", "awaiting", "exited"} /\ shuttingDown /\ ~ timedOut =>
        \A h \in Handlers : stage[h] = "none"

PoolOpen == ~ open => main \in {"awaiting", "exited"}

IInv ==
    /\ TypeOK
    /\ QueriesLeft
    /\ StartedInOrder
    /\ ReportKept
    /\ ExitTells
    /\ Quiet
    /\ PoolOpen
=============================================================================
