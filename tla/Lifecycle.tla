------------------------------ MODULE Lifecycle ------------------------------
(***************************************************************************)
(* The life of the server process (run in src/cmd/web/main.go) around the  *)
(* calibrations it serves: start, a termination signal, draining under a   *)
(* deadline, exit, the next start. Between two lives only Postgres and the *)
(* object store remember anything.                                         *)
(*                                                                         *)
(* A calibration waits for the AI service up to AI_TIMEOUT, 240 s, and     *)
(* SHUTDOWN_TIMEOUT is 15 s. Nothing cancels a handler: fiber's            *)
(* UserContext is the background context, and the shutdown only waits.     *)
(***************************************************************************)
EXTENDS Calibration

CONSTANT ShutdownTimeout   \* cfg.ShutdownTimeout, in ticks

ASSUME DeadlineAssumption == ShutdownTimeout \in Nat \ {0}

VARIABLES
  mode,    \* what the process is doing
  drain,   \* ticks since ShutdownWithTimeout was called
  exit,    \* how the last process ended
  aboard   \* history: the requests the process has served since the signal

lifeVars == <<mode, drain, exit, aboard>>
processVars == <<vars, lifeVars>>

Serving == mode \in {"up", "draining"}

\* Every variable keeps its type; the deadline is not overrun.
LifecycleTypeOK ==
  /\ TypeOK
  /\ mode \in {"up", "draining", "down"}
  /\ drain \in 0..ShutdownTimeout
  /\ exit \in {"none", "clean", "error", "killed"}
  /\ aboard \subseteq Calibrations

LifecycleInit ==
  /\ Init
  /\ mode = "up"
  /\ drain = 0
  /\ exit = "none"
  /\ aboard = {}

-----------------------------------------------------------------------------
\* A request begins. Once the listener is closed only a connection accepted
\* before can still bring one.
Serve(c) ==
  /\ Serving
  /\ Start(c)
  /\ aboard' = IF mode = "draining" THEN aboard \cup {c} ELSE aboard
  /\ UNCHANGED <<mode, drain, exit>>

\* Draining or not, a handler that runs goes on as if nothing had happened.
Proceed(c) == Serving /\ Step(c) /\ UNCHANGED lifeVars

Suffer(c) == Serving /\ Fault(c) /\ UNCHANGED lifeVars

DeleteOne(m) == Serving /\ DeleteMachine(m) /\ UNCHANGED lifeVars

\* SIGINT or SIGTERM. A second one is caught as well and changes nothing.
Signal ==
  /\ mode = "up"
  /\ mode' = "draining"
  /\ drain' = 0
  /\ aboard' = {c \in Calibrations : pc[c] \in InFlight}
  /\ UNCHANGED <<vars, exit>>

\* Mutant: the deadline runs only while no handler does.
TickUnlessBusy ==
  /\ mode = "draining" /\ drain < ShutdownTimeout
  /\ \A c \in Calibrations : pc[c] \notin InFlight
  /\ drain' = drain + 1
  /\ UNCHANGED <<vars, mode, exit, aboard>>

Tick ==
  /\ mode = "draining" /\ drain < ShutdownTimeout
  /\ drain' = drain + 1
  /\ UNCHANGED <<vars, mode, exit, aboard>>

\* Mutant: the shutdown waits for open transactions, not for requests.
DrainedOfTransactions ==
  /\ mode = "draining"
  /\ \A c \in Calibrations : pc[c] \notin InTransaction
  /\ mode' = "down" /\ exit' = "clean"
  /\ UNCHANGED <<vars, drain, aboard>>

\* No connection serves a request any more: ShutdownWithTimeout returns nil and
\* main returns with status 0.
Drained ==
  /\ mode = "draining"
  /\ \A c \in Calibrations : pc[c] \notin InFlight
  /\ mode' = "down" /\ exit' = "clean"
  /\ UNCHANGED <<vars, drain, aboard>>

\* ShutdownWithTimeout returns an error. The deferred Closes take the connections
\* away and os.Exit(1) ends the handlers that still run; what their statements do
\* in between is a Fault.
DeadlinePasses ==
  /\ mode = "draining" /\ drain = ShutdownTimeout
  /\ Crash
  /\ mode' = "down" /\ exit' = "error"
  /\ UNCHANGED <<drain, aboard>>

\* SIGKILL, a panic outside a handler, a listener that fails.
Kill ==
  /\ Serving
  /\ Crash
  /\ mode' = "down" /\ exit' = "killed"
  /\ UNCHANGED <<drain, aboard>>

\* The next process starts with empty hands. Nothing is left of
\* the last one but its rows and recordings.
Restart ==
  /\ mode = "down"
  /\ mode' = "up"
  /\ drain' = 0
  /\ exit' = "none"
  /\ aboard' = {}
  /\ UNCHANGED vars

LifecycleNext ==
  \/ \E c \in Calibrations : Serve(c) \/ Proceed(c) \/ Suffer(c)
  \/ \E m \in Machines : DeleteOne(m)
  \/ Signal \/ Tick \/ Drained \/ DeadlinePasses \/ Kill \/ Restart

LifecycleSpec == LifecycleInit /\ [][LifecycleNext]_processVars

\* Time passes, and main is woken when the drain is over, one way or the other.
\* Nobody owes a signal, a request or a restart, and no handler owes its end.
LifecycleFairSpec ==
  /\ LifecycleSpec
  /\ WF_processVars(Tick)
  /\ WF_processVars(Drained \/ DeadlinePasses)

\* What a request may count on besides: the scheduler, Postgres and the timeouts of
\* the HTTP clients keep a handler moving as long as the process lives.
HandlersRun == \A c \in Calibrations : WF_processVars(Proceed(c))

-----------------------------------------------------------------------------
(* Properties. *)

\* A process that exits with status 0 has answered every request it had when the
\* signal came, and every one it let in afterwards; it gives up on one only after
\* the whole of SHUTDOWN_TIMEOUT; and no life leaves a lock or a request behind
\* for the next one to wait for.
ExitIsOrderly ==
  /\ exit = "clean" => \A c \in aboard : pc[c] \in {"ok", "refused", "failed"}
  /\ exit = "error" => drain = ShutdownTimeout
  /\ mode = "down" => \A c \in Calibrations : pc[c] \notin InFlight /\ held[c] = {}

\* A deploy is over in finite time: the process exits whatever its handlers are
\* waiting for, also when one of them waits for ever.
ShutdownEnds == mode = "draining" ~> mode = "down"

\* No calibration waits for ever on another's row lock, index entry or pooled
\* connection, in this life or the next: each one that began is answered, or dies
\* with the process.
AnsweredInAnyLife == HandlersRun => EveryCalibrationAnswered

\* What README.md:321 says ShutdownWithTimeout is there for, "in-flight requests
\* survive a deploy", and main.go:63: no request is cut off by a deploy.
RequestsSurviveADeploy ==
  exit \in {"clean", "error"} => \A c \in aboard : pc[c] # "lost"
=============================================================================
