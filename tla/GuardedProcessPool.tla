-------------------------- MODULE GuardedProcessPool --------------------------
(***************************************************************************)
(* bg/GuardedProcessPool.kt: a pool of native daemons.  Each daemon has a  *)
(* guard: a looper coroutine on the main thread, the operating system's    *)
(* process, and a thread that blocks in waitFor() and hands the exit code  *)
(* to the looper through the rendezvous channel exitChannel.  The looper   *)
(* restarts a daemon that exits and kills it when the pool is closed.      *)
(***************************************************************************)
EXTENDS Naturals, FiniteSets

CONSTANTS
    Guards,         \* the daemons the pool guards
    Callbacks,      \* those started with an onRestartCallback
    LateTimeout,    \* may a timeout beat an exit code that is already on its way?
    Stubborn,       \* daemons that survive SIGTERM
    Api,            \* the band of Build.VERSION.SDK_INT: < 24, 24..25, >= 26
    MaxFatals       \* bound: onFatal calls in flight

ASSUME GuardedPoolAssumption ==
    /\ Callbacks \subseteq Guards
    /\ Stubborn \subseteq Guards
    /\ LateTimeout \in BOOLEAN
    /\ Api \in {"below24", "24to25", "from26"}
    /\ MaxFatals \in Nat \ {0}

VARIABLES
    pc,             \* pc[g]: where looper g is (see Points)
    running,        \* the looper's local variable: is there a process to kill?
    proc,           \* proc[g]: the operating system's process
    waiter,         \* waiter[g]: the thread that waits for the current process
    closed,         \* the pool's Job is cancelled
    fatals          \* onFatal calls posted to the main looper

vars == <<pc, running, proc, waiter, closed, fatals>>

(***************************************************************************)
(* new          not started                                                *)
(* receive      suspended in exitChannel.receive() of the loop             *)
(* resumed      the exit code is delivered; the resumption is posted       *)
(* callback     suspended in onRestartCallback                             *)
(* kill         in the finally block, nothing sent to the process yet      *)
(* grace        in a receive with a timeout, after a signal                *)
(* graceResumed as grace, with the exit code delivered                     *)
(* final        in the last receive, without a timeout                     *)
(* end          the looper returned                                        *)
(***************************************************************************)
Points == {"new", "receive", "resumed", "callback", "kill", "grace",
           "graceResumed", "final", "end"}

\* signalled: SIGTERM was sent; killed: SIGKILL was sent; dead: exited.
Processes == {"none", "alive", "signalled", "killed", "dead"}

\* Type invariant of the loopers, their processes and waiter threads.
TypeOK ==
    /\ pc \in [Guards -> Points]
    /\ running \in [Guards -> BOOLEAN]
    /\ proc \in [Guards -> Processes]
    /\ waiter \in [Guards -> {"none", "waiting", "sent"}]
    /\ closed \in BOOLEAN
    /\ fatals \in Nat

Init ==
    /\ pc = [g \in Guards |-> "new"]
    /\ running = [g \in Guards |-> FALSE]
    /\ proc = [g \in Guards |-> "none"]
    /\ waiter = [g \in Guards |-> "none"]
    /\ closed = FALSE
    /\ fatals = 0

------------------------------------------------------------------------------
(* The looper, on the main thread.  A step runs from one suspension to the next. *)

\* Guard.start() and looper() up to its first receive; a start() that throws
\* is the caller's business and leaves no guard.
Start(g) ==
    /\ ~closed
    /\ pc[g] = "new"
    /\ proc' = [proc EXCEPT ![g] = "alive"]
    /\ running' = [running EXCEPT ![g] = TRUE]
    /\ waiter' = [waiter EXCEPT ![g] = "waiting"]
    /\ pc' = [pc EXCEPT ![g] = "receive"]
    /\ UNCHANGED <<closed, fatals>>

\* The loop gives up with an IOException: the daemon lived for less than a
\* second, or cannot be started again.  onFatal is posted to the main looper;
\* the finally block has nothing to kill.
GiveUp(g) ==
    /\ pc[g] = "resumed"
    /\ fatals < MaxFatals
    /\ running' = [running EXCEPT ![g] = FALSE]
    /\ fatals' = fatals + 1
    /\ pc' = [pc EXCEPT ![g] = "end"]
    /\ UNCHANGED <<proc, waiter, closed>>

\* Mutant: the waiter thread is started once, before the loop.
RestartWithoutWaiter(g) ==
    /\ pc[g] = "resumed"
    /\ proc' = [proc EXCEPT ![g] = "alive"]
    /\ running' = [running EXCEPT ![g] = TRUE]
    /\ pc' = [pc EXCEPT ![g] = IF closed THEN "kill"
                               ELSE IF g \in Callbacks THEN "callback" ELSE "receive"]
    /\ UNCHANGED <<waiter, closed, fatals>>

\* The daemon is started again.  Without a callback the loop starts a new
\* waiter and receives; with one, the callback suspends first.  A suspension
\* of a cancelled looper throws at once and leads to the finally block.
Restart(g) ==
    /\ pc[g] = "resumed"
    /\ proc' = [proc EXCEPT ![g] = "alive"]
    /\ running' = [running EXCEPT ![g] = TRUE]
    /\ waiter' = [waiter EXCEPT ![g] = IF g \in Callbacks THEN "none" ELSE "waiting"]
    /\ pc' = [pc EXCEPT ![g] = IF closed THEN "kill"
                               ELSE IF g \in Callbacks THEN "callback" ELSE "receive"]
    /\ UNCHANGED <<closed, fatals>>

\* onRestartCallback returns; the loop starts the waiter and receives.
CallbackReturns(g) ==
    /\ pc[g] = "callback"
    /\ waiter' = [waiter EXCEPT ![g] = "waiting"]
    /\ pc' = [pc EXCEPT ![g] = "receive"]
    /\ UNCHANGED <<running, proc, closed, fatals>>

\* onRestartCallback throws an IOException (sendFd ran out of tries).
CallbackThrows(g) ==
    /\ pc[g] = "callback"
    /\ fatals < MaxFatals
    /\ fatals' = fatals + 1
    /\ pc' = [pc EXCEPT ![g] = "kill"]
    /\ UNCHANGED <<running, proc, waiter, closed>>

\* What a signal leaves of a process: a dead one is left alone (ESRCH).
Signal(g, p) == IF proc[g] \in {"none", "dead"} THEN proc[g] ELSE p

\* The finally block up to its first receive.  Below API 26 the last receive
\* has no timeout; from API 24 on the first signal is destroy()'s SIGTERM.
Kill(g) ==
    /\ pc[g] = "kill"
    /\ running[g]
    /\ proc' = [proc EXCEPT ![g] = Signal(g, "signalled")]
    /\ pc' = [pc EXCEPT ![g] = IF Api = "24to25" THEN "final" ELSE "grace"]
    /\ UNCHANGED <<running, waiter, closed, fatals>>

\* Mutant: destroyForcibly() without the receive after it.
GraceTimeoutWithoutReceive(g) ==
    /\ pc[g] = "grace"
    /\ proc' = [proc EXCEPT ![g] = Signal(g, "killed")]
    /\ pc' = [pc EXCEPT ![g] = "end"]
    /\ UNCHANGED <<running, waiter, closed, fatals>>

\* Mutant: the last receive without destroyForcibly() before it.
GraceTimeoutWithoutForce(g) ==
    /\ pc[g] = "grace"
    /\ pc' = [pc EXCEPT ![g] = "final"]
    /\ UNCHANGED <<running, proc, waiter, closed, fatals>>

\* withTimeoutOrNull gives up: destroy() below API 24 and destroyForcibly()
\* from 26 on send SIGKILL.  A timeout that fires after the exit code was
\* delivered and before the looper resumed discards the code.
GraceTimeout(g) ==
    /\ \/ pc[g] = "grace"
       \/ pc[g] = "graceResumed" /\ LateTimeout
    /\ proc' = [proc EXCEPT ![g] = Signal(g, "killed")]
    /\ pc' = [pc EXCEPT ![g] = "final"]
    /\ UNCHANGED <<running, waiter, closed, fatals>>

\* withTimeoutOrNull returned an exit code: return@withContext.
GraceReturns(g) ==
    /\ pc[g] = "graceResumed"
    /\ pc' = [pc EXCEPT ![g] = "end"]
    /\ UNCHANGED <<running, proc, waiter, closed, fatals>>

\* Mutant: the callback runs in a scope that close() does not cancel.
CloseSparesCallbacks ==
    /\ ~closed
    /\ closed' = TRUE
    /\ pc' = [g \in Guards |-> IF pc[g] = "receive" THEN "kill" ELSE pc[g]]
    /\ UNCHANGED <<running, proc, waiter, fatals>>

\* close(): cancels the Job; a looper suspended in the loop resumes with a
\* CancellationException, one whose exit code is already delivered does not.
Close ==
    /\ ~closed
    /\ closed' = TRUE
    /\ pc' = [g \in Guards |-> IF pc[g] \in {"receive", "callback"} THEN "kill" ELSE pc[g]]
    /\ UNCHANGED <<running, proc, waiter, fatals>>

\* A posted onFatal runs on the main thread.
OnFatal ==
    /\ fatals > 0
    /\ fatals' = fatals - 1
    /\ UNCHANGED <<pc, running, proc, waiter, closed>>

------------------------------------------------------------------------------
(* The operating system and the waiter threads. *)

\* The process exits, by itself or because of a signal.
Exit(g) ==
    /\ proc[g] \in {"alive", "signalled", "killed"}
    /\ proc[g] = "signalled" => g \notin Stubborn
    /\ proc' = [proc EXCEPT ![g] = "dead"]
    /\ UNCHANGED <<pc, running, waiter, closed, fatals>>

\* exitChannel.send(process.waitFor()) meets a receive.
SendExit(g) ==
    /\ waiter[g] = "waiting"
    /\ proc[g] = "dead"
    /\ \/ pc[g] = "receive" /\ pc' = [pc EXCEPT ![g] = "resumed"]
       \/ pc[g] = "grace"   /\ pc' = [pc EXCEPT ![g] = "graceResumed"]
       \/ pc[g] = "final"   /\ pc' = [pc EXCEPT ![g] = "end"]
    /\ waiter' = [waiter EXCEPT ![g] = "sent"]
    /\ UNCHANGED <<running, proc, closed, fatals>>

Looper(g) ==
    \/ GiveUp(g) \/ Restart(g)
    \/ CallbackReturns(g) \/ CallbackThrows(g)
    \/ Kill(g) \/ GraceTimeout(g) \/ GraceReturns(g)

Next ==
    \/ \E g \in Guards : Start(g) \/ Looper(g) \/ Exit(g) \/ SendExit(g)
    \/ Close
    \/ OnFatal

(***************************************************************************)
(* Fairness: the main looper and the waiter threads run what is ready, and *)
(* a process that was sent a signal it does not survive exits.  A daemon   *)
(* that nobody signalled may live forever.                                 *)
(***************************************************************************)
SignalledExit(g) == proc[g] \in {"signalled", "killed"} /\ Exit(g)

Fairness ==
    /\ WF_vars(OnFatal)
    /\ \A g \in Guards :
          /\ WF_vars(Looper(g))
          /\ WF_vars(SendExit(g))
          /\ WF_vars(SignalledExit(g))

Spec == Init /\ [][Next]_vars

FairSpec == Spec /\ Fairness

------------------------------------------------------------------------------
(* Properties *)

\* A looper returns only when its daemon is dead and its exit code was taken
\* by the looper: a closed pool leaves neither an orphan daemon nor a waiter
\* thread blocked in exitChannel.send.
EndedIsReaped ==
    \A g \in Guards : pc[g] = "end" => proc[g] = "dead" /\ waiter[g] = "sent"

\* Whenever a looper waits for an exit code, a thread is there that will send
\* one.  The two exceptions are the ones the code is exposed to: a looper cut
\* off inside onRestartCallback, and a timeout that discards a delivered code.
EveryWaitIsAnswered ==
    \A g \in Guards :
        pc[g] \in {"receive", "grace", "final"} /\ waiter[g] # "waiting"
            => pc[g] # "receive" /\ (g \in Callbacks \/ LateTimeout)

\* A daemon is started only over a dead one whose waiter has finished, so two
\* processes never compete for the ports and two waiters never for the channel.
RestartAfterExit ==
    [][\A g \in Guards :
          pc[g] \in {"new", "resumed"} /\ pc'[g] # pc[g] /\ proc'[g] = "alive"
              => proc[g] \in {"none", "dead"} /\ waiter[g] # "waiting"]_vars

\* Once the pool is closed every looper returns, so the stop coroutine that
\* joins the pool's Job goes on.  A looper that does not is in its last receive
\* and one of the two exceptions of EveryWaitIsAnswered; GiveUp or a signal it
\* does not survive never leaves it in between.
CloseCompletes ==
    closed ~> \A g \in Guards :
                 \/ pc[g] \in {"new", "end"}
                 \/ pc[g] = "final" /\ waiter[g] # "waiting"

\* The guard as the owner of the pool sees it (module ProcessPool).
AbstractGuard(g) ==
    CASE pc[g] = "new" -> "idle"
      [] pc[g] = "receive" -> "running"
      [] pc[g] = "resumed" -> IF closed THEN "killing" ELSE "running"
      [] pc[g] = "callback" -> "callback"
      [] pc[g] = "graceResumed" -> "killing"
      [] pc[g] = "end" -> "ended"
      [] OTHER -> IF waiter[g] = "waiting" THEN "killing" ELSE "unreaped"

Pool == INSTANCE ProcessPool WITH
            guard <- [g \in Guards |-> AbstractGuard(g)]

\* The loopers, waiters and processes together do what module ProcessPool
\* promises to the service.
ImplementsProcessPool == Pool!PoolSpec

==============================================================================
