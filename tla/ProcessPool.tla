----------------------------- MODULE ProcessPool -----------------------------
(***************************************************************************)
(* What a GuardedProcessPool promises to the service that owns it, seen    *)
(* from the main thread: the life of each guard, the moment the pool is    *)
(* cancelled, and the onFatal calls that have been posted to the main      *)
(* looper and have not run yet.  GuardedProcessPool implements this        *)
(* module; BaseService is built on it.                                     *)
(***************************************************************************)
EXTENDS Naturals

CONSTANTS
    Guards,         \* the daemons a pool may guard
    Callbacks,      \* those started with an onRestartCallback (tun2socks)
    LateTimeout     \* may a timeout beat an exit code that is already on its way?

ASSUME PoolAssumption ==
    /\ Callbacks \subseteq Guards
    /\ LateTimeout \in BOOLEAN

VARIABLES
    guard,          \* guard[g]: where the guard of daemon g is in its life
    closed,         \* the pool's Job has been cancelled by close()
    fatals          \* onFatal calls posted to the main looper

poolVars == <<guard, closed, fatals>>

(***************************************************************************)
(* idle      not started in this pool                                      *)
(* running   the looper waits for the daemon to exit                       *)
(* callback  the daemon was restarted and onRestartCallback is suspended   *)
(* killing   cancelled: the looper kills the daemon and waits for its exit *)
(* unreaped  the looper waits for an exit nobody will report               *)
(* ended     the looper returned                                           *)
(***************************************************************************)
Status == {"idle", "running", "callback", "killing", "unreaped", "ended"}

PoolTypeOK ==
    /\ guard \in [Guards -> Status]
    /\ closed \in BOOLEAN
    /\ fatals \in Nat

\* The guard's coroutine has not returned, so its daemon may be alive.
Guarding(g) == guard[g] \in {"running", "callback", "killing", "unreaped"}

\* coroutineContext[Job].join() would return.
Joined == \A g \in Guards : ~Guarding(g)

------------------------------------------------------------------------------
PoolInit ==
    /\ guard = [g \in Guards |-> "idle"]
    /\ closed = FALSE
    /\ fatals = 0

\* start(cmd, onRestartCallback) on an open pool.
StartGuard(g) ==
    /\ ~closed
    /\ guard[g] = "idle"
    /\ guard' = [guard EXCEPT ![g] = "running"]
    /\ UNCHANGED <<closed, fatals>>

\* Mutant: the guard ends without posting onFatal.
DieSilently(g) ==
    /\ guard[g] \in {"running", "killing"}
    /\ guard' = [guard EXCEPT ![g] = "ended"]
    /\ UNCHANGED <<closed, fatals>>

\* The daemon exited within a second of its start, or could not be restarted.
Die(g) ==
    /\ guard[g] \in {"running", "killing"}
    /\ guard' = [guard EXCEPT ![g] = "ended"]
    /\ fatals' = fatals + 1
    /\ UNCHANGED closed

\* The daemon exited later than that and was started again.
EnterCallback(g) ==
    /\ g \in Callbacks
    /\ guard[g] = "running"
    /\ guard' = [guard EXCEPT ![g] = "callback"]
    /\ UNCHANGED <<closed, fatals>>

LeaveCallback(g) ==
    /\ guard[g] = "callback"
    /\ guard' = [guard EXCEPT ![g] = "running"]
    /\ UNCHANGED <<closed, fatals>>

\* onRestartCallback threw an IOException: the new daemon has no waiter yet.
FailCallback(g) ==
    /\ guard[g] = "callback"
    /\ guard' = [guard EXCEPT ![g] = "unreaped"]
    /\ fatals' = fatals + 1
    /\ UNCHANGED closed

\* close(scope): every looper is cancelled where it is suspended.
Cancel(s) == CASE s = "running"  -> "killing"
               [] s = "callback" -> "unreaped"
               [] OTHER          -> s

Close ==
    /\ ~closed
    /\ closed' = TRUE
    /\ guard' = [g \in Guards |-> Cancel(guard[g])]
    /\ UNCHANGED fatals

\* A cancelled looper saw its daemon exit.
Reap(g) ==
    /\ guard[g] = "killing"
    /\ guard' = [guard EXCEPT ![g] = "ended"]
    /\ UNCHANGED <<closed, fatals>>

\* A cancelled looper missed the exit code it waits for.
Lose(g) ==
    /\ g \in Callbacks \/ LateTimeout
    /\ guard[g] = "killing"
    /\ guard' = [guard EXCEPT ![g] = "unreaped"]
    /\ UNCHANGED <<closed, fatals>>

\* A posted onFatal runs on the main thread.
TakeFatal ==
    /\ fatals > 0
    /\ fatals' = fatals - 1
    /\ UNCHANGED <<guard, closed>>

PoolNext ==
    \/ \E g \in Guards :
          \/ StartGuard(g) \/ Die(g) \/ Reap(g) \/ Lose(g)
          \/ EnterCallback(g) \/ LeaveCallback(g) \/ FailCallback(g)
    \/ Close
    \/ TakeFatal

PoolSpec == PoolInit /\ [][PoolNext]_poolVars
==============================================================================
