------------------------------ MODULE BaseService ------------------------------
(***************************************************************************)
(* The life of a service: bg/BaseService.kt (Data and Interface) with the  *)
(* overrides of bg/VpnService.kt, bg/TransproxyService.kt,                 *)
(* bg/ProxyService.kt and bg/LocalDnsService.kt.                           *)
(*                                                                         *)
(* Everything here runs on the main thread: callbacks of the system, the   *)
(* connecting coroutine that onStartCommand launches, the coroutine that   *)
(* stopRunner launches, the loopers of the pool.  A step runs from one     *)
(* suspension point to the next.  A client stays bound, so the instance    *)
(* survives stopSelf().                                                    *)
(***************************************************************************)
EXTENDS ProcessPool, Sequences

CONSTANTS
    Mode,           \* which service: "vpn", "transproxy" or "proxy"
    MaxStarts,      \* bound: start commands in flight
    MaxFatals,      \* bound: onFatal calls in flight
    MaxCrashes      \* bound: deaths of the service's process

Daemons == {"redsocks", "sslocal", "ssudp", "tun2socks"}

ASSUME ServiceAssumption ==
    /\ Mode \in {"vpn", "transproxy", "proxy"}
    /\ Guards = Daemons
    /\ MaxStarts \in Nat \ {0}
    /\ MaxFatals \in Nat \ {0}
    /\ MaxCrashes \in Nat

VARIABLES
    state,          \* data.state
    job,            \* where the connecting coroutine is suspended
    connectingJob,  \* data.connectingJob is not null
    stop,           \* where the stop coroutine is suspended
    restart,        \* its argument
    processes,      \* data.processes is not null
    up,             \* what startProcesses has brought up besides the daemons
    closing,        \* socket threads that were shut down and have not ended
    proxy,          \* data.proxy is not null
    udpFallback,    \* data.udpFallback is not null
    receiver,       \* data.closeReceiverRegistered
    notification,   \* data.notification is not null
    boot,           \* BootReceiver.enabled
    listening,      \* the service is a listener of DefaultNetworkListener
    orphans,        \* daemons that a dead process of the service left behind
    spared,         \* history: those that killAll() of this process has left alive
    starts,         \* start commands the system has yet to deliver
    crashes         \* deaths of the service's process so far

dataVars == <<proxy, udpFallback, receiver, notification>>
sessionVars == <<processes, up, closing>>
sysVars == <<boot, listening, orphans, spared, starts, crashes>>
coVars == <<state, job, connectingJob, stop, restart>>
vars == <<poolVars, dataVars, sessionVars, sysVars, coVars>>

(***************************************************************************)
(* The order in which startProcesses brings things up.  TransproxyService  *)
(* starts redsocks and VpnService its ProtectWorker before the proxies;    *)
(* LocalDnsServer follows them; VpnService ends with the tun interface     *)
(* ("active" is its flag of that name) and tun2socks.                      *)
(***************************************************************************)
Order == <<"redsocks", "worker", "stat_main", "sslocal", "stat_udp", "ssudp",
           "dns", "active", "conn", "tun2socks">>

Sockets == {"worker", "stat_main", "stat_udp", "dns"}

\* ProxyInstance.start: the listener of its traffic statistics, then ss-local.
ProxyParts(stat, daemon) == {stat, daemon}

\* BaseService.startProcesses: the proxy, and the UDP fallback if there is one.
ProxiesWanted ==
    ProxyParts("stat_main", "sslocal")
        \cup (IF udpFallback THEN ProxyParts("stat_udp", "ssudp") ELSE {})

\* LocalDnsService.Interface, which ProxyService does not implement.
DnsWanted == IF Mode = "proxy" THEN {} ELSE {"dns"}

TransproxyWanted == IF Mode = "transproxy" THEN {"redsocks"} ELSE {}

\* VpnService.startProcesses: the worker, and what startVpn sets up.
StartVpn == {"active", "conn", "tun2socks"}
VpnWanted == IF Mode = "vpn" THEN {"worker"} \cup StartVpn ELSE {}

Wanted == ProxiesWanted \cup DnsWanted \cup TransproxyWanted \cup VpnWanted

\* The step of startProcesses that suspends: LocalDnsServer.start waits until
\* its monitor has registered the socket.
DnsStep == 7

\* What is up after the first n steps of startProcesses.
Started(n) == {Order[i] : i \in 1..n} \cap Wanted

\* The references and flags that are null or not, set or not.
FlagsOK ==
    /\ proxy \in BOOLEAN /\ udpFallback \in BOOLEAN
    /\ receiver \in BOOLEAN /\ notification \in BOOLEAN
    /\ connectingJob \in BOOLEAN /\ restart \in BOOLEAN /\ processes \in BOOLEAN
    /\ boot \in BOOLEAN /\ listening \in BOOLEAN

\* Type invariant of the service and its pool (bg/BaseService.kt, Data).
TypeOK ==
    /\ PoolTypeOK
    /\ FlagsOK
    /\ state \in {"Connecting", "Connected", "Stopping", "Stopped"}
    /\ job \in {"none", "dispatched", "preInit", "init", "initFallback", "dns", "sendFd"}
    /\ stop \in {"idle", "joining", "waiting"}
    /\ up \subseteq Sockets \cup {"active", "conn"}
    /\ closing \subseteq Sockets
    /\ orphans \subseteq Daemons
    /\ spared \subseteq Daemons
    /\ starts \in Nat
    /\ crashes \in Nat

Init ==
    /\ PoolInit
    /\ state = "Stopped" /\ job = "none" /\ connectingJob = FALSE
    /\ stop = "idle" /\ restart = FALSE
    /\ processes = FALSE /\ up = {} /\ closing = {}
    /\ proxy = FALSE /\ udpFallback = FALSE
    /\ receiver = FALSE /\ notification = FALSE
    /\ boot = FALSE /\ listening = FALSE
    /\ orphans = {} /\ spared = {} /\ starts = 0 /\ crashes = 0

------------------------------------------------------------------------------
(* stopRunner *)

\* Mutant: a stop is not ignored while another is under way.
StopRunnerAgain(r) == state' = "Stopping" /\ stop' = "joining" /\ restart' = r

\* stopRunner(restart): ignored while stopping, otherwise launches the stop
\* coroutine, which cancels the connecting job and joins it.
StopRunner(r) ==
    IF state = "Stopping"
    THEN UNCHANGED <<state, stop, restart>>
    ELSE state' = "Stopping" /\ stop' = "joining" /\ restart' = r

\* The connecting job has been cancelled by the stop coroutine.
Cancelled == stop = "joining" /\ connectingJob

\* connectingJob?.cancelAndJoin() returns.
ConnectingJoined == connectingJob => job = "none"

\* BaseService.killProcesses closes the pool and forgets it.
KillPool ==
    /\ IF processes THEN Close ELSE UNCHANGED poolVars
    /\ processes' = FALSE

\* What LocalDnsService.killProcesses, VpnService.killProcesses and
\* ProxyInstance.shutdown tell to end.
DnsShutdown == up \cap {"dns"}
WorkerShutdown == up \cap {"worker"}
ProxyShutdown ==
    (IF proxy THEN up \cap {"stat_main"} ELSE {})
        \cup (IF udpFallback THEN up \cap {"stat_udp"} ELSE {})

\* VpnService.killProcesses also clears active and closes the tun interface.
\* It calls DefaultNetworkListener.stop(this) inside scope.launch, where this
\* is the coroutine and not the service that was registered: listening stays.
VpnKilled == {"active", "conn"}

\* The stop coroutine after the join: killProcesses, the receiver, the
\* notification and the proxies, up to the end of its coroutineScope, which
\* waits for what is shutting down.
Cleanup ==
    /\ stop = "joining"
    /\ ConnectingJoined
    /\ stop' = "waiting"
    /\ KillPool
    /\ closing' = DnsShutdown \cup WorkerShutdown \cup ProxyShutdown
    /\ up' = (up \ closing') \ VpnKilled
    /\ receiver' = FALSE
    /\ notification' = FALSE
    /\ proxy' = FALSE
    /\ udpFallback' = FALSE
    /\ UNCHANGED <<state, job, connectingJob, restart, sysVars>>

\* A socket thread that was shut down ends.
SocketClosed(h) ==
    /\ h \in closing
    /\ closing' = closing \ {h}
    /\ UNCHANGED <<poolVars, dataVars, processes, up, sysVars, coVars>>

\* Mutant: the scope does not wait for the pool's Job.
SocketsEnded == closing = {}

\* Mutant: the scope does not wait for the socket threads.
PoolEnded == closed => Joined

\* The children of the coroutineScope have ended.
ScopeEnded == closing = {} /\ (closed => Joined)

\* The scope is done: Stopped, and a new start command or stopSelf().
Finish ==
    /\ stop = "waiting"
    /\ ScopeEnded
    /\ stop' = "idle"
    /\ state' = "Stopped"
    /\ starts' = IF restart THEN starts + 1 ELSE starts
    /\ boot' = (boot /\ restart)
    /\ UNCHANGED <<poolVars, dataVars, sessionVars, job, connectingJob, restart,
                   listening, orphans, spared, crashes>>

------------------------------------------------------------------------------
(* onStartCommand *)

StartIgnored ==
    /\ state # "Stopped"
    /\ UNCHANGED <<dataVars, coVars, boot>>

\* Core.currentProfile is null: the notification makes the start legal.
StartWithoutProfile ==
    /\ state = "Stopped"
    /\ notification' = TRUE
    /\ StopRunner(FALSE)
    /\ UNCHANGED <<proxy, udpFallback, receiver, boot, job, connectingJob>>

\* A profile, with or without a UDP fallback: the connecting job is dispatched.
StartConnecting ==
    /\ state = "Stopped"
    /\ proxy' = TRUE
    /\ udpFallback' \in BOOLEAN
    /\ boot' \in BOOLEAN
    /\ receiver' = TRUE
    /\ notification' = TRUE
    /\ state' = "Connecting"
    /\ job' = "dispatched"
    /\ connectingJob' = TRUE
    /\ UNCHANGED <<stop, restart>>

\* VpnService only: another service mode is configured, or the user has not
\* granted the VPN permission.
StartUnprepared ==
    /\ Mode = "vpn"
    /\ StopRunner(FALSE)
    /\ UNCHANGED <<dataVars, boot, job, connectingJob>>

OnStartCommand ==
    /\ starts > 0
    /\ starts' = starts - 1
    /\ StartIgnored \/ StartWithoutProfile \/ StartConnecting \/ StartUnprepared
    /\ UNCHANGED <<poolVars, sessionVars, listening, orphans, spared, crashes>>

------------------------------------------------------------------------------
(* The connecting job *)

\* Mutant: no killAll().
KillNone == UNCHANGED <<orphans, spared>>

\* Executable.killAll() looks for the daemons that an earlier process left and
\* kills them.  One that it cannot find (/proc is not listed, its cmdline not
\* read) or not kill is passed over, and nobody is told.
KillAll ==
    \E survivors \in SUBSET orphans : orphans' = survivors /\ spared' = survivors

\* The dispatched body runs, unless it was cancelled before: then not even its
\* finally block does.
JobRun ==
    /\ job = "dispatched"
    /\ IF Cancelled
       THEN job' = "none" /\ UNCHANGED <<orphans, spared>>
       ELSE job' = (IF Mode = "vpn" THEN "preInit" ELSE "init") /\ KillAll
    /\ UNCHANGED <<poolVars, dataVars, sessionVars, state, connectingJob, stop,
                   restart, boot, listening, starts, crashes>>

\* VpnService.preInit: DefaultNetworkListener.start(this).
PreInit ==
    /\ job = "preInit" /\ ~Cancelled
    /\ listening' = TRUE
    /\ job' = "init"
    /\ UNCHANGED <<poolVars, dataVars, sessionVars, state, connectingJob, stop,
                   restart, boot, orphans, spared, starts, crashes>>

\* proxy.init returns and there is a fallback to initialise.
InitProxy ==
    /\ job = "init" /\ ~Cancelled /\ udpFallback
    /\ job' = "initFallback"
    /\ UNCHANGED <<poolVars, dataVars, sessionVars, sysVars, state, connectingJob,
                   stop, restart>>

\* Where the body is suspended.
Suspended == {"preInit", "init", "initFallback", "dns", "sendFd"}

\* The body ends: its finally block clears data.connectingJob.
JobEnds == job' = "none" /\ connectingJob' = FALSE

\* The last init returns: a new pool, then startProcesses up to the start of
\* LocalDnsServer, which may throw at any of its steps.  ProxyService has no
\* LocalDnsServer and is Connected.
StartProcesses ==
    /\ job = (IF udpFallback THEN "initFallback" ELSE "init") /\ ~Cancelled
    /\ processes' = TRUE
    /\ closed' = FALSE
    /\ \E n \in 0..DnsStep :
          /\ guard' = [g \in Guards |-> IF g \in Started(n) THEN "running" ELSE "idle"]
          /\ up' = Started(n) \ Daemons
          /\ IF Started(n) # Started(DnsStep)
             THEN StopRunner(FALSE) /\ JobEnds
             ELSE /\ UNCHANGED <<stop, restart>>
                  /\ IF Mode = "proxy"
                     THEN state' = "Connected" /\ JobEnds
                     ELSE job' = "dns" /\ UNCHANGED <<state, connectingJob>>
    /\ UNCHANGED <<fatals, dataVars, closing, sysVars>>

\* LocalDnsServer is registered.  TransproxyService is Connected; VpnService
\* goes on with startVpn, which may throw at any of its steps, and sendFd.
DnsRegistered ==
    /\ job = "dns" /\ ~Cancelled
    /\ IF Mode = "vpn"
       THEN \E n \in DnsStep..Len(Order) :
               /\ guard' = [g \in Guards |->
                                IF g \in Started(n) \ Started(DnsStep) THEN "running" ELSE guard[g]]
               /\ up' = up \cup (Started(n) \ Daemons)
               /\ IF Started(n) # Wanted
                  THEN StopRunner(FALSE) /\ JobEnds
                  ELSE job' = "sendFd" /\ UNCHANGED <<state, connectingJob, stop, restart>>
       ELSE state' = "Connected" /\ JobEnds /\ UNCHANGED <<guard, up, stop, restart>>
    /\ UNCHANGED <<closed, fatals, dataVars, processes, closing, sysVars>>

\* sendFd(startVpn()) succeeds: Connected.
SendFd ==
    /\ job = "sendFd" /\ ~Cancelled
    /\ state' = "Connected"
    /\ JobEnds
    /\ UNCHANGED <<poolVars, dataVars, sessionVars, sysVars, stop, restart>>

\* An exception other than a cancellation.
JobFails ==
    /\ job \in Suspended /\ ~Cancelled
    /\ StopRunner(FALSE)
    /\ JobEnds
    /\ UNCHANGED <<poolVars, dataVars, sessionVars, sysVars>>

\* Mutant: the cancellation is caught and the job goes on waiting.
JobCancelledIgnored ==
    /\ job \in Suspended /\ Cancelled
    /\ UNCHANGED <<poolVars, dataVars, sessionVars, sysVars, coVars>>

\* The suspended job resumes with a CancellationException.
JobCancelled ==
    /\ job \in Suspended /\ Cancelled
    /\ JobEnds
    /\ UNCHANGED <<poolVars, dataVars, sessionVars, sysVars, state, stop, restart>>

------------------------------------------------------------------------------
(* What the system, the user and the daemons do *)

\* Core.startService() in the user interface, the tile, the boot receiver.
RequestStart ==
    /\ starts < MaxStarts
    /\ starts' = starts + 1
    /\ UNCHANGED <<poolVars, dataVars, sessionVars, coVars, boot, listening,
                   orphans, spared, crashes>>

\* closeReceiver gets Action.CLOSE: the user, the notification, the keepalive.
ReceiveClose ==
    /\ receiver
    /\ StopRunner(FALSE)
    /\ UNCHANGED <<poolVars, dataVars, sessionVars, sysVars, job, connectingJob>>

\* closeReceiver gets Action.RELOAD: forceLoad().  An unusable profile stops
\* the service; while it is stopping the reload is only logged.
ReceiveReload ==
    /\ receiver
    /\ \E usable \in BOOLEAN :
          /\ IF usable /\ state \in {"Stopping", "Stopped"}
             THEN UNCHANGED <<state, stop, restart>>
             ELSE StopRunner(usable)
          /\ starts' = IF usable /\ state = "Stopped" THEN starts + 1 ELSE starts
    /\ UNCHANGED <<poolVars, dataVars, sessionVars, job, connectingJob, boot,
                   listening, orphans, spared, crashes>>

\* The system revokes the VPN.
OnRevoke ==
    /\ Mode = "vpn"
    /\ StopRunner(FALSE)
    /\ UNCHANGED <<poolVars, dataVars, sessionVars, sysVars, job, connectingJob>>

\* Mutant: onFatal only logs.
OnFatalLogs ==
    /\ TakeFatal
    /\ UNCHANGED <<dataVars, sessionVars, sysVars, coVars>>

\* A posted onFatal runs, whatever the service is doing by then.
OnFatal ==
    /\ TakeFatal
    /\ StopRunner(FALSE)
    /\ UNCHANGED <<dataVars, sessionVars, sysVars, job, connectingJob>>

\* The loopers of the pool go on by themselves.
GuardStep(g) ==
    /\ \/ fatals < MaxFatals /\ (Die(g) \/ FailCallback(g))
       \/ EnterCallback(g) \/ LeaveCallback(g) \/ Reap(g) \/ Lose(g)
    /\ UNCHANGED <<dataVars, sessionVars, sysVars, coVars>>

\* The callback of tun2socks meets an ErrnoException and stops the service.
CallbackErrno(g) ==
    /\ LeaveCallback(g)
    /\ StopRunner(FALSE)
    /\ UNCHANGED <<dataVars, sessionVars, sysVars, job, connectingJob>>

\* The process of the service dies.  Its daemons do not; the component state
\* of the boot receiver and start commands not delivered stay in the system.
Crash ==
    /\ crashes < MaxCrashes
    /\ crashes' = crashes + 1
    /\ orphans' = orphans \cup {g \in Guards : Guarding(g)}
    /\ spared' = {}
    /\ guard' = [g \in Guards |-> "idle"] /\ closed' = FALSE /\ fatals' = 0
    /\ state' = "Stopped" /\ job' = "none" /\ connectingJob' = FALSE
    /\ stop' = "idle" /\ restart' = FALSE
    /\ processes' = FALSE /\ up' = {} /\ closing' = {}
    /\ proxy' = FALSE /\ udpFallback' = FALSE
    /\ receiver' = FALSE /\ notification' = FALSE
    /\ listening' = FALSE
    /\ UNCHANGED <<boot, starts>>

Connecting ==
    \/ JobRun \/ PreInit \/ InitProxy \/ StartProcesses \/ DnsRegistered \/ SendFd
    \/ JobFails \/ JobCancelled

Stopping == Cleanup \/ Finish \/ \E h \in Sockets : SocketClosed(h)

Next ==
    \/ OnStartCommand \/ Connecting \/ Stopping
    \/ RequestStart \/ ReceiveClose \/ ReceiveReload \/ OnRevoke \/ OnFatal
    \/ \E g \in Guards : GuardStep(g) \/ CallbackErrno(g)
    \/ Crash

Spec == Init /\ [][Next]_vars

(***************************************************************************)
(* Fairness: the main looper runs what is ready, the system delivers start *)
(* commands, socket threads that were shut down end, and a cancelled       *)
(* looper gets on with killing its daemon (GuardedProcessPool).  Nothing   *)
(* obliges proxy.init to return: it may wait for a network.                *)
(***************************************************************************)
KillingStep(g) == guard[g] = "killing" /\ GuardStep(g)

Fairness ==
    /\ WF_vars(JobRun) /\ WF_vars(JobCancelled)
    /\ WF_vars(Cleanup) /\ WF_vars(Finish)
    /\ WF_vars(OnFatal) /\ WF_vars(OnStartCommand)
    /\ \A h \in Sockets : WF_vars(SocketClosed(h))
    /\ \A g \in Guards : WF_vars(KillingStep(g))

FairSpec == Spec /\ Fairness

------------------------------------------------------------------------------
(* Properties *)

\* Stopped is announced only when nothing of the session is left: no daemon,
\* socket thread, tun interface, receiver, notification or proxy, so the next
\* onStartCommand overwrites no reference that something still depends on.
StoppedIsClean ==
    state = "Stopped" =>
        /\ job = "none" /\ stop = "idle"
        /\ ~processes /\ Joined /\ up = {} /\ closing = {}
        /\ ~receiver /\ ~notification /\ ~proxy /\ ~udpFallback

\* "ensure stop connecting first": once the clean-up has run, no connecting job
\* is left that could start a daemon or announce Connected behind its back, and
\* there is exactly one stop coroutine, in the state Stopping and in no other.
StopConnectingFirst ==
    /\ stop = "waiting" => job = "none" /\ ~processes
    /\ state = "Stopping" <=> stop # "idle"

\* A connected service has all that its mode needs, and a daemon that is lost
\* is reported: its onFatal is on the way to stop the service.
ConnectedIsWatched ==
    state = "Connected" =>
        /\ processes /\ ~closed
        /\ proxy /\ receiver /\ notification
        /\ up = Wanted \ Daemons
        /\ \A g \in Wanted \cap Daemons :
              guard[g] \in {"running", "callback"} \/ fatals > 0

\* Daemons of a process of the service that died are hunted down before a pool
\* starts its own, which need the same ports and socket files: the only ones that
\* a pool ever works beside are those that killAll(), called by the same process,
\* could not find or not kill.
NoOrphanBesidePool ==
    processes \/ ~Joined => orphans \subseteq spared

\* Is anything of a session left?
Held ==
    \/ job # "none" \/ processes \/ ~Joined \/ up # {} \/ closing # {}
    \/ receiver \/ notification \/ proxy \/ udpFallback

Contract == INSTANCE ServiceContract WITH st <- state, held <- Held

\* Clients see the state machine they were promised (module ServiceContract):
\* what stopRunner and the connecting job do implements it.
ImplementsContract == Contract!ContractSpec

\* A looper of the pool that never returns: ProcessPool's "unreaped".
Unreaped == \E g \in Guards : guard[g] = "unreaped"

\* A service that begins to stop gets to Stopped, unless the pool it joins keeps
\* a looper that waits for an exit code nobody sends.
StopCompletes == state = "Stopping" ~> state = "Stopped" \/ Unreaped

\* A service that has lost a daemon for good does not stay Connected.
LostDaemonStops ==
    (state = "Connected" /\ \E g \in Wanted \cap Daemons : guard[g] \in {"ended", "unreaped"})
        ~> state # "Connected"

\* A stop for the sake of a reload ends with the start command that begins the
\* next session, whatever else asked the service to stop meanwhile, unless the
\* process of the service dies.
ReloadStartsAgain ==
    \A n \in 0..MaxCrashes :
        (state = "Stopping" /\ restart /\ crashes = n)
            ~> (state = "Stopped" /\ starts > 0) \/ Unreaped \/ crashes > n

==============================================================================
