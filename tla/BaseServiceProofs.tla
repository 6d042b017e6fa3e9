-------------------------- MODULE BaseServiceProofs --------------------------
(***************************************************************************)
(* What TLAPS proves about BaseService, for every mode of the service and  *)
(* every bound.                                                            *)
(***************************************************************************)
EXTENDS BaseService, TLAPS

(***************************************************************************)
(* The inductive invariant.  JobInv and StopInv tie the two coroutines to  *)
(* data.state; PoolInv says that daemons and sockets exist only between    *)
(* startProcesses and the end of the clean-up, and beside them only        *)
(* orphans that killAll has met; DataInv says when the references in Data  *)
(* are set; WatchInv says what a session that reached startProcesses has.  *)
(***************************************************************************)
JobInv ==
    /\ job # "none" => connectingJob /\ state \in {"Connecting", "Stopping"} /\ stop # "waiting"
    /\ state = "Connecting" => job # "none"
    /\ job \in {"dns", "sendFd"} => processes
    /\ job \notin {"none", "dispatched"} => orphans \subseteq spared

StopInv == state = "Stopping" <=> stop # "idle"

PoolInv ==
    /\ processes => /\ ~closed /\ stop # "waiting" /\ state # "Stopped"
                    /\ orphans \subseteq spared /\ job \in {"none", "dns", "sendFd"}
    /\ ~processes => up = {} /\ (Joined \/ (stop = "waiting" /\ closed))
    /\ closing # {} => stop = "waiting"
    /\ ~Joined => orphans \subseteq spared

DataInv ==
    /\ state \in {"Connecting", "Connected"} => proxy /\ receiver /\ notification
    /\ state = "Stopped" \/ stop = "waiting" =>
          ~proxy /\ ~udpFallback /\ ~receiver /\ ~notification
    /\ "stat_main" \in up => proxy
    /\ "stat_udp" \in up => udpFallback

\* The parts in S are up, and a daemon of S that is lost has been reported.
Watched(S) ==
    /\ up = S \ Daemons
    /\ \A g \in S \cap Daemons : guard[g] \in {"running", "callback"} \/ fatals > 0

WatchInv ==
    /\ state = "Connected" \/ (state = "Connecting" /\ job = "sendFd") =>
          processes /\ Watched(Wanted)
    /\ state = "Connecting" /\ job = "dns" => processes /\ Watched(Started(DnsStep))

IInv == TypeOK /\ JobInv /\ StopInv /\ PoolInv /\ DataInv /\ WatchInv

------------------------------------------------------------------------------
\* startProcesses brings up sockets, the tun interface and daemons only.
LEMMA StartedParts ==
    ASSUME NEW n
    PROVE  Started(n) \subseteq Wanted /\ Wanted \ Daemons \subseteq Sockets \cup {"active", "conn"}
  BY DEF Started, Wanted, ProxiesWanted, ProxyParts, DnsWanted, TransproxyWanted,
         VpnWanted, StartVpn, Daemons, Sockets

\* Only VpnService has more to do once LocalDnsServer is registered, and then
\* tun2socks is the only daemon that is left to start.
LEMMA AfterDns ==
    /\ Mode # "vpn" => Started(DnsStep) = Wanted
    /\ (Wanted \ Started(DnsStep)) \cap Daemons \subseteq {"tun2socks"}
    /\ "tun2socks" \notin Started(DnsStep)
<1> DEFINE First == {Order[i] : i \in 1..DnsStep}
<1>1. First = {"redsocks", "worker", "stat_main", "sslocal", "stat_udp", "ssudp", "dns"}
  BY DEF Order, DnsStep
<1>2. Wanted \subseteq First \cup {"active", "conn", "tun2socks"}
  BY <1>1 DEF Wanted, ProxiesWanted, ProxyParts, DnsWanted, TransproxyWanted, VpnWanted, StartVpn
<1>3. Mode # "vpn" => Wanted \subseteq First
  BY <1>1 DEF Wanted, ProxiesWanted, ProxyParts, DnsWanted, TransproxyWanted, VpnWanted, StartVpn
<1>4. Started(DnsStep) = First \cap Wanted
  BY DEF Started
<1>5. QED
  BY <1>1, <1>2, <1>3, <1>4 DEF Daemons

\* stopRunner leaves the coroutine variables in their types.
LEMMA StopRunnerType ==
    ASSUME TypeOK, NEW r \in BOOLEAN, StopRunner(r)
    PROVE  /\ state' \in {"Connecting", "Connected", "Stopping", "Stopped"}
           /\ stop' \in {"idle", "joining", "waiting"}
           /\ restart' \in BOOLEAN
  BY DEF TypeOK, FlagsOK, StopRunner

\* The variables keep their types in every mode of the service.
THEOREM TypeCorrect == Spec => []TypeOK
<1>1. Init => TypeOK
  <2> SUFFICES ASSUME Init PROVE TypeOK
    OBVIOUS
  <2>1. FlagsOK /\ closed \in BOOLEAN
    BY Zenon DEF Init, PoolInit, FlagsOK
  <2>2. QED
    BY <2>1 DEF Init, PoolInit, TypeOK, PoolTypeOK, Status
<1>2. TypeOK /\ [Next]_vars => TypeOK'
  <2> SUFFICES ASSUME TypeOK, [Next]_vars PROVE TypeOK'
    OBVIOUS
  <2>1. ASSUME OnStartCommand PROVE TypeOK'
    <3>1. FlagsOK' /\ state' \in {"Connecting", "Connected", "Stopping", "Stopped"}
          /\ stop' \in {"idle", "joining", "waiting"}
          /\ job' \in {job, "dispatched"}
      <4>1. CASE StartIgnored
        BY <2>1, <4>1 DEF OnStartCommand, StartIgnored, TypeOK, FlagsOK, dataVars, sessionVars, coVars
      <4>2. CASE StartWithoutProfile
        <5>1. notification' \in BOOLEAN
          BY <4>2, Zenon DEF StartWithoutProfile
        <5>2. QED
          BY <2>1, <4>2, <5>1, StopRunnerType DEF OnStartCommand, StartWithoutProfile, TypeOK, FlagsOK, sessionVars
      <4>3. CASE StartConnecting
        <5>1. /\ notification' \in BOOLEAN /\ proxy' \in BOOLEAN /\ receiver' \in BOOLEAN
              /\ connectingJob' \in BOOLEAN
          BY <4>3, Zenon DEF StartConnecting
        <5>2. QED
          BY <2>1, <4>3, <5>1 DEF OnStartCommand, StartConnecting, TypeOK, FlagsOK, sessionVars
      <4>4. CASE StartUnprepared
        BY <2>1, <4>4, StopRunnerType DEF OnStartCommand, StartUnprepared, TypeOK, FlagsOK, dataVars, sessionVars
      <4>5. QED
        BY <2>1, <4>1, <4>2, <4>3, <4>4 DEF OnStartCommand
    <3>2. QED
      BY <2>1, <3>1 DEF OnStartCommand, TypeOK, PoolTypeOK, poolVars, sessionVars
  <2>2. ASSUME JobRun PROVE TypeOK'
    BY <2>2 DEF JobRun, KillAll, Cancelled, TypeOK, FlagsOK, PoolTypeOK, Status,
       poolVars, dataVars, sessionVars, sysVars, coVars
  <2>3. ASSUME PreInit PROVE TypeOK'
    BY <2>3 DEF PreInit, Cancelled, TypeOK, FlagsOK, PoolTypeOK, Status, poolVars,
       dataVars, sessionVars, sysVars, coVars
  <2>4. ASSUME InitProxy PROVE TypeOK'
    BY <2>4 DEF InitProxy, Cancelled, TypeOK, FlagsOK, PoolTypeOK, Status, poolVars,
       dataVars, sessionVars, sysVars, coVars
  <2>5. ASSUME StartProcesses PROVE TypeOK'
    <3>1. restart' \in BOOLEAN /\ stop' \in {"idle", "joining", "waiting"}
          /\ state' \in {"Connecting", "Connected", "Stopping", "Stopped"}
      BY <2>5, StopRunnerType DEF StartProcesses, JobEnds, Cancelled, coVars, TypeOK,
       FlagsOK
    <3>2. QED
      BY <2>5, <3>1, StartedParts DEF StartProcesses, JobEnds, Cancelled, TypeOK,
       FlagsOK, PoolTypeOK, Status, poolVars, dataVars, sessionVars, sysVars,
       coVars
  <2>5a. ASSUME DnsRegistered PROVE TypeOK'
    <3>1. restart' \in BOOLEAN /\ stop' \in {"idle", "joining", "waiting"}
          /\ state' \in {"Connecting", "Connected", "Stopping", "Stopped"}
      BY <2>5a, StopRunnerType DEF DnsRegistered, JobEnds, TypeOK, FlagsOK
    <3>2. /\ guard' \in [Guards -> Status] /\ up' \subseteq Sockets \cup {"active", "conn"}
          /\ job' \in {"none", "sendFd"} /\ connectingJob' \in BOOLEAN
      BY <2>5a, StartedParts DEF DnsRegistered, JobEnds, TypeOK, FlagsOK, PoolTypeOK, Status
    <3>3. QED
      BY <2>5a, <3>1, <3>2 DEF DnsRegistered, TypeOK, FlagsOK, PoolTypeOK, dataVars, sysVars
  <2>6. ASSUME SendFd PROVE TypeOK'
    BY <2>6 DEF SendFd, JobEnds, Cancelled, TypeOK, FlagsOK, PoolTypeOK, Status,
       poolVars, dataVars, sessionVars, sysVars, coVars
  <2>7. ASSUME JobFails PROVE TypeOK'
    <3>1. restart' \in BOOLEAN /\ stop' \in {"idle", "joining", "waiting"}
          /\ state' \in {"Connecting", "Connected", "Stopping", "Stopped"}
      BY <2>7, StopRunnerType DEF JobFails, Suspended, JobEnds, Cancelled, coVars
    <3>2. QED
      BY <2>7, <3>1 DEF JobFails, Suspended, JobEnds, Cancelled, TypeOK, FlagsOK, PoolTypeOK,
       Status, poolVars, dataVars, sessionVars, sysVars, coVars
  <2>8. ASSUME JobCancelled PROVE TypeOK'
    BY <2>8, ZenonT(60) DEF JobCancelled, Suspended, JobEnds, Cancelled, TypeOK, FlagsOK, PoolTypeOK,
       Status, poolVars, dataVars, sessionVars, sysVars, coVars
  <2>9. ASSUME Cleanup PROVE TypeOK'
    BY <2>9, ZenonT(60) DEF Cleanup, ConnectingJoined, KillPool, Close, Cancel, DnsShutdown,
       WorkerShutdown, ProxyShutdown, VpnKilled, TypeOK, FlagsOK, PoolTypeOK,
       Status, poolVars, dataVars, sessionVars, sysVars, coVars
  <2>10. ASSUME Finish PROVE TypeOK'
    BY <2>10 DEF Finish, ScopeEnded, TypeOK, FlagsOK, PoolTypeOK, Status, poolVars,
       dataVars, sessionVars, sysVars, coVars
  <2>11. ASSUME NEW h \in Sockets, SocketClosed(h) PROVE TypeOK'
    BY <2>11 DEF SocketClosed, TypeOK, FlagsOK, PoolTypeOK, Status, poolVars,
       dataVars, sessionVars, sysVars, coVars
  <2>12. ASSUME RequestStart PROVE TypeOK'
    BY <2>12 DEF RequestStart, TypeOK, FlagsOK, PoolTypeOK, Status, poolVars,
       dataVars, sessionVars, sysVars, coVars
  <2>13. ASSUME ReceiveClose PROVE TypeOK'
    <3>1. restart' \in BOOLEAN /\ stop' \in {"idle", "joining", "waiting"}
          /\ state' \in {"Connecting", "Connected", "Stopping", "Stopped"}
      BY <2>13, StopRunnerType DEF ReceiveClose, coVars
    <3>2. QED
      BY <2>13, <3>1 DEF ReceiveClose, TypeOK, FlagsOK, PoolTypeOK, Status, poolVars,
       dataVars, sessionVars, sysVars, coVars
  <2>14. ASSUME ReceiveReload PROVE TypeOK'
    <3>1. restart' \in BOOLEAN /\ stop' \in {"idle", "joining", "waiting"}
          /\ state' \in {"Connecting", "Connected", "Stopping", "Stopped"}
      BY <2>14, StopRunnerType DEF ReceiveReload, coVars, TypeOK, FlagsOK
    <3>2. QED
      BY <2>14, <3>1 DEF ReceiveReload, TypeOK, FlagsOK, PoolTypeOK, Status, poolVars,
       dataVars, sessionVars, sysVars, coVars
  <2>15. ASSUME OnRevoke PROVE TypeOK'
    <3>1. restart' \in BOOLEAN /\ stop' \in {"idle", "joining", "waiting"}
          /\ state' \in {"Connecting", "Connected", "Stopping", "Stopped"}
      BY <2>15, StopRunnerType DEF OnRevoke, coVars
    <3>2. QED
      BY <2>15, <3>1 DEF OnRevoke, TypeOK, FlagsOK, PoolTypeOK, Status, poolVars,
       dataVars, sessionVars, sysVars, coVars
  <2>16. ASSUME OnFatal PROVE TypeOK'
    <3>1. restart' \in BOOLEAN /\ stop' \in {"idle", "joining", "waiting"}
          /\ state' \in {"Connecting", "Connected", "Stopping", "Stopped"}
      BY <2>16, StopRunnerType DEF OnFatal, TakeFatal, coVars
    <3>2. QED
      BY <2>16, <3>1 DEF OnFatal, TakeFatal, TypeOK, FlagsOK, PoolTypeOK, Status,
       poolVars, dataVars, sessionVars, sysVars, coVars
  <2>17. ASSUME NEW g \in Guards, GuardStep(g) PROVE TypeOK'
    BY <2>17 DEF GuardStep, Die, FailCallback, EnterCallback, LeaveCallback, Reap,
       Lose, TypeOK, FlagsOK, PoolTypeOK, Status, poolVars, dataVars,
       sessionVars, sysVars, coVars
  <2>18. ASSUME NEW g \in Guards, CallbackErrno(g) PROVE TypeOK'
    <3>1. restart' \in BOOLEAN /\ stop' \in {"idle", "joining", "waiting"}
          /\ state' \in {"Connecting", "Connected", "Stopping", "Stopped"}
      BY <2>18, StopRunnerType DEF CallbackErrno, LeaveCallback, coVars
    <3>2. QED
      BY <2>18, <3>1 DEF CallbackErrno, LeaveCallback, TypeOK, FlagsOK, PoolTypeOK,
       Status, poolVars, dataVars, sessionVars, sysVars, coVars
  <2>19. ASSUME Crash PROVE TypeOK'
    <3>1. FlagsOK' /\ closed' \in BOOLEAN
      BY <2>19, Zenon DEF Crash, TypeOK, FlagsOK
    <3>2. QED
      BY <2>19, <3>1, ServiceAssumption DEF Crash, TypeOK, PoolTypeOK, Status
  <2>20. CASE UNCHANGED vars
    BY <2>20 DEF vars, TypeOK, FlagsOK, PoolTypeOK, Status, poolVars, dataVars, sessionVars, sysVars, coVars
  <2>21. QED
    BY <2>1, <2>2, <2>3, <2>4, <2>5, <2>6, <2>7, <2>8, <2>9, <2>10, <2>11, <2>12,
       <2>13, <2>14, <2>15, <2>16, <2>17, <2>18, <2>19, <2>20, <2>5a DEF Next,
       Connecting, Stopping
<1>3. QED
  BY <1>1, <1>2, PTL DEF Spec

------------------------------------------------------------------------------
\* What a session needs depends on its UDP fallback only.
LEMMA WantedUnchanged ==
    ASSUME UNCHANGED udpFallback
    PROVE  Wanted' = Wanted /\ Started(DnsStep)' = Started(DnsStep)
  BY DEF Started, Wanted, ProxiesWanted, ProxyParts, DnsWanted, TransproxyWanted, VpnWanted, StartVpn

\* Whether the pool's Job has ended depends on the guards only.
LEMMA JoinedUnchanged ==
    ASSUME UNCHANGED guard PROVE UNCHANGED Joined
  BY DEF Joined, Guarding

\* The two coroutines, the pool and the references in Data agree with the state
\* of the service after every step.
THEOREM ServiceCorrect == Spec => []IInv
<1>1. Init => JobInv /\ StopInv /\ PoolInv /\ DataInv /\ WatchInv
  BY DEF Init, PoolInit, JobInv, StopInv, PoolInv, DataInv, WatchInv, Watched, Joined, Guarding
<1>2. IInv /\ TypeOK' /\ [Next]_vars => IInv'
  <2> SUFFICES ASSUME IInv, TypeOK', [Next]_vars
               PROVE  JobInv' /\ StopInv' /\ PoolInv' /\ DataInv' /\ WatchInv'
    BY DEF IInv
  <2> DEFINE Inv == JobInv /\ StopInv /\ PoolInv /\ DataInv /\ WatchInv
  <2> USE DEF IInv
  <2>1. ASSUME OnStartCommand PROVE Inv'
    BY <2>1, WantedUnchanged, JoinedUnchanged DEF OnStartCommand, StartIgnored,
       StartWithoutProfile, StartConnecting, StartUnprepared, StopRunner,
       JobInv, StopInv, PoolInv, DataInv, WatchInv, Watched, poolVars, dataVars,
       sessionVars, sysVars, coVars
  <2>2. ASSUME JobRun PROVE Inv'
    BY <2>2, WantedUnchanged, JoinedUnchanged DEF JobRun, KillAll, Cancelled,
       JobInv, StopInv, PoolInv, DataInv, WatchInv, Watched, poolVars, dataVars,
       sessionVars, sysVars, coVars
  <2>3. ASSUME PreInit PROVE Inv'
    BY <2>3, WantedUnchanged, JoinedUnchanged DEF PreInit, Cancelled, JobInv,
       StopInv, PoolInv, DataInv, WatchInv, Watched, poolVars, dataVars, sessionVars,
       sysVars, coVars
  <2>4. ASSUME InitProxy PROVE Inv'
    BY <2>4, WantedUnchanged, JoinedUnchanged DEF InitProxy, Cancelled, JobInv,
       StopInv, PoolInv, DataInv, WatchInv, Watched, poolVars, dataVars, sessionVars,
       sysVars, coVars
  <2>5. ASSUME StartProcesses PROVE Inv'
    <3>1. /\ stop = "idle" /\ state = "Connecting" /\ ~processes
          /\ closing = {} /\ orphans \subseteq spared /\ proxy /\ receiver /\ notification
      BY <2>5 DEF StartProcesses, Cancelled, JobInv, StopInv, PoolInv, DataInv, TypeOK
    <3>2. /\ UNCHANGED <<udpFallback, proxy, receiver, notification, closing, orphans, spared>>
          /\ processes' /\ ~closed'
      BY <2>5 DEF StartProcesses, dataVars, sysVars
    <3>3. PICK n \in 0..DnsStep :
             /\ guard' = [g \in Guards |-> IF g \in Started(n) THEN "running" ELSE "idle"]
             /\ up' = Started(n) \ Daemons
             /\ IF Started(n) # Started(DnsStep)
                THEN StopRunner(FALSE) /\ JobEnds
                ELSE /\ UNCHANGED <<stop, restart>>
                     /\ IF Mode = "proxy"
                        THEN state' = "Connected" /\ JobEnds
                        ELSE job' = "dns" /\ UNCHANGED <<state, connectingJob>>
      BY <2>5 DEF StartProcesses
    <3>4. DataInv'
      <4>1. "stat_udp" \in Wanted => udpFallback
        BY DEF Wanted, ProxiesWanted, ProxyParts, DnsWanted, TransproxyWanted, VpnWanted, StartVpn
      <4>2. QED
        BY <3>1, <3>2, <3>3, <4>1, StartedParts DEF DataInv, StopRunner, JobEnds
    <3>5. JobInv' /\ StopInv' /\ PoolInv'
      BY <2>5, <3>1, <3>2, <3>3 DEF StartProcesses, JobInv, StopInv, PoolInv, StopRunner, JobEnds
    <3>6. WatchInv'
      BY <3>1, <3>2, <3>3, WantedUnchanged, AfterDns, ServiceAssumption
         DEF WatchInv, Watched, StopRunner, JobEnds, Daemons
    <3>7. QED
      BY <3>4, <3>5, <3>6
  <2>5a. ASSUME DnsRegistered PROVE Inv'
    <3>1. /\ stop = "idle" /\ state = "Connecting" /\ processes /\ ~closed
          /\ closing = {} /\ orphans \subseteq spared /\ proxy /\ receiver /\ notification
          /\ Watched(Started(DnsStep)) /\ connectingJob
      BY <2>5a DEF DnsRegistered, Cancelled, JobInv, StopInv, PoolInv, DataInv, WatchInv, TypeOK
    <3>2. UNCHANGED <<udpFallback, proxy, receiver, notification, processes, closing,
                      orphans, spared, closed, fatals>>
      BY <2>5a DEF DnsRegistered, dataVars, sysVars
    <3>3. CASE Mode # "vpn"
      <4>1. state' = "Connected" /\ JobEnds /\ UNCHANGED <<guard, up, stop, restart>>
        BY <2>5a, <3>3 DEF DnsRegistered
      <4>2. Started(DnsStep) = Wanted
        BY <3>3, AfterDns
      <4>3. QED
        BY <3>1, <3>2, <4>1, <4>2, WantedUnchanged, JoinedUnchanged DEF JobEnds, JobInv,
           StopInv, PoolInv, DataInv, WatchInv, Watched
    <3>4. CASE Mode = "vpn"
      <4>1. PICK n \in DnsStep..Len(Order) :
               /\ guard' = [g \in Guards |->
                               IF g \in Started(n) \ Started(DnsStep) THEN "running" ELSE guard[g]]
               /\ up' = up \cup (Started(n) \ Daemons)
               /\ IF Started(n) # Wanted
                  THEN StopRunner(FALSE) /\ JobEnds
                  ELSE job' = "sendFd" /\ UNCHANGED <<state, connectingJob, stop, restart>>
        BY <2>5a, <3>4 DEF DnsRegistered
      <4>2. DataInv'
        <5>1. "stat_udp" \in Wanted => udpFallback
          BY DEF Wanted, ProxiesWanted, ProxyParts, DnsWanted, TransproxyWanted, VpnWanted, StartVpn
        <5>2. QED
          BY <3>1, <3>2, <4>1, <5>1, StartedParts DEF DataInv, StopRunner, JobEnds
      <4>3. JobInv' /\ StopInv' /\ PoolInv'
        BY <3>1, <3>2, <4>1 DEF JobInv, StopInv, PoolInv, StopRunner, JobEnds
      <4>4. WatchInv'
        <5>1. CASE Started(n) # Wanted
          BY <3>1, <4>1, <5>1 DEF WatchInv, StopRunner, JobEnds
        <5>2. CASE Started(n) = Wanted
          <6>1. up' = Wanted \ Daemons
            BY <3>1, <4>1, <5>2, StartedParts DEF Watched
          <6>2. \A g \in Wanted \cap Daemons :
                   guard'[g] \in {"running", "callback"} \/ fatals > 0
            BY <3>1, <4>1, <5>2, ServiceAssumption DEF Watched
          <6>3. QED
            BY <3>1, <3>2, <4>1, <5>2, <6>1, <6>2, WantedUnchanged DEF WatchInv, Watched
        <5>3. QED
          BY <5>1, <5>2
      <4>5. QED
        BY <4>2, <4>3, <4>4
    <3>5. QED
      BY <3>3, <3>4
  <2>6. ASSUME SendFd PROVE Inv'
    <3>1. stop = "idle" /\ state = "Connecting"
      BY <2>6 DEF SendFd, Cancelled, JobInv, StopInv, TypeOK
    <3>2. QED
      BY <2>6, <3>1, WantedUnchanged, JoinedUnchanged DEF SendFd, JobEnds, JobInv, StopInv,
         PoolInv, DataInv, WatchInv, Watched, poolVars, dataVars, sessionVars, sysVars
  <2>7. ASSUME JobFails PROVE Inv'
    BY <2>7, WantedUnchanged, JoinedUnchanged DEF JobFails, Suspended, StopRunner, JobEnds,
       Cancelled, JobInv, StopInv, PoolInv, DataInv, WatchInv, Watched, poolVars,
       dataVars, sessionVars, sysVars, coVars
  <2>8. ASSUME JobCancelled PROVE Inv'
    BY <2>8, WantedUnchanged, JoinedUnchanged DEF JobCancelled, Suspended, JobEnds, Cancelled,
       JobInv, StopInv, PoolInv, DataInv, WatchInv, Watched, poolVars, dataVars,
       sessionVars, sysVars, coVars
  <2>9. ASSUME Cleanup PROVE Inv'
    <3>1. job = "none" /\ state = "Stopping"
      BY <2>9 DEF Cleanup, ConnectingJoined, JobInv, StopInv
    <3>2. up' = {}
      BY <2>9 DEF Cleanup, DnsShutdown, WorkerShutdown, ProxyShutdown, VpnKilled,
                  DataInv, TypeOK, Sockets
    <3>3. Joined' \/ closed'
      <4>1. CASE processes
        BY <2>9, <4>1 DEF Cleanup, KillPool, Close
      <4>2. CASE ~processes
        BY <2>9, <4>2, JoinedUnchanged DEF Cleanup, KillPool, PoolInv, poolVars
      <4>3. QED
        BY <4>1, <4>2
    <3>4. ~Joined' => orphans \subseteq spared
      <4>1. CASE processes
        BY <4>1 DEF PoolInv
      <4>2. CASE ~processes
        BY <2>9, <4>2, JoinedUnchanged DEF Cleanup, KillPool, PoolInv, poolVars
      <4>3. QED
        BY <4>1, <4>2
    <3>5. QED
      BY <2>9, <3>1, <3>2, <3>3, <3>4 DEF Cleanup, KillPool, JobInv, StopInv, PoolInv,
         DataInv, WatchInv, Watched, sysVars
  <2>10. ASSUME Finish PROVE Inv'
    BY <2>10, WantedUnchanged, JoinedUnchanged DEF Finish, ScopeEnded, JobInv,
       StopInv, PoolInv, DataInv, WatchInv, Watched, poolVars, dataVars, sessionVars,
       sysVars, coVars
  <2>11. ASSUME NEW h \in Sockets, SocketClosed(h) PROVE Inv'
    BY <2>11, WantedUnchanged, JoinedUnchanged DEF SocketClosed, JobInv, StopInv,
       PoolInv, DataInv, WatchInv, Watched, poolVars, dataVars, sessionVars, sysVars,
       coVars
  <2>12. ASSUME RequestStart PROVE Inv'
    BY <2>12, WantedUnchanged, JoinedUnchanged DEF RequestStart, JobInv, StopInv,
       PoolInv, DataInv, WatchInv, Watched, poolVars, dataVars, sessionVars, sysVars,
       coVars
  <2>13. ASSUME ReceiveClose PROVE Inv'
    BY <2>13, WantedUnchanged, JoinedUnchanged DEF ReceiveClose, StopRunner, JobInv,
       StopInv, PoolInv, DataInv, WatchInv, Watched, poolVars, dataVars, sessionVars,
       sysVars, coVars
  <2>14. ASSUME ReceiveReload PROVE Inv'
    BY <2>14, WantedUnchanged, JoinedUnchanged DEF ReceiveReload, StopRunner,
       JobInv, StopInv, PoolInv, DataInv, WatchInv, Watched, poolVars, dataVars,
       sessionVars, sysVars, coVars
  <2>15. ASSUME OnRevoke PROVE Inv'
    BY <2>15, WantedUnchanged, JoinedUnchanged DEF OnRevoke, StopRunner, JobInv,
       StopInv, PoolInv, DataInv, WatchInv, Watched, poolVars, dataVars, sessionVars,
       sysVars, coVars
  <2>16. ASSUME OnFatal PROVE Inv'
    BY <2>16, WantedUnchanged, JoinedUnchanged DEF OnFatal, TakeFatal, StopRunner,
       JobInv, StopInv, PoolInv, DataInv, WatchInv, Watched, poolVars, dataVars,
       sessionVars, sysVars, coVars
  <2>17. ASSUME NEW g \in Guards, GuardStep(g) PROVE Inv'
    <3>1. UNCHANGED <<dataVars, sessionVars, sysVars, coVars>> /\ UNCHANGED closed
      BY <2>17 DEF GuardStep, Die, FailCallback, EnterCallback, LeaveCallback, Reap, Lose
    <3>2. ~Joined
      BY <2>17 DEF GuardStep, Die, FailCallback, EnterCallback, LeaveCallback, Reap,
                   Lose, Joined, Guarding
    <3>3. JobInv' /\ StopInv' /\ PoolInv' /\ DataInv'
      BY <3>1, <3>2 DEF JobInv, StopInv, PoolInv, DataInv, dataVars, sessionVars, sysVars, coVars
    <3>4. WatchInv'
      <4> SUFFICES ASSUME processes, NEW h \in Daemons,
                          guard[h] \in {"running", "callback"} \/ fatals > 0
                   PROVE  guard'[h] \in {"running", "callback"} \/ fatals' > 0
        BY <3>1, WantedUnchanged DEF WatchInv, Watched, dataVars, sessionVars, coVars
      <4>1. processes /\ ~closed /\ (guard[h] \in {"running", "callback"} \/ fatals > 0)
        BY DEF PoolInv
      <4>2. fatals \in Nat /\ guard \in [Guards -> Status]
        BY DEF TypeOK, PoolTypeOK
      <4>3. CASE fatals' = fatals + 1
        BY <4>2, <4>3
      <4>4. CASE fatals' = fatals /\ guard' = [guard EXCEPT ![g] = "running"]
        BY <4>1, <4>2, <4>4, ServiceAssumption
      <4>5. CASE fatals' = fatals /\ guard' = [guard EXCEPT ![g] = "callback"]
        BY <4>1, <4>2, <4>5, ServiceAssumption
      <4>6. CASE fatals' = fatals /\ guard[g] = "killing" /\ guard' \in
                    {[guard EXCEPT ![g] = "ended"], [guard EXCEPT ![g] = "unreaped"]}
        BY <4>1, <4>2, <4>6, ServiceAssumption
      <4>7. QED
        BY <2>17, <4>3, <4>4, <4>5, <4>6 DEF GuardStep, Die, FailCallback,
           EnterCallback, LeaveCallback, Reap, Lose
    <3>5. QED
      BY <3>3, <3>4
  <2>18. ASSUME NEW g \in Guards, CallbackErrno(g) PROVE Inv'
    <3>1. UNCHANGED <<dataVars, sessionVars, sysVars, job, connectingJob, closed>>
          /\ StopRunner(FALSE) /\ ~Joined
      BY <2>18 DEF CallbackErrno, LeaveCallback, Joined, Guarding
    <3>2. QED
      BY <3>1 DEF StopRunner, JobInv, StopInv, PoolInv, DataInv, WatchInv, Watched,
         dataVars, sessionVars, sysVars
  <2>19. ASSUME Crash PROVE Inv'
    <3>1. Joined'
      BY <2>19 DEF Crash, Joined, Guarding
    <3>2. QED
      BY <2>19, <3>1 DEF Crash, JobInv, StopInv, PoolInv, DataInv, WatchInv, Watched
  <2>20. CASE UNCHANGED vars
    BY <2>20, WantedUnchanged, JoinedUnchanged DEF vars, JobInv, StopInv, PoolInv,
       DataInv, WatchInv, Watched, poolVars, dataVars, sessionVars, sysVars, coVars
  <2>21. QED
    BY <2>1, <2>2, <2>3, <2>4, <2>5, <2>6, <2>7, <2>8, <2>9, <2>10, <2>11, <2>12,
       <2>13, <2>14, <2>15, <2>16, <2>17, <2>18, <2>19, <2>20, <2>5a DEF Next,
       Connecting, Stopping
<1>3. QED
  BY <1>1, <1>2, TypeCorrect, PTL DEF Spec, IInv

------------------------------------------------------------------------------
\* Stopped is announced only when the session has left nothing behind.
THEOREM CleanWhenStopped == Spec => []StoppedIsClean
<1>1. IInv => StoppedIsClean
  BY DEF IInv, JobInv, StopInv, PoolInv, DataInv, StoppedIsClean, TypeOK
<1>2. QED
  BY <1>1, ServiceCorrect, PTL

\* The clean-up runs after the connecting job, in one stop coroutine.
THEOREM ConnectingStopsFirst == Spec => []StopConnectingFirst
<1>1. IInv => StopConnectingFirst
  BY DEF IInv, JobInv, StopInv, PoolInv, StopConnectingFirst
<1>2. QED
  BY <1>1, ServiceCorrect, PTL

\* A connected service is complete, and a lost daemon is on its way to stop it.
THEOREM ConnectedIsComplete == Spec => []ConnectedIsWatched
<1>1. IInv => ConnectedIsWatched
  BY DEF IInv, PoolInv, DataInv, WatchInv, Watched, ConnectedIsWatched
<1>2. QED
  BY <1>1, ServiceCorrect, PTL

\* No pool ever works beside daemons of an earlier process that killAll has not
\* tried to kill.
THEOREM OrphansKilledFirst == Spec => []NoOrphanBesidePool
<1>1. IInv => NoOrphanBesidePool
  BY DEF IInv, PoolInv, NoOrphanBesidePool
<1>2. QED
  BY <1>1, ServiceCorrect, PTL

------------------------------------------------------------------------------
\* In the states a client can rely on, what the service holds is known.
LEMMA HeldByState ==
    ASSUME IInv
    PROVE  /\ state \in {"Connecting", "Connected"} => Held
           /\ state = "Stopped" => ~Held
  BY DEF IInv, JobInv, StopInv, PoolInv, DataInv, Held, TypeOK

\* The same of the next state.
LEMMA HeldByNextState ==
    ASSUME IInv'
    PROVE  /\ state' \in {"Connecting", "Connected"} => Held'
           /\ state' = "Stopped" => ~Held'
  BY DEF IInv, JobInv, StopInv, PoolInv, DataInv, Held, TypeOK

\* The transitions of data.state, whoever makes them: a session begins in
\* Stopped, Connected comes after Connecting, stopping acquires nothing.
LEMMA Transitions ==
    ASSUME IInv, TypeOK', Next
    PROVE  /\ \/ state' \in {state, "Stopping", "Stopped"}
              \/ state = "Stopped" /\ state' = "Connecting"
              \/ state = "Connecting" /\ state' = "Connected"
           /\ state = "Stopping" /\ state' = "Stopping" /\ Held' => Held
           /\ state \in {"Connecting", "Connected"} /\ state' = "Stopping" => receiver'
<1> DEFINE Goal ==
        /\ \/ state' \in {state, "Stopping", "Stopped"}
           \/ state = "Stopped" /\ state' = "Connecting"
           \/ state = "Connecting" /\ state' = "Connected"
        /\ state = "Stopping" /\ state' = "Stopping" /\ Held' => Held
        /\ state \in {"Connecting", "Connected"} /\ state' = "Stopping" => receiver'
<1> USE DEF IInv
<1>1. ASSUME OnStartCommand PROVE Goal
  BY <1>1, JoinedUnchanged DEF OnStartCommand, StartIgnored, StartWithoutProfile,
     StartConnecting, StartUnprepared, StopRunner, Held, JobInv, StopInv,
     PoolInv, DataInv, poolVars, dataVars, sessionVars, sysVars, coVars
<1>2. ASSUME JobRun PROVE Goal
  BY <1>2, JoinedUnchanged DEF JobRun, KillAll, Cancelled, Held, JobInv, StopInv,
     PoolInv, DataInv, poolVars, dataVars, sessionVars, sysVars, coVars
<1>3. ASSUME PreInit PROVE Goal
  BY <1>3, JoinedUnchanged DEF PreInit, Cancelled, Held, JobInv, StopInv, PoolInv,
     DataInv, poolVars, dataVars, sessionVars, sysVars, coVars
<1>4. ASSUME InitProxy PROVE Goal
  BY <1>4, JoinedUnchanged DEF InitProxy, Cancelled, Held, JobInv, StopInv,
     PoolInv, DataInv, poolVars, dataVars, sessionVars, sysVars, coVars
<1>5. ASSUME StartProcesses PROVE Goal
  <2>1. state = "Connecting" /\ receiver /\ UNCHANGED receiver
    BY <1>5 DEF StartProcesses, Cancelled, JobInv, StopInv, DataInv, TypeOK, dataVars
  <2>2. QED
    BY <1>5, <2>1 DEF StartProcesses, StopRunner, JobEnds
<1>5a. ASSUME DnsRegistered PROVE Goal
  <2>1. state = "Connecting" /\ receiver /\ UNCHANGED receiver
    BY <1>5a DEF DnsRegistered, Cancelled, JobInv, StopInv, DataInv, TypeOK, dataVars
  <2>2. QED
    BY <1>5a, <2>1 DEF DnsRegistered, StopRunner, JobEnds
<1>6. ASSUME SendFd PROVE Goal
  <2>1. state = "Connecting"
    BY <1>6 DEF SendFd, Cancelled, JobInv, StopInv, TypeOK
  <2>2. QED
    BY <1>6, <2>1 DEF SendFd, JobEnds
<1>7. ASSUME JobFails PROVE Goal
  BY <1>7, JoinedUnchanged DEF JobFails, Suspended, StopRunner, JobEnds, Cancelled, Held,
     JobInv, StopInv, PoolInv, DataInv, poolVars, dataVars, sessionVars,
     sysVars, coVars
<1>8. ASSUME JobCancelled PROVE Goal
  BY <1>8, JoinedUnchanged DEF JobCancelled, Suspended, JobEnds, Cancelled, Held, JobInv,
     StopInv, PoolInv, DataInv, poolVars, dataVars, sessionVars, sysVars,
     coVars
<1>9. ASSUME Cleanup PROVE Goal
  BY <1>9, JoinedUnchanged DEF Cleanup, ConnectingJoined, KillPool, Close, Cancel,
     DnsShutdown, WorkerShutdown, ProxyShutdown, VpnKilled, Held, JobInv,
     StopInv, PoolInv, DataInv, poolVars, dataVars, sessionVars, sysVars,
     coVars
<1>10. ASSUME Finish PROVE Goal
  BY <1>10, JoinedUnchanged DEF Finish, ScopeEnded, Held, JobInv, StopInv,
     PoolInv, DataInv, poolVars, dataVars, sessionVars, sysVars, coVars
<1>11. ASSUME NEW h \in Sockets, SocketClosed(h) PROVE Goal
  BY <1>11, JoinedUnchanged DEF SocketClosed, Held, JobInv, StopInv, PoolInv,
     DataInv, poolVars, dataVars, sessionVars, sysVars, coVars
<1>12. ASSUME RequestStart PROVE Goal
  BY <1>12, JoinedUnchanged DEF RequestStart, Held, JobInv, StopInv, PoolInv,
     DataInv, poolVars, dataVars, sessionVars, sysVars, coVars
<1>13. ASSUME ReceiveClose PROVE Goal
  BY <1>13, JoinedUnchanged DEF ReceiveClose, StopRunner, Held, JobInv, StopInv,
     PoolInv, DataInv, poolVars, dataVars, sessionVars, sysVars, coVars
<1>14. ASSUME ReceiveReload PROVE Goal
  BY <1>14, JoinedUnchanged DEF ReceiveReload, StopRunner, Held, JobInv, StopInv,
     PoolInv, DataInv, poolVars, dataVars, sessionVars, sysVars, coVars
<1>15. ASSUME OnRevoke PROVE Goal
  BY <1>15, JoinedUnchanged DEF OnRevoke, StopRunner, Held, JobInv, StopInv,
     PoolInv, DataInv, poolVars, dataVars, sessionVars, sysVars, coVars
<1>16. ASSUME OnFatal PROVE Goal
  BY <1>16, JoinedUnchanged DEF OnFatal, TakeFatal, StopRunner, Held, JobInv,
     StopInv, PoolInv, DataInv, poolVars, dataVars, sessionVars, sysVars,
     coVars
<1>17. ASSUME NEW g \in Guards, GuardStep(g) PROVE Goal
  <2>1. ~Joined /\ UNCHANGED <<receiver, state>>
    BY <1>17 DEF GuardStep, Die, FailCallback, EnterCallback, LeaveCallback, Reap, Lose,
                Joined, Guarding, dataVars, coVars
  <2>2. QED
    BY <2>1 DEF Held
<1>18. ASSUME NEW g \in Guards, CallbackErrno(g) PROVE Goal
  <2>1. ~Joined /\ UNCHANGED receiver /\ StopRunner(FALSE)
    BY <1>18 DEF CallbackErrno, LeaveCallback, Joined, Guarding, dataVars
  <2>2. QED
    BY <2>1 DEF Held, StopRunner, DataInv
<1>19. ASSUME Crash PROVE Goal
  BY <1>19, JoinedUnchanged DEF Crash, Held, JobInv, StopInv, PoolInv, DataInv,
     poolVars, dataVars, sessionVars, sysVars, coVars
<1>20. QED
  BY <1>1, <1>2, <1>3, <1>4, <1>5, <1>6, <1>7, <1>8, <1>9, <1>10, <1>11, <1>12,
     <1>13, <1>14, <1>15, <1>16, <1>17, <1>18, <1>19, <1>5a DEF Next, Connecting,
     Stopping

\* Clients see only the state machine of module ServiceContract.
THEOREM Refines == Spec => ImplementsContract
<1>1. Init => Contract!ContractInit
  BY DEF Init, PoolInit, Contract!ContractInit, Held, Joined, Guarding
<1>2. IInv /\ IInv' /\ [Next]_vars => [Contract!ContractNext]_<<state, Held>>
  <2> SUFFICES ASSUME IInv, IInv', [Next]_vars
               PROVE  Contract!ContractNext \/ UNCHANGED <<state, Held>>
    OBVIOUS
  <2>1. CASE Next
    <3> USE DEF Contract!ContractNext
    <3>0. Held \in BOOLEAN /\ Held' \in BOOLEAN
      BY Zenon DEF Held
    <3>1. state \in {"Connecting", "Connected", "Stopping", "Stopped"}
      BY DEF IInv, TypeOK
    <3>2. CASE state' = "Stopped"
      BY <3>0, <3>2, HeldByNextState, Zenon DEF Contract!Die
    <3>3. CASE state' = "Stopping" /\ state = "Stopping"
      <4>1. TypeOK' /\ (Held' => Held)
        BY <2>1, <3>3, Transitions DEF IInv
      <4>2. QED
        BY <3>0, <3>3, <4>1, Zenon DEF Contract!Release
    <3>4. CASE state' = "Stopping" /\ state # "Stopping"
      <4>1. Held => Held'
        BY <2>1, <3>1, <3>4, Transitions, HeldByState DEF Held, IInv
      <4>2. QED
        BY <3>0, <3>4, <4>1, Zenon DEF Contract!BeginStop
    <3>5. CASE state = "Stopped" /\ state' = "Connecting"
      BY <3>0, <3>5, HeldByState, HeldByNextState, Zenon DEF Contract!Begin
    <3>6. CASE state = "Connecting" /\ state' = "Connected"
      BY <3>0, <3>6, HeldByState, HeldByNextState, Zenon DEF Contract!Establish
    <3>7. CASE state \in {"Connecting", "Connected"} /\ state' = state
      BY <3>0, <3>7, HeldByState, HeldByNextState, Zenon
    <3>8. QED
      BY <2>1, <3>1, <3>2, <3>3, <3>4, <3>5, <3>6, <3>7, Transitions DEF IInv
  <2>2. CASE UNCHANGED vars
    BY <2>2, JoinedUnchanged DEF vars, Held, poolVars, dataVars, sessionVars, coVars
  <2>3. QED
    BY <2>1, <2>2
<1>3. QED
  BY <1>1, <1>2, ServiceCorrect, PTL DEF Spec, ImplementsContract, Contract!ContractSpec

==============================================================================
