---------------------------- MODULE SessionProofs ----------------------------
(***************************************************************************)
(* What TLAPS proves about the two parts of package bg that a session of   *)
(* the service is built on: the daemons of GuardedProcessPool and the      *)
(* accounts of TrafficMonitor.                                             *)
(***************************************************************************)
EXTENDS GuardedProcessPool, TrafficMonitor, TLAPS

------------------------------------------------------------------------------
(***************************************************************************)
(* GuardedProcessPool, for any set of daemons, any API level and any bound.*)
(***************************************************************************)

(***************************************************************************)
(* The inductive invariant: at each point of the looper, what it knows of  *)
(* its process and of its waiter thread.                                   *)
(***************************************************************************)
LooperInv(g) ==
    /\ pc[g] = "new" => proc[g] = "none" /\ waiter[g] = "none"
    /\ pc[g] = "receive" => waiter[g] = "waiting" /\ running[g] /\ ~closed
    /\ pc[g] = "resumed" => waiter[g] = "sent" /\ proc[g] = "dead"
    /\ pc[g] = "callback" => waiter[g] = "none" /\ running[g] /\ ~closed /\ g \in Callbacks
    /\ pc[g] \in {"kill", "grace"} => waiter[g] = "waiting" \/ g \in Callbacks
    /\ pc[g] = "kill" => running[g]
    /\ pc[g] = "graceResumed" => waiter[g] = "sent" /\ proc[g] = "dead"
    /\ pc[g] = "final" => waiter[g] = "waiting" \/ g \in Callbacks \/ LateTimeout
    /\ pc[g] = "end" => waiter[g] = "sent" /\ proc[g] = "dead"

IInv == TypeOK /\ \A g \in Guards : LooperInv(g)

------------------------------------------------------------------------------
\* The variables keep their types: the looper of every daemon is at a point of
\* its code and the number of posted onFatal calls is never negative.
THEOREM TypeCorrect == Spec => []TypeOK
<1>1. Init => TypeOK
  <2> SUFFICES ASSUME Init PROVE TypeOK
    OBVIOUS
  <2>1. running \in [Guards -> BOOLEAN] /\ closed \in BOOLEAN
    BY Zenon DEF Init
  <2>2. QED
    BY <2>1 DEF Init, TypeOK, Points, Processes
<1>2. TypeOK /\ [Next]_vars => TypeOK'
  <2> SUFFICES ASSUME TypeOK, [Next]_vars PROVE TypeOK'
    OBVIOUS
  <2> USE DEF TypeOK, Points, Processes
  <2>1. ASSUME NEW g \in Guards, Start(g) PROVE TypeOK'
    BY <2>1 DEF Start
  <2>2. ASSUME NEW g \in Guards, GiveUp(g) PROVE TypeOK'
    BY <2>2 DEF GiveUp
  <2>3. ASSUME NEW g \in Guards, Restart(g) PROVE TypeOK'
    BY <2>3 DEF Restart
  <2>4. ASSUME NEW g \in Guards, CallbackReturns(g) PROVE TypeOK'
    BY <2>4 DEF CallbackReturns
  <2>5. ASSUME NEW g \in Guards, CallbackThrows(g) PROVE TypeOK'
    BY <2>5 DEF CallbackThrows
  <2>6. ASSUME NEW g \in Guards, Kill(g) PROVE TypeOK'
    BY <2>6 DEF Kill, Signal
  <2>7. ASSUME NEW g \in Guards, GraceTimeout(g) PROVE TypeOK'
    BY <2>7 DEF GraceTimeout, Signal
  <2>8. ASSUME NEW g \in Guards, GraceReturns(g) PROVE TypeOK'
    BY <2>8 DEF GraceReturns
  <2>9. ASSUME NEW g \in Guards, Exit(g) PROVE TypeOK'
    BY <2>9 DEF Exit
  <2>10. ASSUME NEW g \in Guards, SendExit(g) PROVE TypeOK'
    BY <2>10 DEF SendExit
  <2>11. CASE Close
    BY <2>11 DEF Close
  <2>12. CASE OnFatal
    BY <2>12 DEF OnFatal
  <2>13. CASE UNCHANGED vars
    BY <2>13 DEF vars
  <2>14. QED
    BY <2>1, <2>2, <2>3, <2>4, <2>5, <2>6, <2>7, <2>8, <2>9, <2>10, <2>11,
       <2>12, <2>13 DEF Next, Looper
<1>3. QED
  BY <1>1, <1>2, PTL DEF Spec

------------------------------------------------------------------------------
\* At every point of its code a looper and its waiter thread agree on whether
\* the daemon is alive and on who reports its exit.
THEOREM LooperCorrect == Spec => []IInv
<1>1. Init /\ TypeOK => IInv
  BY DEF Init, IInv, LooperInv
<1>2. IInv /\ TypeOK' /\ [Next]_vars => IInv'
  <2> SUFFICES ASSUME IInv, TypeOK', [Next]_vars PROVE IInv'
    OBVIOUS
  <2> SUFFICES ASSUME NEW h \in Guards PROVE LooperInv(h)'
    BY DEF IInv
  <2> USE DEF LooperInv
  <2>0. TypeOK /\ LooperInv(h)
    BY DEF IInv
  <2>1. ASSUME NEW g \in Guards, Start(g) PROVE LooperInv(h)'
    BY <2>0, <2>1 DEF Start, TypeOK
  <2>2. ASSUME NEW g \in Guards, GiveUp(g) PROVE LooperInv(h)'
    BY <2>0, <2>2 DEF GiveUp, TypeOK
  <2>3. ASSUME NEW g \in Guards, Restart(g) PROVE LooperInv(h)'
    BY <2>0, <2>3 DEF Restart, TypeOK
  <2>4. ASSUME NEW g \in Guards, CallbackReturns(g) PROVE LooperInv(h)'
    BY <2>0, <2>4 DEF CallbackReturns, TypeOK
  <2>5. ASSUME NEW g \in Guards, CallbackThrows(g) PROVE LooperInv(h)'
    BY <2>0, <2>5 DEF CallbackThrows, TypeOK
  <2>6. ASSUME NEW g \in Guards, Kill(g) PROVE LooperInv(h)'
    BY <2>0, <2>6 DEF Kill, Signal, TypeOK
  <2>7. ASSUME NEW g \in Guards, GraceTimeout(g) PROVE LooperInv(h)'
    BY <2>0, <2>7 DEF GraceTimeout, Signal, TypeOK
  <2>8. ASSUME NEW g \in Guards, GraceReturns(g) PROVE LooperInv(h)'
    BY <2>0, <2>8 DEF GraceReturns, TypeOK
  <2>9. ASSUME NEW g \in Guards, Exit(g) PROVE LooperInv(h)'
    BY <2>0, <2>9 DEF Exit, TypeOK
  <2>10. ASSUME NEW g \in Guards, SendExit(g) PROVE LooperInv(h)'
    BY <2>0, <2>10 DEF SendExit, TypeOK
  <2>11. CASE Close
    BY <2>0, <2>11 DEF Close, TypeOK
  <2>12. CASE OnFatal
    BY <2>0, <2>12 DEF OnFatal
  <2>13. CASE UNCHANGED vars
    BY <2>0, <2>13 DEF vars
  <2>14. QED
    BY <2>1, <2>2, <2>3, <2>4, <2>5, <2>6, <2>7, <2>8, <2>9, <2>10, <2>11,
       <2>12, <2>13 DEF Next, Looper
<1>3. QED
  BY <1>1, <1>2, TypeCorrect, PTL DEF Spec

\* A looper that has returned left neither a live daemon nor a blocked waiter.
THEOREM NoOrphanDaemon == Spec => []EndedIsReaped
<1>1. IInv => EndedIsReaped
  BY DEF IInv, LooperInv, EndedIsReaped
<1>2. QED
  BY <1>1, LooperCorrect, PTL

\* Only a restart callback or a late timeout leaves a looper waiting in vain.
THEOREM WaitsAnswered == Spec => []EveryWaitIsAnswered
<1>1. IInv => EveryWaitIsAnswered
  BY DEF IInv, LooperInv, EveryWaitIsAnswered
<1>2. QED
  BY <1>1, LooperCorrect, PTL

\* No daemon is started while its predecessor lives.
THEOREM NoDoubleStart == Spec => RestartAfterExit
<1>1. IInv /\ [Next]_vars =>
        [\A g \in Guards :
            pc[g] \in {"new", "resumed"} /\ pc'[g] # pc[g] /\ proc'[g] = "alive"
                => proc[g] \in {"none", "dead"} /\ waiter[g] # "waiting"]_vars
  BY DEF IInv, LooperInv
<1>2. QED
  BY <1>1, LooperCorrect, PTL DEF Spec, RestartAfterExit

------------------------------------------------------------------------------
(* The pool implements the promise that BaseService is built on. *)

\* A step of one looper changes the abstract guard of that daemon alone.
LEMMA GuardStepIsLocal ==
    ASSUME NEW g \in Guards,
           \A h \in Guards \ {g} : pc'[h] = pc[h] /\ waiter'[h] = waiter[h],
           closed' = closed
    PROVE  [h \in Guards |-> AbstractGuard(h)]'
             = [[h \in Guards |-> AbstractGuard(h)] EXCEPT ![g] = AbstractGuard(g)']
  BY ZenonT(60) DEF AbstractGuard

\* A step that leaves the loopers and waiters alone does not show.
LEMMA GuardUnchanged ==
    ASSUME UNCHANGED <<pc, waiter, closed>>
    PROVE  UNCHANGED [h \in Guards |-> AbstractGuard(h)]
  BY DEF AbstractGuard

\* Every step of the loopers, waiters and processes is a step that module
\* ProcessPool allows, or changes nothing the owner of the pool can see.
THEOREM Implements == Spec => ImplementsProcessPool
<1> DEFINE G == [h \in Guards |-> AbstractGuard(h)]
<1>1. Init => Pool!PoolInit
  BY DEF Init, Pool!PoolInit, AbstractGuard
<1>2. IInv /\ IInv' /\ [Next]_vars => [Pool!PoolNext]_Pool!poolVars
  <2> SUFFICES ASSUME IInv, IInv', [Next]_vars
               PROVE  Pool!PoolNext \/ UNCHANGED <<G, closed, fatals>>
    BY DEF Pool!poolVars
  <2>0. TypeOK /\ TypeOK'
    BY DEF IInv
  <2>1. ASSUME NEW g \in Guards, Start(g)
        PROVE  Pool!StartGuard(g)
    <3>1. G' = [G EXCEPT ![g] = AbstractGuard(g)']
      BY <2>0, <2>1, GuardStepIsLocal DEF Start, TypeOK
    <3>2. AbstractGuard(g) = "idle" /\ AbstractGuard(g)' = "running"
      BY <2>0, <2>1 DEF Start, AbstractGuard, IInv, LooperInv, TypeOK
    <3>3. QED
      BY <2>1, <3>1, <3>2 DEF Start, Pool!StartGuard
  <2>2. ASSUME NEW g \in Guards, GiveUp(g)
        PROVE  Pool!Die(g)
    <3>1. G' = [G EXCEPT ![g] = AbstractGuard(g)']
      BY <2>0, <2>2, GuardStepIsLocal DEF GiveUp, TypeOK
    <3>2. AbstractGuard(g) \in {"running", "killing"} /\ AbstractGuard(g)' = "ended"
      BY <2>0, <2>2 DEF GiveUp, AbstractGuard, IInv, LooperInv, TypeOK
    <3>3. QED
      BY <2>2, <3>1, <3>2 DEF GiveUp, Pool!Die
  <2>3. ASSUME NEW g \in Guards, Restart(g)
        PROVE  Pool!EnterCallback(g) \/ Pool!Lose(g) \/ UNCHANGED <<G, closed, fatals>>
    <3>1. G' = [G EXCEPT ![g] = AbstractGuard(g)']
      BY <2>0, <2>3, GuardStepIsLocal DEF Restart, TypeOK
    <3>2. \/ AbstractGuard(g)' = AbstractGuard(g)
          \/ /\ AbstractGuard(g) = "running" /\ AbstractGuard(g)' = "callback"
             /\ g \in Callbacks
          \/ /\ AbstractGuard(g) = "killing" /\ AbstractGuard(g)' = "unreaped"
             /\ g \in Callbacks
      BY <2>0, <2>3 DEF Restart, AbstractGuard, IInv, LooperInv, TypeOK
    <3>3. QED
      BY <2>3, <3>1, <3>2 DEF Restart, Pool!EnterCallback, Pool!Lose
  <2>4. ASSUME NEW g \in Guards, CallbackReturns(g)
        PROVE  Pool!LeaveCallback(g)
    <3>1. G' = [G EXCEPT ![g] = AbstractGuard(g)']
      BY <2>0, <2>4, GuardStepIsLocal DEF CallbackReturns, TypeOK
    <3>2. AbstractGuard(g) = "callback" /\ AbstractGuard(g)' = "running"
      BY <2>0, <2>4 DEF CallbackReturns, AbstractGuard, IInv, LooperInv, TypeOK
    <3>3. QED
      BY <2>4, <3>1, <3>2 DEF CallbackReturns, Pool!LeaveCallback
  <2>5. ASSUME NEW g \in Guards, CallbackThrows(g)
        PROVE  Pool!FailCallback(g)
    <3>1. G' = [G EXCEPT ![g] = AbstractGuard(g)']
      BY <2>0, <2>5, GuardStepIsLocal DEF CallbackThrows, TypeOK
    <3>2. AbstractGuard(g) = "callback" /\ AbstractGuard(g)' = "unreaped"
      BY <2>0, <2>5 DEF CallbackThrows, AbstractGuard, IInv, LooperInv, TypeOK
    <3>3. QED
      BY <2>5, <3>1, <3>2 DEF CallbackThrows, Pool!FailCallback
  <2>6. ASSUME NEW g \in Guards, Kill(g)
        PROVE  UNCHANGED <<G, closed, fatals>>
    <3>1. G' = [G EXCEPT ![g] = AbstractGuard(g)']
      BY <2>0, <2>6, GuardStepIsLocal DEF Kill, TypeOK
    <3>2. AbstractGuard(g)' = AbstractGuard(g)
      BY <2>0, <2>6 DEF Kill, AbstractGuard, IInv, LooperInv, TypeOK
    <3>3. QED
      BY <2>6, <3>1, <3>2 DEF Kill, TypeOK
  <2>7. ASSUME NEW g \in Guards, GraceTimeout(g)
        PROVE  Pool!Lose(g) \/ UNCHANGED <<G, closed, fatals>>
    <3>1. G' = [G EXCEPT ![g] = AbstractGuard(g)']
      BY <2>0, <2>7, GuardStepIsLocal DEF GraceTimeout, TypeOK
    <3>2. \/ AbstractGuard(g)' = AbstractGuard(g)
          \/ AbstractGuard(g) = "killing" /\ AbstractGuard(g)' = "unreaped" /\ LateTimeout
      BY <2>0, <2>7 DEF GraceTimeout, AbstractGuard, IInv, LooperInv, TypeOK
    <3>3. QED
      BY <2>7, <3>1, <3>2 DEF GraceTimeout, Pool!Lose
  <2>8. ASSUME NEW g \in Guards, GraceReturns(g)
        PROVE  Pool!Reap(g)
    <3>1. G' = [G EXCEPT ![g] = AbstractGuard(g)']
      BY <2>0, <2>8, GuardStepIsLocal DEF GraceReturns, TypeOK
    <3>2. AbstractGuard(g) = "killing" /\ AbstractGuard(g)' = "ended"
      BY <2>0, <2>8 DEF GraceReturns, AbstractGuard, IInv, LooperInv, TypeOK
    <3>3. QED
      BY <2>8, <3>1, <3>2 DEF GraceReturns, Pool!Reap
  <2>9. ASSUME NEW g \in Guards, SendExit(g)
        PROVE  Pool!Reap(g) \/ UNCHANGED <<G, closed, fatals>>
    <3>1. G' = [G EXCEPT ![g] = AbstractGuard(g)']
      BY <2>0, <2>9, GuardStepIsLocal DEF SendExit, TypeOK
    <3>2. \/ AbstractGuard(g)' = AbstractGuard(g)
          \/ AbstractGuard(g) = "killing" /\ AbstractGuard(g)' = "ended"
      BY <2>0, <2>9 DEF SendExit, AbstractGuard, IInv, LooperInv, TypeOK
    <3>3. QED
      BY <2>9, <3>1, <3>2 DEF SendExit, Pool!Reap
  <2>10. ASSUME NEW g \in Guards, Exit(g)
         PROVE  UNCHANGED <<G, closed, fatals>>
    BY <2>10, GuardUnchanged DEF Exit
  <2>11. ASSUME Close PROVE Pool!Close
    <3>1. ASSUME NEW g \in Guards PROVE AbstractGuard(g)' = Pool!Cancel(AbstractGuard(g))
      BY <2>0, <2>11 DEF Close, AbstractGuard, Pool!Cancel, IInv, LooperInv, TypeOK, Points
    <3>2. QED
      BY <2>11, <3>1 DEF Close, Pool!Close
  <2>12. ASSUME OnFatal PROVE Pool!TakeFatal
    BY <2>12, GuardUnchanged DEF OnFatal, Pool!TakeFatal
  <2>13. CASE UNCHANGED vars
    BY <2>13, GuardUnchanged DEF vars
  <2>14. QED
    BY <2>1, <2>2, <2>3, <2>4, <2>5, <2>6, <2>7, <2>8, <2>9, <2>10, <2>11,
       <2>12, <2>13 DEF Next, Looper, Pool!PoolNext
<1>3. QED
  BY <1>1, <1>2, LooperCorrect, PTL DEF Spec, ImplementsProcessPool, Pool!PoolSpec

------------------------------------------------------------------------------
(***************************************************************************)
(* TrafficMonitor: no traffic is counted twice and the clients are shown   *)
(* what was reported last, for any number of sessions, restarts, reboots   *)
(* and bytes.                                                              *)
(***************************************************************************)

(***************************************************************************)
(* The inductive invariant.  CountInv is about the three places that keep  *)
(* totals: the device copy must stay within what is due even while it is   *)
(* clean, since a later persistStats adds to it and marks it, and the      *)
(* totals of the running session stay within what it carried, none of      *)
(* which is due yet.  ShownInv adds to ShownIsCurrent the moment between   *)
(* the copy of the totals and dirty = false.                               *)
(***************************************************************************)
Within(totals) == \A p \in Profiles : totals[p] <= due[p]

SessionWithin ==
    \A p \in Profiles : /\ saved[p] = 0
                        /\ counter[p] <= carried[p]
                        /\ current[p] <= carried[p]

CountInv ==
    /\ \A p \in Profiles : saved[p] <= carried[p]
    /\ bounds["shutdowns"] = 0 => /\ Within(db) /\ Within(device.total)
                                  /\ session => SessionWithin

ShownInv ==
    \A p \in Profiles :
        session /\ p \notin marking \cup overlapped /\ (clearing = p \/ p \notin dirty)
            => out[p] = current[p]

\* Profiles with a fallback are the only ones that have two proxies.
LEMMA ProxiesType == Proxies \subseteq Profiles
  BY DEF Proxies, Profiles

\* A new TrafficMonitor, or none, is well typed.
LEMMA NoMonitorType ==
    ASSUME NoMonitor
    PROVE  /\ out' = Zero /\ out' \in [Profiles -> Nat] /\ clearing' \in Profiles \cup {"none"}
           /\ dirty' \subseteq Profiles /\ marking' \subseteq Profiles /\ overlapped' \subseteq Profiles
  BY DEF NoMonitor, Zero

\* A bounded event only moves its own counter.
LEMMA HappensType ==
    ASSUME bounds \in [Events -> Nat], NEW e \in Events, NEW max, Happens(e, max)
    PROVE  /\ bounds' \in [Events -> Nat]
           /\ bounds'[e] = bounds[e] + 1
           /\ \A f \in Events : f # e => bounds'[f] = bounds[f]
  BY DEF Happens

\* persistStats keeps the stored totals well typed, and adds at most the totals
\* of the session to them.
LEMMA PersistType ==
    ASSUME TrafficTypeOK, Persist
    PROVE  /\ db' \in [Profiles -> Nat] /\ registered' \in BOOLEAN
           /\ device' \in [exists : BOOLEAN, total : [Profiles -> Nat], dirty : SUBSET Profiles]
           /\ \A p \in Profiles : /\ db'[p] <= db[p] + current[p]
                                  /\ device'.total[p] <= device.total[p] + current[p]
           /\ ~fallback => device'.exists = device.exists
<1> USE DEF TrafficTypeOK
<1>1. CASE PersistInDatabase
  BY <1>1 DEF PersistInDatabase
<1>2. CASE PersistInDevice
  <2>1. "main" \in Profiles
    BY DEF Profiles
  <2>2. device' = [device EXCEPT !.total = [device.total EXCEPT !["main"] = @ + current["main"]],
                                 !.dirty = @ \cup {"main"}]
    BY <1>2 DEF PersistInDevice
  <2> DEFINE total == [device.total EXCEPT !["main"] = @ + current["main"]]
  <2>3. /\ total \in [Profiles -> Nat]
        /\ \A p \in Profiles : total[p] <= device.total[p] + current[p]
    BY <2>1
  <2> HIDE DEF total
  <2>4. device' = [device EXCEPT !.total = total, !.dirty = @ \cup {"main"}]
    BY <2>2 DEF total
  <2>5. /\ device' \in [exists : BOOLEAN, total : [Profiles -> Nat], dirty : SUBSET Profiles]
        /\ device'.total = total /\ device'.exists = device.exists
    BY <2>1, <2>3, <2>4
  <2>6. QED
    BY <1>2, <2>3, <2>5 DEF PersistInDevice
<1>3. CASE PersistFails
  <2>1. Zero \in [Profiles -> Nat] /\ \A p \in Profiles : Zero[p] = 0
    BY DEF Zero
  <2>2. /\ device' \in [exists : BOOLEAN, total : [Profiles -> Nat], dirty : SUBSET Profiles]
        /\ device'.total = Zero /\ fallback
    BY <1>3, <2>1 DEF PersistFails, Expandable
  <2>3. db' = db /\ registered' \in BOOLEAN
    BY <1>3 DEF PersistFails
  <2>4. QED
    BY <2>1, <2>2, <2>3
<1>4. QED
  BY <1>1, <1>2, <1>3 DEF Persist

\* What is given to persistStats becomes due, and is then saved.
LEMMA GiveType ==
    ASSUME TrafficTypeOK, CountInv, GiveToPersist
    PROVE  /\ carried' = carried /\ saved' = carried
           /\ due' \in [Profiles -> Nat]
           /\ \A p \in Profiles : due'[p] = due[p] + (carried[p] - saved[p])
  BY DEF TrafficTypeOK, CountInv, GiveToPersist

\* Flushing replaces totals of the database by totals of the device copy.
LEMMA FlushType ==
    ASSUME TrafficTypeOK, FlushTrafficStats
    PROVE  /\ db' \in [Profiles -> Nat]
           /\ device' \in [exists : BOOLEAN, total : [Profiles -> Nat], dirty : SUBSET Profiles]
           /\ device'.exists /\ device'.total = db'
           /\ \A p \in Profiles : db'[p] = db[p] \/ db'[p] = device.total[p]
  BY DEF TrafficTypeOK, FlushTrafficStats, Copy

------------------------------------------------------------------------------
\* The part of the invariant about totals holds of every reachable state: the
\* session, the device copy and the database never hold more than was carried.
THEOREM Counted == TrafficSpec => [](TrafficTypeOK /\ CountInv)
<1>1. TrafficInit => TrafficTypeOK /\ CountInv
  <2>1. Zero \in [Profiles -> Nat] /\ \A p \in Profiles : Zero[p] = 0
    BY DEF Zero
  <2>2. Copy(Zero) \in [exists : BOOLEAN, total : [Profiles -> Nat], dirty : SUBSET Profiles]
    BY <2>1 DEF Copy
  <2>3. TrafficInit => TrafficTypeOK
    <3>1. ASSUME TrafficInit
          PROVE  /\ fallback \in BOOLEAN /\ unlocked \in BOOLEAN
                 /\ session \in BOOLEAN /\ registered \in BOOLEAN
      BY <3>1, Zenon DEF TrafficInit
    <3>2. ASSUME TrafficInit
          PROVE  /\ counter \in [Profiles -> Nat] /\ current \in [Profiles -> Nat]
                 /\ out \in [Profiles -> Nat] /\ clearing \in Profiles \cup {"none"}
                 /\ dirty \subseteq Profiles /\ marking \subseteq Profiles
                 /\ overlapped \subseteq Profiles
      BY <3>2, <2>1 DEF TrafficInit
    <3>3. ASSUME TrafficInit
          PROVE  /\ db \in [Profiles -> Nat] /\ bounds \in [Events -> Nat]
                 /\ device \in [exists : BOOLEAN, total : [Profiles -> Nat], dirty : SUBSET Profiles]
                 /\ carried \in [Profiles -> Nat] /\ saved \in [Profiles -> Nat]
                 /\ due \in [Profiles -> Nat]
      BY <3>3, <2>1, <2>2 DEF TrafficInit
    <3>4. QED
      BY <3>1, <3>2, <3>3, Zenon DEF TrafficTypeOK
  <2>4. TrafficInit => CountInv
    BY <2>1 DEF TrafficInit, CountInv, Within, SessionWithin, Copy
  <2>5. QED
    BY <2>3, <2>4
<1>2. TrafficTypeOK /\ CountInv /\ [TrafficNext]_trafficVars => TrafficTypeOK' /\ CountInv'
  <2> SUFFICES ASSUME TrafficTypeOK, CountInv, [TrafficNext]_trafficVars PROVE TrafficTypeOK' /\ CountInv'
    OBVIOUS
  <2> USE ProxiesType DEF monitor, store, told
  <2>1. CASE StartSession
    <3>1. TrafficTypeOK'
      BY <2>1, NoMonitorType, HappensType DEF StartSession, TrafficTypeOK, Zero, Events
    <3>2. CountInv'
      BY <2>1, HappensType DEF StartSession, TrafficTypeOK, CountInv, Within, SessionWithin, Zero, Events
    <3>3. QED
      BY <3>1, <3>2
  <2>2. CASE Shutdown
    <3>1. TrafficTypeOK'
      BY <2>2, NoMonitorType, PersistType, GiveType DEF Shutdown, TrafficTypeOK
    <3>2. CountInv'
      BY <2>2, PersistType, GiveType, <3>1 DEF Shutdown, TrafficTypeOK, CountInv, Within, SessionWithin
    <3>3. QED
      BY <3>1, <3>2
  <2>3. CASE PersistStats
    <3>1. TrafficTypeOK'
      <4>1. bounds' \in [Events -> Nat]
        BY <2>3, HappensType DEF PersistStats, TrafficTypeOK, Events
      <4>2. session' \in BOOLEAN
        BY <2>3 DEF PersistStats, Expandable, TrafficTypeOK
      <4>3. CASE session'
        BY <2>3, <4>1, <4>2, <4>3, PersistType, GiveType DEF PersistStats, TrafficTypeOK
      <4>4. CASE ~session'
        BY <2>3, <4>1, <4>2, <4>4, NoMonitorType, PersistType, GiveType DEF PersistStats, TrafficTypeOK
      <4>5. QED
        BY <4>3, <4>4
    <3>2. bounds'["shutdowns"] # 0
      BY <2>3, HappensType DEF PersistStats, TrafficTypeOK, Events
    <3>3. CountInv'
      BY <2>3, <3>1, <3>2, GiveType DEF PersistStats, TrafficTypeOK, CountInv
    <3>4. QED
      BY <3>1, <3>3
  <2>4. ASSUME NEW p \in Proxies, AcceptInternal(p) PROVE TrafficTypeOK' /\ CountInv'
    BY <2>4 DEF AcceptInternal, TrafficTypeOK, CountInv, Within, SessionWithin
  <2>5. ASSUME NEW p \in Proxies, MarkDirty(p) \/ RequestUpdate(p) PROVE TrafficTypeOK' /\ CountInv'
    BY <2>5 DEF MarkDirty, RequestUpdate, TrafficTypeOK, CountInv, Within, SessionWithin
  <2>6. ASSUME NEW p \in Proxies, RestartSsLocal(p) PROVE TrafficTypeOK' /\ CountInv'
    <3>1. bounds' \in [Events -> Nat] /\ bounds'["shutdowns"] = bounds["shutdowns"]
      BY <2>6, HappensType DEF RestartSsLocal, TrafficTypeOK, Events
    <3>2. QED
      BY <2>6, <3>1 DEF RestartSsLocal, TrafficTypeOK, CountInv, Within, SessionWithin
  <2>7. CASE ClearDirty
    BY <2>7 DEF ClearDirty, TrafficTypeOK, CountInv, Within, SessionWithin
  <2>8. CASE OnReceive \/ CoreInit
    <3>1. FlushTrafficStats /\ registered' \in BOOLEAN
      BY <2>8 DEF OnReceive, CoreInit, TrafficTypeOK
    <3>2. UNCHANGED <<fallback, unlocked, session, counter, current, monitor, bounds, told>>
      BY <2>8 DEF OnReceive, CoreInit
    <3>3. TrafficTypeOK'
      BY <3>1, <3>2, FlushType DEF TrafficTypeOK
    <3>4. CountInv'
      BY <3>1, <3>2, FlushType DEF CountInv, Within, SessionWithin
    <3>5. QED
      BY <3>3, <3>4
  <2>9. CASE Unlock
    BY <2>9 DEF Unlock, TrafficTypeOK, CountInv, Within, SessionWithin
  <2>10. CASE Reboot
    <3>1. bounds' \in [Events -> Nat] /\ bounds'["shutdowns"] = bounds["shutdowns"]
      BY <2>10, HappensType DEF Reboot, TrafficTypeOK, Events
    <3>2. QED
      BY <2>10, <3>1, NoMonitorType DEF Reboot, TrafficTypeOK, CountInv, Within, SessionWithin
  <2>11. CASE UNCHANGED trafficVars
    BY <2>11 DEF trafficVars, TrafficTypeOK, CountInv, Within, SessionWithin
  <2>12. QED
    BY <2>1, <2>2, <2>3, <2>4, <2>5, <2>6, <2>7, <2>8, <2>9, <2>10, <2>11 DEF TrafficNext
<1>3. QED
  BY <1>1, <1>2, PTL DEF TrafficSpec

\* A profile without a fallback always has its copy in device storage: only a
\* profile whose fallback cannot be expanded gets its file truncated.
THEOREM CopyKept == TrafficSpec => []DeviceProfileKept
<1>1. TrafficInit => DeviceProfileKept
  BY DEF TrafficInit, DeviceProfileKept, Copy
<1>2. TrafficTypeOK /\ DeviceProfileKept /\ [TrafficNext]_trafficVars => DeviceProfileKept'
  <2> SUFFICES ASSUME TrafficTypeOK, DeviceProfileKept, [TrafficNext]_trafficVars PROVE DeviceProfileKept'
    OBVIOUS
  <2> USE DEF DeviceProfileKept, store
  <2>1. CASE Shutdown \/ PersistStats
    BY <2>1, PersistType DEF Shutdown, PersistStats
  <2>2. CASE OnReceive \/ CoreInit
    BY <2>2, FlushType DEF OnReceive, CoreInit
  <2>3. CASE StartSession \/ ClearDirty \/ Unlock \/ Reboot \/ UNCHANGED trafficVars
    BY <2>3 DEF StartSession, ClearDirty, Unlock, Reboot, trafficVars
  <2>4. ASSUME NEW p \in Proxies,
               AcceptInternal(p) \/ MarkDirty(p) \/ RequestUpdate(p) \/ RestartSsLocal(p)
        PROVE  DeviceProfileKept'
    BY <2>4 DEF AcceptInternal, MarkDirty, RequestUpdate, RestartSsLocal
  <2>5. QED
    BY <2>1, <2>2, <2>3, <2>4 DEF TrafficNext
<1>3. QED
  BY <1>1, <1>2, Counted, PTL DEF TrafficSpec

\* No traffic is ever counted twice in the copy of a profile that counts,
\* and a profile without a fallback can be read before the unlock.
THEOREM TotalsCorrect == TrafficSpec => []TotalsInv
<1>1. TrafficTypeOK /\ CountInv /\ DeviceProfileKept => TotalsInv
  BY DEF TrafficTypeOK, CountInv, Within, TotalsInv, NeverOvercounted, Total
<1>2. QED
  BY <1>1, Counted, CopyKept, PTL

------------------------------------------------------------------------------
\* The clients are shown the total that was reported last, except after the one
\* race of the two threads that share a TrafficMonitor without a lock.
THEOREM ShowsWhatWasReported == TrafficSpec => []ShownIsCurrent
<1>1. TrafficInit => ShownInv
  BY DEF TrafficInit, ShownInv
<1>2. TrafficTypeOK /\ ShownInv /\ [TrafficNext]_trafficVars => ShownInv'
  <2> SUFFICES ASSUME TrafficTypeOK, ShownInv, [TrafficNext]_trafficVars PROVE ShownInv'
    OBVIOUS
  <2> USE ProxiesType DEF monitor, store, told, ShownInv, MainFree
  <2>1. CASE StartSession
    BY <2>1, NoMonitorType DEF StartSession
  <2>2. CASE Shutdown \/ Reboot
    BY <2>2 DEF Shutdown, Reboot
  <2>3. CASE PersistStats
    BY <2>3 DEF PersistStats
  <2>4. ASSUME NEW p \in Proxies, AcceptInternal(p) PROVE ShownInv'
    BY <2>4 DEF AcceptInternal, TrafficTypeOK
  <2>5. ASSUME NEW p \in Proxies, MarkDirty(p) PROVE ShownInv'
    BY <2>5 DEF MarkDirty, TrafficTypeOK
  <2>6. ASSUME NEW p \in Proxies, RequestUpdate(p) PROVE ShownInv'
    BY <2>6 DEF RequestUpdate, TrafficTypeOK, Profiles
  <2>7. ASSUME NEW p \in Proxies, RestartSsLocal(p) PROVE ShownInv'
    BY <2>7 DEF RestartSsLocal
  <2>8. CASE ClearDirty
    BY <2>8 DEF ClearDirty, TrafficTypeOK, Profiles
  <2>9. CASE OnReceive \/ CoreInit \/ Unlock \/ UNCHANGED trafficVars
    BY <2>9 DEF OnReceive, CoreInit, Unlock, trafficVars
  <2>10. QED
    BY <2>1, <2>2, <2>3, <2>4, <2>5, <2>6, <2>7, <2>8, <2>9 DEF TrafficNext
<1>3. ShownInv => ShownIsCurrent
  BY DEF ShownInv, ShownIsCurrent
<1>4. QED
  BY <1>1, <1>2, <1>3, Counted, PTL DEF TrafficSpec

==============================================================================
