---------------------------- MODULE LocalDnsServer ----------------------------
(***************************************************************************)
(* net/LocalDnsServer.kt on top of ChannelMonitor: each packet starts a    *)
(* coroutine that resolves it (resolve), with a child that forwards it to  *)
(* the remote server (forward), and sends the reply on the server's own    *)
(* channel.  What is asked is reduced to the branch of resolve it takes.   *)
(*                                                                         *)
(* shutdown() is only called when the coroutine of start() is over: the    *)
(* service joins connectingJob first.                                      *)
(***************************************************************************)
EXTENDS Naturals, Sequences, FiniteSets, TLC

CONSTANTS
    Queries,        \* packets that clients send
    Kinds,          \* the branches of resolve they may take
    Server,         \* the channel start() binds
    Nobody,
    Api,
    Tcp,            \* forward by TCP
    SendMayBlock    \* the server's socket may refuse a reply for the moment

ASSUME DnsAssumption ==
    /\ IsFiniteSet(Queries) /\ Server \notin Queries
    /\ Kinds \subseteq {"garbage", "forward", "hosts", "ask"}
    /\ Api \in Nat /\ Tcp \in BOOLEAN /\ SendMayBlock \in BOOLEAN

VARIABLES
    running, thread, pendingRegistrations, pipe, reg, result, keys, interest, open,
    started,        \* start(): "no", "opening", "yes", "failed"
    refused,        \* history: the queries whose reply the socket has refused
    kind,           \* kind[q]: the branch of resolve q takes.  garbage: cannot be
                    \* parsed; forward: no question for an A record, or one that
                    \* only the remote server is to see; hosts: in the hosts
                    \* file; ask: the local resolver is asked
    main,           \* main[q]: where q's coroutine is
    local,          \* local[q]: what localResolver did
    remote,         \* remote[q]: where forward is
    stage,          \* stage[q]: operations of forward that are done
    reply           \* reply[q]: where q's reply is from

\* A forwarding coroutine has a channel of its own; start() and the replies
\* use the server's.
Starter == <<Server, "start">>
Forwarder(q) == <<q, "remote">>
Replier(q) == <<q, "reply">>
Waiters == {Starter} \cup (Queries \X {"remote", "reply"})
Channels == Queries \cup {Server}

ChannelOf(w) == IF w[2] = "remote" THEN w[1] ELSE Server

INSTANCE ChannelMonitor

monitorVars == <<running, thread, pendingRegistrations, pipe, reg, result, keys, interest, open>>
serverVars == <<started, refused>>
queryVars == <<kind, main, local, remote, stage, reply>>
vars == <<monitorVars, serverVars, queryVars>>

\* The packets are alike.
Symmetry == Permutations(Queries)

\* What the local resolver does.  useless: no address, none that is wanted, an
\* UnknownHostException, or nothing before TIMEOUT.  throws: something else.
Outcomes == {"match", "useless", "throws"}

\* connect, write and read; without TCP write and read
Operations == IF Tcp THEN 3 ELSE 2

\* Type invariant: the state of each query's coroutines.
TypeOK ==
    /\ MonitorTypeOK
    /\ started \in {"no", "opening", "yes", "failed"}
    /\ refused \subseteq Queries
    /\ kind \in [Queries -> Kinds \cup {"none"}]
    /\ main \in [Queries -> {"free", "local", "await", "cooked", "reply", "done"}]
    /\ local \in [Queries -> Outcomes \cup {"none"}]
    /\ remote \in [Queries -> {"none", "running", "cancelled", "ok", "failed"}]
    /\ stage \in [Queries -> 0 .. Operations - 1]
    /\ reply \in [Queries -> {"none", "hosts", "local", "remote", "servfail"}]
    /\ \A q \in Queries : remote[q] \in {"ok", "failed"} => q \notin open

Init ==
    /\ MonitorInit
    /\ started = "no" /\ refused = {}
    /\ kind = [q \in Queries |-> "none"]
    /\ main = [q \in Queries |-> "free"]
    /\ local = [q \in Queries |-> "none"]
    /\ remote = [q \in Queries |-> "none"]
    /\ stage = [q \in Queries |-> 0]
    /\ reply = [q \in Queries |-> "none"]

------------------------------------------------------------------------------
(* start() *)

StartServer ==
    /\ started = "no" /\ running
    /\ open' = open \cup {Server}
    /\ \/ started' = "opening" /\ Send(Starter)
       \/ started' = "failed"                      \* BindException
          /\ UNCHANGED <<running, thread, pendingRegistrations, pipe, reg, result, keys, interest>>
    /\ UNCHANGED <<refused, queryVars>>

\* register() has returned
ServerStarted ==
    /\ started = "opening" /\ reg[Starter] = "awaiting"
    /\ result[Starter] # "none"
    /\ started' = "yes"
    /\ Leave(Starter)
    /\ UNCHANGED <<keys, interest, open, refused, queryVars>>

\* connectingJob is cancelled
StartCancelled ==
    /\ started = "opening" /\ Cancellable(Starter)
    /\ started' = "failed"
    /\ Leave(Starter)
    /\ UNCHANGED <<keys, interest, open, refused, queryVars>>

\* shutdown(): the scope is cancelled and the monitor is told to end.
Shutdown ==
    /\ running /\ started # "opening"
    /\ running' = FALSE
    /\ UNCHANGED <<thread, pendingRegistrations, pipe, reg, result, keys, interest, open, serverVars, queryVars>>

------------------------------------------------------------------------------
(* resolve() *)

\* handlePacket and resolve up to the first suspension.  The packet's answer
\* in the hosts file is cooked at once, but the scope waits for its child.
HandlePacket(q, k) ==
    /\ thread = "selecting" /\ Server \in keys /\ interest[Server] = Starter
    /\ main[q] = "free"
    /\ kind' = [kind EXCEPT ![q] = k]
    /\ main' = [main EXCEPT ![q] = CASE k = "hosts" -> "cooked"
                                     [] k = "ask"   -> "local"
                                     [] OTHER       -> "await"]
    /\ remote' = [remote EXCEPT ![q] = IF k = "hosts" THEN "cancelled" ELSE "running"]
    /\ reply' = [reply EXCEPT ![q] = IF k = "hosts" THEN "hosts" ELSE "none"]
    /\ open' = open \cup {q}
    /\ UNCHANGED <<running, thread, pendingRegistrations, pipe, reg, result, keys, interest,
                   serverVars, local, stage>>

\* localResolver returns, fails, or is given up after TIMEOUT.
LocalReturns(q) ==
    /\ main[q] = "local"
    /\ \E outcome \in Outcomes :
          /\ local' = [local EXCEPT ![q] = outcome]
          /\ IF outcome = "useless"
             THEN /\ main' = [main EXCEPT ![q] = "await"]
                  /\ UNCHANGED <<remote, reply>>
             ELSE /\ main' = [main EXCEPT ![q] = "cooked"]
                  /\ remote' = [remote EXCEPT ![q] = IF @ = "running" THEN "cancelled" ELSE @]
                  /\ reply' = [reply EXCEPT ![q] = IF outcome = "match" THEN "local" ELSE "servfail"]
    /\ UNCHANGED <<monitorVars, serverVars, kind, stage>>

Ended(q) == remote[q] \in {"ok", "failed"}

\* Mutant: coroutineScope for supervisorScope: the child's failure ends resolve.
AwaitReturnsEarly(q) ==
    /\ main[q] \in {"local", "await"} /\ Ended(q)
    /\ main' = [main EXCEPT ![q] = "reply"]
    /\ reply' = [reply EXCEPT ![q] = IF remote[q] = "ok" THEN "remote" ELSE "servfail"]
    /\ UNCHANGED <<monitorVars, serverVars, kind, local, remote, stage>>

\* remote.await() returns or throws.  forward of a packet that could not be
\* parsed is called directly, and what it throws ends the coroutine.
AwaitReturns(q) ==
    /\ main[q] = "await" /\ Ended(q)
    /\ IF remote[q] = "failed" /\ kind[q] = "garbage"
       THEN main' = [main EXCEPT ![q] = "done"] /\ UNCHANGED reply
       ELSE /\ main' = [main EXCEPT ![q] = "reply"]
            /\ reply' = [reply EXCEPT ![q] = IF remote[q] = "ok" THEN "remote" ELSE "servfail"]
    /\ UNCHANGED <<monitorVars, serverVars, kind, local, remote, stage>>

\* supervisorScope returns when its child is over.
ScopeReturns(q) ==
    /\ main[q] = "cooked" /\ Ended(q)
    /\ main' = [main EXCEPT ![q] = "reply"]
    /\ UNCHANGED <<monitorVars, serverVars, kind, local, remote, stage, reply>>

\* The scope of the server was cancelled.
ResolveCancelled(q) ==
    /\ ~running
    /\ main[q] \in {"local", "await", "cooked"} /\ Ended(q)
    /\ main' = [main EXCEPT ![q] = "done"]
    /\ UNCHANGED <<monitorVars, serverVars, kind, local, remote, stage, reply>>

\* The loop of handlePacket is at channel.send(reply).
Replying(q) ==
    /\ main[q] = "reply"
    /\ \/ reg[Replier(q)] = "idle"
       \/ Woken(Replier(q), "fired") /\ running

\* channel.send(reply) succeeds or, after shutdown(), throws.
SendReply(q) ==
    /\ Replying(q)
    /\ main' = [main EXCEPT ![q] = "done"]
    /\ Leave(Replier(q))
    /\ UNCHANGED <<keys, interest, open, serverVars, kind, local, remote, stage, reply>>

\* channel.send(reply) sends nothing: monitor.wait(channel, OP_WRITE)
WaitToReply(q) ==
    /\ SendMayBlock /\ Server \in open
    /\ Replying(q)
    /\ Send(Replier(q))
    /\ refused' = refused \cup {q}
    /\ UNCHANGED <<open, started, queryVars>>

\* wait() throws: the scope was cancelled or the channel is closed.
ReplyFails(q) ==
    /\ main[q] = "reply"
    /\ Woken(Replier(q), "failed") \/ (~running /\ Cancellable(Replier(q)))
    /\ main' = [main EXCEPT ![q] = "done"]
    /\ Leave(Replier(q))
    /\ UNCHANGED <<keys, interest, open, serverVars, kind, local, remote, stage, reply>>

------------------------------------------------------------------------------
(* forward() *)

\* Mutant: forward is launched outside the server's scope.
CancelledInScope(q) == remote[q] = "cancelled"

\* remote.cancel(), the timeout or shutdown()
Cancelled(q) == remote[q] = "cancelled" \/ (remote[q] = "running" /\ ~running)

\* The coroutine runs between two suspensions.
Forwarding(q) ==
    /\ remote[q] \in {"running", "cancelled"}
    /\ \/ reg[Forwarder(q)] = "idle"
       \/ Woken(Forwarder(q), "fired") /\ ~Cancelled(q)

\* use { } closes the channel.
EndForward(q, how) ==
    /\ remote' = [remote EXCEPT ![q] = how]
    /\ stage' = [stage EXCEPT ![q] = 0]
    /\ Leave(Forwarder(q))
    /\ CloseChannel(q)

\* An operation of forward is done; without TCP only after a wait.
ForwardAdvances(q) ==
    /\ Forwarding(q)
    /\ Tcp \/ Woken(Forwarder(q), "fired")
    /\ IF stage[q] + 1 = Operations
       THEN EndForward(q, IF Cancelled(q) THEN "failed" ELSE "ok")
       ELSE /\ Leave(Forwarder(q))
            /\ stage' = [stage EXCEPT ![q] = @ + 1]
            /\ UNCHANGED <<keys, interest, open, remote>>
    /\ UNCHANGED <<serverVars, kind, main, local, reply>>

\* monitor.wait
ForwardWaits(q) ==
    /\ Forwarding(q)
    /\ Send(Forwarder(q))
    /\ UNCHANGED <<open, serverVars, queryVars>>

\* An operation, or the registration, throws.
ForwardFails(q) ==
    /\ Forwarding(q) \/ Woken(Forwarder(q), "failed")
    /\ remote[q] \in {"running", "cancelled"}
    /\ EndForward(q, "failed")
    /\ UNCHANGED <<serverVars, kind, main, local, reply>>

\* Mutant: forward is not given a timeout.
ForwardTimeoutMissing(q) == FALSE /\ UNCHANGED vars

\* withTimeout(TIMEOUT), which a packet that cannot be parsed does not have
ForwardTimeout(q) ==
    /\ remote[q] = "running" /\ kind[q] # "garbage"
    /\ remote' = [remote EXCEPT ![q] = "cancelled"]
    /\ UNCHANGED <<monitorVars, serverVars, kind, main, local, stage, reply>>

\* The coroutine learns that it is cancelled where it is suspended, or before
\* it has begun.
ForwardCancelled(q) ==
    /\ Cancelled(q)
    /\ \/ Cancellable(Forwarder(q))
       \/ reg[Forwarder(q)] = "idle" /\ stage[q] = 0
    /\ EndForward(q, "failed")
    /\ UNCHANGED <<serverVars, kind, main, local, reply>>

------------------------------------------------------------------------------

Writes(w) == WriteByte(w) /\ UNCHANGED <<serverVars, queryVars>>

\* Which channel fires is up to the network; the server's own listener is
\* handlePacket.
Fires(c) ==
    /\ interest[c] # Starter
    /\ Fire(c)
    /\ UNCHANGED <<serverVars, queryVars>>

Monitor ==
    /\ RegisterNext \/ ThreadExits \/ CloseSelector
    /\ UNCHANGED <<serverVars, queryVars>>

Resolve(q) ==
    \/ LocalReturns(q) \/ AwaitReturns(q) \/ ScopeReturns(q) \/ ResolveCancelled(q)
    \/ SendReply(q) \/ WaitToReply(q) \/ ReplyFails(q)

Forward(q) ==
    ForwardAdvances(q) \/ ForwardWaits(q) \/ ForwardFails(q) \/ ForwardCancelled(q)

Next ==
    \/ StartServer \/ ServerStarted \/ StartCancelled \/ Shutdown
    \/ \E q \in Queries, k \in Kinds : HandlePacket(q, k)
    \/ \E q \in Queries : Resolve(q) \/ Forward(q) \/ ForwardTimeout(q)
    \/ \E w \in Waiters : Writes(w)
    \/ \E c \in Channels : Fires(c)
    \/ Monitor

Spec == Init /\ [][Next]_vars

\* The dispatcher runs every coroutine that can go on, the thread runs and
\* timers go off.  Packets, the network and shutdown() owe nothing.
Fairness ==
    /\ \A q \in Queries :
          /\ WF_vars(Resolve(q)) /\ WF_vars(Forward(q)) /\ WF_vars(ForwardTimeout(q))
    /\ \A w \in Waiters : WF_vars(Writes(w))
    /\ WF_vars(Monitor)

FairSpec == Spec /\ Fairness

------------------------------------------------------------------------------
(* Properties *)

Over == \A q \in Queries : main[q] \in {"free", "done"} /\ remote[q] \in {"none", "ok", "failed"}

\* shutdown() lets the service stop: every coroutine of the server ends, the
\* ones that wait for the monitor included, and the selector is closed.
ShutdownCompletes == ~running ~> thread = "closed" /\ Over

\* A server that was started is released by shutdown(), with all channels of
\* its queries.  (One whose start() was cut short while its registration was in
\* the queue is not.)
ClosedIsReleased ==
    thread = "closed" /\ Over => open \subseteq (IF started = "yes" THEN {} ELSE {Server})

\* A packet that can be parsed gets its reply while the server runs: each
\* source has its timeout, and neither a registration that is refused or served
\* late nor a child that is being cancelled holds resolve up.
QueryIsResolved ==
    \A q \in Queries :
        main[q] # "free" /\ kind[q] # "garbage" ~> main[q] \in {"reply", "done"} \/ ~running

\* SERVFAIL is sent only if the forward has failed and the local resolver, when
\* it was asked, had nothing: a forward that fails early does not cost the
\* answer of the local resolver, nor the other way round.  The exception is a
\* local resolver that throws what resolve does not expect: that costs the answer
\* of the forward, which is cancelled, and over when SERVFAIL is sent, or had
\* even succeeded.
ServfailIsLastResort ==
    \A q \in Queries :
        reply[q] = "servfail" =>
            IF kind[q] = "ask" /\ local[q] = "throws"
            THEN remote[q] # "running" /\ (main[q] # "cooked" => Ended(q))
            ELSE remote[q] = "failed" /\ (kind[q] = "ask" => local[q] = "useless")

\* A server that was started goes on reading packets; the one thing that takes
\* its listener from it is a reply that the socket has refused, whose listener
\* takes its place and leaves nobody there when it has been called.
DeafOnlyAfterReply ==
    started = "yes" /\ running /\ interest[Server] # Starter
        => \E q \in refused : interest[Server] \in {Replier(q), Nobody}

\* The monitor's thread does not fail (poll()!!), and each packet gets its reply.
QueriesServed == []PollFindsRegistration /\ QueryIsResolved

\* The server's channels: open as long as they are needed, and read.
ServerInv == TypeOK /\ ClosedIsReleased /\ DeafOnlyAfterReply

==============================================================================
