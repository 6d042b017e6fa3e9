----------------------------- MODULE ServiceBinder -----------------------------
(***************************************************************************)
(* How the interface follows the service: BaseService.Binder and           *)
(* Data.changeState in the process of the service, ShadowsocksConnection   *)
(* in the process of the interface, and the activity on top of it          *)
(* (MainActivity).                                                         *)
(*                                                                         *)
(* Of the calls of IShadowsocksService, registerCallback,                  *)
(* startListeningForBandwidth and getState return when they are done;      *)
(* stopListeningForBandwidth and unregisterCallback are oneway.  Binder    *)
(* keeps the order of the oneway calls on one object, but a call that      *)
(* waits for its result may overtake them.  All of them run on binder      *)
(* threads; what they launch is posted to the main thread of the service.  *)
(* The callbacks are oneway; each is posted to the client's handler.       *)
(*                                                                         *)
(* The bandwidth figures and the profile's name are left out.              *)
(***************************************************************************)
EXTENDS Naturals, Sequences, FiniteSets, TLC

CONSTANTS
    Clients,        \* connections of the interface
    MaxInstances,   \* bound: instances of the service that may end
    MaxChanges,     \* bound: state changes announced
    MaxTurns        \* bound: how often a client is opened, and how often it
                    \* comes to the foreground or leaves it

ASSUME BinderAssumption ==
    MaxInstances \in Nat /\ MaxChanges \in Nat /\ MaxTurns \in Nat

VARIABLES
    instance,       \* the last instance of the service that was created
    up,             \* it exists
    state,          \* Data.state
    announcing,     \* the state that changeState broadcast and has not assigned
    callbacks,      \* RemoteCallbackList
    bandwidthListeners,
    loopers,        \* coroutines that run loop()
    posted,         \* what is launched on the service's main thread
    oneway,         \* oneway calls on their way to the service
    conn,           \* conn[c]: the client's ShadowsocksConnection
    wire,           \* wire[c]: callbacks on their way to the client
    handler,        \* handler[c]: what is posted to the client's main thread
    shown,          \* shown[c]: the state that the activity shows
    used            \* steps that are bounded

service == <<instance, up, state, announcing, callbacks, bandwidthListeners, loopers, posted>>
vars == <<service, oneway, conn, wire, handler, shown, used>>

None == 0

\* State.  Idle is only the interface's.
States == {"Connecting", "Connected", "Stopping", "Stopped"}

\* What onStartCommand, stopRunner and their coroutines make of the state
Becomes(s) ==
    CASE s = "Stopped"    -> {"Connecting", "Stopping"}
      [] s = "Connecting" -> {"Connected", "Stopping"}
      [] s = "Connected"  -> {"Stopping"}
      [] s = "Stopping"   -> {"Stopped"}

\* A connection.  service and binder are the instance they belong to; bound is
\* the instance the framework last reported to be connected; linked are the
\* instances whose death is to be reported; at is how far onServiceConnected
\* is.  The rest is history: gone, the process has died; late, a death was
\* reported when the next instance was connected already; overtaken, the calls
\* that were made while a oneway call of the same client was on its way;
\* blind, what the client may have missed when it registered.
Disconnected ==
    [active |-> FALSE, service |-> None, binder |-> None, bound |-> None, linked |-> {},
     registered |-> FALSE, bandwidth |-> FALSE, at |-> "idle",
     gone |-> FALSE, late |-> FALSE, overtaken |-> {}, blind |-> {}]

Connections ==
    [active : BOOLEAN, service : Nat, binder : Nat, bound : Nat, linked : SUBSET Nat,
     registered : BOOLEAN, bandwidth : BOOLEAN, at : {"idle", "register", "registered", "read"},
     gone : BOOLEAN, late : BOOLEAN, overtaken : SUBSET {"register", "listen"},
     blind : SUBSET {"announced", "earlier"}]

\* Type invariant.  A queue holds what its sender put there, and the service
\* never reports Idle (BaseService.kt:57).
TypeOK ==
    /\ instance \in 0 .. MaxInstances + 1 /\ up \in BOOLEAN
    /\ state \in States /\ announcing \in States \cup {"none"}
    /\ callbacks \subseteq Clients /\ bandwidthListeners \subseteq Clients
    /\ loopers \in {0, 1}
    /\ posted \in Seq({"start", "stop"} \X Clients)
    /\ oneway \in Seq({"unregister", "stop"} \X Clients)
    /\ conn \in [Clients -> Connections]
    /\ \A c \in Clients :
        /\ conn[c].service <= instance /\ conn[c].bound <= instance
        /\ conn[c].at # "idle" => conn[c].active /\ conn[c].bound # None
    /\ wire \in [Clients -> Seq(States)]
    /\ handler \in [Clients -> Seq(States \cup {"binderDied"})]
    /\ shown \in [Clients -> States \cup {"Idle"}]

Init ==
    /\ instance = 0 /\ up = FALSE
    /\ state = "Stopped" /\ announcing = "none"
    /\ callbacks = {} /\ bandwidthListeners = {} /\ loopers = 0 /\ posted = <<>>
    /\ oneway = <<>>
    /\ conn = [c \in Clients |-> [Disconnected EXCEPT !.active = TRUE,       \* onCreate
                                                      !.bandwidth = TRUE]]   \* onStart
    /\ wire = [c \in Clients |-> <<>>]
    /\ handler = [c \in Clients |-> <<>>]
    /\ shown = [c \in Clients |-> "Idle"]
    /\ used = [changes |-> 0, turns |-> 0]

Alive(i) == up /\ i = instance
Pending(c) == \E i \in 1 .. Len(oneway) : oneway[i][2] = c

------------------------------------------------------------------------------
(* The service *)

\* A client binds (BIND_AUTO_CREATE), or the service is started.
Create ==
    /\ ~up
    /\ up' = TRUE /\ instance' = instance + 1
    /\ UNCHANGED <<state, announcing, callbacks, bandwidthListeners, loopers, posted,
                   oneway, conn, wire, handler, shown, used>>

\* The instance is over: what it held is lost, and the calls on their way to
\* it have no effect.
Ends ==
    /\ up /\ instance <= MaxInstances
    /\ up' = FALSE
    /\ state' = "Stopped" /\ announcing' = "none"
    /\ callbacks' = {} /\ bandwidthListeners' = {} /\ loopers' = 0
    /\ posted' = <<>> /\ oneway' = <<>>
    /\ UNCHANGED <<instance, conn, wire, handler, shown, used>>

\* The process of the service dies.
Crash == Ends

\* onDestroy: close.  Nobody is bound and stopSelf was called.
Close ==
    /\ state = "Stopped" /\ announcing = "none"
    /\ \A c \in Clients : ~conn[c].active
    /\ Ends

\* Mutant: only those that want bandwidth figures hear of it.
AnnounceToListeners(s) ==
    /\ up /\ announcing = "none" /\ s \in Becomes(state)
    /\ used.changes < MaxChanges
    /\ used' = [used EXCEPT !.changes = @ + 1]
    /\ announcing' = s
    /\ wire' = [c \in Clients |-> IF c \in callbacks \cap bandwidthListeners
                                  THEN Append(wire[c], s) ELSE wire[c]]
    /\ UNCHANGED <<instance, up, state, callbacks, bandwidthListeners, loopers, posted,
                   oneway, conn, handler, shown>>

\* changeState up to the assignment: stateChanged broadcasts to those that are
\* registered when beginBroadcast is called.
Announce(s) ==
    /\ up /\ announcing = "none" /\ s \in Becomes(state)
    /\ used.changes < MaxChanges
    /\ used' = [used EXCEPT !.changes = @ + 1]
    /\ announcing' = s
    /\ wire' = [c \in Clients |-> IF c \in callbacks THEN Append(wire[c], s) ELSE wire[c]]
    /\ conn' = [c \in Clients |-> IF c \in callbacks THEN [conn[c] EXCEPT !.blind = {}] ELSE conn[c]]
    /\ UNCHANGED <<instance, up, state, callbacks, bandwidthListeners, loopers, posted,
                   oneway, handler, shown>>

\* changeState: the assignment
Assign ==
    /\ announcing # "none"
    /\ state' = announcing /\ announcing' = "none"
    /\ UNCHANGED <<instance, up, callbacks, bandwidthListeners, loopers, posted,
                   oneway, conn, wire, handler, shown, used>>

\* The coroutine of startListeningForBandwidth
startListeningForBandwidth(c) ==
    /\ bandwidthListeners' = bandwidthListeners \cup {c}
    /\ loopers' = IF bandwidthListeners = {} THEN loopers + 1 ELSE loopers

\* Mutant: the loop of the last listener is not ended.
StopListeningOnly(c) ==
    /\ bandwidthListeners' = bandwidthListeners \ {c}
    /\ UNCHANGED loopers

\* The coroutine of stopListeningForBandwidth
stopListeningForBandwidth(c) ==
    /\ bandwidthListeners' = bandwidthListeners \ {c}
    /\ loopers' = IF bandwidthListeners = {c} THEN loopers - 1 ELSE loopers

\* The main thread runs what was launched; not in the middle of changeState.
RunPosted ==
    /\ posted # <<>> /\ announcing = "none"
    /\ posted' = Tail(posted)
    /\ LET c == Head(posted)[2] IN
        IF Head(posted)[1] = "start" THEN startListeningForBandwidth(c)
                                     ELSE stopListeningForBandwidth(c)
    /\ UNCHANGED <<instance, up, state, announcing, callbacks, oneway, conn, wire, handler,
                   shown, used>>

\* unregisterCallback
unregisterCallback(c) ==
    /\ posted' = Append(posted, <<"stop", c>>)
    /\ callbacks' = callbacks \ {c}

\* A binder thread takes the next oneway call.
RunOneway ==
    /\ oneway # <<>> /\ up
    /\ oneway' = Tail(oneway)
    /\ LET c == Head(oneway)[2] IN
        IF Head(oneway)[1] = "unregister"
        THEN unregisterCallback(c)
        ELSE posted' = Append(posted, <<"stop", c>>) /\ UNCHANGED callbacks
    /\ UNCHANGED <<instance, up, state, announcing, bandwidthListeners, loopers, conn, wire,
                   handler, shown, used>>

\* Mutant: the listener of a process that has died stays.
CallbackDiedOnly(c) ==
    /\ conn[c].gone /\ c \in callbacks
    /\ callbacks' = callbacks \ {c}
    /\ UNCHANGED <<instance, up, state, announcing, bandwidthListeners, loopers, posted, oneway,
                   conn, wire, handler, shown, used>>

\* onCallbackDied: the process of a client has died.
onCallbackDied(c) ==
    /\ conn[c].gone /\ c \in callbacks
    /\ callbacks' = callbacks \ {c}
    /\ posted' = Append(posted, <<"stop", c>>)
    /\ UNCHANGED <<instance, up, state, announcing, bandwidthListeners, loopers, oneway, conn,
                   wire, handler, shown, used>>

------------------------------------------------------------------------------
(* ShadowsocksConnection *)

\* A step of the client's main thread outside of onServiceConnected
Free(c) == ~conn[c].gone /\ conn[c].at = "idle"

\* disconnect, as it leaves the connection d
Left(d) ==
    [d EXCEPT !.active = FALSE, !.service = None, !.binder = None, !.bound = None,
              !.linked = @ \ {d.binder}, !.registered = FALSE,
              !.late = @ /\ ~(Alive(d.service) /\ d.registered)]

\* The oneway calls of disconnect
Goodbye(c) ==
    IF ~Alive(conn[c].service) THEN <<>>
    ELSE (IF conn[c].registered THEN <<<<"unregister", c>>>> ELSE <<>>) \o <<<<"stop", c>>>>

\* connect
connect(c) ==
    /\ Free(c) /\ ~conn[c].active /\ used.turns < MaxTurns
    /\ used' = [used EXCEPT !.turns = @ + 1]
    /\ conn' = [conn EXCEPT ![c].active = TRUE]
    /\ UNCHANGED <<service, oneway, wire, handler, shown>>

\* disconnect, from onDestroy, which also empties the handler.  The activity
\* that follows starts with Idle.
disconnect(c) ==
    /\ Free(c) /\ conn[c].active
    /\ shown' = [shown EXCEPT ![c] = "Idle"]
    /\ conn' = [conn EXCEPT ![c] = Left(@)]
    /\ oneway' = oneway \o Goodbye(c)
    /\ handler' = [handler EXCEPT ![c] = <<>>]
    /\ UNCHANGED <<service, wire, used>>

\* onStart and onStop set bandwidthTimeout.
bandwidthTimeout(c) ==
    /\ Free(c) /\ conn[c].active /\ used.turns < MaxTurns
    /\ used' = [used EXCEPT !.turns = @ + 1]
    /\ LET on == ~conn[c].bandwidth
           reached == Alive(conn[c].service) IN
        /\ conn' = [conn EXCEPT ![c].bandwidth = on,
                                ![c].overtaken = @ \cup {x \in {"listen"} : on /\ reached /\ Pending(c)}]
        /\ posted' = IF on /\ reached THEN Append(posted, <<"start", c>>) ELSE posted
        /\ oneway' = IF ~on /\ reached THEN Append(oneway, <<"stop", c>>) ELSE oneway
    /\ UNCHANGED <<instance, up, state, announcing, callbacks, bandwidthListeners, loopers,
                   wire, handler, shown>>

\* onServiceConnected: the binder is kept and its death is watched.  The
\* framework queues it by itself, ahead of what the handler holds or behind it.
onServiceConnected(c) ==
    /\ Free(c) /\ conn[c].active /\ conn[c].bound = None /\ up
    /\ conn' = [conn EXCEPT ![c].bound = instance, ![c].binder = instance,
                            ![c].service = instance, ![c].linked = @ \cup {instance},
                            ![c].at = "register"]
    /\ UNCHANGED <<service, oneway, wire, handler, shown, used>>

\* registerCallback; a RemoteException skips what follows
Register(c) ==
    /\ conn[c].at = "register" /\ ~conn[c].gone
    /\ IF Alive(conn[c].bound)
       THEN /\ callbacks' = callbacks \cup {c}
            /\ conn' = [conn EXCEPT ![c].at = "registered",
                                    ![c].overtaken = {x \in {"register"} : Pending(c)},
                                    ![c].blind = {x \in {"announced", "earlier"} :
                                                    IF x = "announced" THEN announcing # "none"
                                                                       ELSE wire[c] # <<>> \/ handler[c] # <<>>}]
       ELSE conn' = [conn EXCEPT ![c].at = "read"] /\ UNCHANGED callbacks
    /\ UNCHANGED <<instance, up, state, announcing, bandwidthListeners, loopers, posted, oneway,
                   wire, handler, shown, used>>

\* callbackRegistered is set and startListeningForBandwidth called.
Registered(c) ==
    /\ conn[c].at = "registered" /\ ~conn[c].gone
    /\ conn' = [conn EXCEPT ![c].registered = TRUE, ![c].at = "read"]
    /\ posted' = IF conn[c].bandwidth /\ Alive(conn[c].bound)
                 THEN Append(posted, <<"start", c>>) ELSE posted
    /\ UNCHANGED <<instance, up, state, announcing, callbacks, bandwidthListeners, loopers,
                   oneway, wire, handler, shown, used>>

\* The activity's onServiceConnected shows getState.
ReadState(c) ==
    /\ conn[c].at = "read" /\ ~conn[c].gone
    /\ shown' = [shown EXCEPT ![c] = IF Alive(conn[c].bound) THEN state ELSE "Idle"]
    /\ conn' = [conn EXCEPT ![c].at = "idle",
                            ![c].blind = IF announcing = "none" THEN @ \ {"announced"} ELSE @]
    /\ UNCHANGED <<service, oneway, wire, handler, used>>

\* onServiceDisconnected, which the framework queues in the same way
onServiceDisconnected(c) ==
    /\ Free(c) /\ conn[c].bound # None /\ ~Alive(conn[c].bound)
    /\ conn' = [conn EXCEPT ![c].bound = None, ![c].binder = None, ![c].service = None,
                            ![c].registered = FALSE]
    /\ shown' = [shown EXCEPT ![c] = "Idle"]
    /\ UNCHANGED <<service, oneway, wire, handler, used>>

\* Mutant: the activity does not hear of it.
BinderDiedSilently(c, i) ==
    /\ i \in conn[c].linked /\ ~Alive(i) /\ ~conn[c].gone
    /\ conn' = [conn EXCEPT ![c].linked = @ \ {i}, ![c].service = None, ![c].registered = FALSE,
                            ![c].late = @ \/ conn[c].bound \notin {None, i}]
    /\ UNCHANGED <<service, oneway, wire, handler, shown, used>>

\* binderDied, on a binder thread of the client
binderDied(c, i) ==
    /\ i \in conn[c].linked /\ ~Alive(i) /\ ~conn[c].gone
    /\ conn' = [conn EXCEPT ![c].linked = @ \ {i}, ![c].service = None, ![c].registered = FALSE,
                            ![c].late = @ \/ conn[c].bound \notin {None, i}]
    /\ handler' = [handler EXCEPT ![c] = IF conn[c].active THEN Append(@, "binderDied") ELSE @]
    /\ UNCHANGED <<service, oneway, wire, shown, used>>

\* A callback arrives on a binder thread of the client: stateChanged posts it.
stateChanged(c) ==
    /\ wire[c] # <<>>
    /\ wire' = [wire EXCEPT ![c] = Tail(@)]
    /\ handler' = [handler EXCEPT ![c] = IF conn[c].active THEN Append(@, Head(wire[c])) ELSE @]
    /\ UNCHANGED <<service, oneway, conn, shown, used>>

\* The handler shows a state.
ShowState(c) ==
    /\ Free(c) /\ handler[c] # <<>> /\ Head(handler[c]) # "binderDied"
    /\ shown' = [shown EXCEPT ![c] = Head(handler[c])]
    /\ handler' = [handler EXCEPT ![c] = Tail(@)]
    /\ UNCHANGED <<service, oneway, conn, wire, used>>

\* The handler runs the activity's onBinderDied: disconnect and connect.
onBinderDied(c) ==
    /\ Free(c) /\ handler[c] # <<>> /\ Head(handler[c]) = "binderDied"
    /\ handler' = [handler EXCEPT ![c] = Tail(@)]
    /\ conn' = [conn EXCEPT ![c] = [Left(@) EXCEPT !.active = TRUE]]
    /\ oneway' = oneway \o Goodbye(c)
    /\ UNCHANGED <<service, wire, shown, used>>

\* The client's process is killed, anywhere.
ClientDies(c) ==
    /\ conn[c].active /\ ~conn[c].gone
    /\ conn' = [conn EXCEPT ![c] = [Disconnected EXCEPT !.gone = TRUE,
                                                   !.overtaken = conn[c].overtaken]]
    /\ wire' = [wire EXCEPT ![c] = <<>>]
    /\ handler' = [handler EXCEPT ![c] = <<>>]
    /\ shown' = [shown EXCEPT ![c] = "Idle"]
    /\ UNCHANGED <<service, oneway, used>>

MainThread(c) ==
    \/ onServiceConnected(c) \/ Register(c) \/ Registered(c) \/ ReadState(c)
    \/ onServiceDisconnected(c) \/ ShowState(c) \/ onBinderDied(c)

Deaths(c) == \E i \in 1 .. MaxInstances : binderDied(c, i)

Next ==
    \/ Create \/ Close \/ Crash \/ Assign \/ RunPosted \/ RunOneway
    \/ \E s \in States : Announce(s)
    \/ \E c \in Clients :
        \/ onCallbackDied(c) \/ connect(c) \/ disconnect(c) \/ bandwidthTimeout(c)
        \/ MainThread(c) \/ Deaths(c) \/ stateChanged(c) \/ ClientDies(c)

Spec == Init /\ [][Next]_vars

\* The threads run, the service is created for whoever binds to it, the
\* framework reports.
FairSpec ==
    /\ Spec
    /\ WF_vars(Create) /\ WF_vars(Assign) /\ WF_vars(RunPosted) /\ WF_vars(RunOneway)
    /\ \A c \in Clients :
        /\ WF_vars(MainThread(c)) /\ WF_vars(Deaths(c)) /\ WF_vars(stateChanged(c))
        /\ WF_vars(onCallbackDied(c))

------------------------------------------------------------------------------
(* Properties *)

\* Nothing is under way that concerns the client c.
AtRest(c) ==
    /\ up /\ announcing = "none"
    /\ ~Pending(c) /\ posted = <<>> /\ wire[c] = <<>> /\ handler[c] = <<>>
    /\ ~(conn[c].gone /\ c \in callbacks)
    /\ conn[c].at = "idle" /\ conn[c].linked \subseteq {instance}
    /\ conn[c].active => conn[c].bound = instance

\* One coroutine runs loop() exactly as long as somebody listens: the
\* check(looper == null) of startListeningForBandwidth and the looper!! of
\* stopListeningForBandwidth never fail, whatever order clients leave in.
LooperWhileListening == loopers = IF bandwidthListeners = {} THEN 0 ELSE 1

\* check(!callbackRegistered) in onServiceConnected never fails: whatever ended
\* the last connection took the registration back on the client's side.
RegistersOnce == \A c \in Clients : conn[c].at = "register" => ~conn[c].registered

\* When a connected client is at rest the service knows its callback, after
\* any crash of the service and any reconnection, except when its
\* registerCallback overtook its own oneway unregisterCallback.
RegistrationKept ==
    \A c \in Clients :
        AtRest(c) /\ conn[c].active /\ "register" \notin conn[c].overtaken => c \in callbacks

\* When a connected client is at rest it gets bandwidth figures if and only if
\* it asked for them; the exceptions are a call that overtook a oneway call and
\* a death that was reported after the next instance was connected, which
\* makes the client forget that it listens there.
ListensAsAsked ==
    \A c \in Clients :
        AtRest(c) /\ conn[c].active /\ conn[c].overtaken = {} /\ ~conn[c].late
            => (c \in bandwidthListeners <=> conn[c].bandwidth)

\* A client that has left, or whose process is gone, leaves neither a callback
\* nor a listener behind, which would keep loop() running for nobody.  The
\* exceptions: the death of the service that was reported late, and the death
\* of a client that listened although a call of its own had overtaken its
\* unregisterCallback, so that no callback was left to report it.
NothingLeftBehind ==
    \A c \in Clients :
        AtRest(c) /\ ~conn[c].active /\ ~conn[c].late
            /\ ~(conn[c].gone /\ "register" \in conn[c].overtaken)
            => c \notin callbacks \cup bandwidthListeners

\* At rest a connected client shows the state the service is in.  changeState
\* broadcasts before it assigns: the exception is a client that registered
\* after the broadcast and read the state before the assignment, or that
\* registered while a callback of its earlier registration was on its way.
ShowsTheState ==
    \A c \in Clients :
        AtRest(c) /\ conn[c].active /\ "register" \notin conn[c].overtaken /\ conn[c].blind = {}
            => shown[c] = state

\* A client that stays connected gets back to a running instance, whatever
\* died: binderDied and onServiceDisconnected, in any order, never leave it
\* without one.
Reconnects ==
    \A c \in Clients :
        conn[c].active ~> (~conn[c].active \/ (Alive(conn[c].service) /\ conn[c].registered))

\* The checks of the code hold: the looper's and the registration's.
ChecksHold == TypeOK /\ LooperWhileListening /\ RegistersOnce

\* When nothing is under way the service has the registrations that the client
\* wants, and none of a client that has gone.
RegistrationsAgree == RegistrationKept /\ ListensAsAsked /\ NothingLeftBehind

==============================================================================
