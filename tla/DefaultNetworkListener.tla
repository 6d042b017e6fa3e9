------------------------ MODULE DefaultNetworkListener ------------------------
(***************************************************************************)
(* net/DefaultNetworkListener.kt: an actor that keeps the default network  *)
(* for its listeners.  Start, Get and Stop come from the services; Put,    *)
(* Update and Lost from the callback that ConnectivityManager runs on its  *)
(* own thread, one at a time, which blocks until the actor has taken the   *)
(* message.  The actor handles one message at a time.                      *)
(***************************************************************************)
EXTENDS Naturals, Sequences

CONSTANTS
    Networks,       \* the networks of the device
    Keys,           \* who listens
    Requests,       \* calls of get()
    None,           \* null
    MaxEvents       \* bound: callbacks the system has yet to make

ASSUME ListenerAssumption ==
    /\ None \notin Networks
    /\ MaxEvents \in Nat

VARIABLES
    listeners,      \* the keys of the actor's map
    network,        \* the actor's network
    pendingRequests,\* requests that wait for a network
    answer,         \* answer[r]: what get() returned, or None
    heard,          \* heard[k]: what listener k was told last
    registered,     \* Callback is registered with ConnectivityManager
    fallback,       \* registering failed
    default,        \* the system's default network
    events,         \* callbacks the system has yet to make
    message         \* what the callback's thread is sending to the actor

actorVars == <<listeners, network, pendingRequests, answer, heard>>
systemVars == <<default, events, message>>
listenerVars == <<actorVars, registered, fallback, systemVars>>

Maybe == Networks \cup {None}
Messages == [type : {"Put", "Update", "Lost"}, network : Networks]
Msg(t, n) == [type |-> t, network |-> n]
NoMessage == [type |-> "none"]

\* Type invariant.  A request of get() is in the list only until it is answered.
ListenerTypeOK ==
    /\ listeners \subseteq Keys
    /\ network \in Maybe
    /\ pendingRequests \subseteq {r \in Requests : answer[r] = None}
    /\ answer \in [Requests -> Maybe]
    /\ heard \in [Keys -> Maybe]
    /\ registered \in BOOLEAN /\ fallback \in BOOLEAN
    /\ default \in Maybe
    /\ events \in Seq(Messages)
    /\ message \in Messages \cup {NoMessage}

ListenerInit ==
    /\ listeners = {} /\ network = None /\ pendingRequests = {}
    /\ answer = [r \in Requests |-> None]
    /\ heard = [k \in Keys |-> None]
    /\ registered = FALSE /\ fallback = FALSE
    /\ default \in Maybe
    /\ events = <<>> /\ message = NoMessage

------------------------------------------------------------------------------
(* The messages of the services *)

\* register(): the system will report the network there is.  On some versions
\* of Android it throws a SecurityException instead.
Register ==
    \/ /\ registered' = TRUE
       /\ fallback' = FALSE
       /\ events' = IF default = None THEN <<>> ELSE <<Msg("Put", default)>>
    \/ /\ fallback' = TRUE
       /\ UNCHANGED <<registered, events>>

\* NetworkMessage.Start: the first listener registers the callback.
Start(k) ==
    /\ IF listeners = {} THEN Register ELSE UNCHANGED <<registered, fallback, events>>
    /\ listeners' = listeners \cup {k}
    /\ heard' = IF network = None THEN heard ELSE [heard EXCEPT ![k] = network]
    /\ UNCHANGED <<network, pendingRequests, answer, default, message>>

\* NetworkMessage.Get, from a service that listens; get() does not ask the
\* actor in the fallback.
Get(r) ==
    /\ listeners # {} /\ ~fallback
    /\ answer[r] = None /\ r \notin pendingRequests
    /\ IF network = None
       THEN pendingRequests' = pendingRequests \cup {r} /\ UNCHANGED answer
       ELSE answer' = [answer EXCEPT ![r] = network] /\ UNCHANGED pendingRequests
    /\ UNCHANGED <<listeners, network, heard, registered, fallback, systemVars>>

\* NetworkMessage.Stop: the last listener unregisters the callback.  The system
\* makes no further calls, but one that is under way goes on.  In the fallback
\* unregistering throws and the process dies and starts over.
Stop(k) ==
    /\ k \in listeners
    /\ listeners' = listeners \ {k}
    /\ IF listeners' = {}
       THEN network' = None /\ registered' = FALSE /\ events' = <<>>
       ELSE UNCHANGED <<network, registered, events>>
    /\ IF listeners' = {} /\ fallback
       THEN fallback' = FALSE /\ message' = NoMessage /\ pendingRequests' = {}
       ELSE UNCHANGED <<fallback, message, pendingRequests>>
    /\ UNCHANGED <<answer, heard, default>>

------------------------------------------------------------------------------
(* The messages of the callback *)

\* Every listener is told.
Tell(n) == heard' = [k \in Keys |-> IF k \in listeners THEN n ELSE heard[k]]

\* Mutant: the requests that wait are not answered.
PutForgets ==
    /\ message.type = "Put"
    /\ network' = message.network
    /\ Tell(message.network)
    /\ UNCHANGED <<pendingRequests, answer>>

\* NetworkMessage.Put
Put ==
    /\ message.type = "Put"
    /\ network' = message.network
    /\ answer' = [r \in Requests |->
                     IF r \in pendingRequests THEN message.network ELSE answer[r]]
    /\ pendingRequests' = {}
    /\ Tell(message.network)

\* NetworkMessage.Update
Update ==
    /\ message.type = "Update"
    /\ IF network = message.network THEN Tell(network) ELSE UNCHANGED heard
    /\ UNCHANGED <<network, pendingRequests, answer>>

\* Mutant: any network that is lost is taken for the default network.
LostAny ==
    /\ message.type = "Lost"
    /\ network' = None /\ Tell(None)
    /\ UNCHANGED <<pendingRequests, answer>>

\* NetworkMessage.Lost: of an earlier network it is ignored.
Lost ==
    /\ message.type = "Lost"
    /\ IF network = message.network
       THEN network' = None /\ Tell(None)
       ELSE UNCHANGED <<network, heard>>
    /\ UNCHANGED <<pendingRequests, answer>>

\* The actor takes the message and the callback returns.
Receive ==
    /\ Put \/ Update \/ Lost
    /\ message' = NoMessage
    /\ UNCHANGED <<listeners, registered, fallback, default, events>>

\* The system makes the next call.
Call ==
    /\ message = NoMessage
    /\ events # <<>>
    /\ message' = Head(events)
    /\ events' = Tail(events)
    /\ UNCHANGED <<actorVars, registered, fallback, default>>

\* The default network changes, is lost or appears.  A network that is replaced
\* may be reported lost before or after its successor, or not at all.
Reports(old, new) ==
    LET lost == IF old = None THEN <<>> ELSE <<Msg("Lost", old)>>
        put  == IF new = None THEN <<>> ELSE <<Msg("Put", new)>>
    IN  IF new = None THEN {lost} ELSE {put, lost \o put, put \o lost}

NetworkChanges(n) ==
    /\ n # default
    /\ default' = n
    /\ IF registered
       THEN \E report \in Reports(default, n) :
               /\ Len(events) + Len(report) <= MaxEvents
               /\ events' = events \o report
       ELSE UNCHANGED events
    /\ UNCHANGED <<actorVars, registered, fallback, message>>

\* The capabilities of the default network change.
CapabilitiesChange ==
    /\ registered /\ default # None
    /\ Len(events) < MaxEvents
    /\ events' = Append(events, Msg("Update", default))
    /\ UNCHANGED <<actorVars, registered, fallback, default, message>>

ListenerNext ==
    \/ \E k \in Keys : Start(k) \/ Stop(k)
    \/ \E r \in Requests : Get(r)
    \/ Receive \/ Call
    \/ \E n \in Maybe : NetworkChanges(n)
    \/ CapabilitiesChange

ListenerSpec == ListenerInit /\ [][ListenerNext]_listenerVars

\* The system makes the calls it owes and the actor takes what is sent.
ListenerFairSpec == ListenerSpec /\ WF_listenerVars(Call) /\ WF_listenerVars(Receive)

------------------------------------------------------------------------------
(* Properties *)

Quiet == events = <<>> /\ message = NoMessage

\* Once the system has nothing more to report, the actor and each of its
\* listeners know the default network, in whichever order a change was
\* reported and whatever an earlier registration still had under way.
TracksDefault ==
    registered /\ Quiet /\ default # None =>
        network = default /\ \A k \in listeners : heard[k] = default

\* The callback is registered exactly while somebody listens: registering it
\* twice and unregistering it without need are errors.
RegisteredWhileListening == registered <=> listeners # {} /\ ~fallback

\* A call of get() that waits is answered when there is a network, unless the
\* network goes or the last listener stops before.
GetIsAnswered ==
    \A r \in Requests :
        (r \in pendingRequests /\ registered /\ default # None)
            ~> (r \notin pendingRequests \/ ~registered \/ default = None)

\* get() only waits while the actor knows of no network.
NobodyWaitsForAKnownNetwork == pendingRequests # {} => network = None

\* What the actor keeps: the default network, for those who listen, and requests
\* only as long as it knows of none.
ActorInv ==
    /\ ListenerTypeOK /\ TracksDefault
    /\ RegisteredWhileListening /\ NobodyWaitsForAKnownNetwork

==============================================================================
