-------------------------- MODULE ServiceBinderProofs --------------------------
(***************************************************************************)
(* What TLAPS proves about ServiceBinder, for any number of clients and of *)
(* instances of the service: the checks of the code hold, at rest the      *)
(* registrations are those that the client wants, and at rest the client   *)
(* shows the state of the service.  Each part builds on the one before.    *)
(***************************************************************************)
EXTENDS ServiceBinder, SequenceTheorems, TLAPS

(***************************************************************************)
(* The inductive invariant.  InstanceInv: an instance is only made when    *)
(* there is none, and never reused.  ConnInv: what the client believes of  *)
(* its connection is true of the instance it is bound to, unless the death *)
(* of an earlier one was reported late.                                    *)
(***************************************************************************)
InstanceInv ==
    /\ up => instance # None
    /\ ~up => instance <= MaxInstances
    /\ ~up => posted = <<>> /\ oneway = <<>> /\ callbacks = {} /\ bandwidthListeners = {}
    /\ announcing # "none" => up

Sound(r) ==
    /\ r.service <= instance /\ r.bound <= instance
    /\ r.at # "idle" => r.active /\ r.bound # None
    /\ r.bound = None => ~r.registered
    /\ r.at = "register" => ~r.registered
    /\ r.service \in {None, r.bound}
    /\ r.gone => ~r.active /\ r.bound = None /\ r.at = "idle"
    /\ ~r.active => r.bound = None
    /\ r.active /\ Alive(r.bound) /\ ~r.late =>
          r.service = r.bound /\ (r.at \in {"idle", "read"} => r.registered)

ConnInv(c) == Sound(conn[c])

(***************************************************************************)
(* What will come of the calls that are under way.  A oneway call of c     *)
(* ends with a stop that is posted, so that c will listen only if none is  *)
(* on its way and the last thing posted for c is a start, or nothing is    *)
(* posted and c listens already.                                           *)
(***************************************************************************)
Concerns(q, c) == \E i \in 1 .. Len(q) : q[i][2] = c

Holds(q, e) == \E i \in 1 .. Len(q) : q[i] = e

LastFor(q, e) ==
    \E i \in 1 .. Len(q) : q[i] = e /\ \A j \in i + 1 .. Len(q) : q[j][2] # e[2]

Unregisters(c) == Holds(oneway, <<"unregister", c>>)

WillListen(c) ==
    /\ ~Concerns(oneway, c)
    /\ \/ LastFor(posted, <<"start", c>>)
       \/ ~Concerns(posted, c) /\ c \in bandwidthListeners

\* c has come past registerCallback with an instance that is alive.
In(c) == conn[c].active /\ Alive(conn[c].bound) /\ conn[c].at # "register"

\* It has come past startListeningForBandwidth too.
Through(c) == In(c) /\ conn[c].at # "registered"

RegisterInv(c) ==
    /\ In(c) /\ "register" \notin conn[c].overtaken => c \in callbacks /\ ~Unregisters(c)
    /\ conn[c].at = "registered" /\ "register" \notin conn[c].overtaken => ~Concerns(oneway, c)
    /\ ~conn[c].late /\ ~conn[c].gone /\ ~In(c) => c \notin callbacks \/ Unregisters(c)

ListenInv(c) ==
    /\ ~conn[c].late /\ ~conn[c].gone /\ ~Through(c) => ~WillListen(c)
    /\ Through(c) /\ ~conn[c].late /\ conn[c].overtaken = {} => (WillListen(c) <=> conn[c].bandwidth)
    /\ WillListen(c) /\ "register" \notin conn[c].overtaken => c \in callbacks

(***************************************************************************)
(* What the client will show: the last state on the wire, or else the last *)
(* one at its handler, or else what it shows or is about to read.          *)
(***************************************************************************)
Target == IF announcing = "none" THEN state ELSE announcing

NoState(h) == \A i \in 1 .. Len(h) : h[i] = "binderDied"

LastState(h, s) ==
    \E i \in 1 .. Len(h) : h[i] = s /\ \A j \in i + 1 .. Len(h) : h[j] = "binderDied"

WillShow(c) ==
    /\ wire[c] # <<>> => wire[c][Len(wire[c])] = Target
    /\ wire[c] = <<>> => \/ LastState(handler[c], Target)
                         \/ /\ NoState(handler[c])
                            /\ conn[c].at \in {"registered", "read"} => announcing = "none"
                            /\ conn[c].at = "idle" => shown[c] = Target

ShowInv(c) ==
    In(c) /\ "register" \notin conn[c].overtaken =>
        /\ conn[c].blind = {} => WillShow(c)
        /\ conn[c].blind = {"announced"} /\ conn[c].at # "idle" => wire[c] = <<>> /\ NoState(handler[c])

------------------------------------------------------------------------------
(* The checks of the code *)

\* The connection of a client is a record, and its queues are sequences.
LEMMA ClientTypes ==
    ASSUME TypeOK, NEW c \in Clients
    PROVE  /\ conn[c] \in Connections /\ conn[c].bound \in Nat /\ conn[c].service \in Nat
           /\ wire[c] \in Seq(States) /\ Len(wire[c]) \in Nat
           /\ handler[c] \in Seq(States \cup {"binderDied"}) /\ Len(handler[c]) \in Nat
  BY LenProperties DEF TypeOK, Connections

\* What disconnect leaves is a connection to nobody.
LEMMA LeftType ==
    ASSUME NEW d \in Connections
    PROVE  /\ Left(d) \in Connections /\ [Left(d) EXCEPT !.active = TRUE] \in Connections
           /\ \A e \in {Left(d), [Left(d) EXCEPT !.active = TRUE]} :
                 /\ e.service = None /\ e.bound = None /\ e.at = d.at /\ e.registered = FALSE
                 /\ e.bandwidth = d.bandwidth /\ e.gone = d.gone
                 /\ e.overtaken = d.overtaken /\ e.blind = d.blind
                 /\ e.late <=> d.late /\ ~(Alive(d.service) /\ d.registered)
           /\ Left(d).active = FALSE /\ [Left(d) EXCEPT !.active = TRUE].active = TRUE
  BY ZenonT(60) DEF Left, Connections, None

\* A connection of a client that was never connected.
LEMMA DisconnectedType ==
    ASSUME NEW b \in BOOLEAN, NEW g \in BOOLEAN, NEW o \in SUBSET {"register", "listen"}
    PROVE  /\ [Disconnected EXCEPT !.active = TRUE, !.bandwidth = TRUE] \in Connections
           /\ [Disconnected EXCEPT !.gone = TRUE, !.overtaken = o] \in Connections
  BY DEF Disconnected, Connections, None
Inv0 == TypeOK /\ LooperWhileListening /\ InstanceInv /\ \A c \in Clients : ConnInv(c)

\* A step that only changes the connection of c, and nothing of the service.
LEMMA ConnStep ==
    ASSUME Inv0, NEW c \in Clients, NEW r \in Connections, conn' = [conn EXCEPT ![c] = r],
           UNCHANGED <<instance, up>>, Sound(r)
    PROVE  /\ conn' \in [Clients -> Connections]
           /\ \A d \in Clients :
                 /\ conn'[d].service <= instance' /\ conn'[d].bound <= instance'
                 /\ conn'[d].at # "idle" => conn'[d].active /\ conn'[d].bound # None
           /\ \A d \in Clients : ConnInv(d)'
<1>1. conn' \in [Clients -> Connections] /\ conn'[c] = r
      /\ \A d \in Clients : d # c => conn'[d] = conn[d]
  BY DEF Inv0, TypeOK
<1>2. \A d \in Clients : ConnInv(d)'
  BY <1>1 DEF Inv0, ConnInv, Sound, Alive
<1>3. QED
  BY <1>1, <1>2 DEF ConnInv, Sound

\* The types of the queues and of what is shown.
QueueTypes ==
    /\ callbacks \subseteq Clients
    /\ posted \in Seq({"start", "stop"} \X Clients)
    /\ oneway \in Seq({"unregister", "stop"} \X Clients)
    /\ wire \in [Clients -> Seq(States)]
    /\ handler \in [Clients -> Seq(States \cup {"binderDied"})]
    /\ shown \in [Clients -> States \cup {"Idle"}]
    /\ ~up => posted = <<>> /\ oneway = <<>> /\ callbacks = {}

\* A step of a client keeps Inv0 if it keeps the types and its own connection.
LEMMA ClientStep ==
    ASSUME Inv0, NEW c \in Clients, NEW r \in Connections, conn' = [conn EXCEPT ![c] = r],
           UNCHANGED <<instance, up, state, announcing, bandwidthListeners, loopers>>, QueueTypes',
           Sound(r)
    PROVE  Inv0'
<1>1. /\ conn' \in [Clients -> Connections]
      /\ \A d \in Clients :
            /\ conn'[d].service <= instance' /\ conn'[d].bound <= instance'
            /\ conn'[d].at # "idle" => conn'[d].active /\ conn'[d].bound # None
      /\ \A d \in Clients : ConnInv(d)'
  BY ConnStep
<1>2. TypeOK'
  BY <1>1 DEF Inv0, TypeOK, QueueTypes
<1>3. InstanceInv' /\ LooperWhileListening'
  BY DEF Inv0, InstanceInv, LooperWhileListening, QueueTypes
<1>4. QED
  BY <1>1, <1>2, <1>3 DEF Inv0

\* What is sent at the end follows what was sent before.
LEMMA GoodbyeType ==
    ASSUME NEW S, NEW s \in Seq(S), NEW t \in Seq(S)
    PROVE  s \o t \in Seq(S) /\ (s = <<>> /\ t = <<>> => s \o t = <<>>)
  BY ConcatProperties, ConcatEmptySeq, EmptySeq

\* The checks of the looper and of the registration hold, and the types with
\* them.
THEOREM Checks == Spec => []Inv0
<1>1. Init => Inv0
  <2> SUFFICES ASSUME Init PROVE Inv0
    OBVIOUS
  <2> DEFINE d == [Disconnected EXCEPT !.active = TRUE, !.bandwidth = TRUE]
  <2>1. /\ d \in Connections /\ d.service = 0 /\ d.bound = 0 /\ d.at = "idle"
        /\ d.registered = FALSE /\ d.gone = FALSE /\ d.active = TRUE
    BY DisconnectedType DEF Disconnected, None
  <2>2. \A c \in Clients : conn[c] = d
    BY DEF Init
  <2>3. conn \in [Clients -> Connections]
    BY <2>1 DEF Init
  <2> HIDE DEF d
  <2>4. up = FALSE /\ instance = 0
    BY DEF Init
  <2>5. \A c \in Clients : ConnInv(c)
    BY <2>1, <2>2, <2>4 DEF ConnInv, Sound, Alive, None
  <2>6. LooperWhileListening /\ InstanceInv
    BY <2>4, BinderAssumption DEF Init, LooperWhileListening, InstanceInv, None
  <2>7. up \in BOOLEAN /\ instance \in 0 .. MaxInstances + 1
    <3>1. up \in BOOLEAN
      BY <2>4, Zenon
    <3>2. QED
      BY <3>1, <2>4, BinderAssumption
  <2>8. posted \in Seq({"start", "stop"} \X Clients) /\ oneway \in Seq({"unregister", "stop"} \X Clients)
    BY EmptySeq DEF Init
  <2>9. wire \in [Clients -> Seq(States)] /\ handler \in [Clients -> Seq(States \cup {"binderDied"})]
    BY EmptySeq DEF Init
  <2>10. \A c \in Clients : /\ conn[c].service <= instance /\ conn[c].bound <= instance
                            /\ conn[c].at = "idle"
    BY <2>1, <2>2, <2>4
  <2>11. TypeOK
    BY <2>3, <2>7, <2>8, <2>9, <2>10 DEF Init, TypeOK, States
  <2>12. QED
    BY <2>5, <2>6, <2>11 DEF Inv0
<1>2. Inv0 /\ [Next]_vars => Inv0'
  <2> SUFFICES ASSUME Inv0, [Next]_vars PROVE Inv0'
    OBVIOUS
  <2> USE DEF service
  <2>0. /\ instance \in Nat /\ MaxInstances \in Nat
        /\ \A c \in Clients : conn[c] \in Connections /\ conn[c].bound \in Nat /\ conn[c].service \in Nat
    BY BinderAssumption, ClientTypes DEF Inv0, TypeOK
  <2>1. CASE UNCHANGED vars
    BY <2>1 DEF vars, Inv0, TypeOK, LooperWhileListening, InstanceInv, ConnInv, Sound, Alive
  <2>2. CASE Create
    <3>1. \A c \in Clients : ConnInv(c)'
      BY <2>0, <2>2 DEF Create, Inv0, TypeOK, ConnInv, Sound, Alive
    <3>2. up' \in BOOLEAN
      BY <2>2, Zenon DEF Create
    <3>3. TypeOK'
      BY <2>0, <2>2, <3>2 DEF Create, Inv0, TypeOK, InstanceInv
    <3>4. InstanceInv'
      BY <2>0, <2>2 DEF Create, Inv0, InstanceInv, None
    <3>5. QED
      BY <2>2, <3>1, <3>3, <3>4 DEF Create, Inv0, LooperWhileListening
  <2>3. CASE Ends
    <3>1. up' = FALSE /\ up' \in BOOLEAN
      BY <2>3, Zenon DEF Ends
    <3>2. \A c \in Clients : ConnInv(c)'
      BY <2>3 DEF Ends, Inv0, ConnInv, Sound, Alive
    <3>3. posted' \in Seq({"start", "stop"} \X Clients) /\ oneway' \in Seq({"unregister", "stop"} \X Clients)
      BY <2>3, EmptySeq DEF Ends
    <3>4. TypeOK'
      BY <2>3, <3>1, <3>3 DEF Ends, Inv0, TypeOK, States
    <3>5. InstanceInv' /\ LooperWhileListening'
      BY <2>3 DEF Ends, InstanceInv, LooperWhileListening
    <3>6. QED
      BY <3>2, <3>4, <3>5 DEF Inv0
  <2>4. CASE Assign
    <3>1. TypeOK'
      BY <2>4 DEF Assign, Inv0, TypeOK
    <3>2. QED
      BY <2>4, <3>1 DEF Assign, Inv0, LooperWhileListening, InstanceInv, ConnInv, Sound, Alive
  <2>5. QueueTypes
    BY DEF Inv0, TypeOK, InstanceInv, QueueTypes
  <2>6. ASSUME NEW s \in States, Announce(s) PROVE Inv0'
    <3>1. /\ conn' \in [Clients -> Connections]
          /\ \A c \in Clients :
                /\ conn'[c].active = conn[c].active /\ conn'[c].service = conn[c].service
                /\ conn'[c].bound = conn[c].bound /\ conn'[c].at = conn[c].at
                /\ conn'[c].registered = conn[c].registered /\ conn'[c].gone = conn[c].gone
                /\ conn'[c].late = conn[c].late
      <4>1. \A c \in Clients : [conn[c] EXCEPT !.blind = {}] \in Connections
        BY <2>0 DEF Connections
      <4>2. conn' \in [Clients -> Connections]
        BY <2>0, <2>6, <4>1 DEF Announce
      <4>3. \A c \in Clients : conn'[c] = conn[c] \/ conn'[c] = [conn[c] EXCEPT !.blind = {}]
        BY <2>6 DEF Announce
      <4>4. QED
        BY <2>0, <4>2, <4>3 DEF Connections
    <3>2. \A c \in Clients : ConnInv(c)'
      BY <2>6, <3>1 DEF Announce, Inv0, ConnInv, Sound, Alive
    <3>3. wire' \in [Clients -> Seq(States)]
      BY <2>5, <2>6, AppendProperties DEF Announce, QueueTypes
    <3>4. TypeOK'
      BY <2>6, <3>1, <3>3 DEF Announce, Inv0, TypeOK
    <3>5. InstanceInv' /\ LooperWhileListening'
      BY <2>6 DEF Announce, Inv0, InstanceInv, LooperWhileListening
    <3>6. QED
      BY <3>2, <3>4, <3>5 DEF Inv0
  <2>7. CASE RunPosted
    <3>1. Head(posted) \in {"start", "stop"} \X Clients /\ Tail(posted) \in Seq({"start", "stop"} \X Clients)
      BY <2>5, <2>7, HeadTailProperties DEF RunPosted, QueueTypes
    <3>2. /\ posted' \in Seq({"start", "stop"} \X Clients) /\ Head(posted)[2] \in Clients /\ up
      BY <2>5, <2>7, <3>1 DEF RunPosted, QueueTypes
    <3>3. /\ bandwidthListeners' \subseteq Clients /\ LooperWhileListening' /\ loopers' \in {0, 1}
      <4> DEFINE d == Head(posted)[2]
      <4>1. CASE startListeningForBandwidth(d)
        BY <3>2, <4>1 DEF startListeningForBandwidth, Inv0, TypeOK, LooperWhileListening
      <4>2. CASE stopListeningForBandwidth(d)
        <5>1. bandwidthListeners = {d} => bandwidthListeners' = {} /\ loopers' = 0
          BY <4>2 DEF stopListeningForBandwidth, Inv0, LooperWhileListening
        <5>2. bandwidthListeners = {} => bandwidthListeners' = {} /\ loopers' = 0
          BY <4>2 DEF stopListeningForBandwidth, Inv0, LooperWhileListening
        <5>3. bandwidthListeners # {} /\ bandwidthListeners # {d} => bandwidthListeners' # {} /\ loopers' = 1
          BY <4>2 DEF stopListeningForBandwidth, Inv0, LooperWhileListening
        <5>4. bandwidthListeners' \subseteq Clients
          BY <4>2 DEF stopListeningForBandwidth, Inv0, TypeOK
        <5>5. QED
          BY <5>1, <5>2, <5>3, <5>4 DEF LooperWhileListening
      <4>3. QED
        BY <2>7, <4>1, <4>2 DEF RunPosted
    <3>4. TypeOK'
      BY <2>7, <3>2, <3>3 DEF RunPosted, Inv0, TypeOK
    <3>5. QED
      BY <2>7, <3>2, <3>3, <3>4 DEF RunPosted, Inv0, InstanceInv, ConnInv, Sound, Alive
  <2>8. CASE RunOneway
    <3>1. Head(oneway) \in {"unregister", "stop"} \X Clients /\ Tail(oneway) \in Seq({"unregister", "stop"} \X Clients)
      BY <2>5, <2>8, HeadTailProperties DEF RunOneway, QueueTypes
    <3>2. <<"stop", Head(oneway)[2]>> \in {"start", "stop"} \X Clients
      BY <3>1
    <3>3. /\ posted' \in Seq({"start", "stop"} \X Clients) /\ callbacks' \subseteq Clients
          /\ oneway' \in Seq({"unregister", "stop"} \X Clients) /\ up
      <4>1. posted' = Append(posted, <<"stop", Head(oneway)[2]>>)
        BY <2>8 DEF RunOneway, unregisterCallback
      <4>2. callbacks' \subseteq callbacks
        BY <2>8 DEF RunOneway, unregisterCallback
      <4>3. posted' \in Seq({"start", "stop"} \X Clients)
        BY <2>5, <3>2, <4>1, AppendProperties DEF QueueTypes
      <4>4. QED
        BY <2>5, <2>8, <3>1, <4>2, <4>3 DEF RunOneway, QueueTypes
    <3>4. TypeOK'
      BY <2>8, <3>3 DEF RunOneway, Inv0, TypeOK
    <3>5. QED
      BY <2>8, <3>3, <3>4 DEF RunOneway, Inv0, InstanceInv, LooperWhileListening, ConnInv, Sound, Alive
  <2>9. ASSUME NEW c \in Clients, onCallbackDied(c) PROVE Inv0'
    <3>1. <<"stop", c>> \in {"start", "stop"} \X Clients
      OBVIOUS
    <3>2. posted' \in Seq({"start", "stop"} \X Clients) /\ callbacks' \subseteq Clients /\ up
      BY <2>5, <2>9, <3>1, AppendProperties DEF onCallbackDied, QueueTypes
    <3>3. TypeOK'
      BY <2>9, <3>2 DEF onCallbackDied, Inv0, TypeOK
    <3>4. QED
      BY <2>9, <3>2, <3>3 DEF onCallbackDied, Inv0, InstanceInv, LooperWhileListening, ConnInv, Sound, Alive
  <2>10. ~Alive(None)
    BY DEF Inv0, InstanceInv, Alive
  <2>11. \A c \in Clients : <<"stop", c>> \in {"unregister", "stop"} \X Clients /\ <<"unregister", c>> \in {"unregister", "stop"} \X Clients /\ <<"start", c>> \in {"start", "stop"} \X Clients
    OBVIOUS
  <2>12. \A c \in Clients : /\ Goodbye(c) \in Seq({"unregister", "stop"} \X Clients)
                            /\ ~up => Goodbye(c) = <<>>
    <3> SUFFICES ASSUME NEW c \in Clients
                 PROVE  /\ Goodbye(c) \in Seq({"unregister", "stop"} \X Clients)
                        /\ ~up => Goodbye(c) = <<>>
      OBVIOUS
    <3> DEFINE S == {"unregister", "stop"} \X Clients
               first == IF conn[c].registered THEN <<<<"unregister", c>>>> ELSE <<>>
    <3>1. <<"stop", c>> \in S /\ <<"unregister", c>> \in S
      BY <2>11
    <3> HIDE DEF S
    <3>2. first \in Seq(S) /\ <<<<"stop", c>>>> \in Seq(S)
      BY <3>1
    <3>3. first \o <<<<"stop", c>>>> \in Seq(S)
      BY <3>2, ConcatProperties
    <3>4. <<>> \in Seq(S)
      BY EmptySeq
    <3>5. QED
      BY <3>3, <3>4 DEF Goodbye, Alive, S
  <2>13. ASSUME NEW c \in Clients, connect(c) PROVE Inv0'
    <3> DEFINE r == [conn[c] EXCEPT !.active = TRUE]
    <3>1. /\ r \in Connections
          /\ r.active = TRUE /\ r.service = conn[c].service /\ r.bound = conn[c].bound /\ r.registered = conn[c].registered
          /\ r.at = conn[c].at /\ r.gone = conn[c].gone /\ r.late = conn[c].late
      BY <2>0 DEF Connections
    <3>2. conn' = [conn EXCEPT ![c] = r] /\ UNCHANGED <<instance, up, state, announcing, bandwidthListeners, loopers>>
      BY <2>13, <2>0 DEF connect, Free, Inv0, TypeOK
    <3>3. QueueTypes'
      BY <2>5, <2>13 DEF connect, QueueTypes
    <3> HIDE DEF r
    <3>4. ConnInv(c)
      BY DEF Inv0
    <3>5. Sound(r)
      BY <2>0, <2>13, <3>1, <3>2, <3>4, <2>10 DEF connect, Free, ConnInv, Sound, Alive, None
    <3>6. QED
      BY <3>1, <3>2, <3>3, <3>5, ClientStep
  <2>14. ASSUME NEW c \in Clients, disconnect(c) PROVE Inv0'
    <3> DEFINE r == Left(conn[c])
    <3>1. /\ r \in Connections
          /\ r.active = FALSE /\ r.service = None /\ r.bound = None /\ r.registered = FALSE
          /\ r.at = conn[c].at /\ r.gone = conn[c].gone
      BY <2>0, LeftType DEF None
    <3>2. conn' = [conn EXCEPT ![c] = r] /\ UNCHANGED <<instance, up, state, announcing, bandwidthListeners, loopers>>
      BY <2>14, <2>0 DEF disconnect, Free, Inv0, TypeOK
    <3>3. QueueTypes'
      <4>1. oneway' \in Seq({"unregister", "stop"} \X Clients) /\ (~up => oneway' = <<>>)
        <5>1. oneway' = oneway \o Goodbye(c)
          BY <2>14 DEF disconnect
        <5>2. oneway \in Seq({"unregister", "stop"} \X Clients) /\ (~up => oneway = <<>>)
          BY <2>5, Zenon DEF QueueTypes
        <5>3. Goodbye(c) \in Seq({"unregister", "stop"} \X Clients) /\ (~up => Goodbye(c) = <<>>)
          BY <2>12, Zenon
        <5>4. oneway' \in Seq({"unregister", "stop"} \X Clients)
          BY <5>1, <5>2, <5>3, GoodbyeType, Zenon
        <5>5. <<>> \o <<>> = <<>>
          OBVIOUS
        <5>6. QED
          BY <5>1, <5>2, <5>3, <5>4, <5>5, Zenon
      <4>2. handler' \in [Clients -> Seq(States \cup {"binderDied"})]
        BY <2>5, <2>14, EmptySeq DEF disconnect, QueueTypes
      <4>3. QED
        BY <2>5, <2>14, <4>1, <4>2 DEF disconnect, QueueTypes
    <3> HIDE DEF r
    <3>4. ConnInv(c) /\ Free(c)
      BY <2>14 DEF Inv0, disconnect
    <3>5. Sound(r)
      <4>1. r.bound = None /\ ~Alive(r.bound)
        BY <2>10, <3>1
      <4>2. QED
        BY <2>0, <3>1, <3>4, <4>1 DEF Free, Sound, None
    <3>6. QED
      BY <3>1, <3>2, <3>3, <3>5, ClientStep
  <2>15. ASSUME NEW c \in Clients, bandwidthTimeout(c) PROVE Inv0'
    <3> DEFINE r == [conn[c] EXCEPT !.bandwidth = ~conn[c].bandwidth,
                                 !.overtaken = @ \cup {x \in {"listen"} : ~conn[c].bandwidth /\ Alive(conn[c].service) /\ Pending(c)}]
    <3>1. /\ r \in Connections
          /\ r.active = conn[c].active /\ r.service = conn[c].service /\ r.bound = conn[c].bound /\ r.registered = conn[c].registered
          /\ r.at = conn[c].at /\ r.gone = conn[c].gone /\ r.late = conn[c].late
      BY <2>0, ZenonT(60) DEF Connections
    <3>2. conn' = [conn EXCEPT ![c] = r] /\ UNCHANGED <<instance, up, state, announcing, bandwidthListeners, loopers>>
      BY <2>15, <2>0 DEF bandwidthTimeout, Free, Inv0, TypeOK
    <3>3. QueueTypes'
      <4>1. posted' \in Seq({"start", "stop"} \X Clients) /\ (~up => posted' = <<>>)
        BY <2>5, <2>11, <2>15, AppendProperties DEF bandwidthTimeout, QueueTypes, Alive
      <4>2. oneway' \in Seq({"unregister", "stop"} \X Clients) /\ (~up => oneway' = <<>>)
        BY <2>5, <2>11, <2>15, AppendProperties DEF bandwidthTimeout, QueueTypes, Alive
      <4>3. QED
        BY <2>5, <2>15, <4>1, <4>2 DEF bandwidthTimeout, QueueTypes
    <3> HIDE DEF r
    <3>4. ConnInv(c)
      BY DEF Inv0
    <3>5. Sound(r)
      BY <2>0, <2>15, <3>1, <3>2, <3>4 DEF bandwidthTimeout, Free, ConnInv, Sound, Alive, None
    <3>6. QED
      BY <3>1, <3>2, <3>3, <3>5, ClientStep
  <2>16. ASSUME NEW c \in Clients, onServiceConnected(c) PROVE Inv0'
    <3> DEFINE r == [conn[c] EXCEPT !.bound = instance, !.binder = instance, !.service = instance,
                                 !.linked = @ \cup {instance}, !.at = "register"]
    <3>1. /\ r \in Connections
          /\ r.active = conn[c].active /\ r.service = instance /\ r.bound = instance /\ r.registered = conn[c].registered
          /\ r.at = "register" /\ r.gone = conn[c].gone /\ r.late = conn[c].late
      BY <2>0 DEF Connections
    <3>2. conn' = [conn EXCEPT ![c] = r] /\ UNCHANGED <<instance, up, state, announcing, bandwidthListeners, loopers>>
      BY <2>16, <2>0 DEF onServiceConnected, Free, Inv0, TypeOK
    <3>3. QueueTypes'
      BY <2>5, <2>16 DEF onServiceConnected, QueueTypes
    <3> HIDE DEF r
    <3>4. ConnInv(c)
      BY DEF Inv0
    <3>5. Sound(r)
      BY <2>0, <2>16, <3>1, <3>2, <3>4, <2>10 DEF onServiceConnected, Free, ConnInv, Sound, Alive, None
    <3>6. QED
      BY <3>1, <3>2, <3>3, <3>5, ClientStep
  <2>17. ASSUME NEW c \in Clients, Register(c) PROVE Inv0'
    <3> DEFINE r == [conn[c] EXCEPT !.at = "registered", !.overtaken = {x \in {"register"} : Pending(c)},
                                    !.blind = {x \in {"announced", "earlier"} :
                                                 IF x = "announced" THEN announcing # "none"
                                                                    ELSE wire[c] # <<>> \/ handler[c] # <<>>}]
    <3> DEFINE e == [conn[c] EXCEPT !.at = "read"]
    <3>1. /\ r \in Connections /\ r.active = conn[c].active /\ r.service = conn[c].service
          /\ r.bound = conn[c].bound /\ r.registered = conn[c].registered
          /\ r.gone = conn[c].gone /\ r.late = conn[c].late /\ r.at = "registered"
      BY <2>0 DEF Connections
    <3>2. /\ e \in Connections /\ e.active = conn[c].active /\ e.service = conn[c].service
          /\ e.bound = conn[c].bound /\ e.registered = conn[c].registered
          /\ e.gone = conn[c].gone /\ e.late = conn[c].late /\ e.at = "read"
      BY <2>0 DEF Connections
    <3>3. UNCHANGED <<instance, up, state, announcing, bandwidthListeners, loopers>>
      BY <2>17 DEF Register
    <3>4. QueueTypes'
      BY <2>5, <2>17 DEF Register, QueueTypes, Alive
    <3>5. ConnInv(c) /\ conn[c].at = "register"
      BY <2>17 DEF Inv0, Register
    <3>6. CASE Alive(conn[c].bound)
      <4>1. conn' = [conn EXCEPT ![c] = r]
        BY <2>0, <2>17, <3>6 DEF Register, Inv0, TypeOK
      <4> HIDE DEF r
      <4>2. Sound(r)
        BY <2>0, <3>1, <3>2, <3>5 DEF ConnInv, Sound, Alive, None
      <4>3. QED
        BY <3>1, <3>3, <3>4, <4>1, <4>2, ClientStep
    <3>7. CASE ~Alive(conn[c].bound)
      <4>1. conn' = [conn EXCEPT ![c] = e]
        BY <2>0, <2>17, <3>7 DEF Register, Inv0, TypeOK
      <4> HIDE DEF e
      <4>2. Sound(e)
        BY <2>0, <3>1, <3>2, <3>5, <3>7 DEF ConnInv, Sound, Alive, None
      <4>3. QED
        BY <3>2, <3>3, <3>4, <4>1, <4>2, ClientStep
    <3>8. QED
      BY <3>6, <3>7
  <2>18. ASSUME NEW c \in Clients, Registered(c) PROVE Inv0'
    <3> DEFINE r == [conn[c] EXCEPT !.registered = TRUE, !.at = "read"]
    <3>1. /\ r \in Connections
          /\ r.active = conn[c].active /\ r.service = conn[c].service /\ r.bound = conn[c].bound /\ r.registered = TRUE
          /\ r.at = "read" /\ r.gone = conn[c].gone /\ r.late = conn[c].late
      BY <2>0 DEF Connections
    <3>2. conn' = [conn EXCEPT ![c] = r] /\ UNCHANGED <<instance, up, state, announcing, bandwidthListeners, loopers>>
      BY <2>18, <2>0 DEF Registered, Inv0, TypeOK
    <3>3. QueueTypes'
      <4>1. posted' \in Seq({"start", "stop"} \X Clients) /\ (~up => posted' = <<>>)
        BY <2>5, <2>11, <2>18, AppendProperties DEF Registered, QueueTypes, Alive
      <4>2. QED
        BY <2>5, <2>18, <4>1 DEF Registered, QueueTypes
    <3> HIDE DEF r
    <3>4. ConnInv(c)
      BY DEF Inv0
    <3>5. Sound(r)
      BY <2>0, <2>18, <3>1, <3>2, <3>4 DEF Registered, ConnInv, Sound, Alive, None
    <3>6. QED
      BY <3>1, <3>2, <3>3, <3>5, ClientStep
  <2>19. ASSUME NEW c \in Clients, ReadState(c) PROVE Inv0'
    <3> DEFINE r == [conn[c] EXCEPT !.at = "idle",
                                 !.blind = IF announcing = "none" THEN @ \ {"announced"} ELSE @]
    <3>1. /\ r \in Connections
          /\ r.active = conn[c].active /\ r.service = conn[c].service /\ r.bound = conn[c].bound /\ r.registered = conn[c].registered
          /\ r.at = "idle" /\ r.gone = conn[c].gone /\ r.late = conn[c].late
      BY <2>0 DEF Connections
    <3>2. conn' = [conn EXCEPT ![c] = r] /\ UNCHANGED <<instance, up, state, announcing, bandwidthListeners, loopers>>
      BY <2>19, <2>0 DEF ReadState, Inv0, TypeOK
    <3>3. QueueTypes'
      BY <2>5, <2>19 DEF ReadState, QueueTypes, Inv0, TypeOK
    <3> HIDE DEF r
    <3>4. ConnInv(c)
      BY DEF Inv0
    <3>5. Sound(r)
      BY <2>0, <2>19, <3>1, <3>2, <3>4 DEF ReadState, ConnInv, Sound, Alive, None
    <3>6. QED
      BY <3>1, <3>2, <3>3, <3>5, ClientStep
  <2>20. ASSUME NEW c \in Clients, onServiceDisconnected(c) PROVE Inv0'
    <3> DEFINE r == [conn[c] EXCEPT !.bound = None, !.binder = None, !.service = None, !.registered = FALSE]
    <3>1. /\ r \in Connections
          /\ r.active = conn[c].active /\ r.service = None /\ r.bound = None /\ r.registered = FALSE
          /\ r.at = conn[c].at /\ r.gone = conn[c].gone /\ r.late = conn[c].late
      BY <2>0 DEF Connections, None
    <3>2. conn' = [conn EXCEPT ![c] = r] /\ UNCHANGED <<instance, up, state, announcing, bandwidthListeners, loopers>>
      BY <2>20, <2>0 DEF onServiceDisconnected, Free, Inv0, TypeOK
    <3>3. QueueTypes'
      BY <2>5, <2>20 DEF onServiceDisconnected, QueueTypes
    <3> HIDE DEF r
    <3>4. ConnInv(c)
      BY DEF Inv0
    <3>5. Sound(r)
      BY <2>0, <2>20, <3>1, <3>2, <3>4, <2>10 DEF onServiceDisconnected, Free, ConnInv, Sound, Alive, None
    <3>6. QED
      BY <3>1, <3>2, <3>3, <3>5, ClientStep
  <2>21. ASSUME NEW c \in Clients, NEW i \in 1 .. MaxInstances, binderDied(c, i) PROVE Inv0'
    <3> DEFINE r == [conn[c] EXCEPT !.linked = @ \ {i}, !.service = None, !.registered = FALSE,
                                 !.late = @ \/ conn[c].bound \notin {None, i}]
    <3>1. /\ r \in Connections
          /\ r.active = conn[c].active /\ r.service = None /\ r.bound = conn[c].bound /\ r.registered = FALSE
          /\ r.at = conn[c].at /\ r.gone = conn[c].gone /\ (r.late <=> conn[c].late \/ conn[c].bound \notin {None, i})
      BY <2>0, ZenonT(60) DEF Connections, None
    <3>2. conn' = [conn EXCEPT ![c] = r] /\ UNCHANGED <<instance, up, state, announcing, bandwidthListeners, loopers>>
      BY <2>21, <2>0 DEF binderDied, Inv0, TypeOK
    <3>3. QueueTypes'
      <4>1. handler' \in [Clients -> Seq(States \cup {"binderDied"})]
        BY <2>5, <2>21, AppendProperties DEF binderDied, QueueTypes
      <4>2. QED
        BY <2>5, <2>21, <4>1 DEF binderDied, QueueTypes
    <3> HIDE DEF r
    <3>4. ConnInv(c) /\ ~Alive(i) /\ ~conn[c].gone
      BY <2>21 DEF Inv0, binderDied
    <3>5. Sound(r)
      <4>1. conn[c].bound \in {None, i} => ~Alive(conn[c].bound)
        BY <2>10, <3>4
      <4>2. ~(Alive(r.bound) /\ ~r.late)
        BY <3>1, <4>1
      <4>3. QED
        BY <2>0, <3>1, <3>4, <4>2 DEF ConnInv, Sound, Alive, None
    <3>6. QED
      BY <3>1, <3>2, <3>3, <3>5, ClientStep
  <2>22. ASSUME NEW c \in Clients, stateChanged(c) PROVE Inv0'
    <3>1. Head(wire[c]) \in States /\ Tail(wire[c]) \in Seq(States)
      BY <2>5, <2>22, HeadTailProperties DEF stateChanged, QueueTypes
    <3>2. wire' \in [Clients -> Seq(States)]
      BY <2>5, <2>22, <3>1 DEF stateChanged, QueueTypes
    <3>3. handler' \in [Clients -> Seq(States \cup {"binderDied"})]
      BY <2>5, <2>22, <3>1, AppendProperties DEF stateChanged, QueueTypes
    <3>4. TypeOK'
      BY <2>22, <3>2, <3>3 DEF stateChanged, Inv0, TypeOK
    <3>5. QED
      BY <2>22, <3>4 DEF stateChanged, Inv0, InstanceInv, LooperWhileListening, ConnInv, Sound, Alive
  <2>23. ASSUME NEW c \in Clients, ShowState(c) PROVE Inv0'
    <3>1. Head(handler[c]) \in States /\ Tail(handler[c]) \in Seq(States \cup {"binderDied"})
      BY <2>5, <2>23, HeadTailProperties DEF ShowState, QueueTypes
    <3>2. handler' \in [Clients -> Seq(States \cup {"binderDied"})]
      BY <2>5, <2>23, <3>1 DEF ShowState, QueueTypes
    <3>3. TypeOK'
      BY <2>23, <3>1, <3>2 DEF ShowState, Inv0, TypeOK
    <3>4. QED
      BY <2>23, <3>3 DEF ShowState, Inv0, InstanceInv, LooperWhileListening, ConnInv, Sound, Alive
  <2>24. ASSUME NEW c \in Clients, onBinderDied(c) PROVE Inv0'
    <3> DEFINE r == [Left(conn[c]) EXCEPT !.active = TRUE]
    <3>1. /\ r \in Connections
          /\ r.active = TRUE /\ r.service = None /\ r.bound = None /\ r.registered = FALSE
          /\ r.at = conn[c].at /\ r.gone = conn[c].gone
      BY <2>0, LeftType DEF None
    <3>2. conn' = [conn EXCEPT ![c] = r] /\ UNCHANGED <<instance, up, state, announcing, bandwidthListeners, loopers>>
      BY <2>24, <2>0 DEF onBinderDied, Free, Inv0, TypeOK
    <3>3. QueueTypes'
      <4>1. oneway' \in Seq({"unregister", "stop"} \X Clients) /\ (~up => oneway' = <<>>)
        <5>1. oneway' = oneway \o Goodbye(c)
          BY <2>24 DEF onBinderDied
        <5>2. oneway \in Seq({"unregister", "stop"} \X Clients) /\ (~up => oneway = <<>>)
          BY <2>5, Zenon DEF QueueTypes
        <5>3. Goodbye(c) \in Seq({"unregister", "stop"} \X Clients) /\ (~up => Goodbye(c) = <<>>)
          BY <2>12, Zenon
        <5>4. oneway' \in Seq({"unregister", "stop"} \X Clients)
          BY <5>1, <5>2, <5>3, GoodbyeType, Zenon
        <5>5. <<>> \o <<>> = <<>>
          OBVIOUS
        <5>6. QED
          BY <5>1, <5>2, <5>3, <5>4, <5>5, Zenon
      <4>2. handler' \in [Clients -> Seq(States \cup {"binderDied"})]
        BY <2>5, <2>24, HeadTailProperties DEF onBinderDied, QueueTypes
      <4>3. QED
        BY <2>5, <2>24, <4>1, <4>2 DEF onBinderDied, QueueTypes
    <3> HIDE DEF r
    <3>4. ConnInv(c) /\ Free(c)
      BY <2>24 DEF Inv0, onBinderDied
    <3>5. Sound(r)
      <4>1. r.bound = None /\ ~Alive(r.bound)
        BY <2>10, <3>1
      <4>2. QED
        BY <2>0, <3>1, <3>4, <4>1 DEF Free, Sound, None
    <3>6. QED
      BY <3>1, <3>2, <3>3, <3>5, ClientStep
  <2>25. ASSUME NEW c \in Clients, ClientDies(c) PROVE Inv0'
    <3> DEFINE r == [Disconnected EXCEPT !.gone = TRUE, !.overtaken = conn[c].overtaken]
    <3>1. /\ r \in Connections
          /\ r.active = FALSE /\ r.service = None /\ r.bound = None /\ r.registered = FALSE
          /\ r.at = "idle" /\ r.gone = TRUE /\ r.late = FALSE
      BY <2>0 DEF Connections, Disconnected, None
    <3>2. conn' = [conn EXCEPT ![c] = r] /\ UNCHANGED <<instance, up, state, announcing, bandwidthListeners, loopers>>
      BY <2>25, <2>0 DEF ClientDies, Inv0, TypeOK
    <3>3. QueueTypes'
      <4>1. wire' \in [Clients -> Seq(States)] /\ handler' \in [Clients -> Seq(States \cup {"binderDied"})]
        BY <2>5, <2>25, EmptySeq DEF ClientDies, QueueTypes
      <4>2. QED
        BY <2>5, <2>25, <4>1 DEF ClientDies, QueueTypes
    <3> HIDE DEF r
    <3>4. ConnInv(c)
      BY DEF Inv0
    <3>5. Sound(r)
      BY <2>0, <2>25, <3>1, <3>2, <3>4 DEF ClientDies, ConnInv, Sound, Alive, None
    <3>6. QED
      BY <3>1, <3>2, <3>3, <3>5, ClientStep
  <2>26. QED
    BY <2>1, <2>2, <2>3, <2>4, <2>6, <2>7, <2>8, <2>9, <2>13, <2>14, <2>15, <2>16, <2>17, <2>18,
       <2>19, <2>20, <2>21, <2>22, <2>23, <2>24, <2>25 DEF Next, MainThread, Deaths, Close, Crash
<1>3. QED
  BY <1>1, <1>2, PTL DEF Spec

\* The looper's check and the registration's check of the code never fail.
THEOREM CodeChecks == Spec => []ChecksHold
<1>1. Inv0 => ChecksHold
  BY DEF Inv0, ChecksHold, RegistersOnce, ConnInv, Sound
<1>2. QED
  BY <1>1, Checks, PTL

------------------------------------------------------------------------------
(* The registrations *)

\* What a queue holds when a call is added to it.
LEMMA AppendAt ==
    ASSUME NEW S, NEW q \in Seq(S), NEW e \in S, NEW p, p = Append(q, e)
    PROVE  /\ p \in Seq(S) /\ Len(q) \in Nat /\ Len(p) = Len(q) + 1
           /\ \A i \in 1 .. Len(q) : p[i] = q[i]
           /\ p[Len(q) + 1] = e
  BY AppendProperties, LenProperties

\* Whom a queue concerns after a call was added,
LEMMA AppendConcerns ==
    ASSUME NEW S, NEW q \in Seq(S), NEW e \in S, NEW p, p = Append(q, e)
    PROVE  \A x : Concerns(p, x) <=> Concerns(q, x) \/ e[2] = x
  BY AppendAt DEF Concerns

\* which calls it holds,
LEMMA AppendHolds ==
    ASSUME NEW S, NEW q \in Seq(S), NEW e \in S, NEW p, p = Append(q, e)
    PROVE  \A f : Holds(p, f) <=> Holds(q, f) \/ f = e
  BY AppendAt DEF Holds

\* and which is the last for its client.
LEMMA AppendLast ==
    ASSUME NEW S, NEW q \in Seq(S), NEW e \in S, NEW p, p = Append(q, e)
    PROVE  \A f : LastFor(p, f) <=> f = e \/ (f[2] # e[2] /\ LastFor(q, f))
<1>1. /\ Len(q) \in Nat /\ Len(p) = Len(q) + 1
      /\ \A i \in 1 .. Len(q) : p[i] = q[i]
      /\ p[Len(q) + 1] = e
  BY AppendAt
<1>4. ASSUME NEW f, f[2] # e[2] PROVE LastFor(p, f) <=> LastFor(q, f)
  <2>1. ASSUME LastFor(p, f) PROVE LastFor(q, f)
    <3>1. PICK i \in 1 .. Len(p) : p[i] = f /\ \A j \in i + 1 .. Len(p) : p[j][2] # f[2]
      BY <2>1 DEF LastFor
    <3>2. i \in 1 .. Len(q)
      BY <1>1, <1>4, <3>1
    <3>3. \A j \in i + 1 .. Len(q) : q[j][2] # f[2]
      BY <1>1, <3>1, <3>2
    <3>4. QED
      BY <1>1, <3>1, <3>2, <3>3 DEF LastFor
  <2>2. ASSUME LastFor(q, f) PROVE LastFor(p, f)
    <3>1. PICK i \in 1 .. Len(q) : q[i] = f /\ \A j \in i + 1 .. Len(q) : q[j][2] # f[2]
      BY <2>2 DEF LastFor
    <3>2. \A j \in i + 1 .. Len(p) : p[j][2] # f[2]
      BY <1>1, <1>4, <3>1
    <3>3. i \in 1 .. Len(p) /\ p[i] = f
      BY <1>1, <3>1
    <3>4. QED
      BY <3>2, <3>3 DEF LastFor
  <2>3. QED
    BY <2>1, <2>2
<1>5. ASSUME NEW f, f[2] = e[2] PROVE LastFor(p, f) <=> f = e
  BY <1>1, <1>5 DEF LastFor
<1>6. QED
  BY <1>4, <1>5

\* What a queue holds when its first call is taken.
LEMMA TailAt ==
    ASSUME NEW S, NEW q \in Seq(S), q # <<>>
    PROVE  /\ Tail(q) \in Seq(S) /\ Head(q) \in S /\ Head(q) = q[1]
           /\ Len(q) \in Nat \ {0} /\ Len(Tail(q)) = Len(q) - 1
           /\ \A i \in 1 .. Len(Tail(q)) : Tail(q)[i] = q[i + 1]
           /\ \A i \in 1 .. Len(q) : i = 1 \/ (i - 1 \in 1 .. Len(Tail(q)) /\ q[i] = Tail(q)[i - 1])
  BY HeadTailProperties, LenProperties, EmptySeq

\* The same of a queue whose first call is taken: whom it concerns,
LEMMA TailConcerns ==
    ASSUME NEW S, NEW q \in Seq(S), q # <<>>
    PROVE  \A x : Concerns(q, x) <=> Head(q)[2] = x \/ Concerns(Tail(q), x)
<1> DEFINE p == Tail(q)
<1>1. /\ Head(q) = q[1] /\ Len(q) \in Nat \ {0}
      /\ Len(p) = Len(q) - 1 /\ \A i \in 1 .. Len(p) : p[i] = q[i + 1]
  BY TailAt
<1>2. \A i \in 1 .. Len(q) : i = 1 \/ (i - 1 \in 1 .. Len(p) /\ q[i] = p[i - 1])
  BY TailAt
<1> HIDE DEF p
<1>3. ASSUME NEW x PROVE Concerns(q, x) <=> Head(q)[2] = x \/ Concerns(p, x)
  <2>1. Concerns(q, x) => Head(q)[2] = x \/ Concerns(p, x)
    BY <1>1, <1>2 DEF Concerns
  <2>2. Head(q)[2] = x => Concerns(q, x)
    BY <1>1 DEF Concerns
  <2>3. ASSUME Concerns(p, x) PROVE Concerns(q, x)
    <3>1. PICK i \in 1 .. Len(p) : p[i][2] = x
      BY <2>3 DEF Concerns
    <3>2. i + 1 \in 1 .. Len(q) /\ q[i + 1][2] = x
      BY <1>1, <3>1
    <3>3. QED
      BY <3>2 DEF Concerns
  <2>4. QED
    BY <2>1, <2>2, <2>3
<1>4. QED
  BY <1>3 DEF p

\* which calls it holds,
LEMMA TailHolds ==
    ASSUME NEW S, NEW q \in Seq(S), q # <<>>
    PROVE  \A f : Holds(q, f) <=> f = Head(q) \/ Holds(Tail(q), f)
<1> DEFINE p == Tail(q)
<1>1. /\ Head(q) = q[1] /\ Len(q) \in Nat \ {0}
      /\ Len(p) = Len(q) - 1 /\ \A i \in 1 .. Len(p) : p[i] = q[i + 1]
  BY TailAt
<1>2. \A i \in 1 .. Len(q) : i = 1 \/ (i - 1 \in 1 .. Len(p) /\ q[i] = p[i - 1])
  BY TailAt
<1> HIDE DEF p
<1>3. \A f : Holds(q, f) <=> f = Head(q) \/ Holds(p, f)
  BY <1>1, <1>2 DEF Holds
<1>4. QED
  BY <1>3 DEF p

\* and which is the last for its client.
LEMMA TailLast ==
    ASSUME NEW S, NEW q \in Seq(S), q # <<>>
    PROVE  \A f : LastFor(q, f) <=> LastFor(Tail(q), f) \/ (f = Head(q) /\ ~Concerns(Tail(q), f[2]))
<1> DEFINE p == Tail(q)
<1>1. /\ Head(q) = q[1] /\ Len(q) \in Nat \ {0}
      /\ Len(p) = Len(q) - 1 /\ \A i \in 1 .. Len(p) : p[i] = q[i + 1]
  BY TailAt
<1>2. \A i \in 1 .. Len(q) : i = 1 \/ (i - 1 \in 1 .. Len(p) /\ q[i] = p[i - 1])
  BY TailAt
<1> HIDE DEF p
<1>5. ASSUME NEW f PROVE LastFor(q, f) <=> LastFor(p, f) \/ (f = Head(q) /\ ~Concerns(p, f[2]))
  <2>1. ASSUME LastFor(q, f) PROVE LastFor(p, f) \/ (f = Head(q) /\ ~Concerns(p, f[2]))
    <3>1. PICK i \in 1 .. Len(q) : q[i] = f /\ \A j \in i + 1 .. Len(q) : q[j][2] # f[2]
      BY <2>1 DEF LastFor
    <3>2. \A j \in i .. Len(p) : p[j][2] # f[2]
      BY <1>1, <3>1
    <3>3. QED
      BY <1>1, <1>2, <3>1, <3>2 DEF LastFor, Concerns
  <2>2. ASSUME LastFor(p, f) PROVE LastFor(q, f)
    <3>1. PICK i \in 1 .. Len(p) : p[i] = f /\ \A j \in i + 1 .. Len(p) : p[j][2] # f[2]
      BY <2>2 DEF LastFor
    <3>2. i + 1 \in 1 .. Len(q) /\ q[i + 1] = f
      BY <1>1, <3>1
    <3>3. ASSUME NEW j \in (i + 1) + 1 .. Len(q) PROVE q[j][2] # f[2]
      <4>1. j - 1 \in i + 1 .. Len(p) /\ q[j] = p[j - 1]
        BY <1>1, <1>2
      <4>2. QED
        BY <3>1, <4>1
    <3>4. QED
      BY <1>1, <3>2, <3>3 DEF LastFor
  <2>3. ASSUME f = Head(q), ~Concerns(p, f[2]) PROVE LastFor(q, f)
    <3>1. ASSUME NEW j \in 1 + 1 .. Len(q) PROVE q[j][2] # f[2]
      <4>1. j - 1 \in 1 .. Len(p) /\ q[j] = p[j - 1]
        BY <1>1, <1>2
      <4>2. QED
        BY <2>3, <4>1 DEF Concerns
    <3>2. QED
      BY <1>1, <2>3, <3>1 DEF LastFor
  <2>4. QED
    BY <2>1, <2>2, <2>3
<1>6. QED
  BY <1>5 DEF p

\* Nothing changes in what is under way for x.
CallsKept(x) ==
    /\ Concerns(oneway, x)' <=> Concerns(oneway, x)
    /\ Unregisters(x)' <=> Unregisters(x)
    /\ WillListen(x)' <=> WillListen(x)

\* A start or a stop of c is posted.
LEMMA Posts ==
    ASSUME QueueTypes, NEW c \in Clients, NEW t \in {"start", "stop"},
           posted' = Append(posted, <<t, c>>), UNCHANGED <<oneway, bandwidthListeners>>
    PROVE  /\ \A x \in Clients \ {c} : CallsKept(x)
           /\ Concerns(oneway, c)' <=> Concerns(oneway, c)
           /\ Unregisters(c)' <=> Unregisters(c)
           /\ WillListen(c)' <=> t = "start" /\ ~Concerns(oneway, c)
<1> DEFINE T == {"start", "stop"} \X Clients
<1> DEFINE e == <<t, c>>
<1>1. posted \in Seq(T) /\ e \in T
  BY DEF QueueTypes
<1>9. posted' = Append(posted, e)
  OBVIOUS
<1> HIDE DEF T, e
<1>2. ASSUME NEW q \in Seq(T), NEW p, p = Append(q, e)
      PROVE  /\ \A x : Concerns(p, x) <=> Concerns(q, x) \/ e[2] = x
             /\ \A f : LastFor(p, f) <=> f = e \/ (f[2] # e[2] /\ LastFor(q, f))
  <2>1. \A x : Concerns(p, x) <=> Concerns(q, x) \/ e[2] = x
    BY <1>1, <1>2, AppendConcerns, Zenon
  <2>2. \A f : LastFor(p, f) <=> f = e \/ (f[2] # e[2] /\ LastFor(q, f))
    BY <1>1, <1>2, AppendLast, Zenon
  <2>3. QED
    BY <2>1, <2>2
<1>0. /\ \A x : Concerns(posted', x) <=> Concerns(posted, x) \/ e[2] = x
      /\ \A f : LastFor(posted', f) <=> f = e \/ (f[2] # e[2] /\ LastFor(posted, f))
  BY <1>1, <1>9, <1>2, Zenon
<1> USE DEF T, e
<1>3. \A x \in Clients : <<"start", x>>[2] = x
  OBVIOUS
<1>4. \A x \in Clients \ {c} : /\ Concerns(posted', x) <=> Concerns(posted, x)
                               /\ LastFor(posted', <<"start", x>>) <=> LastFor(posted, <<"start", x>>)
  BY <1>0, <1>3
<1>5. Concerns(posted', c) /\ (LastFor(posted', <<"start", c>>) <=> t = "start")
  BY <1>0, <1>3
<1>6. \A x : /\ Concerns(oneway, x)' <=> Concerns(oneway, x)
             /\ Unregisters(x)' <=> Unregisters(x)
  BY DEF Concerns, Unregisters, Holds
<1>7. \A x \in Clients \ {c} : WillListen(x)' <=> WillListen(x)
  BY <1>4, <1>6 DEF WillListen
<1>8. QED
  BY <1>5, <1>6, <1>7 DEF CallsKept, WillListen

\* A oneway call of c is sent.
LEMMA Sends ==
    ASSUME NEW q \in Seq({"unregister", "stop"} \X Clients), NEW c \in Clients,
           NEW t \in {"unregister", "stop"}, NEW p, p = Append(q, <<t, c>>)
    PROVE  /\ p \in Seq({"unregister", "stop"} \X Clients)
           /\ \A x \in Clients \ {c} : /\ Concerns(p, x) <=> Concerns(q, x)
                                       /\ Holds(p, <<"unregister", x>>) <=> Holds(q, <<"unregister", x>>)
           /\ Concerns(p, c)
           /\ Holds(p, <<"unregister", c>>) <=> Holds(q, <<"unregister", c>>) \/ t = "unregister"
<1> DEFINE T == {"unregister", "stop"} \X Clients
<1> DEFINE e == <<t, c>>
<1>1. q \in Seq(T) /\ e \in T /\ p = Append(q, e)
  OBVIOUS
<1> HIDE DEF T, e
<1>2. /\ p \in Seq(T)
      /\ \A x : Concerns(p, x) <=> Concerns(q, x) \/ e[2] = x
      /\ \A f : Holds(p, f) <=> Holds(q, f) \/ f = e
  <2>1. p \in Seq(T)
    BY <1>1, AppendAt, Zenon
  <2>2. \A x : Concerns(p, x) <=> Concerns(q, x) \/ e[2] = x
    BY <1>1, AppendConcerns, Zenon
  <2>3. \A f : Holds(p, f) <=> Holds(q, f) \/ f = e
    BY <1>1, AppendHolds, Zenon
  <2>4. QED
    BY <2>1, <2>2, <2>3
<1> USE DEF T, e
<1>3. QED
  BY <1>2

\* The calls of disconnect.
LEMMA SaysGoodbye ==
    ASSUME QueueTypes, NEW c \in Clients, conn[c] \in Connections,
           oneway' = oneway \o Goodbye(c), UNCHANGED <<posted, bandwidthListeners>>
    PROVE  /\ \A x \in Clients \ {c} : CallsKept(x)
           /\ ~Alive(conn[c].service) => CallsKept(c)
           /\ Alive(conn[c].service) => /\ Concerns(oneway, c)' /\ ~WillListen(c)'
                                        /\ Unregisters(c)' <=> Unregisters(c) \/ conn[c].registered
<1>1. oneway \in Seq({"unregister", "stop"} \X Clients)
  BY DEF QueueTypes
<1>2. CASE ~Alive(conn[c].service)
  <2>1. oneway' = oneway
    BY <1>1, <1>2, ConcatEmptySeq DEF Goodbye
  <2>2. QED
    BY <1>2, <2>1 DEF CallsKept, Concerns, Unregisters, Holds, WillListen, LastFor
<1> DEFINE p == Append(oneway, <<"stop", c>>)
<1> DEFINE u == Append(oneway, <<"unregister", c>>)
<1> DEFINE w == Append(u, <<"stop", c>>)
<1>a. "stop" \in {"unregister", "stop"} /\ "unregister" \in {"unregister", "stop"} /\ "stop" # "unregister"
  OBVIOUS
<1>3. /\ p \in Seq({"unregister", "stop"} \X Clients)
      /\ \A x \in Clients \ {c} : /\ Concerns(p, x) <=> Concerns(oneway, x)
                                  /\ Holds(p, <<"unregister", x>>) <=> Unregisters(x)
      /\ Concerns(p, c) /\ (Holds(p, <<"unregister", c>>) <=> Unregisters(c))
  <2>1. /\ p \in Seq({"unregister", "stop"} \X Clients)
        /\ \A x \in Clients \ {c} : /\ Concerns(p, x) <=> Concerns(oneway, x)
                                    /\ Holds(p, <<"unregister", x>>) <=> Holds(oneway, <<"unregister", x>>)
        /\ Concerns(p, c)
        /\ Holds(p, <<"unregister", c>>) <=> Holds(oneway, <<"unregister", c>>) \/ "stop" = "unregister"
    BY <1>1, <1>a, Sends, Zenon
  <2>2. QED
    BY <1>1, <2>1 DEF Unregisters
<1>4. /\ u \in Seq({"unregister", "stop"} \X Clients)
      /\ \A x \in Clients \ {c} : /\ Concerns(u, x) <=> Concerns(oneway, x)
                                  /\ Holds(u, <<"unregister", x>>) <=> Unregisters(x)
      /\ Concerns(u, c) /\ Holds(u, <<"unregister", c>>)
  <2>1. /\ u \in Seq({"unregister", "stop"} \X Clients)
        /\ \A x \in Clients \ {c} : /\ Concerns(u, x) <=> Concerns(oneway, x)
                                    /\ Holds(u, <<"unregister", x>>) <=> Holds(oneway, <<"unregister", x>>)
        /\ Concerns(u, c)
        /\ Holds(u, <<"unregister", c>>) <=> Holds(oneway, <<"unregister", c>>) \/ "unregister" = "unregister"
    BY <1>1, <1>a, Sends, Zenon
  <2>2. QED
    BY <1>1, <2>1 DEF Unregisters
<1> HIDE DEF u
<1>5. /\ w \in Seq({"unregister", "stop"} \X Clients)
      /\ \A x \in Clients \ {c} : /\ Concerns(w, x) <=> Concerns(oneway, x)
                                  /\ Holds(w, <<"unregister", x>>) <=> Unregisters(x)
      /\ Concerns(w, c) /\ Holds(w, <<"unregister", c>>)
  <2>1. /\ w \in Seq({"unregister", "stop"} \X Clients)
        /\ \A x \in Clients \ {c} : /\ Concerns(w, x) <=> Concerns(u, x)
                                    /\ Holds(w, <<"unregister", x>>) <=> Holds(u, <<"unregister", x>>)
        /\ Concerns(w, c)
        /\ Holds(w, <<"unregister", c>>) <=> Holds(u, <<"unregister", c>>) \/ "stop" = "unregister"
    BY <1>a, <1>4, Sends, Zenon
  <2>2. QED
    BY <1>4, <2>1 DEF Unregisters
<1> USE DEF u
<1>6. ASSUME NEW q, oneway' = q, Concerns(q, c),
             \A x \in Clients \ {c} : /\ Concerns(q, x) <=> Concerns(oneway, x)
                                      /\ Holds(q, <<"unregister", x>>) <=> Unregisters(x)
      PROVE  /\ \A x \in Clients \ {c} : CallsKept(x)
             /\ Concerns(oneway, c)' /\ ~WillListen(c)'
             /\ Unregisters(c)' <=> Holds(q, <<"unregister", c>>)
  BY <1>6 DEF CallsKept, Unregisters, WillListen
<1>7. CASE Alive(conn[c].service) /\ conn[c].registered
  <2>1. Goodbye(c) = <<<<"unregister", c>>>> \o <<<<"stop", c>>>>
    BY <1>7 DEF Goodbye
  <2>2. oneway' = w
    BY <1>1, <2>1
  <2> HIDE DEF w
  <2>3. QED
    BY <1>5, <1>6, <1>7, <2>2
<1>8. CASE Alive(conn[c].service) /\ ~conn[c].registered
  <2>1. Goodbye(c) = <<>> \o <<<<"stop", c>>>>
    BY <1>8 DEF Goodbye
  <2>2. oneway' = p
    BY <1>1, <2>1
  <2> HIDE DEF p
  <2>3. QED
    BY <1>3, <1>6, <1>8, <2>2
<1>9. QED
  BY <1>2, <1>7, <1>8

\* The main thread of the service runs what was posted: what will come of it
\* stays what it was.
LEMMA RunsPosted ==
    ASSUME QueueTypes, RunPosted
    PROVE  \A x \in Clients : CallsKept(x)
<1> DEFINE p == Tail(posted)
<1>1. posted \in Seq({"start", "stop"} \X Clients) /\ posted # <<>>
  BY DEF QueueTypes, RunPosted
<1>2. /\ Head(posted) \in {"start", "stop"} \X Clients
      /\ \A x : Concerns(posted, x) <=> Head(posted)[2] = x \/ Concerns(p, x)
      /\ \A f : LastFor(posted, f) <=> LastFor(p, f) \/ (f = Head(posted) /\ ~Concerns(p, f[2]))
  <2>1. Head(posted) \in {"start", "stop"} \X Clients
    BY <1>1, TailAt, Zenon
  <2>2. \A x : Concerns(posted, x) <=> Head(posted)[2] = x \/ Concerns(p, x)
    BY <1>1, TailConcerns, Zenon
  <2>3. \A f : LastFor(posted, f) <=> LastFor(p, f) \/ (f = Head(posted) /\ ~Concerns(p, f[2]))
    BY <1>1, TailLast, Zenon
  <2>4. QED
    BY <2>1, <2>2, <2>3
<1>3. posted' = p /\ UNCHANGED oneway
  BY DEF RunPosted
<1>4. \A f : LastFor(p, f) => Concerns(p, f[2])
  BY DEF LastFor, Concerns
<1> HIDE DEF p
<1>5. ASSUME NEW x \in Clients
      PROVE  (LastFor(p, <<"start", x>>) \/ (~Concerns(p, x) /\ x \in bandwidthListeners'))
             <=> (LastFor(posted, <<"start", x>>) \/ (~Concerns(posted, x) /\ x \in bandwidthListeners))
  <2> DEFINE f == <<"start", x>>
  <2>1. f[2] = x
    OBVIOUS
  <2>2. CASE Head(posted)[2] # x
    <3>1. x \in bandwidthListeners' <=> x \in bandwidthListeners
      BY <2>2 DEF RunPosted, startListeningForBandwidth, stopListeningForBandwidth
    <3>2. f # Head(posted)
      BY <2>1, <2>2
    <3>3. QED
      BY <1>2, <2>2, <3>1, <3>2
  <2>3. CASE Head(posted)[2] = x /\ Concerns(p, x)
    <3> HIDE DEF f
    <3>1. QED
      BY <1>2, <2>1, <2>3 DEF f
  <2>4. CASE Head(posted)[2] = x /\ ~Concerns(p, x)
    <3>1. ~LastFor(p, f) /\ (LastFor(posted, f) <=> f = Head(posted)) /\ Concerns(posted, x)
      BY <1>2, <1>4, <2>1, <2>4
    <3>2. f = Head(posted) <=> Head(posted)[1] = "start"
      BY <1>2, <2>4
    <3>3. x \in bandwidthListeners' <=> Head(posted)[1] = "start"
      BY <1>2, <2>4 DEF RunPosted, startListeningForBandwidth, stopListeningForBandwidth
    <3>4. QED
      BY <2>4, <3>1, <3>2, <3>3
  <2>5. QED
    BY <2>2, <2>3, <2>4
<1>6. QED
  BY <1>3, <1>5 DEF CallsKept, WillListen, Unregisters

\* A binder thread takes a oneway call of a client: the client does not listen
\* in the end, before and after.
LEMMA RunsOneway ==
    ASSUME QueueTypes, RunOneway, NEW x \in Clients
    PROVE  /\ WillListen(x)' <=> WillListen(x)
           /\ WillListen(x) => Head(oneway)[2] # x
           /\ Concerns(oneway, x)' => Concerns(oneway, x)
           /\ Unregisters(x) <=> Unregisters(x)' \/ Head(oneway) = <<"unregister", x>>
           /\ x \in callbacks' <=> x \in callbacks /\ Head(oneway) # <<"unregister", x>>
<1> DEFINE c == Head(oneway)[2]
<1>1. oneway \in Seq({"unregister", "stop"} \X Clients) /\ oneway # <<>>
  BY DEF QueueTypes, RunOneway
<1>2. /\ Head(oneway) \in {"unregister", "stop"} \X Clients
      /\ \A y : Concerns(oneway, y) <=> Head(oneway)[2] = y \/ Concerns(Tail(oneway), y)
      /\ \A f : Holds(oneway, f) <=> f = Head(oneway) \/ Holds(Tail(oneway), f)
  <2>1. Head(oneway) \in {"unregister", "stop"} \X Clients
    BY <1>1, TailAt, Zenon
  <2>2. \A y : Concerns(oneway, y) <=> Head(oneway)[2] = y \/ Concerns(Tail(oneway), y)
    BY <1>1, TailConcerns, Zenon
  <2>3. \A f : Holds(oneway, f) <=> f = Head(oneway) \/ Holds(Tail(oneway), f)
    BY <1>1, TailHolds, Zenon
  <2>4. QED
    BY <2>1, <2>2, <2>3
<1>3. oneway' = Tail(oneway) /\ posted' = Append(posted, <<"stop", c>>) /\ UNCHANGED bandwidthListeners
  BY DEF RunOneway, unregisterCallback
<1>4. x \in callbacks' <=> x \in callbacks /\ Head(oneway) # <<"unregister", x>>
  <2>1. Head(oneway) = <<"unregister", x>> <=> Head(oneway)[1] = "unregister" /\ Head(oneway)[2] = x
    BY <1>2
  <2>2. QED
    BY <2>1 DEF RunOneway, unregisterCallback
<1>5. /\ Concerns(posted', c) /\ ~LastFor(posted', <<"start", c>>)
      /\ x # c => /\ Concerns(posted', x) <=> Concerns(posted, x)
                  /\ LastFor(posted', <<"start", x>>) <=> LastFor(posted, <<"start", x>>)
  <2> DEFINE T == {"start", "stop"} \X Clients
  <2> DEFINE e == <<"stop", c>>
  <2>1. posted \in Seq(T) /\ e \in T
    BY <1>2 DEF QueueTypes
  <2>2. posted' = Append(posted, e)
    BY <1>3
  <2> HIDE DEF T, e
  <2>3. ASSUME NEW q \in Seq(T), NEW p, p = Append(q, e)
        PROVE  /\ \A y : Concerns(p, y) <=> Concerns(q, y) \/ e[2] = y
               /\ \A f : LastFor(p, f) <=> f = e \/ (f[2] # e[2] /\ LastFor(q, f))
    <3>1. \A y : Concerns(p, y) <=> Concerns(q, y) \/ e[2] = y
      BY <2>1, <2>3, AppendConcerns, Zenon
    <3>2. \A f : LastFor(p, f) <=> f = e \/ (f[2] # e[2] /\ LastFor(q, f))
      BY <2>1, <2>3, AppendLast, Zenon
    <3>3. QED
      BY <3>1, <3>2
  <2>4. /\ \A y : Concerns(posted', y) <=> Concerns(posted, y) \/ e[2] = y
        /\ \A f : LastFor(posted', f) <=> f = e \/ (f[2] # e[2] /\ LastFor(posted, f))
    BY <2>1, <2>2, <2>3, Zenon
  <2>5. QED
    BY <2>4 DEF e
<1>6. Concerns(oneway, x)' <=> Concerns(Tail(oneway), x)
  BY <1>3
<1>7. Unregisters(x)' <=> Holds(Tail(oneway), <<"unregister", x>>)
  BY <1>3 DEF Unregisters
<1>8. WillListen(x)' <=> WillListen(x)
  BY <1>2, <1>3, <1>5, <1>6 DEF WillListen
<1>9. QED
  BY <1>2, <1>4, <1>6, <1>7, <1>8 DEF WillListen, Unregisters

\* Only the connection of c changes.
OnlyConn(c) == \A x \in Clients \ {c} : conn'[x] = conn[x]

\* What each step of a client makes of its connection, and that the other
\* connections stay as they are: connect.
LEMMA ConnectEffect ==
    ASSUME Inv0, NEW c \in Clients, connect(c)
    PROVE  /\ OnlyConn(c)
           /\ conn'[c].active = TRUE /\ conn'[c].bound = conn[c].bound
           /\ conn'[c].at = conn[c].at /\ conn'[c].gone = conn[c].gone
           /\ conn'[c].late = conn[c].late /\ conn'[c].overtaken = conn[c].overtaken
           /\ conn'[c].bandwidth = conn[c].bandwidth /\ conn'[c].blind = conn[c].blind
<1> DEFINE r == [conn[c] EXCEPT !.active = TRUE]
<1>1. conn \in [Clients -> Connections] /\ conn[c] \in Connections
  BY DEF Inv0, TypeOK
<1>2. conn' = [conn EXCEPT ![c] = r]
  BY <1>1 DEF connect
<1>3. /\ r.active = TRUE /\ r.bound = conn[c].bound /\ r.at = conn[c].at
      /\ r.gone = conn[c].gone /\ r.late = conn[c].late /\ r.overtaken = conn[c].overtaken
      /\ r.bandwidth = conn[c].bandwidth /\ r.blind = conn[c].blind
  BY <1>1 DEF Connections
<1> HIDE DEF r
<1>4. conn'[c] = r /\ OnlyConn(c)
  BY <1>1, <1>2 DEF OnlyConn
<1>5. QED
  BY <1>3, <1>4

\* disconnect
LEMMA DisconnectEffect ==
    ASSUME Inv0, NEW c \in Clients, disconnect(c)
    PROVE  /\ OnlyConn(c)
           /\ conn'[c].active = FALSE /\ conn'[c].bound = None
           /\ conn'[c].at = conn[c].at /\ conn'[c].gone = conn[c].gone
           /\ (conn'[c].late <=> conn[c].late /\ ~(Alive(conn[c].service) /\ conn[c].registered)) /\ conn'[c].overtaken = conn[c].overtaken
           /\ conn'[c].bandwidth = conn[c].bandwidth /\ conn'[c].blind = conn[c].blind
<1> DEFINE r == Left(conn[c])
<1>1. conn \in [Clients -> Connections] /\ conn[c] \in Connections
  BY DEF Inv0, TypeOK
<1>2. conn' = [conn EXCEPT ![c] = r]
  BY <1>1 DEF disconnect
<1>3. /\ r.active = FALSE /\ r.bound = None /\ r.at = conn[c].at
      /\ r.gone = conn[c].gone /\ (r.late <=> conn[c].late /\ ~(Alive(conn[c].service) /\ conn[c].registered)) /\ r.overtaken = conn[c].overtaken
      /\ r.bandwidth = conn[c].bandwidth /\ r.blind = conn[c].blind
  BY <1>1, LeftType DEF None
<1> HIDE DEF r
<1>4. conn'[c] = r /\ OnlyConn(c)
  BY <1>1, <1>2 DEF OnlyConn
<1>5. QED
  BY <1>3, <1>4

\* bandwidthTimeout
LEMMA BandwidthEffect ==
    ASSUME Inv0, NEW c \in Clients, bandwidthTimeout(c)
    PROVE  /\ OnlyConn(c)
           /\ conn'[c].active = conn[c].active /\ conn'[c].bound = conn[c].bound
           /\ conn'[c].at = conn[c].at /\ conn'[c].gone = conn[c].gone
           /\ conn'[c].late = conn[c].late /\ conn'[c].overtaken = conn[c].overtaken \cup {x \in {"listen"} : ~conn[c].bandwidth /\ Alive(conn[c].service) /\ Pending(c)}
           /\ conn'[c].bandwidth = ~conn[c].bandwidth /\ conn'[c].blind = conn[c].blind
<1> DEFINE r == [conn[c] EXCEPT !.bandwidth = ~conn[c].bandwidth,
                             !.overtaken = @ \cup {x \in {"listen"} : ~conn[c].bandwidth /\ Alive(conn[c].service) /\ Pending(c)}]
<1>1. conn \in [Clients -> Connections] /\ conn[c] \in Connections
  BY DEF Inv0, TypeOK
<1>2. conn' = [conn EXCEPT ![c] = r]
  BY <1>1 DEF bandwidthTimeout
<1>3. /\ r.active = conn[c].active /\ r.bound = conn[c].bound /\ r.at = conn[c].at
      /\ r.gone = conn[c].gone /\ r.late = conn[c].late /\ r.overtaken = conn[c].overtaken \cup {x \in {"listen"} : ~conn[c].bandwidth /\ Alive(conn[c].service) /\ Pending(c)}
      /\ r.bandwidth = ~conn[c].bandwidth /\ r.blind = conn[c].blind
  BY <1>1 DEF Connections
<1> HIDE DEF r
<1>4. conn'[c] = r /\ OnlyConn(c)
  BY <1>1, <1>2 DEF OnlyConn
<1>5. QED
  BY <1>3, <1>4

\* onServiceConnected
LEMMA ConnectedEffect ==
    ASSUME Inv0, NEW c \in Clients, onServiceConnected(c)
    PROVE  /\ OnlyConn(c)
           /\ conn'[c].active = conn[c].active /\ conn'[c].bound = instance
           /\ conn'[c].at = "register" /\ conn'[c].gone = conn[c].gone
           /\ conn'[c].late = conn[c].late /\ conn'[c].overtaken = conn[c].overtaken
           /\ conn'[c].bandwidth = conn[c].bandwidth /\ conn'[c].blind = conn[c].blind
<1> DEFINE r == [conn[c] EXCEPT !.bound = instance, !.binder = instance, !.service = instance,
                             !.linked = @ \cup {instance}, !.at = "register"]
<1>1. conn \in [Clients -> Connections] /\ conn[c] \in Connections
  BY DEF Inv0, TypeOK
<1>2. conn' = [conn EXCEPT ![c] = r]
  BY <1>1 DEF onServiceConnected
<1>3. /\ r.active = conn[c].active /\ r.bound = instance /\ r.at = "register"
      /\ r.gone = conn[c].gone /\ r.late = conn[c].late /\ r.overtaken = conn[c].overtaken
      /\ r.bandwidth = conn[c].bandwidth /\ r.blind = conn[c].blind
  BY <1>1 DEF Connections
<1> HIDE DEF r
<1>4. conn'[c] = r /\ OnlyConn(c)
  BY <1>1, <1>2 DEF OnlyConn
<1>5. QED
  BY <1>3, <1>4

\* registerCallback that reaches the service
LEMMA RegisterEffect ==
    ASSUME Inv0, NEW c \in Clients, Register(c), Alive(conn[c].bound)
    PROVE  /\ OnlyConn(c)
           /\ conn'[c].active = conn[c].active /\ conn'[c].bound = conn[c].bound
           /\ conn'[c].at = "registered" /\ conn'[c].gone = conn[c].gone
           /\ conn'[c].late = conn[c].late /\ conn'[c].overtaken = {x \in {"register"} : Pending(c)}
           /\ conn'[c].bandwidth = conn[c].bandwidth /\ conn'[c].blind = {x \in {"announced", "earlier"} :
                                  IF x = "announced" THEN announcing # "none"
                                                     ELSE wire[c] # <<>> \/ handler[c] # <<>>}
<1> DEFINE r == [conn[c] EXCEPT !.at = "registered", !.overtaken = {x \in {"register"} : Pending(c)},
                             !.blind = {x \in {"announced", "earlier"} :
                                  IF x = "announced" THEN announcing # "none"
                                                     ELSE wire[c] # <<>> \/ handler[c] # <<>>}]
<1>1. conn \in [Clients -> Connections] /\ conn[c] \in Connections
  BY DEF Inv0, TypeOK
<1>2. conn' = [conn EXCEPT ![c] = r]
  BY <1>1 DEF Register
<1>3. /\ r.active = conn[c].active /\ r.bound = conn[c].bound /\ r.at = "registered"
      /\ r.gone = conn[c].gone /\ r.late = conn[c].late /\ r.overtaken = {x \in {"register"} : Pending(c)}
      /\ r.bandwidth = conn[c].bandwidth /\ r.blind = {x \in {"announced", "earlier"} :
                                  IF x = "announced" THEN announcing # "none"
                                                     ELSE wire[c] # <<>> \/ handler[c] # <<>>}
  BY <1>1 DEF Connections
<1> HIDE DEF r
<1>4. conn'[c] = r /\ OnlyConn(c)
  BY <1>1, <1>2 DEF OnlyConn
<1>5. QED
  BY <1>3, <1>4

\* registerCallback that does not
LEMMA RegisterFails ==
    ASSUME Inv0, NEW c \in Clients, Register(c), ~Alive(conn[c].bound)
    PROVE  /\ OnlyConn(c)
           /\ conn'[c].active = conn[c].active /\ conn'[c].bound = conn[c].bound
           /\ conn'[c].at = "read" /\ conn'[c].gone = conn[c].gone
           /\ conn'[c].late = conn[c].late /\ conn'[c].overtaken = conn[c].overtaken
           /\ conn'[c].bandwidth = conn[c].bandwidth /\ conn'[c].blind = conn[c].blind
<1> DEFINE r == [conn[c] EXCEPT !.at = "read"]
<1>1. conn \in [Clients -> Connections] /\ conn[c] \in Connections
  BY DEF Inv0, TypeOK
<1>2. conn' = [conn EXCEPT ![c] = r]
  BY <1>1 DEF Register
<1>3. /\ r.active = conn[c].active /\ r.bound = conn[c].bound /\ r.at = "read"
      /\ r.gone = conn[c].gone /\ r.late = conn[c].late /\ r.overtaken = conn[c].overtaken
      /\ r.bandwidth = conn[c].bandwidth /\ r.blind = conn[c].blind
  BY <1>1 DEF Connections
<1> HIDE DEF r
<1>4. conn'[c] = r /\ OnlyConn(c)
  BY <1>1, <1>2 DEF OnlyConn
<1>5. QED
  BY <1>3, <1>4

\* startListeningForBandwidth
LEMMA RegisteredEffect ==
    ASSUME Inv0, NEW c \in Clients, Registered(c)
    PROVE  /\ OnlyConn(c)
           /\ conn'[c].active = conn[c].active /\ conn'[c].bound = conn[c].bound
           /\ conn'[c].at = "read" /\ conn'[c].gone = conn[c].gone
           /\ conn'[c].late = conn[c].late /\ conn'[c].overtaken = conn[c].overtaken
           /\ conn'[c].bandwidth = conn[c].bandwidth /\ conn'[c].blind = conn[c].blind
<1> DEFINE r == [conn[c] EXCEPT !.registered = TRUE, !.at = "read"]
<1>1. conn \in [Clients -> Connections] /\ conn[c] \in Connections
  BY DEF Inv0, TypeOK
<1>2. conn' = [conn EXCEPT ![c] = r]
  BY <1>1 DEF Registered
<1>3. /\ r.active = conn[c].active /\ r.bound = conn[c].bound /\ r.at = "read"
      /\ r.gone = conn[c].gone /\ r.late = conn[c].late /\ r.overtaken = conn[c].overtaken
      /\ r.bandwidth = conn[c].bandwidth /\ r.blind = conn[c].blind
  BY <1>1 DEF Connections
<1> HIDE DEF r
<1>4. conn'[c] = r /\ OnlyConn(c)
  BY <1>1, <1>2 DEF OnlyConn
<1>5. QED
  BY <1>3, <1>4

\* getState
LEMMA ReadEffect ==
    ASSUME Inv0, NEW c \in Clients, ReadState(c)
    PROVE  /\ OnlyConn(c)
           /\ conn'[c].active = conn[c].active /\ conn'[c].bound = conn[c].bound
           /\ conn'[c].at = "idle" /\ conn'[c].gone = conn[c].gone
           /\ conn'[c].late = conn[c].late /\ conn'[c].overtaken = conn[c].overtaken
           /\ conn'[c].bandwidth = conn[c].bandwidth /\ conn'[c].blind = IF announcing = "none" THEN conn[c].blind \ {"announced"} ELSE conn[c].blind
<1> DEFINE r == [conn[c] EXCEPT !.at = "idle",
                             !.blind = IF announcing = "none" THEN @ \ {"announced"} ELSE @]
<1>1. conn \in [Clients -> Connections] /\ conn[c] \in Connections
  BY DEF Inv0, TypeOK
<1>2. conn' = [conn EXCEPT ![c] = r]
  BY <1>1 DEF ReadState
<1>3. /\ r.active = conn[c].active /\ r.bound = conn[c].bound /\ r.at = "idle"
      /\ r.gone = conn[c].gone /\ r.late = conn[c].late /\ r.overtaken = conn[c].overtaken
      /\ r.bandwidth = conn[c].bandwidth /\ r.blind = IF announcing = "none" THEN conn[c].blind \ {"announced"} ELSE conn[c].blind
  BY <1>1 DEF Connections
<1> HIDE DEF r
<1>4. conn'[c] = r /\ OnlyConn(c)
  BY <1>1, <1>2 DEF OnlyConn
<1>5. QED
  BY <1>3, <1>4

\* onServiceDisconnected
LEMMA DisconnectedEffect ==
    ASSUME Inv0, NEW c \in Clients, onServiceDisconnected(c)
    PROVE  /\ OnlyConn(c)
           /\ conn'[c].active = conn[c].active /\ conn'[c].bound = None
           /\ conn'[c].at = conn[c].at /\ conn'[c].gone = conn[c].gone
           /\ conn'[c].late = conn[c].late /\ conn'[c].overtaken = conn[c].overtaken
           /\ conn'[c].bandwidth = conn[c].bandwidth /\ conn'[c].blind = conn[c].blind
<1> DEFINE r == [conn[c] EXCEPT !.bound = None, !.binder = None, !.service = None, !.registered = FALSE]
<1>1. conn \in [Clients -> Connections] /\ conn[c] \in Connections
  BY DEF Inv0, TypeOK
<1>2. conn' = [conn EXCEPT ![c] = r]
  BY <1>1 DEF onServiceDisconnected
<1>3. /\ r.active = conn[c].active /\ r.bound = None /\ r.at = conn[c].at
      /\ r.gone = conn[c].gone /\ r.late = conn[c].late /\ r.overtaken = conn[c].overtaken
      /\ r.bandwidth = conn[c].bandwidth /\ r.blind = conn[c].blind
  BY <1>1 DEF Connections, None
<1> HIDE DEF r
<1>4. conn'[c] = r /\ OnlyConn(c)
  BY <1>1, <1>2 DEF OnlyConn
<1>5. QED
  BY <1>3, <1>4

\* binderDied
LEMMA DiedEffect ==
    ASSUME Inv0, NEW c \in Clients, NEW i, binderDied(c, i)
    PROVE  /\ OnlyConn(c)
           /\ conn'[c].active = conn[c].active /\ conn'[c].bound = conn[c].bound
           /\ conn'[c].at = conn[c].at /\ conn'[c].gone = conn[c].gone
           /\ (conn'[c].late <=> conn[c].late \/ conn[c].bound \notin {None, i}) /\ conn'[c].overtaken = conn[c].overtaken
           /\ conn'[c].bandwidth = conn[c].bandwidth /\ conn'[c].blind = conn[c].blind
<1> DEFINE r == [conn[c] EXCEPT !.linked = @ \ {i}, !.service = None, !.registered = FALSE,
                             !.late = @ \/ conn[c].bound \notin {None, i}]
<1>1. conn \in [Clients -> Connections] /\ conn[c] \in Connections
  BY DEF Inv0, TypeOK
<1>2. conn' = [conn EXCEPT ![c] = r]
  BY <1>1 DEF binderDied
<1>3. /\ r.active = conn[c].active /\ r.bound = conn[c].bound /\ r.at = conn[c].at
      /\ r.gone = conn[c].gone /\ (r.late <=> conn[c].late \/ conn[c].bound \notin {None, i}) /\ r.overtaken = conn[c].overtaken
      /\ r.bandwidth = conn[c].bandwidth /\ r.blind = conn[c].blind
  BY <1>1 DEF Connections, None
<1> HIDE DEF r
<1>4. conn'[c] = r /\ OnlyConn(c)
  BY <1>1, <1>2 DEF OnlyConn
<1>5. QED
  BY <1>3, <1>4

\* onBinderDied
LEMMA RestartEffect ==
    ASSUME Inv0, NEW c \in Clients, onBinderDied(c)
    PROVE  /\ OnlyConn(c)
           /\ conn'[c].active = TRUE /\ conn'[c].bound = None
           /\ conn'[c].at = conn[c].at /\ conn'[c].gone = conn[c].gone
           /\ (conn'[c].late <=> conn[c].late /\ ~(Alive(conn[c].service) /\ conn[c].registered)) /\ conn'[c].overtaken = conn[c].overtaken
           /\ conn'[c].bandwidth = conn[c].bandwidth /\ conn'[c].blind = conn[c].blind
<1> DEFINE r == [Left(conn[c]) EXCEPT !.active = TRUE]
<1>1. conn \in [Clients -> Connections] /\ conn[c] \in Connections
  BY DEF Inv0, TypeOK
<1>2. conn' = [conn EXCEPT ![c] = r]
  BY <1>1 DEF onBinderDied
<1>3. /\ r.active = TRUE /\ r.bound = None /\ r.at = conn[c].at
      /\ r.gone = conn[c].gone /\ (r.late <=> conn[c].late /\ ~(Alive(conn[c].service) /\ conn[c].registered)) /\ r.overtaken = conn[c].overtaken
      /\ r.bandwidth = conn[c].bandwidth /\ r.blind = conn[c].blind
  BY <1>1, LeftType DEF None
<1> HIDE DEF r
<1>4. conn'[c] = r /\ OnlyConn(c)
  BY <1>1, <1>2 DEF OnlyConn
<1>5. QED
  BY <1>3, <1>4

\* The process of the client dies.
LEMMA KilledEffect ==
    ASSUME Inv0, NEW c \in Clients, ClientDies(c)
    PROVE  /\ OnlyConn(c)
           /\ conn'[c].active = FALSE /\ conn'[c].bound = None
           /\ conn'[c].at = "idle" /\ conn'[c].gone = TRUE
           /\ conn'[c].late = FALSE /\ conn'[c].overtaken = conn[c].overtaken
           /\ conn'[c].bandwidth = FALSE /\ conn'[c].blind = {}
<1> DEFINE r == [Disconnected EXCEPT !.gone = TRUE, !.overtaken = conn[c].overtaken]
<1>1. conn \in [Clients -> Connections] /\ conn[c] \in Connections
  BY DEF Inv0, TypeOK
<1>2. conn' = [conn EXCEPT ![c] = r]
  BY <1>1 DEF ClientDies
<1>3. /\ r.active = FALSE /\ r.bound = None /\ r.at = "idle"
      /\ r.gone = TRUE /\ r.late = FALSE /\ r.overtaken = conn[c].overtaken
      /\ r.bandwidth = FALSE /\ r.blind = {}
  BY <1>1 DEF Connections, Disconnected, None
<1> HIDE DEF r
<1>4. conn'[c] = r /\ OnlyConn(c)
  BY <1>1, <1>2 DEF OnlyConn
<1>5. QED
  BY <1>3, <1>4

\* What is under way for x, and its connection, stay as they are.
LEMMA Frame ==
    ASSUME NEW x \in Clients, RegisterInv(x), ListenInv(x), CallsKept(x), UNCHANGED <<instance, up>>,
           x \in callbacks' <=> x \in callbacks,
           conn'[x].active = conn[x].active, conn'[x].bound = conn[x].bound,
           conn'[x].at = conn[x].at, conn'[x].gone = conn[x].gone, conn'[x].late = conn[x].late,
           conn'[x].overtaken = conn[x].overtaken, conn'[x].bandwidth = conn[x].bandwidth
    PROVE  RegisterInv(x)' /\ ListenInv(x)'
  BY DEF RegisterInv, ListenInv, In, Through, Alive, CallsKept

\* Nothing of the queues and of the listeners changes.
LEMMA NoCalls ==
    ASSUME UNCHANGED <<oneway, posted, bandwidthListeners>>, NEW x
    PROVE  CallsKept(x)
  BY DEF CallsKept, Concerns, Unregisters, Holds, WillListen, LastFor

\* Without an instance nothing is under way.
LEMMA NoneUnderWay ==
    ASSUME NEW x, posted = <<>>, oneway = <<>>, bandwidthListeners = {}
    PROVE  ~Concerns(oneway, x) /\ ~Unregisters(x) /\ ~WillListen(x)
  BY DEF Concerns, Unregisters, Holds, WillListen, LastFor

\* A client step: the invariant of the others is kept if nothing is under way
\* for them that was not before.
LEMMA OthersKeep ==
    ASSUME NEW c \in Clients, OnlyConn(c), UNCHANGED <<instance, up>>,
           \A x \in Clients : RegisterInv(x) /\ ListenInv(x),
           \A x \in Clients \ {c} : CallsKept(x) /\ (x \in callbacks' <=> x \in callbacks),
           RegisterInv(c)' /\ ListenInv(c)'
    PROVE  \A x \in Clients : RegisterInv(x)' /\ ListenInv(x)'
<1>1. ASSUME NEW x \in Clients, x # c PROVE RegisterInv(x)' /\ ListenInv(x)'
  <2>1. conn'[x] = conn[x] /\ CallsKept(x) /\ (x \in callbacks' <=> x \in callbacks)
    BY <1>1 DEF OnlyConn
  <2>2. QED
    BY <2>1, Frame
<1>2. QED
  BY <1>1

RegInv == \A x \in Clients : RegisterInv(x) /\ ListenInv(x)

\* What the service has of a client agrees with what the client believes, as
\* far as what is under way between them will make it so.
THEOREM Registrations == Spec => []RegInv
<1>1. Init => RegInv
  <2> SUFFICES ASSUME Init PROVE RegInv
    OBVIOUS
  <2>1. \A x \in Clients : ~Concerns(oneway, x) /\ ~Unregisters(x) /\ ~WillListen(x)
    BY NoneUnderWay DEF Init
  <2>2. ~up /\ callbacks = {} /\ \A x \in Clients : conn[x].at = "idle"
    BY DEF Init, Disconnected
  <2>3. QED
    BY <2>1, <2>2 DEF RegInv, RegisterInv, ListenInv, In, Through, Alive
<1>2. Inv0 /\ RegInv /\ [Next]_vars => RegInv'
  <2> SUFFICES ASSUME Inv0, RegInv, [Next]_vars PROVE RegInv'
    OBVIOUS
  <2> USE DEF service
  <2>0. /\ QueueTypes /\ ~Alive(None) /\ instance \in Nat
        /\ \A c \in Clients : conn[c] \in Connections /\ conn[c].bound \in Nat /\ Sound(conn[c])
    BY BinderAssumption, ClientTypes DEF Inv0, TypeOK, InstanceInv, QueueTypes, ConnInv, Alive
  <2>a. \A x : Unregisters(x) => Concerns(oneway, x)
    BY DEF Unregisters, Holds, Concerns
  <2>b. \A x : Concerns(oneway, x) <=> Pending(x)
    BY DEF Pending, Concerns
  <2>1. CASE UNCHANGED <<instance, up, callbacks, bandwidthListeners, posted, oneway, conn>>
    <3>1. ASSUME NEW x \in Clients PROVE RegisterInv(x)' /\ ListenInv(x)'
      <4>1. CallsKept(x) /\ conn'[x] = conn[x] /\ (x \in callbacks' <=> x \in callbacks)
        BY <2>1, NoCalls
      <4>2. QED
        BY <2>1, <4>1, Frame DEF RegInv
    <3>2. QED
      BY <3>1 DEF RegInv
  <2>2. CASE Create
    <3>1. ~up /\ posted' = <<>> /\ oneway' = <<>> /\ bandwidthListeners' = {} /\ callbacks' = {}
      BY <2>2 DEF Create, Inv0, InstanceInv
    <3>2. \A x \in Clients : ~Concerns(oneway, x)' /\ ~Unregisters(x)' /\ ~WillListen(x)'
      BY <3>1, NoneUnderWay DEF Concerns, Unregisters, Holds, WillListen, LastFor
    <3>3. \A x \in Clients : ~In(x)' /\ ~Through(x)'
      BY <2>0, <2>2 DEF Create, In, Through, Alive, Sound
    <3>4. QED
      BY <3>1, <3>2, <3>3 DEF RegInv, RegisterInv, ListenInv
  <2>3. CASE Ends
    <3>1. up' = FALSE /\ posted' = <<>> /\ oneway' = <<>> /\ bandwidthListeners' = {} /\ callbacks' = {}
      BY <2>3 DEF Ends
    <3>2. \A x \in Clients : ~Concerns(oneway, x)' /\ ~Unregisters(x)' /\ ~WillListen(x)'
      BY <3>1, NoneUnderWay DEF Concerns, Unregisters, Holds, WillListen, LastFor
    <3>3. \A x \in Clients : ~In(x)' /\ ~Through(x)'
      BY <3>1 DEF In, Through, Alive
    <3>4. QED
      BY <3>1, <3>2, <3>3 DEF RegInv, RegisterInv, ListenInv
  <2>4. ASSUME NEW s \in States, Announce(s) PROVE RegInv'
    <3>1. ASSUME NEW x \in Clients PROVE RegisterInv(x)' /\ ListenInv(x)'
      <4>1. conn'[x] = conn[x] \/ conn'[x] = [conn[x] EXCEPT !.blind = {}]
        BY <2>4 DEF Announce
      <4>2. /\ conn'[x].active = conn[x].active /\ conn'[x].bound = conn[x].bound
            /\ conn'[x].at = conn[x].at /\ conn'[x].gone = conn[x].gone /\ conn'[x].late = conn[x].late
            /\ conn'[x].overtaken = conn[x].overtaken /\ conn'[x].bandwidth = conn[x].bandwidth
        BY <2>0, <4>1 DEF Connections
      <4>3. UNCHANGED <<instance, up, callbacks, bandwidthListeners, posted, oneway>>
        BY <2>4 DEF Announce
      <4>4. CallsKept(x)
        BY <4>3, NoCalls
      <4>5. QED
        BY <4>2, <4>3, <4>4, Frame DEF RegInv
    <3>2. QED
      BY <3>1 DEF RegInv
  <2>5. CASE RunPosted
    <3>1. UNCHANGED <<instance, up, callbacks, conn>>
      BY <2>5 DEF RunPosted
    <3>2. \A x \in Clients : CallsKept(x)
      BY <2>0, <2>5, RunsPosted
    <3>3. ASSUME NEW x \in Clients PROVE RegisterInv(x)' /\ ListenInv(x)'
      BY <3>1, <3>2, Frame DEF RegInv
    <3>4. QED
      BY <3>3 DEF RegInv
  <2>6. CASE RunOneway
    <3>1. UNCHANGED <<instance, up, conn>>
      BY <2>6 DEF RunOneway
    <3>2. ASSUME NEW x \in Clients PROVE RegisterInv(x)' /\ ListenInv(x)'
      <4>1. /\ WillListen(x)' <=> WillListen(x)
            /\ WillListen(x) => Head(oneway)[2] # x
            /\ Concerns(oneway, x)' => Concerns(oneway, x)
            /\ Unregisters(x) <=> Unregisters(x)' \/ Head(oneway) = <<"unregister", x>>
            /\ x \in callbacks' <=> x \in callbacks /\ Head(oneway) # <<"unregister", x>>
        BY <2>0, <2>6, RunsOneway
      <4>2. RegisterInv(x)'
        BY <3>1, <4>1 DEF RegInv, RegisterInv, In, Alive
      <4>3. ListenInv(x)'
        BY <3>1, <4>1 DEF RegInv, ListenInv, In, Through, Alive
      <4>4. QED
        BY <4>2, <4>3
    <3>3. QED
      BY <3>2 DEF RegInv
  <2>7. ASSUME NEW c \in Clients, onCallbackDied(c) PROVE RegInv'
    <3>1. /\ UNCHANGED <<instance, up, conn, oneway, bandwidthListeners>> /\ conn[c].gone
          /\ posted' = Append(posted, <<"stop", c>>) /\ callbacks' = callbacks \ {c}
      BY <2>7 DEF onCallbackDied
    <3>2. /\ \A x \in Clients \ {c} : CallsKept(x)
          /\ WillListen(c)' <=> "stop" = "start" /\ ~Concerns(oneway, c)
      BY <2>0, <3>1, Posts
    <3>3. OnlyConn(c) /\ \A x \in Clients \ {c} : x \in callbacks' <=> x \in callbacks
      BY <3>1 DEF OnlyConn
    <3>4. ~conn'[c].active /\ conn'[c].gone /\ conn'[c].at = "idle" /\ ~WillListen(c)'
      BY <2>0, <3>1, <3>2 DEF Sound
    <3>5. RegisterInv(c)' /\ ListenInv(c)'
      BY <3>4 DEF RegisterInv, ListenInv, In, Through
    <3>6. QED
      BY <3>1, <3>2, <3>3, <3>5, OthersKeep DEF RegInv
  <2>8. ASSUME NEW c \in Clients, connect(c) PROVE RegInv'
    <3>1. UNCHANGED <<instance, up, callbacks, bandwidthListeners, posted, oneway>> /\ ~conn[c].active
      BY <2>8 DEF connect
    <3>2. OnlyConn(c) /\ \A x \in Clients : CallsKept(x) /\ (x \in callbacks' <=> x \in callbacks)
      BY <2>8, <3>1, ConnectEffect, NoCalls
    <3>3. RegisterInv(c) /\ ListenInv(c) /\ Sound(conn[c]) /\ CallsKept(c)
      BY <2>0, <3>2 DEF RegInv
    <3>4. RegisterInv(c)' /\ ListenInv(c)'
      BY <2>0, <2>8, <3>1, <3>2, <3>3, ConnectEffect DEF RegisterInv, ListenInv, In, Through, Alive, Sound, CallsKept, None
    <3>5. QED
      BY <3>1, <3>2, <3>4, OthersKeep DEF RegInv
  <2>9. ASSUME NEW c \in Clients, disconnect(c) PROVE RegInv'
    <3>1. /\ UNCHANGED <<instance, up, callbacks, bandwidthListeners, posted>>
          /\ oneway' = oneway \o Goodbye(c) /\ conn[c].at = "idle" /\ ~conn[c].gone
      BY <2>9 DEF disconnect, Free
    <3>2. /\ \A x \in Clients \ {c} : CallsKept(x)
          /\ ~Alive(conn[c].service) => CallsKept(c)
          /\ Alive(conn[c].service) => /\ Concerns(oneway, c)' /\ ~WillListen(c)'
                                       /\ Unregisters(c)' <=> Unregisters(c) \/ conn[c].registered
      BY <2>0, <3>1, SaysGoodbye
    <3>3. RegisterInv(c) /\ ListenInv(c) /\ Sound(conn[c])
      BY <2>0 DEF RegInv
    <3>4. /\ OnlyConn(c) /\ conn'[c].at = "idle" /\ conn'[c].overtaken = conn[c].overtaken
          /\ (conn'[c].late <=> conn[c].late /\ ~(Alive(conn[c].service) /\ conn[c].registered))
          /\ conn'[c].bound = None
      BY <2>9, <3>1, DisconnectEffect
    <3>5. ~In(c)' /\ ~Through(c)'
      BY <2>0, <3>1, <3>4 DEF In, Through, Alive
    <3>6. ASSUME Alive(conn[c].service) PROVE RegisterInv(c)' /\ ListenInv(c)'
      <4>1. In(c) /\ Through(c)
        BY <2>0, <3>1, <3>3, <3>6 DEF In, Through, Sound
      <4>2. ~conn'[c].late => conn[c].registered
        BY <3>1, <3>3, <3>4, <4>1 DEF In, Sound
      <4>3. QED
        BY <3>2, <3>3, <3>4, <3>5, <3>6, <4>2 DEF RegisterInv, ListenInv
    <3>7. ASSUME ~Alive(conn[c].service) PROVE RegisterInv(c)' /\ ListenInv(c)'
      <4>1. ~conn'[c].late => ~In(c) /\ ~Through(c) /\ ~conn[c].late
        BY <3>1, <3>3, <3>4, <3>7 DEF In, Through, Sound
      <4>2. QED
        BY <3>1, <3>2, <3>3, <3>4, <3>5, <3>7, <4>1 DEF RegisterInv, ListenInv, CallsKept
    <3>8. QED
      BY <3>1, <3>2, <3>4, <3>6, <3>7, OthersKeep DEF RegInv
  <2>10. ASSUME NEW c \in Clients, bandwidthTimeout(c) PROVE RegInv'
    <3> DEFINE on == ~conn[c].bandwidth
    <3> DEFINE reached == Alive(conn[c].service)
    <3>1. /\ UNCHANGED <<instance, up, callbacks, bandwidthListeners>>
          /\ conn[c].at = "idle" /\ ~conn[c].gone /\ conn[c].active
          /\ posted' = IF on /\ reached THEN Append(posted, <<"start", c>>) ELSE posted
          /\ oneway' = IF ~on /\ reached THEN Append(oneway, <<"stop", c>>) ELSE oneway
      BY <2>10 DEF bandwidthTimeout, Free
    <3>2. RegisterInv(c) /\ ListenInv(c) /\ Sound(conn[c])
      BY <2>0 DEF RegInv
    <3>3. /\ OnlyConn(c) /\ conn'[c].active = conn[c].active /\ conn'[c].bound = conn[c].bound
          /\ conn'[c].at = conn[c].at /\ conn'[c].gone = conn[c].gone /\ conn'[c].late = conn[c].late
          /\ conn'[c].bandwidth = on
          /\ conn'[c].overtaken = conn[c].overtaken \cup {x \in {"listen"} : on /\ reached /\ Pending(c)}
      BY <2>10, BandwidthEffect
    <3>4. /\ In(c)' <=> In(c)
          /\ Through(c)' <=> Through(c)
          /\ "register" \in conn'[c].overtaken <=> "register" \in conn[c].overtaken
      BY <3>1, <3>3 DEF In, Through, Alive
    <3>5. reached => In(c) /\ Through(c)
      BY <2>0, <3>1, <3>2 DEF In, Through, Sound
    <3>6. Through(c) /\ ~conn[c].late => reached
      BY <3>2 DEF In, Through, Sound
    <3> HIDE DEF on, reached
    <3>7. CASE ~reached
      <4>1. \A x \in Clients : CallsKept(x)
        BY <3>1, <3>7, NoCalls
      <4>2. RegisterInv(c)' /\ ListenInv(c)'
        BY <3>1, <3>2, <3>3, <3>4, <3>6, <3>7, <4>1 DEF RegisterInv, ListenInv, CallsKept
      <4>3. QED
        BY <3>1, <3>3, <4>1, <4>2, OthersKeep DEF RegInv
    <3>8. CASE reached /\ on
      <4>1. /\ \A x \in Clients \ {c} : CallsKept(x)
            /\ Concerns(oneway, c)' <=> Concerns(oneway, c)
            /\ Unregisters(c)' <=> Unregisters(c)
            /\ WillListen(c)' <=> "start" = "start" /\ ~Concerns(oneway, c)
        BY <2>0, <3>1, <3>8, Posts
      <4>2. conn'[c].overtaken = {} => ~Concerns(oneway, c)
        BY <2>b, <3>3, <3>8
      <4>3. RegisterInv(c)' /\ ListenInv(c)'
        BY <3>1, <3>2, <3>3, <3>4, <3>5, <3>8, <4>1, <4>2 DEF RegisterInv, ListenInv
      <4>4. QED
        BY <3>1, <3>3, <4>1, <4>3, OthersKeep DEF RegInv
    <3>9. CASE reached /\ ~on
      <4>1. /\ \A x \in Clients \ {c} : CallsKept(x)
            /\ Concerns(oneway, c)' /\ ~WillListen(c)'
            /\ Unregisters(c)' <=> Unregisters(c)
        <5>1. oneway' = Append(oneway, <<"stop", c>>) /\ UNCHANGED <<posted, bandwidthListeners>>
          BY <3>1, <3>9
        <5>2. "stop" \in {"unregister", "stop"} /\ "stop" # "unregister"
          OBVIOUS
        <5> DEFINE p == Append(oneway, <<"stop", c>>)
        <5>0. oneway \in Seq({"unregister", "stop"} \X Clients)
          BY <2>0 DEF QueueTypes
        <5>3. /\ p \in Seq({"unregister", "stop"} \X Clients)
              /\ \A x \in Clients \ {c} : /\ Concerns(p, x) <=> Concerns(oneway, x)
                                          /\ Holds(p, <<"unregister", x>>) <=> Holds(oneway, <<"unregister", x>>)
              /\ Concerns(p, c)
              /\ Holds(p, <<"unregister", c>>) <=> Holds(oneway, <<"unregister", c>>) \/ "stop" = "unregister"
          BY <5>0, <5>2, Sends, Zenon
        <5>4. /\ \A x \in Clients \ {c} : /\ Concerns(oneway', x) <=> Concerns(oneway, x)
                                          /\ Holds(oneway', <<"unregister", x>>) <=> Holds(oneway, <<"unregister", x>>)
              /\ Concerns(oneway', c)
              /\ Holds(oneway', <<"unregister", c>>) <=> Holds(oneway, <<"unregister", c>>)
          BY <5>1, <5>2, <5>3, Zenon
        <5>5. QED
          BY <5>1, <5>4 DEF CallsKept, WillListen, Unregisters
      <4>2. conn'[c].bandwidth = FALSE
        BY <3>3, <3>9
      <4>3. RegisterInv(c)' /\ ListenInv(c)'
        BY <3>1, <3>2, <3>3, <3>4, <3>5, <3>9, <4>1, <4>2 DEF RegisterInv, ListenInv
      <4>4. QED
        BY <3>1, <3>3, <4>1, <4>3, OthersKeep DEF RegInv
    <3>10. QED
      BY <3>7, <3>8, <3>9
  <2>11. ASSUME NEW c \in Clients, onServiceConnected(c) PROVE RegInv'
    <3>1. UNCHANGED <<instance, up, callbacks, bandwidthListeners, posted, oneway>> /\ conn[c].bound = None
      BY <2>11 DEF onServiceConnected
    <3>2. OnlyConn(c) /\ \A x \in Clients : CallsKept(x) /\ (x \in callbacks' <=> x \in callbacks)
      BY <2>11, <3>1, ConnectedEffect, NoCalls
    <3>3. RegisterInv(c) /\ ListenInv(c) /\ Sound(conn[c]) /\ CallsKept(c)
      BY <2>0, <3>2 DEF RegInv
    <3>4. RegisterInv(c)' /\ ListenInv(c)'
      BY <2>0, <2>11, <3>1, <3>2, <3>3, ConnectedEffect DEF RegisterInv, ListenInv, In, Through, Alive, Sound, CallsKept, None
    <3>5. QED
      BY <3>1, <3>2, <3>4, OthersKeep DEF RegInv
  <2>12. ASSUME NEW c \in Clients, Register(c) PROVE RegInv'
    <3>1. /\ UNCHANGED <<instance, up, bandwidthListeners, posted, oneway>>
          /\ conn[c].at = "register" /\ ~conn[c].gone
      BY <2>12 DEF Register
    <3>2. \A x \in Clients : CallsKept(x)
      BY <3>1, NoCalls
    <3>3. RegisterInv(c) /\ ListenInv(c) /\ Sound(conn[c]) /\ CallsKept(c)
      BY <2>0, <3>2 DEF RegInv
    <3>4. CASE Alive(conn[c].bound)
      <4>1. callbacks' = callbacks \cup {c}
        BY <2>12, <3>4 DEF Register
      <4>2. /\ OnlyConn(c) /\ conn'[c].active = conn[c].active /\ conn'[c].bound = conn[c].bound
            /\ conn'[c].at = "registered" /\ conn'[c].gone = conn[c].gone /\ conn'[c].late = conn[c].late
            /\ conn'[c].overtaken = {x \in {"register"} : Pending(c)}
        BY <2>12, <3>4, RegisterEffect
      <4>3. "register" \notin conn'[c].overtaken => ~Concerns(oneway, c)
        BY <2>b, <4>2
      <4>4. ~Through(c) /\ ~Through(c)' /\ conn'[c].active /\ In(c)' /\ c \in callbacks'
        BY <3>1, <3>3, <3>4, <4>1, <4>2 DEF In, Through, Sound, Alive
      <4>5. RegisterInv(c)' /\ ListenInv(c)'
        BY <2>a, <3>3, <4>2, <4>3, <4>4 DEF RegisterInv, ListenInv, CallsKept
      <4>6. QED
        BY <3>1, <3>2, <4>1, <4>2, <4>5, OthersKeep DEF RegInv
    <3>5. CASE ~Alive(conn[c].bound)
      <4>1. callbacks' = callbacks
        BY <2>12, <3>5 DEF Register
      <4>2. OnlyConn(c)
        BY <2>12, <3>5, RegisterFails
      <4>3. RegisterInv(c)' /\ ListenInv(c)'
        BY <2>12, <3>1, <3>3, <3>5, <4>1, RegisterFails DEF RegisterInv, ListenInv, In, Through, Alive, CallsKept
      <4>4. QED
        BY <3>1, <3>2, <4>1, <4>2, <4>3, OthersKeep DEF RegInv
    <3>6. QED
      BY <3>4, <3>5
  <2>13. ASSUME NEW c \in Clients, Registered(c) PROVE RegInv'
    <3>1. /\ UNCHANGED <<instance, up, callbacks, bandwidthListeners, oneway>>
          /\ conn[c].at = "registered" /\ ~conn[c].gone
          /\ posted' = IF conn[c].bandwidth /\ Alive(conn[c].bound)
                       THEN Append(posted, <<"start", c>>) ELSE posted
      BY <2>13 DEF Registered
    <3>2. RegisterInv(c) /\ ListenInv(c) /\ Sound(conn[c])
      BY <2>0 DEF RegInv
    <3>3. /\ OnlyConn(c) /\ conn'[c].active = conn[c].active /\ conn'[c].bound = conn[c].bound
          /\ conn'[c].at = "read" /\ conn'[c].gone = conn[c].gone /\ conn'[c].late = conn[c].late
          /\ conn'[c].overtaken = conn[c].overtaken /\ conn'[c].bandwidth = conn[c].bandwidth
      BY <2>13, RegisteredEffect
    <3>4. /\ In(c)' <=> In(c)
          /\ Through(c)' <=> In(c)
          /\ ~Through(c)
          /\ In(c) <=> Alive(conn[c].bound)
      BY <3>1, <3>2, <3>3 DEF In, Through, Alive, Sound
    <3>5. CASE conn[c].bandwidth /\ Alive(conn[c].bound)
      <4>1. /\ \A x \in Clients \ {c} : CallsKept(x)
            /\ Concerns(oneway, c)' <=> Concerns(oneway, c)
            /\ Unregisters(c)' <=> Unregisters(c)
            /\ WillListen(c)' <=> "start" = "start" /\ ~Concerns(oneway, c)
        BY <2>0, <3>1, <3>5, Posts
      <4>2. RegisterInv(c)' /\ ListenInv(c)'
        BY <3>1, <3>2, <3>3, <3>4, <3>5, <4>1 DEF RegisterInv, ListenInv
      <4>3. QED
        BY <3>1, <3>3, <4>1, <4>2, OthersKeep DEF RegInv
    <3>6. CASE ~(conn[c].bandwidth /\ Alive(conn[c].bound))
      <4>1. \A x \in Clients : CallsKept(x)
        BY <3>1, <3>6, NoCalls
      <4>2. RegisterInv(c)' /\ ListenInv(c)'
        BY <3>1, <3>2, <3>3, <3>4, <3>6, <4>1 DEF RegisterInv, ListenInv, CallsKept
      <4>3. QED
        BY <3>1, <3>3, <4>1, <4>2, OthersKeep DEF RegInv
    <3>7. QED
      BY <3>5, <3>6
  <2>14. ASSUME NEW c \in Clients, ReadState(c) PROVE RegInv'
    <3>1. UNCHANGED <<instance, up, callbacks, bandwidthListeners, posted, oneway>> /\ conn[c].at = "read"
      BY <2>14 DEF ReadState
    <3>2. OnlyConn(c) /\ \A x \in Clients : CallsKept(x) /\ (x \in callbacks' <=> x \in callbacks)
      BY <2>14, <3>1, ReadEffect, NoCalls
    <3>3. RegisterInv(c) /\ ListenInv(c) /\ Sound(conn[c]) /\ CallsKept(c)
      BY <2>0, <3>2 DEF RegInv
    <3>4. RegisterInv(c)' /\ ListenInv(c)'
      BY <2>0, <2>14, <3>1, <3>2, <3>3, ReadEffect DEF RegisterInv, ListenInv, In, Through, Alive, Sound, CallsKept, None
    <3>5. QED
      BY <3>1, <3>2, <3>4, OthersKeep DEF RegInv
  <2>15. ASSUME NEW c \in Clients, onServiceDisconnected(c) PROVE RegInv'
    <3>1. UNCHANGED <<instance, up, callbacks, bandwidthListeners, posted, oneway>>
          /\ ~Alive(conn[c].bound) /\ conn[c].at = "idle"
      BY <2>15 DEF onServiceDisconnected, Free
    <3>2. OnlyConn(c) /\ \A x \in Clients : CallsKept(x) /\ (x \in callbacks' <=> x \in callbacks)
      BY <2>15, <3>1, DisconnectedEffect, NoCalls
    <3>3. RegisterInv(c) /\ ListenInv(c) /\ Sound(conn[c]) /\ CallsKept(c)
      BY <2>0, <3>2 DEF RegInv
    <3>4. RegisterInv(c)' /\ ListenInv(c)'
      BY <2>0, <2>15, <3>1, <3>2, <3>3, DisconnectedEffect DEF RegisterInv, ListenInv, In, Through, Alive, Sound, CallsKept, None
    <3>5. QED
      BY <3>1, <3>2, <3>4, OthersKeep DEF RegInv
  <2>16. ASSUME NEW c \in Clients, NEW i \in 1 .. MaxInstances, binderDied(c, i) PROVE RegInv'
    <3>1. UNCHANGED <<instance, up, callbacks, bandwidthListeners, posted, oneway>>
      BY <2>16 DEF binderDied
    <3>2. OnlyConn(c) /\ \A x \in Clients : CallsKept(x) /\ (x \in callbacks' <=> x \in callbacks)
      BY <2>16, <3>1, DiedEffect, NoCalls
    <3>3. RegisterInv(c) /\ ListenInv(c) /\ Sound(conn[c]) /\ CallsKept(c)
      BY <2>0, <3>2 DEF RegInv
    <3>4. RegisterInv(c)' /\ ListenInv(c)'
      BY <2>0, <2>16, <3>1, <3>2, <3>3, DiedEffect DEF RegisterInv, ListenInv, In, Through, Alive, Sound, CallsKept, None
    <3>5. QED
      BY <3>1, <3>2, <3>4, OthersKeep DEF RegInv
  <2>17. ASSUME NEW c \in Clients, onBinderDied(c) PROVE RegInv'
    <3>1. /\ UNCHANGED <<instance, up, callbacks, bandwidthListeners, posted>>
          /\ oneway' = oneway \o Goodbye(c) /\ conn[c].at = "idle" /\ ~conn[c].gone
      BY <2>17 DEF onBinderDied, Free
    <3>2. /\ \A x \in Clients \ {c} : CallsKept(x)
          /\ ~Alive(conn[c].service) => CallsKept(c)
          /\ Alive(conn[c].service) => /\ Concerns(oneway, c)' /\ ~WillListen(c)'
                                       /\ Unregisters(c)' <=> Unregisters(c) \/ conn[c].registered
      BY <2>0, <3>1, SaysGoodbye
    <3>3. RegisterInv(c) /\ ListenInv(c) /\ Sound(conn[c])
      BY <2>0 DEF RegInv
    <3>4. /\ OnlyConn(c) /\ conn'[c].at = "idle" /\ conn'[c].overtaken = conn[c].overtaken
          /\ (conn'[c].late <=> conn[c].late /\ ~(Alive(conn[c].service) /\ conn[c].registered))
          /\ conn'[c].bound = None
      BY <2>17, <3>1, RestartEffect
    <3>5. ~In(c)' /\ ~Through(c)'
      BY <2>0, <3>1, <3>4 DEF In, Through, Alive
    <3>6. ASSUME Alive(conn[c].service) PROVE RegisterInv(c)' /\ ListenInv(c)'
      <4>1. In(c) /\ Through(c)
        BY <2>0, <3>1, <3>3, <3>6 DEF In, Through, Sound
      <4>2. ~conn'[c].late => conn[c].registered
        BY <3>1, <3>3, <3>4, <4>1 DEF In, Sound
      <4>3. QED
        BY <3>2, <3>3, <3>4, <3>5, <3>6, <4>2 DEF RegisterInv, ListenInv
    <3>7. ASSUME ~Alive(conn[c].service) PROVE RegisterInv(c)' /\ ListenInv(c)'
      <4>1. ~conn'[c].late => ~In(c) /\ ~Through(c) /\ ~conn[c].late
        BY <3>1, <3>3, <3>4, <3>7 DEF In, Through, Sound
      <4>2. QED
        BY <3>1, <3>2, <3>3, <3>4, <3>5, <3>7, <4>1 DEF RegisterInv, ListenInv, CallsKept
    <3>8. QED
      BY <3>1, <3>2, <3>4, <3>6, <3>7, OthersKeep DEF RegInv
  <2>18. ASSUME NEW c \in Clients, ClientDies(c) PROVE RegInv'
    <3>1. UNCHANGED <<instance, up, callbacks, bandwidthListeners, posted, oneway>>
      BY <2>18 DEF ClientDies
    <3>2. OnlyConn(c) /\ \A x \in Clients : CallsKept(x) /\ (x \in callbacks' <=> x \in callbacks)
      BY <2>18, <3>1, KilledEffect, NoCalls
    <3>3. RegisterInv(c) /\ ListenInv(c) /\ Sound(conn[c]) /\ CallsKept(c)
      BY <2>0, <3>2 DEF RegInv
    <3>4. RegisterInv(c)' /\ ListenInv(c)'
      BY <2>0, <2>18, <3>1, <3>2, <3>3, KilledEffect DEF RegisterInv, ListenInv, In, Through, Alive, Sound, CallsKept, None
    <3>5. QED
      BY <3>1, <3>2, <3>4, OthersKeep DEF RegInv
  <2>19. QED
    <3>1. CASE UNCHANGED vars \/ Assign
      BY <2>1, <3>1 DEF vars, Assign
    <3>2. CASE \E c \in Clients : stateChanged(c) \/ ShowState(c)
      BY <2>1, <3>2 DEF stateChanged, ShowState
    <3>3. QED
      BY <2>2, <2>3, <2>4, <2>5, <2>6, <2>7, <2>8, <2>9, <2>10, <2>11, <2>12, <2>13, <2>14, <2>15,
         <2>16, <2>17, <2>18, <3>1, <3>2 DEF Next, MainThread, Deaths, Close, Crash
<1>3. QED
  BY <1>1, <1>2, Checks, PTL DEF Spec

\* When nothing is under way the service has the registrations that the client
\* wants, and none of a client that has gone.
THEOREM RegistrationsCorrect == Spec => []RegistrationsAgree
<1>1. Inv0 /\ RegInv => RegistrationsAgree
  <2> SUFFICES ASSUME Inv0, RegInv, NEW c \in Clients, AtRest(c)
               PROVE  /\ conn[c].active /\ "register" \notin conn[c].overtaken => c \in callbacks
                      /\ conn[c].active /\ conn[c].overtaken = {} /\ ~conn[c].late
                            => (c \in bandwidthListeners <=> conn[c].bandwidth)
                      /\ ~conn[c].active /\ ~conn[c].late
                            /\ ~(conn[c].gone /\ "register" \in conn[c].overtaken)
                            => c \notin callbacks \cup bandwidthListeners
    BY DEF RegistrationsAgree, RegistrationKept, ListensAsAsked, NothingLeftBehind
  <2>1. RegisterInv(c) /\ ListenInv(c)
    BY DEF RegInv
  <2>2. ~Concerns(oneway, c) /\ ~Unregisters(c) /\ (WillListen(c) <=> c \in bandwidthListeners)
    BY DEF AtRest, Pending, Concerns, Unregisters, Holds, WillListen, LastFor
  <2>3. /\ conn[c].active => In(c) /\ Through(c)
        /\ ~conn[c].active => ~In(c) /\ ~Through(c)
        /\ conn[c].gone => c \notin callbacks
    BY DEF AtRest, In, Through, Alive
  <2>4. QED
    BY <2>1, <2>2, <2>3 DEF RegisterInv, ListenInv
<1>2. QED
  BY <1>1, Checks, Registrations, PTL

------------------------------------------------------------------------------
(* What the client shows *)

\* A callback is posted to the handler.
LEMMA PostState ==
    ASSUME NEW S, NEW h \in Seq(S), NEW s \in S
    PROVE  LastState(Append(h, s), s)
<1> DEFINE g == Append(h, s)
<1>1. Len(h) \in Nat /\ Len(g) = Len(h) + 1 /\ g[Len(h) + 1] = s
  BY AppendProperties, LenProperties
<1> HIDE DEF g
<1>2. LastState(g, s)
  BY <1>1 DEF LastState
<1>3. QED
  BY <1>2 DEF g

\* A death is posted to the handler.
LEMMA PostDeath ==
    ASSUME NEW S, NEW h \in Seq(S), "binderDied" \in S
    PROVE  /\ NoState(h) => NoState(Append(h, "binderDied"))
           /\ \A s : LastState(h, s) => LastState(Append(h, "binderDied"), s)
<1> DEFINE g == Append(h, "binderDied")
<1>1. /\ Len(h) \in Nat /\ Len(g) = Len(h) + 1 /\ g[Len(h) + 1] = "binderDied"
      /\ \A i \in 1 .. Len(h) : g[i] = h[i]
  BY AppendProperties, LenProperties
<1> HIDE DEF g
<1>2. NoState(h) => NoState(g)
  BY <1>1 DEF NoState
<1>3. ASSUME NEW s, LastState(h, s) PROVE LastState(g, s)
  <2>1. PICK i \in 1 .. Len(h) : h[i] = s /\ \A j \in i + 1 .. Len(h) : h[j] = "binderDied"
    BY <1>3 DEF LastState
  <2>2. i \in 1 .. Len(g) /\ g[i] = s /\ \A j \in i + 1 .. Len(g) : g[j] = "binderDied"
    BY <1>1, <2>1
  <2>3. QED
    BY <2>2 DEF LastState
<1>4. QED
  BY <1>2, <1>3 DEF g

\* The handler takes its first entry.
LEMMA TakeState ==
    ASSUME NEW S, NEW h \in Seq(S), h # <<>>, Head(h) # "binderDied"
    PROVE  /\ ~NoState(h)
           /\ \A s : LastState(h, s) => LastState(Tail(h), s) \/ (Head(h) = s /\ NoState(Tail(h)))
<1> DEFINE g == Tail(h)
<1>1. /\ Head(h) = h[1] /\ Len(h) \in Nat \ {0} /\ Len(g) = Len(h) - 1
      /\ \A i \in 1 .. Len(g) : g[i] = h[i + 1]
  BY TailAt
<1> HIDE DEF g
<1>2. ~NoState(h)
  BY <1>1 DEF NoState
<1>3. ASSUME NEW s, LastState(h, s) PROVE LastState(g, s) \/ (Head(h) = s /\ NoState(g))
  <2>1. PICK i \in 1 .. Len(h) : h[i] = s /\ \A j \in i + 1 .. Len(h) : h[j] = "binderDied"
    BY <1>3 DEF LastState
  <2>2. CASE i = 1
    BY <1>1, <2>1, <2>2 DEF NoState
  <2>3. CASE i # 1
    <3>1. i - 1 \in 1 .. Len(g) /\ g[i - 1] = s /\ \A j \in (i - 1) + 1 .. Len(g) : g[j] = "binderDied"
      BY <1>1, <2>1, <2>3
    <3>2. QED
      BY <3>1 DEF LastState
  <2>4. QED
    BY <2>2, <2>3
<1>4. QED
  BY <1>2, <1>3 DEF g

\* The last callback on the wire is the last one of the rest, or was the only
\* one.
LEMMA TakeLast ==
    ASSUME NEW S, NEW w \in Seq(S), w # <<>>, NEW t, w[Len(w)] = t
    PROVE  /\ Tail(w) # <<>> => Tail(w)[Len(Tail(w))] = t
           /\ Tail(w) = <<>> => Head(w) = t
<1> DEFINE g == Tail(w)
<1>1. /\ Head(w) = w[1] /\ Len(w) \in Nat \ {0} /\ Len(g) = Len(w) - 1 /\ g \in Seq(S)
      /\ \A i \in 1 .. Len(g) : g[i] = w[i + 1]
  BY TailAt
<1> HIDE DEF g
<1>2. g = <<>> <=> Len(g) = 0
  BY <1>1, EmptySeq
<1>3. g # <<>> => g[Len(g)] = t
  BY <1>1, <1>2
<1>4. g = <<>> => Head(w) = t
  <2>1. g = <<>> => Len(w) = 1
    BY <1>1, <1>2
  <2>2. QED
    BY <1>1, <2>1
<1>5. QED
  BY <1>3, <1>4 DEF g

\* What x shows and will show stays as it is.
LEMMA ShowFrame ==
    ASSUME NEW x \in Clients, ShowInv(x), UNCHANGED <<instance, up, state, announcing>>,
           wire'[x] = wire[x], handler'[x] = handler[x], shown'[x] = shown[x],
           conn'[x].active = conn[x].active, conn'[x].bound = conn[x].bound,
           conn'[x].at = conn[x].at, conn'[x].blind = conn[x].blind,
           "register" \in conn'[x].overtaken <=> "register" \in conn[x].overtaken
    PROVE  ShowInv(x)'
  BY DEF ShowInv, WillShow, In, Alive, Target

\* A client step leaves what the others show alone.
LEMMA OthersShow ==
    ASSUME NEW c \in Clients, OnlyConn(c), UNCHANGED <<instance, up, state, announcing>>,
           \A x \in Clients : ShowInv(x),
           \A x \in Clients \ {c} : wire'[x] = wire[x] /\ handler'[x] = handler[x] /\ shown'[x] = shown[x],
           ShowInv(c)'
    PROVE  \A x \in Clients : ShowInv(x)'
<1>1. ASSUME NEW x \in Clients, x # c PROVE ShowInv(x)'
  BY <1>1, ShowFrame DEF OnlyConn
<1>2. QED
  BY <1>1

ShownInv == \A x \in Clients : ShowInv(x)

\* What is on its way to a client, or else what it shows, is the state the
\* service has announced last.
THEOREM Shows == Spec => []ShownInv
<1>1. Init => ShownInv
  BY DEF Init, ShownInv, ShowInv, In, Alive
<1>2. Inv0 /\ RegInv /\ ShownInv /\ Inv0' /\ [Next]_vars => ShownInv'
  <2> SUFFICES ASSUME Inv0, RegInv, ShownInv, Inv0', [Next]_vars PROVE ShownInv'
    OBVIOUS
  <2> USE DEF service
  <2>0. /\ ~Alive(None) /\ ~Alive(None)' /\ instance \in Nat
        /\ \A c \in Clients : /\ conn[c] \in Connections /\ conn[c].bound \in Nat /\ Sound(conn[c])
                              /\ conn[c].overtaken \subseteq {"register", "listen"}
                              /\ conn[c].blind \subseteq {"announced", "earlier"}
                              /\ wire[c] \in Seq(States) /\ handler[c] \in Seq(States \cup {"binderDied"})
        /\ wire \in [Clients -> Seq(States)] /\ handler \in [Clients -> Seq(States \cup {"binderDied"})]
        /\ shown \in [Clients -> States \cup {"Idle"}]
    <3>1. ~Alive(None) /\ ~Alive(None)'
      BY DEF Inv0, InstanceInv, Alive
    <3>2. /\ instance \in Nat /\ wire \in [Clients -> Seq(States)]
          /\ handler \in [Clients -> Seq(States \cup {"binderDied"})]
          /\ shown \in [Clients -> States \cup {"Idle"}]
      BY BinderAssumption DEF Inv0, TypeOK
    <3>3. \A c \in Clients : conn[c] \in Connections /\ conn[c].bound \in Nat /\ Sound(conn[c])
      BY ClientTypes DEF Inv0, ConnInv
    <3>4. \A c \in Clients : /\ conn[c].overtaken \subseteq {"register", "listen"}
                             /\ conn[c].blind \subseteq {"announced", "earlier"}
      BY <3>3 DEF Connections
    <3>5. QED
      BY <3>1, <3>2, <3>3, <3>4
  <2>1. CASE UNCHANGED <<instance, up, state, announcing, conn, wire, handler, shown>>
    <3>1. ASSUME NEW x \in Clients PROVE ShowInv(x)'
      BY <2>1, ShowFrame DEF ShownInv
    <3>2. QED
      BY <3>1 DEF ShownInv
  <2>2. CASE Create \/ Ends
    <3>1. \A x \in Clients : ~In(x)'
      BY <2>0, <2>2 DEF Create, Ends, In, Alive, Sound
    <3>2. QED
      BY <3>1 DEF ShownInv, ShowInv
  <2>3. CASE Assign
    <3>1. /\ Target' = Target /\ announcing' = "none"
          /\ UNCHANGED <<instance, up, conn, wire, handler, shown>>
      BY <2>3 DEF Assign, Target, Inv0, TypeOK, States
    <3>2. ASSUME NEW x \in Clients PROVE ShowInv(x)'
      BY <3>1 DEF ShownInv, ShowInv, WillShow, In, Alive
    <3>3. QED
      BY <3>2 DEF ShownInv
  <2>4. ASSUME NEW s \in States, Announce(s) PROVE ShownInv'
    <3>1. ASSUME NEW x \in Clients, In(x)', "register" \notin conn'[x].overtaken PROVE ShowInv(x)'
      <4>1. conn'[x] = IF x \in callbacks THEN [conn[x] EXCEPT !.blind = {}] ELSE conn[x]
        BY <2>4 DEF Announce
      <4>2. /\ conn'[x].active = conn[x].active /\ conn'[x].bound = conn[x].bound
            /\ conn'[x].at = conn[x].at /\ conn'[x].overtaken = conn[x].overtaken
            /\ x \in callbacks => conn'[x].blind = {}
        BY <2>0, <4>1 DEF Connections
      <4>3. UNCHANGED <<instance, up>>
        BY <2>4 DEF Announce
      <4>4. In(x) /\ "register" \notin conn[x].overtaken
        BY <3>1, <4>2, <4>3 DEF In, Alive
      <4>5. x \in callbacks
        BY <4>4 DEF RegInv, RegisterInv
      <4>6. wire'[x] = Append(wire[x], s) /\ announcing' = s /\ Target' = s
        BY <2>4, <4>5 DEF Announce, Target, States
      <4>7. wire'[x] # <<>> /\ wire'[x][Len(wire'[x])] = s
        BY <2>0, <4>6, AppendProperties, LenProperties
      <4>8. QED
        BY <4>2, <4>5, <4>6, <4>7 DEF ShowInv, WillShow
    <3>2. QED
      BY <3>1 DEF ShownInv, ShowInv
  <2>5. ASSUME NEW c \in Clients, connect(c) PROVE ShownInv'
    <3>1. /\ UNCHANGED <<instance, up, state, announcing>> /\ OnlyConn(c)
          /\ \A x \in Clients \ {c} : wire'[x] = wire[x] /\ handler'[x] = handler[x] /\ shown'[x] = shown[x]
      BY <2>0, <2>5, ConnectEffect DEF connect
    <3>2. ~In(c)'
      BY <2>0, <2>5, ConnectEffect DEF In, Sound, connect
    <3>3. QED
      BY <3>1, <3>2, OthersShow DEF ShownInv, ShowInv
  <2>6. ASSUME NEW c \in Clients, disconnect(c) PROVE ShownInv'
    <3>1. /\ UNCHANGED <<instance, up, state, announcing>> /\ OnlyConn(c)
          /\ \A x \in Clients \ {c} : wire'[x] = wire[x] /\ handler'[x] = handler[x] /\ shown'[x] = shown[x]
      BY <2>0, <2>6, DisconnectEffect DEF disconnect
    <3>2. ~In(c)'
      BY <2>0, <2>6, DisconnectEffect DEF In, Sound, disconnect
    <3>3. QED
      BY <3>1, <3>2, OthersShow DEF ShownInv, ShowInv
  <2>7. ASSUME NEW c \in Clients, bandwidthTimeout(c) PROVE ShownInv'
    <3>1. UNCHANGED <<instance, up, state, announcing, wire, handler, shown>> /\ OnlyConn(c)
      BY <2>7, BandwidthEffect DEF bandwidthTimeout
    <3>2. ShowInv(c)'
      BY <2>7, <3>1, BandwidthEffect, ShowFrame DEF ShownInv
    <3>3. QED
      BY <3>1, <3>2, OthersShow DEF ShownInv
  <2>8. ASSUME NEW c \in Clients, onServiceConnected(c) PROVE ShownInv'
    <3>1. /\ UNCHANGED <<instance, up, state, announcing>> /\ OnlyConn(c)
          /\ \A x \in Clients \ {c} : wire'[x] = wire[x] /\ handler'[x] = handler[x] /\ shown'[x] = shown[x]
      BY <2>0, <2>8, ConnectedEffect DEF onServiceConnected
    <3>2. ~In(c)'
      BY <2>0, <2>8, ConnectedEffect DEF In, Sound, onServiceConnected
    <3>3. QED
      BY <3>1, <3>2, OthersShow DEF ShownInv, ShowInv
  <2>9. ASSUME NEW c \in Clients, Register(c) PROVE ShownInv'
    <3>1. UNCHANGED <<instance, up, state, announcing, wire, handler, shown>>
      BY <2>9 DEF Register
    <3>2. CASE Alive(conn[c].bound)
      <4>1. /\ OnlyConn(c) /\ conn'[c].at = "registered"
            /\ conn'[c].blind = {x \in {"announced", "earlier"} :
                                   IF x = "announced" THEN announcing # "none"
                                                      ELSE wire[c] # <<>> \/ handler[c] # <<>>}
        BY <2>9, <3>2, RegisterEffect
      <4>2. conn'[c].blind \in {{}, {"announced"}} => wire[c] = <<>> /\ handler[c] = <<>>
        BY <4>1
      <4>3. conn'[c].blind = {} => announcing = "none"
        BY <4>1
      <4>4. handler[c] = <<>> => NoState(handler[c])
        BY DEF NoState
      <4>5. ShowInv(c)'
        BY <3>1, <4>1, <4>2, <4>3, <4>4 DEF ShowInv, WillShow
      <4>6. QED
        BY <3>1, <4>1, <4>5, OthersShow DEF ShownInv
    <3>3. CASE ~Alive(conn[c].bound)
      <4>1. OnlyConn(c) /\ ~In(c)'
        BY <2>9, <3>1, <3>3, RegisterFails DEF In, Alive
      <4>2. QED
        BY <3>1, <4>1, OthersShow DEF ShownInv, ShowInv
    <3>4. QED
      BY <3>2, <3>3
  <2>10. ASSUME NEW c \in Clients, Registered(c) PROVE ShownInv'
    <3>1. UNCHANGED <<instance, up, state, announcing, wire, handler, shown>> /\ OnlyConn(c) /\ conn[c].at = "registered"
      BY <2>10, RegisteredEffect DEF Registered
    <3>2. ShowInv(c)'
      BY <2>10, <3>1, RegisteredEffect DEF ShownInv, ShowInv, WillShow, Target, In, Alive
    <3>3. QED
      BY <3>1, <3>2, OthersShow DEF ShownInv
  <2>11. ASSUME NEW c \in Clients, ReadState(c) PROVE ShownInv'
    <3>1. /\ UNCHANGED <<instance, up, state, announcing, wire, handler>> /\ OnlyConn(c)
          /\ conn[c].at = "read" /\ conn'[c].at = "idle"
          /\ conn'[c].active = conn[c].active /\ conn'[c].bound = conn[c].bound
          /\ conn'[c].overtaken = conn[c].overtaken
          /\ conn'[c].blind = IF announcing = "none" THEN conn[c].blind \ {"announced"} ELSE conn[c].blind
          /\ \A x \in Clients \ {c} : shown'[x] = shown[x]
          /\ shown'[c] = IF Alive(conn[c].bound) THEN state ELSE "Idle"
      BY <2>0, <2>11, ReadEffect, ZenonT(60) DEF ReadState
    <3>2. ASSUME In(c)', "register" \notin conn'[c].overtaken, conn'[c].blind = {} PROVE WillShow(c)'
      <4>1. In(c) /\ "register" \notin conn[c].overtaken /\ ShowInv(c) /\ Target' = Target
        BY <3>1, <3>2 DEF ShownInv, In, Alive, Target
      <4>2. announcing = "none" => shown'[c] = Target
        BY <3>1, <4>1 DEF In, Target
      <4>3. CASE conn[c].blind = {}
        <5>1. WillShow(c)
          BY <4>1, <4>3 DEF ShowInv
        <5>2. QED
          BY <3>1, <4>1, <4>2, <5>1 DEF WillShow
      <4>4. CASE conn[c].blind # {}
        <5>1. announcing = "none" /\ conn[c].blind = {"announced"}
          BY <3>1, <3>2, <4>4
        <5>2. wire[c] = <<>> /\ NoState(handler[c])
          BY <3>1, <4>1, <5>1 DEF ShowInv
        <5>3. QED
          BY <3>1, <4>1, <4>2, <5>1, <5>2 DEF WillShow
      <4>5. QED
        BY <4>3, <4>4
    <3>3. ShowInv(c)'
      BY <3>1, <3>2 DEF ShowInv
    <3>4. QED
      BY <3>1, <3>3, OthersShow DEF ShownInv
  <2>12. ASSUME NEW c \in Clients, onServiceDisconnected(c) PROVE ShownInv'
    <3>1. /\ UNCHANGED <<instance, up, state, announcing>> /\ OnlyConn(c)
          /\ \A x \in Clients \ {c} : wire'[x] = wire[x] /\ handler'[x] = handler[x] /\ shown'[x] = shown[x]
      BY <2>0, <2>12, DisconnectedEffect DEF onServiceDisconnected
    <3>2. ~In(c)'
      BY <2>0, <2>12, DisconnectedEffect DEF In, Sound, onServiceDisconnected
    <3>3. QED
      BY <3>1, <3>2, OthersShow DEF ShownInv, ShowInv
  <2>13. ASSUME NEW c \in Clients, NEW i \in 1 .. MaxInstances, binderDied(c, i) PROVE ShownInv'
    <3>1. /\ UNCHANGED <<instance, up, state, announcing, wire, shown>> /\ OnlyConn(c)
          /\ \A x \in Clients \ {c} : handler'[x] = handler[x]
          /\ handler'[c] = IF conn[c].active THEN Append(handler[c], "binderDied") ELSE handler[c]
          /\ conn'[c].active = conn[c].active /\ conn'[c].bound = conn[c].bound
          /\ conn'[c].at = conn[c].at /\ conn'[c].overtaken = conn[c].overtaken
          /\ conn'[c].blind = conn[c].blind
      BY <2>0, <2>13, DiedEffect DEF binderDied
    <3>2. /\ NoState(handler[c]) => NoState(handler'[c])
          /\ \A s : LastState(handler[c], s) => LastState(handler'[c], s)
      <4>1. CASE conn[c].active
        <5>1. "binderDied" \in States \cup {"binderDied"}
          OBVIOUS
        <5>2. /\ NoState(handler[c]) => NoState(Append(handler[c], "binderDied"))
              /\ \A s : LastState(handler[c], s) => LastState(Append(handler[c], "binderDied"), s)
          BY <2>0, <5>1, PostDeath
        <5>3. QED
          BY <3>1, <4>1, <5>2
      <4>2. CASE ~conn[c].active
        BY <3>1, <4>2
      <4>3. QED
        BY <4>1, <4>2
    <3>3. ShowInv(c)'
      BY <3>1, <3>2 DEF ShownInv, ShowInv, WillShow, Target, In, Alive
    <3>4. QED
      BY <3>1, <3>3, OthersShow DEF ShownInv
  <2>14. ASSUME NEW c \in Clients, stateChanged(c) PROVE ShownInv'
    <3>1. /\ UNCHANGED <<instance, up, state, announcing, shown, conn>> /\ OnlyConn(c)
          /\ \A x \in Clients \ {c} : handler'[x] = handler[x] /\ wire'[x] = wire[x]
          /\ wire[c] # <<>> /\ wire'[c] = Tail(wire[c])
          /\ handler'[c] = IF conn[c].active THEN Append(handler[c], Head(wire[c])) ELSE handler[c]
      BY <2>0, <2>14 DEF stateChanged, OnlyConn
    <3>2. wire[c] \in Seq(States) /\ Head(wire[c]) \in States
      BY <2>0, <3>1, TailAt
    <3>3. ASSUME In(c), WillShow(c) PROVE WillShow(c)'
      <4>1. wire[c][Len(wire[c])] = Target /\ Target' = Target
        BY <3>1, <3>3 DEF WillShow, Target
      <4>2. /\ wire'[c] # <<>> => wire'[c][Len(wire'[c])] = Target
            /\ wire'[c] = <<>> => Head(wire[c]) = Target
        BY <3>1, <3>2, <4>1, TakeLast
      <4>3. wire'[c] = <<>> => LastState(handler'[c], Target)
        <5>1. SUFFICES ASSUME wire'[c] = <<>> PROVE LastState(handler'[c], Target)
          OBVIOUS
        <5>3. Head(wire[c]) = Target /\ handler'[c] = Append(handler[c], Head(wire[c]))
          BY <3>1, <3>3, <4>2, <5>1 DEF In
        <5>4. Target \in States \cup {"binderDied"} /\ handler'[c] = Append(handler[c], Target)
          BY <3>2, <5>3
        <5>5. LastState(Append(handler[c], Target), Target)
          BY <2>0, <5>4, PostState
        <5>6. QED
          BY <5>4, <5>5
      <4>4. QED
        BY <4>1, <4>2, <4>3 DEF WillShow
    <3>4. ShowInv(c)'
      BY <3>1, <3>3 DEF ShownInv, ShowInv, In, Alive
    <3>5. QED
      BY <3>1, <3>4, OthersShow DEF ShownInv
  <2>15. ASSUME NEW c \in Clients, ShowState(c) PROVE ShownInv'
    <3>1. /\ UNCHANGED <<instance, up, state, announcing, wire, conn>> /\ OnlyConn(c)
          /\ \A x \in Clients \ {c} : handler'[x] = handler[x] /\ shown'[x] = shown[x]
          /\ handler[c] # <<>> /\ Head(handler[c]) # "binderDied" /\ conn[c].at = "idle"
          /\ handler'[c] = Tail(handler[c]) /\ shown'[c] = Head(handler[c])
      BY <2>0, <2>15 DEF ShowState, Free, OnlyConn
    <3>2. /\ ~NoState(handler[c])
          /\ \A s : LastState(handler[c], s) =>
                LastState(Tail(handler[c]), s) \/ (Head(handler[c]) = s /\ NoState(Tail(handler[c])))
      <4> DEFINE h == handler[c]
      <4>1. h \in Seq(States \cup {"binderDied"}) /\ h # <<>> /\ Head(h) # "binderDied"
        BY <2>0, <3>1
      <4> HIDE DEF h
      <4>2. /\ ~NoState(h)
            /\ \A s : LastState(h, s) => LastState(Tail(h), s) \/ (Head(h) = s /\ NoState(Tail(h)))
        BY <4>1, TakeState
      <4>3. QED
        BY <4>2 DEF h
    <3>3. ShowInv(c)'
      BY <3>1, <3>2 DEF ShownInv, ShowInv, WillShow, Target, In, Alive
    <3>4. QED
      BY <3>1, <3>3, OthersShow DEF ShownInv
  <2>16. ASSUME NEW c \in Clients, onBinderDied(c) PROVE ShownInv'
    <3>1. /\ UNCHANGED <<instance, up, state, announcing>> /\ OnlyConn(c)
          /\ \A x \in Clients \ {c} : wire'[x] = wire[x] /\ handler'[x] = handler[x] /\ shown'[x] = shown[x]
      BY <2>0, <2>16, RestartEffect DEF onBinderDied
    <3>2. ~In(c)'
      BY <2>0, <2>16, RestartEffect DEF In, Sound, onBinderDied
    <3>3. QED
      BY <3>1, <3>2, OthersShow DEF ShownInv, ShowInv
  <2>17. ASSUME NEW c \in Clients, ClientDies(c) PROVE ShownInv'
    <3>1. /\ UNCHANGED <<instance, up, state, announcing>> /\ OnlyConn(c)
          /\ \A x \in Clients \ {c} : wire'[x] = wire[x] /\ handler'[x] = handler[x] /\ shown'[x] = shown[x]
      BY <2>0, <2>17, KilledEffect DEF ClientDies
    <3>2. ~In(c)'
      BY <2>0, <2>17, KilledEffect DEF In, Sound, ClientDies
    <3>3. QED
      BY <3>1, <3>2, OthersShow DEF ShownInv, ShowInv
  <2>18. QED
    <3>1. CASE UNCHANGED vars \/ RunPosted \/ RunOneway \/ \E c \in Clients : onCallbackDied(c)
      BY <2>1, <3>1 DEF vars, RunPosted, RunOneway, onCallbackDied
    <3>2. QED
      BY <2>2, <2>3, <2>4, <2>5, <2>6, <2>7, <2>8, <2>9, <2>10, <2>11, <2>12, <2>13, <2>14, <2>15,
         <2>16, <2>17, <3>1 DEF Next, MainThread, Deaths, Close, Crash
<1>3. QED
  BY <1>1, <1>2, Checks, Registrations, PTL DEF Spec

\* At rest a connected client shows the state the service is in.
THEOREM ShowsCorrect == Spec => []ShowsTheState
<1>1. Inv0 /\ ShownInv => ShowsTheState
  <2> SUFFICES ASSUME Inv0, ShownInv, NEW c \in Clients, AtRest(c), conn[c].active,
                      "register" \notin conn[c].overtaken, conn[c].blind = {}
               PROVE  shown[c] = state
    BY DEF ShowsTheState
  <2>1. In(c) /\ wire[c] = <<>> /\ handler[c] = <<>> /\ conn[c].at = "idle" /\ Target = state
    BY DEF AtRest, In, Alive, Target
  <2>2. WillShow(c)
    BY <2>1 DEF ShownInv, ShowInv
  <2>3. ~LastState(handler[c], Target)
    BY <2>1 DEF LastState
  <2>4. QED
    BY <2>1, <2>2, <2>3 DEF WillShow
<1>2. QED
  BY <1>1, Checks, Shows, PTL
==============================================================================
