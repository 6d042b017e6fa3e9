------------------------------ MODULE NetProofs ------------------------------
(***************************************************************************)
(* What TLAPS proves about package net: DefaultNetworkListener,            *)
(* LocalDnsServer and its ChannelMonitor.                                  *)
(***************************************************************************)
EXTENDS DefaultNetworkListener, LocalDnsServer, FiniteSetTheorems, SequenceTheorems,
        TLAPS

------------------------------------------------------------------------------
(***************************************************************************)
(* DefaultNetworkListener, for any networks, listeners and requests and any*)
(* number of callbacks that are still to come.                             *)
(***************************************************************************)

(***************************************************************************)
(* The inductive invariant.  TracksDefault only speaks of the moment when  *)
(* nothing is under way.  At any other moment the news of the default      *)
(* network is either known already, or is being sent, or is still to come; *)
(* and nothing that comes after it, be it left over from an earlier        *)
(* registration, undoes it.                                                *)
(***************************************************************************)
Harmless(m, n) == m.type # "Put" /\ m # Msg("Lost", n)

HarmlessFrom(i, s, n) == \A j \in i..Len(s) : Harmless(s[j], n)

Known ==
    /\ network = default /\ \A k \in listeners : heard[k] = default
    /\ Harmless(message, default) /\ HarmlessFrom(1, events, default)

BeingSent == message = Msg("Put", default) /\ HarmlessFrom(1, events, default)

StillToCome ==
    \E i \in 1..Len(events) :
        events[i] = Msg("Put", default) /\ HarmlessFrom(i + 1, events, default)

NewsInv == registered /\ default # None => Known \/ BeingSent \/ StillToCome

------------------------------------------------------------------------------
\* A message of the callback is a member of Messages.
LEMMA MsgType ==
    ASSUME NEW t \in {"Put", "Update", "Lost"}, NEW n \in Networks
    PROVE  /\ Msg(t, n) \in Messages /\ <<Msg(t, n)>> \in Seq(Messages)
           /\ Msg(t, n).type = t /\ Msg(t, n).network = n
  BY DEF Msg, Messages

\* A change to a network n ends with the news of n, after which at most its
\* predecessor is reported lost.
LEMMA ReportsNews ==
    ASSUME NEW old \in Maybe, NEW n \in Maybe, n # old, NEW report \in Reports(old, n)
    PROVE  /\ report \in Seq(Messages)
           /\ n # None => \E i \in 1..Len(report) : /\ report[i] = Msg("Put", n)
                                                    /\ HarmlessFrom(i + 1, report, n)
<1> DEFINE lost == IF old = None THEN <<>> ELSE <<Msg("Lost", old)>>
           put  == IF n = None THEN <<>> ELSE <<Msg("Put", n)>>
<1>1. lost \in Seq(Messages) /\ put \in Seq(Messages)
  BY MsgType DEF Maybe
<1>2. report \in IF n = None THEN {lost} ELSE {put, lost \o put, put \o lost}
  BY DEF Reports
<1>3. report \in Seq(Messages)
  BY <1>1, <1>2, ConcatProperties
<1>4. ASSUME n # None
      PROVE  \E i \in 1..Len(report) : /\ report[i] = Msg("Put", n)
                                       /\ HarmlessFrom(i + 1, report, n)
  <2>1. old # None => Harmless(Msg("Lost", old), n)
    BY MsgType, ListenerAssumption, <1>4 DEF Harmless, Maybe
  <2>2. CASE report = put
    <3>1. Len(report) = 1 /\ report[1] = Msg("Put", n)
      BY <2>2, <1>4
    <3>2. QED
      BY <3>1 DEF HarmlessFrom
  <2>3. CASE report = lost \o put
    <3>1. CASE old = None
      <4>1. Len(report) = 1 /\ report[1] = Msg("Put", n)
        BY <2>3, <1>4, <3>1, <1>1
      <4>2. QED
        BY <4>1 DEF HarmlessFrom
    <3>2. CASE old # None
      <4>1. Len(report) = 2 /\ report[2] = Msg("Put", n)
        BY <2>3, <1>4, <3>2, <1>1, ConcatProperties
      <4>2. QED
        BY <4>1 DEF HarmlessFrom
    <3>3. QED
      BY <3>1, <3>2
  <2>4. CASE report = put \o lost
    <3>1. CASE old = None
      <4>1. Len(report) = 1 /\ report[1] = Msg("Put", n)
        BY <2>4, <1>4, <3>1, <1>1
      <4>2. QED
        BY <4>1 DEF HarmlessFrom
    <3>2. CASE old # None
      <4>1. Len(report) = 2 /\ report[1] = Msg("Put", n) /\ report[2] = Msg("Lost", old)
        BY <2>4, <1>4, <3>2, <1>1, ConcatProperties
      <4>2. QED
        BY <4>1, <3>2, <2>1 DEF HarmlessFrom
    <3>3. QED
      BY <3>1, <3>2
  <2>5. QED
    BY <1>2, <1>4, <2>2, <2>3, <2>4
<1>5. QED
  BY <1>3, <1>4

\* Every listener hears n and nobody else does.
LEMMA TellType ==
    ASSUME ListenerTypeOK, NEW n \in Maybe, Tell(n)
    PROVE  heard' \in [Keys -> Maybe] /\ \A k \in listeners : heard'[k] = n
  BY DEF ListenerTypeOK, Tell

------------------------------------------------------------------------------
\* Types and the two facts about who listens and who waits.
THEOREM Registered == ListenerSpec => [](ListenerTypeOK /\ RegisteredWhileListening /\ NobodyWaitsForAKnownNetwork)
<1> DEFINE Inv == ListenerTypeOK /\ RegisteredWhileListening /\ NobodyWaitsForAKnownNetwork
<1>1. ListenerInit => Inv
  <2> SUFFICES ASSUME ListenerInit PROVE Inv
    OBVIOUS
  <2>1. registered \in BOOLEAN /\ fallback \in BOOLEAN
    BY Zenon DEF ListenerInit
  <2>2. events \in Seq(Messages) /\ message \in Messages \cup {NoMessage}
    BY DEF ListenerInit
  <2>3. answer \in [Requests -> Maybe] /\ heard \in [Keys -> Maybe]
    BY DEF ListenerInit, Maybe
  <2>4. RegisteredWhileListening /\ NobodyWaitsForAKnownNetwork
    BY DEF ListenerInit, RegisteredWhileListening, NobodyWaitsForAKnownNetwork
  <2>5. QED
    BY <2>1, <2>2, <2>3, <2>4 DEF ListenerInit, ListenerTypeOK, Maybe
<1>2. Inv /\ [ListenerNext]_listenerVars => Inv'
  <2> SUFFICES ASSUME Inv, [ListenerNext]_listenerVars PROVE Inv'
    OBVIOUS
  <2> USE DEF ListenerTypeOK, RegisteredWhileListening, NobodyWaitsForAKnownNetwork, actorVars, systemVars
  <2>1. ASSUME NEW k \in Keys, Start(k) PROVE Inv'
    <3>1. events' \in Seq(Messages)
      <4>1. events' = events \/ events' = <<>> \/ (default # None /\ events' = <<Msg("Put", default)>>)
        BY <2>1, Zenon DEF Start, Register
      <4>2. default # None => <<Msg("Put", default)>> \in Seq(Messages)
        BY MsgType DEF Maybe
      <4>3. QED
        BY <4>1, <4>2, EmptySeq, Zenon
    <3>2. registered' \in BOOLEAN /\ fallback' \in BOOLEAN
      BY <2>1, Zenon DEF Start, Register
    <3>3. heard' \in [Keys -> Maybe]
      BY <2>1 DEF Start
    <3>4. RegisteredWhileListening'
      BY <2>1 DEF Start, Register
    <3>5. QED
      BY <2>1, <3>1, <3>2, <3>3, <3>4 DEF Start
  <2>2. ASSUME NEW k \in Keys, Stop(k) PROVE Inv'
    <3>1. registered' \in BOOLEAN /\ fallback' \in BOOLEAN
      BY <2>2, Zenon DEF Stop
    <3>2. events' \in Seq(Messages) /\ message' \in Messages \cup {NoMessage}
      BY <2>2, EmptySeq, Zenon DEF Stop
    <3>3. RegisteredWhileListening'
      BY <2>2 DEF Stop
    <3>4. QED
      BY <2>2, <3>1, <3>2, <3>3 DEF Stop, Maybe
  <2>3. ASSUME NEW r \in Requests, Get(r) PROVE Inv'
    BY <2>3 DEF Get
  <2>4. CASE Receive
    <3>1. CASE Put
      <4>1. message \in Messages /\ message.network \in Networks
        BY <3>1 DEF Put, NoMessage, Messages
      <4>2. heard' \in [Keys -> Maybe]
        BY <3>1, <4>1, TellType DEF Put, Maybe
      <4>3. QED
        BY <2>4, <3>1, <4>1, <4>2 DEF Receive, Put, Maybe
    <3>2. CASE Update
      BY <2>4, <3>2, TellType DEF Receive, Update
    <3>3. CASE Lost
      BY <2>4, <3>3, TellType DEF Receive, Lost, Maybe
    <3>4. QED
      BY <2>4, <3>1, <3>2, <3>3 DEF Receive
  <2>5. CASE Call
    <3>1. Head(events) \in Messages /\ Tail(events) \in Seq(Messages)
      BY <2>5, HeadTailProperties DEF Call
    <3>2. QED
      BY <2>5, <3>1 DEF Call
  <2>6. ASSUME NEW n \in Maybe, NetworkChanges(n) PROVE Inv'
    <3>1. events' \in Seq(Messages)
      BY <2>6, ReportsNews, ConcatProperties DEF NetworkChanges
    <3>2. QED
      BY <2>6, <3>1 DEF NetworkChanges
  <2>7. CASE CapabilitiesChange
    <3>1. events' \in Seq(Messages)
      BY <2>7, MsgType, AppendProperties DEF CapabilitiesChange, Maybe
    <3>2. QED
      BY <2>7, <3>1 DEF CapabilitiesChange
  <2>8. CASE UNCHANGED listenerVars
    BY <2>8 DEF listenerVars
  <2>9. QED
    BY <2>1, <2>2, <2>3, <2>4, <2>5, <2>6, <2>7, <2>8 DEF ListenerNext
<1>3. QED
  BY <1>1, <1>2, PTL DEF ListenerSpec

------------------------------------------------------------------------------
\* Nothing that is to be called or sent hides the news of the default network.
THEOREM NewsKept == ListenerSpec => []NewsInv
<1> DEFINE Inv == ListenerTypeOK /\ RegisteredWhileListening /\ NobodyWaitsForAKnownNetwork
<1>1. ListenerInit => NewsInv
  BY DEF ListenerInit, NewsInv
<1>2. Inv /\ NewsInv /\ [ListenerNext]_listenerVars => NewsInv'
  <2> SUFFICES ASSUME Inv, NewsInv, [ListenerNext]_listenerVars, registered', default' # None
               PROVE  (Known \/ BeingSent \/ StillToCome)'
    BY DEF NewsInv
  <2> USE DEF actorVars, systemVars
  <2>0. /\ default \in Maybe /\ events \in Seq(Messages) /\ Len(events) \in Nat
        /\ message \in Messages \cup {NoMessage}
    BY LenProperties DEF ListenerTypeOK
  <2>1. ASSUME NEW k \in Keys, Start(k) PROVE (Known \/ BeingSent \/ StillToCome)'
    <3>1. CASE listeners = {}
      <4>1. default' = default /\ events' = <<Msg("Put", default)>>
        BY <2>1, <3>1 DEF Start, Register, RegisteredWhileListening
      <4>2. StillToCome'
        BY <4>1 DEF StillToCome, HarmlessFrom
      <4>3. QED
        BY <4>2
    <3>2. CASE listeners # {}
      <4>1. registered /\ default # None /\ UNCHANGED <<events, message, default, network>>
        BY <2>1, <3>2 DEF Start
      <4>2. Known => Known'
        BY <2>1, <4>1 DEF Start, Known, Harmless, HarmlessFrom, ListenerTypeOK
      <4>3. QED
        BY <4>1, <4>2 DEF NewsInv, BeingSent, StillToCome
    <3>3. QED
      BY <3>1, <3>2
  <2>2. ASSUME NEW k \in Keys, Stop(k) PROVE (Known \/ BeingSent \/ StillToCome)'
    <3>1. registered /\ default # None
          /\ UNCHANGED <<events, message, default, network, heard>> /\ listeners' \subseteq listeners
      BY <2>2 DEF Stop
    <3>2. QED
      BY <3>1 DEF NewsInv, Known, BeingSent, StillToCome
  <2>3. CASE UNCHANGED <<events, message, default, network, heard, registered, listeners>>
    BY <2>3 DEF NewsInv, Known, BeingSent, StillToCome
  <2>4. CASE Receive
    <3>1. registered /\ default # None /\ default \in Networks
          /\ UNCHANGED <<events, default, listeners>>
      BY <2>0, <2>4 DEF Receive, Maybe
    <3>2. message \in Messages
      BY <2>0, <2>4 DEF Receive, Put, Update, Lost, NoMessage
    <3>3. Harmless(message', default)
      BY <2>4 DEF Receive, Harmless, NoMessage, Msg
    <3>4. CASE Known
      <4>1. network' = default /\ \A k \in listeners : heard'[k] = default
        <5>1. CASE Update
          BY <3>4, <5>1, TellType DEF Update, Known, Inv, ListenerTypeOK
        <5>2. CASE Lost
          <6>1. message.network # default
            BY <3>2, <3>4, <5>2 DEF Lost, Known, Harmless, Messages, Msg
          <6>2. QED
            BY <3>4, <5>2, <6>1 DEF Lost, Known
        <5>3. QED
          BY <2>4, <3>4, <5>1, <5>2 DEF Receive, Put, Known, Harmless
      <4>2. QED
        BY <3>1, <3>3, <3>4, <4>1 DEF Known
    <3>5. CASE BeingSent
      <4>1. Put /\ message.network = default
        BY <2>4, <3>1, <3>5, MsgType DEF Receive, Update, Lost, BeingSent
      <4>2. network' = default /\ \A k \in listeners : heard'[k] = default
        BY <3>1, <4>1, TellType DEF Put, Inv, Maybe
      <4>3. QED
        BY <3>1, <3>3, <3>5, <4>2 DEF Known, BeingSent
    <3>6. CASE StillToCome
      BY <3>1, <3>6 DEF StillToCome
    <3>7. QED
      BY <3>1, <3>4, <3>5, <3>6 DEF NewsInv
  <2>5. CASE Call
    <3>1. /\ registered /\ default # None
          /\ UNCHANGED <<default, listeners, network, heard>>
          /\ message = NoMessage /\ message' = events[1]
      BY <2>0, <2>5 DEF Call
    <3>2. /\ Len(events) > 0 /\ Len(events') = Len(events) - 1
          /\ \A j \in 1..Len(events') : events'[j] = events[j + 1]
      BY <2>0, <2>5, HeadTailProperties DEF Call
    <3>3. CASE Known
      BY <2>0, <3>1, <3>2, <3>3 DEF Known, HarmlessFrom
    <3>4. CASE BeingSent
      BY <3>1, <3>4 DEF BeingSent, NoMessage, Msg
    <3>5. ASSUME NEW i \in 1..Len(events),
                 events[i] = Msg("Put", default), HarmlessFrom(i + 1, events, default)
          PROVE  (BeingSent \/ StillToCome)'
      <4>1. CASE i = 1
        BY <2>0, <3>1, <3>2, <3>5, <4>1 DEF BeingSent, HarmlessFrom
      <4>2. CASE i # 1
        <5>1. i - 1 \in 1..Len(events') /\ events'[i - 1] = Msg("Put", default)
          BY <2>0, <3>2, <3>5, <4>2
        <5>2. HarmlessFrom(i, events', default)
          BY <2>0, <3>2, <3>5 DEF HarmlessFrom
        <5>3. QED
          BY <3>1, <5>1, <5>2 DEF StillToCome
      <4>3. QED
        BY <4>1, <4>2
    <3>6. QED
      BY <3>1, <3>3, <3>4, <3>5 DEF NewsInv, StillToCome
  <2>6. ASSUME NEW n \in Maybe, NetworkChanges(n) PROVE (Known \/ BeingSent \/ StillToCome)'
    <3>1. PICK report \in Reports(default, n) : events' = events \o report
      BY <2>6 DEF NetworkChanges
    <3>2. n # None /\ n # default /\ default' = n
      BY <2>6 DEF NetworkChanges
    <3>3. report \in Seq(Messages)
      BY <2>0, <3>2, ReportsNews
    <3>4. PICK i \in 1..Len(report) : report[i] = Msg("Put", n) /\ HarmlessFrom(i + 1, report, n)
      BY <2>0, <3>2, ReportsNews
    <3>5. /\ Len(report) \in Nat /\ Len(events') = Len(events) + Len(report)
          /\ \A j \in 1..Len(report) : events'[Len(events) + j] = report[j]
      BY <2>0, <3>1, <3>3, ConcatProperties, LenProperties
    <3>6. /\ Len(events) + i \in 1..Len(events')
          /\ events'[Len(events) + i] = Msg("Put", n)
      BY <2>0, <3>4, <3>5
    <3>7. HarmlessFrom((Len(events) + i) + 1, events', n)
      <4>1. ASSUME NEW j \in ((Len(events) + i) + 1)..Len(events') PROVE Harmless(events'[j], n)
        <5>1. j - Len(events) \in (i + 1)..Len(report)
          BY <2>0, <3>5
        <5>2. events'[j] = report[j - Len(events)]
          BY <2>0, <3>5, <5>1
        <5>3. QED
          BY <3>4, <5>1, <5>2 DEF HarmlessFrom
      <4>2. QED
        BY <4>1 DEF HarmlessFrom
    <3>8. QED
      BY <3>2, <3>6, <3>7 DEF StillToCome
  <2>7. CASE CapabilitiesChange
    <3>1. /\ registered /\ default # None /\ default \in Networks
          /\ UNCHANGED <<default, listeners, network, heard, message>>
      BY <2>0, <2>7 DEF CapabilitiesChange, Maybe
    <3>2. /\ Len(events') = Len(events) + 1
          /\ \A j \in 1..Len(events) : events'[j] = events[j]
          /\ Harmless(events'[Len(events) + 1], default)
      BY <2>0, <2>7, <3>1, MsgType, AppendProperties DEF CapabilitiesChange, Harmless, Msg
    <3>3. \A i \in Nat : i <= Len(events) /\ HarmlessFrom(i + 1, events, default)
                              => HarmlessFrom(i + 1, events', default)
      BY <2>0, <3>2 DEF HarmlessFrom
    <3>4. HarmlessFrom(1, events, default) => HarmlessFrom(1, events', default)
      BY <2>0, <3>2 DEF HarmlessFrom
    <3>5. QED
      BY <2>0, <3>1, <3>2, <3>3, <3>4 DEF NewsInv, Known, BeingSent, StillToCome
  <2>8. QED
    BY <2>1, <2>2, <2>3, <2>4, <2>5, <2>6, <2>7 DEF ListenerNext, Get, listenerVars
<1>3. QED
  BY <1>1, <1>2, Registered, PTL DEF ListenerSpec

\* The actor and its listeners know the default network once the system has
\* nothing more to report, the callback is registered exactly while somebody
\* listens, and no request waits for a network the actor knows.
THEOREM ActorCorrect == ListenerSpec => []ActorInv
<1>1. ListenerTypeOK /\ NewsInv => TracksDefault
  <2> SUFFICES ASSUME ListenerTypeOK, NewsInv, registered, Quiet, default # None PROVE Known
    BY DEF TracksDefault, Known
  <2>1. Len(events) = 0 /\ message = NoMessage
    BY DEF Quiet
  <2>2. QED
    BY <2>1 DEF NewsInv, BeingSent, StillToCome, NoMessage, Msg
<1>2. ListenerTypeOK /\ RegisteredWhileListening /\ NobodyWaitsForAKnownNetwork /\ NewsInv => ActorInv
  BY <1>1 DEF ActorInv
<1>3. QED
  BY <1>2, Registered, NewsKept, PTL

------------------------------------------------------------------------------
(***************************************************************************)
(* LocalDnsServer and ChannelMonitor, for any finite set of packets, on    *)
(* every version of Android, with and without TCP.                         *)
(***************************************************************************)

------------------------------------------------------------------------------
(* The answers *)

QueryTypes ==
    /\ kind \in [Queries -> Kinds \cup {"none"}]
    /\ main \in [Queries -> {"free", "local", "await", "cooked", "reply", "done"}]
    /\ local \in [Queries -> Outcomes \cup {"none"}]
    /\ remote \in [Queries -> {"none", "running", "cancelled", "ok", "failed"}]
    /\ reply \in [Queries -> {"none", "hosts", "local", "remote", "servfail"}]

(***************************************************************************)
(* Where a query is tells what has been asked: the local resolver is asked *)
(* first and only for packets of kind "ask", its outcome is known when the *)
(* coroutine waits for forward, and forward has ended for good when its    *)
(* result is used.                                                         *)
(***************************************************************************)
Asked(q) ==
    /\ main[q] = "free" => remote[q] = "none"
    /\ main[q] \in {"free", "local", "await"} => reply[q] = "none"
    /\ main[q] \in {"free", "local"} => local[q] = "none"
    /\ main[q] = "local" => kind[q] = "ask"
    /\ main[q] = "await" /\ kind[q] = "ask" => local[q] = "useless"
    /\ main[q] \in {"reply", "done"} => Ended(q)
    /\ reply[q] = "servfail" =>
          IF kind[q] = "ask" /\ local[q] = "throws"
          THEN remote[q] # "running"
          ELSE remote[q] = "failed" /\ (kind[q] = "ask" => local[q] = "useless")

AnswerInv == QueryTypes /\ \A q \in Queries : Asked(q)

\* A step that leaves q alone, or only starts or cancels its forward.
LEMMA AskedKept ==
    ASSUME NEW q \in Queries, Asked(q), kind'[q] = kind[q], main'[q] = main[q],
           local'[q] = local[q], reply'[q] = reply[q],
           remote'[q] = remote[q] \/ (/\ remote[q] \in {"running", "cancelled"}
                                      /\ remote'[q] \in {"cancelled", "ok", "failed"})
    PROVE  Asked(q)'
  BY DEF Asked, Ended

\* What a query's coroutines know of each other's results.
THEOREM Answers == Spec => []AnswerInv
<1>1. Init => AnswerInv
  BY DEF Init, AnswerInv, QueryTypes, Asked, Ended
<1>2. AnswerInv /\ [Next]_vars => AnswerInv'
  <2> SUFFICES ASSUME AnswerInv, [Next]_vars PROVE AnswerInv'
    OBVIOUS
  <2> USE DEF queryVars, serverVars, monitorVars
  <2>1. CASE UNCHANGED queryVars
    BY <2>1 DEF AnswerInv, QueryTypes, Asked, Ended
  <2>2. ASSUME NEW q \in Queries, NEW k \in Kinds, HandlePacket(q, k) PROVE AnswerInv'
    <3>1. QueryTypes'
      BY <2>2 DEF HandlePacket, AnswerInv, QueryTypes
    <3>2. \A x \in Queries : Asked(x)'
      BY <2>2, DnsAssumption DEF HandlePacket, AnswerInv, QueryTypes, Asked, Ended
    <3>3. QED
      BY <3>1, <3>2 DEF AnswerInv
  <2>3. ASSUME NEW q \in Queries, LocalReturns(q) PROVE AnswerInv'
    <3>1. QueryTypes'
      BY <2>3 DEF LocalReturns, AnswerInv, QueryTypes, Outcomes
    <3>2. \A x \in Queries : Asked(x)'
      BY <2>3 DEF LocalReturns, AnswerInv, QueryTypes, Asked, Outcomes, Ended
    <3>3. QED
      BY <3>1, <3>2 DEF AnswerInv
  <2>4. ASSUME NEW q \in Queries, AwaitReturns(q) PROVE AnswerInv'
    <3>1. QueryTypes'
      BY <2>4 DEF AwaitReturns, AnswerInv, QueryTypes
    <3>2. \A x \in Queries : Asked(x)'
      BY <2>4 DEF AwaitReturns, AnswerInv, QueryTypes, Asked, Ended
    <3>3. QED
      BY <3>1, <3>2 DEF AnswerInv
  <2>5. ASSUME NEW q \in Queries, ScopeReturns(q) \/ ResolveCancelled(q) \/ SendReply(q) \/ ReplyFails(q)
        PROVE  AnswerInv'
    <3>1. /\ UNCHANGED <<kind, local, remote, reply>>
          /\ main[q] \notin {"free"} /\ \E m \in {"reply", "done"} : main' = [main EXCEPT ![q] = m]
          /\ Ended(q)
      BY <2>5 DEF ScopeReturns, ResolveCancelled, SendReply, ReplyFails, Replying, AnswerInv, Asked
    <3>2. QueryTypes'
      BY <3>1 DEF AnswerInv, QueryTypes
    <3>3. \A x \in Queries : Asked(x)'
      BY <3>1 DEF AnswerInv, QueryTypes, Asked, Ended
    <3>4. QED
      BY <3>2, <3>3 DEF AnswerInv
  <2>6. ASSUME NEW q \in Queries, ForwardAdvances(q) \/ ForwardFails(q) \/ ForwardCancelled(q) \/ ForwardTimeout(q)
        PROVE  AnswerInv'
    <3>1. /\ UNCHANGED <<kind, main, local, reply>> /\ remote[q] \in {"running", "cancelled"}
          /\ \E r \in {remote[q], "cancelled", "ok", "failed"} : remote' = [remote EXCEPT ![q] = r]
      BY <2>6 DEF ForwardAdvances, ForwardFails, ForwardCancelled, ForwardTimeout, Forwarding, EndForward,
                  Cancelled, AnswerInv, QueryTypes
    <3>2. QueryTypes'
      BY <3>1 DEF AnswerInv, QueryTypes
    <3>3. \A x \in Queries : Asked(x)'
      BY <3>1, AskedKept DEF AnswerInv, QueryTypes
    <3>4. QED
      BY <3>2, <3>3 DEF AnswerInv
  <2>7. QED
    BY <2>1, <2>2, <2>3, <2>4, <2>5, <2>6
       DEF Next, Resolve, Forward, StartServer, ServerStarted, StartCancelled, Shutdown, WaitToReply,
           ForwardWaits, Writes, Fires, Monitor, vars
<1>3. QED
  BY <1>1, <1>2, PTL DEF Spec

\* SERVFAIL is the last resort of resolve, unless the local resolver throws.
THEOREM ServfailCorrect == Spec => []ServfailIsLastResort
<1>1. AnswerInv => ServfailIsLastResort
  <2> SUFFICES ASSUME AnswerInv, NEW q \in Queries, reply[q] = "servfail"
               PROVE  IF kind[q] = "ask" /\ local[q] = "throws"
                      THEN remote[q] # "running" /\ (main[q] # "cooked" => Ended(q))
                      ELSE remote[q] = "failed" /\ (kind[q] = "ask" => local[q] = "useless")
    BY DEF ServfailIsLastResort
  <2>1. main[q] \in {"cooked", "reply", "done"}
    BY DEF AnswerInv, QueryTypes, Asked
  <2>2. QED
    BY <2>1 DEF AnswerInv, Asked
<1>2. QED
  BY <1>1, Answers, PTL

------------------------------------------------------------------------------
(* The queue and the pipe *)

Sent == {w \in Waiters : reg[w] = "sent"}

(***************************************************************************)
(* A registration is in the queue before its byte is in the pipe, so there *)
(* are never more bytes, written or about to be, than registrations; and   *)
(* exactly as many where nobody leaves between the two, which on Android 7 *)
(* and later only shutdown() brings about.                                 *)
(***************************************************************************)
QueueInv ==
    /\ running \in BOOLEAN /\ thread \in {"selecting", "exited", "closed"}
    /\ pendingRegistrations \in Seq(Waiters) /\ pipe \in Nat
    /\ reg \in [Waiters -> Progress] /\ result \in [Waiters -> Results]
    /\ pipe + Cardinality(Sent) <= Len(pendingRegistrations)
    /\ Api > 23 /\ running => Len(pendingRegistrations) = pipe + Cardinality(Sent)

\* The coroutines of the server are finitely many.
LEMMA SentFinite ==
    /\ IsFiniteSet(Waiters)
    /\ IsFiniteSet(Sent) /\ Cardinality(Sent) \in Nat
    /\ IsFiniteSet(Sent') /\ Cardinality(Sent') \in Nat
<1>1. IsFiniteSet({"remote", "reply"})
  <2>1. IsFiniteSet({"remote"}) /\ IsFiniteSet({"reply"})
    BY FS_Singleton
  <2>2. IsFiniteSet({"remote"} \cup {"reply"})
    BY <2>1, FS_Union
  <2>3. {"remote", "reply"} = {"remote"} \cup {"reply"}
    OBVIOUS
  <2>4. QED
    BY <2>2, <2>3
<1>2. IsFiniteSet(Queries \X {"remote", "reply"})
  BY <1>1, FS_Product, DnsAssumption
<1>3. IsFiniteSet(Waiters)
  BY <1>2, FS_Singleton, FS_Union DEF Waiters
<1>4. Sent \subseteq Waiters /\ Sent' \subseteq Waiters
  BY DEF Sent
<1>5. QED
  BY <1>3, <1>4, FS_Subset, FS_CardinalityType

\* pendingRegistrations.send
LEMMA SendKeeps ==
    ASSUME QueueInv, NEW w \in Waiters, reg[w] # "sent", Send(w)
    PROVE  QueueInv'
<1>1. /\ reg' = [reg EXCEPT ![w] = "sent"] /\ result' = [result EXCEPT ![w] = "none"]
      /\ pendingRegistrations' = Append(pendingRegistrations, w)
      /\ UNCHANGED <<running, thread, pipe>>
  BY DEF Send
<1>2. Sent' = Sent \cup {w} /\ w \notin Sent
  BY <1>1 DEF QueueInv, Sent
<1>3. Cardinality(Sent') = Cardinality(Sent) + 1
  BY <1>2, SentFinite, FS_AddElement
<1>4. pendingRegistrations' \in Seq(Waiters) /\ Len(pendingRegistrations') = Len(pendingRegistrations) + 1
      /\ Len(pendingRegistrations) \in Nat
  BY <1>1, AppendProperties, LenProperties DEF QueueInv
<1>5. reg' \in [Waiters -> Progress] /\ result' \in [Waiters -> Results]
  BY <1>1 DEF QueueInv, Progress, Results
<1>6. QED
  BY <1>1, <1>3, <1>4, <1>5, SentFinite DEF QueueInv

\* The byte
LEMMA WriteKeeps ==
    ASSUME QueueInv, NEW w \in Waiters, WriteByte(w)
    PROVE  QueueInv'
<1>1. /\ reg[w] = "sent" /\ reg' = [reg EXCEPT ![w] = "awaiting"] /\ pipe' = pipe + 1
      /\ UNCHANGED <<running, thread, pendingRegistrations, result>>
  BY DEF WriteByte
<1>2. Sent' = Sent \ {w} /\ w \in Sent
  BY <1>1 DEF QueueInv, Sent
<1>3. Cardinality(Sent') = Cardinality(Sent) - 1
  BY <1>2, SentFinite, FS_RemoveElement
<1>4. reg' \in [Waiters -> Progress]
  BY <1>1 DEF QueueInv, Progress
<1>5. QED
  BY <1>1, <1>3, <1>4, SentFinite DEF QueueInv

\* A coroutine leaves register() or wait(), before its byte is written only
\* where it is suspended there or the monitor is closed.
LEMMA LeaveKeeps ==
    ASSUME QueueInv, NEW w \in Waiters, reg[w] = "sent" => ~(Api > 23 /\ running), Leave(w)
    PROVE  QueueInv'
<1>1. /\ reg' = [reg EXCEPT ![w] = "idle"] /\ result' = [result EXCEPT ![w] = "none"]
      /\ UNCHANGED <<running, thread, pendingRegistrations, pipe>>
  BY DEF Leave
<1>2. reg' \in [Waiters -> Progress] /\ result' \in [Waiters -> Results]
  BY <1>1 DEF QueueInv, Progress, Results
<1>3. Len(pendingRegistrations) \in Nat
  BY LenProperties DEF QueueInv
<1>4. CASE reg[w] = "sent"
  <2>1. Sent' = Sent \ {w} /\ w \in Sent
    BY <1>1, <1>4 DEF QueueInv, Sent
  <2>2. Cardinality(Sent') = Cardinality(Sent) - 1
    BY <2>1, SentFinite, FS_RemoveElement
  <2>3. QED
    BY <1>1, <1>2, <1>3, <1>4, <2>2, SentFinite DEF QueueInv
<1>5. CASE reg[w] # "sent"
  <2>1. Sent' = Sent
    BY <1>1, <1>5 DEF QueueInv, Sent
  <2>2. QED
    BY <1>1, <1>2, <2>1 DEF QueueInv
<1>6. QED
  BY <1>4, <1>5

\* A byte is read.
LEMMA RegisterKeeps ==
    ASSUME QueueInv, RegisterNext
    PROVE  QueueInv' /\ Head(pendingRegistrations) \in Waiters /\ pendingRegistrations # <<>>
<1> DEFINE w == Head(pendingRegistrations)
<1>1. /\ pipe > 0 /\ pipe' = pipe - 1 /\ pendingRegistrations' = Tail(pendingRegistrations)
      /\ UNCHANGED <<running, thread, reg>>
      /\ \E v \in {result[w], "registered", "failed"} : result' = [result EXCEPT ![w] = v]
  BY DEF RegisterNext
<1>2. Len(pendingRegistrations) \in Nat /\ Len(pendingRegistrations) > 0
  BY <1>1, SentFinite, LenProperties DEF QueueInv
<1>3. pendingRegistrations # <<>>
  BY <1>2, EmptySeq
<1>4. /\ w \in Waiters /\ Tail(pendingRegistrations) \in Seq(Waiters)
      /\ Len(Tail(pendingRegistrations)) = Len(pendingRegistrations) - 1
  BY <1>3, HeadTailProperties DEF QueueInv
<1>5. Sent' = Sent
  BY <1>1 DEF Sent
<1>6. result' \in [Waiters -> Results]
  BY <1>1, <1>4 DEF QueueInv, Results
<1>7. QED
  BY <1>1, <1>2, <1>3, <1>4, <1>5, <1>6, SentFinite DEF QueueInv

\* The thread goes on without touching the queue.
LEMMA OtherwiseKept ==
    ASSUME QueueInv, UNCHANGED <<pendingRegistrations, pipe, reg>>,
           UNCHANGED running \/ ~running', thread' \in {thread, "exited", "closed"}, running' \in BOOLEAN,
           result' \in [Waiters -> Results]
    PROVE  QueueInv'
<1>1. Sent' = Sent
  BY DEF Sent
<1>2. running' => running
  OBVIOUS
<1>3. QED
  BY <1>1, <1>2 DEF QueueInv

\* start() registers the server's channel only once.
StartsOnce == started # "opening" => reg[Starter] = "idle"

\* The registrations and their bytes.
THEOREM Queue == Spec => [](QueueInv /\ StartsOnce)
<1>1. Init => QueueInv /\ StartsOnce
  <2> SUFFICES ASSUME Init PROVE QueueInv /\ StartsOnce
    OBVIOUS
  <2>1. Sent = {} /\ StartsOnce
    BY DEF Init, MonitorInit, Sent, StartsOnce, Waiters, Starter
  <2>2. Cardinality(Sent) = 0 /\ pendingRegistrations \in Seq(Waiters) /\ Len(pendingRegistrations) = 0
    BY <2>1, FS_EmptySet, EmptySeq DEF Init, MonitorInit
  <2>3. running \in BOOLEAN
    BY Zenon DEF Init, MonitorInit
  <2>4. QED
    BY <2>1, <2>2, <2>3 DEF Init, MonitorInit, QueueInv, Progress, Results
<1>2. QueueInv /\ StartsOnce /\ [Next]_vars => QueueInv' /\ StartsOnce'
  <2> SUFFICES ASSUME QueueInv, StartsOnce, [Next]_vars PROVE QueueInv' /\ StartsOnce'
    OBVIOUS
  <2> USE DEF queryVars, serverVars, monitorVars
  <2>0. Starter \in Waiters
    BY DEF Starter, Waiters
  <2>1. \A q \in Queries : /\ Forwarder(q) \in Waiters /\ Replier(q) \in Waiters
                           /\ Starter # Forwarder(q) /\ Starter # Replier(q)
    BY DnsAssumption DEF Starter, Forwarder, Replier, Waiters
  <2> DEFINE Untouched == UNCHANGED <<running, thread, pendingRegistrations, pipe, reg, result, started>>
  <2>2. ASSUME Untouched PROVE QueueInv' /\ StartsOnce'
    <3>1. running' \in BOOLEAN
      BY <2>2, Zenon DEF QueueInv
    <3>2. thread' \in {thread, "exited", "closed"} /\ result' \in [Waiters -> Results]
      BY <2>2 DEF QueueInv
    <3>3. QueueInv'
      BY <2>2, <3>1, <3>2, OtherwiseKept
    <3>4. QED
      BY <2>2, <3>3 DEF StartsOnce
  <2>3. CASE UNCHANGED vars
    <3>1. Untouched
      BY <2>3 DEF vars
    <3>2. QED
      <4> HIDE DEF Untouched
      <4> QED  BY <2>2, <3>1
  <2>4. CASE StartServer
    <3>1. CASE started' = "opening" /\ Send(Starter)
      <4>1. reg[Starter] # "sent"
        BY <2>4 DEF StartServer, StartsOnce
      <4>2. QueueInv'
        BY <2>0, <3>1, <4>1, SendKeeps
      <4>3. QED
        BY <3>1, <4>2 DEF StartsOnce
    <3>2. CASE ~(started' = "opening" /\ Send(Starter))
      <4>1. /\ UNCHANGED <<running, thread, pendingRegistrations, pipe, reg, result>>
            /\ started = "no" /\ started' = "failed"
        BY <2>4, <3>2 DEF StartServer
      <4>2. running' \in BOOLEAN
        BY <4>1, Zenon DEF QueueInv
      <4>3. thread' \in {thread, "exited", "closed"} /\ result' \in [Waiters -> Results]
        BY <4>1 DEF QueueInv
      <4>4. QueueInv'
        BY <4>1, <4>2, <4>3, OtherwiseKept
      <4>5. QED
        BY <4>1, <4>4 DEF StartsOnce
    <3>3. QED
      BY <3>1, <3>2
  <2>5. CASE ServerStarted \/ StartCancelled
    <3>1. Leave(Starter) /\ (reg[Starter] = "sent" => ~(Api > 23 /\ running))
      BY <2>5, DnsAssumption DEF ServerStarted, StartCancelled, Cancellable
    <3>2. QueueInv'
      BY <2>0, <3>1, LeaveKeeps
    <3>3. reg'[Starter] = "idle"
      BY <2>0, <3>1 DEF Leave, QueueInv
    <3>4. QED
      BY <3>2, <3>3 DEF StartsOnce
  <2>6. CASE Shutdown
    <3>1. ~running' /\ UNCHANGED <<thread, pendingRegistrations, pipe, reg, result, started>>
      BY <2>6, Zenon DEF Shutdown
    <3>2. running' \in BOOLEAN
      BY <2>6, Zenon DEF Shutdown
    <3>3. thread' \in {thread, "exited", "closed"} /\ result' \in [Waiters -> Results]
      BY <3>1 DEF QueueInv
    <3>4. QueueInv'
      BY <3>1, <3>2, <3>3, OtherwiseKept
    <3>5. QED
      BY <3>1, <3>4 DEF StartsOnce
  <2>7. ASSUME NEW w \in Waiters \ {Starter}, UNCHANGED started,
               \/ Send(w) /\ reg[w] # "sent"
               \/ Leave(w) /\ (reg[w] = "sent" => ~(Api > 23 /\ running))
        PROVE  QueueInv' /\ StartsOnce'
    <3>1. QueueInv'
      BY <2>7, SendKeeps, LeaveKeeps
    <3>2. reg'[Starter] = reg[Starter]
      BY <2>0, <2>7 DEF Send, Leave, QueueInv
    <3>3. QED
      BY <2>7, <3>1, <3>2 DEF StartsOnce
  <2>8. ASSUME NEW q \in Queries, Resolve(q) PROVE QueueInv' /\ StartsOnce'
    <3>1. CASE LocalReturns(q) \/ AwaitReturns(q) \/ ScopeReturns(q) \/ ResolveCancelled(q)
      <4>1. Untouched
        BY <3>1 DEF LocalReturns, AwaitReturns, ScopeReturns, ResolveCancelled
      <4>2. QED
        <5> HIDE DEF Untouched
        <5> QED  BY <2>2, <4>1
    <3>2. CASE SendReply(q) \/ ReplyFails(q)
      <4>1. /\ Leave(Replier(q)) /\ UNCHANGED started
            /\ reg[Replier(q)] = "sent" => ~(Api > 23 /\ running)
        BY <3>2, DnsAssumption DEF SendReply, ReplyFails, Replying, Woken, Cancellable
      <4>2. QED
        BY <2>1, <2>7, <4>1
    <3>3. CASE WaitToReply(q)
      <4>1. Send(Replier(q)) /\ UNCHANGED started /\ reg[Replier(q)] # "sent"
        BY <3>3 DEF WaitToReply, Replying, Woken
      <4>2. QED
        BY <2>1, <2>7, <4>1
    <3>4. QED
      BY <2>8, <3>1, <3>2, <3>3 DEF Resolve
  <2>9. ASSUME NEW q \in Queries, Forward(q) PROVE QueueInv' /\ StartsOnce'
    <3>1. CASE ForwardAdvances(q) \/ ForwardFails(q) \/ ForwardCancelled(q)
      <4>1. /\ Leave(Forwarder(q)) /\ UNCHANGED started
            /\ reg[Forwarder(q)] = "sent" => ~(Api > 23 /\ running)
        BY <3>1, DnsAssumption DEF ForwardAdvances, ForwardFails, ForwardCancelled, EndForward,
                                   Forwarding, Woken, Cancellable
      <4>2. QED
        BY <2>1, <2>7, <4>1
    <3>2. CASE ForwardWaits(q)
      <4>1. Send(Forwarder(q)) /\ UNCHANGED started /\ reg[Forwarder(q)] # "sent"
        BY <3>2 DEF ForwardWaits, Forwarding, Woken
      <4>2. QED
        BY <2>1, <2>7, <4>1
    <3>3. QED
      BY <2>9, <3>1, <3>2 DEF Forward
  <2>10. ASSUME NEW q \in Queries, ForwardTimeout(q) \/ \E k \in Kinds : HandlePacket(q, k)
         PROVE  QueueInv' /\ StartsOnce'
    <3>1. Untouched
      BY <2>10 DEF ForwardTimeout, HandlePacket
    <3>2. QED
      <4> HIDE DEF Untouched
      <4> QED  BY <2>2, <3>1
  <2>11. ASSUME NEW w \in Waiters, Writes(w) PROVE QueueInv' /\ StartsOnce'
    <3>1. WriteByte(w) /\ UNCHANGED started
      BY <2>11 DEF Writes
    <3>2. QueueInv'
      BY <3>1, WriteKeeps
    <3>3. StartsOnce'
      BY <2>0, <3>1 DEF WriteByte, StartsOnce, QueueInv
    <3>4. QED
      BY <3>2, <3>3
  <2>12. ASSUME NEW c \in Channels, Fires(c) PROVE QueueInv' /\ StartsOnce'
    <3>1. /\ UNCHANGED <<running, thread, pendingRegistrations, pipe, reg, started>>
          /\ result' \in [Waiters -> Results]
      BY <2>12 DEF Fires, Fire, QueueInv, Results
    <3>2. running' \in BOOLEAN
      BY <3>1, Zenon DEF QueueInv
    <3>3. QED
      BY <3>1, <3>2, OtherwiseKept DEF StartsOnce
  <2>13. CASE Monitor
    <3>1. CASE RegisterNext
      BY <2>13, <3>1, RegisterKeeps DEF Monitor, RegisterNext, StartsOnce
    <3>2. CASE ThreadExits \/ CloseSelector
      <4>1. /\ UNCHANGED <<running, pendingRegistrations, pipe, reg, result, started>>
            /\ thread' \in {"exited", "closed"}
        BY <2>13, <3>2 DEF Monitor, ThreadExits, CloseSelector
      <4>2. running' \in BOOLEAN
        BY <4>1, Zenon DEF QueueInv
      <4>3. QED
        BY <4>1, <4>2, OtherwiseKept DEF QueueInv, StartsOnce
    <3>3. QED
      BY <2>13, <3>1, <3>2 DEF Monitor
  <2>14. QED
    BY <2>3, <2>4, <2>5, <2>6, <2>8, <2>9, <2>10, <2>11, <2>12, <2>13 DEF Next
<1>3. QED
  BY <1>1, <1>2, PTL DEF Spec

\* poll()!! never meets an empty queue, on any version of Android.
THEOREM PollCorrect == Spec => []PollFindsRegistration
<1>1. QueueInv => PollFindsRegistration
  BY SentFinite, LenProperties DEF QueueInv, PollFindsRegistration
<1>2. QED
  BY <1>1, Queue, PTL

\* On Android 7 and later no registration waits for the byte of a later one.
THEOREM BytesCorrect == Spec => [](Api > 23 => OneBytePerRegistration)
<1>1. QueueInv => (Api > 23 => OneBytePerRegistration)
  BY DEF QueueInv, OneBytePerRegistration, Sent
<1>2. QED
  BY <1>1, Queue, PTL

------------------------------------------------------------------------------
(* The channels *)

\* The socket has refused the reply to q, which waits for the server's channel.
Late(q) == q \in refused

ServerTypes ==
    /\ keys \subseteq open /\ open \subseteq Channels
    /\ interest \in [Channels -> Waiters \cup {Nobody}]
    /\ stage \in [Queries -> 0 .. Operations - 1]
    /\ started \in {"no", "opening", "yes", "failed"}

\* The selector has no keys when it is closed, which shutdown() leads to, which
\* does not come while the server is being started.
Phases ==
    /\ running => thread = "selecting"
    /\ thread = "closed" => keys = {}
    /\ started = "opening" => running /\ Server \in open

\* The registration of the server's channel was served.
Served == (started = "opening" /\ result[Starter] # "none") \/ started = "yes"

\* From then on the channel has its key until it is closed with the selector.
ServerKey ==
    /\ started = "opening" /\ result[Starter] # "none" => Server \in keys
    /\ started = "yes" => Server \in keys \/ Server \notin open

\* Its listener is replaced only by that of a reply, which is called once.
Listening ==
    Served => \/ interest[Server] = Starter
              \/ \E q \in Queries : Late(q) /\ interest[Server] \in {Replier(q), Nobody}

\* A channel of a query is closed by its forward, whichever way that ends.
Owned == \A q \in Queries : q \in open => remote[q] \in {"running", "cancelled"}

\* A registration in the queue that is for a reply.
ForReply(w) == w[2] = "reply" => Late(w[1])

RepliesQueued ==
    \A i \in 1 .. Len(pendingRegistrations) : ForReply(pendingRegistrations[i])

ChannelInv == ServerTypes /\ Phases /\ ServerKey /\ Listening /\ Owned /\ RepliesQueued

\* The coroutines that register a channel, told apart.
LEMMA WaiterFacts ==
    /\ Starter \in Waiters /\ Starter[2] # "reply"
    /\ \A q \in Queries : /\ Forwarder(q) \in Waiters /\ Forwarder(q) # Starter /\ Forwarder(q)[2] # "reply"
                          /\ Replier(q) \in Waiters /\ Replier(q) # Starter
                          /\ Replier(q)[1] = q /\ q \in Channels /\ q # Server
    /\ Server \in Channels
BY DnsAssumption DEF Starter, Forwarder, Replier, Waiters, Channels

\* Who registers the server's channel.
LEMMA ChannelFacts ==
    ASSUME NEW w \in Waiters
    PROVE  /\ ChannelOf(w) \in Channels
           /\ ChannelOf(w) = Server /\ w # Starter => w[2] = "reply" /\ w[1] \in Queries /\ w = Replier(w[1])
           /\ ChannelOf(w) # Server => w # Starter
           /\ ChannelOf(Starter) = Server
<1>1. CASE w = Starter
  BY <1>1 DEF Starter, ChannelOf, Channels
<1>2. ASSUME NEW q \in Queries, NEW o \in {"remote", "reply"}, w = <<q, o>>
      PROVE  /\ ChannelOf(w) \in Channels
             /\ ChannelOf(w) = Server /\ w # Starter => w[2] = "reply" /\ w[1] \in Queries /\ w = Replier(w[1])
             /\ ChannelOf(w) # Server => w # Starter
             /\ ChannelOf(Starter) = Server
  BY <1>2, DnsAssumption DEF Starter, Replier, ChannelOf, Channels
<1>3. QED
  BY <1>1, <1>2 DEF Waiters

\* Only WaitToReply adds to the replies that were refused, and nothing is taken
\* from them.
LEMMA RefusedGrows ==
    ASSUME [Next]_vars
    PROVE  \/ UNCHANGED refused
           \/ \E q \in Queries : refused' = refused \cup {q}
<1> USE DEF serverVars
<1>1. ASSUME NEW q \in Queries, Resolve(q)
      PROVE  UNCHANGED refused \/ refused' = refused \cup {q}
  BY <1>1 DEF Resolve, LocalReturns, AwaitReturns, ScopeReturns, ResolveCancelled, SendReply,
              WaitToReply, ReplyFails
<1>2. ASSUME NEW q \in Queries, Forward(q) \/ ForwardTimeout(q) PROVE UNCHANGED refused
  BY <1>2 DEF Forward, ForwardAdvances, ForwardFails, ForwardCancelled, ForwardTimeout, ForwardWaits
<1>3. ASSUME NEW q \in Queries, NEW k \in Kinds, HandlePacket(q, k) PROVE UNCHANGED refused
  BY <1>3 DEF HandlePacket
<1>4. QED
  BY <1>1, <1>2, <1>3
     DEF Next, StartServer, ServerStarted, StartCancelled, Shutdown, Writes, Fires, Monitor, vars

\* Replies that were refused are replies to queries.
THEOREM RefusedQueries == Spec => [](refused \subseteq Queries)
<1>1. Init => refused \subseteq Queries
  BY DEF Init
<1>2. refused \subseteq Queries /\ [Next]_vars => (refused \subseteq Queries)'
  BY RefusedGrows
<1>3. QED
  BY <1>1, <1>2, PTL DEF Spec

\* A reply that was refused stays so.
LEMMA LateKept ==
    ASSUME [Next]_vars
    PROVE  \A q \in Queries : Late(q) => Late(q)'
  BY RefusedGrows DEF Late

\* The queue stays as it is.
LEMMA QueueKept ==
    ASSUME AnswerInv, [Next]_vars, QueueInv, RepliesQueued, UNCHANGED pendingRegistrations
    PROVE  RepliesQueued'
<1>1. \A q \in Queries : Late(q) => Late(q)'
  BY LateKept
<1>2. ASSUME NEW i \in 1 .. Len(pendingRegistrations)
      PROVE  ForReply(pendingRegistrations[i])'
  <2>1. pendingRegistrations[i] \in Waiters
    BY ElementOfSeq, <1>2 DEF QueueInv
  <2>2. pendingRegistrations[i][2] = "reply" => pendingRegistrations[i][1] \in Queries
    BY <2>1 DEF Waiters, Starter
  <2>3. QED
    BY <1>1, <2>2 DEF RepliesQueued, ForReply
<1>3. QED
  BY <1>2 DEF RepliesQueued

\* A registration is appended.
LEMMA QueueAppended ==
    ASSUME AnswerInv, [Next]_vars, QueueInv, RepliesQueued, NEW w \in Waiters,
           ForReply(w)', pendingRegistrations' = Append(pendingRegistrations, w)
    PROVE  RepliesQueued'
<1>1. \A q \in Queries : Late(q) => Late(q)'
  BY LateKept
<1>2. ASSUME NEW v \in Waiters, ForReply(v)
      PROVE  ForReply(v)'
  <2>1. v[2] = "reply" => v[1] \in Queries
    BY <1>2 DEF Waiters, Starter
  <2>2. QED
    BY <1>1, <1>2, <2>1 DEF ForReply
<1>3. /\ Len(pendingRegistrations) \in Nat
      /\ Len(pendingRegistrations') = Len(pendingRegistrations) + 1
      /\ \A i \in 1 .. Len(pendingRegistrations) : /\ pendingRegistrations'[i] = pendingRegistrations[i]
                                                   /\ pendingRegistrations[i] \in Waiters
      /\ pendingRegistrations'[Len(pendingRegistrations) + 1] = w
  BY AppendProperties, LenProperties, ElementOfSeq DEF QueueInv
<1>4. ASSUME NEW i \in 1 .. Len(pendingRegistrations) + 1
      PROVE  ForReply(pendingRegistrations[i])'
  <2>1. CASE i \in 1 .. Len(pendingRegistrations)
    BY <1>2, <1>3, <2>1 DEF RepliesQueued, ForReply
  <2>2. CASE i = Len(pendingRegistrations) + 1
    BY <1>3, <2>2 DEF ForReply
  <2>3. QED
    BY <1>3, <2>1, <2>2
<1>5. QED
  BY <1>3, <1>4 DEF RepliesQueued

\* A registration is taken from the queue.
LEMMA QueueServed ==
    ASSUME AnswerInv, [Next]_vars, QueueInv, RepliesQueued, pendingRegistrations # <<>>,
           pendingRegistrations' = Tail(pendingRegistrations)
    PROVE  RepliesQueued' /\ ForReply(Head(pendingRegistrations))
<1>1. \A q \in Queries : Late(q) => Late(q)'
  BY LateKept
<1>2. ASSUME NEW v \in Waiters, ForReply(v)
      PROVE  ForReply(v)'
  <2>1. v[2] = "reply" => v[1] \in Queries
    BY <1>2 DEF Waiters, Starter
  <2>2. QED
    BY <1>1, <1>2, <2>1 DEF ForReply
<1>3. /\ Len(pendingRegistrations) \in Nat \ {0}
      /\ Len(pendingRegistrations') = Len(pendingRegistrations) - 1
      /\ Head(pendingRegistrations) = pendingRegistrations[1]
      /\ \A i \in 1 .. Len(pendingRegistrations') : pendingRegistrations'[i] = pendingRegistrations[i + 1]
      /\ \A i \in 1 .. Len(pendingRegistrations) : pendingRegistrations[i] \in Waiters
  BY HeadTailProperties, LenProperties, EmptySeq, ElementOfSeq DEF QueueInv
<1>4. ASSUME NEW i \in 1 .. Len(pendingRegistrations) - 1
      PROVE  ForReply(pendingRegistrations[i])'
  BY <1>2, <1>3 DEF RepliesQueued, ForReply
<1>5. ForReply(Head(pendingRegistrations))
  BY <1>3 DEF RepliesQueued
<1>6. QED
  BY <1>3, <1>4, <1>5 DEF RepliesQueued

\* The monitor and what is known of it are left alone.
LEMMA ChannelsKept ==
    ASSUME AnswerInv, [Next]_vars, QueueInv, ChannelInv,
           UNCHANGED <<running, thread, pendingRegistrations, keys, interest, open, started>>,
           UNCHANGED result[Starter],
           stage' \in [Queries -> 0 .. Operations - 1],
           \A q \in Queries : remote[q] \in {"running", "cancelled"} => remote'[q] \in {"running", "cancelled"}
    PROVE  ChannelInv'
<1>1. \A q \in Queries : Late(q) => Late(q)'
  BY LateKept
<1>2. RepliesQueued'
  BY QueueKept DEF ChannelInv
<1>3. ServerTypes' /\ Phases' /\ ServerKey' /\ Owned'
  BY DEF ChannelInv, ServerTypes, Phases, ServerKey, Owned
<1>4. Listening'
  BY <1>1 DEF ChannelInv, Listening, Served
<1>5. QED
  BY <1>2, <1>3, <1>4 DEF ChannelInv

\* A coroutine other than start() enters or leaves register().
LEMMA OthersKeep ==
    ASSUME AnswerInv, [Next]_vars, QueueInv, ChannelInv, NEW w \in Waiters \ {Starter},
           (Send(w) /\ ForReply(w)') \/ Leave(w), UNCHANGED <<keys, interest, open, started, remote>>,
           stage' \in [Queries -> 0 .. Operations - 1]
    PROVE  ChannelInv'
<1>1. \A q \in Queries : Late(q) => Late(q)'
  BY LateKept
<1>2. /\ UNCHANGED <<running, thread>> /\ UNCHANGED result[Starter]
      /\ \/ UNCHANGED pendingRegistrations
         \/ ForReply(w)' /\ pendingRegistrations' = Append(pendingRegistrations, w)
  BY WaiterFacts DEF Send, Leave, QueueInv
<1>3. RepliesQueued'
  BY <1>2, QueueKept, QueueAppended DEF ChannelInv
<1>4. ServerTypes' /\ Owned' /\ Phases'
  BY <1>2 DEF ChannelInv, ServerTypes, Phases, Owned
<1>5. ServerKey'
  BY <1>2 DEF ChannelInv, ServerKey
<1>6. Listening'
  BY <1>1, <1>2 DEF ChannelInv, Listening, Served
<1>7. QED
  BY <1>3, <1>4, <1>5, <1>6 DEF ChannelInv

\* forward ends and closes its channel.
LEMMA EndKeeps ==
    ASSUME AnswerInv, [Next]_vars, QueueInv, ChannelInv, NEW q \in Queries, NEW how, EndForward(q, how),
           UNCHANGED started
    PROVE  ChannelInv'
<1>1. \A x \in Queries : Late(x) => Late(x)'
  BY LateKept
<1>2. /\ UNCHANGED <<running, thread, pendingRegistrations>> /\ UNCHANGED result[Starter]
      /\ open' = open \ {q} /\ keys' = keys \ {q} /\ interest' = [interest EXCEPT ![q] = Nobody]
      /\ remote' = [remote EXCEPT ![q] = how] /\ stage' = [stage EXCEPT ![q] = 0]
  BY WaiterFacts DEF EndForward, Leave, CloseChannel, QueueInv
<1>3. RepliesQueued'
  BY <1>2, QueueKept DEF ChannelInv
<1>4. ServerTypes'
  <2>1. 0 \in 0 .. Operations - 1
    BY DEF Operations
  <2>2. stage' \in [Queries -> 0 .. Operations - 1]
    BY <1>2, <2>1 DEF ChannelInv, ServerTypes
  <2>3. keys' \subseteq open' /\ open' \subseteq Channels
    BY <1>2 DEF ChannelInv, ServerTypes
  <2>4. interest' \in [Channels -> Waiters \cup {Nobody}]
    BY <1>2 DEF ChannelInv, ServerTypes
  <2>5. QED
    BY <2>2, <2>3, <2>4 DEF ChannelInv, ServerTypes
<1>5. Phases' /\ ServerKey'
  BY <1>2, WaiterFacts DEF ChannelInv, Phases, ServerKey
<1>6. Owned'
  BY <1>2 DEF ChannelInv, Owned, AnswerInv, QueryTypes
<1>7. Listening'
  BY <1>1, <1>2, WaiterFacts DEF ChannelInv, Listening, Served, ServerTypes
<1>8. QED
  BY <1>3, <1>4, <1>5, <1>6, <1>7 DEF ChannelInv

\* The channels of the server and of its queries.
THEOREM ChannelsHeld == Spec => []ChannelInv
<1>1. Init => ChannelInv
  <2> SUFFICES ASSUME Init PROVE ChannelInv
    OBVIOUS
  <2>1. ServerTypes
    BY DnsAssumption DEF Init, MonitorInit, ServerTypes, Operations
  <2>2. RepliesQueued
    BY DEF Init, MonitorInit, RepliesQueued
  <2>3. Phases /\ ServerKey /\ Listening /\ Owned
    BY DEF Init, MonitorInit, Phases, ServerKey, Listening, Served, Owned
  <2>4. QED
    BY <2>1, <2>2, <2>3 DEF ChannelInv
<1>2. AnswerInv /\ QueueInv /\ StartsOnce /\ ChannelInv /\ [Next]_vars => ChannelInv'
  <2> SUFFICES ASSUME AnswerInv, QueueInv, StartsOnce, ChannelInv, [Next]_vars PROVE ChannelInv'
    OBVIOUS
  <2> USE DEF queryVars, serverVars, monitorVars
  <2>0. \A q \in Queries : Late(q) => Late(q)'
    BY LateKept
  <2> DEFINE Untouched == UNCHANGED <<running, thread, pendingRegistrations, keys, interest, open, started, stage>>
             Going == \A q \in Queries : remote[q] \in {"running", "cancelled"}
                                            => remote'[q] \in {"running", "cancelled"}
  <2>1. ASSUME Untouched, Going, UNCHANGED result PROVE ChannelInv'
    <3>1. stage' \in [Queries -> 0 .. Operations - 1]
      BY <2>1 DEF ChannelInv, ServerTypes
    <3>2. QED
      BY <2>1, <3>1, ChannelsKept
  <2>2. CASE UNCHANGED vars
    <3>1. Untouched /\ Going /\ UNCHANGED result
      BY <2>2 DEF vars
    <3> HIDE DEF Untouched, Going
    <3>2. QED
      BY <2>1, <3>1
  <2>3. CASE StartServer
    <3>1. /\ started = "no" /\ running /\ open' = open \cup {Server} /\ UNCHANGED <<running, thread, keys, interest>>
          /\ stage' = stage /\ remote' = remote
          /\ \/ started' = "opening" /\ Send(Starter)
             \/ started' = "failed" /\ UNCHANGED pendingRegistrations
      BY <2>3 DEF StartServer, Send
    <3>2. RepliesQueued'
      <4>1. CASE Send(Starter)
        BY <4>1, WaiterFacts, QueueAppended DEF ChannelInv, Send, ForReply
      <4>2. CASE UNCHANGED pendingRegistrations
        BY <4>2, QueueKept DEF ChannelInv
      <4>3. QED
        BY <3>1, <4>1, <4>2
    <3>3. ServerTypes' /\ Phases'
      BY <3>1, WaiterFacts DEF ChannelInv, ServerTypes, Phases
    <3>4. started' = "opening" => result'[Starter] = "none"
      BY <3>1, WaiterFacts DEF Send, QueueInv
    <3>5. ServerKey' /\ Listening'
      BY <3>1, <3>4 DEF ServerKey, Listening, Served
    <3>6. Owned'
      BY <3>1, WaiterFacts DEF ChannelInv, Owned
    <3>7. QED
      BY <3>2, <3>3, <3>5, <3>6 DEF ChannelInv
  <2>4. CASE ServerStarted \/ StartCancelled
    <3>1. /\ started = "opening"
          /\ UNCHANGED <<running, thread, pendingRegistrations, keys, interest, open, remote, stage>>
          /\ \/ started' = "yes" /\ result[Starter] # "none"
             \/ started' = "failed"
      BY <2>4 DEF ServerStarted, StartCancelled, Leave
    <3>2. RepliesQueued'
      BY <3>1, QueueKept DEF ChannelInv
    <3>3. ServerTypes' /\ Phases' /\ Owned'
      BY <3>1 DEF ChannelInv, ServerTypes, Phases, Owned
    <3>4. ServerKey'
      BY <3>1 DEF ChannelInv, ServerKey
    <3>5. Listening'
      BY <2>0, <3>1 DEF ChannelInv, Listening, Served
    <3>6. QED
      BY <3>2, <3>3, <3>4, <3>5 DEF ChannelInv
  <2>5. CASE Shutdown
    <3>1. /\ started # "opening"
          /\ UNCHANGED <<thread, pendingRegistrations, keys, interest, open, remote, stage, started>>
          /\ ~running'
      BY <2>5, Zenon DEF Shutdown
    <3>2. RepliesQueued'
      BY <3>1, QueueKept DEF ChannelInv
    <3>3. ServerTypes' /\ Phases' /\ Owned'
      BY <3>1 DEF ChannelInv, ServerTypes, Phases, Owned
    <3>4. ServerKey'
      BY <3>1 DEF ChannelInv, ServerKey
    <3>5. Listening'
      BY <2>0, <3>1 DEF ChannelInv, Listening, Served
    <3>6. QED
      BY <3>2, <3>3, <3>4, <3>5 DEF ChannelInv
  <2>6. ASSUME NEW q \in Queries, NEW k \in Kinds, HandlePacket(q, k) PROVE ChannelInv'
    <3>1. /\ UNCHANGED <<running, thread, pendingRegistrations, result, keys, interest, started, stage>>
          /\ thread = "selecting" /\ open' = open \cup {q}
          /\ \E r \in {"running", "cancelled"} : remote' = [remote EXCEPT ![q] = r]
      BY <2>6 DEF HandlePacket
    <3>2. RepliesQueued'
      BY <3>1, QueueKept DEF ChannelInv
    <3>3. ServerTypes' /\ Phases'
      BY <3>1, WaiterFacts DEF ChannelInv, ServerTypes, Phases
    <3>4. Owned'
      BY <3>1 DEF ChannelInv, Owned, AnswerInv, QueryTypes
    <3>5. ServerKey'
      BY <3>1, WaiterFacts DEF ChannelInv, ServerKey
    <3>6. Listening'
      BY <2>0, <3>1 DEF ChannelInv, Listening, Served
    <3>7. QED
      BY <3>2, <3>3, <3>4, <3>5, <3>6 DEF ChannelInv
  <2>7. ASSUME NEW q \in Queries, Resolve(q) PROVE ChannelInv'
    <3>1. CASE LocalReturns(q) \/ AwaitReturns(q) \/ ScopeReturns(q) \/ ResolveCancelled(q)
      <4>1. Untouched /\ UNCHANGED result
        BY <3>1 DEF LocalReturns, AwaitReturns, ScopeReturns, ResolveCancelled
      <4>2. Going
        BY <3>1 DEF LocalReturns, AwaitReturns, ScopeReturns, ResolveCancelled, AnswerInv, QueryTypes
      <4> HIDE DEF Untouched, Going
      <4>3. QED
        BY <2>1, <4>1, <4>2
    <3>2. CASE SendReply(q) \/ ReplyFails(q) \/ WaitToReply(q)
      <4>1. /\ (Send(Replier(q)) /\ Late(q)') \/ Leave(Replier(q))
            /\ UNCHANGED <<keys, interest, open, started, remote, stage>>
        BY <3>2 DEF SendReply, ReplyFails, WaitToReply, Replying, Send, Late
      <4>2. (Late(q)' => ForReply(Replier(q))') /\ Replier(q) \in Waiters \ {Starter}
        BY WaiterFacts DEF ForReply
      <4>3. stage' \in [Queries -> 0 .. Operations - 1]
        BY <4>1 DEF ChannelInv, ServerTypes
      <4>4. QED
        BY <4>1, <4>2, <4>3, OthersKeep
    <3>3. QED
      BY <2>7, <3>1, <3>2 DEF Resolve
  <2>8. ASSUME NEW q \in Queries, Forward(q) PROVE ChannelInv'
    <3>1. ASSUME NEW how, EndForward(q, how), UNCHANGED started PROVE ChannelInv'
      BY <3>1, EndKeeps
    <3>2. CASE ForwardFails(q) \/ ForwardCancelled(q)
      BY <3>1, <3>2 DEF ForwardFails, ForwardCancelled
    <3>3. ForReply(Forwarder(q))' /\ Forwarder(q) \in Waiters \ {Starter}
      BY WaiterFacts DEF ForReply
    <3>4. CASE ForwardAdvances(q)
      <4>1. CASE stage[q] + 1 = Operations
        BY <3>1, <3>4, <4>1 DEF ForwardAdvances
      <4>2. CASE stage[q] + 1 # Operations
        <5>1. /\ Leave(Forwarder(q)) /\ stage' = [stage EXCEPT ![q] = @ + 1]
              /\ UNCHANGED <<keys, interest, open, started, remote>>
          BY <3>4, <4>2 DEF ForwardAdvances
        <5>2. stage[q] + 1 \in 0 .. Operations - 1
          BY <4>2 DEF ChannelInv, ServerTypes, Operations
        <5>3. stage' \in [Queries -> 0 .. Operations - 1]
          BY <5>1, <5>2 DEF ChannelInv, ServerTypes
        <5>4. QED
          BY <3>3, <5>1, <5>3, OthersKeep
      <4>3. QED
        BY <4>1, <4>2
    <3>5. CASE ForwardWaits(q)
      <4>1. Send(Forwarder(q)) /\ UNCHANGED <<keys, interest, open, started, remote, stage>>
        BY <3>5 DEF ForwardWaits, Send
      <4>2. stage' \in [Queries -> 0 .. Operations - 1]
        BY <4>1 DEF ChannelInv, ServerTypes
      <4>3. QED
        BY <3>3, <4>1, <4>2, OthersKeep
    <3>6. QED
      BY <2>8, <3>2, <3>4, <3>5 DEF Forward
  <2>9. ASSUME NEW q \in Queries, ForwardTimeout(q) PROVE ChannelInv'
    <3>1. Untouched /\ Going /\ UNCHANGED result
      BY <2>9 DEF ForwardTimeout, AnswerInv, QueryTypes
    <3> HIDE DEF Untouched, Going
    <3>2. QED
      BY <2>1, <3>1
  <2>10. ASSUME NEW w \in Waiters, Writes(w) PROVE ChannelInv'
    <3>1. Untouched /\ Going /\ UNCHANGED result
      BY <2>10 DEF Writes, WriteByte
    <3> HIDE DEF Untouched, Going
    <3>2. QED
      BY <2>1, <3>1
  <2>11. ASSUME NEW c \in Channels, Fires(c) PROVE ChannelInv'
    <3>1. /\ interest[c] # Starter /\ interest' = [interest EXCEPT ![c] = Nobody]
          /\ UNCHANGED <<running, thread, pendingRegistrations, keys, open, started, remote, stage>>
      BY <2>11 DEF Fires, Fire
    <3>2. UNCHANGED result[Starter]
      BY <2>11, WaiterFacts DEF Fires, Fire, QueueInv
    <3>3. RepliesQueued'
      BY <3>1, QueueKept DEF ChannelInv
    <3>4. ServerTypes' /\ Phases' /\ Owned'
      BY <3>1 DEF ChannelInv, ServerTypes, Phases, Owned
    <3>5. ServerKey'
      BY <3>1, <3>2 DEF ChannelInv, ServerKey
    <3>6. Listening'
      <4>1. \/ interest'[Server] = interest[Server]
            \/ interest[Server] # Starter /\ interest'[Server] = Nobody
        BY <3>1 DEF ChannelInv, ServerTypes
      <4>2. QED
        BY <2>0, <3>1, <3>2, <4>1 DEF ChannelInv, Listening, Served
    <3>7. QED
      BY <3>3, <3>4, <3>5, <3>6 DEF ChannelInv
  <2>12. CASE Monitor /\ RegisterNext
    <3> DEFINE w == Head(pendingRegistrations)
               c == ChannelOf(w)
    <3>1. w \in Waiters /\ pendingRegistrations # <<>>
      BY <2>12, RegisterKeeps
    <3>2. /\ thread = "selecting" /\ pendingRegistrations' = Tail(pendingRegistrations)
          /\ UNCHANGED <<running, thread, open, started, remote, stage>>
          /\ IF c \in open THEN keys' = keys \cup {c} /\ interest' = [interest EXCEPT ![c] = w]
                           ELSE UNCHANGED <<keys, interest>>
          /\ \E v \in Results : result' = [result EXCEPT ![w] = v]
      BY <2>12, <3>1 DEF Monitor, RegisterNext, QueueInv, Results
    <3>3. RepliesQueued' /\ ForReply(w)
      BY <3>1, <3>2, QueueServed DEF ChannelInv
    <3>4. /\ c \in Channels /\ (c = Server /\ w # Starter => w[2] = "reply" /\ w[1] \in Queries /\ w = Replier(w[1]))
          /\ (c # Server => w # Starter) /\ ChannelOf(Starter) = Server
      BY <3>1, ChannelFacts
    <3> HIDE DEF c
    <3>5. ServerTypes' /\ Phases' /\ Owned'
      <4>1. interest' \in [Channels -> Waiters \cup {Nobody}]
        BY <3>1, <3>2, <3>4 DEF ChannelInv, ServerTypes
      <4>2. keys' \subseteq open' /\ keys \subseteq keys'
        BY <3>2 DEF ChannelInv, ServerTypes
      <4>3. QED
        BY <3>2, <4>1, <4>2 DEF ChannelInv, ServerTypes, Phases, Owned
    <3>6. /\ w = Starter => c = Server
          /\ w # Starter => result'[Starter] = result[Starter]
      BY <3>1, <3>2, <3>4, WaiterFacts DEF c, QueueInv
    <3>7. ServerKey'
      BY <3>2, <3>6 DEF ChannelInv, ServerKey, Phases
    <3>8. CASE c = Server /\ c \in open
      <4>1. interest'[Server] = w
        BY <3>2, <3>8, WaiterFacts DEF ChannelInv, ServerTypes
      <4>2. w # Starter => \E q \in Queries : Late(q)' /\ w = Replier(q)
        BY <2>0, <3>3, <3>4, <3>8 DEF ForReply
      <4>3. Listening'
        BY <4>1, <4>2 DEF Listening
      <4>4. QED
        BY <3>3, <3>5, <3>7, <4>3 DEF ChannelInv
    <3>9. CASE ~(c = Server /\ c \in open)
      <4>1. interest'[Server] = interest[Server]
        BY <3>2, <3>4, <3>9, WaiterFacts DEF ChannelInv, ServerTypes
      <4>2. Served' => Served
        BY <3>2, <3>6, <3>9 DEF Served, ChannelInv, Phases
      <4>3. Listening'
        BY <2>0, <4>1, <4>2 DEF ChannelInv, Listening
      <4>4. QED
        BY <3>3, <3>5, <3>7, <4>3 DEF ChannelInv
    <3>10. QED
      BY <3>8, <3>9
  <2>13. CASE Monitor /\ (ThreadExits \/ CloseSelector)
    <3>1. /\ UNCHANGED <<running, pendingRegistrations, interest, started, result, remote, stage>>
          /\ ~running
          /\ \/ thread' = "exited" /\ UNCHANGED <<keys, open>>
             \/ thread' = "closed" /\ open' = open \ keys /\ keys' = {}
      BY <2>13 DEF Monitor, ThreadExits, CloseSelector, ChannelInv, Phases
    <3>2. RepliesQueued'
      BY <3>1, QueueKept DEF ChannelInv
    <3>3. ServerTypes'
      BY <3>1 DEF ChannelInv, ServerTypes
    <3>4. Phases' /\ Owned'
      BY <3>1 DEF ChannelInv, Phases, Owned
    <3>5. ServerKey'
      BY <3>1 DEF ChannelInv, ServerKey, Phases
    <3>6. Listening'
      BY <2>0, <3>1 DEF ChannelInv, Listening, Served
    <3>7. QED
      BY <3>2, <3>3, <3>4, <3>5, <3>6 DEF ChannelInv
  <2>14. QED
    BY <2>2, <2>3, <2>4, <2>5, <2>6, <2>7, <2>8, <2>9, <2>10, <2>11, <2>12, <2>13 DEF Next, Monitor
<1>3. QED
  BY <1>1, <1>2, Answers, Queue, PTL DEF Spec

\* The server's channels: typed, released after shutdown(), and read until the
\* socket refuses a reply.
THEOREM ServerCorrect == Spec => []ServerInv
<1>1. AnswerInv /\ QueueInv /\ ChannelInv /\ refused \subseteq Queries => ServerInv
  <2> SUFFICES ASSUME AnswerInv, QueueInv, ChannelInv, refused \subseteq Queries PROVE ServerInv
    OBVIOUS
  <2>1. TypeOK
    <3>1. MonitorTypeOK
      BY DEF MonitorTypeOK, QueueInv, ChannelInv, ServerTypes
    <3>2. \A q \in Queries : remote[q] \in {"ok", "failed"} => q \notin open
      BY DEF ChannelInv, Owned
    <3>3. QED
      BY <3>1, <3>2 DEF TypeOK, AnswerInv, QueryTypes, ChannelInv, ServerTypes
  <2>2. ClosedIsReleased
    <3>1. Over => \A q \in Queries : q \notin open
      BY DEF Over, ChannelInv, Owned
    <3>2. thread = "closed" /\ started = "yes" => Server \notin open
      BY DEF ChannelInv, Phases, ServerKey
    <3>3. QED
      BY <3>1, <3>2 DEF ClosedIsReleased, ChannelInv, ServerTypes, Channels
  <2>3. DeafOnlyAfterReply
    BY DEF DeafOnlyAfterReply, ChannelInv, Listening, Served, Late
  <2>4. QED
    BY <2>1, <2>2, <2>3 DEF ServerInv
<1>2. QED
  BY <1>1, Answers, Queue, ChannelsHeld, RefusedQueries, PTL

==============================================================================
