---------------------------- MODULE ChannelMonitor ----------------------------
(***************************************************************************)
(* net/ChannelMonitor.kt: the thread that selects for all channels of a    *)
(* LocalDnsServer.  A coroutine that wants a channel registered appends a  *)
(* Registration to a queue and writes a byte into a pipe; the thread takes *)
(* one Registration from the queue for every byte it reads.                *)
(*                                                                         *)
(* The interest set of a channel is reduced to who is called when it       *)
(* fires; which operation it waits for is the network's business.          *)
(***************************************************************************)
EXTENDS Naturals, Sequences, FiniteSets

CONSTANTS
    Channels,       \* channels of the server
    Waiters,        \* coroutines that register a channel
    ChannelOf(_),   \* the channel a coroutine registers
    Nobody,         \* no waiter
    Api             \* Build.VERSION.SDK_INT

VARIABLES
    running,        \* ChannelMonitor.running
    thread,         \* run(): "selecting", "exited", or "closed" by close()
    pendingRegistrations,
    pipe,           \* bytes in the pipe
    reg,            \* reg[w]: where the coroutine is in register() or wait()
    result,         \* result[w]: what the thread did for it
    keys,           \* channels with a key in the selector
    interest,       \* interest[c]: who is called when c fires
    open            \* channels that are open

\* sent: in the queue; awaiting: the byte is written.
Progress == {"idle", "sent", "awaiting"}

\* registered: the listener is installed; fired: it was called; failed: the
\* channel was closed.
Results == {"none", "registered", "fired", "failed"}

MonitorTypeOK ==
    /\ running \in BOOLEAN
    /\ thread \in {"selecting", "exited", "closed"}
    /\ pendingRegistrations \in Seq(Waiters)
    /\ pipe \in Nat
    /\ reg \in [Waiters -> Progress]
    /\ result \in [Waiters -> Results]
    /\ keys \subseteq open
    /\ interest \in [Channels -> Waiters \cup {Nobody}]
    /\ open \subseteq Channels

MonitorInit ==
    /\ running = TRUE /\ thread = "selecting"
    /\ pendingRegistrations = <<>> /\ pipe = 0
    /\ reg = [w \in Waiters |-> "idle"]
    /\ result = [w \in Waiters |-> "none"]
    /\ keys = {} /\ interest = [c \in Channels |-> Nobody]
    /\ open = {}

------------------------------------------------------------------------------
(* The coroutines *)

\* register(), the first half: pendingRegistrations.send
Send(w) ==
    /\ reg' = [reg EXCEPT ![w] = "sent"]
    /\ result' = [result EXCEPT ![w] = "none"]
    /\ pendingRegistrations' = Append(pendingRegistrations, w)
    /\ UNCHANGED <<running, thread, pipe, keys, interest>>

\* register(), the second half: the byte
WriteByte(w) ==
    /\ reg[w] = "sent" /\ running
    /\ reg' = [reg EXCEPT ![w] = "awaiting"]
    /\ pipe' = pipe + 1
    /\ UNCHANGED <<running, thread, pendingRegistrations, result, keys, interest, open>>

\* await() returns: the listener was called, or register() threw.
Woken(w, how) == reg[w] = "awaiting" /\ result[w] = how

\* Mutant: writeCompat changes the context on every version.
CancellableAnywhere(w) == reg[w] # "idle"

\* A coroutine that is cancelled leaves register() and wait() where it is
\* suspended.  Before the byte is written it is suspended only up to Android 6,
\* where writeCompat changes the context.  A monitor that is closed throws.
Cancellable(w) ==
    \/ reg[w] = "awaiting"
    \/ reg[w] = "sent" /\ (Api <= 23 \/ ~running)

\* The coroutine is out of register() and wait().
Leave(w) ==
    /\ reg' = [reg EXCEPT ![w] = "idle"]
    /\ result' = [result EXCEPT ![w] = "none"]
    /\ UNCHANGED <<running, thread, pendingRegistrations, pipe>>

------------------------------------------------------------------------------
(* The thread *)

\* The listener of the pipe, for one byte.  register() of a channel that is
\* closed throws.  A channel that has a key gets the new listener in place of
\* the old one.  The byte may be that of a later registration.
RegisterNext ==
    LET w == Head(pendingRegistrations)
        c == ChannelOf(w)
    IN  /\ thread = "selecting" /\ pipe > 0
        /\ pipe' = pipe - 1
        /\ pendingRegistrations' = Tail(pendingRegistrations)
        /\ IF c \in open
           THEN keys' = keys \cup {c} /\ interest' = [interest EXCEPT ![c] = w]
           ELSE UNCHANGED <<keys, interest>>
        /\ result' = [result EXCEPT ![w] =
              IF reg[w] = "idle" THEN @ ELSE IF c \in open THEN "registered" ELSE "failed"]
        /\ UNCHANGED <<running, thread, reg, open>>

\* The listener that wait() installed: it is called once.
Fire(c) ==
    /\ thread = "selecting" /\ c \in keys /\ interest[c] # Nobody
    /\ interest' = [interest EXCEPT ![c] = Nobody]
    /\ result' = [result EXCEPT ![interest[c]] = IF @ = "registered" THEN "fired" ELSE @]
    /\ UNCHANGED <<running, thread, pendingRegistrations, pipe, reg, keys, open>>

\* run() returns once running is false, after the keys it has already selected.
ThreadExits ==
    /\ thread = "selecting" /\ ~running
    /\ thread' = "exited"
    /\ UNCHANGED <<running, pendingRegistrations, pipe, reg, result, keys, interest, open>>

\* Mutant: close() closes the selector but no channel.
CloseSelectorOnly ==
    /\ thread = "exited"
    /\ thread' = "closed"
    /\ keys' = {}
    /\ UNCHANGED <<running, pendingRegistrations, pipe, reg, result, interest, open>>

\* The coroutine of close()
CloseSelector ==
    /\ thread = "exited"
    /\ thread' = "closed"
    /\ open' = open \ keys
    /\ keys' = {}
    /\ UNCHANGED <<running, pendingRegistrations, pipe, reg, result, interest>>

\* A channel that is closed loses its key.
CloseChannel(c) ==
    /\ open' = open \ {c}
    /\ keys' = keys \ {c}
    /\ interest' = [interest EXCEPT ![c] = Nobody]

------------------------------------------------------------------------------

\* pendingRegistrations.poll()!! never meets an empty queue.
PollFindsRegistration == pipe <= Len(pendingRegistrations)

\* Every registration has its byte in the pipe, or a coroutine that is about
\* to write it: no registration waits for the byte of a later one.
OneBytePerRegistration ==
    running => Len(pendingRegistrations) =
                   pipe + Cardinality({w \in Waiters : reg[w] = "sent"})
==============================================================================
