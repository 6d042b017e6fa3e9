---------------------------- MODULE TrafficMonitor ----------------------------
(***************************************************************************)
(* How the traffic of a session gets into its profile: bg/TrafficMonitor,  *)
(* ProxyInstance.shutdown, BaseService.persistStats and utils/DirectBoot.  *)
(*                                                                         *)
(* ss-local reports a running total.  persistStats adds it to the profile  *)
(* in the private database or, before the user has unlocked the device, to *)
(* the copy of the profile in device storage, which is marked dirty and    *)
(* flushed later.  One total stands for tx and rx; directBootAware is on.  *)
(*                                                                         *)
(* The thread that takes the reports and the main thread, which copies the *)
(* totals for the clients, share current and dirty without a lock.         *)
(***************************************************************************)
EXTENDS Integers

CONSTANTS
    MaxBytes,       \* bound: traffic of a profile
    MaxSessions,    \* bound: sessions
    MaxRestarts,    \* bound: restarts of an ss-local by its guard
    MaxShutdowns,   \* bound: ACTION_SHUTDOWN broadcasts that a session receives
    MaxReboots      \* bound: reboots of the device

ASSUME TrafficAssumption ==
    {MaxBytes, MaxSessions, MaxRestarts, MaxShutdowns, MaxReboots} \subseteq Nat

Profiles == {"main", "udp"}

VARIABLES
    fallback,       \* has the profile a UDP fallback?
    unlocked,       \* the private database can be opened
    session,        \* there is a session, with a TrafficMonitor per profile
    counter,        \* counter[p]: total of the running ss-local of p
    current,        \* current[p]: TrafficMonitor.current
    out,            \* out[p]: TrafficMonitor.out, what the clients are shown
    dirty,          \* those whose TrafficMonitor.dirty is set
    marking,        \* those whose thread has changed current and is to set dirty
    clearing,       \* the one whose out was copied and whose dirty is to be cleared
    overlapped,     \* those whose last report was marked while they were clearing
    db,             \* db[p]: the profile's total in the private database
    device,         \* the file directBootProfile: is it there, totals, dirty flags
    registered,     \* DirectBoot.registered: waits for ACTION_BOOT_COMPLETED
    bounds,         \* how often each bounded event has happened
    carried,        \* carried[p]: traffic of the session, whatever was restarted
    saved,          \* saved[p]: the part of it that was given to persistStats
    due             \* due[p]: all traffic that was ever given to persistStats

monitor == <<out, dirty, marking, clearing, overlapped>>
store == <<db, device, registered>>
told == <<carried, saved, due>>
trafficVars == <<fallback, unlocked, session, counter, current, monitor, store, bounds, told>>

\* The profiles that have an ss-local.
Proxies == IF fallback THEN Profiles ELSE {"main"}

Zero == [p \in Profiles |-> 0]
Events == {"sessions", "restarts", "shutdowns", "reboots"}

\* Type invariant of the counters and of the three places that keep totals.
TrafficTypeOK ==
    /\ fallback \in BOOLEAN /\ unlocked \in BOOLEAN /\ session \in BOOLEAN /\ registered \in BOOLEAN
    /\ counter \in [Profiles -> Nat] /\ current \in [Profiles -> Nat]
    /\ out \in [Profiles -> Nat] /\ clearing \in Profiles \cup {"none"}
    /\ dirty \subseteq Profiles /\ marking \subseteq Profiles /\ overlapped \subseteq Profiles
    /\ db \in [Profiles -> Nat]
    /\ device \in [exists : BOOLEAN, total : [Profiles -> Nat], dirty : SUBSET Profiles]
    /\ bounds \in [Events -> Nat]
    /\ carried \in [Profiles -> Nat] /\ saved \in [Profiles -> Nat] /\ due \in [Profiles -> Nat]

\* DirectBoot.update(): a clean copy of the profile and its fallback.
Copy(totals) == [exists |-> TRUE, total |-> totals, dirty |-> {}]

TrafficInit ==
    /\ fallback \in BOOLEAN
    /\ unlocked = TRUE /\ session = FALSE /\ registered = FALSE
    /\ counter = Zero /\ current = Zero /\ db = Zero
    /\ out = Zero /\ dirty = {} /\ marking = {} /\ clearing = "none" /\ overlapped = {}
    /\ device = Copy(Zero)
    /\ bounds = [e \in Events |-> 0]
    /\ carried = Zero /\ saved = Zero /\ due = Zero

\* A bounded event happens.
Happens(e, max) == bounds[e] < max /\ bounds' = [bounds EXCEPT ![e] = @ + 1]

------------------------------------------------------------------------------
(* The session *)

\* The session's TrafficMonitors are gone, or new.
NoMonitor ==
    out' = Zero /\ dirty' = {} /\ marking' = {} /\ clearing' = "none" /\ overlapped' = {}

\* The main thread is not inside requestUpdate.
MainFree == clearing = "none"

\* onStartCommand with a profile: before the unlock there must be a device copy.
StartSession ==
    /\ ~session
    /\ unlocked \/ device.exists
    /\ Happens("sessions", MaxSessions)
    /\ session' = TRUE
    /\ counter' = Zero /\ current' = Zero
    /\ NoMonitor
    /\ carried' = Zero /\ saved' = Zero
    /\ UNCHANGED <<fallback, unlocked, store, due>>

\* ss-local carries traffic and reports its total: acceptInternal up to the
\* assignment of dirty, which only a total that differs gets to.
AcceptInternal(p) ==
    /\ session /\ p \notin marking
    /\ due[p] + carried[p] < MaxBytes
    /\ counter' = [counter EXCEPT ![p] = @ + 1]
    /\ current' = [current EXCEPT ![p] = counter'[p]]
    /\ marking' = IF current' = current THEN marking ELSE marking \cup {p}
    /\ carried' = [carried EXCEPT ![p] = @ + 1]
    /\ UNCHANGED <<fallback, unlocked, session, out, dirty, clearing, overlapped, store,
                   bounds, saved, due>>

\* acceptInternal: dirty = true
MarkDirty(p) ==
    /\ p \in marking
    /\ marking' = marking \ {p}
    /\ dirty' = dirty \cup {p}
    /\ overlapped' = IF clearing = p THEN overlapped \cup {p} ELSE overlapped \ {p}
    /\ UNCHANGED <<fallback, unlocked, session, counter, current, out, clearing, store, bounds,
                   told>>

\* Mutant: the totals are not copied.
RequestUpdateClears(p) ==
    /\ session /\ MainFree /\ p \in dirty
    /\ clearing' = p
    /\ UNCHANGED <<fallback, unlocked, session, counter, current, out, dirty, marking, overlapped,
                   store, bounds, told>>

\* requestUpdate with dirty set, up to the copy.  Without it, or when no time
\* has passed, only the rates may change.
RequestUpdate(p) ==
    /\ session /\ MainFree /\ p \in dirty
    /\ out' = [out EXCEPT ![p] = current[p]]
    /\ clearing' = p
    /\ UNCHANGED <<fallback, unlocked, session, counter, current, dirty, marking, overlapped,
                   store, bounds, told>>

\* requestUpdate: dirty = false
ClearDirty ==
    /\ ~MainFree
    /\ dirty' = dirty \ {clearing}
    /\ clearing' = "none"
    /\ UNCHANGED <<fallback, unlocked, session, counter, current, out, marking, overlapped,
                   store, bounds, told>>

\* The guard of ss-local restarts it: its total begins at zero again.
RestartSsLocal(p) ==
    /\ session
    /\ Happens("restarts", MaxRestarts)
    /\ counter' = [counter EXCEPT ![p] = 0]
    /\ UNCHANGED <<fallback, unlocked, session, current, monitor, store, told>>

\* ProfileManager.expand reads the fallback from the private database.
Expandable == unlocked \/ ~fallback

\* persistStats in the private database.
PersistInDatabase ==
    /\ unlocked
    /\ db' = [p \in Profiles |-> db[p] + current[p]]
    /\ UNCHANGED <<device, registered>>

\* persistStats in direct boot; only the main profile gets here.
PersistInDevice ==
    /\ ~unlocked /\ Expandable
    /\ device' = [device EXCEPT !.total["main"] = @ + current["main"],
                                !.dirty = @ \cup {"main"}]
    /\ registered' = TRUE
    /\ UNCHANGED db

\* persistStats in direct boot with a fallback: the file is truncated, expand
\* throws, and the exception ends the process.
PersistFails ==
    /\ ~unlocked /\ ~Expandable
    /\ device' = [exists |-> FALSE, total |-> Zero, dirty |-> {}]
    /\ registered' = FALSE
    /\ UNCHANGED db

Persist == PersistInDatabase \/ PersistInDevice \/ PersistFails

\* What persistStats is given, each byte once.
GiveToPersist ==
    /\ due' = [p \in Profiles |-> due[p] + (carried[p] - saved[p])]
    /\ saved' = carried
    /\ UNCHANGED carried

\* ProxyInstance.shutdown of the proxies when the service stops.
Shutdown ==
    /\ session /\ MainFree
    /\ session' = FALSE
    /\ Persist
    /\ NoMonitor
    /\ GiveToPersist
    /\ UNCHANGED <<fallback, unlocked, counter, current, bounds>>

\* BaseService.persistStats on ACTION_SHUTDOWN.
PersistStats ==
    /\ session /\ MainFree
    /\ Happens("shutdowns", MaxShutdowns)
    /\ Persist
    /\ session' = Expandable
    /\ IF session' THEN UNCHANGED monitor ELSE NoMonitor
    /\ GiveToPersist
    /\ UNCHANGED <<fallback, unlocked, counter, current>>

------------------------------------------------------------------------------
(* The device *)

\* Mutant: the dirty totals are added to the database.
FlushTrafficStatsAdds ==
    /\ db' = [p \in Profiles |-> db[p] + IF p \in device.dirty THEN device.total[p] ELSE 0]
    /\ device' = Copy(db')

\* DirectBoot.flushTrafficStats: dirty profiles replace those in the database,
\* then update() copies the current profile to device storage.
FlushTrafficStats ==
    /\ db' = [p \in Profiles |-> IF p \in device.dirty THEN device.total[p] ELSE db[p]]
    /\ device' = Copy(db')

\* Mutant: the receiver only unregisters itself.
OnReceiveForgets ==
    /\ unlocked /\ registered
    /\ registered' = FALSE
    /\ UNCHANGED <<fallback, unlocked, session, counter, current, monitor, db, device, bounds, told>>

\* DirectBoot.onReceive: ACTION_BOOT_COMPLETED after the unlock.
OnReceive ==
    /\ unlocked /\ registered
    /\ FlushTrafficStats
    /\ registered' = FALSE
    /\ UNCHANGED <<fallback, unlocked, session, counter, current, monitor, bounds, told>>

\* Core.init in a process of the application after the unlock.
CoreInit ==
    /\ unlocked
    /\ FlushTrafficStats
    /\ UNCHANGED <<fallback, unlocked, session, counter, current, monitor, registered, bounds, told>>

Unlock ==
    /\ ~unlocked
    /\ unlocked' = TRUE
    /\ UNCHANGED <<fallback, session, counter, current, monitor, store, bounds, told>>

\* The device reboots; what was not persisted is gone, the receiver too.
Reboot ==
    /\ Happens("reboots", MaxReboots)
    /\ unlocked' = FALSE
    /\ session' = FALSE
    /\ registered' = FALSE
    /\ NoMonitor
    /\ UNCHANGED <<fallback, counter, current, db, device, told>>

TrafficNext ==
    \/ StartSession \/ Shutdown \/ PersistStats
    \/ \E p \in Proxies : AcceptInternal(p) \/ MarkDirty(p) \/ RequestUpdate(p) \/ RestartSsLocal(p)
    \/ ClearDirty
    \/ OnReceive \/ CoreInit \/ Unlock \/ Reboot

TrafficSpec == TrafficInit /\ [][TrafficNext]_trafficVars

\* The user unlocks the device some time, the system sends
\* ACTION_BOOT_COMPLETED to those who wait for it after that, and an
\* application that lost its device copy is started again.
TrafficFairSpec ==
    /\ TrafficSpec
    /\ WF_trafficVars(Unlock) /\ WF_trafficVars(OnReceive)
    /\ WF_trafficVars(~device.exists /\ CoreInit)

------------------------------------------------------------------------------
(* Properties *)

\* The total of a profile, in the copy that counts.
Total(p) == IF p \in device.dirty THEN device.total[p] ELSE db[p]

\* No traffic is counted twice, however often the device reboots, is unlocked
\* or flushes its copy, and from whichever process it does.  (A session that
\* goes on after ACTION_SHUTDOWN is added once more at its end.)
NeverOvercounted ==
    bounds["shutdowns"] = 0 => \A p \in Profiles : Total(p) <= due[p] /\ db[p] <= due[p]

\* When no thread is inside the TrafficMonitor and nothing is marked, the clients
\* are shown the total that was reported last.  The one exception is the race of
\* the two threads: a report that came in while requestUpdate had copied the
\* totals and not yet cleared dirty is not shown until the next one.
ShownIsCurrent ==
    \A p \in Profiles :
        session /\ MainFree /\ p \notin marking \cup dirty \cup overlapped => out[p] = current[p]

\* A profile without a fallback can always be read in device storage, so that
\* a session can start before the unlock.
DeviceProfileKept == ~fallback => device.exists

\* Totals that were persisted in direct boot reach the database, unless the
\* device reboots before the system has told DirectBoot of the unlock.
DirtyIsFlushed ==
    \A n \in 0..MaxReboots :
        (registered /\ device.dirty # {} /\ bounds["reboots"] = n)
            ~> (device.dirty = {} \/ bounds["reboots"] > n)

\* A profile with a fallback loses its device copy when persistStats runs before
\* the unlock; the next start of the application after the unlock restores it.
DeviceProfileRestored == ~device.exists ~> device.exists

\* The stored totals: none too large, and a profile that is there for direct boot.
TotalsInv == TrafficTypeOK /\ NeverOvercounted /\ DeviceProfileKept

\* A boot with an unlock puts device storage in order: totals are flushed, and a
\* copy that was destroyed is written again.
UnlockRestores == DirtyIsFlushed /\ DeviceProfileRestored

==============================================================================
