---------------------------- MODULE ServiceContract ----------------------------
(***************************************************************************)
(* What the service shows to its clients (aidl/ShadowsocksConnection,      *)
(* TileService, the activities): its State, and whether it holds anything  *)
(* of the device: native daemons, sockets, the tun interface, receivers, a *)
(* notification, a coroutine that is still connecting.                     *)
(***************************************************************************)
VARIABLES
    st,         \* BaseService.State, without the UI's Idle
    held        \* does the service hold a resource?

States == {"Connecting", "Connected", "Stopping", "Stopped"}

ContractInit == st = "Stopped" /\ held = FALSE

\* A session begins only when the previous one has left nothing behind.
Begin == st = "Stopped" /\ ~held /\ st' = "Connecting" /\ held' = TRUE

Establish == st = "Connecting" /\ held /\ st' = "Connected" /\ UNCHANGED held

\* Anything but Stopping can be stopped; a service that finds no profile shows
\* a notification first.
BeginStop == st # "Stopping" /\ st' = "Stopping" /\ held' \in {held, TRUE}

\* Resources are given back only while stopping,
Release == st = "Stopping" /\ held' = FALSE /\ UNCHANGED st

\* and Stopped is announced only when all of them are.
End == st = "Stopping" /\ ~held /\ st' = "Stopped" /\ UNCHANGED held

\* The process of the service dies.
Die == st' = "Stopped" /\ held' = FALSE

ContractNext == Begin \/ Establish \/ BeginStop \/ Release \/ End \/ Die

ContractSpec == ContractInit /\ [][ContractNext]_<<st, held>>
==============================================================================
