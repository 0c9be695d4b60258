-------------------------- MODULE DiscoveryManager --------------------------
(***************************************************************************)
(* The advertisement of the local Peer: discovery.Manager in               *)
(* internal/discovery/discovery.go, from the moment Start has made its     *)
(* first SetAvailable(true). The calls of SetAvailable are serialised by   *)
(* availabilityMu, which a call that publishes keeps while it waits for    *)
(* the multicast responder; a call that withdraws is one step.             *)
(*                                                                         *)
(* The table of other Peers (apply, Peers) is PeerTable.                   *)
(***************************************************************************)
EXTENDS Naturals

VARIABLES
    available,       \* Manager.available
    registration,    \* Manager.registration is set: mDNS announces this Peer
    availabilityMu,  \* the attempt whose goroutine holds the lock, 0 if none
    rootDone,        \* App.rootContext, which is Manager.context, is canceled
    watcher          \* the goroutine of Start that waits for rootContext

discoveryVars == <<available, registration, availabilityMu, rootDone, watcher>>

\* Start has published the Peer, or reported that it could not.
DiscoveryInit ==
    /\ available = TRUE
    /\ registration \in BOOLEAN
    /\ availabilityMu = 0
    /\ rootDone = FALSE
    /\ watcher = "waiting"

\* BUG VARIANT: the context is not looked at before Advertise ...
SetAvailableIgnoringContext(p, v) ==
    /\ availabilityMu = 0
    /\ available' = v
    /\ registration' = (v /\ (registration \/ ~available))
    /\ availabilityMu' = 0

\* SetAvailable(v) up to the call of Advertise: without a change of v nothing
\* happens, otherwise the old registration is closed. p is the caller, which
\* goes on to Advertise exactly if it keeps the lock.
SetAvailable(p, v) ==
    /\ availabilityMu = 0
    /\ available' = v
    /\ registration' = (registration /\ available = v)
    /\ availabilityMu' = IF v /\ ~available /\ ~rootDone THEN p ELSE 0

\* ... and the rest of the call: the responder refuses, or answers; an answer
\* that comes after the end of the context is closed again.
Advertise(p) ==
    /\ availabilityMu = p
    /\ registration' \in {FALSE, ~rootDone}
    /\ availabilityMu' = 0
    /\ UNCHANGED available

\* The goroutine of Start that withdraws the Peer when the App stops.
WatchContext ==
    /\ watcher = "waiting"
    /\ rootDone
    /\ SetAvailable(0, FALSE)
    /\ watcher' = "done"
    /\ UNCHANGED rootDone

DiscoveryTypeOK(Attempts) ==
    /\ available \in BOOLEAN
    /\ registration \in BOOLEAN
    /\ availabilityMu \in Attempts \cup {0}
    /\ rootDone \in BOOLEAN
    /\ watcher \in {"waiting", "done"}
=============================================================================
