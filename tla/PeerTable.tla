----------------------------- MODULE PeerTable -----------------------------
(***************************************************************************)
(* The Available Peers from the network to the screen: the browse loop     *)
(* with its leases (MDNS.Browse, internal/discovery/mdns.go), the table of *)
(* the Manager (consume, apply, changed: discovery.go) and the goroutine   *)
(* that shows it (observeDiscovery, internal/terminal/commands.go), from   *)
(* which the user connects by number (connectTarget).                      *)
(*                                                                         *)
(* Three goroutines: Browse sends events into a bounded channel, consume   *)
(* applies them and leaves a token in a channel of one, observeDiscovery   *)
(* takes the token and prints a fresh snapshot. The end of the process,    *)
(* which stops all three, is left out.                                     *)
(***************************************************************************)
EXTENDS Integers, Sequences, FiniteSets

CONSTANTS
    Ids,           \* instance and endpoint of an advertisement, in the order of
                   \* the endpoints
    Self,          \* those at an endpoint of this process
    Labels,        \* Labels[i]: the safe computer names that i may announce, as
                   \* numbers in the order of the names
    Capacity,      \* of the channel of events
    ErrorCapacity, \* of the channel of errors
    StaleAfter     \* staleAfter, in units of the shortest round of Browse

ASSUME PeerAssumption ==
    /\ Ids \subseteq Nat \ {0} /\ Self \subseteq Ids
    /\ Labels \in [Ids -> SUBSET (Nat \ {0})]
    /\ {Capacity, ErrorCapacity, StaleAfter} \subseteq Nat \ {0}

Nobody == 0
Names == UNION {Labels[i]: i \in Ids}

VARIABLES
    advertised,    \* the network: the name that i announces now, or Nobody
    pc,            \* Browse is scanning the network or applying what it saw
    observed,      \* what the last scan saw and the loop has not reached yet
    known,         \* known: the name of i, or Nobody
    age,           \* now - lastSeen, up to StaleAfter
    lastError,     \* a failure has been reported since the last success
    outgoing,      \* the event in sendEvent, or NoEvent
    events,        \* the channel from Browse to consume
    peers,         \* Manager.peers
    notifying,     \* consume is between the table and changed()
    token,         \* Manager.changes holds its token
    errors,        \* how many errors Manager.errors holds
    showing,       \* observeDiscovery has the token and not yet the snapshot
    screen         \* the list printed last

browseVars == <<pc, observed, known, age, lastError, outgoing>>
managerVars == <<peers, notifying, token, errors>>
terminalVars == <<showing, screen>>
vars == <<advertised, browseVars, events, managerVars, terminalVars>>

\* An event about i: its name now, Nobody for Lost. Errors have no ID.
Event(i, name) == [id |-> i, name |-> name]
NoEvent == Event(0, 0)
ErrorEvent == Event(0, 1)

AllEvents == [id: Ids, name: Names \cup {Nobody}] \cup {ErrorEvent}

TypeOK ==
    /\ advertised \in [Ids -> Names \cup {Nobody}]
    /\ pc \in {"scanning", "applying"}
    /\ observed \in [Ids -> Names \cup {Nobody}]
    /\ known \in [Ids -> Names \cup {Nobody}]
    /\ age \in [Ids -> 0..StaleAfter]
    /\ lastError \in BOOLEAN
    /\ outgoing \in AllEvents \cup {NoEvent}
    /\ events \in Seq(AllEvents) /\ Len(events) <= Capacity
    /\ peers \in [Ids -> Names \cup {Nobody}]
    /\ notifying \in BOOLEAN /\ token \in BOOLEAN /\ showing \in BOOLEAN
    /\ errors \in 0..ErrorCapacity

Init ==
    /\ advertised = [i \in Ids |-> Nobody]
    /\ pc = "scanning"
    /\ observed = [i \in Ids |-> Nobody]
    /\ known = [i \in Ids |-> Nobody]
    /\ age = [i \in Ids |-> 0]
    /\ lastError = FALSE
    /\ outgoing = NoEvent
    /\ events = << >>
    /\ peers = [i \in Ids |-> Nobody]
    /\ notifying = FALSE /\ token = FALSE
    /\ errors = 0
    /\ showing = FALSE /\ screen = << >>

---------------------------------------------------------------------------
(* The network: zeroconf, as scanMDNS uses it                              *)

\* A Peer appears, changes its name, withdraws or dies.
NetworkChanges(i) ==
    /\ \E name \in Labels[i] \cup {Nobody}: name # advertised[i] /\ advertised' = [advertised EXCEPT ![i] = name]
    /\ UNCHANGED <<browseVars, events, managerVars, terminalVars>>

---------------------------------------------------------------------------
(* MDNS.Browse                                                             *)

\* The time since the last scan: at least the pause, and more when the scan
\* or a send took long.
Elapse ==
    \E elapsed \in 1..StaleAfter:
        age' = [i \in Ids |-> IF known[i] = Nobody THEN 0
                              ELSE IF age[i] + elapsed < StaleAfter THEN age[i] + elapsed ELSE StaleAfter]

\* scanMDNS returns within browseDuration; answers get lost.
ScanSucceeds ==
    /\ pc = "scanning"
    /\ \E seen \in SUBSET {i \in Ids: advertised[i] # Nobody}:
        observed' = [i \in Ids |-> IF i \in seen THEN advertised[i] ELSE Nobody]
    /\ Elapse
    /\ lastError' = FALSE
    /\ pc' = "applying"
    /\ UNCHANGED <<advertised, known, outgoing, events, managerVars, terminalVars>>

\* ... or fails, which is reported unless the last failure had the same text;
\* the leases run all the same.
ScanFails ==
    /\ pc = "scanning"
    /\ Elapse
    /\ \E same \in BOOLEAN: outgoing' = IF lastError /\ same THEN NoEvent ELSE ErrorEvent
    /\ lastError' = TRUE
    /\ pc' = "applying"
    /\ UNCHANGED <<advertised, observed, known, events, managerVars, terminalVars>>

\* The loop over observed, in the order of a Go map: the lease is renewed, and
\* what is new or has changed becomes an event.
Observe(i) ==
    /\ pc = "applying" /\ outgoing = NoEvent
    /\ observed[i] # Nobody
    /\ known' = [known EXCEPT ![i] = observed[i]]
    /\ age' = [age EXCEPT ![i] = 0]
    /\ outgoing' = IF known[i] # observed[i] THEN Event(i, observed[i]) ELSE NoEvent
    /\ observed' = [observed EXCEPT ![i] = Nobody]
    /\ UNCHANGED <<advertised, pc, lastError, events, managerVars, terminalVars>>

\* BUG VARIANT: leases end only after a scan that has succeeded.
StaleAfterScan(i) == ~lastError /\ known[i] # Nobody /\ age[i] >= StaleAfter

Stale(i) == known[i] # Nobody /\ age[i] >= StaleAfter

\* The loop over known: a lease that has run out is an event.
Expire(i) ==
    /\ pc = "applying" /\ outgoing = NoEvent
    /\ \A j \in Ids: observed[j] = Nobody
    /\ Stale(i)
    /\ known' = [known EXCEPT ![i] = Nobody]
    /\ age' = [age EXCEPT ![i] = 0]
    /\ outgoing' = Event(i, Nobody)
    /\ UNCHANGED <<advertised, pc, observed, lastError, events, managerVars, terminalVars>>

\* BUG VARIANT: an event that finds the channel full is dropped.
SendOrDrop ==
    /\ outgoing # NoEvent
    /\ events' = IF Len(events) < Capacity THEN Append(events, outgoing) ELSE events
    /\ outgoing' = NoEvent
    /\ UNCHANGED <<advertised, pc, observed, known, age, lastError, managerVars, terminalVars>>

\* sendEvent waits for room in the channel.
sendEvent ==
    /\ outgoing # NoEvent
    /\ Len(events) < Capacity
    /\ events' = Append(events, outgoing)
    /\ outgoing' = NoEvent
    /\ UNCHANGED <<advertised, pc, observed, known, age, lastError, managerVars, terminalVars>>

\* The pause until the next scan.
Pause ==
    /\ pc = "applying" /\ outgoing = NoEvent
    /\ \A i \in Ids: observed[i] = Nobody /\ ~Stale(i)
    /\ pc' = "scanning"
    /\ UNCHANGED <<advertised, observed, known, age, lastError, outgoing, events, managerVars, terminalVars>>

Browse ==
    \/ ScanSucceeds \/ ScanFails \/ sendEvent \/ Pause
    \/ \E i \in Ids: Observe(i) \/ Expire(i)

---------------------------------------------------------------------------
(* discovery.Manager                                                       *)

\* BUG VARIANT: only a Peer that was not in the table is a change.
ApplyAppearance(e) ==
    /\ peers' = IF e.id \in Self THEN peers ELSE [peers EXCEPT ![e.id] = e.name]
    /\ notifying' = (peers[e.id] = Nobody /\ peers'[e.id] # Nobody)

\* apply: what is at our own endpoint is ignored; a difference is a change.
apply(e) ==
    /\ peers' = IF e.id \in Self THEN peers ELSE [peers EXCEPT ![e.id] = e.name]
    /\ notifying' = (peers'[e.id] # peers[e.id])

\* report drops an error that finds its channel full.
report == errors' = IF errors < ErrorCapacity THEN errors + 1 ELSE errors

consume ==
    /\ events # << >> /\ ~notifying
    /\ events' = Tail(events)
    /\ IF Head(events) = ErrorEvent
       THEN report /\ UNCHANGED <<peers, notifying>>
       ELSE apply(Head(events)) /\ UNCHANGED errors
    /\ UNCHANGED <<advertised, browseVars, token, terminalVars>>

\* changed() comes after the table's lock is released, and leaves a token if
\* there is none.
changed ==
    /\ notifying
    /\ notifying' = FALSE
    /\ token' = TRUE
    /\ UNCHANGED <<advertised, browseVars, events, peers, errors, terminalVars>>

\* Peers(): by name and then by endpoint.
Before(table, i, j) == table[i] < table[j] \/ (table[i] = table[j] /\ i < j)

Snapshot(table) ==
    LET there == {i \in Ids: table[i] # Nobody}
        nth(n) == CHOOSE i \in there: Cardinality({j \in there: Before(table, j, i)}) = n - 1
    IN [n \in 1..Cardinality(there) |-> Event(nth(n), table[nth(n)])]

Peers == Snapshot(peers)

---------------------------------------------------------------------------
(* The terminal                                                            *)

\* observeDiscovery takes the token ...
observeDiscovery ==
    /\ ~showing /\ token
    /\ token' = FALSE
    /\ showing' = TRUE
    /\ UNCHANGED <<advertised, browseVars, events, peers, notifying, errors, screen>>

\* ... and prints a snapshot taken afterwards.
showAvailablePeers ==
    /\ showing
    /\ showing' = FALSE
    /\ screen' = Peers
    /\ UNCHANGED <<advertised, browseVars, events, managerVars>>

\* The other branch of its select prints a warning.
ShowError ==
    /\ ~showing /\ errors > 0
    /\ errors' = errors - 1
    /\ UNCHANGED <<advertised, browseVars, events, peers, notifying, token, terminalVars>>

\* The Peer that connectTarget connects to, in a snapshot of its own; NoEvent
\* stands for "not currently listed".
connectTarget(number) == IF number \in DOMAIN Peers THEN Peers[number] ELSE NoEvent

Terminal == observeDiscovery \/ showAvailablePeers

Next ==
    \/ \E i \in Ids: NetworkChanges(i)
    \/ Browse \/ consume \/ changed
    \/ Terminal \/ ShowError

Spec == Init /\ [][Next]_vars

\* The three goroutines run; the network and the user owe nothing.
Fairness ==
    /\ WF_vars(Browse) /\ WF_vars(consume \/ changed) /\ WF_vars(Terminal)

LiveSpec == Spec /\ Fairness

---------------------------------------------------------------------------
(* Properties                                                              *)

InFlight == IF outgoing = NoEvent THEN events ELSE Append(events, outgoing)
Visible(i) == IF i \in Self THEN Nobody ELSE known[i]

\* The table of the Manager follows the table of Browse, with nothing lost
\* between them: about a Peer without an event under way they agree, and the
\* last event under way about a Peer says what Browse knows of it
\* (mdns.go:100-119, discovery.go:203-235).
TableFollowsBrowse ==
    \A i \in Ids:
        LET about == {k \in DOMAIN InFlight: InFlight[k].id = i} IN
        /\ about = {} => peers[i] = Visible(i)
        /\ \A k \in about: (\A j \in about: j <= k) => InFlight[k].name = known[i]

\* README.md:74: "Connect by current list number". No change of the table is
\* lost on its way to the screen: unless a refresh is under way, every number
\* connects to the Peer printed at it, and a number that is not printed to none
\* (discovery.go:237, commands.go:103, 118).
ListIsCurrent ==
    (notifying \/ token \/ showing)
    \/ \A n \in 1..Cardinality(Ids):
         connectTarget(n) = IF n \in DOMAIN screen THEN screen[n] ELSE NoEvent

\* README.md:81: "Stale advertisements disappear". A Peer that is gone for good
\* leaves the screen for good, even if every scan from then on fails.
StaleDisappear ==
    \A i \in Ids:
        <>[](advertised[i] = Nobody) => <>[](\A n \in DOMAIN screen: screen[n].id # i)
=============================================================================
