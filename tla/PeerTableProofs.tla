-------------------------- MODULE PeerTableProofs --------------------------
(***************************************************************************)
(* What PeerTable promises for any set of Peers, any lengths of the two    *)
(* channels and any lease, and whichever of the advertisements are our     *)
(* own. Events are lost nowhere (Says, Own) and neither are changes of the *)
(* table (Shown).                                                          *)
(***************************************************************************)
EXTENDS PeerTable, FiniteSetTheorems, TLAPS

\* The events in q about i: with none, the Manager has for i what it should
\* have; the last one says what Browse knows.
Says(q, i, has, should, knows) ==
    /\ (\A k \in DOMAIN q: q[k].id # i) => has = should
    /\ \A k \in DOMAIN q:
         (q[k].id = i /\ \A j \in DOMAIN q: q[j].id = i => j <= k) => q[k].name = knows

LEMMA SaysOther ==
    ASSUME NEW q \in Seq(AllEvents), NEW e \in AllEvents, NEW i,
           NEW has, NEW should, NEW knows,
           Says(q, i, has, should, knows), e.id # i
    PROVE  Says(Append(q, e), i, has, should, knows)
  <1> DEFINE t == Append(q, e)
  <1>1. /\ Len(q) \in Nat /\ DOMAIN q = 1..Len(q) /\ DOMAIN t = 1..(Len(q) + 1)
        /\ t[Len(q) + 1] = e /\ \A k \in 1..Len(q): t[k] = q[k]
    OBVIOUS
  <1> HIDE DEF t
  <1>2. \A k \in DOMAIN t: t[k].id = i => k \in DOMAIN q /\ t[k] = q[k]
    BY <1>1
  <1>3. \A k \in DOMAIN q: k \in DOMAIN t /\ t[k] = q[k]
    BY <1>1
  <1> QED  BY <1>2, <1>3 DEF Says, t

LEMMA SaysNew ==
    ASSUME NEW q \in Seq(AllEvents), NEW e \in AllEvents, NEW has, NEW should
    PROVE  Says(Append(q, e), e.id, has, should, e.name)
  <1> DEFINE t == Append(q, e)
  <1>1. /\ Len(q) \in Nat /\ DOMAIN t = 1..(Len(q) + 1) /\ t[Len(q) + 1] = e
    OBVIOUS
  <1> HIDE DEF t
  <1>2. Len(q) + 1 \in DOMAIN t /\ \A k \in DOMAIN t: Len(q) + 1 <= k => k = Len(q) + 1
    BY <1>1
  <1> QED  BY <1>1, <1>2 DEF Says, t

LEMMA SaysTail ==
    ASSUME NEW q \in Seq(AllEvents), q # << >>, NEW i,
           NEW has, NEW should, NEW knows, NEW after,
           Says(q, i, has, should, knows),
           Head(q).id # i => after = has,
           Head(q).id = i /\ Head(q).name = knows => after = should
    PROVE  Says(Tail(q), i, after, should, knows)
  <1> DEFINE t == Tail(q)
  <1>1. /\ Len(q) \in Nat /\ Len(q) > 0 /\ DOMAIN q = 1..Len(q) /\ Head(q) = q[1]
        /\ DOMAIN t = 1..(Len(q) - 1) /\ \A k \in 1..(Len(q) - 1): t[k] = q[k + 1]
    OBVIOUS
  <1> HIDE DEF t
  <1>2. \A k \in DOMAIN t: k \in Nat /\ k + 1 \in DOMAIN q /\ t[k] = q[k + 1]
    BY <1>1
  <1>3. \A k \in DOMAIN q: k \in Nat /\ (k = 1 \/ (k - 1 \in DOMAIN t /\ t[k - 1] = q[k]))
    BY <1>1
  <1>4. ASSUME \A k \in DOMAIN t: t[k].id # i
        PROVE  after = should
    <2>1. \A k \in DOMAIN q: q[k].id = i => k = 1
      BY <1>3, <1>4
    <2>2. CASE q[1].id = i
      <3>1. 1 \in DOMAIN q /\ \A j \in DOMAIN q: q[j].id = i => j <= 1
        BY <1>1, <2>1
      <3> QED  BY <1>1, <2>2, <3>1 DEF Says
    <2>3. CASE q[1].id # i
      BY <1>1, <2>1, <2>3 DEF Says
    <2> QED  BY <2>2, <2>3
  <1>5. ASSUME NEW k \in DOMAIN t, t[k].id = i, \A j \in DOMAIN t: t[j].id = i => j <= k
        PROVE  t[k].name = knows
    <2>1. k \in Nat /\ k + 1 \in DOMAIN q /\ q[k + 1] = t[k]
      BY <1>2
    <2>2. \A j \in DOMAIN q: q[j].id = i => j <= k + 1
      BY <1>3, <1>5, <2>1
    <2> QED  BY <1>5, <2>1, <2>2 DEF Says
  <1> QED  BY <1>4, <1>5 DEF Says, t

---------------------------------------------------------------------------
(* The inductive invariant                                                 *)

\* Only a Peer at another endpoint is in the table.
Own == \A i \in Self: peers[i] = Nobody

\* Nothing waits in sendEvent during a scan.
Quiet == pc = "scanning" => outgoing = NoEvent

Follows == \A i \in Ids: Says(InFlight, i, peers[i], Visible(i), known[i])

IInv == TypeOK /\ Own /\ Quiet /\ Follows /\ ListIsCurrent

LEMMA EventFacts ==
    /\ NoEvent.id = 0 /\ ErrorEvent.id = 0 /\ ErrorEvent \in AllEvents
    /\ NoEvent # ErrorEvent /\ NoEvent \notin AllEvents
    /\ \A e \in AllEvents: e # ErrorEvent => e.id \in Ids /\ e.name \in Names \cup {Nobody}
    /\ \A i \in Ids, name \in Names \cup {Nobody}:
         Event(i, name) \in AllEvents /\ Event(i, name).id = i /\ Event(i, name).name = name
    /\ 0 \notin Ids
  <1>1. Ids \subseteq Nat \ {0}
    BY PeerAssumption
  <1>2. /\ NoEvent.id = 0 /\ NoEvent.name = 0 /\ ErrorEvent.id = 0 /\ ErrorEvent.name = 1
    BY DEF NoEvent, ErrorEvent, Event
  <1>3. \A e \in AllEvents: e = ErrorEvent \/ (e.id \in Ids /\ e.name \in Names \cup {Nobody})
    BY DEF AllEvents
  <1>4. NoEvent \notin AllEvents
    BY <1>1, <1>2, <1>3
  <1>5. \A i \in Ids, name \in Names \cup {Nobody}:
          Event(i, name) \in AllEvents /\ Event(i, name).id = i /\ Event(i, name).name = name
    BY DEF AllEvents, Event
  <1>6. ErrorEvent \in AllEvents
    BY DEF AllEvents
  <1> QED  BY <1>1, <1>2, <1>3, <1>4, <1>5, <1>6

LEMMA LabelFacts ==
    ASSUME NEW i \in Ids
    PROVE  Labels[i] \subseteq Names
  BY DEF Names

\* With nobody in the table there is nobody in the list.
LEMMA NobodyListed ==
    ASSUME NEW table, \A i \in Ids: table[i] = Nobody
    PROVE  DOMAIN Snapshot(table) = {}
  <1>1. {i \in Ids: table[i] # Nobody} = {}
    OBVIOUS
  <1>2. Cardinality({}) = 0
    BY FS_EmptySet
  <1> QED  BY <1>1, <1>2 DEF Snapshot

---------------------------------------------------------------------------
(* One step per action                                                     *)

LEMMA FollowsKept ==
    ASSUME Follows, UNCHANGED <<outgoing, events, peers, known>>
    PROVE  Follows'
  BY DEF Follows, Says, InFlight, Visible

\* A change of the table is announced before it can be missed.
LEMMA ListKept ==
    ASSUME ListIsCurrent,
           notifying' \/ token' \/ showing'
           \/ (~(notifying \/ token \/ showing) /\ UNCHANGED <<peers, screen>>)
    PROVE  ListIsCurrent'
  BY DEF ListIsCurrent, connectTarget, Peers

LEMMA Typed ==
    ASSUME IInv
    PROVE  /\ advertised \in [Ids -> Names \cup {Nobody}] /\ observed \in [Ids -> Names \cup {Nobody}]
           /\ known \in [Ids -> Names \cup {Nobody}] /\ peers \in [Ids -> Names \cup {Nobody}]
           /\ events \in Seq(AllEvents) /\ outgoing \in AllEvents \cup {NoEvent}
           /\ age \in [Ids -> 0..StaleAfter] /\ StaleAfter \in Nat
           /\ Own /\ Quiet /\ Follows /\ ListIsCurrent
           /\ TypeOK
  BY PeerAssumption DEF IInv, TypeOK

\* Events that are not under way yet.
LEMMA InFlightTyped ==
    ASSUME IInv
    PROVE  InFlight \in Seq(AllEvents)
  <1>1. events \in Seq(AllEvents) /\ outgoing \in AllEvents \cup {NoEvent}
    BY Typed
  <1> QED  BY <1>1 DEF InFlight

LEMMA NetworkChangesStep ==
    ASSUME IInv, NEW i \in Ids, NetworkChanges(i)
    PROVE  IInv'
  <1> USE DEF NetworkChanges, browseVars, managerVars, terminalVars
  <1>1. TypeOK'
    <2>1. advertised' \in [Ids -> Names \cup {Nobody}]
      BY Typed, LabelFacts
    <2> QED  BY <2>1, Typed DEF TypeOK
  <1>2. Follows' /\ ListIsCurrent'
    BY Typed, FollowsKept, ListKept
  <1>3. Own' /\ Quiet'
    BY Typed DEF Own, Quiet
  <1> QED  BY <1>1, <1>2, <1>3 DEF IInv

LEMMA ElapseTyped ==
    ASSUME IInv, Elapse
    PROVE  age' \in [Ids -> 0..StaleAfter]
  <1>1. PICK elapsed \in 1..StaleAfter:
          age' = [i \in Ids |-> IF known[i] = Nobody THEN 0
                                ELSE IF age[i] + elapsed < StaleAfter THEN age[i] + elapsed ELSE StaleAfter]
    BY DEF Elapse
  <1> QED  BY <1>1, Typed

LEMMA ScanSucceedsStep ==
    ASSUME IInv, ScanSucceeds
    PROVE  IInv'
  <1> USE DEF ScanSucceeds, managerVars, terminalVars
  <1>1. TypeOK'
    <2>1. observed' \in [Ids -> Names \cup {Nobody}]
      BY Typed
    <2> QED  BY <2>1, Typed, ElapseTyped DEF TypeOK
  <1>2. Follows' /\ ListIsCurrent'
    BY Typed, FollowsKept, ListKept
  <1>3. Own' /\ Quiet'
    BY Typed DEF Own, Quiet
  <1> QED  BY <1>1, <1>2, <1>3 DEF IInv

\* An event enters sendEvent: it joins those under way.
LEMMA EventEnters ==
    ASSUME IInv, outgoing = NoEvent, outgoing' \in AllEvents, UNCHANGED events
    PROVE  InFlight' = Append(InFlight, outgoing')
  BY EventFacts DEF InFlight

LEMMA ScanFailsStep ==
    ASSUME IInv, ScanFails
    PROVE  IInv'
  <1> USE DEF ScanFails, managerVars, terminalVars
  <1>0. outgoing = NoEvent
    BY Typed DEF Quiet
  <1>1. TypeOK'
    BY Typed, ElapseTyped, EventFacts DEF TypeOK
  <1>2. Follows'
    <2>1. CASE outgoing' = NoEvent
      BY <1>0, <2>1, Typed, FollowsKept
    <2>2. CASE outgoing' = ErrorEvent
      <3>1. InFlight' = Append(InFlight, ErrorEvent)
        BY <1>0, <2>2, EventEnters, EventFacts
      <3>2. ASSUME NEW i \in Ids
            PROVE  Says(Append(InFlight, ErrorEvent), i, peers[i], Visible(i), known[i])
        <4>1. Says(InFlight, i, peers[i], Visible(i), known[i]) /\ ErrorEvent.id # i
          BY Typed, EventFacts DEF Follows
        <4>2. InFlight \in Seq(AllEvents) /\ ErrorEvent \in AllEvents
          BY InFlightTyped, EventFacts
        <4> QED  BY <4>1, <4>2, SaysOther
      <3> QED  BY <3>1, <3>2 DEF Follows, Visible
    <2> QED  BY <2>1, <2>2
  <1>3. ListIsCurrent'
    BY Typed, ListKept
  <1>4. Own' /\ Quiet'
    BY Typed DEF Own, Quiet
  <1> QED  BY <1>1, <1>2, <1>3, <1>4 DEF IInv

\* Browse learns something new about i and puts it into an event.
LEMMA LearnedFollows ==
    ASSUME IInv, outgoing = NoEvent, NEW i \in Ids, NEW name \in Names \cup {Nobody},
           known' = [known EXCEPT ![i] = name], outgoing' = Event(i, name),
           UNCHANGED <<events, peers>>
    PROVE  Follows'
  <1>1. outgoing' \in AllEvents /\ outgoing'.id = i /\ outgoing'.name = name
    BY EventFacts
  <1>2. InFlight' = Append(InFlight, outgoing') /\ InFlight \in Seq(AllEvents)
    BY <1>1, EventEnters, InFlightTyped
  <1>3. ASSUME NEW j \in Ids, NEW has, NEW should
        PROVE  j = i => Says(Append(InFlight, outgoing'), j, has, should, name)
    BY <1>1, <1>2, SaysNew
  <1>4. ASSUME NEW j \in Ids, j # i
        PROVE  Says(Append(InFlight, outgoing'), j, peers[j], Visible(j), known[j])
    <2>1. Says(InFlight, j, peers[j], Visible(j), known[j])
      BY Typed DEF Follows
    <2> QED  BY <1>1, <1>2, <1>4, <2>1, SaysOther
  <1>5. ASSUME NEW j \in Ids
        PROVE  Says(InFlight', j, peers'[j], Visible(j)', known'[j])
    <2>1. CASE j = i
      <3>1. known'[j] = name
        BY <2>1, Typed
      <3> QED  BY <1>2, <1>3, <2>1, <3>1
    <2>2. CASE j # i
      <3>1. known'[j] = known[j] /\ Visible(j)' = Visible(j) /\ peers'[j] = peers[j]
        BY <2>2, Typed DEF Visible
      <3> QED  BY <1>2, <1>4, <2>2, <3>1
    <2> QED  BY <2>1, <2>2
  <1> QED  BY <1>5 DEF Follows

LEMMA ObserveStep ==
    ASSUME IInv, NEW i \in Ids, Observe(i)
    PROVE  IInv'
  <1> USE DEF Observe, managerVars, terminalVars
  <1>0. observed[i] \in Names \cup {Nobody} /\ pc' = "applying"
    BY Typed
  <1>1. TypeOK'
    <2>1. /\ known' \in [Ids -> Names \cup {Nobody}] /\ observed' \in [Ids -> Names \cup {Nobody}]
          /\ age' \in [Ids -> 0..StaleAfter]
      BY <1>0, Typed
    <2>2. outgoing' \in AllEvents \cup {NoEvent}
      BY <1>0, EventFacts
    <2> QED  BY <1>0, <2>1, <2>2, Typed DEF TypeOK
  <1>2. Follows'
    <2>1. CASE known[i] = observed[i]
      <3>1. known' = known
        BY <2>1, Typed
      <3> QED  BY <2>1, <3>1, Typed, FollowsKept
    <2>2. CASE known[i] # observed[i]
      BY <1>0, <2>2, LearnedFollows
    <2> QED  BY <2>1, <2>2
  <1>3. ListIsCurrent'
    BY Typed, ListKept
  <1>4. Own' /\ Quiet'
    BY <1>0, Typed DEF Own, Quiet
  <1> QED  BY <1>1, <1>2, <1>3, <1>4 DEF IInv

LEMMA ExpireStep ==
    ASSUME IInv, NEW i \in Ids, Expire(i)
    PROVE  IInv'
  <1> USE DEF Expire, managerVars, terminalVars
  <1>1. TypeOK'
    <2>1. /\ known' \in [Ids -> Names \cup {Nobody}] /\ age' \in [Ids -> 0..StaleAfter]
      BY Typed
    <2>2. outgoing' \in AllEvents \cup {NoEvent}
      BY EventFacts
    <2> QED  BY <2>1, <2>2, Typed DEF TypeOK
  <1>2. Follows'
    BY LearnedFollows
  <1>3. ListIsCurrent'
    BY Typed, ListKept
  <1>4. Own' /\ Quiet'
    BY Typed DEF Own, Quiet
  <1> QED  BY <1>1, <1>2, <1>3, <1>4 DEF IInv

LEMMA SendEventStep ==
    ASSUME IInv, sendEvent
    PROVE  IInv'
  <1> USE DEF sendEvent, managerVars, terminalVars
  <1>0. outgoing \in AllEvents /\ Len(events) \in Nat /\ Capacity \in Nat
    BY Typed, PeerAssumption
  <1>1. TypeOK'
    <2>1. events' \in Seq(AllEvents) /\ Len(events') <= Capacity
      BY <1>0, Typed
    <2> QED  BY <2>1, Typed DEF TypeOK
  <1>2. Follows'
    <2>1. InFlight' = InFlight
      BY DEF InFlight
    <2> QED  BY <2>1, Typed DEF Follows, Visible
  <1>3. ListIsCurrent'
    BY Typed, ListKept
  <1>4. Own' /\ Quiet'
    BY Typed DEF Own, Quiet
  <1> QED  BY <1>1, <1>2, <1>3, <1>4 DEF IInv

LEMMA PauseStep ==
    ASSUME IInv, Pause
    PROVE  IInv'
  <1> USE DEF Pause, managerVars, terminalVars
  <1>1. TypeOK'
    BY Typed DEF TypeOK
  <1>2. Follows' /\ ListIsCurrent'
    BY Typed, FollowsKept, ListKept
  <1>3. Own' /\ Quiet'
    BY Typed DEF Own, Quiet
  <1> QED  BY <1>1, <1>2, <1>3 DEF IInv

\* consume takes the oldest event under way.
LEMMA OldestTaken ==
    ASSUME IInv, events # << >>, events' = Tail(events), UNCHANGED outgoing
    PROVE  /\ InFlight # << >> /\ Head(InFlight) = Head(events) /\ InFlight' = Tail(InFlight)
           /\ Head(events) \in AllEvents
  <1>1. events \in Seq(AllEvents) /\ outgoing \in AllEvents \cup {NoEvent}
    BY Typed
  <1>2. Head(events) \in AllEvents
    BY <1>1
  <1>3. CASE outgoing = NoEvent
    BY <1>2, <1>3 DEF InFlight
  <1>4. CASE outgoing # NoEvent
    <2>1. outgoing \in AllEvents
      BY <1>1, <1>4
    <2>2. /\ Append(events, outgoing) # << >> /\ Head(Append(events, outgoing)) = Head(events)
          /\ Tail(Append(events, outgoing)) = Append(Tail(events), outgoing)
      BY <1>1, <2>1
    <2> QED  BY <1>2, <1>4, <2>2 DEF InFlight
  <1> QED  BY <1>3, <1>4

LEMMA ConsumeStep ==
    ASSUME IInv, consume
    PROVE  IInv'
  <1> USE DEF browseVars, terminalVars
  <1> DEFINE e == Head(events)
  <1>0. /\ events # << >> /\ events' = Tail(events) /\ ~notifying
        /\ UNCHANGED <<advertised, pc, observed, known, age, lastError, outgoing, token, showing, screen>>
    BY DEF consume
  <1>1. /\ InFlight # << >> /\ Head(InFlight) = e /\ InFlight' = Tail(InFlight)
        /\ InFlight \in Seq(AllEvents) /\ e \in AllEvents
    BY <1>0, OldestTaken, InFlightTyped
  <1>2. events' \in Seq(AllEvents) /\ Len(events') <= Capacity
    <2>1. Len(events) \in Nat /\ Len(events) <= Capacity /\ Capacity \in Nat /\ Len(Tail(events)) = Len(events) - 1
      BY <1>0, Typed, PeerAssumption DEF TypeOK
    <2> QED  BY <1>0, <2>1, Typed
  <1>3. Quiet'
    BY <1>0, Typed DEF Quiet
  <1> HIDE DEF e
  <1>4. CASE e = ErrorEvent
    <2>1. report /\ UNCHANGED <<peers, notifying>>
      BY <1>4 DEF consume, e
    <2>2. TypeOK'
      <3>1. errors' \in 0..ErrorCapacity
        BY <2>1, Typed, PeerAssumption DEF report, TypeOK
      <3> QED  BY <1>0, <1>2, <2>1, <3>1, Typed DEF TypeOK
    <2>3. ASSUME NEW i \in Ids
          PROVE  Says(Tail(InFlight), i, peers[i], Visible(i), known[i])
      <3>1. Says(InFlight, i, peers[i], Visible(i), known[i]) /\ e.id # i
        BY <1>4, Typed, EventFacts DEF Follows
      <3> QED  BY <1>1, <3>1, SaysTail
    <2>4. Follows'
      BY <1>0, <1>1, <2>1, <2>3 DEF Follows, Visible
    <2>5. ListIsCurrent' /\ Own'
      BY <1>0, <2>1, Typed, ListKept DEF Own
    <2> QED  BY <1>3, <2>2, <2>4, <2>5 DEF IInv
  <1>5. CASE e # ErrorEvent
    <2>1. apply(e) /\ UNCHANGED errors
      BY <1>5 DEF consume, e
    <2>2. e.id \in Ids /\ e.name \in Names \cup {Nobody}
      BY <1>1, <1>5, EventFacts
    <2>3. peers' \in [Ids -> Names \cup {Nobody}] /\ notifying' \in BOOLEAN
      BY <2>1, <2>2, Typed DEF apply
    <2>4. TypeOK'
      BY <1>0, <1>2, <2>1, <2>3, Typed DEF TypeOK
    <2>5. Own'
      BY <2>1, <2>2, Typed DEF apply, Own
    <2>6. ASSUME NEW i \in Ids
          PROVE  Says(Tail(InFlight), i, peers'[i], Visible(i), known[i])
      <3>1. Says(InFlight, i, peers[i], Visible(i), known[i])
        BY Typed DEF Follows
      <3>2. e.id # i => peers'[i] = peers[i]
        BY <2>1, <2>2, Typed DEF apply
      <3>3. e.id = i /\ e.name = known[i] => peers'[i] = Visible(i)
        BY <2>1, <2>2, Typed DEF apply, Visible, Own
      <3> QED  BY <1>1, <3>1, <3>2, <3>3, SaysTail
    <2>7. Follows'
      BY <1>0, <1>1, <2>6 DEF Follows, Visible
    <2>8. ListIsCurrent'
      <3>1. CASE peers'[e.id] = peers[e.id]
        <4>1. peers' = peers
          BY <2>1, <2>2, <3>1, Typed DEF apply
        <4> QED  BY <1>0, <4>1, Typed, ListKept
      <3>2. CASE peers'[e.id] # peers[e.id]
        <4>1. notifying'
          BY <2>1, <3>2 DEF apply
        <4> QED  BY <4>1, Typed, ListKept
      <3> QED  BY <3>1, <3>2
    <2> QED  BY <1>3, <2>4, <2>5, <2>7, <2>8 DEF IInv
  <1> QED  BY <1>4, <1>5

\* The token, and the snapshot that is taken for it.
LEMMA NotifyStep ==
    ASSUME IInv, changed \/ observeDiscovery \/ showAvailablePeers \/ ShowError
    PROVE  IInv'
  <1> USE DEF browseVars, managerVars, terminalVars
  <1>1. UNCHANGED <<advertised, pc, observed, known, age, lastError, outgoing, events, peers>>
    BY DEF changed, observeDiscovery, showAvailablePeers, ShowError
  <1>2. Follows' /\ Own' /\ Quiet'
    BY <1>1, Typed, FollowsKept DEF Own, Quiet
  <1>3. TypeOK'
    <2>1. notifying' \in BOOLEAN /\ token' \in BOOLEAN /\ showing' \in BOOLEAN
      BY Typed DEF changed, observeDiscovery, showAvailablePeers, ShowError, TypeOK
    <2>2. errors' \in 0..ErrorCapacity
      BY Typed, PeerAssumption DEF changed, observeDiscovery, showAvailablePeers, ShowError, TypeOK
    <2> QED  BY <1>1, <2>1, <2>2, Typed DEF TypeOK
  <1>4. ListIsCurrent'
    <2>1. CASE changed
      BY <2>1, Typed, ListKept DEF changed
    <2>2. CASE observeDiscovery
      BY <2>2, Typed, ListKept DEF observeDiscovery
    <2>3. CASE showAvailablePeers
      BY <2>3 DEF showAvailablePeers, ListIsCurrent, connectTarget, Peers
    <2>4. CASE ShowError
      BY <2>4, Typed, ListKept DEF ShowError
    <2> QED  BY <2>1, <2>2, <2>3, <2>4
  <1> QED  BY <1>2, <1>3, <1>4 DEF IInv

---------------------------------------------------------------------------
(* The theorems                                                            *)

LEMMA InitInv == Init => IInv
  <1> SUFFICES ASSUME Init PROVE IInv
    OBVIOUS
  <1>1. TypeOK
    <2>1. events \in Seq(AllEvents) /\ Len(events) = 0
      BY DEF Init
    <2>2. {Capacity, ErrorCapacity, StaleAfter} \subseteq Nat
      BY PeerAssumption
    <2>3. Len(events) <= Capacity /\ 0 \in 0..StaleAfter /\ 0 \in 0..ErrorCapacity
      BY <2>1, <2>2
    <2> QED  BY <2>1, <2>3 DEF Init, TypeOK
  <1>2. Own /\ Quiet
    BY PeerAssumption DEF Init, Own, Quiet
  <1>3. Follows
    <2>1. InFlight = << >>
      BY DEF Init, InFlight
    <2>2. DOMAIN << >> = {}
      OBVIOUS
    <2>3. \A i \in Ids: peers[i] = Visible(i)
      BY DEF Init, Visible
    <2> QED  BY <2>1, <2>2, <2>3 DEF Follows, Says
  <1>4. ListIsCurrent
    <2>1. DOMAIN Snapshot(peers) = {}
      BY NobodyListed DEF Init
    <2>2. DOMAIN screen = {}
      BY DEF Init
    <2> QED  BY <2>1, <2>2 DEF ListIsCurrent, connectTarget, Peers
  <1> QED  BY <1>1, <1>2, <1>3, <1>4 DEF IInv

LEMMA NextInv == IInv /\ [Next]_vars => IInv'
  <1> SUFFICES ASSUME IInv, [Next]_vars PROVE IInv'
    OBVIOUS
  <1>1. CASE UNCHANGED vars
    <2> USE <1>1 DEF vars, browseVars, managerVars, terminalVars
    <2>1. TypeOK' /\ Own' /\ Quiet'
      BY Typed DEF TypeOK, Own, Quiet
    <2>2. Follows' /\ ListIsCurrent'
      BY Typed, FollowsKept, ListKept
    <2> QED  BY <2>1, <2>2 DEF IInv
  <1>2. CASE Next
    BY <1>2, NetworkChangesStep, ScanSucceedsStep, ScanFailsStep, ObserveStep, ExpireStep,
       SendEventStep, PauseStep, ConsumeStep, NotifyStep
       DEF Next, Browse, Terminal
  <1> QED  BY <1>1, <1>2

LEMMA InvHolds == Spec => []IInv
  BY InitInv, NextInv, PTL DEF Spec

\* Neither channel ever holds more than its capacity, and the lease of a Peer
\* never exceeds its length (sendEvent, report, Browse).
THEOREM PeerTableTypes == Spec => []TypeOK
  <1>1. IInv => TypeOK
    BY DEF IInv
  <1> QED  BY <1>1, InvHolds, PTL

\* The Manager's table is what Browse knows, but for the events under way and
\* for our own advertisements (mdns.go Browse, discovery.go consume and apply).
THEOREM TableFollowsBrowseHolds == Spec => []TableFollowsBrowse
  <1>1. IInv => TableFollowsBrowse
    <2> SUFFICES ASSUME Follows, NEW i \in Ids
                 PROVE  LET about == {k \in DOMAIN InFlight: InFlight[k].id = i} IN
                        /\ about = {} => peers[i] = Visible(i)
                        /\ \A k \in about: (\A j \in about: j <= k) => InFlight[k].name = known[i]
      BY DEF IInv, TableFollowsBrowse
    <2>1. Says(InFlight, i, peers[i], Visible(i), known[i])
      BY DEF Follows
    <2> QED  BY <2>1 DEF Says
  <1> QED  BY <1>1, InvHolds, PTL

\* No change of the table goes without a token, so that the list on the screen
\* is the one connect counts in unless a refresh is under way (discovery.go
\* changed, commands.go observeDiscovery and connectTarget).
THEOREM ListIsCurrentHolds == Spec => []ListIsCurrent
  <1>1. IInv => ListIsCurrent
    BY DEF IInv
  <1> QED  BY <1>1, InvHolds, PTL

=============================================================================
