----------------------------- MODULE OfferProofs -----------------------------
(***************************************************************************)
(* What holds of the offers of a session, for any number of offers of the  *)
(* two Peers, sent in any order, any limit on the queues and whoever       *)
(* cancels.                                                                *)
(*                                                                         *)
(* None of the invariants is inductive by itself: whether a decision finds *)
(* its offer depends on what is on the wire, in the channels and in the    *)
(* slots of both Peers.  OfferInv(o) says where offer o can be, from the   *)
(* send command to the end of runOutgoing; CoordinatorInv says what the    *)
(* coordinator's slots and its flags are about.  They hold together.       *)
(***************************************************************************)
EXTENDS OfferCoordination, TLAPS

\* x is in s at most once; every x in s is before every y.
Once(s, x) == \A i, j \in 1..Len(s): s[i] = x /\ s[j] = x => i = j
Before(s, x, y) == \A i, j \in 1..Len(s): s[i] = x /\ s[j] = y => i < j

\* The frames of offer o on their way to its receiver and to its sender.
ToReceiver(o, type) == InQueue(wire[Receiver(o)], Frame(type, o))
Decided(o, verdict) == InQueue(wire[Owner[o]], Answer("decision", o, verdict))
ResultSent(o, verdict) == InQueue(wire[Owner[o]], Answer("result", o, verdict))
ResultPending(o, verdict) == ResultSent(o, verdict) \/ InQueue(resultCh[o], verdict)

Decisions == {"accept", "reject", "full"}
Transferring == {"transfer", "results", "batch", "final"}
HandlerHas(o, at) == handler.at = at /\ handler.offer = o

\* The frames one Peer sends to the other.
FramesTo(p) ==
    {x \in Frames:
        \/ x.type \in {"offer", "files", "batch-complete"} /\ x.verdict = "none" /\ Owner[x.offer] # p
        \/ x.type = "queued" /\ x.verdict = "none" /\ Owner[x.offer] = p
        \/ x.type = "decision" /\ x.verdict \in Decisions /\ Owner[x.offer] = p
        \/ x.type = "result" /\ x.verdict \in {"ok", "canceled"} /\ Owner[x.offer] = p
        \/ x.type = "cancel" /\ x.verdict = "none"}
Routed == \A p \in Peers: wire[p] \in Seq(FramesTo(p))

\* The manifest of o is not on the wire yet.
SubmitsLater(o) ==
    IF Owner[o] = "in" THEN run[o] \in {"none", "submit"}
    ELSE \/ o \notin sent \/ o \in refused
         \/ command.at \in {"send", "queue"} /\ command.offer = o

\* A decision about o is under way; nobody has decided about o.
Answered(o) == decisionCh[o] # "none" \/ \E v \in Decisions: Decided(o, v)
Undecided(o) == ~Answered(o) /\ run[o] \in {"none", "submit", "decision"}

\* The sender's slot and queue.
OwnQueue(o) == IF Owner[o] = "in" THEN coordQueue ELSE outQueue
SenderKeeps(o) ==
    /\ InQueue(OwnQueue(o), o) \/ outgoing[Owner[o]] = o => o \in sent /\ o \notin refused /\ run[o] # "done"
    /\ o \in sent /\ o \notin refused /\ run[o] # "done" => InQueue(OwnQueue(o), o) \/ outgoing[Owner[o]] = o
    /\ InQueue(OwnQueue(o), o) => run[o] = "none" /\ outgoing[Owner[o]] # o
    /\ Once(coordQueue, o) /\ Once(outQueue, o)
    /\ InQueue(outQueue, o) => Owner[o] = "out"
    /\ outgoing[Owner[o]] = o => run[o] # "none" \/ (command.at = "send" /\ command.offer = o)
    /\ run[o] \notin {"none", "done"} => outgoing[Owner[o]] = o
    /\ run[o] = "submit" => Owner[o] = "in"
    /\ command.at = "send" /\ command.offer = o => outgoing["out"] = o /\ run[o] = "none"
    /\ command.at \in {"send", "queue"} /\ command.offer = o => Owner[o] = "out" /\ o \in sent /\ o \notin refused
    /\ o \in canceledOut /\ run[o] # "done" => outgoing[Owner[o]] = o
    /\ o \in canceledOut \/ o \in refused \/ run[o] # "none" => o \in sent
    /\ o \in refused => run[o] = "none"
    /\ \A p \in Peers: outgoing[p] = o => Owner[o] = p

\* Where the receiver has the offer before it decides.
ReceiverKeeps(o) ==
    LET R == Receiver(o) IN
    /\ SubmitsLater(o) =>
        /\ ~ToReceiver(o, "offer") /\ handler.offer # o /\ incoming[R] # o /\ review[o] = "none"
        /\ Undecided(o)
        /\ Owner[o] = "out" => ~InQueue(coordQueue, o)
    /\ ToReceiver(o, "offer") =>
        /\ handler.offer # o /\ incoming[R] # o
        /\ Owner[o] = "out" => ~InQueue(coordQueue, o)
    /\ InQueue(coordQueue, o) => incoming["in"] # o /\ ~HandlerHas(o, "full")
    /\ HandlerHas(o, "full") => incoming["in"] # o
    /\ handler.offer = o => Owner[o] = "out" /\ handler.at # "idle"
    /\ incoming[R] = o /\ review[o] = "none" => HandlerHas(o, "queued")
    /\ \A p \in Peers: incoming[p] = o => Receiver(o) = p
    /\ Once(wire[R], Frame("offer", o))

\* At most one decision is under way.
OneDecision(o) ==
    \A v \in Decisions:
        /\ Once(wire[Owner[o]], Answer("decision", o, v))
        /\ Decided(o, v) => decisionCh[o] = "none" /\ \A u \in Decisions: Decided(o, u) => u = v

\* Every offer is decided once.
DecidedOnce(o) ==
    /\ \/ ToReceiver(o, "offer") \/ InQueue(coordQueue, o) \/ HandlerHas(o, "full")
       \/ incoming[Receiver(o)] = o /\ review[o] = "none"
       => review[o] = "none" /\ Undecided(o)
    /\ review[o] \in {"waiting", "accepting"} => Undecided(o)
    /\ OneDecision(o)
    /\ Answered(o) => run[o] \in {"none", "decision"}
    /\ Decided(o, "accept") \/ decisionCh[o] = "accept" \/ run[o] \in Transferring
        => o \in accepted /\ review[o] = "done"
    /\ Decided(o, "reject") \/ decisionCh[o] = "reject" => o \notin accepted /\ review[o] \in {"rejecting", "done"}
    /\ Decided(o, "full") \/ decisionCh[o] = "full" => review[o] = "none"
    /\ o \in accepted => review[o] \in {"accepting", "done"}
    /\ review[o] = "accepting" => o \in accepted
    /\ review[o] = "done" /\ o \notin accepted => incoming[Receiver(o)] # o
    /\ review[o] \in {"waiting", "rejecting"} => incoming[Receiver(o)] = o

\* The receiver has accepted the offer and not finished with it.
Active(o) == o \in accepted /\ incoming[Receiver(o)] = o

\* What is under way between the decision and the end of runOutgoing.
InTransfer(o) ==
    /\ ToReceiver(o, "files") => run[o] = "results" /\ Active(o) /\ ~ResultPending(o, "ok")
    /\ ToReceiver(o, "batch-complete") =>
        /\ run[o] \in {"final", "done"} /\ ~ResultPending(o, "ok")
        /\ o \notin canceledOut => Active(o)
    /\ ResultPending(o, "ok") =>
        /\ run[o] \in {"results", "final"} /\ o \in received
        /\ run[o] = "final" => ~Active(o) /\ ~ResultPending(o, "canceled")
    /\ run[o] \in {"batch", "final"} => o \in received
    /\ ToReceiver(o, "batch-complete") => o \in received
    /\ ResultPending(o, "canceled") => ~Active(o) /\ o \in canceledOut /\ o \in accepted /\ run[o] # "done"
    /\ Active(o) => run[o] # "done"
    /\ o \in accepted /\ o \notin canceledOut /\ run[o] \notin {"final", "done"} => Active(o)

\* The results of o in the order the receiver sent them.
ResultsInOrder(o) ==
    LET W == wire[Owner[o]] ok == Answer("result", o, "ok") stop == Answer("result", o, "canceled") IN
    /\ Once(W, ok) /\ Once(W, stop) /\ Before(W, ok, stop)
    /\ Once(resultCh[o], "ok") /\ Once(resultCh[o], "canceled") /\ Before(resultCh[o], "ok", "canceled")
    /\ ResultSent(o, "ok") => ~InQueue(resultCh[o], "ok") /\ ~InQueue(resultCh[o], "canceled")
    /\ ResultSent(o, "canceled") => ~InQueue(resultCh[o], "canceled")

\* Nothing of the files follows a cancellation.
CancelInOrder(o) ==
    LET W == wire[Receiver(o)] IN
    /\ ToReceiver(o, "cancel") \/ <<Owner[o], o>> \in cancelSends => o \in canceledOut
    /\ Before(W, Frame("files", o), Frame("cancel", o))
    /\ Once(W, Frame("files", o)) /\ Once(W, Frame("batch-complete", o))

OfferInv(o) ==
    SenderKeeps(o) /\ ReceiverKeeps(o) /\ DecidedOnce(o) /\ InTransfer(o) /\ ResultsInOrder(o) /\ CancelInOrder(o)

\* The coordinator has one offer in hand.
CoordinatorInv ==
    /\ coordActive <=> (incoming["in"] # None \/ outgoing["in"] # None)
    /\ incoming["in"] = None \/ outgoing["in"] = None
    /\ coordQueue # << >> => coordActive
    /\ transferActive["in"] <=> \/ incoming["in"] \in accepted
                                \/ outgoing["in"] # None /\ run[outgoing["in"]] \in Transferring

\* The input loop and the serve loop that are busy are busy with an offer.
LoopsInv ==
    /\ command.at # "idle" => command.offer \in Offers
    /\ IF handler.at = "idle" THEN handler.offer = None ELSE handler.offer \in Offers

\* Why a serve loop may end the session.
ErrorsExplained ==
    /\ error \in {"none", "unknown queue acknowledgement", "overlapping offers", "inconsistent batch"}
    /\ error = "overlapping offers" => incoming["out"] # None /\ review[incoming["out"]] = "rejecting"
    /\ error = "inconsistent batch" => canceledOut # {}

Inv == Routed /\ (\A o \in Offers: OfferInv(o)) /\ CoordinatorInv /\ LoopsInv /\ ErrorsExplained
---------------------------------------------------------------------------
(* Sequences and frames                                                    *)

\* What a sequence holds after an element is appended.
LEMMA Appended ==
    ASSUME NEW S, NEW s \in Seq(S), NEW x \in S
    PROVE  /\ Append(s, x) \in Seq(S) /\ Append(s, x) # << >>
           /\ Len(Append(s, x)) = Len(s) + 1
           /\ \A y: InQueue(Append(s, x), y) <=> InQueue(s, y) \/ y = x
           /\ \A y: Once(s, y) /\ (y = x => ~InQueue(s, y)) => Once(Append(s, x), y)
           /\ \A y, z: Before(s, y, z) /\ (y = x => ~InQueue(s, z) /\ y # z) => Before(Append(s, x), y, z)
<1> DEFINE t == Append(s, x)
<1>1. /\ t \in Seq(S) /\ Len(t) = Len(s) + 1 /\ t[Len(s) + 1] = x /\ Len(s) \in Nat
      /\ \A i \in 1..Len(s): t[i] = s[i]
  OBVIOUS
<1>2. t # << >>
  BY <1>1
<1> HIDE DEF t
<1>3. \A y: InQueue(t, y) <=> InQueue(s, y) \/ y = x
  BY <1>1 DEF InQueue
<1>4. \A y: Once(s, y) /\ (y = x => ~InQueue(s, y)) => Once(t, y)
  <2> SUFFICES ASSUME NEW y, Once(s, y), y = x => ~InQueue(s, y), NEW i \in 1..Len(t), NEW j \in 1..Len(t),
                      t[i] = y, t[j] = y
               PROVE  i = j
    BY DEF Once
  <2>1. i = Len(s) + 1 \/ i \in 1..Len(s)
    BY <1>1
  <2>2. j = Len(s) + 1 \/ j \in 1..Len(s)
    BY <1>1
  <2> QED BY <1>1, <2>1, <2>2 DEF Once, InQueue
<1>5. \A y, z: Before(s, y, z) /\ (y = x => ~InQueue(s, z) /\ y # z) => Before(t, y, z)
  <2> SUFFICES ASSUME NEW y, NEW z, Before(s, y, z), y = x => ~InQueue(s, z) /\ y # z,
                      NEW i \in 1..Len(t), NEW j \in 1..Len(t), t[i] = y, t[j] = z
               PROVE  i < j
    BY DEF Before
  <2>1. i = Len(s) + 1 \/ i \in 1..Len(s)
    BY <1>1
  <2>2. j = Len(s) + 1 \/ j \in 1..Len(s)
    BY <1>1
  <2> QED BY <1>1, <2>1, <2>2 DEF Before, InQueue
<1> QED BY <1>1, <1>2, <1>3, <1>4, <1>5 DEF t

\* What it holds after its first element is taken.
LEMMA Tailed ==
    ASSUME NEW S, NEW s \in Seq(S), s # << >>
    PROVE  /\ Head(s) \in S /\ InQueue(s, Head(s)) /\ Tail(s) \in Seq(S) /\ Len(Tail(s)) <= Len(s)
           /\ \A y: InQueue(Tail(s), y) => InQueue(s, y)
           /\ \A y: InQueue(s, y) /\ y # Head(s) => InQueue(Tail(s), y)
           /\ Once(s, Head(s)) => ~InQueue(Tail(s), Head(s))
           /\ \A y: Once(s, y) => Once(Tail(s), y)
           /\ \A y, z: Before(s, y, z) => Before(Tail(s), y, z)
           /\ \A y: y # Head(s) /\ Before(s, y, Head(s)) => ~InQueue(s, y)
<1> DEFINE t == Tail(s)
<1>1. /\ t \in Seq(S) /\ Len(s) \in Nat \ {0} /\ Len(t) = Len(s) - 1 /\ Head(s) = s[1] /\ Head(s) \in S
      /\ \A i \in 1..Len(t): t[i] = s[i + 1]
  OBVIOUS
<1> HIDE DEF t
<1>2. \A i \in 1..Len(s): i = 1 \/ (i - 1 \in 1..Len(t) /\ t[i - 1] = s[i])
  BY <1>1
<1>3. \A i \in 1..Len(t): i + 1 \in 1..Len(s) /\ t[i] = s[i + 1] /\ i \in Nat
  BY <1>1
<1>4. 1 \in 1..Len(s)
  BY <1>1
<1>5. InQueue(s, Head(s)) /\ Len(t) <= Len(s)
  BY <1>1, <1>4 DEF InQueue
<1>6. /\ \A y: InQueue(t, y) => InQueue(s, y)
      /\ \A y: InQueue(s, y) /\ y # Head(s) => InQueue(t, y)
  BY <1>1, <1>2, <1>3 DEF InQueue
<1>7. Once(s, Head(s)) => ~InQueue(t, Head(s))
  BY <1>1, <1>3, <1>4 DEF Once, InQueue
<1>8. \A y: Once(s, y) => Once(t, y)
  <2> SUFFICES ASSUME NEW y, Once(s, y), NEW i \in 1..Len(t), NEW j \in 1..Len(t), t[i] = y, t[j] = y
               PROVE  i = j
    BY DEF Once
  <2>1. i + 1 = j + 1
    BY <1>3 DEF Once
  <2> QED BY <1>3, <2>1
<1>9. \A y, z: Before(s, y, z) => Before(t, y, z)
  BY <1>3 DEF Before
<1>10. \A y: y # Head(s) /\ Before(s, y, Head(s)) => ~InQueue(s, y)
  BY <1>1, <1>4 DEF Before, InQueue
<1> QED BY <1>1, <1>5, <1>6, <1>7, <1>8, <1>9, <1>10 DEF t

LEMMA EmptyQueue == \A y, z: ~InQueue(<< >>, y) /\ Once(<< >>, y) /\ Before(<< >>, y, z)
BY DEF InQueue, Once, Before

LEMMA FrameFields ==
    ASSUME NEW o \in Offers, NEW type, NEW v
    PROVE  /\ Frame(type, o).type = type /\ Frame(type, o).offer = o /\ Frame(type, o).verdict = "none"
           /\ Answer(type, o, v).type = type /\ Answer(type, o, v).offer = o /\ Answer(type, o, v).verdict = v
           /\ type \in {"offer", "queued", "decision", "files", "result", "batch-complete", "cancel"} =>
                Frame(type, o) \in Frames /\ (v \in Verdicts => Answer(type, o, v) \in Frames)
BY DEF Frame, Answer, Frames, Verdicts

LEMMA OfferFacts ==
    /\ None \notin Offers
    /\ \A p \in Peers: Other(p) \in Peers /\ Other(p) # p /\ Other(Other(p)) = p
    /\ \A p, q \in Peers: p # q => q = Other(p)
    /\ \A o \in Offers: Owner[o] \in Peers /\ Receiver(o) \in Peers /\ Receiver(o) = Other(Owner[o])
                        /\ Receiver(o) # Owner[o]
BY OwnerAssumption DEF Offers, None, Peers, Other, Receiver

\* The frame at the head of p's wire, as the handlers name it.
LEMMA HeadFrame ==
    ASSUME TypeOK, Routed, NEW p \in Peers, wire[p] # << >>
    PROVE  LET x == Head(wire[p]) IN
           /\ x \in Frames /\ x.offer \in Offers /\ InQueue(wire[p], x)
           /\ x.type \in {"offer", "files", "batch-complete"} => x = Frame(x.type, x.offer) /\ p = Receiver(x.offer)
           /\ x.type \in {"queued", "decision", "result"} => p = Owner[x.offer]
           /\ x.type = "cancel" => x = Frame("cancel", x.offer)
           /\ x.type = "decision" => x = Answer("decision", x.offer, x.verdict) /\ x.verdict \in Decisions
           /\ x.type = "result" => x = Answer("result", x.offer, x.verdict) /\ x.verdict \in {"ok", "canceled"}
<1>1. Head(wire[p]) \in FramesTo(p) /\ InQueue(wire[p], Head(wire[p]))
  BY Tailed DEF Routed
<1>2. PICK x: x = Head(wire[p])
  OBVIOUS
<1>3. x \in Frames /\ x.offer \in Offers /\ x = [type |-> x.type, offer |-> x.offer, verdict |-> x.verdict]
  BY <1>1, <1>2 DEF FramesTo, Frames
<1> QED BY <1>1, <1>2, <1>3, OfferFacts DEF FramesTo, Frame, Answer

---------------------------------------------------------------------------
(* What a step does to the wire                                            *)

\* The frames T leave the head of a wire, the frames P are put at the end:
\* both are sets of pairs of a Peer and a frame on its way to that Peer.
WireEffect(T, P) ==
    \A p \in Peers, x \in Frames:
        /\ InQueue(wire[p], x)' => InQueue(wire[p], x) \/ <<p, x>> \in P
        /\ InQueue(wire[p], x) /\ <<p, x>> \notin T => InQueue(wire[p], x)'
        /\ <<p, x>> \in P => InQueue(wire[p], x)'
        /\ <<p, x>> \in T /\ <<p, x>> \notin P /\ Once(wire[p], x) => ~InQueue(wire[p], x)'
        /\ Once(wire[p], x) /\ (<<p, x>> \in P => ~InQueue(wire[p], x)) => Once(wire[p], x)'
        /\ \A y \in Frames: Before(wire[p], x, y) /\ (<<p, x>> \in P => ~InQueue(wire[p], y) /\ x # y)
                                => Before(wire[p], x, y)'

LEMMA Sends ==
    ASSUME TypeOK, Routed, NEW p \in Peers, NEW x, x \in FramesTo(Other(p)), Send(p, x)
    PROVE  Routed' /\ wire' \in [Peers -> Seq(Frames)] /\ WireEffect({}, {<<Other(p), x>>})
<1> DEFINE r == Other(p)
<1>1. r \in Peers /\ x \in Frames
  BY OfferFacts DEF FramesTo
<1>2. wire'[r] = Append(wire[r], x) /\ (\A q \in Peers: q # r => wire'[q] = wire[q])
  BY <1>1 DEF TypeOK, Send
<1>3. wire' \in [Peers -> Seq(Frames)]
  BY <1>1, <1>2, Appended DEF TypeOK, Send
<1> HIDE DEF r
<1>4. Routed'
  <2>1. wire[r] \in Seq(FramesTo(r)) /\ x \in FramesTo(r)
    BY <1>1 DEF Routed, r
  <2>2. Append(wire[r], x) \in Seq(FramesTo(r))
    BY <2>1
  <2> QED BY <1>2, <2>2 DEF Routed, FramesTo
<1>5. WireEffect({}, {<<r, x>>})
  <2> SUFFICES ASSUME NEW q \in Peers, NEW y \in Frames
               PROVE  /\ InQueue(wire[q], y)' => InQueue(wire[q], y) \/ <<q, y>> \in {<<r, x>>}
                      /\ InQueue(wire[q], y) => InQueue(wire[q], y)'
                      /\ <<q, y>> \in {<<r, x>>} => InQueue(wire[q], y)'
                      /\ Once(wire[q], y) /\ (<<q, y>> \in {<<r, x>>} => ~InQueue(wire[q], y))
                            => Once(wire[q], y)'
                      /\ \A z \in Frames: Before(wire[q], y, z)
                                /\ (<<q, y>> \in {<<r, x>>} => ~InQueue(wire[q], z) /\ y # z)
                                => Before(wire[q], y, z)'
    BY DEF WireEffect
  <2>0. wire[r] \in Seq(Frames)
    BY <1>1 DEF TypeOK
  <2>a. /\ \A u: InQueue(wire[r], u)' <=> InQueue(wire[r], u) \/ u = x
        /\ \A u: Once(wire[r], u) /\ (u = x => ~InQueue(wire[r], u)) => Once(wire[r], u)'
        /\ \A u, z: Before(wire[r], u, z) /\ (u = x => ~InQueue(wire[r], z) /\ u # z)
                        => Before(wire[r], u, z)'
    <3>1. r' = r
      BY DEF r
    <3> QED BY <1>1, <1>2, <2>0, <3>1, Appended
  <2>1. CASE q = r
    BY <2>1, <2>a
  <2>2. CASE q # r
    BY <1>2, <2>2
  <2> QED BY <2>1, <2>2
<1> QED BY <1>3, <1>4, <1>5 DEF r
LEMMA Untouched == ASSUME TypeOK, Routed, UNCHANGED wire PROVE Routed' /\ WireEffect({}, {})
BY DEF Routed, WireEffect, FramesTo, InQueue, Once, Before

\* The tail of p's wire as Consume and ConsumeAndSend leave it.
LEMMA WireTail ==
    ASSUME TypeOK, Routed, NEW p \in Peers, wire[p] # << >>, wire'[p] = Tail(wire[p])
    PROVE  /\ wire'[p] \in Seq(FramesTo(p)) /\ wire'[p] \in Seq(Frames)
           /\ \A u: InQueue(wire[p], u)' => InQueue(wire[p], u)
           /\ \A u: InQueue(wire[p], u) /\ u # Head(wire[p]) => InQueue(wire[p], u)'
           /\ \A u: Once(wire[p], u) /\ u = Head(wire[p]) => ~InQueue(wire[p], u)'
           /\ \A u: Once(wire[p], u) => Once(wire[p], u)'
           /\ \A u, z: Before(wire[p], u, z) => Before(wire[p], u, z)'
<1>1. wire[p] \in Seq(FramesTo(p)) /\ wire[p] \in Seq(Frames)
  BY DEF TypeOK, Routed
<1>2. Tail(wire[p]) \in Seq(FramesTo(p)) /\ Tail(wire[p]) \in Seq(Frames)
  BY <1>1, Tailed
<1> QED BY <1>1, <1>2, Tailed

LEMMA Consumes ==
    ASSUME TypeOK, Routed, NEW p \in Peers, wire[p] # << >>, Consume(p)
    PROVE  Routed' /\ wire' \in [Peers -> Seq(Frames)] /\ WireEffect({<<p, Head(wire[p])>>}, {})
<1>1. wire'[p] = Tail(wire[p]) /\ (\A q \in Peers: q # p => wire'[q] = wire[q])
  BY DEF TypeOK, Consume
<1>2. wire' \in [Peers -> Seq(Frames)] /\ Routed'
  BY <1>1, WireTail DEF TypeOK, Consume, Routed, FramesTo
<1>3. ASSUME NEW q \in Peers, NEW y \in Frames, q # p
      PROVE  /\ InQueue(wire[q], y)' <=> InQueue(wire[q], y)
             /\ Once(wire[q], y)' <=> Once(wire[q], y)
             /\ \A z: Before(wire[q], y, z)' <=> Before(wire[q], y, z)
  BY <1>1, <1>3 DEF InQueue, Once, Before
<1>4. \A q, y: <<q, y>> \in {<<p, Head(wire[p])>>} <=> q = p /\ y = Head(wire[p])
  OBVIOUS
<1> QED BY <1>1, <1>2, <1>3, <1>4, WireTail DEF WireEffect

LEMMA ConsumesAndSends ==
    ASSUME TypeOK, Routed, NEW p \in Peers, wire[p] # << >>, NEW x, x \in FramesTo(Other(p)),
           ConsumeAndSend(p, x)
    PROVE  /\ Routed' /\ wire' \in [Peers -> Seq(Frames)]
           /\ WireEffect({<<p, Head(wire[p])>>}, {<<Other(p), x>>})
<1>1. PICK r \in Peers: r = Other(p)
  BY OfferFacts
<1>2. r # p /\ x \in Frames /\ \A q \in Peers: q = p \/ q = r
  BY <1>1, OfferFacts DEF FramesTo
<1>3. wire'[p] = Tail(wire[p]) /\ wire'[r] = Append(wire[r], x)
  BY <1>1, <1>2 DEF TypeOK, ConsumeAndSend
<1>4. wire[r] \in Seq(Frames) /\ wire[r] \in Seq(FramesTo(r)) /\ x \in FramesTo(r)
  BY <1>1 DEF TypeOK, Routed
<1>5. wire'[r] \in Seq(Frames) /\ wire'[r] \in Seq(FramesTo(r))
  BY <1>2, <1>3, <1>4, Appended
<1>6. wire' \in [Peers -> Seq(Frames)] /\ Routed'
  <2>1. wire'[p] \in Seq(Frames) /\ wire'[p] \in Seq(FramesTo(p))
    BY <1>3, WireTail
  <2>2. \A q \in Peers: wire'[q] \in Seq(Frames) /\ wire'[q] \in Seq(FramesTo(q))
    BY <1>2, <1>5, <2>1
  <2>3. wire' = [q \in Peers |-> wire'[q]]
    BY DEF TypeOK, ConsumeAndSend
  <2> QED BY <2>2, <2>3 DEF Routed, FramesTo
<1>7. /\ \A u: InQueue(wire[r], u)' <=> InQueue(wire[r], u) \/ u = x
      /\ \A u: Once(wire[r], u) /\ (u = x => ~InQueue(wire[r], u)) => Once(wire[r], u)'
      /\ \A u, z: Before(wire[r], u, z) /\ (u = x => ~InQueue(wire[r], z) /\ u # z)
                      => Before(wire[r], u, z)'
  BY <1>2, <1>3, <1>4, Appended
<1>8. /\ \A q, y: <<q, y>> \in {<<p, Head(wire[p])>>} <=> q = p /\ y = Head(wire[p])
      /\ \A q, y: <<q, y>> \in {<<r, x>>} <=> q = r /\ y = x
  OBVIOUS
<1>9. WireEffect({<<p, Head(wire[p])>>}, {<<r, x>>})
  <2>1. /\ \A u: InQueue(wire[p], u)' => InQueue(wire[p], u)
        /\ \A u: InQueue(wire[p], u) /\ u # Head(wire[p]) => InQueue(wire[p], u)'
        /\ \A u: Once(wire[p], u) /\ u = Head(wire[p]) => ~InQueue(wire[p], u)'
        /\ \A u: Once(wire[p], u) => Once(wire[p], u)'
        /\ \A u, z: Before(wire[p], u, z) => Before(wire[p], u, z)'
    BY <1>3, WireTail
  <2>2. p # r /\ \A q \in Peers: q = p \/ q = r
    BY <1>2
  <2> QED BY <2>1, <2>2, <1>7, <1>8 DEF WireEffect
<1> QED BY <1>1, <1>6, <1>9

---------------------------------------------------------------------------
(* What a step does not touch                                              *)

\* Nothing about offer o is taken from a wire or put on one.
SameFrames(o) ==
    \A p \in Peers, x \in Frames: x.offer = o =>
        /\ InQueue(wire[p], x)' <=> InQueue(wire[p], x)
        /\ Once(wire[p], x) => Once(wire[p], x)'
        /\ \A y \in Frames: y.offer = o /\ Before(wire[p], x, y) => Before(wire[p], x, y)'

LEMMA OtherFrames ==
    ASSUME NEW T, NEW P, WireEffect(T, P), NEW o,
           \A p \in Peers, x \in Frames: <<p, x>> \in T \cup P => x.offer # o
    PROVE  SameFrames(o)
BY DEF WireEffect, SameFrames

\* What the Peers know of offer o, except where it stands.
SameRest(o) ==
    /\ decisionCh'[o] = decisionCh[o] /\ resultCh'[o] = resultCh[o]
    /\ o \in accepted' <=> o \in accepted
    /\ o \in received' <=> o \in received
    /\ o \in canceledOut' <=> o \in canceledOut
    /\ o \in sent' <=> o \in sent
    /\ o \in refused' <=> o \in refused
    /\ <<Owner[o], o>> \in cancelSends' => <<Owner[o], o>> \in cancelSends
    /\ \A at \in {"send", "queue"}: (command'.at = at /\ command'.offer = o) <=> (command.at = at /\ command.offer = o)
    /\ handler'.offer = o <=> handler.offer = o
    /\ handler.offer = o => handler'.at = handler.at

SameSlots(o) ==
    \A p \in Peers: (incoming'[p] = o <=> incoming[p] = o) /\ (outgoing'[p] = o <=> outgoing[p] = o)
SameQueues(o) ==
    /\ InQueue(coordQueue, o)' <=> InQueue(coordQueue, o)
    /\ InQueue(outQueue, o)' <=> InQueue(outQueue, o)
    /\ Once(coordQueue, o) => Once(coordQueue, o)'
    /\ Once(outQueue, o) => Once(outQueue, o)'
SamePlace(o) == run'[o] = run[o] /\ review'[o] = review[o] /\ SameSlots(o) /\ SameQueues(o)

\* The frames of o that the invariant speaks of.
LEMMA SameViews ==
    ASSUME NEW o \in Offers, SameFrames(o)
    PROVE  /\ \A t \in {"offer", "files", "batch-complete", "cancel"}: ToReceiver(o, t)' <=> ToReceiver(o, t)
           /\ \A t \in {"offer", "files", "batch-complete"}:
                Once(wire[Receiver(o)], Frame(t, o)) => Once(wire[Receiver(o)], Frame(t, o))'
           /\ \A v \in Decisions: /\ Decided(o, v)' <=> Decided(o, v)
                                  /\ Once(wire[Owner[o]], Answer("decision", o, v))
                                        => Once(wire[Owner[o]], Answer("decision", o, v))'
           /\ \A v \in {"ok", "canceled"}: /\ ResultSent(o, v)' <=> ResultSent(o, v)
                                           /\ Once(wire[Owner[o]], Answer("result", o, v))
                                                => Once(wire[Owner[o]], Answer("result", o, v))'
           /\ Before(wire[Receiver(o)], Frame("files", o), Frame("cancel", o))
                => Before(wire[Receiver(o)], Frame("files", o), Frame("cancel", o))'
           /\ Before(wire[Owner[o]], Answer("result", o, "ok"), Answer("result", o, "canceled"))
                => Before(wire[Owner[o]], Answer("result", o, "ok"), Answer("result", o, "canceled"))'
<1>1. PICK p \in Peers, r \in Peers: p = Owner[o] /\ r = Receiver(o)
  BY OfferFacts
<1>2. /\ \A t \in {"offer", "files", "batch-complete", "cancel"}:
            Frame(t, o) \in Frames /\ Frame(t, o).offer = o
      /\ \A t \in {"decision", "result"}, v \in Verdicts:
            Answer(t, o, v) \in Frames /\ Answer(t, o, v).offer = o
  BY FrameFields
<1>3. Decisions \subseteq Verdicts /\ {"ok", "canceled"} \subseteq Verdicts
  BY DEF Decisions, Verdicts
<1>4. /\ \A t \in {"offer", "files", "batch-complete", "cancel"}:
            /\ InQueue(wire[r], Frame(t, o))' <=> InQueue(wire[r], Frame(t, o))
            /\ Once(wire[r], Frame(t, o)) => Once(wire[r], Frame(t, o))'
      /\ \A t \in {"decision", "result"}, v \in Verdicts:
            /\ InQueue(wire[p], Answer(t, o, v))' <=> InQueue(wire[p], Answer(t, o, v))
            /\ Once(wire[p], Answer(t, o, v)) => Once(wire[p], Answer(t, o, v))'
  BY <1>2 DEF SameFrames
<1>5. /\ Before(wire[r], Frame("files", o), Frame("cancel", o))
                => Before(wire[r], Frame("files", o), Frame("cancel", o))'
      /\ Before(wire[p], Answer("result", o, "ok"), Answer("result", o, "canceled"))
                => Before(wire[p], Answer("result", o, "ok"), Answer("result", o, "canceled"))'
  BY <1>2, <1>3 DEF SameFrames
<1> QED BY <1>1, <1>3, <1>4, <1>5 DEF ToReceiver, Decided, ResultSent
LEMMA SameDecision ==
    ASSUME NEW o \in Offers, SameFrames(o), decisionCh'[o] = decisionCh[o], OneDecision(o)
    PROVE  OneDecision(o)' /\ (Answered(o)' <=> Answered(o))
BY SameViews DEF OneDecision, Answered

\* An offer that a step does not touch keeps its invariant.
LEMMA OfferKept ==
    ASSUME NEW o \in Offers, OfferInv(o), SameFrames(o), SameRest(o), SamePlace(o)
    PROVE  OfferInv(o)'
<1>0. /\ SenderKeeps(o) /\ ReceiverKeeps(o) /\ DecidedOnce(o) /\ InTransfer(o) /\ ResultsInOrder(o)
      /\ CancelInOrder(o)
  BY DEF OfferInv
<1>1. Owner[o] \in Peers /\ Receiver(o) \in Peers /\ "in" \in Peers /\ "out" \in Peers
  BY OfferFacts DEF Peers
<1>2. /\ Undecided(o)' <=> Undecided(o)
      /\ SubmitsLater(o)' <=> SubmitsLater(o)
      /\ Active(o)' <=> Active(o)
      /\ \A v \in {"ok", "canceled"}: ResultPending(o, v)' <=> ResultPending(o, v)
  BY <1>0, <1>1, SameViews, SameDecision DEF SameRest, SamePlace, SameSlots, DecidedOnce, Undecided, SubmitsLater, Active, ResultPending
<1>3. SenderKeeps(o)'
  BY <1>0, <1>1 DEF SenderKeeps, SameRest, SamePlace, SameSlots, SameQueues, OwnQueue
<1>4. ReceiverKeeps(o)'
  BY <1>0, <1>1, <1>2, SameViews DEF ReceiverKeeps, SameRest, SamePlace, SameSlots, SameQueues, HandlerHas
<1>5. DecidedOnce(o)'
  BY <1>0, <1>1, <1>2, SameViews, SameDecision
  DEF DecidedOnce, SameRest, SamePlace, SameSlots, SameQueues, HandlerHas, Decisions
<1>6. InTransfer(o)'
  BY <1>0, <1>1, <1>2, SameViews DEF InTransfer, SameRest, SamePlace
<1>7. ResultsInOrder(o)'
  BY <1>0, <1>1, <1>2, SameViews DEF ResultsInOrder, SameRest
<1>8. CancelInOrder(o)'
  BY <1>0, <1>1, <1>2, SameViews DEF CancelInOrder, SameRest
<1> QED BY <1>3, <1>4, <1>5, <1>6, <1>7, <1>8 DEF OfferInv
---------------------------------------------------------------------------
(* The next offer takes the slots                                          *)

\* The coordinator's own offer leaves the queue.
LEMMA StartsOwn ==
    ASSUME NEW o \in Offers, OfferInv(o), SameFrames(o), SameRest(o), Owner[o] = "in",
           InQueue(coordQueue, o), ~InQueue(coordQueue, o)', Once(coordQueue, o)', UNCHANGED outQueue,
           outgoing'["in"] = o, outgoing'["out"] # o, \A p \in Peers: incoming'[p] = o <=> incoming[p] = o,
           run'[o] = "submit", review'[o] = review[o]
    PROVE  OfferInv(o)'
<1>0. /\ SenderKeeps(o) /\ ReceiverKeeps(o) /\ DecidedOnce(o) /\ InTransfer(o) /\ ResultsInOrder(o)
      /\ CancelInOrder(o)
  BY DEF OfferInv
<1>1. Owner[o] \in Peers /\ Receiver(o) \in Peers /\ "in" \in Peers /\ "out" \in Peers /\ Receiver(o) = "out"
      /\ (\A p \in Peers: p = "in" \/ p = "out")
  BY OfferFacts DEF Peers, Other
<1>2. run[o] = "none" /\ review[o] = "none" /\ Undecided(o) /\ outgoing["in"] # o /\ o \in sent /\ o \notin refused
  BY <1>0, <1>1 DEF SenderKeeps, DecidedOnce, OwnQueue
<1>3. /\ Undecided(o)' /\ SubmitsLater(o) /\ SubmitsLater(o)'
      /\ Active(o)' <=> Active(o)
      /\ \A v \in {"ok", "canceled"}: ResultPending(o, v)' <=> ResultPending(o, v)
  BY <1>0, <1>1, <1>2, SameViews, SameDecision DEF SameRest, DecidedOnce, Undecided, SubmitsLater, Active, ResultPending
<1>4. SenderKeeps(o)'
  BY <1>0, <1>1, <1>2 DEF SenderKeeps, SameRest, OwnQueue, Once, InQueue
<1>5. ReceiverKeeps(o)'
  BY <1>0, <1>1, <1>2, <1>3, SameViews DEF ReceiverKeeps, SameRest, HandlerHas
<1>6. DecidedOnce(o)'
  BY <1>0, <1>1, <1>2, <1>3, SameViews, SameDecision
  DEF DecidedOnce, SameRest, HandlerHas, Decisions, Transferring, Undecided, Answered
<1>7. InTransfer(o)'
  BY <1>0, <1>1, <1>2, <1>3, SameViews DEF InTransfer, SameRest
<1>8. ResultsInOrder(o)'
  BY <1>0, <1>1, <1>3, SameViews DEF ResultsInOrder, SameRest
<1>9. CancelInOrder(o)'
  BY <1>0, <1>1, <1>3, SameViews DEF CancelInOrder, SameRest
<1> QED BY <1>4, <1>5, <1>6, <1>7, <1>8, <1>9 DEF OfferInv

\* The other Peer's offer leaves the coordinator's queue.
LEMMA StartsReview ==
    ASSUME NEW o \in Offers, OfferInv(o), SameFrames(o), SameRest(o), Owner[o] = "out",
           InQueue(coordQueue, o), ~InQueue(coordQueue, o)', Once(coordQueue, o)', UNCHANGED outQueue,
           incoming'["in"] = o, incoming'["out"] # o, \A p \in Peers: outgoing'[p] = o <=> outgoing[p] = o,
           review'[o] = "waiting", run'[o] = run[o]
    PROVE  OfferInv(o)'
<1>0. /\ SenderKeeps(o) /\ ReceiverKeeps(o) /\ DecidedOnce(o) /\ InTransfer(o) /\ ResultsInOrder(o)
      /\ CancelInOrder(o)
  BY DEF OfferInv
<1>1. Owner[o] \in Peers /\ Receiver(o) \in Peers /\ "in" \in Peers /\ "out" \in Peers /\ Receiver(o) = "in"
      /\ (\A p \in Peers: p = "in" \/ p = "out")
  BY OfferFacts DEF Peers, Other
<1>2. /\ review[o] = "none" /\ Undecided(o) /\ o \notin accepted /\ ~ToReceiver(o, "offer")
      /\ ~HandlerHas(o, "full") /\ ~SubmitsLater(o)
  BY <1>0, <1>1 DEF DecidedOnce, ReceiverKeeps
<1>3. /\ Undecided(o)' /\ ~SubmitsLater(o)' /\ ~Active(o) /\ o \notin accepted'
      /\ \A v \in {"ok", "canceled"}: ResultPending(o, v)' <=> ResultPending(o, v)
  BY <1>0, <1>1, <1>2, SameViews, SameDecision DEF SameRest, DecidedOnce, Undecided, SubmitsLater, Active, ResultPending
<1>4. SenderKeeps(o)'
  BY <1>0, <1>1 DEF SenderKeeps, SameRest, OwnQueue
<1>5. ReceiverKeeps(o)'
  BY <1>0, <1>1, <1>2, <1>3, SameViews DEF ReceiverKeeps, SameRest, HandlerHas
<1>6. DecidedOnce(o)'
  BY <1>0, <1>1, <1>2, <1>3, SameViews, SameDecision
  DEF DecidedOnce, SameRest, HandlerHas, Decisions, Transferring, Undecided, Answered
<1>7. InTransfer(o)'
  BY <1>0, <1>1, <1>2, <1>3, SameViews DEF InTransfer, SameRest, Active
<1>8. ResultsInOrder(o)'
  BY <1>0, <1>1, <1>3, SameViews DEF ResultsInOrder, SameRest
<1>9. CancelInOrder(o)'
  BY <1>0, <1>1, <1>3, SameViews DEF CancelInOrder, SameRest
<1> QED BY <1>4, <1>5, <1>6, <1>7, <1>8, <1>9 DEF OfferInv

\* The other Peer starts runOutgoing for an offer of its queue.
LEMMA StartsQueued ==
    ASSUME NEW o \in Offers, OfferInv(o), SameFrames(o), SameRest(o), Owner[o] = "out",
           InQueue(outQueue, o), ~InQueue(outQueue, o)', Once(outQueue, o)', UNCHANGED coordQueue,
           outgoing'["out"] = o, outgoing'["in"] # o, \A p \in Peers: incoming'[p] = o <=> incoming[p] = o,
           run'[o] = "decision", review'[o] = review[o]
    PROVE  OfferInv(o)'
<1>0. /\ SenderKeeps(o) /\ ReceiverKeeps(o) /\ DecidedOnce(o) /\ InTransfer(o) /\ ResultsInOrder(o)
      /\ CancelInOrder(o)
  BY DEF OfferInv
<1>1. Owner[o] \in Peers /\ Receiver(o) \in Peers /\ "in" \in Peers /\ "out" \in Peers /\ Receiver(o) = "in"
      /\ (\A p \in Peers: p = "in" \/ p = "out")
  BY OfferFacts DEF Peers, Other
<1>2. run[o] = "none" /\ outgoing["out"] # o /\ o \in sent /\ o \notin refused
  BY <1>0, <1>1 DEF SenderKeeps, OwnQueue
<1>3. /\ Undecided(o)' <=> Undecided(o)
      /\ SubmitsLater(o)' <=> SubmitsLater(o)
      /\ Active(o)' <=> Active(o)
      /\ \A v \in {"ok", "canceled"}: ResultPending(o, v)' <=> ResultPending(o, v)
  BY <1>0, <1>1, <1>2, SameViews, SameDecision DEF SameRest, DecidedOnce, Undecided, SubmitsLater, Active, ResultPending
<1>4. SenderKeeps(o)'
  BY <1>0, <1>1, <1>2 DEF SenderKeeps, SameRest, OwnQueue, Once, InQueue
<1>5. ReceiverKeeps(o)'
  BY <1>0, <1>1, <1>2, <1>3, SameViews DEF ReceiverKeeps, SameRest, HandlerHas
<1>6. DecidedOnce(o)'
  BY <1>0, <1>1, <1>2, <1>3, SameViews, SameDecision
  DEF DecidedOnce, SameRest, HandlerHas, Decisions, Transferring, Undecided, Answered
<1>7. InTransfer(o)'
  BY <1>0, <1>1, <1>2, <1>3, SameViews DEF InTransfer, SameRest
<1>8. ResultsInOrder(o)'
  BY <1>0, <1>1, <1>3, SameViews DEF ResultsInOrder, SameRest
<1>9. CancelInOrder(o)'
  BY <1>0, <1>1, <1>3, SameViews DEF CancelInOrder, SameRest
<1> QED BY <1>4, <1>5, <1>6, <1>7, <1>8, <1>9 DEF OfferInv
\* The part of TypeOK that clearOutgoing and clearIncoming touch.
SlotTypes ==
    /\ incoming \in [Peers -> Offers \cup {None}]
    /\ outgoing \in [Peers -> Offers \cup {None}]
    /\ coordQueue \in Seq(Offers) /\ Len(coordQueue) <= MaxQueued
    /\ coordActive \in BOOLEAN
    /\ outQueue \in Seq(Offers) /\ Len(outQueue) <= MaxQueued
    /\ transferActive \in [Peers -> BOOLEAN]
    /\ run \in [Offers -> {"none", "submit", "decision", "transfer", "results", "batch", "final", "done"}]
    /\ review \in [Offers -> {"none", "waiting", "accepting", "rejecting", "done"}]

\* TakeSlot as clearOutgoing and clearIncoming call it.
Frees(p, next, inc, out) ==
    /\ TakeSlot(p, next, inc, out)
    /\ inc \in {None, incoming[p]} /\ out \in {None, outgoing[p]}
    /\ p = "in" \/ next # None => inc = None /\ out = None
    /\ next \in {None, HeadOrNone(IF p = "in" THEN coordQueue ELSE outQueue)}
    /\ p = "in" => next = HeadOrNone(coordQueue)

LEMMA FreedTypes ==
    ASSUME TypeOK, NEW p \in Peers, NEW next, NEW inc, NEW out, Frees(p, next, inc, out)
    PROVE  /\ next \in Offers \cup {None}
           /\ incoming' \in [Peers -> Offers \cup {None}] /\ outgoing' \in [Peers -> Offers \cup {None}]
           /\ coordQueue' \in Seq(Offers) /\ Len(coordQueue') <= MaxQueued
           /\ outQueue' \in Seq(Offers) /\ Len(outQueue') <= MaxQueued
           /\ coordActive' \in BOOLEAN /\ transferActive' \in [Peers -> BOOLEAN]
<1>1. /\ coordQueue \in Seq(Offers) /\ Len(coordQueue) <= MaxQueued
      /\ outQueue \in Seq(Offers) /\ Len(outQueue) <= MaxQueued /\ MaxQueued \in Nat
  BY MaxQueuedAssumption DEF TypeOK
<1>2. /\ p = "in" /\ next # None => coordQueue # << >> /\ next = Head(coordQueue)
      /\ p # "in" /\ next # None => outQueue # << >> /\ next = Head(outQueue)
  BY DEF Frees, HeadOrNone
<1>3. next \in Offers \cup {None}
  BY <1>1, <1>2
<1>4. inc \in Offers \cup {None} /\ out \in Offers \cup {None}
  BY DEF Frees, TypeOK
<1>5. incoming' \in [Peers -> Offers \cup {None}] /\ outgoing' \in [Peers -> Offers \cup {None}]
  BY <1>3, <1>4 DEF Frees, TakeSlot, TypeOK
<1>6. /\ coordQueue' \in Seq(Offers) /\ Len(coordQueue') <= MaxQueued
  <2>1. coordQueue' = coordQueue \/ (coordQueue # << >> /\ coordQueue' = Tail(coordQueue))
    BY <1>2 DEF Frees, TakeSlot
  <2> QED BY <1>1, <2>1
<1>7. /\ outQueue' \in Seq(Offers) /\ Len(outQueue') <= MaxQueued
  <2>1. outQueue' = outQueue \/ (outQueue # << >> /\ outQueue' = Tail(outQueue))
    BY <1>2 DEF Frees, TakeSlot, Peers
  <2> QED BY <1>1, <2>1
<1>8. coordActive' \in BOOLEAN
  BY DEF Frees, TakeSlot, TypeOK
<1>9. transferActive' \in [Peers -> BOOLEAN]
  BY DEF Frees, TakeSlot, TypeOK
<1> QED BY <1>3, <1>5, <1>6, <1>7, <1>8, <1>9

\* Only the offer that takes a slot leaves its queue.
LEMMA FreedPlaces ==
    ASSUME TypeOK, Inv, NEW p \in Peers, NEW next, NEW inc, NEW out, Frees(p, next, inc, out)
    PROVE  /\ \A o \in Offers: o # next => SameQueues(o)
           /\ \A o \in Offers, q \in Peers: q # p =>
                (incoming'[q] = o <=> incoming[q] = o) /\ (outgoing'[q] = o <=> outgoing[q] = o)
           /\ \A o \in Offers: o # next => (incoming'[p] = o <=> inc = o) /\ (outgoing'[p] = o <=> out = o)
           /\ next # None =>
                /\ next \in Offers
                /\ \/ p = "in" /\ InQueue(coordQueue, next) /\ UNCHANGED outQueue /\ ~InQueue(coordQueue, next)'
                      /\ Once(coordQueue, next)'
                   \/ p = "out" /\ InQueue(outQueue, next) /\ UNCHANGED coordQueue /\ ~InQueue(outQueue, next)'
                      /\ Once(outQueue, next)' /\ Owner[next] = "out"
                /\ incoming'[p] = (IF Owner[next] # p THEN next ELSE None)
                /\ outgoing'[p] = (IF Owner[next] = p THEN next ELSE None)
<1>1. coordQueue \in Seq(Offers) /\ outQueue \in Seq(Offers)
  BY DEF TypeOK
<1>2. /\ p = "in" /\ next # None => coordQueue # << >> /\ next = Head(coordQueue) /\ coordQueue' = Tail(coordQueue)
      /\ p # "in" /\ next # None => outQueue # << >> /\ next = Head(outQueue) /\ outQueue' = Tail(outQueue)
      /\ p # "in" \/ next = None => coordQueue' = coordQueue
      /\ p = "in" \/ next = None => outQueue' = outQueue
  BY DEF Frees, HeadOrNone, TakeSlot, Peers
<1>3. \A o \in Offers: Once(coordQueue, o) /\ Once(outQueue, o) /\ (InQueue(outQueue, o) => Owner[o] = "out")
  BY DEF Inv, OfferInv, SenderKeeps
<1>4. next \in Offers \cup {None}
  BY FreedTypes
<1>5. ASSUME NEW o \in Offers, o # next PROVE SameQueues(o)
  <2>1. CASE next = None
    BY <1>2, <2>1 DEF SameQueues
  <2>2. CASE next # None /\ p = "in"
    <3>0. coordQueue # << >> /\ o # Head(coordQueue) /\ coordQueue' = Tail(coordQueue)
      BY <1>2, <1>5, <2>2
    <3>1. /\ InQueue(coordQueue, o)' <=> InQueue(coordQueue, o)
          /\ Once(coordQueue, o) => Once(coordQueue, o)'
      BY <1>1, <3>0, Tailed
    <3>2. UNCHANGED outQueue
      BY <1>2, <2>2
    <3> QED BY <3>1, <3>2 DEF SameQueues
  <2>3. CASE next # None /\ p # "in"
    <3>0. outQueue # << >> /\ o # Head(outQueue) /\ outQueue' = Tail(outQueue)
      BY <1>2, <1>5, <2>3
    <3>1. /\ InQueue(outQueue, o)' <=> InQueue(outQueue, o)
          /\ Once(outQueue, o) => Once(outQueue, o)'
      BY <1>1, <3>0, Tailed
    <3>2. UNCHANGED coordQueue
      BY <1>2, <2>3
    <3> QED BY <3>1, <3>2 DEF SameQueues
  <2> QED BY <2>1, <2>2, <2>3
<1>6. \A o \in Offers, q \in Peers: q # p =>
                (incoming'[q] = o <=> incoming[q] = o) /\ (outgoing'[q] = o <=> outgoing[q] = o)
  BY DEF Frees, TakeSlot, TypeOK
<1>7. \A o \in Offers: o # next => (incoming'[p] = o <=> inc = o) /\ (outgoing'[p] = o <=> out = o)
  <2>1. /\ incoming'[p] = (IF next # None /\ Owner[next] # p THEN next ELSE inc)
        /\ outgoing'[p] = (IF next # None /\ Owner[next] = p THEN next ELSE out)
    BY DEF Frees, TakeSlot, TypeOK
  <2>2. next # None => inc = None /\ out = None
    BY DEF Frees
  <2>3. None \notin Offers
    BY OfferFacts
  <2> QED BY <2>1, <2>2, <2>3
<1>8. ASSUME next # None
      PROVE  /\ incoming'[p] = (IF Owner[next] # p THEN next ELSE None)
             /\ outgoing'[p] = (IF Owner[next] = p THEN next ELSE None)
  BY <1>8 DEF Frees, TakeSlot, TypeOK
<1>9. CASE next = None
  BY <1>5, <1>6, <1>7, <1>9
<1>10. CASE next # None /\ p = "in"
  <2>1. InQueue(coordQueue, next) /\ Once(coordQueue, next)' /\ ~InQueue(coordQueue, next)'
    <3>1. coordQueue \in Seq(Offers) /\ coordQueue # << >> /\ next = Head(coordQueue) /\ coordQueue' = Tail(coordQueue)
      BY <1>1, <1>2, <1>10
    <3>2. next \in Offers /\ Once(coordQueue, next)
      BY <1>3, <1>4, <1>10
    <3> QED BY <3>1, <3>2, Tailed
  <2> QED BY <1>2, <1>4, <1>5, <1>6, <1>7, <1>8, <1>10, <2>1
<1>11. CASE next # None /\ p # "in"
  <2>1. InQueue(outQueue, next) /\ Once(outQueue, next)' /\ ~InQueue(outQueue, next)'
    <3>1. outQueue \in Seq(Offers) /\ outQueue # << >> /\ next = Head(outQueue) /\ outQueue' = Tail(outQueue)
      BY <1>1, <1>2, <1>11
    <3>2. next \in Offers /\ Once(outQueue, next)
      BY <1>3, <1>4, <1>11
    <3> QED BY <3>1, <3>2, Tailed
  <2> QED BY <1>2, <1>3, <1>4, <1>5, <1>6, <1>7, <1>8, <1>11, <2>1 DEF Peers
<1> QED BY <1>9, <1>10, <1>11

\* The offer that takes a slot keeps its invariant.
LEMMA NextStarts ==
    ASSUME TypeOK, Inv, NEW p \in Peers, NEW next, NEW inc, NEW out, Frees(p, next, inc, out), next # None,
           NEW runs, NEW reviews, DOMAIN runs = Offers, DOMAIN reviews = Offers,
           runs[next] = run[next], reviews[next] = review[next],
           run' = StartRun(runs, p, next), review' = StartReview(reviews, p, next),
           SameFrames(next), SameRest(next)
    PROVE  OfferInv(next)'
<1>1. next \in Offers /\ OfferInv(next) /\ Owner[next] \in Peers
  BY FreedPlaces, OfferFacts DEF Inv
<1>2. /\ Owner[next] = p => run'[next] = (IF p = "in" THEN "submit" ELSE "decision") /\ review'[next] = review[next]
      /\ Owner[next] # p => run'[next] = run[next] /\ review'[next] = "waiting"
  BY <1>1 DEF StartRun, StartReview
<1>3. /\ \A q \in Peers: q # p => (incoming'[q] = next <=> incoming[q] = next)
                                 /\ (outgoing'[q] = next <=> outgoing[q] = next)
      /\ \/ p = "in" /\ InQueue(coordQueue, next) /\ UNCHANGED outQueue /\ ~InQueue(coordQueue, next)'
            /\ Once(coordQueue, next)'
         \/ p = "out" /\ InQueue(outQueue, next) /\ UNCHANGED coordQueue /\ ~InQueue(outQueue, next)'
            /\ Once(outQueue, next)' /\ Owner[next] = "out"
      /\ incoming'[p] = (IF Owner[next] # p THEN next ELSE None)
      /\ outgoing'[p] = (IF Owner[next] = p THEN next ELSE None)
  BY <1>1, FreedPlaces
<1>4. /\ "in" \in Peers /\ "out" \in Peers /\ next # None
      /\ \A q \in Peers: (incoming[q] = next => q # Owner[next]) /\ (outgoing[q] = next => q = Owner[next])
  BY <1>1, OfferFacts DEF Peers, OfferInv, ReceiverKeeps, SenderKeeps
<1>5. CASE p = "in" /\ Owner[next] = "in"
  <2>1. \A q \in Peers: incoming'[q] = next <=> incoming[q] = next
    BY <1>3, <1>4, <1>5
  <2>2. outgoing'["in"] = next /\ outgoing'["out"] # next
    BY <1>3, <1>4, <1>5
  <2> QED BY <1>1, <1>2, <1>3, <1>5, <2>1, <2>2, StartsOwn
<1>6. CASE p = "in" /\ Owner[next] = "out"
  <2>1. \A q \in Peers: outgoing'[q] = next <=> outgoing[q] = next
    BY <1>3, <1>4, <1>6
  <2>2. incoming'["in"] = next /\ incoming'["out"] # next
    BY <1>3, <1>4, <1>6
  <2> QED BY <1>1, <1>2, <1>3, <1>6, <2>1, <2>2, StartsReview
<1>7. CASE p = "out"
  <2>1. \A q \in Peers: incoming'[q] = next <=> incoming[q] = next
    BY <1>3, <1>4, <1>7
  <2>2. outgoing'["out"] = next /\ outgoing'["in"] # next
    BY <1>3, <1>4, <1>7
  <2> QED BY <1>1, <1>2, <1>3, <1>7, <2>1, <2>2, StartsQueued
<1> QED BY <1>1, <1>5, <1>6, <1>7 DEF Peers
\* The offer that takes a slot of p was not in one.
LEMMA NextIsNew ==
    ASSUME TypeOK, Inv, NEW p \in Peers, NEW next, NEW inc, NEW out, Frees(p, next, inc, out), next # None
    PROVE  /\ incoming[p] # next /\ outgoing[p] # next
           /\ p = "in" => next \notin accepted
<1>1. next \in Offers /\ OfferInv(next) /\ Owner[next] \in Peers
  BY FreedPlaces, OfferFacts DEF Inv
<1>2. (p = "in" /\ InQueue(coordQueue, next)) \/ (p = "out" /\ InQueue(outQueue, next) /\ Owner[next] = "out")
  BY FreedPlaces
<1>3. InQueue(coordQueue, next) => review[next] = "none" /\ next \notin accepted
  BY <1>1 DEF OfferInv, DecidedOnce
<1> QED BY <1>1, <1>2, <1>3 DEF OfferInv, SenderKeeps, ReceiverKeeps, OwnQueue, Receiver, Other, Peers

\* The coordinator's slots and flags after TakeSlot.
LEMMA FreedCoordinator ==
    ASSUME TypeOK, Inv, NEW p \in Peers, NEW next, NEW inc, NEW out, Frees(p, next, inc, out),
           UNCHANGED accepted, next # None /\ Owner[next] = "in" => run'[next] = "submit",
           p = "out" => \A o \in Offers: outgoing["in"] = o => run'[o] = run[o]
    PROVE  CoordinatorInv'
<1>1. CASE p = "in"
  <2>1. /\ incoming'["in"] = (IF next # None /\ Owner[next] # "in" THEN next ELSE None)
        /\ outgoing'["in"] = (IF next # None /\ Owner[next] = "in" THEN next ELSE None)
        /\ coordActive' = (next # None)
        /\ transferActive'["in"] = FALSE
    BY <1>1 DEF Frees, TakeSlot, TypeOK
  <2>2. coordQueue' # << >> => next # None
    <3>1. CASE coordQueue = << >>
      BY <1>1, <3>1 DEF Frees, TakeSlot, HeadOrNone
    <3>2. CASE coordQueue # << >>
      BY <1>1, <3>2, Tailed, OfferFacts DEF Frees, HeadOrNone, TypeOK
    <3> QED BY <3>1, <3>2
  <2>3. None \notin accepted /\ (next # None => next \notin accepted)
    BY <1>1, NextIsNew, OfferFacts DEF TypeOK
  <2>4. ~(incoming'["in"] \in accepted' \/ (outgoing'["in"] # None /\ run'[outgoing'["in"]] \in Transferring))
    BY <2>1, <2>3 DEF Transferring
  <2> QED BY <2>1, <2>2, <2>4 DEF CoordinatorInv
<1>2. CASE p = "out"
  <2>1. /\ incoming'["in"] = incoming["in"] /\ outgoing'["in"] = outgoing["in"] /\ UNCHANGED <<coordActive, coordQueue>>
        /\ transferActive'["in"] = transferActive["in"]
    BY <1>2 DEF Frees, TakeSlot, TypeOK, Peers
  <2>2. outgoing["in"] # None => run'[outgoing["in"]] = run[outgoing["in"]]
    BY <1>2 DEF TypeOK, Peers
  <2> QED BY <2>1, <2>2 DEF Inv, CoordinatorInv
<1> QED BY <1>1, <1>2 DEF Peers

\* clearOutgoing at the end of runOutgoing.
LEMMA ClearsOutgoing ==
    ASSUME TypeOK, Inv, NEW o \in Offers, run[o] \notin {"none", "done"}, ClearOutgoing(Owner[o], o), UNCHANGED accepted,
           \A q \in Offers: q # o => SameFrames(q) /\ SameRest(q)
    PROVE  /\ SlotTypes' /\ CoordinatorInv'
           /\ \A q \in Offers: q # o => OfferInv(q)'
           /\ run'[o] = "done" /\ review'[o] = review[o] /\ SameQueues(o)
           /\ \A q \in Peers: outgoing'[q] # o /\ (incoming'[q] = o <=> incoming[q] = o)
<1>1. PICK p \in Peers: p = Owner[o]
  BY OfferFacts
<1>2. outgoing[p] = o /\ OfferInv(o) /\ o # None /\ (\A q \in Peers: outgoing[q] = o => q = p)
      /\ (\A q \in Peers: incoming[q] = o => q # p)
  BY <1>1, OfferFacts DEF Inv, OfferInv, SenderKeeps, ReceiverKeeps
<1>3. PICK next: next = NextOffer(p, incoming[p])
  OBVIOUS
<1>4. /\ TakeSlot(p, next, incoming[p], None)
      /\ run' = StartRun([run EXCEPT ![o] = "done"], p, next)
      /\ review' = StartReview(review, p, next)
  BY <1>1, <1>2, <1>3 DEF ClearOutgoing
<1>5. Frees(p, next, incoming[p], None)
  BY <1>2, <1>3, <1>4 DEF Frees, NextOffer, Inv, CoordinatorInv
<1>6. next # None => next \in Offers /\ next # o /\ (p = "out" => Owner[next] = "out")
  BY <1>2, <1>5, NextIsNew, FreedPlaces
<1>7. /\ run' = (IF next # None /\ Owner[next] = p
                 THEN [run EXCEPT ![o] = "done", ![next] = IF p = "in" THEN "submit" ELSE "decision"]
                 ELSE [run EXCEPT ![o] = "done"])
      /\ review' = (IF next # None /\ Owner[next] # p THEN [review EXCEPT ![next] = "waiting"] ELSE review)
  BY <1>4 DEF StartRun, StartReview
<1>8. run'[o] = "done" /\ review'[o] = review[o]
  BY <1>6, <1>7 DEF TypeOK
<1>9. SlotTypes'
  <2>1. run' \in [Offers -> {"none", "submit", "decision", "transfer", "results", "batch", "final", "done"}]
    BY <1>6, <1>7 DEF TypeOK
  <2>2. review' \in [Offers -> {"none", "waiting", "accepting", "rejecting", "done"}]
    BY <1>6, <1>7 DEF TypeOK
  <2> QED BY <1>5, <2>1, <2>2, FreedTypes DEF SlotTypes
<1>10. ASSUME NEW q \in Offers, q # o, q # next PROVE OfferInv(q)'
  <2>1. run'[q] = run[q] /\ review'[q] = review[q]
    BY <1>6, <1>7, <1>10 DEF TypeOK
  <2>2. SameQueues(q)
    BY <1>5, <1>10, FreedPlaces
  <2>3. SameSlots(q)
    BY <1>2, <1>5, <1>10, FreedPlaces, OfferFacts DEF SameSlots
  <2> QED BY <1>10, <2>1, <2>2, <2>3, OfferKept DEF SamePlace, Inv
<1>11. next # None => OfferInv(next)'
  <2>1. next # None => [run EXCEPT ![o] = "done"][next] = run[next] /\ DOMAIN [run EXCEPT ![o] = "done"] = Offers
        /\ DOMAIN review = Offers
    BY <1>6 DEF TypeOK
  <2> QED BY <1>4, <1>5, <1>6, <2>1, NextStarts
<1>12. SameQueues(o) /\ \A q \in Peers: outgoing'[q] # o /\ (incoming'[q] = o <=> incoming[q] = o)
  BY <1>2, <1>5, <1>6, FreedPlaces, OfferFacts
<1>13. CoordinatorInv'
  <2>1. next # None /\ Owner[next] = "in" => run'[next] = "submit"
    BY <1>6, <1>7 DEF TypeOK, Peers
  <2>2. ASSUME p = "out", NEW q \in Offers, outgoing["in"] = q PROVE run'[q] = run[q]
    <3>1. Owner[q] = "in" /\ "in" \in Peers
      BY <2>2 DEF Inv, OfferInv, SenderKeeps, Peers
    <3> QED BY <1>1, <1>6, <1>7, <2>2, <3>1 DEF TypeOK
  <2> QED BY <1>5, <2>1, <2>2, FreedCoordinator
<1>14. ASSUME NEW q \in Offers, q # o PROVE OfferInv(q)'
  <2>1. CASE q = next
    BY <1>11, <2>1, OfferFacts
  <2> QED BY <1>10, <1>14, <2>1
<1> QED BY <1>8, <1>9, <1>12, <1>13, <1>14

\* clearIncoming; reviews is review, but for o.
LEMMA ClearsIncoming ==
    ASSUME TypeOK, Inv, NEW p \in Peers, NEW o \in Offers, incoming[p] = o,
           NEW reviews \in [Offers -> {"none", "waiting", "accepting", "rejecting", "done"}],
           \A q \in Offers: q # o => reviews[q] = review[q],
           ClearIncoming(p, o, reviews), UNCHANGED accepted,
           \A q \in Offers: q # o => SameFrames(q) /\ SameRest(q)
    PROVE  /\ SlotTypes' /\ CoordinatorInv'
           /\ \A q \in Offers: q # o => OfferInv(q)'
           /\ run'[o] = run[o] /\ review'[o] = reviews[o] /\ SameQueues(o)
           /\ \A q \in Peers: incoming'[q] # o /\ (outgoing'[q] = o <=> outgoing[q] = o)
<1>2. OfferInv(o) /\ o # None /\ p = Receiver(o) /\ (\A q \in Peers: incoming[q] = o => q = p)
      /\ (\A q \in Peers: outgoing[q] = o => q # p)
  BY OfferFacts DEF Inv, OfferInv, SenderKeeps, ReceiverKeeps
<1>3. PICK next: next = NextOffer(p, outgoing[p])
  OBVIOUS
<1>4. /\ TakeSlot(p, next, None, outgoing[p])
      /\ run' = StartRun(run, p, next)
      /\ review' = StartReview(reviews, p, next)
  BY <1>2, <1>3 DEF ClearIncoming
<1>5. Frees(p, next, None, outgoing[p])
  BY <1>2, <1>3, <1>4 DEF Frees, NextOffer, Inv, CoordinatorInv
<1>6. next # None => next \in Offers /\ next # o /\ (p = "out" => Owner[next] = "out")
  BY <1>2, <1>5, NextIsNew, FreedPlaces
<1>7. /\ run' = (IF next # None /\ Owner[next] = p
                 THEN [run EXCEPT ![next] = IF p = "in" THEN "submit" ELSE "decision"] ELSE run)
      /\ review' = (IF next # None /\ Owner[next] # p THEN [reviews EXCEPT ![next] = "waiting"] ELSE reviews)
  BY <1>4 DEF StartRun, StartReview
<1>8. run'[o] = run[o] /\ review'[o] = reviews[o]
  BY <1>6, <1>7 DEF TypeOK
<1>9. SlotTypes'
  <2>1. run' \in [Offers -> {"none", "submit", "decision", "transfer", "results", "batch", "final", "done"}]
    BY <1>6, <1>7 DEF TypeOK
  <2>2. review' \in [Offers -> {"none", "waiting", "accepting", "rejecting", "done"}]
    BY <1>6, <1>7
  <2> QED BY <1>5, <2>1, <2>2, FreedTypes DEF SlotTypes
<1>10. ASSUME NEW q \in Offers, q # o, q # next PROVE OfferInv(q)'
  <2>1. run'[q] = run[q] /\ review'[q] = review[q]
    BY <1>6, <1>7, <1>10 DEF TypeOK
  <2>2. SameQueues(q)
    BY <1>5, <1>10, FreedPlaces
  <2>3. SameSlots(q)
    BY <1>2, <1>5, <1>10, FreedPlaces, OfferFacts DEF SameSlots
  <2> QED BY <1>10, <2>1, <2>2, <2>3, OfferKept DEF SamePlace, Inv
<1>11. next # None => OfferInv(next)'
  <2>1. next # None => reviews[next] = review[next] /\ DOMAIN reviews = Offers /\ DOMAIN run = Offers
    BY <1>6 DEF TypeOK
  <2> QED BY <1>4, <1>5, <1>6, <2>1, NextStarts
<1>12. SameQueues(o) /\ \A q \in Peers: incoming'[q] # o /\ (outgoing'[q] = o <=> outgoing[q] = o)
  BY <1>2, <1>5, <1>6, FreedPlaces, OfferFacts
<1>13. CoordinatorInv'
  <2>1. next # None /\ Owner[next] = "in" => run'[next] = "submit"
    BY <1>6, <1>7 DEF TypeOK, Peers
  <2>2. ASSUME p = "out", NEW q \in Offers, outgoing["in"] = q PROVE run'[q] = run[q]
    <3>1. Owner[q] = "in" /\ "in" \in Peers
      BY <2>2 DEF Inv, OfferInv, SenderKeeps, Peers
    <3> QED BY <1>6, <1>7, <2>2, <3>1 DEF TypeOK
  <2> QED BY <1>5, <2>1, <2>2, FreedCoordinator
<1>14. ASSUME NEW q \in Offers, q # o PROVE OfferInv(q)'
  <2>1. CASE q = next
    BY <1>11, <2>1, OfferFacts
  <2> QED BY <1>10, <1>14, <2>1
<1> QED BY <1>8, <1>9, <1>12, <1>13, <1>14
---------------------------------------------------------------------------
(* The steps: the send command                                             *)

RestTypes ==
    /\ wire \in [Peers -> Seq(Frames)]
    /\ accepted \in SUBSET Offers /\ received \in SUBSET Offers
    /\ canceledOut \in SUBSET Offers /\ canceledIn \in SUBSET Offers
    /\ cancelSends \in SUBSET (Peers \X Offers)
    /\ decisionCh \in [Offers -> {"none", "accept", "reject", "full"}]
    /\ resultCh \in [Offers -> Seq({"ok", "canceled"})]
    /\ queuedCh \in [Offers -> {"none", "yes", "no"}]
    /\ command \in [at: {"idle", "send", "queue", "ack"}, offer: Offers \cup {None}]
    /\ handler \in [at: {"idle", "queued", "full"}, offer: Offers \cup {None}]
    /\ sent \in SUBSET Offers /\ refused \in SUBSET Offers
    /\ error \in Errors \cup {"none"}

LEMMA TypesSplit == TypeOK <=> SlotTypes /\ RestTypes
BY DEF TypeOK, SlotTypes, RestTypes

\* The same for the state after a step.
LEMMA TypesSplitNext == SlotTypes' /\ RestTypes' => TypeOK'
BY DEF TypeOK, SlotTypes, RestTypes

\* An offer that was not sent is nowhere.
LEMMA NotSent ==
    ASSUME NEW o \in Offers, OfferInv(o), o \notin sent
    PROVE  /\ run[o] = "none" /\ review[o] = "none" /\ Undecided(o) /\ ~InQueue(OwnQueue(o), o)
           /\ outgoing[Owner[o]] # o /\ incoming[Receiver(o)] # o /\ o \notin refused /\ o \notin canceledOut
           /\ o \notin accepted /\ handler.offer # o /\ ~ToReceiver(o, "offer") /\ SubmitsLater(o)
           /\ ~InQueue(coordQueue, o) /\ ~InQueue(outQueue, o)
           /\ command.at \in {"send", "queue"} => command.offer # o
<1>1. Owner[o] \in Peers
  BY OfferFacts
<1>2. run[o] = "none" /\ o \notin refused /\ o \notin canceledOut /\ ~InQueue(OwnQueue(o), o) /\ outgoing[Owner[o]] # o
  BY DEF OfferInv, SenderKeeps
<1>3. SubmitsLater(o)
  BY <1>2 DEF SubmitsLater
<1>4. /\ ~ToReceiver(o, "offer") /\ handler.offer # o /\ incoming[Receiver(o)] # o /\ review[o] = "none" /\ Undecided(o)
      /\ Owner[o] = "out" => ~InQueue(coordQueue, o)
  BY <1>3 DEF OfferInv, ReceiverKeeps
<1>5. o \notin accepted
  BY <1>4 DEF OfferInv, DecidedOnce
<1>6. ~InQueue(coordQueue, o) /\ ~InQueue(outQueue, o)
  BY <1>1, <1>2, <1>4 DEF OfferInv, SenderKeeps, OwnQueue, Peers
<1>7. command.at \in {"send", "queue"} => command.offer # o
  BY DEF OfferInv, SenderKeeps
<1> QED BY <1>2, <1>3, <1>4, <1>5, <1>6, <1>7
\* sendPaths of the coordinator.
LEMMA SendInboundInv ==
    ASSUME TypeOK, Inv, Open, NEW o \in Offers, SendInbound(o)
    PROVE  TypeOK' /\ Inv'
<1>1. /\ o \notin sent /\ Owner[o] = "in" /\ sent' = sent \cup {o} /\ Owner[o] \in Peers /\ "in" \in Peers /\ "out" \in Peers
      /\ Receiver(o) = "out" /\ OfferInv(o) /\ o # None
  BY OfferFacts DEF SendInbound, NextToSend, Inv, Peers, Other
<1>2. /\ UNCHANGED <<offerVars, channelVars, wire, command, handler, error, incoming, outQueue, transferActive, review>>
      /\ \/ /\ refused' = refused \cup {o} /\ UNCHANGED <<coordQueue, coordActive, outgoing, run>>
         \/ /\ UNCHANGED <<refused, coordActive, outgoing, run>> /\ coordQueue' = Append(coordQueue, o)
            /\ ~QueueFull(coordQueue) /\ coordActive
         \/ /\ UNCHANGED <<refused, coordQueue>> /\ coordQueue = << >> /\ coordActive' = TRUE /\ ~coordActive
            /\ outgoing' = [outgoing EXCEPT !["in"] = o] /\ run' = [run EXCEPT ![o] = "submit"]
  <2>1. ~coordActive => coordQueue = << >>
    BY DEF Inv, CoordinatorInv
  <2>2. coordQueue = << >> => Head(Append(coordQueue, o)) = o /\ Tail(Append(coordQueue, o)) = coordQueue
    OBVIOUS
  <2> QED BY <2>1, <2>2 DEF SendInbound, CoordinatorBusy, slotVars, goroutineVars
<1>3. Routed' /\ \A q \in Offers: SameFrames(q)
  BY <1>2, Untouched, OtherFrames DEF Inv
<1>4. \A q \in Offers: q # o => SameRest(q)
  BY <1>1, <1>2 DEF SameRest, offerVars, channelVars
<1>5. coordQueue \in Seq(Offers)
  BY DEF TypeOK
<1>6. \A q \in Offers: q # o => SameQueues(q)
  <2>1. CASE coordQueue' = coordQueue
    BY <1>2, <2>1 DEF SameQueues
  <2>2. CASE coordQueue' = Append(coordQueue, o)
    <3>1. \A q \in Offers: q # o => /\ InQueue(coordQueue, q)' <=> InQueue(coordQueue, q)
                                    /\ Once(coordQueue, q) => Once(coordQueue, q)'
      BY <1>5, <2>2, Appended
    <3> QED BY <1>2, <3>1 DEF SameQueues
  <2> QED BY <1>2, <2>1, <2>2
<1>7. /\ run[o] = "none" /\ review[o] = "none" /\ Undecided(o) /\ outgoing["in"] # o /\ incoming["out"] # o
      /\ o \notin refused /\ o \notin canceledOut /\ o \notin accepted /\ handler.offer # o
      /\ ~ToReceiver(o, "offer") /\ ~InQueue(coordQueue, o) /\ ~InQueue(outQueue, o)
      /\ (command.at \in {"send", "queue"} => command.offer # o) /\ outgoing["out"] # o /\ incoming["in"] # o
  BY <1>1, NotSent DEF OfferInv, SenderKeeps, ReceiverKeeps
<1>8. (incoming["in"] = None /\ outgoing["in"] = None) \/ coordActive
  BY DEF Inv, CoordinatorInv
<1>9. ASSUME NEW q \in Offers, q # o PROVE OfferInv(q)'
  <2>1. run'[q] = run[q] /\ review'[q] = review[q]
    BY <1>2, <1>9 DEF TypeOK
  <2>2. SameSlots(q)
    BY <1>2, <1>8, <1>9, OfferFacts DEF SameSlots, TypeOK
  <2> QED BY <1>3, <1>4, <1>6, <1>9, <2>1, <2>2, OfferKept DEF SamePlace, Inv
<1>10. OfferInv(o)'
  <2>0. /\ SenderKeeps(o) /\ ReceiverKeeps(o) /\ DecidedOnce(o) /\ InTransfer(o) /\ ResultsInOrder(o)
        /\ CancelInOrder(o)
    BY <1>1 DEF OfferInv
  <2>1. /\ Once(coordQueue, o)' /\ Once(outQueue, o)' /\ ~InQueue(outQueue, o)'
        /\ \/ o \in refused' /\ ~InQueue(coordQueue, o)' /\ run'[o] = "none" /\ outgoing'["in"] # o
           \/ o \notin refused' /\ InQueue(coordQueue, o)' /\ run'[o] = "none" /\ outgoing'["in"] # o
           \/ o \notin refused' /\ ~InQueue(coordQueue, o)' /\ run'[o] = "submit" /\ outgoing'["in"] = o
    <3>1. Once(coordQueue, o) /\ Once(outQueue, o)
      BY <2>0 DEF SenderKeeps
    <3>2. CASE coordQueue' = Append(coordQueue, o)
      <4>1. Once(coordQueue, o)' /\ InQueue(coordQueue, o)'
        BY <1>5, <1>7, <3>1, <3>2, Appended
      <4>2. coordQueue' # coordQueue
        BY <1>7, <4>1
      <4> QED BY <1>2, <1>7, <3>1, <4>1, <4>2
    <3>3. CASE coordQueue' = coordQueue
      <4>1. Once(coordQueue, o)' /\ ~InQueue(coordQueue, o)'
        BY <1>7, <3>1, <3>3
      <4>2. coordQueue' # Append(coordQueue, o)
        <5>1. Len(Append(coordQueue, o)) = Len(coordQueue) + 1 /\ Len(coordQueue) \in Nat
          BY <1>5
        <5> QED BY <3>3, <5>1
      <4> QED BY <1>1, <1>2, <1>7, <3>1, <4>1, <4>2 DEF TypeOK
    <3> QED BY <1>2, <3>2, <3>3
  <2>2. o \in sent' /\ outgoing'["out"] # o
    BY <1>1, <1>2, <1>7 DEF TypeOK
  <2>3. SenderKeeps(o)'
    BY <1>1, <1>2, <1>7, <2>0, <2>1, <2>2 DEF SenderKeeps, OwnQueue, offerVars, Peers
  <2>4. Undecided(o)' /\ OneDecision(o)' /\ ~Answered(o)'
    BY <1>2, <1>3, <1>7, <2>0, <2>1, SameDecision DEF Undecided, DecidedOnce, channelVars
  <2>5. ReceiverKeeps(o)'
    BY <1>1, <1>2, <1>3, <1>7, <2>0, <2>1, <2>4, SameViews DEF ReceiverKeeps, HandlerHas
  <2>6. DecidedOnce(o)'
    BY <1>1, <1>2, <1>3, <1>7, <2>0, <2>1, <2>4, SameViews
    DEF DecidedOnce, HandlerHas, Transferring, Undecided, Answered, Decisions, offerVars
  <2>7. InTransfer(o)'
    BY <1>1, <1>2, <1>3, <1>7, <2>0, <2>1, SameViews DEF InTransfer, Active, ResultPending, offerVars, channelVars
  <2>8. ResultsInOrder(o)' /\ CancelInOrder(o)'
    BY <1>1, <1>2, <1>3, <2>0, SameViews DEF ResultsInOrder, CancelInOrder, offerVars, channelVars
  <2> QED BY <2>3, <2>5, <2>6, <2>7, <2>8 DEF OfferInv
<1>11. CoordinatorInv'
  <2>0. CoordinatorInv /\ accepted' = accepted /\ transferActive' = transferActive /\ incoming' = incoming
    BY <1>2 DEF Inv, offerVars
  <2>1. CASE UNCHANGED <<coordActive, outgoing, run>>
    BY <1>2, <2>0, <2>1 DEF CoordinatorInv
  <2>2. CASE /\ UNCHANGED <<refused, coordQueue>> /\ coordQueue = << >> /\ coordActive' = TRUE /\ ~coordActive
             /\ outgoing' = [outgoing EXCEPT !["in"] = o] /\ run' = [run EXCEPT ![o] = "submit"]
    <3>1. outgoing'["in"] = o /\ run'[o] = "submit"
      BY <1>1, <2>2 DEF TypeOK
    <3>2. ~transferActive["in"] /\ incoming["in"] = None /\ None \notin accepted
      BY <1>8, <2>0, <2>2, OfferFacts DEF CoordinatorInv, TypeOK
    <3> QED BY <1>1, <2>0, <2>2, <3>1, <3>2 DEF CoordinatorInv, Transferring
  <2> QED BY <1>2, <2>1, <2>2
<1>12. ErrorsExplained'
  BY <1>2 DEF Open, ErrorsExplained
<1>13. SlotTypes'
  <2>1. coordQueue' \in Seq(Offers) /\ Len(coordQueue') <= MaxQueued
    <3>1. ~QueueFull(coordQueue) => Len(coordQueue) + 1 <= MaxQueued
      BY <1>5, MaxQueuedAssumption DEF QueueFull
    <3>2. CASE coordQueue' = coordQueue
      BY <3>2 DEF TypeOK
    <3>3. CASE coordQueue' = Append(coordQueue, o) /\ ~QueueFull(coordQueue)
      BY <1>5, <3>1, <3>3, Appended
    <3> QED BY <1>2, <3>2, <3>3
  <2>2. coordActive' \in BOOLEAN
    BY <1>2 DEF TypeOK
  <2>3. outgoing' \in [Peers -> Offers \cup {None}]
    <3>1. outgoing \in [Peers -> Offers \cup {None}]
      BY DEF TypeOK
    <3>2. outgoing' = outgoing \/ outgoing' = [outgoing EXCEPT !["in"] = o]
      BY <1>2
    <3> QED BY <3>1, <3>2
  <2>4. run' \in [Offers -> {"none", "submit", "decision", "transfer", "results", "batch", "final", "done"}]
    <3>1. run \in [Offers -> {"none", "submit", "decision", "transfer", "results", "batch", "final", "done"}]
      BY DEF TypeOK
    <3>2. run' = run \/ run' = [run EXCEPT ![o] = "submit"]
      BY <1>2
    <3> QED BY <3>1, <3>2
  <2> QED BY <1>2, <2>1, <2>2, <2>3, <2>4 DEF SlotTypes, TypeOK
<1>14. RestTypes'
  BY <1>1, <1>2 DEF RestTypes, TypeOK, offerVars, channelVars
<1>15. LoopsInv'
  BY <1>2 DEF Inv, LoopsInv
<1> QED BY <1>3, <1>9, <1>10, <1>11, <1>12, <1>13, <1>14, <1>15, TypesSplitNext DEF Inv
\* The frames of o of one kind that a step leaves alone.
ReceiverSame(o, t) ==
    /\ ToReceiver(o, t)' <=> ToReceiver(o, t)
    /\ Once(wire[Receiver(o)], Frame(t, o)) => Once(wire[Receiver(o)], Frame(t, o))'
CancelOrderSame(o) ==
    Before(wire[Receiver(o)], Frame("files", o), Frame("cancel", o))
        => Before(wire[Receiver(o)], Frame("files", o), Frame("cancel", o))'
DecisionsSame(o) ==
    \A v \in Decisions:
        /\ Decided(o, v)' <=> Decided(o, v)
        /\ Once(wire[Owner[o]], Answer("decision", o, v)) => Once(wire[Owner[o]], Answer("decision", o, v))'
ResultsSame(o) ==
    /\ \A v \in {"ok", "canceled"}:
        /\ ResultSent(o, v)' <=> ResultSent(o, v)
        /\ Once(wire[Owner[o]], Answer("result", o, v)) => Once(wire[Owner[o]], Answer("result", o, v))'
    /\ Before(wire[Owner[o]], Answer("result", o, "ok"), Answer("result", o, "canceled"))
        => Before(wire[Owner[o]], Answer("result", o, "ok"), Answer("result", o, "canceled"))'

LEMMA ViewsKept ==
    ASSUME NEW o \in Offers, NEW T, NEW P, WireEffect(T, P)
    PROVE  /\ \A t \in {"offer", "files", "batch-complete", "cancel"}:
                <<Receiver(o), Frame(t, o)>> \notin T \cup P => ReceiverSame(o, t)
           /\ <<Receiver(o), Frame("files", o)>> \notin P => CancelOrderSame(o)
           /\ (\A x \in Frames: <<Owner[o], x>> \in T \cup P => x.type # "decision" \/ x.offer # o)
                => DecisionsSame(o)
           /\ (\A x \in Frames: <<Owner[o], x>> \in T \cup P => x.type # "result" \/ x.offer # o)
                => ResultsSame(o)
<1>1. PICK p \in Peers, r \in Peers: p = Owner[o] /\ r = Receiver(o)
  BY OfferFacts
<1>2. /\ \A t \in {"offer", "files", "batch-complete", "cancel"}: Frame(t, o) \in Frames
      /\ \A t \in {"decision", "result"}, v \in Verdicts:
            Answer(t, o, v) \in Frames /\ Answer(t, o, v).offer = o /\ Answer(t, o, v).type = t
  BY FrameFields
<1>3. \A v \in Decisions: Answer("decision", o, v) \in Frames /\ Answer("decision", o, v).offer = o
                          /\ Answer("decision", o, v).type = "decision"
  BY <1>2 DEF Decisions, Verdicts
<1>4. \A v \in {"ok", "canceled"}: Answer("result", o, v) \in Frames /\ Answer("result", o, v).offer = o
                                   /\ Answer("result", o, v).type = "result"
  BY <1>2 DEF Verdicts
<1>5. ASSUME NEW t \in {"offer", "files", "batch-complete", "cancel"}, <<r, Frame(t, o)>> \notin T \cup P
      PROVE  /\ InQueue(wire[r], Frame(t, o))' <=> InQueue(wire[r], Frame(t, o))
             /\ Once(wire[r], Frame(t, o)) => Once(wire[r], Frame(t, o))'
  BY <1>2, <1>5 DEF WireEffect
<1>6. ASSUME <<r, Frame("files", o)>> \notin P
      PROVE  Before(wire[r], Frame("files", o), Frame("cancel", o))
                => Before(wire[r], Frame("files", o), Frame("cancel", o))'
  BY <1>2, <1>6 DEF WireEffect
<1>7. ASSUME \A x \in Frames: <<p, x>> \in T \cup P => x.type # "decision" \/ x.offer # o, NEW v \in Decisions
      PROVE  /\ InQueue(wire[p], Answer("decision", o, v))' <=> InQueue(wire[p], Answer("decision", o, v))
             /\ Once(wire[p], Answer("decision", o, v)) => Once(wire[p], Answer("decision", o, v))'
  <2>1. <<p, Answer("decision", o, v)>> \notin T \cup P
    BY <1>3, <1>7
  <2> QED BY <1>3, <2>1 DEF WireEffect
<1>8. ASSUME \A x \in Frames: <<p, x>> \in T \cup P => x.type # "result" \/ x.offer # o, NEW v \in {"ok", "canceled"}
      PROVE  /\ InQueue(wire[p], Answer("result", o, v))' <=> InQueue(wire[p], Answer("result", o, v))
             /\ Once(wire[p], Answer("result", o, v)) => Once(wire[p], Answer("result", o, v))'
             /\ Before(wire[p], Answer("result", o, v), Answer("result", o, "canceled"))
                => Before(wire[p], Answer("result", o, v), Answer("result", o, "canceled"))'
  <2>1. <<p, Answer("result", o, v)>> \notin T \cup P
    BY <1>4, <1>8
  <2> QED BY <1>4, <2>1 DEF WireEffect
<1>9. (\A x \in Frames: <<p, x>> \in T \cup P => x.type # "decision" \/ x.offer # o) => DecisionsSame(o)
  BY <1>1, <1>7 DEF DecisionsSame, Decided
<1>10. (\A x \in Frames: <<p, x>> \in T \cup P => x.type # "result" \/ x.offer # o) => ResultsSame(o)
  BY <1>1, <1>8 DEF ResultsSame, ResultSent
<1> QED BY <1>1, <1>5, <1>6, <1>9, <1>10 DEF ReceiverSame, CancelOrderSame, ToReceiver

\* A step that takes and puts frames of some types only leaves the others alone.
LEMMA TypedViews ==
    ASSUME NEW o \in Offers, NEW T, NEW P, WireEffect(T, P), NEW types,
           \A p, x: <<p, x>> \in T \cup P => x.type \in types
    PROVE  /\ \A t \in {"offer", "files", "batch-complete", "cancel"}: t \notin types => ReceiverSame(o, t)
           /\ "files" \notin types => CancelOrderSame(o)
           /\ "decision" \notin types => DecisionsSame(o)
           /\ "result" \notin types => ResultsSame(o)
<1>1. \A t \in {"offer", "files", "batch-complete", "cancel"}: Frame(t, o).type = t
  BY DEF Frame
<1>2. \A t \in {"offer", "files", "batch-complete", "cancel"}:
            t \notin types => <<Receiver(o), Frame(t, o)>> \notin T \cup P
  BY <1>1
<1>3. "files" \notin types => <<Receiver(o), Frame("files", o)>> \notin P
  BY <1>2
<1>4. \A t: t \notin types => \A x \in Frames: <<Owner[o], x>> \in T \cup P => x.type # t \/ x.offer # o
  OBVIOUS
<1> QED BY <1>2, <1>3, <1>4, ViewsKept

LEMMA PutViews ==
    ASSUME NEW o \in Offers, NEW p, NEW x, WireEffect({}, {<<p, x>>})
    PROVE  /\ \A t \in {"offer", "files", "batch-complete", "cancel"}: t # x.type => ReceiverSame(o, t)
           /\ "files" # x.type => CancelOrderSame(o)
           /\ "decision" # x.type => DecisionsSame(o)
           /\ "result" # x.type => ResultsSame(o)
<1>0. PICK T, P, types: T = {} /\ P = {<<p, x>>} /\ types = {x.type}
  OBVIOUS
<1>1. WireEffect(T, P) /\ \A r, y: <<r, y>> \in T \cup P => y.type \in types
  BY <1>0
<1>2. \A t: t # x.type => t \notin types
  BY <1>0
<1> QED BY <1>1, <1>2, TypedViews

LEMMA TakeViews ==
    ASSUME NEW o \in Offers, NEW p, NEW x, WireEffect({<<p, x>>}, {})
    PROVE  /\ \A t \in {"offer", "files", "batch-complete", "cancel"}: t # x.type => ReceiverSame(o, t)
           /\ CancelOrderSame(o)
           /\ "decision" # x.type => DecisionsSame(o)
           /\ "result" # x.type => ResultsSame(o)
<1>0. PICK T, P, types: T = {<<p, x>>} /\ P = {} /\ types = {x.type}
  OBVIOUS
<1>1. WireEffect(T, P) /\ \A r, y: <<r, y>> \in T \cup P => y.type \in types
  BY <1>0
<1>2. \A t: t # x.type => t \notin types
  BY <1>0
<1>3. <<Receiver(o), Frame("files", o)>> \notin P
  BY <1>0
<1>4. CancelOrderSame(o)
  BY <1>1, <1>3, ViewsKept
<1> QED BY <1>1, <1>2, <1>4, TypedViews

LEMMA TakePutViews ==
    ASSUME NEW o \in Offers, NEW p, NEW x, NEW r, NEW y, WireEffect({<<p, x>>}, {<<r, y>>})
    PROVE  /\ \A t \in {"offer", "files", "batch-complete", "cancel"}: t \notin {x.type, y.type} => ReceiverSame(o, t)
           /\ "files" # y.type => CancelOrderSame(o)
           /\ "decision" \notin {x.type, y.type} => DecisionsSame(o)
           /\ "result" \notin {x.type, y.type} => ResultsSame(o)
<1>0. PICK T, P, types: T = {<<p, x>>} /\ P = {<<r, y>>} /\ types = {x.type, y.type}
  OBVIOUS
<1>1. WireEffect(T, P) /\ \A q, z: <<q, z>> \in T \cup P => z.type \in types
  BY <1>0
<1>2. "files" # y.type => CancelOrderSame(o)
  <2>1. Frame("files", o).type = "files"
    BY DEF Frame
  <2>2. "files" # y.type => <<Receiver(o), Frame("files", o)>> \notin P
    BY <1>0, <2>1
  <2> QED BY <1>1, <2>2, ViewsKept
<1> QED BY <1>0, <1>1, <1>2, TypedViews

LEMMA DecisionKept ==
    ASSUME NEW o \in Offers, DecisionsSame(o), decisionCh'[o] = decisionCh[o], OneDecision(o)
    PROVE  OneDecision(o)' /\ (Answered(o)' <=> Answered(o))
BY DEF DecisionsSame, OneDecision, Answered

LEMMA ResultsKept ==
    ASSUME NEW o \in Offers, ResultsSame(o), resultCh'[o] = resultCh[o], ResultsInOrder(o)
    PROVE  ResultsInOrder(o)' /\ \A v \in {"ok", "canceled"}: ResultPending(o, v)' <=> ResultPending(o, v)
BY DEF ResultsSame, ResultsInOrder, ResultPending

\* sendPaths of the other Peer.
LEMMA SendOutboundInv ==
    ASSUME TypeOK, Inv, Open, NEW o \in Offers, SendOutbound(o)
    PROVE  TypeOK' /\ Inv'
<1>1. /\ o \notin sent /\ Owner[o] = "out" /\ sent' = sent \cup {o} /\ Owner[o] \in Peers /\ "in" \in Peers /\ "out" \in Peers
      /\ Receiver(o) = "in" /\ OfferInv(o) /\ o # None /\ command.at = "idle"
  BY OfferFacts DEF SendOutbound, NextToSend, Inv, Peers, Other, Idle
<1>2. /\ UNCHANGED <<offerVars, channelVars, wire, handler, error, incoming, coordQueue, coordActive, transferActive,
                     run, review>>
      /\ \/ /\ refused' = refused \cup {o} /\ UNCHANGED <<outQueue, outgoing, command>>
         \/ /\ UNCHANGED <<refused, outgoing>> /\ outQueue' = Append(outQueue, o) /\ ~QueueFull(outQueue)
            /\ command' = [at |-> "queue", offer |-> o]
         \/ /\ UNCHANGED <<refused, outQueue>> /\ outgoing["out"] = None
            /\ outgoing' = [outgoing EXCEPT !["out"] = o] /\ command' = [at |-> "send", offer |-> o]
  BY DEF SendOutbound, goroutineVars
<1>3. Routed' /\ \A q \in Offers: SameFrames(q)
  BY <1>2, Untouched, OtherFrames DEF Inv
<1>4. /\ command' = command \/ (command'.offer = o /\ command'.at \in {"send", "queue"})
      /\ command' \in [at: {"idle", "send", "queue", "ack"}, offer: Offers \cup {None}]
  BY <1>2 DEF TypeOK
<1>5. \A q \in Offers: q # o => SameRest(q)
  BY <1>1, <1>2, <1>4 DEF SameRest, offerVars, channelVars
<1>6. outQueue \in Seq(Offers)
  BY DEF TypeOK
<1>7. \A q \in Offers: q # o => SameQueues(q)
  <2>1. CASE outQueue' = outQueue
    BY <1>2, <2>1 DEF SameQueues
  <2>2. CASE outQueue' = Append(outQueue, o)
    <3>1. \A q \in Offers: q # o => /\ InQueue(outQueue, q)' <=> InQueue(outQueue, q)
                                    /\ Once(outQueue, q) => Once(outQueue, q)'
      BY <1>6, <2>2, Appended
    <3> QED BY <1>2, <3>1 DEF SameQueues
  <2> QED BY <1>2, <2>1, <2>2
<1>8. /\ run[o] = "none" /\ review[o] = "none" /\ Undecided(o) /\ outgoing["out"] # o /\ incoming["in"] # o
      /\ o \notin refused /\ o \notin canceledOut /\ o \notin accepted /\ handler.offer # o
      /\ ~ToReceiver(o, "offer") /\ ~InQueue(coordQueue, o) /\ ~InQueue(outQueue, o)
      /\ outgoing["in"] # o /\ incoming["out"] # o
  BY <1>1, NotSent DEF OfferInv, SenderKeeps, ReceiverKeeps
<1>9. ASSUME NEW q \in Offers, q # o PROVE OfferInv(q)'
  <2>1. SameSlots(q)
    BY <1>2, <1>9, OfferFacts DEF SameSlots, TypeOK
  <2> QED BY <1>2, <1>3, <1>5, <1>7, <1>9, <2>1, OfferKept DEF SamePlace, Inv
<1>10. OfferInv(o)'
  <2>0. /\ SenderKeeps(o) /\ ReceiverKeeps(o) /\ DecidedOnce(o) /\ InTransfer(o) /\ ResultsInOrder(o)
        /\ CancelInOrder(o)
    BY <1>1 DEF OfferInv
  <2>1. /\ Once(coordQueue, o)' /\ Once(outQueue, o)' /\ ~InQueue(coordQueue, o)'
        /\ \/ o \in refused' /\ ~InQueue(outQueue, o)' /\ outgoing'["out"] # o /\ command' = command
           \/ o \notin refused' /\ InQueue(outQueue, o)' /\ outgoing'["out"] # o
              /\ command'.at = "queue" /\ command'.offer = o
           \/ o \notin refused' /\ ~InQueue(outQueue, o)' /\ outgoing'["out"] = o
              /\ command'.at = "send" /\ command'.offer = o
    <3>1. Once(coordQueue, o) /\ Once(outQueue, o)
      BY <2>0 DEF SenderKeeps
    <3>2. CASE outQueue' = Append(outQueue, o)
      <4>1. Once(outQueue, o)' /\ InQueue(outQueue, o)'
        BY <1>6, <1>8, <3>1, <3>2, Appended
      <4>2. outQueue' # outQueue
        BY <1>8, <4>1
      <4> QED BY <1>2, <1>8, <3>1, <4>1, <4>2
    <3>3. CASE outQueue' = outQueue
      <4>1. Once(outQueue, o)' /\ ~InQueue(outQueue, o)'
        BY <1>8, <3>1, <3>3
      <4>2. outQueue' # Append(outQueue, o)
        <5>1. Len(Append(outQueue, o)) = Len(outQueue) + 1 /\ Len(outQueue) \in Nat
          BY <1>6
        <5> QED BY <3>3, <5>1
      <4> QED BY <1>1, <1>2, <1>8, <3>1, <4>1, <4>2 DEF TypeOK
    <3> QED BY <1>2, <3>2, <3>3
  <2>2. o \in sent' /\ outgoing'["in"] # o
    BY <1>1, <1>2, <1>8 DEF TypeOK
  <2>3. SenderKeeps(o)'
    BY <1>1, <1>2, <1>8, <2>0, <2>1, <2>2 DEF SenderKeeps, OwnQueue, offerVars, Peers
  <2>4. Undecided(o)' /\ OneDecision(o)' /\ ~Answered(o)'
    BY <1>2, <1>3, <1>8, <2>0, SameDecision DEF Undecided, DecidedOnce, channelVars
  <2>5. ReceiverKeeps(o)'
    BY <1>1, <1>2, <1>3, <1>8, <2>0, <2>1, <2>4, SameViews DEF ReceiverKeeps, HandlerHas
  <2>6. DecidedOnce(o)'
    BY <1>1, <1>2, <1>3, <1>8, <2>0, <2>1, <2>4, SameViews
    DEF DecidedOnce, HandlerHas, Transferring, Undecided, Answered, Decisions, offerVars
  <2>7. InTransfer(o)'
    BY <1>1, <1>2, <1>3, <1>8, <2>0, <2>1, SameViews DEF InTransfer, Active, ResultPending, offerVars, channelVars
  <2>8. ResultsInOrder(o)' /\ CancelInOrder(o)'
    BY <1>1, <1>2, <1>3, <2>0, SameViews DEF ResultsInOrder, CancelInOrder, offerVars, channelVars
  <2> QED BY <2>3, <2>5, <2>6, <2>7, <2>8 DEF OfferInv
<1>11. CoordinatorInv'
  <2>0. CoordinatorInv /\ accepted' = accepted /\ outgoing'["in"] = outgoing["in"]
    BY <1>2 DEF Inv, offerVars, TypeOK, Peers
  <2> QED BY <1>2, <2>0 DEF CoordinatorInv
<1>12. ErrorsExplained'
  BY <1>2 DEF Open, ErrorsExplained
<1>13. SlotTypes'
  <2>1. outQueue' \in Seq(Offers) /\ Len(outQueue') <= MaxQueued
    <3>1. ~QueueFull(outQueue) => Len(outQueue) + 1 <= MaxQueued
      BY <1>6, MaxQueuedAssumption DEF QueueFull
    <3>2. CASE outQueue' = outQueue
      BY <3>2 DEF TypeOK
    <3>3. CASE outQueue' = Append(outQueue, o) /\ ~QueueFull(outQueue)
      BY <1>6, <3>1, <3>3, Appended
    <3> QED BY <1>2, <3>2, <3>3
  <2>2. outgoing' \in [Peers -> Offers \cup {None}]
    <3>1. outgoing' = outgoing \/ outgoing' = [outgoing EXCEPT !["out"] = o]
      BY <1>2
    <3>2. outgoing \in [Peers -> Offers \cup {None}]
      BY DEF TypeOK
    <3> QED BY <3>1, <3>2
  <2> QED BY <1>2, <2>1, <2>2 DEF SlotTypes, TypeOK
<1>14. RestTypes'
  BY <1>1, <1>2, <1>4 DEF RestTypes, TypeOK, offerVars, channelVars
<1>15. LoopsInv'
  BY <1>2, <1>4 DEF Inv, LoopsInv
<1> QED BY <1>3, <1>9, <1>10, <1>11, <1>12, <1>13, <1>14, <1>15, TypesSplitNext DEF Inv
\* A frame of o that is put on a wire is a frame for the Peer at its end.
LEMMA OwnFrames ==
    ASSUME NEW o \in Offers
    PROVE  /\ \A t \in {"offer", "files", "batch-complete", "cancel"}: Frame(t, o) \in FramesTo(Other(Owner[o]))
           /\ Frame("cancel", o) \in FramesTo(Owner[o]) /\ Frame("queued", o) \in FramesTo(Owner[o])
           /\ \A v \in Decisions: Answer("decision", o, v) \in FramesTo(Owner[o])
           /\ \A v \in {"ok", "canceled"}: Answer("result", o, v) \in FramesTo(Owner[o])
<1>1. Other(Owner[o]) # Owner[o]
  BY OfferFacts
<1>2. \A t \in {"offer", "files", "batch-complete", "cancel", "queued"}: Frame(t, o) \in Frames
  BY FrameFields
<1>3. /\ \A v \in Decisions: Answer("decision", o, v) \in Frames
      /\ \A v \in {"ok", "canceled"}: Answer("result", o, v) \in Frames
  BY FrameFields DEF Decisions, Verdicts
<1> QED BY <1>1, <1>2, <1>3, FrameFields DEF FramesTo

\* A step that does not move the offers keeps the coordinator's part.
LEMMA CoordinatorKept ==
    ASSUME TypeOK, Inv, UNCHANGED <<coordActive, coordQueue>>,
           incoming'["in"] = incoming["in"], outgoing'["in"] = outgoing["in"],
           transferActive'["in"] = transferActive["in"],
           incoming["in"] \in accepted' <=> incoming["in"] \in accepted,
           outgoing["in"] # None => (run'[outgoing["in"]] \in Transferring <=> run[outgoing["in"]] \in Transferring)
    PROVE  CoordinatorInv'
BY DEF Inv, CoordinatorInv

\* sendManifest from the input loop of the other Peer.
LEMMA SendManifestInv ==
    ASSUME TypeOK, Inv, Open, SendManifest
    PROVE  TypeOK' /\ Inv'
<1>1. PICK o: o = command.offer
  OBVIOUS
<1>2. /\ UNCHANGED <<slotVars, review, offerVars, channelVars, handler, sent, refused, error>>
      /\ Send("out", Frame("offer", o)) /\ command.at \in {"send", "queue"}
      /\ run' = (IF command.at = "send" THEN [run EXCEPT ![o] = "decision"] ELSE run)
      /\ command' = (IF command.at = "queue" THEN [at |-> "ack", offer |-> o] ELSE Idle)
  BY <1>1 DEF SendManifest
<1>3. o \in Offers
  BY <1>1, <1>2 DEF Inv, LoopsInv
<1>4. /\ Owner[o] = "out" /\ Receiver(o) = "in" /\ "in" \in Peers /\ "out" \in Peers /\ OfferInv(o) /\ Other("out") = "in"
      /\ o \in sent /\ o \notin refused /\ SubmitsLater(o)
  BY <1>1, <1>2, <1>3 DEF Inv, OfferInv, SenderKeeps, Receiver, Other, Peers, SubmitsLater
<1>5. Routed' /\ wire' \in [Peers -> Seq(Frames)] /\ WireEffect({}, {<<"in", Frame("offer", o)>>})
  BY <1>2, <1>3, <1>4, OwnFrames, Sends DEF Inv
<1>6. Frame("offer", o).offer = o /\ Frame("offer", o).type = "offer" /\ Frame("offer", o) \in Frames
  BY <1>3, FrameFields
<1>7. \A q \in Offers: q # o => SameFrames(q)
  BY <1>5, <1>6, OtherFrames
<1>8. command'.at \notin {"send", "queue"} /\ command' \in [at: {"idle", "send", "queue", "ack"}, offer: Offers \cup {None}]
      /\ (command'.at # "idle" => command'.offer \in Offers)
  BY <1>2, <1>3 DEF Idle
<1>9. ASSUME NEW q \in Offers, q # o PROVE OfferInv(q)'
  <2>1. SameRest(q)
    BY <1>1, <1>2, <1>8, <1>9 DEF SameRest, offerVars, channelVars
  <2>2. SamePlace(q)
    BY <1>2, <1>9 DEF SamePlace, SameSlots, SameQueues, slotVars, TypeOK
  <2> QED BY <1>7, <1>9, <2>1, <2>2, OfferKept DEF Inv
<1>10. OfferInv(o)'
  <2>0. /\ SenderKeeps(o) /\ ReceiverKeeps(o) /\ DecidedOnce(o) /\ InTransfer(o) /\ ResultsInOrder(o)
        /\ CancelInOrder(o)
    BY <1>4 DEF OfferInv
  <2>1. /\ ~ToReceiver(o, "offer") /\ handler.offer # o /\ incoming["in"] # o /\ review[o] = "none" /\ Undecided(o)
        /\ ~InQueue(coordQueue, o)
    BY <1>4, <2>0 DEF ReceiverKeeps
  <2>2. /\ run[o] \in {"none", "decision"} /\ run'[o] \in {"none", "decision"}
        /\ command.at = "send" => run'[o] = "decision"
        /\ command.at # "send" => run'[o] = run[o]
    BY <1>1, <1>2, <1>3, <1>4, <2>0, <2>1 DEF TypeOK, SenderKeeps, Undecided
  <2>3. /\ \A t \in {"files", "batch-complete", "cancel"}: ReceiverSame(o, t)
        /\ CancelOrderSame(o) /\ DecisionsSame(o) /\ ResultsSame(o)
    BY <1>3, <1>5, <1>6, PutViews
  <2>4. ToReceiver(o, "offer")' /\ Once(wire[Receiver(o)], Frame("offer", o))'
    <3>1. ~InQueue(wire["in"], Frame("offer", o)) /\ Once(wire["in"], Frame("offer", o))
      BY <1>4, <2>0, <2>1 DEF ReceiverKeeps, ToReceiver
    <3>2. InQueue(wire["in"], Frame("offer", o))' /\ Once(wire["in"], Frame("offer", o))'
      BY <1>4, <1>5, <1>6, <3>1 DEF WireEffect
    <3> QED BY <1>4, <3>2 DEF ToReceiver
  <2>5. OneDecision(o)' /\ ~Answered(o)' /\ Undecided(o)'
    BY <1>2, <1>3, <2>0, <2>1, <2>2, <2>3, DecisionKept DEF DecidedOnce, Undecided, channelVars
  <2>6. /\ ResultsInOrder(o)' /\ \A v \in {"ok", "canceled"}: ResultPending(o, v)' <=> ResultPending(o, v)
    BY <1>2, <1>3, <2>0, <2>3, ResultsKept DEF channelVars
  <2>7. SenderKeeps(o)'
    BY <1>1, <1>2, <1>4, <1>8, <2>0, <2>2 DEF SenderKeeps, OwnQueue, slotVars, offerVars
  <2>8. ReceiverKeeps(o)'
    BY <1>2, <1>4, <1>8, <2>0, <2>1, <2>4 DEF ReceiverKeeps, SubmitsLater, HandlerHas, slotVars
  <2>9. DecidedOnce(o)'
    BY <1>2, <1>4, <2>0, <2>1, <2>2, <2>5
    DEF DecidedOnce, HandlerHas, Transferring, Answered, Decisions, slotVars, offerVars
  <2>10. InTransfer(o)'
    BY <1>2, <1>4, <2>0, <2>1, <2>2, <2>3, <2>6 DEF InTransfer, ReceiverSame, Active, slotVars, offerVars
  <2>11. CancelInOrder(o)'
    BY <1>2, <2>0, <2>3 DEF CancelInOrder, ReceiverSame, CancelOrderSame, offerVars
  <2> QED BY <2>6, <2>7, <2>8, <2>9, <2>10, <2>11 DEF OfferInv
<1>11. CoordinatorInv'
  <2>1. outgoing["in"] # o
    BY <1>4 DEF OfferInv, SenderKeeps
  <2> QED BY <1>2, <2>1, CoordinatorKept DEF slotVars, offerVars, TypeOK
<1>12. ErrorsExplained' /\ LoopsInv'
  BY <1>2, <1>8 DEF Open, ErrorsExplained, LoopsInv, Inv
<1>13. SlotTypes'
  BY <1>2, <1>3 DEF SlotTypes, TypeOK, slotVars
<1>14. RestTypes'
  BY <1>2, <1>5, <1>8 DEF RestTypes, TypeOK, offerVars, channelVars
<1> QED BY <1>5, <1>9, <1>10, <1>11, <1>12, <1>13, <1>14, TypesSplitNext DEF Inv

\* The input loop takes the acknowledgement.
LEMMA TakeQueuedInv ==
    ASSUME TypeOK, Inv, Open, TakeQueued
    PROVE  TypeOK' /\ Inv'
<1>1. /\ UNCHANGED <<slotVars, goroutineVars, offerVars, decisionCh, resultCh, wire, handler, sent, refused, error>>
      /\ command.at = "ack" /\ command' = Idle /\ queuedCh' = [queuedCh EXCEPT ![command.offer] = "none"]
  BY DEF TakeQueued
<1>2. Routed' /\ \A q \in Offers: SameFrames(q)
  BY <1>1, Untouched, OtherFrames DEF Inv
<1>3. command'.at = "idle" /\ command' \in [at: {"idle", "send", "queue", "ack"}, offer: Offers \cup {None}]
  BY <1>1 DEF Idle
<1>4. ASSUME NEW q \in Offers PROVE OfferInv(q)'
  <2>1. SameRest(q)
    BY <1>1, <1>3, <1>4 DEF SameRest, offerVars
  <2>2. SamePlace(q)
    BY <1>1 DEF SamePlace, SameSlots, SameQueues, slotVars, goroutineVars
  <2> QED BY <1>2, <2>1, <2>2, OfferKept DEF Inv
<1>5. CoordinatorInv'
  BY <1>1, CoordinatorKept DEF slotVars, goroutineVars, offerVars
<1>6. ErrorsExplained' /\ LoopsInv'
  BY <1>1, <1>3 DEF Open, ErrorsExplained, LoopsInv, Inv
<1>7. SlotTypes' /\ RestTypes'
  BY <1>1, <1>3 DEF SlotTypes, RestTypes, TypeOK, slotVars, goroutineVars, offerVars
<1> QED BY <1>2, <1>4, <1>5, <1>6, <1>7, TypesSplitNext DEF Inv
---------------------------------------------------------------------------
(* The steps: runOutgoing                                                  *)

RunPlaces == {"none", "submit", "decision", "transfer", "results", "batch", "final", "done"}

\* A step of runOutgoing that leaves the slots alone.
LEMMA RunStep ==
    ASSUME TypeOK, Inv, Open, NEW o \in Offers, NEW place \in RunPlaces, run' = [run EXCEPT ![o] = place],
           UNCHANGED <<slotVars, review, offerVars, userVars, handler, error, decisionCh, queuedCh>>,
           resultCh' \in [Offers -> Seq({"ok", "canceled"})], \A q \in Offers: q # o => resultCh'[q] = resultCh[q],
           Routed', wire' \in [Peers -> Seq(Frames)], \A q \in Offers: q # o => SameFrames(q),
           run[o] \in Transferring <=> place \in Transferring, OfferInv(o)'
    PROVE  TypeOK' /\ Inv'
<1>1. ASSUME NEW q \in Offers, q # o PROVE OfferInv(q)'
  <2>1. SameRest(q)
    BY <1>1 DEF SameRest, offerVars, userVars
  <2>2. SamePlace(q)
    BY <1>1 DEF SamePlace, SameSlots, SameQueues, slotVars, TypeOK
  <2> QED BY <1>1, <2>1, <2>2, OfferKept DEF Inv
<1>2. CoordinatorInv'
  <2>1. outgoing["in"] # None => (run'[outgoing["in"]] \in Transferring <=> run[outgoing["in"]] \in Transferring)
    BY DEF TypeOK, Peers
  <2> QED BY <2>1, CoordinatorKept DEF slotVars, offerVars
<1>3. ErrorsExplained' /\ LoopsInv'
  BY DEF Open, ErrorsExplained, LoopsInv, Inv, userVars
<1>4. SlotTypes'
  BY DEF SlotTypes, TypeOK, slotVars, RunPlaces
<1>5. RestTypes'
  BY DEF RestTypes, TypeOK, offerVars, userVars
<1> QED BY <1>1, <1>2, <1>3, <1>4, <1>5, TypesSplitNext DEF Inv

LEMMA SubmitManifestInv ==
    ASSUME TypeOK, Inv, Open, NEW o \in Offers, SubmitManifest(o)
    PROVE  TypeOK' /\ Inv'
<1>1. /\ UNCHANGED <<slotVars, review, offerVars, channelVars, userVars, handler, error>>
      /\ run[o] = "submit" /\ Send("in", Frame("offer", o)) /\ run' = [run EXCEPT ![o] = "decision"]
      /\ run'[o] = "decision"
  BY DEF SubmitManifest, TypeOK
<1>2. /\ Owner[o] = "in" /\ Receiver(o) = "out" /\ "in" \in Peers /\ "out" \in Peers /\ OfferInv(o) /\ Other("in") = "out"
      /\ SubmitsLater(o) /\ o \in sent
  BY <1>1 DEF Inv, OfferInv, SenderKeeps, Receiver, Other, Peers, SubmitsLater
<1>3. Routed' /\ wire' \in [Peers -> Seq(Frames)] /\ WireEffect({}, {<<"out", Frame("offer", o)>>})
  BY <1>1, <1>2, OwnFrames, Sends DEF Inv
<1>4. Frame("offer", o).offer = o /\ Frame("offer", o).type = "offer" /\ Frame("offer", o) \in Frames
  BY FrameFields
<1>5. \A q \in Offers: q # o => SameFrames(q)
  BY <1>3, <1>4, OtherFrames
<1>6. OfferInv(o)'
  <2>0. /\ SenderKeeps(o) /\ ReceiverKeeps(o) /\ DecidedOnce(o) /\ InTransfer(o) /\ ResultsInOrder(o)
        /\ CancelInOrder(o)
    BY <1>2 DEF OfferInv
  <2>1. /\ ~ToReceiver(o, "offer") /\ handler.offer # o /\ incoming["out"] # o /\ review[o] = "none" /\ Undecided(o)
        /\ ~InQueue(coordQueue, o) /\ o \notin accepted
    BY <1>1, <1>2, <2>0 DEF ReceiverKeeps, SenderKeeps, OwnQueue, DecidedOnce
  <2>2. /\ \A t \in {"files", "batch-complete", "cancel"}: ReceiverSame(o, t)
        /\ CancelOrderSame(o) /\ DecisionsSame(o) /\ ResultsSame(o)
    BY <1>3, <1>4, PutViews
  <2>3. ToReceiver(o, "offer")' /\ Once(wire[Receiver(o)], Frame("offer", o))'
    <3>1. ~InQueue(wire["out"], Frame("offer", o)) /\ Once(wire["out"], Frame("offer", o))
      BY <1>2, <2>0, <2>1 DEF ReceiverKeeps, ToReceiver
    <3>2. InQueue(wire["out"], Frame("offer", o))' /\ Once(wire["out"], Frame("offer", o))'
      BY <1>2, <1>3, <1>4, <3>1 DEF WireEffect
    <3> QED BY <1>2, <3>2 DEF ToReceiver
  <2>4. OneDecision(o)' /\ ~Answered(o)' /\ Undecided(o)'
    BY <1>1, <2>0, <2>1, <2>2, DecisionKept DEF DecidedOnce, Undecided, channelVars
  <2>5. /\ ResultsInOrder(o)' /\ \A v \in {"ok", "canceled"}: ResultPending(o, v)' <=> ResultPending(o, v)
    BY <1>1, <2>0, <2>2, ResultsKept DEF channelVars
  <2>6. SenderKeeps(o)'
    BY <1>1, <1>2, <2>0 DEF SenderKeeps, OwnQueue, slotVars, offerVars, userVars
  <2>7. ReceiverKeeps(o)'
    BY <1>1, <1>2, <2>0, <2>1, <2>3 DEF ReceiverKeeps, SubmitsLater, HandlerHas, slotVars
  <2>8. DecidedOnce(o)'
    BY <1>1, <1>2, <2>0, <2>1, <2>4
    DEF DecidedOnce, HandlerHas, Transferring, Answered, Decisions, slotVars, offerVars
  <2>9. InTransfer(o)'
    BY <1>1, <1>2, <2>0, <2>1, <2>2, <2>5 DEF InTransfer, ReceiverSame, Active, slotVars, offerVars
  <2>10. CancelInOrder(o)'
    BY <1>1, <2>0, <2>2 DEF CancelInOrder, ReceiverSame, CancelOrderSame, offerVars
  <2> QED BY <2>5, <2>6, <2>7, <2>8, <2>9, <2>10 DEF OfferInv
<1> QED BY <1>1, <1>3, <1>5, <1>6, RunStep DEF RunPlaces, Transferring, channelVars, TypeOK

\* The rest of the invariant of an offer in transfer, when only run and what is
\* under way to the receiver or from it change.
LEMMA TransferStep ==
    ASSUME NEW o \in Offers, OfferInv(o), run[o] \in Transferring, run'[o] \in Transferring,
           UNCHANGED <<slotVars, review, offerVars, userVars, handler>>,
           decisionCh'[o] = decisionCh[o], ReceiverSame(o, "offer"), DecisionsSame(o)
    PROVE  SenderKeeps(o)' /\ ReceiverKeeps(o)' /\ DecidedOnce(o)' /\ (Active(o)' <=> Active(o))
<1>0. SenderKeeps(o) /\ ReceiverKeeps(o) /\ DecidedOnce(o) /\ Owner[o] \in Peers
  BY OfferFacts DEF OfferInv
<1>1. SenderKeeps(o)'
  BY <1>0 DEF SenderKeeps, OwnQueue, slotVars, offerVars, userVars, Transferring
<1>2. ~SubmitsLater(o) /\ ~SubmitsLater(o)'
  <2>1. ~SubmitsLater(o)
    BY <1>0 DEF ReceiverKeeps, Undecided, Transferring
  <2> QED BY <2>1 DEF SubmitsLater, userVars, Transferring
<1>3. /\ OneDecision(o)' /\ ~Answered(o) /\ ~Answered(o)'
  BY <1>0, DecisionKept DEF DecidedOnce, Transferring
<1>4. ReceiverKeeps(o)'
  BY <1>0, <1>2 DEF ReceiverKeeps, ReceiverSame, HandlerHas, slotVars
<1>5. DecidedOnce(o)'
  <2>1. ~Undecided(o) /\ o \in accepted /\ review[o] = "done"
    BY <1>0 DEF Undecided, Transferring, DecidedOnce
  <2> QED BY <1>0, <1>3, <2>1 DEF DecidedOnce, ReceiverSame, HandlerHas, Answered, Decisions, slotVars, offerVars
<1> QED BY <1>1, <1>4, <1>5 DEF Active, slotVars, offerVars

LEMMA SendFilesInv ==
    ASSUME TypeOK, Inv, Open, NEW o \in Offers, SendFiles(o)
    PROVE  TypeOK' /\ Inv'
<1>1. /\ UNCHANGED <<slotVars, review, offerVars, channelVars, userVars, handler, error>>
      /\ run[o] = "transfer" /\ run' = [run EXCEPT ![o] = "results"] /\ run'[o] = "results"
      /\ IF o \in canceledOut THEN UNCHANGED wire ELSE Send(Owner[o], Frame("files", o))
  BY DEF SendFiles, TypeOK
<1>2. OfferInv(o) /\ Owner[o] \in Peers /\ Receiver(o) = Other(Owner[o]) /\ Receiver(o) \in Peers
  BY OfferFacts DEF Inv
<1>3. /\ SenderKeeps(o) /\ ReceiverKeeps(o) /\ DecidedOnce(o) /\ InTransfer(o) /\ ResultsInOrder(o)
      /\ CancelInOrder(o)
  BY <1>2 DEF OfferInv
<1>4. Frame("files", o).offer = o /\ Frame("files", o).type = "files" /\ Frame("files", o) \in Frames
      /\ Frame("cancel", o) \in Frames /\ Frame("cancel", o) # Frame("files", o)
  BY DEF Frame, Frames, Verdicts
<1>5. CASE o \in canceledOut
  <2>1. Routed' /\ WireEffect({}, {}) /\ \A q \in Offers: SameFrames(q)
    BY <1>1, <1>5, Untouched, OtherFrames DEF Inv
  <2>2. /\ \A t \in {"offer", "files", "batch-complete", "cancel"}: ReceiverSame(o, t)
        /\ CancelOrderSame(o) /\ DecisionsSame(o) /\ ResultsSame(o)
    BY <2>1, TypedViews
  <2>3. /\ ResultsInOrder(o)' /\ \A v \in {"ok", "canceled"}: ResultPending(o, v)' <=> ResultPending(o, v)
    BY <1>1, <1>3, <2>2, ResultsKept DEF channelVars
  <2>4. SenderKeeps(o)' /\ ReceiverKeeps(o)' /\ DecidedOnce(o)' /\ (Active(o)' <=> Active(o))
    BY <1>1, <1>2, <2>2, TransferStep DEF Transferring, channelVars
  <2>5. InTransfer(o)'
    BY <1>1, <1>3, <2>2, <2>3, <2>4 DEF InTransfer, ReceiverSame, offerVars
  <2>6. CancelInOrder(o)'
    BY <1>1, <1>3, <2>2 DEF CancelInOrder, ReceiverSame, CancelOrderSame, offerVars
  <2>7. OfferInv(o)'
    BY <2>3, <2>4, <2>5, <2>6 DEF OfferInv
  <2> QED BY <1>1, <1>5, <2>1, <2>7, RunStep DEF RunPlaces, Transferring, channelVars, TypeOK
<1>6. CASE o \notin canceledOut
  <2>1. Routed' /\ wire' \in [Peers -> Seq(Frames)] /\ WireEffect({}, {<<Receiver(o), Frame("files", o)>>})
    BY <1>1, <1>2, <1>6, OwnFrames, Sends DEF Inv
  <2>2. \A q \in Offers: q # o => SameFrames(q)
    BY <1>4, <2>1, OtherFrames
  <2>3. /\ \A t \in {"offer", "batch-complete", "cancel"}: ReceiverSame(o, t)
        /\ DecisionsSame(o) /\ ResultsSame(o)
    BY <1>4, <2>1, PutViews
  <2>4. /\ ResultsInOrder(o)' /\ \A v \in {"ok", "canceled"}: ResultPending(o, v)' <=> ResultPending(o, v)
    BY <1>1, <1>3, <2>3, ResultsKept DEF channelVars
  <2>5. SenderKeeps(o)' /\ ReceiverKeeps(o)' /\ DecidedOnce(o)' /\ (Active(o)' <=> Active(o))
    BY <1>1, <1>2, <2>3, TransferStep DEF Transferring, channelVars
  <2>6. Active(o) /\ ~ResultPending(o, "ok") /\ ~ToReceiver(o, "files") /\ ~ToReceiver(o, "cancel")
    BY <1>1, <1>3, <1>6 DEF InTransfer, DecidedOnce, CancelInOrder, Transferring
  <2>7. InTransfer(o)'
    BY <1>1, <1>3, <2>3, <2>4, <2>5, <2>6 DEF InTransfer, ReceiverSame, offerVars
  <2>8. CancelInOrder(o)'
    <3>1. PICK r \in Peers: r = Receiver(o)
      BY <1>2
    <3>2. /\ Once(wire[r], Frame("files", o)) /\ Before(wire[r], Frame("files", o), Frame("cancel", o))
          /\ ~InQueue(wire[r], Frame("files", o)) /\ ~InQueue(wire[r], Frame("cancel", o))
      BY <1>3, <2>6, <3>1 DEF CancelInOrder, ToReceiver
    <3>3. Once(wire[r], Frame("files", o))' /\ Before(wire[r], Frame("files", o), Frame("cancel", o))'
      BY <1>4, <2>1, <3>1, <3>2 DEF WireEffect
    <3> QED BY <1>1, <1>3, <2>3, <3>1, <3>3 DEF CancelInOrder, ReceiverSame, offerVars
  <2>9. OfferInv(o)'
    BY <2>4, <2>5, <2>7, <2>8 DEF OfferInv
  <2> QED BY <1>1, <2>1, <2>2, <2>9, RunStep DEF RunPlaces, Transferring, channelVars, TypeOK
<1> QED BY <1>5, <1>6

LEMMA SendBatchCompleteInv ==
    ASSUME TypeOK, Inv, Open, NEW o \in Offers, SendBatchComplete(o)
    PROVE  TypeOK' /\ Inv'
<1>1. /\ UNCHANGED <<slotVars, review, offerVars, channelVars, userVars, handler, error>>
      /\ run[o] = "batch" /\ run' = [run EXCEPT ![o] = "final"] /\ run'[o] = "final"
      /\ Send(Owner[o], Frame("batch-complete", o))
  BY DEF SendBatchComplete, TypeOK
<1>2. OfferInv(o) /\ Owner[o] \in Peers /\ Receiver(o) = Other(Owner[o]) /\ Receiver(o) \in Peers
  BY OfferFacts DEF Inv
<1>3. /\ SenderKeeps(o) /\ ReceiverKeeps(o) /\ DecidedOnce(o) /\ InTransfer(o) /\ ResultsInOrder(o)
      /\ CancelInOrder(o)
  BY <1>2 DEF OfferInv
<1>4. /\ Frame("batch-complete", o).offer = o /\ Frame("batch-complete", o).type = "batch-complete"
      /\ Frame("batch-complete", o) \in Frames
  BY FrameFields
<1>5. Routed' /\ wire' \in [Peers -> Seq(Frames)] /\ WireEffect({}, {<<Receiver(o), Frame("batch-complete", o)>>})
  BY <1>1, <1>2, OwnFrames, Sends DEF Inv
<1>6. \A q \in Offers: q # o => SameFrames(q)
  BY <1>4, <1>5, OtherFrames
<1>7. /\ \A t \in {"offer", "files", "cancel"}: ReceiverSame(o, t)
      /\ CancelOrderSame(o) /\ DecisionsSame(o) /\ ResultsSame(o)
  BY <1>4, <1>5, PutViews
<1>8. /\ ResultsInOrder(o)' /\ \A v \in {"ok", "canceled"}: ResultPending(o, v)' <=> ResultPending(o, v)
  BY <1>1, <1>3, <1>7, ResultsKept DEF channelVars
<1>9. SenderKeeps(o)' /\ ReceiverKeeps(o)' /\ DecidedOnce(o)' /\ (Active(o)' <=> Active(o))
  BY <1>1, <1>2, <1>7, TransferStep DEF Transferring, channelVars
<1>10. /\ ~ResultPending(o, "ok") /\ ~ToReceiver(o, "files") /\ ~ToReceiver(o, "batch-complete") /\ o \in received
       /\ o \notin canceledOut => Active(o)
  BY <1>1, <1>3 DEF InTransfer, DecidedOnce, Transferring
<1>11. InTransfer(o)'
  BY <1>1, <1>3, <1>7, <1>8, <1>9, <1>10 DEF InTransfer, ReceiverSame, offerVars
<1>12. CancelInOrder(o)'
  <2>1. PICK r \in Peers: r = Receiver(o)
    BY <1>2
  <2>2. Once(wire[r], Frame("batch-complete", o)) /\ ~InQueue(wire[r], Frame("batch-complete", o))
    BY <1>3, <1>10, <2>1 DEF CancelInOrder, ToReceiver
  <2>3. Once(wire[r], Frame("batch-complete", o))'
    BY <1>4, <1>5, <2>1, <2>2 DEF WireEffect
  <2> QED BY <1>1, <1>3, <1>7, <2>1, <2>3 DEF CancelInOrder, ReceiverSame, CancelOrderSame, offerVars
<1>13. OfferInv(o)'
  BY <1>8, <1>9, <1>11, <1>12 DEF OfferInv
<1> QED BY <1>1, <1>5, <1>6, <1>13, RunStep DEF RunPlaces, Transferring, channelVars, TypeOK
\* The end of runOutgoing, as the offer sees it.
LEMMA OfferDone ==
    ASSUME NEW o \in Offers, OfferInv(o), ~Undecided(o), run[o] \notin {"none", "submit", "done"},
           run'[o] = "done", review'[o] = review[o], SameQueues(o),
           \A q \in Peers: outgoing'[q] # o /\ (incoming'[q] = o <=> incoming[q] = o),
           UNCHANGED <<offerVars, userVars, handler>>,
           \A t \in {"offer", "files", "batch-complete", "cancel"}: ReceiverSame(o, t), CancelOrderSame(o),
           OneDecision(o)', ~Answered(o)', ResultsInOrder(o)',
           ~ResultPending(o, "ok")', ~ResultPending(o, "canceled")', ~Active(o), ~ToReceiver(o, "files")
    PROVE  OfferInv(o)'
<1>0. /\ SenderKeeps(o) /\ ReceiverKeeps(o) /\ DecidedOnce(o) /\ InTransfer(o) /\ CancelInOrder(o)
      /\ Owner[o] \in Peers /\ Receiver(o) \in Peers /\ "in" \in Peers /\ "out" \in Peers
  BY OfferFacts DEF OfferInv, Peers
<1>1. SenderKeeps(o)'
  BY <1>0 DEF SenderKeeps, SameQueues, OwnQueue, offerVars, userVars
<1>2. ~SubmitsLater(o) /\ ~SubmitsLater(o)'
  <2>1. ~SubmitsLater(o)
    BY <1>0 DEF ReceiverKeeps
  <2> QED BY <2>1 DEF SubmitsLater, userVars
<1>3. ReceiverKeeps(o)'
  BY <1>0, <1>2 DEF ReceiverKeeps, ReceiverSame, SameQueues, HandlerHas
<1>4. DecidedOnce(o)'
  BY <1>0 DEF DecidedOnce, ReceiverSame, SameQueues, HandlerHas, Answered, Decisions, Transferring, offerVars
<1>5. InTransfer(o)'
  BY <1>0 DEF InTransfer, ReceiverSame, Active, offerVars
<1>6. CancelInOrder(o)'
  BY <1>0 DEF CancelInOrder, ReceiverSame, CancelOrderSame, offerVars
<1> QED BY <1>1, <1>3, <1>4, <1>5, <1>6 DEF OfferInv

\* runOutgoing takes a result from its channel.
LEMMA ResultTaken ==
    ASSUME TypeOK, NEW o \in Offers, ResultsInOrder(o), ResultsSame(o), resultCh[o] # << >>,
           resultCh' = [resultCh EXCEPT ![o] = Tail(@)]
    PROVE  /\ resultCh' \in [Offers -> Seq({"ok", "canceled"})]
           /\ \A q \in Offers: q # o => resultCh'[q] = resultCh[q]
           /\ Head(resultCh[o]) \in {"ok", "canceled"}
           /\ ResultPending(o, Head(resultCh[o]))
           /\ ResultsInOrder(o)'
           /\ \A v \in {"ok", "canceled"}: ResultPending(o, v)' => ResultPending(o, v)
           /\ Head(resultCh[o]) = "ok" => ~ResultPending(o, "ok")'
                                          /\ (ResultPending(o, "canceled") => ResultPending(o, "canceled")')
           /\ Head(resultCh[o]) = "canceled" => ~ResultPending(o, "ok")' /\ ~ResultPending(o, "canceled")'
<1>1. resultCh[o] \in Seq({"ok", "canceled"}) /\ resultCh'[o] = Tail(resultCh[o])
  BY DEF TypeOK
<1>2. resultCh'[o] \in Seq({"ok", "canceled"}) /\ Head(resultCh[o]) \in {"ok", "canceled"}
  BY <1>1, Tailed
<1>3. resultCh' \in [Offers -> Seq({"ok", "canceled"})] /\ \A q \in Offers: q # o => resultCh'[q] = resultCh[q]
  BY <1>1, <1>2 DEF TypeOK
<1>4. /\ \A v: InQueue(resultCh[o], v)' => InQueue(resultCh[o], v)
      /\ \A v: InQueue(resultCh[o], v) /\ v # Head(resultCh[o]) => InQueue(resultCh[o], v)'
      /\ InQueue(resultCh[o], Head(resultCh[o]))
      /\ \A v: v = Head(resultCh[o]) /\ Once(resultCh[o], v) => ~InQueue(resultCh[o], v)'
      /\ \A v: Once(resultCh[o], v) => Once(resultCh[o], v)'
      /\ \A v, u: Before(resultCh[o], v, u) => Before(resultCh[o], v, u)'
      /\ \A v, u: v # u /\ u = Head(resultCh[o]) /\ Before(resultCh[o], v, u) => ~InQueue(resultCh[o], v)
  BY <1>1, Tailed
<1>5. PICK h \in {"ok", "canceled"}: h = Head(resultCh[o])
  BY <1>2
<1>6. ResultsInOrder(o)'
  BY <1>4 DEF ResultsInOrder, ResultsSame
<1>7. \A v \in {"ok", "canceled"}: ResultPending(o, v)' => ResultPending(o, v)
  BY <1>4 DEF ResultPending, ResultsSame
<1>8. CASE h = "ok"
  BY <1>3, <1>4, <1>5, <1>6, <1>7, <1>8 DEF ResultPending, ResultsSame, ResultsInOrder
<1>9. CASE h = "canceled"
  BY <1>3, <1>4, <1>5, <1>6, <1>7, <1>9 DEF ResultPending, ResultsSame, ResultsInOrder
<1> QED BY <1>8, <1>9

LEMMA QuietViews ==
    ASSUME NEW o \in Offers, WireEffect({}, {})
    PROVE  /\ \A t \in {"offer", "files", "batch-complete", "cancel"}: ReceiverSame(o, t)
           /\ CancelOrderSame(o) /\ DecisionsSame(o) /\ ResultsSame(o)
<1>1. PICK T, P, types: T = {} /\ P = {} /\ types = {}
  OBVIOUS
<1>2. WireEffect(T, P) /\ \A p, x: <<p, x>> \in T \cup P => x.type \in types
  BY <1>1
<1>3. \A t: t \notin types
  BY <1>1
<1> QED BY <1>2, <1>3, TypedViews

\* A step that ends runOutgoing keeps everything else.
LEMMA RunEnds ==
    ASSUME TypeOK, Inv, Open, NEW o \in Offers, run[o] \notin {"none", "done"}, ClearOutgoing(Owner[o], o),
           UNCHANGED <<offerVars, queuedCh, wire, userVars, handler, error>>,
           decisionCh' \in [Offers -> {"none", "accept", "reject", "full"}],
           \A q \in Offers: q # o => decisionCh'[q] = decisionCh[q],
           resultCh' \in [Offers -> Seq({"ok", "canceled"})], \A q \in Offers: q # o => resultCh'[q] = resultCh[q],
           ~Undecided(o), run[o] # "submit", OneDecision(o)', ~Answered(o)', ResultsInOrder(o)',
           ~ResultPending(o, "ok")', ~ResultPending(o, "canceled")', ~Active(o), ~ToReceiver(o, "files")
    PROVE  TypeOK' /\ Inv'
<1>1. Routed' /\ WireEffect({}, {}) /\ \A q \in Offers: SameFrames(q)
  BY Untouched, OtherFrames DEF Inv
<1>2. \A t \in {"offer", "files", "batch-complete", "cancel"}: ReceiverSame(o, t)
  BY <1>1, QuietViews
<1>3. CancelOrderSame(o)
  BY <1>1, QuietViews
<1>4. \A q \in Offers: q # o => SameRest(q)
  BY DEF SameRest, offerVars, userVars
<1>5. /\ SlotTypes' /\ CoordinatorInv'
      /\ \A q \in Offers: q # o => OfferInv(q)'
      /\ run'[o] = "done" /\ review'[o] = review[o] /\ SameQueues(o)
      /\ \A q \in Peers: outgoing'[q] # o /\ (incoming'[q] = o <=> incoming[q] = o)
  BY <1>1, <1>4, ClearsOutgoing DEF offerVars
<1>6. OfferInv(o)'
  BY <1>2, <1>3, <1>5, OfferDone DEF Inv
<1>7. ErrorsExplained' /\ LoopsInv'
  BY DEF Open, ErrorsExplained, LoopsInv, Inv, userVars
<1>8. RestTypes'
  BY DEF RestTypes, TypeOK, offerVars, userVars
<1> QED BY <1>1, <1>5, <1>6, <1>7, <1>8, TypesSplitNext DEF Inv

LEMMA CollectResultInv ==
    ASSUME TypeOK, Inv, Open, NEW o \in Offers, CollectResult(o)
    PROVE  TypeOK' /\ Inv'
<1>1. /\ UNCHANGED <<offerVars, decisionCh, queuedCh, wire, userVars, handler, error>>
      /\ run[o] = "results" /\ resultCh[o] # << >> /\ resultCh' = [resultCh EXCEPT ![o] = Tail(@)]
  BY DEF CollectResult
<1>2. /\ SenderKeeps(o) /\ ReceiverKeeps(o) /\ DecidedOnce(o) /\ InTransfer(o) /\ ResultsInOrder(o)
      /\ CancelInOrder(o) /\ OfferInv(o)
  BY DEF Inv, OfferInv
<1>3. Routed' /\ WireEffect({}, {}) /\ \A q \in Offers: SameFrames(q)
  BY <1>1, Untouched, OtherFrames DEF Inv
<1>4. /\ \A t \in {"offer", "files", "batch-complete", "cancel"}: ReceiverSame(o, t)
      /\ CancelOrderSame(o) /\ DecisionsSame(o) /\ ResultsSame(o)
  BY <1>3, TypedViews
<1>5. OneDecision(o)' /\ ~Answered(o)' /\ ~Undecided(o)
  BY <1>1, <1>2, <1>4, DecisionKept DEF DecidedOnce, Undecided
<1>6. CASE Head(resultCh[o]) = "canceled"
  <2>1. ClearOutgoing(Owner[o], o)
    BY <1>6 DEF CollectResult
  <2>2. /\ resultCh' \in [Offers -> Seq({"ok", "canceled"})] /\ (\A q \in Offers: q # o => resultCh'[q] = resultCh[q])
        /\ ResultsInOrder(o)' /\ ~ResultPending(o, "ok")' /\ ~ResultPending(o, "canceled")'
        /\ ResultPending(o, "canceled")
    BY <1>1, <1>2, <1>4, <1>6, ResultTaken
  <2>3. ~Active(o) /\ ~ToReceiver(o, "files")
    BY <1>2, <2>2 DEF InTransfer
  <2>4. decisionCh' \in [Offers -> {"none", "accept", "reject", "full"}]
    BY <1>1 DEF TypeOK
  <2> QED BY <1>1, <1>5, <2>1, <2>2, <2>3, <2>4, RunEnds
<1>7. CASE Head(resultCh[o]) # "canceled"
  <2>1. /\ run' = [run EXCEPT ![o] = "batch"] /\ run'[o] = "batch" /\ UNCHANGED <<slotVars, review>>
    BY <1>7 DEF CollectResult, TypeOK
  <2>2. /\ resultCh' \in [Offers -> Seq({"ok", "canceled"})] /\ (\A q \in Offers: q # o => resultCh'[q] = resultCh[q])
        /\ ResultsInOrder(o)' /\ ~ResultPending(o, "ok")' /\ ResultPending(o, "ok")
        /\ ResultPending(o, "canceled")' => ResultPending(o, "canceled")
    BY <1>1, <1>2, <1>4, <1>7, ResultTaken
  <2>3. SenderKeeps(o)' /\ ReceiverKeeps(o)' /\ DecidedOnce(o)' /\ (Active(o)' <=> Active(o))
    BY <1>1, <1>2, <1>4, <2>1, TransferStep DEF Transferring
  <2>4. InTransfer(o)'
    BY <1>1, <1>2, <1>4, <2>1, <2>2, <2>3 DEF InTransfer, ReceiverSame, offerVars
  <2>5. CancelInOrder(o)'
    BY <1>1, <1>2, <1>4 DEF CancelInOrder, ReceiverSame, CancelOrderSame, offerVars
  <2>6. OfferInv(o)' /\ wire' \in [Peers -> Seq(Frames)]
    BY <1>1, <2>2, <2>3, <2>4, <2>5 DEF OfferInv, TypeOK
  <2> QED BY <1>1, <1>3, <2>1, <2>2, <2>6, RunStep DEF RunPlaces, Transferring
<1> QED BY <1>6, <1>7

LEMMA FinishOutgoingInv ==
    ASSUME TypeOK, Inv, Open, NEW o \in Offers, FinishOutgoing(o)
    PROVE  TypeOK' /\ Inv'
<1>1. /\ UNCHANGED <<offerVars, decisionCh, queuedCh, wire, userVars, handler, error>>
      /\ run[o] = "final" /\ resultCh[o] # << >> /\ resultCh' = [resultCh EXCEPT ![o] = Tail(@)]
      /\ ClearOutgoing(Owner[o], o)
  BY DEF FinishOutgoing
<1>2. /\ SenderKeeps(o) /\ ReceiverKeeps(o) /\ DecidedOnce(o) /\ InTransfer(o) /\ ResultsInOrder(o)
      /\ CancelInOrder(o) /\ OfferInv(o)
  BY DEF Inv, OfferInv
<1>3. Routed' /\ WireEffect({}, {}) /\ \A q \in Offers: SameFrames(q)
  BY <1>1, Untouched, OtherFrames DEF Inv
<1>4. DecisionsSame(o) /\ ResultsSame(o)
  BY <1>3, TypedViews
<1>5. OneDecision(o)' /\ ~Answered(o)' /\ ~Undecided(o)
  BY <1>1, <1>2, <1>4, DecisionKept DEF DecidedOnce, Undecided
<1>6. PICK h \in {"ok", "canceled"}: h = Head(resultCh[o])
  BY <1>1, <1>2, <1>4, ResultTaken
<1>7. /\ resultCh' \in [Offers -> Seq({"ok", "canceled"})] /\ (\A q \in Offers: q # o => resultCh'[q] = resultCh[q])
      /\ ResultsInOrder(o)' /\ ResultPending(o, h)
      /\ \A v \in {"ok", "canceled"}: ResultPending(o, v)' => ResultPending(o, v)
      /\ h = "ok" => ~ResultPending(o, "ok")'
      /\ h = "canceled" => ~ResultPending(o, "ok")' /\ ~ResultPending(o, "canceled")'
  BY <1>1, <1>2, <1>4, <1>6, ResultTaken
<1>8. ~Active(o) /\ ~ToReceiver(o, "files") /\ ~ResultPending(o, "ok")' /\ ~ResultPending(o, "canceled")'
  BY <1>1, <1>2, <1>7 DEF InTransfer
<1>9. decisionCh' \in [Offers -> {"none", "accept", "reject", "full"}]
  BY <1>1 DEF TypeOK
<1> QED BY <1>1, <1>5, <1>7, <1>8, <1>9, RunEnds

LEMMA TakeDecisionInv ==
    ASSUME TypeOK, Inv, Open, NEW o \in Offers, TakeDecision(o)
    PROVE  TypeOK' /\ Inv'
<1>1. /\ UNCHANGED <<offerVars, resultCh, queuedCh, wire, userVars, handler, error>>
      /\ run[o] = "decision" /\ decisionCh[o] # "none" /\ decisionCh' = [decisionCh EXCEPT ![o] = "none"]
      /\ decisionCh' \in [Offers -> {"none", "accept", "reject", "full"}]
      /\ decisionCh'[o] = "none" /\ \A q \in Offers: q # o => decisionCh'[q] = decisionCh[q]
  BY DEF TakeDecision, TypeOK
<1>2. /\ SenderKeeps(o) /\ ReceiverKeeps(o) /\ DecidedOnce(o) /\ InTransfer(o) /\ ResultsInOrder(o)
      /\ CancelInOrder(o) /\ OfferInv(o)
      /\ Owner[o] \in Peers /\ Receiver(o) \in Peers /\ "in" \in Peers /\ "out" \in Peers
  BY OfferFacts DEF Inv, OfferInv, Peers
<1>3. Routed' /\ WireEffect({}, {}) /\ \A q \in Offers: SameFrames(q)
  BY <1>1, Untouched, OtherFrames DEF Inv
<1>4. /\ \A t \in {"offer", "files", "batch-complete", "cancel"}: ReceiverSame(o, t)
      /\ CancelOrderSame(o) /\ DecisionsSame(o) /\ ResultsSame(o)
  BY <1>3, TypedViews
<1>5. /\ OneDecision(o)' /\ ~Answered(o)' /\ ~Undecided(o)
  <2>1. Answered(o) /\ \A v \in Decisions: ~Decided(o, v)
    BY <1>1, <1>2 DEF Answered, DecidedOnce, OneDecision
  <2> QED BY <1>1, <1>2, <1>4, <2>1 DEF Answered, DecidedOnce, OneDecision, DecisionsSame, Undecided
<1>6. /\ ResultsInOrder(o)' /\ (\A v \in {"ok", "canceled"}: ResultPending(o, v)' <=> ResultPending(o, v))
      /\ ~ToReceiver(o, "files") /\ ~ResultPending(o, "ok") /\ ~ToReceiver(o, "batch-complete")
  BY <1>1, <1>2, <1>4, ResultsKept DEF InTransfer
<1>7. CASE decisionCh[o] # "accept"
  <2>1. ClearOutgoing(Owner[o], o)
    BY <1>7 DEF TakeDecision
  <2>2. o \notin accepted
    <3>1. decisionCh[o] \in {"reject", "full"}
      BY <1>1, <1>7 DEF TypeOK
    <3> QED BY <1>2, <3>1 DEF DecidedOnce
  <2>3. ~Active(o) /\ ~ResultPending(o, "canceled")
    BY <1>2, <2>2 DEF Active, InTransfer
  <2>4. resultCh' \in [Offers -> Seq({"ok", "canceled"})]
    BY <1>1 DEF TypeOK
  <2> QED BY <1>1, <1>5, <1>6, <2>1, <2>3, <2>4, RunEnds
<1>8. CASE decisionCh[o] = "accept"
  <2>1. /\ run' = [run EXCEPT ![o] = "transfer"] /\ run'[o] = "transfer"
        /\ \A q \in Offers: q # o => run'[q] = run[q]
        /\ transferActive' = [transferActive EXCEPT ![Owner[o]] = TRUE]
        /\ UNCHANGED <<incoming, outgoing, coordQueue, coordActive, outQueue, review>>
    BY <1>8 DEF TakeDecision, TypeOK
  <2>2. o \in accepted /\ review[o] = "done" /\ ~SubmitsLater(o) /\ ~SubmitsLater(o)'
    <3>1. o \in accepted /\ review[o] = "done" /\ ~SubmitsLater(o)
      BY <1>2, <1>5, <1>8 DEF DecidedOnce, ReceiverKeeps
    <3> QED BY <1>1, <2>1, <3>1 DEF SubmitsLater, userVars
  <2>3. ASSUME NEW q \in Offers, q # o PROVE OfferInv(q)'
    <3>1. SameRest(q) /\ SamePlace(q)
      BY <1>1, <2>1, <2>3 DEF SameRest, SamePlace, SameSlots, SameQueues, offerVars, userVars
    <3> QED BY <1>3, <3>1, OfferKept DEF Inv
  <2>4. SenderKeeps(o)'
    BY <1>1, <1>2, <2>1 DEF SenderKeeps, OwnQueue, offerVars, userVars
  <2>5. ReceiverKeeps(o)'
    BY <1>1, <1>2, <1>4, <2>1, <2>2 DEF ReceiverKeeps, ReceiverSame, HandlerHas
  <2>6. DecidedOnce(o)'
    BY <1>1, <1>2, <1>4, <1>5, <2>1, <2>2
    DEF DecidedOnce, ReceiverSame, HandlerHas, Answered, Decisions, offerVars
  <2>7. InTransfer(o)'
    BY <1>1, <1>2, <1>4, <1>6, <2>1 DEF InTransfer, ReceiverSame, Active, offerVars
  <2>8. CancelInOrder(o)'
    BY <1>1, <1>2, <1>4 DEF CancelInOrder, ReceiverSame, CancelOrderSame, offerVars
  <2>9. OfferInv(o)'
    BY <1>6, <2>4, <2>5, <2>6, <2>7, <2>8 DEF OfferInv
  <2>10. CoordinatorInv'
    <3>1. outgoing[Owner[o]] = o /\ o # None
      BY <1>1, <1>2, OfferFacts DEF SenderKeeps
    <3>2. CASE Owner[o] = "in"
      <4>1. transferActive'["in"] = TRUE
        BY <1>2, <2>1, <3>2 DEF TypeOK
      <4> QED BY <1>1, <2>1, <3>1, <3>2, <4>1 DEF Inv, CoordinatorInv, Transferring
    <3>3. CASE Owner[o] = "out"
      <4>1. transferActive'["in"] = transferActive["in"]
        BY <1>2, <2>1, <3>3 DEF TypeOK
      <4>2. outgoing["in"] # o
        BY <1>2, <3>3 DEF SenderKeeps
      <4>3. outgoing["in"] # None => run'[outgoing["in"]] = run[outgoing["in"]]
        BY <1>2, <2>1, <4>2 DEF TypeOK
      <4>4. accepted' = accepted
        BY <1>1 DEF offerVars
      <4> QED BY <2>1, <4>1, <4>3, <4>4, CoordinatorKept
    <3> QED BY <1>2, <3>2, <3>3 DEF Peers
  <2>11. ErrorsExplained' /\ LoopsInv'
    BY <1>1 DEF Open, ErrorsExplained, LoopsInv, Inv, userVars
  <2>12. SlotTypes'
    <3>1. transferActive' \in [Peers -> BOOLEAN]
      BY <2>1 DEF TypeOK
    <3>2. run' \in [Offers -> {"none", "submit", "decision", "transfer", "results", "batch", "final", "done"}]
      BY <2>1 DEF TypeOK
    <3> QED BY <2>1, <3>1, <3>2 DEF SlotTypes, TypeOK
  <2>13. RestTypes'
    BY <1>1 DEF RestTypes, TypeOK, offerVars, userVars
  <2> QED BY <1>3, <2>3, <2>9, <2>10, <2>11, <2>12, <2>13, TypesSplitNext DEF Inv
<1> QED BY <1>7, <1>8
---------------------------------------------------------------------------
(* The steps: reviewIncomingOffer                                          *)

\* A step that touches one offer, and where it stands.
LEMMA OneOffer ==
    ASSUME Inv, NEW o \in Offers,
           \A q \in Offers: q # o => SameFrames(q) /\ SameRest(q) /\ SamePlace(q),
           OfferInv(o)', Routed', CoordinatorInv', LoopsInv', ErrorsExplained', SlotTypes', RestTypes'
    PROVE  TypeOK' /\ Inv'
<1>1. ASSUME NEW q \in Offers, q # o PROVE OfferInv(q)'
  BY <1>1, OfferKept DEF Inv
<1> QED BY <1>1, TypesSplitNext DEF Inv

\* The sender's part of the invariant does not see what the receiver does.
LEMMA SenderKept ==
    ASSUME NEW o \in Offers, SenderKeeps(o), SameQueues(o), run'[o] = run[o],
           \A q \in Peers: outgoing'[q] = o <=> outgoing[q] = o,
           UNCHANGED <<command, sent, refused>>, o \in canceledOut' => o \in canceledOut \/ outgoing[Owner[o]] = o
    PROVE  SenderKeeps(o)'
<1>1. Owner[o] \in Peers /\ "in" \in Peers /\ "out" \in Peers
  BY OfferFacts DEF Peers
<1> QED BY <1>1 DEF SenderKeeps, SameQueues, OwnQueue

LEMMA AcceptOfferInv ==
    ASSUME TypeOK, Inv, Open, NEW o \in Offers, AcceptOffer(o)
    PROVE  TypeOK' /\ Inv'
<1>1. /\ UNCHANGED <<incoming, outgoing, coordQueue, coordActive, outQueue, run, received,
                     canceledOut, canceledIn, cancelSends, channelVars, wire, userVars, handler, error>>
      /\ review[o] = "waiting" /\ incoming[Receiver(o)] = o /\ accepted' = accepted \cup {o}
      /\ review' = [review EXCEPT ![o] = "accepting"] /\ review'[o] = "accepting"
      /\ transferActive' = [transferActive EXCEPT ![Receiver(o)] = TRUE]
  BY DEF AcceptOffer, TypeOK
<1>2. /\ SenderKeeps(o) /\ ReceiverKeeps(o) /\ DecidedOnce(o) /\ InTransfer(o) /\ ResultsInOrder(o)
      /\ CancelInOrder(o) /\ OfferInv(o)
      /\ Owner[o] \in Peers /\ Receiver(o) \in Peers /\ "in" \in Peers /\ "out" \in Peers
  BY OfferFacts DEF Inv, OfferInv, Peers
<1>3. Routed' /\ WireEffect({}, {}) /\ \A q \in Offers: SameFrames(q)
  BY <1>1, Untouched, OtherFrames DEF Inv
<1>4. /\ \A t \in {"offer", "files", "batch-complete", "cancel"}: ReceiverSame(o, t)
      /\ CancelOrderSame(o) /\ DecisionsSame(o) /\ ResultsSame(o)
  BY <1>3, QuietViews
<1>5. ASSUME NEW q \in Offers, q # o PROVE SameRest(q) /\ SamePlace(q)
  BY <1>1, <1>5 DEF SameRest, SamePlace, SameSlots, SameQueues, channelVars, userVars, TypeOK
<1>6. Undecided(o) /\ o \notin accepted /\ ~SubmitsLater(o) /\ o \in accepted'
  BY <1>1, <1>2 DEF DecidedOnce, ReceiverKeeps
<1>7. ~SubmitsLater(o)' /\ OneDecision(o)' /\ ~Answered(o)' /\ Undecided(o)'
  <2>1. OneDecision(o)' /\ ~Answered(o)'
    BY <1>1, <1>2, <1>4, <1>6, DecisionKept DEF DecidedOnce, Undecided, channelVars
  <2> QED BY <1>1, <1>6, <2>1 DEF Undecided, SubmitsLater, userVars
<1>8. /\ ResultsInOrder(o)' /\ (\A v \in {"ok", "canceled"}: ResultPending(o, v)' <=> ResultPending(o, v))
      /\ \A v \in {"ok", "canceled"}: ~ResultPending(o, v)
  BY <1>1, <1>2, <1>4, <1>6, ResultsKept DEF InTransfer, Undecided, channelVars
<1>9. SenderKeeps(o)'
  BY <1>1, <1>2 DEF SenderKeeps, OwnQueue, userVars
<1>10. ReceiverKeeps(o)'
  BY <1>1, <1>2, <1>4, <1>7 DEF ReceiverKeeps, ReceiverSame, HandlerHas
<1>11. DecidedOnce(o)'
  BY <1>1, <1>2, <1>4, <1>6, <1>7 DEF DecidedOnce, ReceiverSame, HandlerHas, Answered, Decisions, Undecided, Transferring
<1>12. InTransfer(o)'
  BY <1>1, <1>2, <1>4, <1>6, <1>8 DEF InTransfer, ReceiverSame, Active, Undecided
<1>13. CancelInOrder(o)'
  BY <1>1, <1>2, <1>4 DEF CancelInOrder, ReceiverSame, CancelOrderSame
<1>14. OfferInv(o)'
  BY <1>8, <1>9, <1>10, <1>11, <1>12, <1>13 DEF OfferInv
<1>15. CoordinatorInv'
  <2>1. CASE Receiver(o) = "in"
    <3>1. transferActive'["in"] = TRUE /\ incoming["in"] \in accepted'
      BY <1>1, <1>2, <2>1 DEF TypeOK
    <3> QED BY <1>1, <3>1 DEF Inv, CoordinatorInv
  <2>2. CASE Receiver(o) # "in"
    <3>1. transferActive'["in"] = transferActive["in"] /\ incoming["in"] # o
      BY <1>1, <1>2, <2>2 DEF TypeOK, ReceiverKeeps
    <3> QED BY <1>1, <3>1, CoordinatorKept
  <2> QED BY <2>1, <2>2
<1>16. ErrorsExplained' /\ LoopsInv'
  BY <1>1 DEF Open, ErrorsExplained, LoopsInv, Inv, userVars
<1>17. SlotTypes'
  <2>1. transferActive' \in [Peers -> BOOLEAN]
    BY <1>1 DEF TypeOK
  <2>2. review' \in [Offers -> {"none", "waiting", "accepting", "rejecting", "done"}]
    BY <1>1 DEF TypeOK
  <2> QED BY <1>1, <2>1, <2>2 DEF SlotTypes, TypeOK
<1>18. RestTypes'
  BY <1>1 DEF RestTypes, TypeOK, channelVars, userVars
<1> QED BY <1>3, <1>5, <1>14, <1>15, <1>16, <1>17, <1>18, OneOffer

\* A decision is put on the wire.
LEMMA DecisionPut ==
    ASSUME NEW o \in Offers, NEW v \in Decisions, WireEffect({}, {<<Owner[o], Answer("decision", o, v)>>}),
           OneDecision(o), ~Answered(o), decisionCh'[o] = decisionCh[o]
    PROVE  /\ OneDecision(o)' /\ Answered(o)' /\ decisionCh'[o] = "none"
           /\ \A u \in Decisions: Decided(o, u)' => u = v
           /\ \A t \in {"offer", "files", "batch-complete", "cancel"}: ReceiverSame(o, t)
           /\ CancelOrderSame(o) /\ ResultsSame(o)
           /\ \A q \in Offers: q # o => SameFrames(q)
<1>1. PICK p \in Peers: p = Owner[o]
  BY OfferFacts
<1>2. PICK x \in Frames: x = Answer("decision", o, v) /\ x.offer = o /\ x.type = "decision"
  BY FrameFields DEF Decisions, Verdicts
<1>3. WireEffect({}, {<<p, x>>})
  BY <1>1, <1>2
<1>4. \A u \in Decisions: /\ Answer("decision", o, u) \in Frames /\ (u # v => Answer("decision", o, u) # x)
                          /\ ~InQueue(wire[p], Answer("decision", o, u)) /\ Once(wire[p], Answer("decision", o, u))
  <2>1. \A u \in Decisions: Answer("decision", o, u) \in Frames /\ Answer("decision", o, u).verdict = u
    BY FrameFields DEF Decisions, Verdicts
  <2> QED BY <1>1, <1>2, <2>1 DEF Answered, Decided, OneDecision
<1>5. \A u \in Decisions: /\ InQueue(wire[p], Answer("decision", o, u))' <=> u = v
                          /\ Once(wire[p], Answer("decision", o, u))'
  BY <1>2, <1>3, <1>4 DEF WireEffect
<1>6. decisionCh[o] = "none"
  BY DEF Answered
<1>7. OneDecision(o)' /\ Answered(o)' /\ \A u \in Decisions: Decided(o, u)' => u = v
  BY <1>1, <1>5, <1>6 DEF OneDecision, Answered, Decided
<1>8. /\ \A t \in {"offer", "files", "batch-complete", "cancel"}: ReceiverSame(o, t)
      /\ CancelOrderSame(o) /\ ResultsSame(o)
  BY <1>2, <1>3, PutViews
<1>9. \A q \in Offers: q # o => SameFrames(q)
  BY <1>2, <1>3, OtherFrames
<1> QED BY <1>6, <1>7, <1>8, <1>9

LEMMA SendAcceptanceInv ==
    ASSUME TypeOK, Inv, Open, NEW o \in Offers, SendAcceptance(o)
    PROVE  TypeOK' /\ Inv'
<1>1. /\ UNCHANGED <<slotVars, run, offerVars, channelVars, userVars, handler, error>>
      /\ review[o] = "accepting" /\ review' = [review EXCEPT ![o] = "done"] /\ review'[o] = "done"
      /\ Send(Receiver(o), Answer("decision", o, "accept"))
  BY DEF SendAcceptance, TypeOK
<1>2. /\ SenderKeeps(o) /\ ReceiverKeeps(o) /\ DecidedOnce(o) /\ InTransfer(o) /\ ResultsInOrder(o)
      /\ CancelInOrder(o) /\ OfferInv(o)
      /\ Owner[o] \in Peers /\ Receiver(o) \in Peers /\ "in" \in Peers /\ "out" \in Peers /\ Other(Receiver(o)) = Owner[o]
  BY OfferFacts DEF Inv, OfferInv, Peers
<1>3. /\ Routed' /\ wire' \in [Peers -> Seq(Frames)] /\ "accept" \in Decisions
      /\ WireEffect({}, {<<Owner[o], Answer("decision", o, "accept")>>})
  BY <1>1, <1>2, OwnFrames, Sends DEF Inv, Decisions
<1>4. Undecided(o) /\ o \in accepted /\ ~SubmitsLater(o) /\ ~SubmitsLater(o)' /\ run[o] # "submit"
  <2>1. Undecided(o) /\ o \in accepted /\ ~SubmitsLater(o)
    BY <1>1, <1>2 DEF DecidedOnce, ReceiverKeeps
  <2> QED BY <1>1, <1>2, <2>1 DEF SubmitsLater, userVars, SenderKeeps
<1>5. /\ OneDecision(o)' /\ Answered(o)' /\ decisionCh'[o] = "none"
      /\ \A u \in Decisions: Decided(o, u)' => u = "accept"
      /\ \A t \in {"offer", "files", "batch-complete", "cancel"}: ReceiverSame(o, t)
      /\ CancelOrderSame(o) /\ ResultsSame(o)
      /\ \A q \in Offers: q # o => SameFrames(q)
  BY <1>1, <1>2, <1>3, <1>4, DecisionPut DEF DecidedOnce, Undecided, channelVars
<1>6. ASSUME NEW q \in Offers, q # o PROVE SameRest(q) /\ SamePlace(q)
  BY <1>1, <1>6 DEF SameRest, SamePlace, SameSlots, SameQueues, channelVars, userVars, offerVars, slotVars, TypeOK
<1>7. /\ ResultsInOrder(o)' /\ (\A v \in {"ok", "canceled"}: ResultPending(o, v)' <=> ResultPending(o, v))
  BY <1>1, <1>2, <1>5, ResultsKept DEF channelVars
<1>8. SenderKeeps(o)'
  BY <1>1, <1>2 DEF SenderKeeps, OwnQueue, userVars, slotVars, offerVars
<1>9. ReceiverKeeps(o)'
  BY <1>1, <1>2, <1>4, <1>5 DEF ReceiverKeeps, ReceiverSame, HandlerHas, slotVars
<1>10. DecidedOnce(o)'
  BY <1>1, <1>2, <1>4, <1>5
  DEF DecidedOnce, ReceiverSame, HandlerHas, Decisions, Undecided, Transferring, slotVars, offerVars
<1>11. InTransfer(o)'
  BY <1>1, <1>2, <1>5, <1>7 DEF InTransfer, ReceiverSame, Active, slotVars, offerVars
<1>12. CancelInOrder(o)'
  BY <1>1, <1>2, <1>5 DEF CancelInOrder, ReceiverSame, CancelOrderSame, offerVars
<1>13. OfferInv(o)'
  BY <1>7, <1>8, <1>9, <1>10, <1>11, <1>12 DEF OfferInv
<1>14. CoordinatorInv'
  BY <1>1, CoordinatorKept DEF slotVars, offerVars
<1>15. ErrorsExplained' /\ LoopsInv'
  BY <1>1 DEF Open, ErrorsExplained, LoopsInv, Inv, userVars
<1>16. SlotTypes' /\ RestTypes'
  BY <1>1, <1>3 DEF SlotTypes, RestTypes, TypeOK, slotVars, offerVars, channelVars, userVars
<1> QED BY <1>3, <1>5, <1>6, <1>13, <1>14, <1>15, <1>16, OneOffer

LEMMA RejectOfferInv ==
    ASSUME TypeOK, Inv, Open, NEW o \in Offers, RejectOffer(o)
    PROVE  TypeOK' /\ Inv'
<1>1. /\ UNCHANGED <<slotVars, run, offerVars, channelVars, userVars, handler, error>>
      /\ review[o] = "waiting" /\ review' = [review EXCEPT ![o] = "rejecting"] /\ review'[o] = "rejecting"
      /\ incoming[Receiver(o)] = o /\ Send(Receiver(o), Answer("decision", o, "reject"))
  BY DEF RejectOffer, TypeOK
<1>2. /\ SenderKeeps(o) /\ ReceiverKeeps(o) /\ DecidedOnce(o) /\ InTransfer(o) /\ ResultsInOrder(o)
      /\ CancelInOrder(o) /\ OfferInv(o)
      /\ Owner[o] \in Peers /\ Receiver(o) \in Peers /\ "in" \in Peers /\ "out" \in Peers /\ Other(Receiver(o)) = Owner[o]
  BY OfferFacts DEF Inv, OfferInv, Peers
<1>3. /\ Routed' /\ wire' \in [Peers -> Seq(Frames)] /\ "reject" \in Decisions
      /\ WireEffect({}, {<<Owner[o], Answer("decision", o, "reject")>>})
  BY <1>1, <1>2, OwnFrames, Sends DEF Inv, Decisions
<1>4. Undecided(o) /\ o \notin accepted /\ ~SubmitsLater(o) /\ ~SubmitsLater(o)' /\ run[o] # "submit"
  <2>1. Undecided(o) /\ o \notin accepted /\ ~SubmitsLater(o)
    BY <1>1, <1>2 DEF DecidedOnce, ReceiverKeeps
  <2> QED BY <1>1, <1>2, <2>1 DEF SubmitsLater, userVars, SenderKeeps
<1>5. /\ OneDecision(o)' /\ Answered(o)' /\ decisionCh'[o] = "none"
      /\ \A u \in Decisions: Decided(o, u)' => u = "reject"
      /\ \A t \in {"offer", "files", "batch-complete", "cancel"}: ReceiverSame(o, t)
      /\ CancelOrderSame(o) /\ ResultsSame(o)
      /\ \A q \in Offers: q # o => SameFrames(q)
  BY <1>1, <1>2, <1>3, <1>4, DecisionPut DEF DecidedOnce, Undecided, channelVars
<1>6. ASSUME NEW q \in Offers, q # o PROVE SameRest(q) /\ SamePlace(q)
  BY <1>1, <1>6 DEF SameRest, SamePlace, SameSlots, SameQueues, channelVars, userVars, offerVars, slotVars, TypeOK
<1>7. /\ ResultsInOrder(o)' /\ (\A v \in {"ok", "canceled"}: ResultPending(o, v)' <=> ResultPending(o, v))
  BY <1>1, <1>2, <1>5, ResultsKept DEF channelVars
<1>8. SenderKeeps(o)'
  BY <1>1, <1>2 DEF SenderKeeps, OwnQueue, userVars, slotVars, offerVars
<1>9. ReceiverKeeps(o)'
  BY <1>1, <1>2, <1>4, <1>5 DEF ReceiverKeeps, ReceiverSame, HandlerHas, slotVars
<1>10. DecidedOnce(o)'
  BY <1>1, <1>2, <1>4, <1>5
  DEF DecidedOnce, ReceiverSame, HandlerHas, Decisions, Undecided, Transferring, slotVars, offerVars
<1>11. InTransfer(o)'
  BY <1>1, <1>2, <1>5, <1>7 DEF InTransfer, ReceiverSame, Active, slotVars, offerVars
<1>12. CancelInOrder(o)'
  BY <1>1, <1>2, <1>5 DEF CancelInOrder, ReceiverSame, CancelOrderSame, offerVars
<1>13. OfferInv(o)'
  BY <1>7, <1>8, <1>9, <1>10, <1>11, <1>12 DEF OfferInv
<1>14. CoordinatorInv'
  BY <1>1, CoordinatorKept DEF slotVars, offerVars
<1>15. ErrorsExplained' /\ LoopsInv'
  BY <1>1 DEF Open, ErrorsExplained, LoopsInv, Inv, userVars
<1>16. SlotTypes' /\ RestTypes'
  BY <1>1, <1>3 DEF SlotTypes, RestTypes, TypeOK, slotVars, offerVars, channelVars, userVars
<1> QED BY <1>3, <1>5, <1>6, <1>13, <1>14, <1>15, <1>16, OneOffer
\* What becomes of an offer whose receiver clears current.incoming.
LEMMA IncomingCleared ==
    ASSUME NEW o \in Offers, OfferInv(o), incoming[Receiver(o)] = o, review'[o] # "none", SameQueues(o),
           run'[o] = run[o], \A q \in Peers: incoming'[q] # o /\ (outgoing'[q] = o <=> outgoing[q] = o),
           UNCHANGED <<command, sent, refused, canceledOut, handler, decisionCh>>, ReceiverSame(o, "offer")
    PROVE  SenderKeeps(o)' /\ ReceiverKeeps(o)' /\ ~Active(o)'
<1>0. /\ SenderKeeps(o) /\ ReceiverKeeps(o) /\ Owner[o] \in Peers /\ Receiver(o) \in Peers /\ "in" \in Peers
      /\ "out" \in Peers
  BY OfferFacts DEF OfferInv, Peers
<1>1. SenderKeeps(o)'
  BY <1>0, SenderKept
<1>2. ~SubmitsLater(o)' /\ ~ToReceiver(o, "offer")'
  BY <1>0 DEF ReceiverKeeps, SubmitsLater, ReceiverSame
<1>3. ReceiverKeeps(o)'
  BY <1>0, <1>2 DEF ReceiverKeeps, ReceiverSame, SameQueues, HandlerHas
<1> QED BY <1>0, <1>1, <1>3 DEF Active

LEMMA ClearRejectedInv ==
    ASSUME TypeOK, Inv, Open, NEW o \in Offers, ClearRejected(o)
    PROVE  TypeOK' /\ Inv'
<1>1. /\ UNCHANGED <<offerVars, channelVars, wire, userVars, handler, error>>
      /\ review[o] = "rejecting" /\ ClearIncoming(Receiver(o), o, [review EXCEPT ![o] = "done"])
  BY DEF ClearRejected
<1>2. /\ SenderKeeps(o) /\ ReceiverKeeps(o) /\ DecidedOnce(o) /\ InTransfer(o) /\ ResultsInOrder(o)
      /\ CancelInOrder(o) /\ OfferInv(o)
      /\ Owner[o] \in Peers /\ Receiver(o) \in Peers /\ "in" \in Peers /\ "out" \in Peers
  BY OfferFacts DEF Inv, OfferInv, Peers
<1>3. incoming[Receiver(o)] = o /\ o \notin accepted
  BY <1>1, <1>2 DEF DecidedOnce
<1>4. Routed' /\ WireEffect({}, {}) /\ \A q \in Offers: SameFrames(q)
  BY <1>1, Untouched, OtherFrames DEF Inv
<1>5. /\ \A t \in {"offer", "files", "batch-complete", "cancel"}: ReceiverSame(o, t)
      /\ CancelOrderSame(o) /\ DecisionsSame(o) /\ ResultsSame(o)
  BY <1>4, QuietViews
<1>6. \A q \in Offers: SameRest(q)
  BY <1>1 DEF SameRest, offerVars, userVars, channelVars
<1>7. PICK reviews: reviews = [review EXCEPT ![o] = "done"]
  OBVIOUS
<1>a. /\ reviews \in [Offers -> {"none", "waiting", "accepting", "rejecting", "done"}] /\ reviews[o] = "done"
      /\ \A q \in Offers: q # o => reviews[q] = review[q]
  BY <1>7 DEF TypeOK
<1>b. PICK p \in Peers: p = Receiver(o)
  BY <1>2
<1>8. /\ SlotTypes' /\ CoordinatorInv'
      /\ \A q \in Offers: q # o => OfferInv(q)'
      /\ run'[o] = run[o] /\ review'[o] = "done" /\ SameQueues(o)
      /\ \A q \in Peers: incoming'[q] # o /\ (outgoing'[q] = o <=> outgoing[q] = o)
  <2>1. ClearIncoming(p, o, reviews) /\ UNCHANGED accepted /\ incoming[p] = o
    BY <1>1, <1>3, <1>7, <1>b DEF offerVars
  <2>2. \A q \in Offers: q # o => SameFrames(q) /\ SameRest(q)
    BY <1>4, <1>6
  <2> QED BY <1>a, <2>1, <2>2, ClearsIncoming
<1>9. SenderKeeps(o)' /\ ReceiverKeeps(o)' /\ ~Active(o)'
  BY <1>1, <1>2, <1>3, <1>5, <1>8, IncomingCleared DEF offerVars, userVars, channelVars
<1>10. OneDecision(o)' /\ (Answered(o)' <=> Answered(o))
  BY <1>1, <1>2, <1>5, DecisionKept DEF DecidedOnce, channelVars
<1>11. /\ ResultsInOrder(o)' /\ (\A v \in {"ok", "canceled"}: ResultPending(o, v)' <=> ResultPending(o, v))
  BY <1>1, <1>2, <1>5, ResultsKept DEF channelVars
<1>12. DecidedOnce(o)'
  BY <1>1, <1>2, <1>3, <1>5, <1>8, <1>10
  DEF DecidedOnce, ReceiverSame, DecisionsSame, SameQueues, HandlerHas, Decisions, offerVars, channelVars
<1>13. InTransfer(o)'
  BY <1>1, <1>2, <1>3, <1>5, <1>8, <1>9, <1>11 DEF InTransfer, ReceiverSame, Active, offerVars
<1>14. CancelInOrder(o)'
  BY <1>1, <1>2, <1>5 DEF CancelInOrder, ReceiverSame, CancelOrderSame, offerVars
<1>15. OfferInv(o)'
  BY <1>9, <1>11, <1>12, <1>13, <1>14 DEF OfferInv
<1>16. ErrorsExplained' /\ LoopsInv'
  BY <1>1 DEF Open, ErrorsExplained, LoopsInv, Inv, userVars
<1>17. RestTypes'
  BY <1>1 DEF RestTypes, TypeOK, offerVars, userVars, channelVars
<1> QED BY <1>4, <1>8, <1>15, <1>16, <1>17, TypesSplitNext DEF Inv

---------------------------------------------------------------------------
(* The steps: cancelActiveOffer                                            *)

\* The invariant of an offer whose cancellation its sender has noted.
LEMMA CancelNoted ==
    ASSUME NEW o \in Offers, OfferInv(o), outgoing[Owner[o]] = o, canceledOut' = canceledOut \cup {o},
           UNCHANGED <<slotVars, goroutineVars, accepted, received, channelVars, userVars, handler>>,
           \A t \in {"offer", "files", "batch-complete"}: ReceiverSame(o, t),
           CancelOrderSame(o), DecisionsSame(o), ResultsSame(o)
    PROVE  OfferInv(o)'
<1>0. /\ SenderKeeps(o) /\ ReceiverKeeps(o) /\ DecidedOnce(o) /\ InTransfer(o) /\ ResultsInOrder(o)
      /\ CancelInOrder(o) /\ Owner[o] \in Peers /\ Receiver(o) \in Peers /\ o \in canceledOut'
  BY OfferFacts DEF OfferInv
<1>1. SenderKeeps(o)'
  BY <1>0 DEF SenderKeeps, OwnQueue, slotVars, goroutineVars, userVars
<1>2. OneDecision(o)' /\ (Answered(o)' <=> Answered(o)) /\ (Undecided(o)' <=> Undecided(o))
  <2>1. OneDecision(o)' /\ (Answered(o)' <=> Answered(o))
    BY <1>0, DecisionKept DEF DecidedOnce, channelVars
  <2> QED BY <2>1 DEF Undecided, goroutineVars
<1>3. /\ ResultsInOrder(o)' /\ (\A v \in {"ok", "canceled"}: ResultPending(o, v)' <=> ResultPending(o, v))
      /\ SubmitsLater(o)' <=> SubmitsLater(o)
      /\ Active(o)' <=> Active(o)
  BY <1>0, ResultsKept DEF channelVars, SubmitsLater, goroutineVars, userVars, Active, slotVars
<1>4. ReceiverKeeps(o)'
  BY <1>0, <1>2, <1>3 DEF ReceiverKeeps, ReceiverSame, HandlerHas, slotVars, goroutineVars
<1>5. DecidedOnce(o)'
  BY <1>0, <1>2 DEF DecidedOnce, ReceiverSame, DecisionsSame, HandlerHas, Decisions, slotVars, goroutineVars, channelVars
<1>6. InTransfer(o)'
  BY <1>0, <1>3 DEF InTransfer, ReceiverSame, goroutineVars
<1>7. CancelInOrder(o)'
  BY <1>0 DEF CancelInOrder, ReceiverSame, CancelOrderSame
<1> QED BY <1>1, <1>3, <1>4, <1>5, <1>6, <1>7 DEF OfferInv

LEMMA CancelActiveOfferInv ==
    ASSUME TypeOK, Inv, Open, NEW p \in Peers, CancelActiveOffer(p)
    PROVE  TypeOK' /\ Inv'
<1>1. PICK o: o = ActiveOffer(p)
  OBVIOUS
<1>2. /\ UNCHANGED <<slotVars, goroutineVars, accepted, received, channelVars, wire, userVars, handler, error>>
      /\ o # None /\ cancelSends' = cancelSends \cup {<<p, o>>}
      /\ IF Owner[o] = p THEN canceledOut' = canceledOut \cup {o} /\ UNCHANGED canceledIn
                         ELSE canceledIn' = canceledIn \cup {o} /\ UNCHANGED canceledOut
  BY <1>1 DEF CancelActiveOffer
<1>3. o \in Offers /\ o \in {outgoing[p], incoming[p]}
  BY <1>1, <1>2 DEF ActiveOffer, TypeOK
<1>4. OfferInv(o) /\ (Owner[o] = p => outgoing[p] = o) /\ OfferInv(o)
  BY <1>1, <1>3, OfferFacts DEF Inv, OfferInv, ReceiverKeeps
<1>5. Routed' /\ WireEffect({}, {}) /\ \A q \in Offers: SameFrames(q)
  BY <1>2, Untouched, OtherFrames DEF Inv
<1>6. /\ \A t \in {"offer", "files", "batch-complete", "cancel"}: ReceiverSame(o, t)
      /\ CancelOrderSame(o) /\ DecisionsSame(o) /\ ResultsSame(o)
  BY <1>3, <1>5, QuietViews
<1>7. \A q \in Offers: SamePlace(q)
  BY <1>2 DEF SamePlace, SameSlots, SameQueues, slotVars, goroutineVars
<1>8. \A q \in Offers: q # o => SameRest(q)
  BY <1>2 DEF SameRest, channelVars, userVars
<1>9. OfferInv(o)'
  <2>1. CASE Owner[o] = p
    BY <1>2, <1>3, <1>4, <1>6, <2>1, CancelNoted
  <2>2. CASE Owner[o] # p
    <3>1. SameRest(o)
      BY <1>2, <2>2 DEF SameRest, channelVars, userVars
    <3> QED BY <1>3, <1>4, <1>5, <1>7, <3>1, OfferKept
  <2> QED BY <2>1, <2>2
<1>10. CoordinatorInv'
  BY <1>2, CoordinatorKept DEF slotVars, goroutineVars
<1>11. ErrorsExplained' /\ LoopsInv'
  BY <1>2 DEF Open, ErrorsExplained, LoopsInv, Inv, userVars
<1>12. SlotTypes' /\ RestTypes'
  <2>1. canceledOut' \in SUBSET Offers /\ canceledIn' \in SUBSET Offers /\ cancelSends' \in SUBSET (Peers \X Offers)
    BY <1>2, <1>3 DEF TypeOK
  <2> QED BY <1>2, <2>1 DEF SlotTypes, RestTypes, TypeOK, slotVars, goroutineVars, channelVars, userVars
<1> QED BY <1>3, <1>5, <1>7, <1>8, <1>9, <1>10, <1>11, <1>12, OneOffer

LEMMA SendCancelInv ==
    ASSUME TypeOK, Inv, Open, NEW p \in Peers, NEW o \in Offers, SendCancel(p, o)
    PROVE  TypeOK' /\ Inv'
<1>1. /\ UNCHANGED <<slotVars, goroutineVars, accepted, received, canceledOut, canceledIn, channelVars, userVars,
                     handler, error>>
      /\ <<p, o>> \in cancelSends /\ cancelSends' = cancelSends \ {<<p, o>>} /\ Send(p, Frame("cancel", o))
  BY DEF SendCancel
<1>2. /\ SenderKeeps(o) /\ ReceiverKeeps(o) /\ DecidedOnce(o) /\ InTransfer(o) /\ ResultsInOrder(o)
      /\ CancelInOrder(o) /\ OfferInv(o)
      /\ Owner[o] \in Peers /\ Receiver(o) \in Peers /\ Receiver(o) = Other(Owner[o]) /\ Other(p) \in Peers
      /\ p # Owner[o] => Other(p) = Owner[o]
  BY OfferFacts DEF Inv, OfferInv
<1>3. Frame("cancel", o).offer = o /\ Frame("cancel", o).type = "cancel" /\ Frame("cancel", o) \in FramesTo(Other(p))
  BY <1>2, OwnFrames DEF Frame
<1>4. Routed' /\ wire' \in [Peers -> Seq(Frames)] /\ WireEffect({}, {<<Other(p), Frame("cancel", o)>>})
  BY <1>1, <1>3, Sends DEF Inv
<1>5. /\ \A t \in {"offer", "files", "batch-complete"}: ReceiverSame(o, t)
      /\ CancelOrderSame(o) /\ DecisionsSame(o) /\ ResultsSame(o)
  BY <1>3, <1>4, PutViews
<1>6. \A q \in Offers: q # o => SameFrames(q)
  BY <1>3, <1>4, OtherFrames
<1>7. \A q \in Offers: SamePlace(q) /\ SameRest(q)
  BY <1>1 DEF SamePlace, SameSlots, SameQueues, slotVars, goroutineVars, SameRest, channelVars, userVars
<1>8. ToReceiver(o, "cancel")' => o \in canceledOut
  <2>1. CASE p = Owner[o]
    BY <1>1, <1>2, <2>1 DEF CancelInOrder
  <2>2. CASE p # Owner[o]
    <3>1. <<Receiver(o), Frame("cancel", o)>> \notin {<<Other(p), Frame("cancel", o)>>}
      BY <1>2, <2>2, OfferFacts
    <3>2. ToReceiver(o, "cancel")' => ToReceiver(o, "cancel")
      <4>1. PICK r \in Peers: r = Receiver(o)
        BY <1>2
      <4>2. Frame("cancel", o) \in Frames
        BY FrameFields
      <4> QED BY <1>4, <3>1, <4>1, <4>2 DEF WireEffect, ToReceiver
    <3> QED BY <1>2, <3>2 DEF CancelInOrder
  <2> QED BY <2>1, <2>2
<1>9. OneDecision(o)' /\ (Answered(o)' <=> Answered(o)) /\ (Undecided(o)' <=> Undecided(o))
  <2>1. OneDecision(o)' /\ (Answered(o)' <=> Answered(o))
    BY <1>1, <1>2, <1>5, DecisionKept DEF DecidedOnce, channelVars
  <2> QED BY <1>1, <2>1 DEF Undecided, goroutineVars
<1>10. /\ ResultsInOrder(o)' /\ (\A v \in {"ok", "canceled"}: ResultPending(o, v)' <=> ResultPending(o, v))
       /\ SubmitsLater(o)' <=> SubmitsLater(o)
       /\ Active(o)' <=> Active(o)
  BY <1>1, <1>2, <1>5, ResultsKept DEF channelVars, SubmitsLater, goroutineVars, userVars, Active, slotVars
<1>11. SenderKeeps(o)'
  BY <1>1, <1>2 DEF SenderKeeps, OwnQueue, slotVars, goroutineVars, userVars
<1>12. ReceiverKeeps(o)'
  BY <1>1, <1>2, <1>5, <1>9, <1>10 DEF ReceiverKeeps, ReceiverSame, HandlerHas, slotVars, goroutineVars
<1>13. DecidedOnce(o)'
  BY <1>1, <1>2, <1>5, <1>9
  DEF DecidedOnce, ReceiverSame, DecisionsSame, HandlerHas, Decisions, slotVars, goroutineVars, channelVars
<1>14. InTransfer(o)'
  BY <1>1, <1>2, <1>5, <1>10 DEF InTransfer, ReceiverSame, goroutineVars
<1>15. CancelInOrder(o)'
  BY <1>1, <1>2, <1>5, <1>8 DEF CancelInOrder, ReceiverSame, CancelOrderSame
<1>16. OfferInv(o)'
  BY <1>10, <1>11, <1>12, <1>13, <1>14, <1>15 DEF OfferInv
<1>17. CoordinatorInv'
  BY <1>1, CoordinatorKept DEF slotVars, goroutineVars
<1>18. ErrorsExplained' /\ LoopsInv'
  BY <1>1 DEF Open, ErrorsExplained, LoopsInv, Inv, userVars
<1>19. SlotTypes' /\ RestTypes'
  BY <1>1, <1>4 DEF SlotTypes, RestTypes, TypeOK, slotVars, goroutineVars, channelVars, userVars
<1> QED BY <1>4, <1>6, <1>7, <1>16, <1>17, <1>18, <1>19, OneOffer
---------------------------------------------------------------------------
(* The steps: serveSession                                                 *)

\* An offer whose frame is taken from the wire, to no effect, keeps its invariant:
\* nothing in it asks for a frame to be there.
LEMMA FrameDropped ==
    ASSUME NEW o \in Offers, OfferInv(o), NEW T, WireEffect(T, {}), SameRest(o), SamePlace(o)
    PROVE  OfferInv(o)'
<1>0. /\ SenderKeeps(o) /\ ReceiverKeeps(o) /\ DecidedOnce(o) /\ InTransfer(o) /\ ResultsInOrder(o)
      /\ CancelInOrder(o) /\ "in" \in Peers /\ "out" \in Peers
  BY DEF OfferInv, Peers
<1>1. PICK p \in Peers, r \in Peers: p = Owner[o] /\ r = Receiver(o)
  BY OfferFacts
<1>2. /\ \A t \in {"offer", "files", "batch-complete", "cancel"}: Frame(t, o) \in Frames
      /\ \A v \in Decisions: Answer("decision", o, v) \in Frames
      /\ \A v \in {"ok", "canceled"}: Answer("result", o, v) \in Frames
  BY FrameFields DEF Decisions, Verdicts
<1>3. \A q \in Peers, x \in Frames:
        /\ InQueue(wire[q], x)' => InQueue(wire[q], x)
        /\ Once(wire[q], x) => Once(wire[q], x)'
        /\ \A y \in Frames: Before(wire[q], x, y) => Before(wire[q], x, y)'
  BY DEF WireEffect
<1>4. /\ \A t \in {"offer", "files", "batch-complete", "cancel"}:
            /\ ToReceiver(o, t)' => ToReceiver(o, t)
            /\ Once(wire[Receiver(o)], Frame(t, o)) => Once(wire[Receiver(o)], Frame(t, o))'
      /\ CancelOrderSame(o)
  BY <1>1, <1>2, <1>3 DEF ToReceiver, CancelOrderSame
<1>5. \A v \in Decisions:
            /\ Decided(o, v)' => Decided(o, v)
            /\ Once(wire[Owner[o]], Answer("decision", o, v)) => Once(wire[Owner[o]], Answer("decision", o, v))'
  BY <1>1, <1>2, <1>3 DEF Decided
<1>6. /\ \A v \in {"ok", "canceled"}:
            /\ ResultSent(o, v)' => ResultSent(o, v)
            /\ Once(wire[Owner[o]], Answer("result", o, v)) => Once(wire[Owner[o]], Answer("result", o, v))'
      /\ Before(wire[Owner[o]], Answer("result", o, "ok"), Answer("result", o, "canceled"))
            => Before(wire[Owner[o]], Answer("result", o, "ok"), Answer("result", o, "canceled"))'
  BY <1>1, <1>2, <1>3 DEF ResultSent
<1>7. /\ OneDecision(o)' /\ (Answered(o)' => Answered(o))
  BY <1>0, <1>5 DEF OneDecision, Answered, DecidedOnce, SameRest
<1>8. /\ Undecided(o) => Undecided(o)'
      /\ SubmitsLater(o)' <=> SubmitsLater(o)
      /\ Active(o)' <=> Active(o)
      /\ \A v \in {"ok", "canceled"}: ResultPending(o, v)' => ResultPending(o, v)
  BY <1>1, <1>6, <1>7 DEF SameRest, SamePlace, SameSlots, Undecided, SubmitsLater, Active, ResultPending
<1>9. SenderKeeps(o)'
  BY <1>0, <1>1 DEF SenderKeeps, SameRest, SamePlace, SameSlots, SameQueues, OwnQueue
<1>10. ReceiverKeeps(o)'
  BY <1>0, <1>1, <1>4, <1>8 DEF ReceiverKeeps, SameRest, SamePlace, SameSlots, SameQueues, HandlerHas
<1>11. DecidedOnce(o)'
  BY <1>0, <1>1, <1>4, <1>5, <1>7, <1>8
  DEF DecidedOnce, SameRest, SamePlace, SameSlots, SameQueues, HandlerHas, Decisions
<1>12. InTransfer(o)'
  BY <1>0, <1>4, <1>8 DEF InTransfer, SameRest, SamePlace
<1>13. ResultsInOrder(o)'
  BY <1>0, <1>6 DEF ResultsInOrder, SameRest
<1>14. CancelInOrder(o)'
  BY <1>0, <1>4 DEF CancelInOrder, CancelOrderSame, SameRest
<1> QED BY <1>9, <1>10, <1>11, <1>12, <1>13, <1>14 DEF OfferInv

\* A serve loop returns an error, for a reason ErrorsExplained names.
LEMMA SessionEnds ==
    ASSUME TypeOK, Inv, NEW p \in Peers, NEW why, wire[p] # << >>, EndSession(p, why),
           why \in {"unknown queue acknowledgement", "overlapping offers", "inconsistent batch"},
           why = "overlapping offers" => incoming["out"] # None /\ review[incoming["out"]] = "rejecting",
           why = "inconsistent batch" => canceledOut # {}
    PROVE  TypeOK' /\ Inv'
<1>1. /\ UNCHANGED <<slotVars, goroutineVars, offerVars, channelVars, userVars, handler>>
      /\ error' = why /\ Consume(p)
  BY DEF EndSession
<1>2. Routed' /\ wire' \in [Peers -> Seq(Frames)] /\ WireEffect({<<p, Head(wire[p])>>}, {})
  BY <1>1, Consumes DEF Inv
<1>3. ASSUME NEW q \in Offers PROVE OfferInv(q)'
  <2>1. SamePlace(q) /\ SameRest(q)
    BY <1>1 DEF SamePlace, SameSlots, SameQueues, slotVars, goroutineVars, SameRest, offerVars, channelVars, userVars
  <2> QED BY <1>2, <2>1, FrameDropped DEF Inv
<1>4. CoordinatorInv'
  BY <1>1, CoordinatorKept DEF slotVars, goroutineVars, offerVars
<1>5. ErrorsExplained' /\ LoopsInv'
  BY <1>1 DEF ErrorsExplained, LoopsInv, Inv, userVars, slotVars, goroutineVars, offerVars
<1>6. SlotTypes' /\ RestTypes'
  BY <1>1, <1>2 DEF SlotTypes, RestTypes, TypeOK, slotVars, goroutineVars, offerVars, channelVars, userVars, Errors
<1> QED BY <1>2, <1>3, <1>4, <1>5, <1>6, TypesSplitNext DEF Inv

LEMMA ServeQueuedInv ==
    ASSUME TypeOK, Inv, Open, NEW p \in Peers, ServeQueued(p)
    PROVE  TypeOK' /\ Inv'
<1>1. PICK o: o = Head(wire[p]).offer
  OBVIOUS
<1>2. wire[p] # << >>
  BY DEF ServeQueued, Serving
<1>3. CASE EndSession(p, "unknown queue acknowledgement")
  BY <1>2, <1>3, SessionEnds
<1>4. CASE /\ Consume(p) /\ queuedCh' = [queuedCh EXCEPT ![o] = "yes"]
           /\ UNCHANGED <<slotVars, goroutineVars, offerVars, decisionCh, resultCh, userVars, handler, error>>
  <2>1. Routed' /\ wire' \in [Peers -> Seq(Frames)] /\ WireEffect({<<p, Head(wire[p])>>}, {})
    BY <1>2, <1>4, Consumes DEF Inv
  <2>2. ASSUME NEW q \in Offers PROVE OfferInv(q)'
    <3>1. SamePlace(q) /\ SameRest(q)
      BY <1>4 DEF SamePlace, SameSlots, SameQueues, slotVars, goroutineVars, SameRest, offerVars, userVars
    <3> QED BY <2>1, <3>1, FrameDropped DEF Inv
  <2>3. CoordinatorInv'
    BY <1>4, CoordinatorKept DEF slotVars, goroutineVars, offerVars
  <2>4. ErrorsExplained' /\ LoopsInv'
    BY <1>4 DEF Open, ErrorsExplained, LoopsInv, Inv, userVars
  <2>5. queuedCh' \in [Offers -> {"none", "yes", "no"}]
    BY <1>4 DEF TypeOK
  <2>6. SlotTypes' /\ RestTypes'
    BY <1>4, <2>1, <2>5 DEF SlotTypes, RestTypes, TypeOK, slotVars, goroutineVars, offerVars, userVars
  <2> QED BY <2>1, <2>2, <2>3, <2>4, <2>6, TypesSplitNext DEF Inv
<1> QED BY <1>1, <1>3, <1>4 DEF ServeQueued

\* The frame at the head of p's wire, after it was taken.
LEMMA HeadTaken ==
    ASSUME NEW p \in Peers, NEW x \in Frames, NEW P, WireEffect({<<p, x>>}, P), <<p, x>> \notin P, Once(wire[p], x)
    PROVE  ~InQueue(wire[p], x)' /\ Once(wire[p], x)'
<1>1. <<p, x>> \in {<<p, x>>}
  OBVIOUS
<1> QED BY <1>1 DEF WireEffect

\* The manifest of o arrives.
LEMMA OfferArrives ==
    ASSUME TypeOK, Inv, NEW p \in Peers, Serving(p, "offer"), Consume(p), NEW o, o = Head(wire[p]).offer
    PROVE  /\ o \in Offers /\ p = Receiver(o) /\ Owner[o] \in Peers /\ Owner[o] # p /\ o # None /\ OfferInv(o)
           /\ Routed' /\ wire' \in [Peers -> Seq(Frames)]
           /\ \A q \in Offers: q # o => SameFrames(q)
           /\ ToReceiver(o, "offer") /\ ~ToReceiver(o, "offer")' /\ Once(wire[Receiver(o)], Frame("offer", o))'
           /\ \A t \in {"files", "batch-complete", "cancel"}: ReceiverSame(o, t)
           /\ CancelOrderSame(o) /\ DecisionsSame(o) /\ ResultsSame(o)
<1>1. wire[p] # << >> /\ Head(wire[p]).type = "offer"
  BY DEF Serving
<1>2. PICK x \in Frames: x = Head(wire[p]) /\ x = Frame("offer", o) /\ x.type = "offer" /\ x.offer = o
                         /\ InQueue(wire[p], x)
  BY <1>1, HeadFrame DEF Inv
<1>3. o \in Offers /\ p = Receiver(o)
  BY <1>1, HeadFrame DEF Inv
<1>4. OfferInv(o) /\ Owner[o] \in Peers /\ Owner[o] # p /\ o # None
  BY <1>3, OfferFacts DEF Inv
<1>5. Routed' /\ wire' \in [Peers -> Seq(Frames)] /\ WireEffect({<<p, x>>}, {})
  BY <1>1, <1>2, Consumes DEF Inv
<1>6. \A q \in Offers: q # o => SameFrames(q)
  BY <1>2, <1>5, OtherFrames
<1>7. Once(wire[p], x)
  BY <1>2, <1>3, <1>4 DEF OfferInv, ReceiverKeeps
<1>8. InQueue(wire[p], x) /\ ~InQueue(wire[p], x)' /\ Once(wire[p], x)'
  BY <1>2, <1>5, <1>7, HeadTaken
<1>9. /\ \A t \in {"files", "batch-complete", "cancel"}: ReceiverSame(o, t)
      /\ CancelOrderSame(o) /\ DecisionsSame(o) /\ ResultsSame(o)
  BY <1>2, <1>3, <1>5, TakeViews
<1> QED BY <1>2, <1>3, <1>4, <1>5, <1>6, <1>8, <1>9 DEF ToReceiver
\* The offer that has just arrived, wherever the receiver puts it.
LEMMA OfferTaken ==
    ASSUME NEW o \in Offers, OfferInv(o), ToReceiver(o, "offer"), ~ToReceiver(o, "offer")',
           Once(wire[Receiver(o)], Frame("offer", o))',
           \A t \in {"files", "batch-complete", "cancel"}: ReceiverSame(o, t),
           CancelOrderSame(o), DecisionsSame(o), ResultsSame(o),
           UNCHANGED <<outgoing, outQueue, run, offerVars, channelVars, userVars>>
    PROVE  /\ InTransfer(o)' /\ ResultsInOrder(o)' /\ CancelInOrder(o)'
           /\ ~SubmitsLater(o)' /\ review[o] = "none" /\ Undecided(o)' /\ OneDecision(o)' /\ o \notin accepted
           /\ handler.offer # o /\ incoming[Receiver(o)] # o /\ run[o] \in {"none", "submit", "decision"}
           /\ Owner[o] = "out" => ~InQueue(coordQueue, o)
<1>0. /\ SenderKeeps(o) /\ ReceiverKeeps(o) /\ DecidedOnce(o) /\ InTransfer(o) /\ ResultsInOrder(o) /\ CancelInOrder(o)
  BY DEF OfferInv
<1>1. /\ ~SubmitsLater(o) /\ review[o] = "none" /\ Undecided(o) /\ o \notin accepted
      /\ handler.offer # o /\ incoming[Receiver(o)] # o /\ run[o] \in {"none", "submit", "decision"}
      /\ Owner[o] = "out" => ~InQueue(coordQueue, o)
  BY <1>0 DEF ReceiverKeeps, DecidedOnce, Undecided
<1>2. ~SubmitsLater(o)'
  BY <1>1 DEF SubmitsLater, userVars
<1>3. OneDecision(o)' /\ ~Answered(o)' /\ Undecided(o)'
  <2>1. OneDecision(o)' /\ ~Answered(o)'
    BY <1>0, <1>1, DecisionKept DEF DecidedOnce, channelVars, Undecided
  <2> QED BY <1>1, <2>1 DEF Undecided
<1>4. /\ ResultsInOrder(o)' /\ (\A v \in {"ok", "canceled"}: ResultPending(o, v)' <=> ResultPending(o, v))
  BY <1>0, ResultsKept DEF channelVars
<1>5. ~Active(o) /\ ~Active(o)'
  BY <1>1 DEF Active, offerVars
<1>6. InTransfer(o)'
  BY <1>0, <1>1, <1>4, <1>5 DEF InTransfer, ReceiverSame, offerVars
<1>7. CancelInOrder(o)'
  BY <1>0 DEF CancelInOrder, ReceiverSame, CancelOrderSame, offerVars
<1> QED BY <1>1, <1>2, <1>3, <1>4, <1>6, <1>7

LEMMA ServeOfferInboundInv ==
    ASSUME TypeOK, Inv, Open, ServeOfferInbound
    PROVE  TypeOK' /\ Inv'
<1>0. PICK o, p: o = Head(wire["in"]).offer /\ p = "in"
  OBVIOUS
<1>1. /\ UNCHANGED <<goroutineVars, offerVars, channelVars, userVars, error, outgoing, outQueue, transferActive>>
      /\ Serving(p, "offer") /\ Consume(p) /\ p \in Peers /\ handler = Idle
      /\ \/ handler' = [at |-> "full", offer |-> o] /\ UNCHANGED <<coordQueue, coordActive, incoming>>
         \/ /\ handler' = [at |-> "queued", offer |-> o] /\ UNCHANGED <<coordActive, incoming>>
            /\ coordQueue' = Append(coordQueue, o) /\ ~QueueFull(coordQueue) /\ coordActive
         \/ /\ handler' = [at |-> "queued", offer |-> o] /\ UNCHANGED coordQueue /\ ~coordActive
            /\ coordActive' = TRUE /\ incoming' = [incoming EXCEPT !["in"] = o] /\ coordQueue = << >>
  <2>1. ~coordActive => coordQueue = << >>
    BY DEF Inv, CoordinatorInv
  <2>2. coordQueue = << >> => Head(Append(coordQueue, o)) = o /\ Tail(Append(coordQueue, o)) = coordQueue
    OBVIOUS
  <2> QED BY <1>0, <2>1, <2>2 DEF ServeOfferInbound, CoordinatorBusy, slotVars, Serving, Peers
<1>2. /\ o \in Offers /\ p = Receiver(o) /\ Owner[o] \in Peers /\ Owner[o] # p /\ o # None /\ OfferInv(o)
      /\ Routed' /\ wire' \in [Peers -> Seq(Frames)]
      /\ \A q \in Offers: q # o => SameFrames(q)
      /\ ToReceiver(o, "offer") /\ ~ToReceiver(o, "offer")' /\ Once(wire[Receiver(o)], Frame("offer", o))'
      /\ \A t \in {"files", "batch-complete", "cancel"}: ReceiverSame(o, t)
      /\ CancelOrderSame(o) /\ DecisionsSame(o) /\ ResultsSame(o)
  BY <1>0, <1>1, OfferArrives
<1>3. /\ InTransfer(o)' /\ ResultsInOrder(o)' /\ CancelInOrder(o)'
      /\ ~SubmitsLater(o)' /\ review[o] = "none" /\ Undecided(o)' /\ OneDecision(o)' /\ o \notin accepted
      /\ handler.offer # o /\ incoming[Receiver(o)] # o
      /\ Owner[o] = "out" => ~InQueue(coordQueue, o)
  BY <1>1, <1>2, OfferTaken DEF goroutineVars
<1>4. /\ Owner[o] = "out" /\ Receiver(o) = "in" /\ incoming["in"] # o /\ ~InQueue(coordQueue, o)
      /\ "in" \in Peers /\ "out" \in Peers /\ coordQueue \in Seq(Offers)
  BY <1>0, <1>2, <1>3 DEF Peers, TypeOK
<1>5. handler.offer = None /\ handler.at = "idle" /\ handler'.offer = o /\ handler'.at \in {"queued", "full"}
      /\ handler' \in [at: {"idle", "queued", "full"}, offer: Offers \cup {None}]
  BY <1>1, <1>2 DEF Idle
<1>6. ~coordActive => incoming["in"] = None /\ outgoing["in"] = None /\ ~transferActive["in"]
  <2>1. ~coordActive => incoming["in"] = None /\ outgoing["in"] = None /\ None \notin accepted
    BY OfferFacts DEF Inv, CoordinatorInv, TypeOK
  <2> QED BY <2>1 DEF Inv, CoordinatorInv
<1>7. ASSUME NEW q \in Offers, q # o PROVE SameRest(q) /\ SamePlace(q)
  <2>1. q # None
    BY OfferFacts
  <2>2. SameRest(q)
    BY <1>1, <1>5, <1>7, <2>1 DEF SameRest, offerVars, channelVars, userVars
  <2>3. SameSlots(q)
    BY <1>1, <1>6, <1>7, <2>1 DEF SameSlots, TypeOK
  <2>4. SameQueues(q)
    <3>1. CASE coordQueue' = coordQueue
      BY <1>1, <3>1 DEF SameQueues
    <3>2. CASE coordQueue' = Append(coordQueue, o)
      <4>1. /\ InQueue(coordQueue, q)' <=> InQueue(coordQueue, q)
            /\ Once(coordQueue, q) => Once(coordQueue, q)'
        BY <1>2, <1>4, <1>7, <3>2, Appended
      <4> QED BY <1>1, <4>1 DEF SameQueues
    <3> QED BY <1>1, <3>1, <3>2
  <2> QED BY <1>1, <2>2, <2>3, <2>4 DEF SamePlace, goroutineVars
<1>8. OfferInv(o)'
  <2>0. SenderKeeps(o) /\ ReceiverKeeps(o) /\ DecidedOnce(o)
    BY <1>2 DEF OfferInv
  <2>1. /\ Once(coordQueue, o)'
        /\ \/ handler'.at = "full" /\ ~InQueue(coordQueue, o)' /\ incoming'["in"] # o
           \/ handler'.at = "queued" /\ InQueue(coordQueue, o)' /\ incoming'["in"] # o
           \/ handler'.at = "queued" /\ ~InQueue(coordQueue, o)' /\ incoming'["in"] = o
    <3>1. Once(coordQueue, o)
      BY <2>0 DEF SenderKeeps
    <3>2. CASE coordQueue' = Append(coordQueue, o)
      <4>1. Once(coordQueue, o)' /\ InQueue(coordQueue, o)'
        BY <1>2, <1>4, <3>1, <3>2, Appended
      <4>2. coordQueue' # coordQueue
        BY <1>4, <4>1
      <4> QED BY <1>1, <1>4, <4>1, <4>2
    <3>3. CASE coordQueue' = coordQueue
      <4>1. Once(coordQueue, o)' /\ ~InQueue(coordQueue, o)'
        BY <1>4, <3>1, <3>3
      <4>2. coordQueue' # Append(coordQueue, o)
        <5>1. Len(Append(coordQueue, o)) = Len(coordQueue) + 1 /\ Len(coordQueue) \in Nat
          BY <1>4
        <5> QED BY <3>3, <5>1
      <4> QED BY <1>1, <1>4, <4>1, <4>2 DEF TypeOK
    <3> QED BY <1>1, <3>2, <3>3
  <2>2. incoming'["out"] = incoming["out"]
    BY <1>1, <1>4 DEF TypeOK
  <2>3. SenderKeeps(o)'
    BY <1>1, <1>4, <2>0, <2>1 DEF SenderKeeps, OwnQueue, offerVars, userVars, goroutineVars
  <2>4. ReceiverKeeps(o)'
    BY <1>1, <1>2, <1>3, <1>4, <1>5, <2>0, <2>1, <2>2 DEF ReceiverKeeps, HandlerHas, goroutineVars, Peers
  <2>5. DecidedOnce(o)'
    BY <1>1, <1>2, <1>3, <1>4, <1>5, <2>0, <2>1
    DEF DecidedOnce, HandlerHas, Decisions, Undecided, Answered, Transferring, goroutineVars, offerVars
  <2> QED BY <1>3, <2>3, <2>4, <2>5 DEF OfferInv
<1>9. CoordinatorInv'
  <2>1. CASE UNCHANGED <<coordActive, incoming>>
    <3>1. coordQueue' # << >> => coordActive
      BY <1>1, <2>1 DEF Inv, CoordinatorInv
    <3> QED BY <1>1, <2>1, <3>1 DEF Inv, CoordinatorInv, goroutineVars, offerVars
  <2>2. CASE /\ UNCHANGED coordQueue /\ ~coordActive /\ coordActive' = TRUE /\ coordQueue = << >>
             /\ incoming' = [incoming EXCEPT !["in"] = o]
    <3>1. incoming'["in"] = o
      BY <1>4, <2>2 DEF TypeOK
    <3>2. accepted' = accepted
      BY <1>1 DEF offerVars
    <3> QED BY <1>1, <1>2, <1>3, <1>6, <2>2, <3>1, <3>2 DEF CoordinatorInv
  <2> QED BY <1>1, <2>1, <2>2
<1>10. ErrorsExplained' /\ LoopsInv'
  BY <1>1, <1>2, <1>5 DEF Open, ErrorsExplained, LoopsInv, Inv, userVars
<1>11. SlotTypes'
  <2>1. coordQueue' \in Seq(Offers) /\ Len(coordQueue') <= MaxQueued
    <3>1. ~QueueFull(coordQueue) => Len(coordQueue) + 1 <= MaxQueued
      BY <1>4, MaxQueuedAssumption DEF QueueFull
    <3>2. CASE coordQueue' = coordQueue
      BY <3>2 DEF TypeOK
    <3>3. CASE coordQueue' = Append(coordQueue, o) /\ ~QueueFull(coordQueue)
      BY <1>2, <1>4, <3>1, <3>3, Appended
    <3> QED BY <1>1, <3>2, <3>3
  <2>2. coordActive' \in BOOLEAN
    BY <1>1 DEF TypeOK
  <2>3. incoming' \in [Peers -> Offers \cup {None}]
    BY <1>1, <1>2 DEF TypeOK
  <2> QED BY <1>1, <2>1, <2>2, <2>3 DEF SlotTypes, TypeOK, goroutineVars
<1>12. RestTypes'
  BY <1>1, <1>2, <1>5 DEF RestTypes, TypeOK, offerVars, channelVars, userVars
<1> QED BY <1>2, <1>7, <1>8, <1>9, <1>10, <1>11, <1>12, OneOffer

\* The coordinator's own offer is at the other Peer, and not being rejected: it
\* is the one the coordinator has in hand.
LEMMA HeldByCoordinator ==
    ASSUME TypeOK, Inv, NEW q \in Offers, Owner[q] = "in",
           ToReceiver(q, "offer") \/ (incoming["out"] = q /\ review[q] # "rejecting")
    PROVE  outgoing["in"] = q
<1>1. SenderKeeps(q) /\ ReceiverKeeps(q) /\ DecidedOnce(q) /\ InTransfer(q) /\ Receiver(q) = "out"
  BY DEF Inv, OfferInv, Receiver, Other
<1>2. ~SubmitsLater(q)
  BY <1>1 DEF ReceiverKeeps
<1>3. run[q] \notin {"none", "submit"}
  BY <1>2 DEF SubmitsLater
<1>4. run[q] # "done"
  <2>1. CASE ToReceiver(q, "offer")
    BY <1>1, <2>1 DEF DecidedOnce, Undecided
  <2>2. CASE incoming["out"] = q /\ review[q] # "rejecting"
    <3>1. review[q] # "none"
      BY <1>1, <2>2 DEF ReceiverKeeps, HandlerHas
    <3>2. review[q] \in {"waiting", "accepting"} => run[q] # "done"
      BY <1>1 DEF DecidedOnce, Undecided
    <3>3. review[q] = "done" => q \in accepted
      BY <1>1, <2>2 DEF DecidedOnce
    <3>4. q \in accepted => run[q] # "done"
      BY <1>1, <2>2 DEF InTransfer, Active
    <3>5. review[q] \in {"none", "waiting", "accepting", "rejecting", "done"}
      BY DEF TypeOK
    <3> QED BY <2>2, <3>1, <3>2, <3>3, <3>4, <3>5
  <2> QED BY <2>1, <2>2
<1> QED BY <1>1, <1>3, <1>4 DEF SenderKeeps

LEMMA ServeOfferOutboundInv ==
    ASSUME TypeOK, Inv, Open, ServeOfferOutbound
    PROVE  TypeOK' /\ Inv'
<1>0. PICK o, p: o = Head(wire["out"]).offer /\ p = "out"
  OBVIOUS
<1>1. /\ Serving(p, "offer") /\ Consume(p) /\ p \in Peers /\ wire[p] # << >>
  BY <1>0 DEF ServeOfferOutbound, EndSession, Serving, Peers
<1>2. /\ o \in Offers /\ p = Receiver(o) /\ Owner[o] \in Peers /\ Owner[o] # p /\ o # None /\ OfferInv(o)
      /\ Routed' /\ wire' \in [Peers -> Seq(Frames)]
      /\ \A q \in Offers: q # o => SameFrames(q)
      /\ ToReceiver(o, "offer") /\ ~ToReceiver(o, "offer")' /\ Once(wire[Receiver(o)], Frame("offer", o))'
      /\ \A t \in {"files", "batch-complete", "cancel"}: ReceiverSame(o, t)
      /\ CancelOrderSame(o) /\ DecisionsSame(o) /\ ResultsSame(o)
  BY <1>0, <1>1, OfferArrives
<1>3. /\ SenderKeeps(o) /\ ReceiverKeeps(o) /\ DecidedOnce(o) /\ Owner[o] = "in" /\ "in" \in Peers /\ "out" \in Peers
      /\ Receiver(o) = "out"
  BY <1>0, <1>2 DEF OfferInv, Peers
<1>4. CASE incoming["out"] # None
  <2>1. PICK q \in Offers: q = incoming["out"]
    BY <1>3, <1>4 DEF TypeOK
  <2>2. Owner[q] = "in" /\ q # o
    BY <1>2, <1>3, <2>1, OfferFacts DEF Inv, OfferInv, ReceiverKeeps, Peers
  <2>3. review[q] = "rejecting"
    BY <1>2, <1>3, <2>1, <2>2, HeldByCoordinator
  <2>4. EndSession(p, "overlapping offers")
    BY <1>0, <1>4 DEF ServeOfferOutbound
  <2> QED BY <1>1, <1>4, <2>1, <2>3, <2>4, SessionEnds
<1>5. CASE incoming["out"] = None
  <2>1. /\ UNCHANGED <<outgoing, coordQueue, coordActive, outQueue, transferActive, run, offerVars, channelVars,
                       userVars, handler, error>>
        /\ incoming' = [incoming EXCEPT !["out"] = o] /\ review' = [review EXCEPT ![o] = "waiting"]
    BY <1>0, <1>5 DEF ServeOfferOutbound
  <2>2. incoming'["out"] = o /\ incoming'["in"] = incoming["in"] /\ review'[o] = "waiting"
    BY <1>2, <1>3, <2>1 DEF TypeOK
  <2>3. /\ InTransfer(o)' /\ ResultsInOrder(o)' /\ CancelInOrder(o)'
        /\ ~SubmitsLater(o)' /\ review[o] = "none" /\ Undecided(o)' /\ OneDecision(o)' /\ o \notin accepted
        /\ handler.offer # o
    BY <1>2, <2>1, OfferTaken
  <2>4. ASSUME NEW q \in Offers, q # o PROVE SameRest(q) /\ SamePlace(q)
    <3>1. q # None
      BY OfferFacts
    <3>2. SameSlots(q)
      BY <1>3, <1>5, <2>1, <2>2, <2>4, <3>1 DEF SameSlots, Peers
    <3> QED BY <2>1, <2>4, <3>2 DEF SameRest, SamePlace, SameQueues, offerVars, channelVars, userVars, TypeOK
  <2>5. SenderKeeps(o)'
    BY <1>3, <2>1 DEF SenderKeeps, OwnQueue, offerVars, userVars
  <2>6. ~InQueue(coordQueue, o)
    <3>1. outgoing["in"] = o
      BY <1>2, <1>3, HeldByCoordinator
    <3> QED BY <1>3, <3>1 DEF SenderKeeps, OwnQueue
  <2>7. ReceiverKeeps(o)'
    BY <1>2, <1>3, <2>1, <2>2, <2>3, <2>6 DEF ReceiverKeeps, HandlerHas, Peers
  <2>8. DecidedOnce(o)'
    BY <1>2, <1>3, <2>1, <2>2, <2>3, <2>6
    DEF DecidedOnce, HandlerHas, Decisions, Undecided, Answered, Transferring, offerVars
  <2>9. OfferInv(o)'
    BY <2>3, <2>5, <2>7, <2>8 DEF OfferInv
  <2>10. CoordinatorInv'
    BY <2>1, <2>2, CoordinatorKept DEF offerVars
  <2>11. ErrorsExplained' /\ LoopsInv'
    BY <2>1 DEF Open, ErrorsExplained, LoopsInv, Inv, userVars
  <2>12. SlotTypes'
    <3>1. incoming' \in [Peers -> Offers \cup {None}]
      BY <1>2, <2>1 DEF TypeOK
    <3>2. review' \in [Offers -> {"none", "waiting", "accepting", "rejecting", "done"}]
      BY <2>1 DEF TypeOK
    <3> QED BY <2>1, <3>1, <3>2 DEF SlotTypes, TypeOK
  <2>13. RestTypes'
    BY <1>2, <2>1 DEF RestTypes, TypeOK, offerVars, channelVars, userVars
  <2> QED BY <1>2, <2>4, <2>9, <2>10, <2>11, <2>12, <2>13, OneOffer
<1> QED BY <1>4, <1>5
LEMMA AnswerOfferInv ==
    ASSUME TypeOK, Inv, Open, AnswerOffer
    PROVE  TypeOK' /\ Inv'
<1>0. PICK o: o = handler.offer
  OBVIOUS
<1>1. /\ UNCHANGED <<slotVars, run, offerVars, channelVars, userVars, error>>
      /\ handler # Idle /\ handler' = Idle
      /\ Send("in", IF handler.at = "full" THEN Answer("decision", o, "full") ELSE Frame("queued", o))
      /\ review' = (IF incoming["in"] = o /\ review[o] = "none" THEN [review EXCEPT ![o] = "waiting"] ELSE review)
  BY <1>0 DEF AnswerOffer
<1>2. handler.at # "idle" /\ o \in Offers
  <2>1. handler = [at |-> handler.at, offer |-> handler.offer]
    BY DEF TypeOK
  <2>2. handler.at = "idle" => handler = Idle
    BY <2>1 DEF Inv, LoopsInv, Idle
  <2> QED BY <1>0, <1>1, <2>2 DEF Inv, LoopsInv
<1>3. /\ SenderKeeps(o) /\ ReceiverKeeps(o) /\ DecidedOnce(o) /\ InTransfer(o) /\ ResultsInOrder(o) /\ CancelInOrder(o)
      /\ OfferInv(o) /\ Owner[o] = "out" /\ Receiver(o) = "in" /\ Other("in") = "out" /\ "in" \in Peers /\ "out" \in Peers
      /\ handler.at \in {"queued", "full"} /\ handler'.offer = None /\ handler'.at = "idle" /\ o # None
  BY <1>0, <1>1, <1>2, OfferFacts DEF Inv, OfferInv, ReceiverKeeps, Receiver, Other, Peers, TypeOK, Idle
<1>4. ASSUME NEW q \in Offers, q # o PROVE SameRest(q) /\ SamePlace(q)
  <2>1. q # None
    BY OfferFacts
  <2>2. SameRest(q)
    BY <1>0, <1>1, <1>3, <1>4, <2>1 DEF SameRest, offerVars, channelVars, userVars
  <2>3. SamePlace(q)
    BY <1>1, <1>4 DEF SamePlace, SameSlots, SameQueues, slotVars, TypeOK
  <2> QED BY <2>2, <2>3
<1>5. ~SubmitsLater(o) /\ ~SubmitsLater(o)' /\ ~ToReceiver(o, "offer")
  <2>1. ~SubmitsLater(o) /\ ~ToReceiver(o, "offer")
    BY <1>0, <1>3 DEF ReceiverKeeps
  <2> QED BY <1>1, <2>1 DEF SubmitsLater, userVars
<1>6. SenderKeeps(o)'
  BY <1>1, <1>3 DEF SenderKeeps, OwnQueue, offerVars, userVars, slotVars
<1>7. CoordinatorInv'
  BY <1>1, CoordinatorKept DEF slotVars, offerVars
<1>8. ErrorsExplained' /\ LoopsInv'
  BY <1>1, <1>3 DEF Open, ErrorsExplained, LoopsInv, Inv, userVars
<1>9. SlotTypes'
  <2>1. review' \in [Offers -> {"none", "waiting", "accepting", "rejecting", "done"}]
    BY <1>1, <1>2 DEF TypeOK
  <2> QED BY <1>1, <2>1 DEF SlotTypes, TypeOK, slotVars
<1>10. wire' \in [Peers -> Seq(Frames)] => RestTypes'
  BY <1>1 DEF RestTypes, TypeOK, offerVars, channelVars, userVars, Idle
<1>11. CASE handler.at = "full"
  <2>1. /\ Routed' /\ wire' \in [Peers -> Seq(Frames)] /\ "full" \in Decisions
        /\ WireEffect({}, {<<Owner[o], Answer("decision", o, "full")>>})
    BY <1>1, <1>2, <1>3, <1>11, OwnFrames, Sends DEF Inv, Decisions
  <2>2. review[o] = "none" /\ Undecided(o) /\ incoming["in"] # o /\ ~InQueue(coordQueue, o) /\ o \notin accepted
        /\ review' = review
    BY <1>0, <1>1, <1>3, <1>11 DEF DecidedOnce, ReceiverKeeps, HandlerHas
  <2>3. /\ OneDecision(o)' /\ Answered(o)' /\ decisionCh'[o] = "none"
        /\ \A u \in Decisions: Decided(o, u)' => u = "full"
        /\ \A t \in {"offer", "files", "batch-complete", "cancel"}: ReceiverSame(o, t)
        /\ CancelOrderSame(o) /\ ResultsSame(o)
        /\ \A q \in Offers: q # o => SameFrames(q)
    BY <1>1, <1>2, <1>3, <2>1, <2>2, DecisionPut DEF DecidedOnce, Undecided, channelVars
  <2>4. /\ ResultsInOrder(o)' /\ (\A v \in {"ok", "canceled"}: ResultPending(o, v)' <=> ResultPending(o, v))
    BY <1>1, <1>2, <1>3, <2>3, ResultsKept DEF channelVars
  <2>5. ReceiverKeeps(o)'
    BY <1>1, <1>3, <1>5, <2>2, <2>3 DEF ReceiverKeeps, ReceiverSame, HandlerHas, slotVars
  <2>6. DecidedOnce(o)'
    BY <1>1, <1>3, <1>5, <2>2, <2>3
    DEF DecidedOnce, ReceiverSame, HandlerHas, Decisions, Undecided, Transferring, slotVars, offerVars, SenderKeeps
  <2>7. InTransfer(o)'
    BY <1>1, <1>3, <2>3, <2>4 DEF InTransfer, ReceiverSame, Active, slotVars, offerVars
  <2>8. CancelInOrder(o)'
    BY <1>1, <1>3, <2>3 DEF CancelInOrder, ReceiverSame, CancelOrderSame, offerVars
  <2>9. OfferInv(o)'
    BY <1>6, <2>4, <2>5, <2>6, <2>7, <2>8 DEF OfferInv
  <2> QED BY <1>2, <1>4, <1>7, <1>8, <1>9, <1>10, <2>1, <2>3, <2>9, OneOffer
<1>12. CASE handler.at = "queued"
  <2>1. /\ Routed' /\ wire' \in [Peers -> Seq(Frames)] /\ WireEffect({}, {<<"out", Frame("queued", o)>>})
    BY <1>1, <1>2, <1>3, <1>12, OwnFrames, Sends DEF Inv
  <2>2. Frame("queued", o).type = "queued" /\ Frame("queued", o).offer = o
    BY DEF Frame
  <2>3. /\ \A t \in {"offer", "files", "batch-complete", "cancel"}: ReceiverSame(o, t)
        /\ CancelOrderSame(o) /\ DecisionsSame(o) /\ ResultsSame(o)
    BY <1>2, <2>1, <2>2, PutViews
  <2>4. \A q \in Offers: q # o => SameFrames(q)
    BY <2>1, <2>2, OtherFrames
  <2>5. OneDecision(o)' /\ (Answered(o)' <=> Answered(o)) /\ (Undecided(o)' <=> Undecided(o))
    <3>1. OneDecision(o)' /\ (Answered(o)' <=> Answered(o))
      BY <1>1, <1>2, <1>3, <2>3, DecisionKept DEF DecidedOnce, channelVars
    <3> QED BY <1>1, <3>1 DEF Undecided
  <2>6. /\ ResultsInOrder(o)' /\ (\A v \in {"ok", "canceled"}: ResultPending(o, v)' <=> ResultPending(o, v))
    BY <1>1, <1>2, <1>3, <2>3, ResultsKept DEF channelVars
  <2>7. \/ /\ incoming["in"] = o /\ review[o] = "none" /\ review'[o] = "waiting" /\ Undecided(o) /\ o \notin accepted
           /\ ~InQueue(coordQueue, o)
        \/ (incoming["in"] # o \/ review[o] # "none") /\ review'[o] = review[o]
    <3>1. incoming["in"] = o /\ review[o] = "none" => Undecided(o) /\ o \notin accepted /\ ~InQueue(coordQueue, o)
      BY <1>3 DEF DecidedOnce, ReceiverKeeps
    <3> QED BY <1>1, <1>2, <3>1 DEF TypeOK
  <2>8. ReceiverKeeps(o)'
    BY <1>1, <1>3, <1>5, <2>3, <2>7 DEF ReceiverKeeps, ReceiverSame, HandlerHas, slotVars
  <2>9. DecidedOnce(o)'
    BY <1>1, <1>3, <1>5, <2>3, <2>5, <2>7
    DEF DecidedOnce, ReceiverSame, DecisionsSame, HandlerHas, Decisions, Undecided, Answered, Transferring, slotVars, offerVars,
        channelVars
  <2>10. InTransfer(o)'
    BY <1>1, <1>3, <2>3, <2>6 DEF InTransfer, ReceiverSame, Active, slotVars, offerVars
  <2>11. CancelInOrder(o)'
    BY <1>1, <1>3, <2>3 DEF CancelInOrder, ReceiverSame, CancelOrderSame, offerVars
  <2>12. OfferInv(o)'
    BY <1>6, <2>6, <2>8, <2>9, <2>10, <2>11 DEF OfferInv
  <2> QED BY <1>2, <1>4, <1>7, <1>8, <1>9, <1>10, <2>1, <2>4, <2>12, OneOffer
<1> QED BY <1>3, <1>11, <1>12

\* Taking and answering a frame of one offer leaves the frames of the others alone.
LEMMA TakeOthers ==
    ASSUME NEW p, NEW x, WireEffect({<<p, x>>}, {}), NEW q, x.offer # q
    PROVE  SameFrames(q)
<1>1. \A r \in Peers, y \in Frames: <<r, y>> \in {<<p, x>>} \cup {} => y.offer # q
  OBVIOUS
<1> QED BY <1>1, OtherFrames

LEMMA TakePutOthers ==
    ASSUME NEW p, NEW x, NEW r, NEW y, WireEffect({<<p, x>>}, {<<r, y>>}), NEW q, x.offer # q, y.offer # q
    PROVE  SameFrames(q)
<1>1. \A s \in Peers, z \in Frames: <<s, z>> \in {<<p, x>>} \cup {<<r, y>>} => z.offer # q
  OBVIOUS
<1> QED BY <1>1, OtherFrames

\* A decision is about an offer its sender knows (findOutgoingLocked).
LEMMA DecisionKnown ==
    ASSUME Inv, NEW o \in Offers, NEW v \in Decisions, Decided(o, v)
    PROVE  KnownOutgoing(Owner[o], o) /\ decisionCh[o] = "none"
<1>1. SenderKeeps(o) /\ ReceiverKeeps(o) /\ DecidedOnce(o) /\ Owner[o] \in Peers
  BY OfferFacts DEF Inv, OfferInv
<1>2. Answered(o) /\ ~Undecided(o) /\ run[o] \in {"none", "decision"} /\ decisionCh[o] = "none"
  BY <1>1 DEF Answered, Undecided, DecidedOnce, OneDecision
<1>3. ~SubmitsLater(o)
  BY <1>1, <1>2 DEF ReceiverKeeps
<1>4. o \in sent /\ o \notin refused /\ (Owner[o] = "in" => run[o] = "decision")
  BY <1>1, <1>2, <1>3 DEF SubmitsLater, SenderKeeps, Peers
<1> QED BY <1>1, <1>2, <1>4 DEF SenderKeeps, KnownOutgoing, OwnQueue, Peers

LEMMA ServeDecisionInv ==
    ASSUME TypeOK, Inv, Open, NEW p \in Peers, ServeDecision(p)
    PROVE  TypeOK' /\ Inv'
<1>1. wire[p] # << >> /\ Head(wire[p]).type = "decision"
  BY DEF ServeDecision, Serving
<1>2. PICK x \in Frames, o \in Offers, v \in Decisions:
            /\ x = Head(wire[p]) /\ x = Answer("decision", o, v) /\ o = x.offer /\ v = x.verdict /\ x.type = "decision"
            /\ p = Owner[o] /\ InQueue(wire[p], x)
  BY <1>1, HeadFrame DEF Inv
<1>3. /\ SenderKeeps(o) /\ ReceiverKeeps(o) /\ DecidedOnce(o) /\ InTransfer(o) /\ ResultsInOrder(o) /\ CancelInOrder(o)
      /\ OfferInv(o) /\ OneDecision(o)
  BY DEF Inv, OfferInv, DecidedOnce
<1>4. Decided(o, v) /\ KnownOutgoing(p, o)
  <2>1. Decided(o, v)
    BY <1>2 DEF Decided
  <2> QED BY <1>2, <2>1, DecisionKnown
<1>5. /\ UNCHANGED <<slotVars, goroutineVars, offerVars, resultCh, userVars, handler, error>>
      /\ Consume(p) /\ decisionCh[o] = "none" /\ decisionCh' = [decisionCh EXCEPT ![o] = v]
      /\ queuedCh' = queuedCh \/ queuedCh' = [queuedCh EXCEPT ![o] = "no"]
  BY <1>2, <1>4 DEF ServeDecision
<1>6. /\ decisionCh'[o] = v /\ decisionCh' \in [Offers -> {"none", "accept", "reject", "full"}]
      /\ \A q \in Offers: q # o => decisionCh'[q] = decisionCh[q]
      /\ v # "none"
  BY <1>5 DEF TypeOK, Decisions
<1>7. Routed' /\ wire' \in [Peers -> Seq(Frames)] /\ WireEffect({<<p, x>>}, {})
  BY <1>1, <1>2, <1>5, Consumes DEF Inv
<1>8. /\ \A t \in {"offer", "files", "batch-complete", "cancel"}: ReceiverSame(o, t)
      /\ CancelOrderSame(o) /\ ResultsSame(o)
  BY <1>2, <1>7, TakeViews
<1>9. \A q \in Offers: q # o => SameFrames(q)
  BY <1>2, <1>7, TakeOthers
<1>10. \A u \in Decisions: ~Decided(o, u)' /\ Once(wire[Owner[o]], Answer("decision", o, u))'
  <2>1. \A u \in Decisions: Answer("decision", o, u) \in Frames
    BY FrameFields DEF Decisions, Verdicts
  <2>2. Once(wire[p], x) /\ \A u \in Decisions: InQueue(wire[p], Answer("decision", o, u)) => u = v
    BY <1>2, <1>3, <1>4 DEF OneDecision, Decided
  <2>3. ~InQueue(wire[p], x)'
    BY <1>7, <2>2, HeadTaken
  <2>4. \A u \in Decisions: /\ InQueue(wire[p], Answer("decision", o, u))' => InQueue(wire[p], Answer("decision", o, u))
                            /\ Once(wire[p], Answer("decision", o, u)) => Once(wire[p], Answer("decision", o, u))'
    BY <1>7, <2>1 DEF WireEffect
  <2> QED BY <1>2, <1>3, <2>2, <2>3, <2>4 DEF Decided, OneDecision
<1>11. OneDecision(o)' /\ Answered(o) /\ Answered(o)' /\ ~Undecided(o)
  BY <1>4, <1>6, <1>10 DEF OneDecision, Answered, Undecided
<1>12. /\ ResultsInOrder(o)' /\ (\A u \in {"ok", "canceled"}: ResultPending(o, u)' <=> ResultPending(o, u))
  BY <1>3, <1>5, <1>8, ResultsKept
<1>13. ASSUME NEW q \in Offers, q # o PROVE SameRest(q) /\ SamePlace(q)
  BY <1>5, <1>6, <1>13 DEF SamePlace, SameSlots, SameQueues, SameRest, slotVars, goroutineVars, offerVars, userVars
<1>14. SenderKeeps(o)'
  BY <1>3, <1>5 DEF SenderKeeps, OwnQueue, slotVars, goroutineVars, offerVars, userVars
<1>15. ~SubmitsLater(o) /\ ~SubmitsLater(o)'
  <2>1. ~SubmitsLater(o)
    BY <1>3, <1>11 DEF ReceiverKeeps
  <2> QED BY <1>5, <2>1 DEF SubmitsLater, userVars, goroutineVars
<1>16. ReceiverKeeps(o)'
  BY <1>3, <1>5, <1>8, <1>15 DEF ReceiverKeeps, ReceiverSame, HandlerHas, slotVars, goroutineVars
<1>17. DecidedOnce(o)'
  BY <1>3, <1>4, <1>5, <1>6, <1>8, <1>10, <1>11
  DEF DecidedOnce, ReceiverSame, HandlerHas, Decisions, slotVars, goroutineVars, offerVars
<1>18. InTransfer(o)'
  BY <1>3, <1>5, <1>8, <1>12 DEF InTransfer, ReceiverSame, Active, slotVars, goroutineVars, offerVars
<1>19. CancelInOrder(o)'
  BY <1>3, <1>5, <1>8 DEF CancelInOrder, ReceiverSame, CancelOrderSame, offerVars
<1>20. OfferInv(o)'
  BY <1>12, <1>14, <1>16, <1>17, <1>18, <1>19 DEF OfferInv
<1>21. CoordinatorInv'
  BY <1>5, CoordinatorKept DEF slotVars, goroutineVars, offerVars
<1>22. ErrorsExplained' /\ LoopsInv'
  BY <1>5 DEF Open, ErrorsExplained, LoopsInv, Inv, userVars
<1>23. queuedCh' \in [Offers -> {"none", "yes", "no"}]
  BY <1>5 DEF TypeOK
<1>24. SlotTypes' /\ RestTypes'
  BY <1>5, <1>6, <1>7, <1>23 DEF SlotTypes, RestTypes, TypeOK, slotVars, goroutineVars, offerVars, userVars
<1> QED BY <1>7, <1>9, <1>13, <1>20, <1>21, <1>22, <1>24, OneOffer
\* A result is about the offer in current.outgoing.
LEMMA ResultKnown ==
    ASSUME Inv, NEW o \in Offers, NEW v \in {"ok", "canceled"}, ResultSent(o, v)
    PROVE  outgoing[Owner[o]] = o
<1>1. SenderKeeps(o) /\ InTransfer(o) /\ ResultPending(o, v)
  BY DEF Inv, OfferInv, ResultPending
<1> QED BY <1>1 DEF SenderKeeps, InTransfer

\* routeOutgoing moves a result from the wire to its channel.
LEMMA ResultMoved ==
    ASSUME TypeOK, NEW o \in Offers, ResultsInOrder(o), NEW p \in Peers, p = Owner[o], NEW x \in Frames,
           NEW v \in {"ok", "canceled"}, x = Answer("result", o, v), wire[p] # << >>, x = Head(wire[p]),
           WireEffect({<<p, x>>}, {}), resultCh' = [resultCh EXCEPT ![o] = Append(@, v)]
    PROVE  /\ resultCh' \in [Offers -> Seq({"ok", "canceled"})]
           /\ \A q \in Offers: q # o => resultCh'[q] = resultCh[q]
           /\ ResultsInOrder(o)' /\ \A u \in {"ok", "canceled"}: ResultPending(o, u)' <=> ResultPending(o, u)
<1>1. resultCh[o] \in Seq({"ok", "canceled"}) /\ resultCh'[o] = Append(resultCh[o], v)
  BY DEF TypeOK
<1>2. /\ resultCh' \in [Offers -> Seq({"ok", "canceled"})] /\ \A q \in Offers: q # o => resultCh'[q] = resultCh[q]
  <2>1. Append(resultCh[o], v) \in Seq({"ok", "canceled"})
    BY <1>1
  <2> QED BY <2>1 DEF TypeOK
<1>3. PICK ok \in Frames, stop \in Frames:
            /\ ok = Answer("result", o, "ok") /\ stop = Answer("result", o, "canceled") /\ ok # stop
            /\ ok.verdict = "ok" /\ stop.verdict = "canceled"
  BY FrameFields DEF Verdicts
<1>4. /\ Once(wire[p], ok) /\ Once(wire[p], stop) /\ Before(wire[p], ok, stop)
      /\ Once(resultCh[o], "ok") /\ Once(resultCh[o], "canceled") /\ Before(resultCh[o], "ok", "canceled")
      /\ InQueue(wire[p], ok) => ~InQueue(resultCh[o], "ok") /\ ~InQueue(resultCh[o], "canceled")
      /\ InQueue(wire[p], stop) => ~InQueue(resultCh[o], "canceled")
  BY <1>3 DEF ResultsInOrder, ResultSent
<1>5. Once(wire[p], ok)' /\ Once(wire[p], stop)' /\ Before(wire[p], ok, stop)'
  BY <1>4 DEF WireEffect
<1>6. /\ InQueue(wire[p], ok)' => InQueue(wire[p], ok)
      /\ InQueue(wire[p], stop)' => InQueue(wire[p], stop)
      /\ InQueue(wire[p], ok) /\ x # ok => InQueue(wire[p], ok)'
      /\ InQueue(wire[p], stop) /\ x # stop => InQueue(wire[p], stop)'
  <2>1. \A y: y # x => <<p, y>> \notin {<<p, x>>}
    OBVIOUS
  <2> QED BY <2>1 DEF WireEffect
<1>7. ~InQueue(wire[p], x)'
  BY <1>3, <1>4, HeadTaken
<1>8. InQueue(wire[p], x) /\ (x = stop => ~InQueue(wire[p], ok))
  <2>1. wire[p] \in Seq(Frames)
    BY DEF TypeOK
  <2> QED BY <1>3, <1>4, <2>1, Tailed
<1>9. /\ \A u: InQueue(resultCh[o], u)' <=> InQueue(resultCh[o], u) \/ u = v
      /\ \A u: Once(resultCh[o], u) /\ (u = v => ~InQueue(resultCh[o], u)) => Once(resultCh[o], u)'
      /\ \A u, w: Before(resultCh[o], u, w) /\ (u = v => ~InQueue(resultCh[o], w) /\ u # w) => Before(resultCh[o], u, w)'
  BY <1>1, Appended
<1>10. CASE v = "ok"
  <2>1. x = ok
    BY <1>3, <1>10
  <2>2. Once(resultCh[o], "ok")' /\ Once(resultCh[o], "canceled")' /\ Before(resultCh[o], "ok", "canceled")'
    BY <1>4, <1>8, <1>9, <1>10, <2>1
  <2> QED BY <1>2, <1>3, <1>4, <1>5, <1>6, <1>7, <1>8, <1>9, <1>10, <2>1, <2>2 DEF ResultsInOrder, ResultPending, ResultSent
<1>11. CASE v = "canceled"
  <2>1. x = stop
    BY <1>3, <1>11
  <2>2. Once(resultCh[o], "ok")' /\ Once(resultCh[o], "canceled")' /\ Before(resultCh[o], "ok", "canceled")'
    BY <1>4, <1>8, <1>9, <1>11, <2>1
  <2> QED BY <1>2, <1>3, <1>4, <1>5, <1>6, <1>7, <1>8, <1>9, <1>11, <2>1, <2>2 DEF ResultsInOrder, ResultPending, ResultSent
<1> QED BY <1>10, <1>11

LEMMA ServeResultInv ==
    ASSUME TypeOK, Inv, Open, NEW p \in Peers, ServeResult(p)
    PROVE  TypeOK' /\ Inv'
<1>1. wire[p] # << >> /\ Head(wire[p]).type = "result"
  BY DEF ServeResult, Serving
<1>2. PICK x \in Frames, o \in Offers, v \in {"ok", "canceled"}:
            /\ x = Head(wire[p]) /\ x = Answer("result", o, v) /\ o = x.offer /\ v = x.verdict /\ x.type = "result"
            /\ p = Owner[o] /\ InQueue(wire[p], x)
  BY <1>1, HeadFrame DEF Inv
<1>3. /\ SenderKeeps(o) /\ ReceiverKeeps(o) /\ DecidedOnce(o) /\ InTransfer(o) /\ ResultsInOrder(o) /\ CancelInOrder(o)
      /\ OfferInv(o)
  BY DEF Inv, OfferInv
<1>4. outgoing[p] = o
  BY <1>2, ResultKnown DEF ResultSent
<1>5. /\ UNCHANGED <<slotVars, goroutineVars, offerVars, decisionCh, queuedCh, userVars, handler, error>>
      /\ Consume(p) /\ resultCh' = [resultCh EXCEPT ![o] = Append(@, v)]
  BY <1>2, <1>4 DEF ServeResult
<1>6. Routed' /\ wire' \in [Peers -> Seq(Frames)] /\ WireEffect({<<p, x>>}, {})
  BY <1>1, <1>2, <1>5, Consumes DEF Inv
<1>7. /\ resultCh' \in [Offers -> Seq({"ok", "canceled"})]
      /\ \A q \in Offers: q # o => resultCh'[q] = resultCh[q]
      /\ ResultsInOrder(o)' /\ \A u \in {"ok", "canceled"}: ResultPending(o, u)' <=> ResultPending(o, u)
  <2>1. ResultsInOrder(o) /\ p = Owner[o] /\ x = Answer("result", o, v) /\ wire[p] # << >> /\ x = Head(wire[p])
    BY <1>1, <1>2, <1>3
  <2>2. resultCh' = [resultCh EXCEPT ![o] = Append(@, v)] /\ WireEffect({<<p, x>>}, {})
    BY <1>5, <1>6
  <2> QED BY <2>1, <2>2, ResultMoved
<1>8. /\ \A t \in {"offer", "files", "batch-complete", "cancel"}: ReceiverSame(o, t)
      /\ CancelOrderSame(o) /\ DecisionsSame(o)
  BY <1>2, <1>6, TakeViews
<1>9. \A q \in Offers: q # o => SameFrames(q)
  BY <1>2, <1>6, TakeOthers
<1>10. ASSUME NEW q \in Offers, q # o PROVE SameRest(q) /\ SamePlace(q)
  BY <1>5, <1>7, <1>10 DEF SamePlace, SameSlots, SameQueues, SameRest, slotVars, goroutineVars, offerVars, userVars
<1>11. OneDecision(o)' /\ (Answered(o)' <=> Answered(o)) /\ (Undecided(o)' <=> Undecided(o))
       /\ (SubmitsLater(o)' <=> SubmitsLater(o))
  <2>1. OneDecision(o)' /\ (Answered(o)' <=> Answered(o))
    BY <1>3, <1>5, <1>8, DecisionKept DEF DecidedOnce
  <2> QED BY <1>5, <2>1 DEF Undecided, goroutineVars, SubmitsLater, userVars
<1>12. SenderKeeps(o)'
  BY <1>3, <1>5 DEF SenderKeeps, OwnQueue, slotVars, goroutineVars, offerVars, userVars
<1>13. ReceiverKeeps(o)'
  BY <1>3, <1>5, <1>8, <1>11 DEF ReceiverKeeps, ReceiverSame, HandlerHas, slotVars, goroutineVars
<1>14. DecidedOnce(o)'
  BY <1>3, <1>5, <1>8, <1>11
  DEF DecidedOnce, ReceiverSame, DecisionsSame, HandlerHas, Decisions, slotVars, goroutineVars, offerVars
<1>15. InTransfer(o)'
  BY <1>3, <1>5, <1>7, <1>8 DEF InTransfer, ReceiverSame, Active, slotVars, goroutineVars, offerVars
<1>16. CancelInOrder(o)'
  BY <1>3, <1>5, <1>8 DEF CancelInOrder, ReceiverSame, CancelOrderSame, offerVars
<1>17. OfferInv(o)'
  BY <1>7, <1>12, <1>13, <1>14, <1>15, <1>16 DEF OfferInv
<1>18. CoordinatorInv'
  BY <1>5, CoordinatorKept DEF slotVars, goroutineVars, offerVars
<1>19. ErrorsExplained' /\ LoopsInv'
  BY <1>5 DEF Open, ErrorsExplained, LoopsInv, Inv, userVars
<1>20. SlotTypes' /\ RestTypes'
  BY <1>5, <1>6, <1>7 DEF SlotTypes, RestTypes, TypeOK, slotVars, goroutineVars, offerVars, userVars
<1> QED BY <1>6, <1>9, <1>10, <1>17, <1>18, <1>19, <1>20, OneOffer
\* The receiver takes a frame of type t about o and answers with a result.
LEMMA ResultPut ==
    ASSUME NEW o \in Offers, NEW t \in {"files", "batch-complete", "cancel"}, NEW v \in {"ok", "canceled"},
           WireEffect({<<Receiver(o), Frame(t, o)>>}, {<<Owner[o], Answer("result", o, v)>>}),
           ResultsInOrder(o), UNCHANGED resultCh, ~ResultPending(o, "canceled"), v = "ok" => ~ResultPending(o, "ok")
    PROVE  /\ ResultsInOrder(o)' /\ ResultPending(o, v)'
           /\ \A u \in {"ok", "canceled"}: u # v => (ResultPending(o, u)' <=> ResultPending(o, u))
           /\ \A s \in {"offer", "files", "batch-complete", "cancel"}: s # t => ReceiverSame(o, s)
           /\ ToReceiver(o, t)' => ToReceiver(o, t)
           /\ Once(wire[Receiver(o)], Frame(t, o))
                => ~ToReceiver(o, t)' /\ Once(wire[Receiver(o)], Frame(t, o))'
           /\ CancelOrderSame(o) /\ DecisionsSame(o)
           /\ \A q \in Offers: q # o => SameFrames(q)
<1>1. PICK p \in Peers, r \in Peers: p = Owner[o] /\ r = Receiver(o) /\ p # r
  BY OfferFacts
<1>2. PICK x \in Frames, y \in Frames: /\ x = Frame(t, o) /\ x.offer = o /\ x.type = t
                                       /\ y = Answer("result", o, v) /\ y.offer = o /\ y.type = "result" /\ x # y
  <2>1. Frame(t, o) \in Frames /\ Frame(t, o).offer = o /\ Frame(t, o).type = t
    BY FrameFields
  <2>2. Answer("result", o, v) \in Frames /\ Answer("result", o, v).offer = o /\ Answer("result", o, v).type = "result"
    BY FrameFields DEF Verdicts
  <2> QED BY <2>1, <2>2
<1>3. WireEffect({<<r, x>>}, {<<p, y>>})
  BY <1>1, <1>2
<1>4. \A q \in Offers: q # o => SameFrames(q)
  BY <1>2, <1>3, TakePutOthers
<1>5. /\ \A s \in {"offer", "files", "batch-complete", "cancel"}: s # t => ReceiverSame(o, s)
      /\ CancelOrderSame(o) /\ DecisionsSame(o)
  <2>1. \A s \in {"offer", "files", "batch-complete", "cancel"}: s # t => s \notin {x.type, y.type}
    BY <1>2
  <2>2. "files" # y.type /\ "decision" \notin {x.type, y.type}
    BY <1>2
  <2>3. /\ \A s \in {"offer", "files", "batch-complete", "cancel"}: s \notin {x.type, y.type} => ReceiverSame(o, s)
        /\ "files" # y.type => CancelOrderSame(o)
        /\ "decision" \notin {x.type, y.type} => DecisionsSame(o)
    BY <1>3, TakePutViews
  <2> QED BY <2>1, <2>2, <2>3
<1>6. \A z: /\ <<p, z>> \notin {<<r, x>>} /\ (z # y => <<p, z>> \notin {<<p, y>>})
            /\ <<r, z>> \notin {<<p, y>>}
  BY <1>1
<1>7. /\ ToReceiver(o, t)' => ToReceiver(o, t)
      /\ Once(wire[Receiver(o)], Frame(t, o))
                => ~ToReceiver(o, t)' /\ Once(wire[Receiver(o)], Frame(t, o))'
  <2>1. InQueue(wire[r], x)' => InQueue(wire[r], x)
    BY <1>3, <1>6 DEF WireEffect
  <2>2. Once(wire[r], x) => ~InQueue(wire[r], x)' /\ Once(wire[r], x)'
    BY <1>3, <1>6, HeadTaken
  <2> QED BY <1>1, <1>2, <2>1, <2>2 DEF ToReceiver
<1>8. PICK ok \in Frames, stop \in Frames:
            /\ ok = Answer("result", o, "ok") /\ stop = Answer("result", o, "canceled") /\ ok # stop
            /\ v = "ok" => y = ok
            /\ v = "canceled" => y = stop
  <2>1. /\ Answer("result", o, "ok") \in Frames /\ Answer("result", o, "canceled") \in Frames
        /\ Answer("result", o, "ok").verdict = "ok" /\ Answer("result", o, "canceled").verdict = "canceled"
    BY FrameFields DEF Verdicts
  <2> QED BY <1>2, <2>1
<1>9. /\ Once(wire[p], ok) /\ Once(wire[p], stop) /\ Before(wire[p], ok, stop)
      /\ ~InQueue(wire[p], stop) /\ ~InQueue(resultCh[o], "canceled")
      /\ v = "ok" => ~InQueue(wire[p], ok) /\ ~InQueue(resultCh[o], "ok")
  BY <1>1, <1>8 DEF ResultsInOrder, ResultPending, ResultSent
<1>10. /\ InQueue(wire[p], y)'
       /\ y # ok => (InQueue(wire[p], ok)' <=> InQueue(wire[p], ok))
       /\ y # stop => (InQueue(wire[p], stop)' <=> InQueue(wire[p], stop))
       /\ Once(wire[p], ok)' /\ Once(wire[p], stop)'
  BY <1>3, <1>6, <1>8, <1>9 DEF WireEffect
<1>11. Before(wire[p], ok, stop)'
  BY <1>3, <1>6, <1>8, <1>9 DEF WireEffect
<1>12. /\ ResultsInOrder(o)' /\ ResultPending(o, v)'
       /\ \A u \in {"ok", "canceled"}: u # v => (ResultPending(o, u)' <=> ResultPending(o, u))
  <2>1. CASE v = "ok"
    BY <1>1, <1>8, <1>9, <1>10, <1>11, <2>1 DEF ResultsInOrder, ResultPending, ResultSent
  <2>2. CASE v = "canceled"
    BY <1>1, <1>8, <1>9, <1>10, <1>11, <2>2 DEF ResultsInOrder, ResultPending, ResultSent
  <2> QED BY <2>1, <2>2
<1> QED BY <1>4, <1>5, <1>7, <1>12

\* What the head of the wire is, in the serve loop of a receiver.
LEMMA ServesReceiver ==
    ASSUME TypeOK, Inv, NEW p \in Peers, NEW t \in {"files", "batch-complete", "cancel"}, Serving(p, t),
           NEW o, o = Head(wire[p]).offer, t = "cancel" => p = Receiver(o)
    PROVE  /\ o \in Offers /\ p = Receiver(o) /\ Other(p) = Owner[o] /\ OfferInv(o) /\ wire[p] # << >>
           /\ Head(wire[p]) = Frame(t, o) /\ ToReceiver(o, t)
<1>1. wire[p] # << >> /\ Head(wire[p]).type = t
  BY DEF Serving
<1>2. o \in Offers /\ Head(wire[p]) = Frame(t, o) /\ InQueue(wire[p], Head(wire[p])) /\ p = Receiver(o)
  BY <1>1, HeadFrame DEF Inv
<1> QED BY <1>1, <1>2, OfferFacts DEF ToReceiver, Inv

LEMMA ServeFilesInv ==
    ASSUME TypeOK, Inv, Open, NEW p \in Peers, ServeFiles(p)
    PROVE  TypeOK' /\ Inv'
<1>0. PICK o: o = Head(wire[p]).offer
  OBVIOUS
<1>1. /\ o \in Offers /\ p = Receiver(o) /\ Other(p) = Owner[o] /\ OfferInv(o) /\ wire[p] # << >>
      /\ Head(wire[p]) = Frame("files", o) /\ ToReceiver(o, "files")
  BY <1>0, ServesReceiver DEF ServeFiles
<1>2. /\ SenderKeeps(o) /\ ReceiverKeeps(o) /\ DecidedOnce(o) /\ InTransfer(o) /\ ResultsInOrder(o) /\ CancelInOrder(o)
  BY <1>1 DEF OfferInv
<1>3. /\ run[o] = "results" /\ Active(o) /\ ~ResultPending(o, "ok") /\ ~ResultPending(o, "canceled")
      /\ incoming[p] = o /\ o \in accepted
  BY <1>1, <1>2 DEF InTransfer, Active
<1>4. /\ UNCHANGED <<slotVars, goroutineVars, accepted, canceledOut, canceledIn, cancelSends, channelVars, userVars,
                     handler, error>>
      /\ received' = received \cup {o} /\ ConsumeAndSend(p, Answer("result", o, "ok"))
  BY <1>0, <1>3 DEF ServeFiles
<1>5. /\ Routed' /\ wire' \in [Peers -> Seq(Frames)]
      /\ WireEffect({<<Receiver(o), Frame("files", o)>>}, {<<Owner[o], Answer("result", o, "ok")>>})
  BY <1>1, <1>4, OwnFrames, ConsumesAndSends DEF Inv
<1>6. /\ ResultsInOrder(o)' /\ ResultPending(o, "ok")'
      /\ ResultPending(o, "canceled")' <=> ResultPending(o, "canceled")
      /\ \A s \in {"offer", "batch-complete", "cancel"}: ReceiverSame(o, s)
      /\ ~ToReceiver(o, "files")' /\ Once(wire[Receiver(o)], Frame("files", o))'
      /\ CancelOrderSame(o) /\ DecisionsSame(o)
      /\ \A q \in Offers: q # o => SameFrames(q)
  <2>1. Once(wire[Receiver(o)], Frame("files", o)) /\ UNCHANGED resultCh
    BY <1>2, <1>4 DEF CancelInOrder, channelVars
  <2> QED BY <1>1, <1>2, <1>3, <1>5, <2>1, ResultPut
<1>7. ASSUME NEW q \in Offers, q # o PROVE SameRest(q) /\ SamePlace(q)
  BY <1>4, <1>7 DEF SamePlace, SameSlots, SameQueues, SameRest, slotVars, goroutineVars, channelVars, userVars
<1>8. OneDecision(o)' /\ (Answered(o)' <=> Answered(o)) /\ (Undecided(o)' <=> Undecided(o))
      /\ (SubmitsLater(o)' <=> SubmitsLater(o)) /\ (Active(o)' <=> Active(o))
  <2>1. OneDecision(o)' /\ (Answered(o)' <=> Answered(o))
    BY <1>1, <1>2, <1>4, <1>6, DecisionKept DEF DecidedOnce, channelVars
  <2> QED BY <1>4, <2>1 DEF Undecided, goroutineVars, SubmitsLater, userVars, Active, slotVars
<1>9. SenderKeeps(o)'
  BY <1>2, <1>4 DEF SenderKeeps, OwnQueue, slotVars, goroutineVars, userVars
<1>10. ReceiverKeeps(o)'
  BY <1>2, <1>4, <1>6, <1>8 DEF ReceiverKeeps, ReceiverSame, HandlerHas, slotVars, goroutineVars
<1>11. DecidedOnce(o)'
  BY <1>2, <1>4, <1>6, <1>8
  DEF DecidedOnce, ReceiverSame, DecisionsSame, HandlerHas, Decisions, slotVars, goroutineVars, channelVars
<1>12. InTransfer(o)'
  BY <1>2, <1>3, <1>4, <1>6, <1>8 DEF InTransfer, ReceiverSame, goroutineVars
<1>13. CancelInOrder(o)'
  BY <1>2, <1>4, <1>6 DEF CancelInOrder, ReceiverSame, CancelOrderSame
<1>14. OfferInv(o)'
  BY <1>6, <1>9, <1>10, <1>11, <1>12, <1>13 DEF OfferInv
<1>15. CoordinatorInv'
  BY <1>4, CoordinatorKept DEF slotVars, goroutineVars
<1>16. ErrorsExplained' /\ LoopsInv'
  BY <1>4 DEF Open, ErrorsExplained, LoopsInv, Inv, userVars
<1>17. SlotTypes' /\ RestTypes'
  <2>1. received' \in SUBSET Offers
    BY <1>1, <1>4 DEF TypeOK
  <2> QED BY <1>4, <1>5, <2>1 DEF SlotTypes, RestTypes, TypeOK, slotVars, goroutineVars, channelVars, userVars
<1> QED BY <1>1, <1>5, <1>6, <1>7, <1>14, <1>15, <1>16, <1>17, OneOffer

\* The receiver answers for the whole offer and clears current.incoming: what
\* completeIncomingBatch and handlePeerCancellation have in common.
LEMMA ReceiverFinishes ==
    ASSUME TypeOK, Inv, Open, NEW o \in Offers, NEW p \in Peers, p = Receiver(o), Active(o),
           NEW t \in {"batch-complete", "cancel"}, NEW v \in {"ok", "canceled"},
           ClearIncoming(p, o, review), wire[p] # << >>, Head(wire[p]) = Frame(t, o),
           ConsumeAndSend(p, Answer("result", o, v)),
           UNCHANGED <<accepted, received, canceledOut, cancelSends, channelVars, userVars, handler, error>>,
           canceledIn' \in SUBSET Offers, ~ToReceiver(o, "files"),
           t = "batch-complete" => v = "ok" /\ run[o] = "final" /\ ~ResultPending(o, "ok"),
           t = "cancel" => v = "canceled" /\ o \in canceledOut
    PROVE  TypeOK' /\ Inv'
<1>1. /\ SenderKeeps(o) /\ ReceiverKeeps(o) /\ DecidedOnce(o) /\ InTransfer(o) /\ ResultsInOrder(o) /\ CancelInOrder(o)
      /\ OfferInv(o) /\ Other(p) = Owner[o] /\ incoming[p] = o /\ o \in accepted /\ Receiver(o) \in Peers
  BY OfferFacts DEF Inv, OfferInv, Active
<1>2. ~ResultPending(o, "canceled") /\ (v = "ok" => ~ResultPending(o, "ok")) /\ run[o] # "done"
      /\ (ResultPending(o, "ok") => run[o] = "results")
  BY <1>1 DEF InTransfer
<1>3. /\ Routed' /\ wire' \in [Peers -> Seq(Frames)]
      /\ WireEffect({<<Receiver(o), Frame(t, o)>>}, {<<Owner[o], Answer("result", o, v)>>})
  BY <1>1, OwnFrames, ConsumesAndSends DEF Inv
<1>4. /\ ResultsInOrder(o)' /\ ResultPending(o, v)'
      /\ \A u \in {"ok", "canceled"}: u # v => (ResultPending(o, u)' <=> ResultPending(o, u))
      /\ \A s \in {"offer", "files", "batch-complete", "cancel"}: s # t => ReceiverSame(o, s)
      /\ ToReceiver(o, t)' => ToReceiver(o, t)
      /\ Once(wire[Receiver(o)], Frame(t, o))
                => ~ToReceiver(o, t)' /\ Once(wire[Receiver(o)], Frame(t, o))'
      /\ CancelOrderSame(o) /\ DecisionsSame(o)
      /\ \A q \in Offers: q # o => SameFrames(q)
  <2>1. UNCHANGED resultCh
    BY DEF channelVars
  <2> QED BY <1>1, <1>2, <1>3, <2>1, ResultPut
<1>5. ReceiverSame(o, "offer") /\ ReceiverSame(o, "files")
  BY <1>4
<1>6. \A q \in Offers: SameRest(q)
  BY DEF SameRest, userVars, channelVars
<1>7. /\ SlotTypes' /\ CoordinatorInv'
      /\ \A q \in Offers: q # o => OfferInv(q)'
      /\ run'[o] = run[o] /\ review'[o] = review[o] /\ SameQueues(o)
      /\ \A q \in Peers: incoming'[q] # o /\ (outgoing'[q] = o <=> outgoing[q] = o)
  <2>1. PICK reviews: reviews = review
    OBVIOUS
  <2>2. /\ reviews \in [Offers -> {"none", "waiting", "accepting", "rejecting", "done"}]
        /\ ClearIncoming(p, o, reviews) /\ \A q \in Offers: q # o => reviews[q] = review[q]
    BY <2>1 DEF TypeOK
  <2>3. \A q \in Offers: q # o => SameFrames(q) /\ SameRest(q)
    BY <1>4, <1>6
  <2>4. reviews[o] = review[o]
    BY <2>1
  <2> QED BY <1>1, <2>2, <2>3, <2>4, ClearsIncoming
<1>8. SenderKeeps(o)' /\ ReceiverKeeps(o)' /\ ~Active(o)'
  <2>1. review'[o] # "none"
    BY <1>1, <1>7 DEF DecidedOnce
  <2>2. UNCHANGED <<command, sent, refused, canceledOut, handler, decisionCh>>
    BY DEF userVars, channelVars
  <2> QED BY <1>1, <1>5, <1>7, <2>1, <2>2, IncomingCleared
<1>9. OneDecision(o)' /\ (Answered(o)' <=> Answered(o)) /\ (Undecided(o)' <=> Undecided(o))
  <2>1. OneDecision(o)' /\ (Answered(o)' <=> Answered(o))
    BY <1>1, <1>4, DecisionKept DEF DecidedOnce, channelVars
  <2> QED BY <1>7, <2>1 DEF Undecided
<1>10. DecidedOnce(o)'
  <2>1. review[o] \in {"accepting", "done"} /\ (decisionCh[o])' = decisionCh[o]
    BY <1>1 DEF DecidedOnce, channelVars
  <2> QED BY <1>1, <1>5, <1>7, <1>9, <1>4, <2>1
      DEF DecidedOnce, ReceiverSame, DecisionsSame, SameQueues, HandlerHas, Decisions
<1>11. CancelInOrder(o)'
  <2>1. Once(wire[Receiver(o)], Frame("batch-complete", o))' /\ (ToReceiver(o, "cancel")' => ToReceiver(o, "cancel"))
    BY <1>1, <1>4 DEF CancelInOrder, ReceiverSame
  <2> QED BY <1>1, <1>4, <1>5, <2>1 DEF CancelInOrder, ReceiverSame, CancelOrderSame
<1>12. InTransfer(o)'
  <2>1. CASE t = "batch-complete"
    <3>1. ~ToReceiver(o, "batch-complete")' /\ ~ToReceiver(o, "files")'
      BY <1>1, <1>4, <1>5, <2>1 DEF CancelInOrder, ReceiverSame
    <3>2. v = "ok" /\ ~ResultPending(o, "canceled")' /\ o \in received /\ run[o] = "final"
      BY <1>1, <1>2, <1>4, <2>1 DEF InTransfer
    <3> QED BY <1>1, <1>7, <1>8, <3>1, <3>2 DEF InTransfer
  <2>2. CASE t = "cancel"
    <3>1. /\ ~ToReceiver(o, "files")' /\ (ToReceiver(o, "batch-complete")' <=> ToReceiver(o, "batch-complete"))
          /\ ResultPending(o, "ok")' <=> ResultPending(o, "ok")
      BY <1>4, <1>5, <2>2 DEF ReceiverSame
    <3> QED BY <1>1, <1>2, <1>7, <1>8, <2>2, <3>1 DEF InTransfer
  <2> QED BY <2>1, <2>2
<1>13. OfferInv(o)'
  BY <1>4, <1>8, <1>10, <1>11, <1>12 DEF OfferInv
<1>14. ErrorsExplained' /\ LoopsInv'
  BY DEF Open, ErrorsExplained, LoopsInv, Inv, userVars
<1>15. RestTypes'
  BY <1>3 DEF RestTypes, TypeOK, userVars, channelVars
<1> QED BY <1>3, <1>7, <1>13, <1>14, <1>15, TypesSplitNext DEF Inv
LEMMA ServeBatchCompleteInv ==
    ASSUME TypeOK, Inv, Open, NEW p \in Peers, ServeBatchComplete(p)
    PROVE  TypeOK' /\ Inv'
<1>0. PICK o: o = Head(wire[p]).offer
  OBVIOUS
<1>1. /\ o \in Offers /\ p = Receiver(o) /\ Other(p) = Owner[o] /\ OfferInv(o) /\ wire[p] # << >>
      /\ Head(wire[p]) = Frame("batch-complete", o) /\ ToReceiver(o, "batch-complete")
  BY <1>0, ServesReceiver DEF ServeBatchComplete
<1>2. /\ run[o] \in {"final", "done"} /\ ~ResultPending(o, "ok") /\ o \in received /\ ~ToReceiver(o, "files")
      /\ o \notin canceledOut => Active(o)
      /\ Active(o) => run[o] = "final"
  BY <1>1 DEF OfferInv, InTransfer
<1>3. CASE ~Active(o)
  <2>1. EndSession(p, "inconsistent batch")
    BY <1>0, <1>1, <1>3 DEF ServeBatchComplete, Active
  <2>2. canceledOut # {}
    BY <1>2, <1>3
  <2> QED BY <1>1, <2>1, <2>2, SessionEnds
<1>4. CASE Active(o)
  <2>1. /\ ConsumeAndSend(p, Answer("result", o, "ok")) /\ ClearIncoming(p, o, review)
        /\ UNCHANGED <<offerVars, channelVars, userVars, handler, error>>
    BY <1>0, <1>1, <1>2, <1>4 DEF ServeBatchComplete, Active
  <2>2. UNCHANGED <<accepted, received, canceledOut, cancelSends>> /\ canceledIn' \in SUBSET Offers
    BY <2>1 DEF offerVars, TypeOK
  <2> QED BY <1>1, <1>2, <1>4, <2>1, <2>2, ReceiverFinishes
<1> QED BY <1>3, <1>4

LEMMA ServeCancelInv ==
    ASSUME TypeOK, Inv, Open, NEW p \in Peers, ServeCancel(p)
    PROVE  TypeOK' /\ Inv'
<1>0. PICK o: o = Head(wire[p]).offer
  OBVIOUS
<1>1. /\ wire[p] # << >> /\ Head(wire[p]).type = "cancel" /\ Serving(p, "cancel")
      /\ UNCHANGED <<accepted, received, cancelSends, channelVars, userVars, handler, error>>
  BY DEF ServeCancel, Serving
<1>2. o \in Offers /\ Head(wire[p]) = Frame("cancel", o)
  BY <1>0, <1>1, HeadFrame DEF Inv
<1>3. /\ SenderKeeps(o) /\ ReceiverKeeps(o) /\ DecidedOnce(o) /\ InTransfer(o) /\ ResultsInOrder(o) /\ CancelInOrder(o)
      /\ OfferInv(o) /\ Receiver(o) = Other(Owner[o]) /\ Receiver(o) \in Peers
      /\ Frame("cancel", o).type = "cancel" /\ Frame("cancel", o).offer = o
  BY <1>2, OfferFacts DEF Inv, OfferInv, Frame
<1>4. CASE /\ outgoing[p] = o /\ canceledOut' = canceledOut \cup {o}
           /\ ConsumeAndSend(p, Frame("cancel", o)) /\ UNCHANGED <<slotVars, goroutineVars, canceledIn>>
  <2>1. p = Owner[o]
    BY <1>3, <1>4 DEF SenderKeeps
  <2>2. /\ Routed' /\ wire' \in [Peers -> Seq(Frames)]
        /\ WireEffect({<<p, Frame("cancel", o)>>}, {<<Receiver(o), Frame("cancel", o)>>})
    BY <1>1, <1>2, <1>3, <1>4, <2>1, OwnFrames, ConsumesAndSends DEF Inv
  <2>3. /\ \A t \in {"offer", "files", "batch-complete"}: ReceiverSame(o, t)
        /\ CancelOrderSame(o) /\ DecisionsSame(o) /\ ResultsSame(o)
    BY <1>2, <1>3, <2>2, TakePutViews
  <2>4. \A q \in Offers: q # o => SameFrames(q)
    BY <1>3, <2>2, TakePutOthers
  <2>5. ASSUME NEW q \in Offers, q # o PROVE SameRest(q) /\ SamePlace(q)
    BY <1>1, <1>4, <2>5 DEF SamePlace, SameSlots, SameQueues, SameRest, slotVars, goroutineVars, channelVars, userVars
  <2>6. OfferInv(o)'
    BY <1>1, <1>2, <1>3, <1>4, <2>1, <2>3, CancelNoted
  <2>7. CoordinatorInv'
    BY <1>1, <1>4, CoordinatorKept DEF slotVars, goroutineVars
  <2>8. ErrorsExplained' /\ LoopsInv'
    BY <1>1 DEF Open, ErrorsExplained, LoopsInv, Inv, userVars
  <2>9. SlotTypes' /\ RestTypes'
    <3>1. canceledOut' \in SUBSET Offers
      BY <1>2, <1>4 DEF TypeOK
    <3> QED BY <1>1, <1>4, <2>2, <3>1 DEF SlotTypes, RestTypes, TypeOK, slotVars, goroutineVars, channelVars, userVars
  <2> QED BY <1>2, <2>2, <2>4, <2>5, <2>6, <2>7, <2>8, <2>9, OneOffer
<1>5. CASE /\ incoming[p] = o /\ o \in accepted /\ canceledIn' = canceledIn \cup {o}
           /\ ConsumeAndSend(p, Answer("result", o, "canceled")) /\ ClearIncoming(p, o, review) /\ UNCHANGED canceledOut
  <2>1. p = Receiver(o) /\ Active(o)
    BY <1>3, <1>5 DEF ReceiverKeeps, Active
  <2>2. ToReceiver(o, "cancel") /\ ~ToReceiver(o, "files")
    <3>1. wire[p] \in Seq(Frames) /\ Before(wire[p], Frame("files", o), Frame("cancel", o))
      BY <1>3, <2>1 DEF TypeOK, CancelInOrder
    <3>2. Frame("files", o) # Frame("cancel", o)
      BY DEF Frame
    <3> QED BY <1>1, <1>2, <2>1, <3>1, <3>2, Tailed DEF ToReceiver
  <2>3. o \in canceledOut
    BY <1>3, <2>2 DEF CancelInOrder
  <2>4. canceledIn' \in SUBSET Offers
    BY <1>2, <1>5 DEF TypeOK
  <2> QED BY <1>1, <1>2, <1>5, <2>1, <2>2, <2>3, <2>4, ReceiverFinishes
<1>6. CASE Consume(p) /\ UNCHANGED <<slotVars, goroutineVars, canceledIn, canceledOut>>
  <2>1. Routed' /\ wire' \in [Peers -> Seq(Frames)] /\ WireEffect({<<p, Head(wire[p])>>}, {})
    BY <1>1, <1>6, Consumes DEF Inv
  <2>2. ASSUME NEW q \in Offers PROVE OfferInv(q)'
    <3>1. SamePlace(q) /\ SameRest(q)
      BY <1>1, <1>6 DEF SamePlace, SameSlots, SameQueues, slotVars, goroutineVars, SameRest, channelVars, userVars
    <3> QED BY <2>1, <3>1, FrameDropped DEF Inv
  <2>3. CoordinatorInv'
    BY <1>1, <1>6, CoordinatorKept DEF slotVars, goroutineVars
  <2>4. ErrorsExplained' /\ LoopsInv'
    BY <1>1 DEF Open, ErrorsExplained, LoopsInv, Inv, userVars
  <2>5. SlotTypes' /\ RestTypes'
    BY <1>1, <1>6, <2>1 DEF SlotTypes, RestTypes, TypeOK, slotVars, goroutineVars, channelVars, userVars
  <2> QED BY <2>1, <2>2, <2>3, <2>4, <2>5, TypesSplitNext DEF Inv
<1> QED BY <1>0, <1>4, <1>5, <1>6 DEF ServeCancel

---------------------------------------------------------------------------
(* The theorems                                                            *)

LEMMA InitInv == Init => TypeOK /\ Inv
<1> SUFFICES ASSUME Init PROVE TypeOK /\ Inv
  OBVIOUS
<1>1. /\ \A p \in Peers: incoming[p] = None /\ outgoing[p] = None /\ wire[p] = << >> /\ transferActive[p] = FALSE
      /\ \A o \in Offers: /\ run[o] = "none" /\ review[o] = "none" /\ decisionCh[o] = "none" /\ resultCh[o] = << >>
      /\ coordQueue = << >> /\ outQueue = << >> /\ coordActive = FALSE
      /\ accepted = {} /\ received = {} /\ canceledOut = {} /\ cancelSends = {} /\ sent = {} /\ refused = {}
      /\ command.at = "idle" /\ handler.at = "idle" /\ handler.offer = None /\ error = "none"
  BY DEF Init, Idle
<1>2. TypeOK
  <2>0. << >> \in Seq(Offers) /\ Len(<< >>) = 0 /\ 0 <= MaxQueued
    BY MaxQueuedAssumption
  <2>1. SlotTypes
    BY <2>0 DEF Init, SlotTypes
  <2>2. RestTypes
    BY DEF Init, RestTypes, Idle
  <2> QED BY <2>1, <2>2, TypesSplit
<1>3. Routed
  <2>1. \A S: << >> \in Seq(S)
    OBVIOUS
  <2> QED BY <1>1, <2>1 DEF Routed
<1>4. ASSUME NEW o \in Offers PROVE OfferInv(o)
  <2>1. Owner[o] \in Peers /\ Receiver(o) \in Peers /\ o # None
    BY OfferFacts
  <2>2. /\ \A t: ~ToReceiver(o, t)
        /\ \A v: ~Decided(o, v) /\ ~ResultSent(o, v) /\ ~ResultPending(o, v)
    BY <1>1, <2>1, EmptyQueue DEF ToReceiver, Decided, ResultSent, ResultPending
  <2>3. \A p \in Peers: \A x, y: Once(wire[p], x) /\ Before(wire[p], x, y)
    BY <1>1, EmptyQueue
  <2>4. Undecided(o)
    BY <1>1, <2>2 DEF Undecided, Answered
  <2>5. SenderKeeps(o)
    BY <1>1, <2>1, EmptyQueue DEF SenderKeeps, OwnQueue
  <2>6. ReceiverKeeps(o)
    BY <1>1, <2>1, <2>2, <2>3, <2>4, EmptyQueue DEF ReceiverKeeps, HandlerHas
  <2>7. DecidedOnce(o)
    <3>1. OneDecision(o)
      BY <2>1, <2>2, <2>3 DEF OneDecision
    <3> QED BY <1>1, <2>1, <2>2, <2>4, <3>1, EmptyQueue DEF DecidedOnce, HandlerHas, Transferring, Undecided
  <2>8. InTransfer(o)
    BY <1>1, <2>2 DEF InTransfer, Active
  <2>9. ResultsInOrder(o)
    BY <1>1, <2>1, <2>2, <2>3, EmptyQueue DEF ResultsInOrder
  <2>10. CancelInOrder(o)
    BY <1>1, <2>1, <2>2, <2>3 DEF CancelInOrder
  <2> QED BY <2>5, <2>6, <2>7, <2>8, <2>9, <2>10 DEF OfferInv
<1>5. CoordinatorInv /\ LoopsInv /\ ErrorsExplained
  BY <1>1 DEF CoordinatorInv, LoopsInv, ErrorsExplained, Peers
<1> QED BY <1>2, <1>3, <1>4, <1>5 DEF Inv

LEMMA NextInv == TypeOK /\ Inv /\ [Next]_vars => TypeOK' /\ Inv'
<1> SUFFICES ASSUME TypeOK, Inv, [Next]_vars PROVE TypeOK' /\ Inv'
  OBVIOUS
<1>1. ASSUME NEW o \in Offers, Open, SendInbound(o) PROVE TypeOK' /\ Inv'
  BY <1>1, SendInboundInv
<1>2. ASSUME NEW o \in Offers, Open, SendOutbound(o) PROVE TypeOK' /\ Inv'
  BY <1>2, SendOutboundInv
<1>3. ASSUME Open, SendManifest PROVE TypeOK' /\ Inv'
  BY <1>3, SendManifestInv
<1>4. ASSUME Open, TakeQueued PROVE TypeOK' /\ Inv'
  BY <1>4, TakeQueuedInv
<1>5. ASSUME NEW o \in Offers, Open, RunOutgoing(o) PROVE TypeOK' /\ Inv'
  BY <1>5, SubmitManifestInv, TakeDecisionInv, SendFilesInv, CollectResultInv, SendBatchCompleteInv, FinishOutgoingInv
  DEF RunOutgoing
<1>6. ASSUME NEW o \in Offers, Open, AcceptOffer(o) PROVE TypeOK' /\ Inv'
  BY <1>6, AcceptOfferInv
<1>7. ASSUME NEW o \in Offers, Open, RejectOffer(o) PROVE TypeOK' /\ Inv'
  BY <1>7, RejectOfferInv
<1>8. ASSUME NEW o \in Offers, Open, SendAcceptance(o) PROVE TypeOK' /\ Inv'
  BY <1>8, SendAcceptanceInv
<1>9. ASSUME NEW o \in Offers, Open, ClearRejected(o) PROVE TypeOK' /\ Inv'
  BY <1>9, ClearRejectedInv
<1>10. ASSUME NEW p \in Peers, Open, CancelActiveOffer(p) PROVE TypeOK' /\ Inv'
  BY <1>10, CancelActiveOfferInv
<1>11. ASSUME NEW p \in Peers, NEW o \in Offers, Open, SendCancel(p, o) PROVE TypeOK' /\ Inv'
  BY <1>11, SendCancelInv
<1>12. ASSUME NEW p \in Peers, Open, Serve(p) PROVE TypeOK' /\ Inv'
  BY <1>12, ServeOfferInboundInv, ServeOfferOutboundInv, ServeQueuedInv, ServeDecisionInv, ServeResultInv,
     ServeFilesInv, ServeBatchCompleteInv, ServeCancelInv DEF Serve
<1>13. ASSUME Open, AnswerOffer PROVE TypeOK' /\ Inv'
  BY <1>13, AnswerOfferInv
<1>14. CASE UNCHANGED vars
  <2>1. Routed' /\ \A o \in Offers: SameFrames(o)
    BY <1>14, Untouched, OtherFrames DEF Inv, vars
  <2>2. \A o \in Offers: SameRest(o) /\ SamePlace(o)
    BY <1>14 DEF SameRest, SamePlace, SameSlots, SameQueues, vars
  <2>3. \A o \in Offers: OfferInv(o)'
    BY <2>1, <2>2, OfferKept DEF Inv
  <2>4. CoordinatorInv'
    BY <1>14, CoordinatorKept DEF vars
  <2>5. ErrorsExplained' /\ LoopsInv'
    BY <1>14 DEF ErrorsExplained, LoopsInv, Inv, vars
  <2>6. SlotTypes' /\ RestTypes'
    BY <1>14 DEF SlotTypes, RestTypes, TypeOK, vars
  <2> QED BY <2>1, <2>3, <2>4, <2>5, <2>6, TypesSplitNext DEF Inv
<1> QED BY <1>1, <1>2, <1>3, <1>4, <1>5, <1>6, <1>7, <1>8, <1>9, <1>10, <1>11, <1>12, <1>13, <1>14 DEF Next

\* The inductive invariant holds in every state of a session.
THEOREM OffersCorrect == Spec => [](TypeOK /\ Inv)
<1>1. Init => TypeOK /\ Inv
  BY InitInv
<1>2. TypeOK /\ Inv /\ [Next]_vars => (TypeOK /\ Inv)'
  BY NextInv
<1> QED BY <1>1, <1>2, PTL DEF Spec

\* Every variable has its type and no queue of sendPaths or of the coordinator
\* outgrows maxQueuedOffers.
THEOREM OfferTypesHold == Spec => []TypeOK
BY OffersCorrect, PTL

\* takeCoordinatorOfferLocked: the coordinator has at most one offer in hand,
\* coordinatorActive says so, it is never idle while offers wait, and an offer
\* that waits is in the queue once, neither in hand nor settled.
THEOREM CoordinatorHoldsOneOfferHolds == Spec => []CoordinatorHoldsOneOffer
<1>1. TypeOK /\ Inv => CoordinatorHoldsOneOffer
  <2> SUFFICES ASSUME TypeOK, Inv PROVE CoordinatorHoldsOneOffer
    OBVIOUS
  <2>1. ASSUME NEW i \in DOMAIN coordQueue, NEW o, o = coordQueue[i]
        PROVE  /\ \A j \in DOMAIN coordQueue: coordQueue[j] = o => j = i
               /\ o \notin {incoming["in"], outgoing["in"]} /\ o \notin accepted /\ run[o] # "done"
    <3>1. DOMAIN coordQueue = 1..Len(coordQueue) /\ o \in Offers /\ InQueue(coordQueue, o)
      BY <2>1 DEF TypeOK, InQueue
    <3>2. SenderKeeps(o) /\ ReceiverKeeps(o) /\ DecidedOnce(o) /\ "in" \in Peers
      BY <3>1 DEF Inv, OfferInv, Peers
    <3>3. \A j \in DOMAIN coordQueue: coordQueue[j] = o => j = i
      BY <2>1, <3>1, <3>2 DEF SenderKeeps, Once
    <3>4. o \notin accepted /\ run[o] # "done" /\ incoming["in"] # o
      BY <3>1, <3>2 DEF DecidedOnce, Undecided, ReceiverKeeps
    <3>5. outgoing["in"] # o
      BY <3>1, <3>2 DEF SenderKeeps, OwnQueue
    <3> QED BY <3>3, <3>4, <3>5
  <2>2. /\ coordActive <=> (incoming["in"] # None \/ outgoing["in"] # None)
        /\ incoming["in"] = None \/ outgoing["in"] = None
        /\ coordQueue # << >> => coordActive
    BY DEF Inv, CoordinatorInv
  <2> QED BY <2>1, <2>2 DEF CoordinatorHoldsOneOffer
<1> QED BY <1>1, OffersCorrect, PTL

\* The coordinator's transferActive, which exempts the session from the idle
\* timeout and lets cancel through, is about the offer it has in hand.
THEOREM CoordinatorKnowsItsTransferHolds == Spec => []CoordinatorKnowsItsTransfer
<1>1. TypeOK /\ Inv => CoordinatorKnowsItsTransfer
  <2> SUFFICES ASSUME TypeOK, Inv PROVE CoordinatorKnowsItsTransfer
    OBVIOUS
  <2>1. CoordinatorInv /\ None \notin accepted
    BY OfferFacts DEF Inv, TypeOK
  <2>2. ASSUME outgoing["in"] # None, run[outgoing["in"]] \in Transferring PROVE outgoing["in"] \in accepted
    <3>1. outgoing["in"] \in Offers
      BY <2>2 DEF TypeOK, Peers
    <3> QED BY <2>2, <3>1 DEF Inv, OfferInv, DecidedOnce
  <2> QED BY <2>1, <2>2 DEF CoordinatorKnowsItsTransfer, CoordinatorInv, ActiveOffer
<1> QED BY <1>1, OffersCorrect, PTL

\* The other Peer meets a second offer of the coordinator only when it has sent
\* its rejection of the first and not yet cleared current.incoming.
THEOREM OverlapOnlyAfterRejectionHolds == Spec => []OverlapOnlyAfterRejection
<1>1. TypeOK /\ Inv => OverlapOnlyAfterRejection
  BY DEF Inv, ErrorsExplained, OverlapOnlyAfterRejection
<1> QED BY <1>1, OffersCorrect, PTL

\* A decision, a result and content always find their offer, and so does the
\* completion of a batch that nobody cancels.
THEOREM AnswersFindTheirOfferHolds == Spec => []AnswersFindTheirOffer
<1>1. TypeOK /\ Inv => AnswersFindTheirOffer
  BY DEF Inv, ErrorsExplained, AnswersFindTheirOffer
<1> QED BY <1>1, OffersCorrect, PTL

\* At most one accepted offer is being received in the session: the two Peers
\* never receive from each other at the same time.
THEOREM OneTransferAtATimeHolds == Spec => []OneTransferAtATime
<1>1. TypeOK /\ Inv => OneTransferAtATime
  <2> SUFFICES ASSUME TypeOK, Inv, NEW o \in Offers, NEW q \in Offers, o \in accepted, incoming[Receiver(o)] = o,
                      q \in accepted, incoming[Receiver(q)] = q
               PROVE  o = q
    BY DEF OneTransferAtATime
  <2>1. ASSUME NEW u \in Offers, u \in accepted, incoming[Receiver(u)] = u, Receiver(u) = "out"
        PROVE  outgoing["in"] = u /\ incoming["in"] = None
    <3>1. DecidedOnce(u)
      BY DEF Inv, OfferInv
    <3>2. review[u] # "rejecting" /\ incoming["out"] = u /\ Owner[u] = "in"
      BY <2>1, <3>1, OfferFacts DEF DecidedOnce, Receiver, Other, Peers
    <3>3. outgoing["in"] = u
      BY <3>2, HeldByCoordinator
    <3> QED BY <3>3, OfferFacts DEF Inv, CoordinatorInv
  <2>2. Receiver(o) \in {"in", "out"} /\ Receiver(q) \in {"in", "out"} /\ o # None /\ q # None
    BY OfferFacts DEF Peers
  <2> QED BY <2>1, <2>2
<1> QED BY <1>1, OffersCorrect, PTL
=============================================================================
