------------------------- MODULE OfferCoordination -------------------------
(***************************************************************************)
(* How the two Peers of a verified Transfer Session take turns: the Peer   *)
(* that accepted the connection ("in", session.Inbound) coordinates, puts  *)
(* the offers of both Peers into one queue and activates them one by one;  *)
(* the other ("out", session.Outbound) keeps its own queue beside it.      *)
(* internal/terminal/send.go, offer_intake.go, offer_control.go and the    *)
(* routing in connection.go.                                               *)
(*                                                                         *)
(* Every offer holds one file whose transfer succeeds (FileTransfer is     *)
(* about the files): "files" stands for the content and completion frames, *)
(* which are checked against outgoing.canceled, and a manifest is one      *)
(* frame, since nothing but the offer's own record changes between its     *)
(* header and its last entry.                                              *)
(*                                                                         *)
(* A step is a critical section of App.mu together with the local work     *)
(* after it; a Send after the unlock is a step of its own wherever         *)
(* another goroutine can get in between with a consequence.                *)
(***************************************************************************)
EXTENDS Naturals, Sequences, FiniteSets

CONSTANTS
    Owner,       \* Owner[o]: the Peer whose user sends offer o, in this order
    MaxQueued,   \* maxQueuedOffers (64)
    Cancellers   \* the Peers whose users cancel

Peers == {"in", "out"}
Offers == DOMAIN Owner

ASSUME OwnerAssumption == Owner \in Seq(Peers)
ASSUME MaxQueuedAssumption == MaxQueued \in Nat \ {0}
ASSUME CancellersAssumption == Cancellers \subseteq Peers

VARIABLES
    incoming,        \* incoming[p]: current.incoming
    outgoing,        \* outgoing[p]: current.outgoing
    coordQueue,      \* current.coordinatorQueue of "in"
    coordActive,     \* current.coordinatorActive of "in"
    outQueue,        \* current.outgoingQueue of "out"
    transferActive,  \* transferActive[p]
    wire,            \* wire[p]: frames on their way to p
    run,             \* run[o]: where runOutgoing is for offer o
    review,          \* review[o]: where reviewIncomingOffer is for offer o
    accepted,        \* offers whose incomingOffer.accepted is set
    received,        \* offers whose file the receiver has published
    canceledOut,     \* offers whose outgoingOffer.canceled is set
    canceledIn,      \* offers whose incomingOffer.canceled is set
    cancelSends,     \* <<p, o>>: a goroutine of p's cancelActiveOffer to run
    decisionCh,      \* decisionCh[o]: outgoing.decision, capacity 1
    resultCh,        \* resultCh[o]: outgoing.result
    queuedCh,        \* queuedCh[o]: outgoing.queued, capacity 1
    command,         \* what the input loop of "out" is doing
    handler,         \* what the serve loop of "in" still has to do
    sent,            \* offers whose send command was given
    refused,         \* offers refused at the prompt because a queue was full
    error            \* why a serve loop ended the session, or "none"

vars == <<incoming, outgoing, coordQueue, coordActive, outQueue, transferActive, wire,
          run, review, accepted, received, canceledOut, canceledIn, cancelSends,
          decisionCh, resultCh, queuedCh, command, handler, sent, refused, error>>

None == 0
Other(p) == IF p = "in" THEN "out" ELSE "in"
Idle == [at |-> "idle", offer |-> None]
Receiver(o) == Other(Owner[o])
InQueue(queue, o) == \E i \in 1..Len(queue): queue[i] = o
HeadOrNone(queue) == IF queue = << >> THEN None ELSE Head(queue)

Errors == {"overlapping offers", "unknown queue acknowledgement", "unknown decision",
           "unknown result", "unexpected content", "inconsistent batch"}
Verdicts == {"accept", "reject", "full", "ok", "canceled", "none"}
Frames ==
    [type: {"offer", "queued", "decision", "files", "result", "batch-complete", "cancel"},
     offer: Offers, verdict: Verdicts]
Frame(type, o) == [type |-> type, offer |-> o, verdict |-> "none"]
Answer(type, o, verdict) == [type |-> type, offer |-> o, verdict |-> verdict]

\* Every variable has its type, and no queue outgrows maxQueuedOffers whichever
\* of the two Peers fills it.
TypeOK ==
    /\ incoming \in [Peers -> Offers \cup {None}]
    /\ outgoing \in [Peers -> Offers \cup {None}]
    /\ coordQueue \in Seq(Offers) /\ Len(coordQueue) <= MaxQueued
    /\ coordActive \in BOOLEAN
    /\ outQueue \in Seq(Offers) /\ Len(outQueue) <= MaxQueued
    /\ transferActive \in [Peers -> BOOLEAN]
    /\ wire \in [Peers -> Seq(Frames)]
    /\ run \in [Offers -> {"none", "submit", "decision", "transfer", "results", "batch",
                           "final", "done"}]
    /\ review \in [Offers -> {"none", "waiting", "accepting", "rejecting", "done"}]
    /\ accepted \in SUBSET Offers /\ received \in SUBSET Offers
    /\ canceledOut \in SUBSET Offers /\ canceledIn \in SUBSET Offers
    /\ cancelSends \in SUBSET (Peers \X Offers)
    /\ decisionCh \in [Offers -> {"none", "accept", "reject", "full"}]
    /\ resultCh \in [Offers -> Seq({"ok", "canceled"})]
    /\ queuedCh \in [Offers -> {"none", "yes", "no"}]
    /\ command \in [at: {"idle", "send", "queue", "ack"}, offer: Offers \cup {None}]
    /\ handler \in [at: {"idle", "queued", "full"}, offer: Offers \cup {None}]
    /\ sent \in SUBSET Offers /\ refused \in SUBSET Offers
    /\ error \in Errors \cup {"none"}

Init ==
    /\ incoming = [p \in Peers |-> None]
    /\ outgoing = [p \in Peers |-> None]
    /\ coordQueue = << >> /\ coordActive = FALSE /\ outQueue = << >>
    /\ transferActive = [p \in Peers |-> FALSE]
    /\ wire = [p \in Peers |-> << >>]
    /\ run = [o \in Offers |-> "none"]
    /\ review = [o \in Offers |-> "none"]
    /\ accepted = {} /\ received = {} /\ canceledOut = {} /\ canceledIn = {}
    /\ cancelSends = {}
    /\ decisionCh = [o \in Offers |-> "none"]
    /\ resultCh = [o \in Offers |-> << >>]
    /\ queuedCh = [o \in Offers |-> "none"]
    /\ command = Idle /\ handler = Idle
    /\ sent = {} /\ refused = {}
    /\ error = "none"

slotVars == <<incoming, outgoing, coordQueue, coordActive, outQueue, transferActive>>
goroutineVars == <<run, review>>
offerVars == <<accepted, received, canceledOut, canceledIn, cancelSends>>
channelVars == <<decisionCh, resultCh, queuedCh>>
userVars == <<command, sent, refused>>

\* Session.Send by p, and Receive plus Send by p's serve loop.
Send(p, frame) == wire' = [wire EXCEPT ![Other(p)] = Append(@, frame)]
Consume(p) == wire' = [wire EXCEPT ![p] = Tail(@)]
ConsumeAndSend(p, frame) ==
    wire' = [wire EXCEPT ![p] = Tail(@), ![Other(p)] = Append(@, frame)]

---------------------------------------------------------------------------
(* Taking and freeing the slots current.incoming and current.outgoing      *)

\* The goroutine that startCoordinatorOffer or takeNextOutgoing starts for
\* the offer that took a slot of p: the manifest of an Outbound Peer's own
\* offer has been sent already.
StartRun(runs, p, next) ==
    IF next # None /\ Owner[next] = p
    THEN [runs EXCEPT ![next] = IF p = "in" THEN "submit" ELSE "decision"]
    ELSE runs
StartReview(reviews, p, next) ==
    IF next # None /\ Owner[next] # p THEN [reviews EXCEPT ![next] = "waiting"] ELSE reviews

\* BUG VARIANTS of NextOffer: the coordinator, or the other Peer, forgets its
\* queue when a slot is freed.
NextOfferOutboundOnly(p, otherSlot) ==
    IF p = "in" \/ otherSlot # None THEN None ELSE HeadOrNone(outQueue)
NextOfferInboundOnly(p, otherSlot) == IF p = "in" THEN HeadOrNone(coordQueue) ELSE None

\* takeCoordinatorOfferLocked on "in" once coordinatorActive is FALSE, and
\* takeNextOutgoingLocked on "out", which waits while the other slot is held.
NextOffer(p, otherSlot) ==
    IF p = "in" THEN HeadOrNone(coordQueue)
    ELSE IF otherSlot # None THEN None
    ELSE HeadOrNone(outQueue)

\* BUG VARIANT of TakeSlot: the flag of the offer before is kept.
TakeSlotKeepingActive(p, next, inc, out) ==
    /\ incoming' = [incoming EXCEPT ![p] = IF next # None /\ Owner[next] # p THEN next ELSE inc]
    /\ outgoing' = [outgoing EXCEPT ![p] = IF next # None /\ Owner[next] = p THEN next ELSE out]
    /\ coordActive' = IF p = "in" THEN next # None ELSE coordActive
    /\ coordQueue' = IF p = "in" /\ next # None THEN Tail(coordQueue) ELSE coordQueue
    /\ outQueue' = IF p = "out" /\ next # None THEN Tail(outQueue) ELSE outQueue
    /\ UNCHANGED transferActive

\* The slots of p after next took its own, the other being inc or out.
TakeSlot(p, next, inc, out) ==
    /\ incoming' = [incoming EXCEPT ![p] = IF next # None /\ Owner[next] # p THEN next ELSE inc]
    /\ outgoing' = [outgoing EXCEPT ![p] = IF next # None /\ Owner[next] = p THEN next ELSE out]
    /\ coordActive' = IF p = "in" THEN next # None ELSE coordActive
    /\ coordQueue' = IF p = "in" /\ next # None THEN Tail(coordQueue) ELSE coordQueue
    /\ outQueue' = IF p = "out" /\ next # None THEN Tail(outQueue) ELSE outQueue
    /\ transferActive' = [transferActive EXCEPT ![p] = FALSE]

\* clearOutgoing at the end of offer o's runOutgoing.
ClearOutgoing(p, o) ==
    IF outgoing[p] # o
    THEN run' = [run EXCEPT ![o] = "done"] /\ UNCHANGED <<slotVars, review>>
    ELSE LET next == NextOffer(p, incoming[p]) IN
         /\ TakeSlot(p, next, incoming[p], None)
         /\ run' = StartRun([run EXCEPT ![o] = "done"], p, next)
         /\ review' = StartReview(review, p, next)

\* clearIncoming; reviews is the state of the reviews the caller leaves.
ClearIncoming(p, o, reviews) ==
    IF incoming[p] # o
    THEN review' = reviews /\ UNCHANGED <<slotVars, run>>
    ELSE LET next == NextOffer(p, outgoing[p]) IN
         /\ TakeSlot(p, next, None, outgoing[p])
         /\ run' = StartRun(run, p, next)
         /\ review' = StartReview(reviews, p, next)

---------------------------------------------------------------------------
(* sendPaths                                                               *)

\* The users send their offers in the order of their numbers.
NextToSend(p) == {o \in Offers \ sent: Owner[o] = p /\ \A q \in 1..(o - 1): Owner[q] = p => q \in sent}

\* BUG VARIANT of QueueFull: off by one.
QueueOverfull(queue) == Len(queue) > MaxQueued
QueueFull(queue) == Len(queue) >= MaxQueued

\* BUG VARIANT of CoordinatorBusy: only the offer's own slot is looked at.
OwnSlotBusy(slot) == slot # None
\* takeCoordinatorOfferLocked returns nil, whichever slot the offer needs.
CoordinatorBusy(slot) == coordActive

\* The coordinator's own offer: into the queue, and at once out of it when no
\* offer is active (the queue is empty then, CoordinatorHoldsOneOffer).
SendInbound(o) ==
    /\ o \in NextToSend("in")
    /\ sent' = sent \cup {o}
    /\ IF QueueFull(coordQueue)
       THEN refused' = refused \cup {o} /\ UNCHANGED <<slotVars, goroutineVars>>
       ELSE /\ UNCHANGED <<refused, incoming, outQueue, transferActive, review>>
            /\ IF CoordinatorBusy(outgoing["in"])
               THEN /\ coordQueue' = Append(coordQueue, o)
                    /\ UNCHANGED <<coordActive, outgoing, run>>
               ELSE /\ coordQueue' = Tail(Append(coordQueue, o))
                    /\ coordActive' = TRUE
                    /\ outgoing' = [outgoing EXCEPT !["in"] = Head(Append(coordQueue, o))]
                    /\ run' = [run EXCEPT ![Head(Append(coordQueue, o))] = "submit"]
    /\ UNCHANGED <<offerVars, channelVars, wire, command, handler, error>>

\* The other Peer's offer takes current.outgoing when it is free, else the
\* queue: the queue itself is not looked at.
SendOutbound(o) ==
    /\ command = Idle /\ o \in NextToSend("out")
    /\ sent' = sent \cup {o}
    /\ IF outgoing["out"] # None
       THEN /\ UNCHANGED outgoing
            /\ IF QueueFull(outQueue)
               THEN refused' = refused \cup {o} /\ UNCHANGED <<outQueue, command>>
               ELSE /\ outQueue' = Append(outQueue, o)
                    /\ command' = [at |-> "queue", offer |-> o]
                    /\ UNCHANGED refused
       ELSE /\ outgoing' = [outgoing EXCEPT !["out"] = o]
            /\ command' = [at |-> "send", offer |-> o]
            /\ UNCHANGED <<outQueue, refused>>
    /\ UNCHANGED <<incoming, coordQueue, coordActive, transferActive, goroutineVars,
                   offerVars, channelVars, wire, handler, error>>

\* sendManifest from the input loop; then runOutgoing is started, or the loop
\* waits for the coordinator's acknowledgement.
SendManifest ==
    /\ command.at \in {"send", "queue"}
    /\ Send("out", Frame("offer", command.offer))
    /\ command' = IF command.at = "queue" THEN [at |-> "ack", offer |-> command.offer] ELSE Idle
    /\ run' = IF command.at = "send" THEN [run EXCEPT ![command.offer] = "decision"] ELSE run
    /\ UNCHANGED <<slotVars, review, offerVars, channelVars, handler, sent, refused, error>>

TakeQueued ==
    /\ command.at = "ack" /\ queuedCh[command.offer] # "none"
    /\ queuedCh' = [queuedCh EXCEPT ![command.offer] = "none"]
    /\ command' = Idle
    /\ UNCHANGED <<slotVars, goroutineVars, offerVars, decisionCh, resultCh, wire, handler,
                   sent, refused, error>>

---------------------------------------------------------------------------
(* runOutgoing                                                             *)

SubmitManifest(o) ==
    /\ run[o] = "submit"
    /\ run' = [run EXCEPT ![o] = "decision"]
    /\ Send("in", Frame("offer", o))
    /\ UNCHANGED <<slotVars, review, offerVars, channelVars, userVars, handler, error>>

TakeDecision(o) ==
    /\ run[o] = "decision" /\ decisionCh[o] # "none"
    /\ decisionCh' = [decisionCh EXCEPT ![o] = "none"]
    /\ IF decisionCh[o] = "accept"
       THEN /\ run' = [run EXCEPT ![o] = "transfer"]
            /\ transferActive' = [transferActive EXCEPT ![Owner[o]] = TRUE]
            /\ UNCHANGED <<incoming, outgoing, coordQueue, coordActive, outQueue, review>>
       ELSE ClearOutgoing(Owner[o], o)
    /\ UNCHANGED <<offerVars, resultCh, queuedCh, wire, userVars, handler, error>>

\* The workers: nothing is sent once canceled is set.
SendFiles(o) ==
    /\ run[o] = "transfer"
    /\ run' = [run EXCEPT ![o] = "results"]
    /\ IF o \in canceledOut THEN UNCHANGED wire ELSE Send(Owner[o], Frame("files", o))
    /\ UNCHANGED <<slotVars, review, offerVars, channelVars, userVars, handler, error>>

CollectResult(o) ==
    /\ run[o] = "results" /\ resultCh[o] # << >>
    /\ resultCh' = [resultCh EXCEPT ![o] = Tail(@)]
    /\ IF Head(resultCh[o]) = "canceled"
       THEN ClearOutgoing(Owner[o], o)
       ELSE run' = [run EXCEPT ![o] = "batch"] /\ UNCHANGED <<slotVars, review>>
    /\ UNCHANGED <<offerVars, decisionCh, queuedCh, wire, userVars, handler, error>>

SendBatchComplete(o) ==
    /\ run[o] = "batch"
    /\ run' = [run EXCEPT ![o] = "final"]
    /\ Send(Owner[o], Frame("batch-complete", o))
    /\ UNCHANGED <<slotVars, review, offerVars, channelVars, userVars, handler, error>>

FinishOutgoing(o) ==
    /\ run[o] = "final" /\ resultCh[o] # << >>
    /\ resultCh' = [resultCh EXCEPT ![o] = Tail(@)]
    /\ ClearOutgoing(Owner[o], o)
    /\ UNCHANGED <<offerVars, decisionCh, queuedCh, wire, userVars, handler, error>>

RunOutgoing(o) ==
    \/ SubmitManifest(o) \/ TakeDecision(o) \/ SendFiles(o) \/ CollectResult(o)
    \/ SendBatchComplete(o) \/ FinishOutgoing(o)

---------------------------------------------------------------------------
(* reviewIncomingOffer                                                     *)

\* The input loop of p is free to read the user's answer.
AtPrompt(p) == p = "out" => command = Idle

AcceptOffer(o) ==
    /\ review[o] = "waiting" /\ incoming[Receiver(o)] = o /\ AtPrompt(Receiver(o))
    /\ review' = [review EXCEPT ![o] = "accepting"]
    /\ accepted' = accepted \cup {o}
    /\ transferActive' = [transferActive EXCEPT ![Receiver(o)] = TRUE]
    /\ UNCHANGED <<incoming, outgoing, coordQueue, coordActive, outQueue, run, received,
                   canceledOut, canceledIn, cancelSends, channelVars, wire, userVars,
                   handler, error>>

SendAcceptance(o) ==
    /\ review[o] = "accepting"
    /\ review' = [review EXCEPT ![o] = "done"]
    /\ Send(Receiver(o), Answer("decision", o, "accept"))
    /\ UNCHANGED <<slotVars, run, offerVars, channelVars, userVars, handler, error>>

\* The decision is on the wire before the slot is free again.
RejectOffer(o) ==
    /\ review[o] = "waiting" /\ incoming[Receiver(o)] = o /\ AtPrompt(Receiver(o))
    /\ review' = [review EXCEPT ![o] = "rejecting"]
    /\ Send(Receiver(o), Answer("decision", o, "reject"))
    /\ UNCHANGED <<slotVars, run, offerVars, channelVars, userVars, handler, error>>

ClearRejected(o) ==
    /\ review[o] = "rejecting"
    /\ ClearIncoming(Receiver(o), o, [review EXCEPT ![o] = "done"])
    /\ UNCHANGED <<offerVars, channelVars, wire, userVars, handler, error>>

---------------------------------------------------------------------------
(* cancelActiveOffer                                                       *)

\* The outgoing offer comes first, whichever offer is being transferred.
ActiveOffer(p) == IF outgoing[p] # None THEN outgoing[p] ELSE incoming[p]

CancelActiveOffer(p) ==
    LET o == ActiveOffer(p) IN
    /\ p \in Cancellers /\ AtPrompt(p) /\ transferActive[p] /\ o # None
    /\ IF Owner[o] = p
       THEN o \notin canceledOut /\ canceledOut' = canceledOut \cup {o} /\ UNCHANGED canceledIn
       ELSE o \notin canceledIn /\ canceledIn' = canceledIn \cup {o} /\ UNCHANGED canceledOut
    /\ cancelSends' = cancelSends \cup {<<p, o>>}
    /\ UNCHANGED <<slotVars, goroutineVars, accepted, received, channelVars, wire, userVars,
                   handler, error>>

SendCancel(p, o) ==
    /\ <<p, o>> \in cancelSends
    /\ cancelSends' = cancelSends \ {<<p, o>>}
    /\ Send(p, Frame("cancel", o))
    /\ UNCHANGED <<slotVars, goroutineVars, accepted, received, canceledOut, canceledIn,
                   channelVars, userVars, handler, error>>

---------------------------------------------------------------------------
(* serveSession                                                            *)

\* The serve loop of p is at Receive and the next frame has this type.
Serving(p, type) ==
    /\ wire[p] # << >> /\ Head(wire[p]).type = type
    /\ p = "in" => handler = Idle

\* BUG VARIANT of KnownOutgoing: queued offers are not looked for.
CurrentOutgoing(p, o) == outgoing[p] = o

\* findOutgoingLocked
KnownOutgoing(p, o) == outgoing[p] = o \/ (p = "out" /\ InQueue(outQueue, o))

EndSession(p, why) ==
    /\ error' = why
    /\ Consume(p)
    /\ UNCHANGED <<slotVars, goroutineVars, offerVars, channelVars, userVars, handler>>

\* offer-complete at the coordinator: the queue under the lock, the answer and
\* the start of the activated offer after it.
ServeOfferInbound ==
    /\ Serving("in", "offer")
    /\ LET o == Head(wire["in"]).offer IN
       IF QueueFull(coordQueue)
       THEN /\ handler' = [at |-> "full", offer |-> o]
            /\ UNCHANGED slotVars
       ELSE /\ handler' = [at |-> "queued", offer |-> o]
            /\ IF CoordinatorBusy(incoming["in"])
               THEN coordQueue' = Append(coordQueue, o) /\ UNCHANGED <<coordActive, incoming>>
               ELSE /\ coordQueue' = Tail(Append(coordQueue, o))
                    /\ coordActive' = TRUE
                    /\ incoming' = [incoming EXCEPT !["in"] = Head(Append(coordQueue, o))]
            /\ UNCHANGED <<outgoing, outQueue, transferActive>>
    /\ Consume("in")
    /\ UNCHANGED <<goroutineVars, offerVars, channelVars, userVars, error>>

\* The rest of that handler: the acknowledgement, then startCoordinatorOffer
\* (only the offer that was just activated can be the current one unreviewed).
AnswerOffer ==
    /\ handler # Idle
    /\ handler' = Idle
    /\ Send("in", IF handler.at = "full" THEN Answer("decision", handler.offer, "full")
                  ELSE Frame("queued", handler.offer))
    /\ review' = IF incoming["in"] = handler.offer /\ review[handler.offer] = "none"
                 THEN [review EXCEPT ![handler.offer] = "waiting"] ELSE review
    /\ UNCHANGED <<slotVars, run, offerVars, channelVars, userVars, error>>

\* offer-complete at the other Peer: there is room for one.
ServeOfferOutbound ==
    /\ Serving("out", "offer")
    /\ LET o == Head(wire["out"]).offer IN
       IF incoming["out"] # None THEN EndSession("out", "overlapping offers")
       ELSE /\ incoming' = [incoming EXCEPT !["out"] = o]
            /\ review' = [review EXCEPT ![o] = "waiting"]
            /\ Consume("out")
            /\ UNCHANGED <<outgoing, coordQueue, coordActive, outQueue, transferActive, run,
                           offerVars, channelVars, userVars, handler, error>>

\* routeQueuedOutgoing
ServeQueued(p) ==
    /\ Serving(p, "queued")
    /\ LET o == Head(wire[p]).offer IN
       IF ~KnownOutgoing(p, o) THEN EndSession(p, "unknown queue acknowledgement")
       ELSE /\ queuedCh[o] = "none"
            /\ queuedCh' = [queuedCh EXCEPT ![o] = "yes"]
            /\ Consume(p)
            /\ UNCHANGED <<slotVars, goroutineVars, offerVars, decisionCh, resultCh, userVars,
                           handler, error>>

\* routeOutgoing(decision): a full queue also answers the waiting send command.
ServeDecision(p) ==
    /\ Serving(p, "decision")
    /\ LET o == Head(wire[p]).offer
           verdict == Head(wire[p]).verdict
       IN IF ~KnownOutgoing(p, o) THEN EndSession(p, "unknown decision")
          ELSE /\ decisionCh[o] = "none"
               /\ decisionCh' = [decisionCh EXCEPT ![o] = verdict]
               /\ queuedCh' = IF verdict = "full" /\ queuedCh[o] = "none"
                              THEN [queuedCh EXCEPT ![o] = "no"] ELSE queuedCh
               /\ Consume(p)
               /\ UNCHANGED <<slotVars, goroutineVars, offerVars, resultCh, userVars, handler,
                              error>>

\* routeOutgoing(result): only the current outgoing offer has results.
ServeResult(p) ==
    /\ Serving(p, "result")
    /\ LET o == Head(wire[p]).offer IN
       IF outgoing[p] # o THEN EndSession(p, "unknown result")
       ELSE /\ resultCh' = [resultCh EXCEPT ![o] = Append(@, Head(wire[p]).verdict)]
            /\ Consume(p)
            /\ UNCHANGED <<slotVars, goroutineVars, offerVars, decisionCh, queuedCh, userVars,
                           handler, error>>

\* receiveContent and completeIncomingFile
ServeFiles(p) ==
    /\ Serving(p, "files")
    /\ LET o == Head(wire[p]).offer IN
       IF incoming[p] # o \/ o \notin accepted THEN EndSession(p, "unexpected content")
       ELSE /\ received' = received \cup {o}
            /\ ConsumeAndSend(p, Answer("result", o, "ok"))
            /\ UNCHANGED <<slotVars, goroutineVars, accepted, canceledOut, canceledIn,
                           cancelSends, channelVars, userVars, handler, error>>

\* BUG VARIANT of ServeBatchComplete: the slot is not freed.
ServeBatchKeepingSlot(p) ==
    /\ Serving(p, "batch-complete")
    /\ ConsumeAndSend(p, Answer("result", Head(wire[p]).offer, "ok"))
    /\ UNCHANGED <<slotVars, goroutineVars, offerVars, channelVars, userVars, handler, error>>

\* completeIncomingBatch
ServeBatchComplete(p) ==
    /\ Serving(p, "batch-complete")
    /\ LET o == Head(wire[p]).offer IN
       IF incoming[p] # o \/ o \notin accepted \/ o \notin received
       THEN EndSession(p, "inconsistent batch")
       ELSE /\ ConsumeAndSend(p, Answer("result", o, "ok"))
            /\ ClearIncoming(p, o, review)
            /\ UNCHANGED <<offerVars, channelVars, userVars, handler, error>>

\* handlePeerCancellation: the sender echoes, the receiver drops the offer,
\* and a cancellation of anything else is ignored.
ServeCancel(p) ==
    /\ Serving(p, "cancel")
    /\ LET o == Head(wire[p]).offer IN
       \/ /\ outgoing[p] = o
          /\ canceledOut' = canceledOut \cup {o}
          /\ ConsumeAndSend(p, Frame("cancel", o))
          /\ UNCHANGED <<slotVars, goroutineVars, canceledIn>>
       \/ /\ outgoing[p] # o /\ incoming[p] = o /\ o \in accepted
          /\ canceledIn' = canceledIn \cup {o}
          /\ ConsumeAndSend(p, Answer("result", o, "canceled"))
          /\ ClearIncoming(p, o, review)
          /\ UNCHANGED canceledOut
       \/ /\ outgoing[p] # o /\ ~(incoming[p] = o /\ o \in accepted)
          /\ Consume(p)
          /\ UNCHANGED <<slotVars, goroutineVars, canceledIn, canceledOut>>
    /\ UNCHANGED <<accepted, received, cancelSends, channelVars, userVars, handler, error>>

Serve(p) ==
    \/ p = "in" /\ ServeOfferInbound
    \/ p = "out" /\ ServeOfferOutbound
    \/ ServeQueued(p) \/ ServeDecision(p) \/ ServeResult(p)
    \/ ServeFiles(p) \/ ServeBatchComplete(p) \/ ServeCancel(p)

---------------------------------------------------------------------------
\* The session is open until a serve loop returns an error.
Open == error = "none"

Next ==
    \/ \E o \in Offers: Open /\ SendInbound(o)
    \/ \E o \in Offers: Open /\ SendOutbound(o)
    \/ Open /\ SendManifest
    \/ Open /\ TakeQueued
    \/ \E o \in Offers: Open /\ RunOutgoing(o)
    \/ \E o \in Offers: Open /\ AcceptOffer(o)
    \/ \E o \in Offers: Open /\ RejectOffer(o)
    \/ \E o \in Offers: Open /\ SendAcceptance(o)
    \/ \E o \in Offers: Open /\ ClearRejected(o)
    \/ \E p \in Peers: Open /\ CancelActiveOffer(p)
    \/ \E p \in Peers, o \in Offers: Open /\ SendCancel(p, o)
    \/ \E p \in Peers: Open /\ Serve(p)
    \/ Open /\ AnswerOffer

Spec == Init /\ [][Next]_vars

\* Every goroutine runs, and the receiving user answers an offer in review.
\* Nobody has to send or to cancel.
Fairness ==
    /\ WF_vars(Open /\ SendManifest) /\ WF_vars(Open /\ TakeQueued)
    /\ WF_vars(Open /\ AnswerOffer)
    /\ \A p \in Peers: WF_vars(Open /\ Serve(p))
    /\ \A o \in Offers:
        /\ WF_vars(Open /\ RunOutgoing(o))
        /\ WF_vars(Open /\ (AcceptOffer(o) \/ RejectOffer(o)))
        /\ WF_vars(Open /\ SendAcceptance(o)) /\ WF_vars(Open /\ ClearRejected(o))
        /\ \A p \in Peers: WF_vars(Open /\ SendCancel(p, o))

FairSpec == Spec /\ Fairness

---------------------------------------------------------------------------
(* What holds                                                              *)

\* The coordinator has at most one offer in hand, in either direction, and
\* says so in coordinatorActive; it is never idle while offers wait; and an
\* offer that waits is in its queue once, and neither in hand nor settled.
CoordinatorHoldsOneOffer ==
    /\ coordActive <=> (incoming["in"] # None \/ outgoing["in"] # None)
    /\ incoming["in"] = None \/ outgoing["in"] = None
    /\ coordQueue # << >> => coordActive
    /\ \A i \in DOMAIN coordQueue:
        LET o == coordQueue[i] IN
        /\ \A j \in DOMAIN coordQueue: coordQueue[j] = o => j = i
        /\ o \notin {incoming["in"], outgoing["in"]} /\ o \notin accepted /\ run[o] # "done"

\* At most one accepted offer is being received in the whole session, in
\* either direction: a decision is made only when the offer before is settled
\* at its receiver.
OneTransferAtATime ==
    \A o, q \in Offers:
        /\ o \in accepted /\ incoming[Receiver(o)] = o
        /\ q \in accepted /\ incoming[Receiver(q)] = q
        => o = q

\* A decision, a result or file content always finds the offer it is about,
\* however the two Peers' queues, reviews and cancellations interleave; and so
\* does a batch's completion, if nobody cancels.
AnswersFindTheirOffer ==
    /\ error \notin {"unknown decision", "unknown result", "unexpected content"}
    /\ canceledOut = {} => error # "inconsistent batch"

\* The coordinator's transferActive, which exempts a session from the idle
\* timeout (idle.go:84) and lets cancel through (offer_control.go:20), is about
\* the one offer it has in hand: while it is set, that offer has been accepted,
\* so that cancel names it; and while an accepted offer arrives it is set.
CoordinatorKnowsItsTransfer ==
    /\ transferActive["in"] => ActiveOffer("in") \in accepted
    /\ incoming["in"] \in accepted => transferActive["in"]

\* offer_intake.go:92 blames the coordinator for "overlapping Transfer Offers"
\* and ends the session. Between two correct Peers that happens for one reason
\* only: the other Peer has sent its rejection and not yet freed its slot.
OverlapOnlyAfterRejection ==
    error = "overlapping offers" => review[incoming["out"]] = "rejecting"

\* Every offer that was sent is settled, unless the session ends: decided by
\* the receiving user and either rejected or transferred to the end.
SentOffersSettle ==
    \A o \in Offers: (o \in sent) ~> (o \in refused \/ run[o] = "done" \/ ~Open)

=============================================================================
