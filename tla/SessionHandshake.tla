-------------------------- MODULE SessionHandshake --------------------------
(***************************************************************************)
(* Both ends of one connection while a Transfer Session is established:    *)
(* session.Open of the dialing Peer ("out") and session.Open, or           *)
(* RejectBusy, of the Peer that accepted the connection ("in"), in         *)
(* internal/session/session.go, with the two users who compare the code    *)
(* and the first reads of the session that follows. AttemptLifecycle is    *)
(* about what one Peer does with an attempt, whoever is at the other end.  *)
(*                                                                         *)
(* A frame is its type and its flag. TLS is external: here it either gives *)
(* both ends the same keys, and so the same code, or fails.                *)
(***************************************************************************)
EXTENDS Naturals, Sequences

CONSTANTS
    Majors,        \* major versions of the protocol
    MaxSession     \* bounds the frames of the session an end sends

Peers == {"in", "out"}
Other(p) == IF p = "in" THEN "out" ELSE "in"

ASSUME HandshakeAssumption ==
    Majors \subseteq Nat /\ MaxSession \in Nat

VARIABLES
    major,         \* major[p]: the version p speaks
    busy,          \* "in" has another session and rejects with RejectBusy
    pc,            \* pc[p]: how far Open has come
    wire,          \* wire[p]: frames on their way to p
    reason,        \* reason[p]: why p's connection is closed, or "none"
    answer,        \* answer[p]: what p's user has typed
    confirmed,     \* confirmed[p]: localAccepted
    peerResult,    \* peerResult[p]: what p's reader goroutine has read
    sessionFrames  \* how many frames p has sent in the session

given == <<major, busy>>
vars == <<given, pc, wire, reason, answer, confirmed, peerResult, sessionFrames>>

Frame(type, flag) == [type |-> type, flag |-> flag]
FrameTypes == {"hello", "availability", "confirmation", "session"}
\* What ends an attempt by itself, and what follows from the other end's end.
Causes == {"timeout", "canceled", "rejected", "version", "turned away", "finished"}
Reasons == Causes \cup {"none", "busy", "peer rejected", "lost", "unexpected frame"}

TypeOK ==
    /\ major \in [Peers -> Majors] /\ busy \in BOOLEAN
    /\ pc \in [Peers -> {"tls", "hello", "availability", "confirm", "open", "ended"}]
    /\ wire \in [Peers -> Seq([type: FrameTypes, flag: BOOLEAN])]
    /\ reason \in [Peers -> Reasons]
    /\ answer \in [Peers -> {"none", "yes", "no"}]
    /\ confirmed \in [Peers -> BOOLEAN]
    /\ peerResult \in [Peers -> {"none", "yes", "no", "bad", "taken"}]
    /\ sessionFrames \in [Peers -> 0..MaxSession]

Init ==
    /\ major \in [Peers -> Majors] /\ busy \in BOOLEAN
    /\ pc = [p \in Peers |-> "tls"]
    /\ wire = [p \in Peers |-> << >>]
    /\ reason = [p \in Peers |-> "none"]
    /\ answer = [p \in Peers |-> "none"]
    /\ confirmed = [p \in Peers |-> FALSE]
    /\ peerResult = [p \in Peers |-> "none"]
    /\ sessionFrames = [p \in Peers |-> 0]

Closed(p) == pc[p] = "ended"

\* Open returns an error, or the session ends: the connection is closed.
End(p, why) ==
    /\ pc' = [pc EXCEPT ![p] = "ended"]
    /\ reason' = [reason EXCEPT ![p] = why]

Goto(p, stage) ==
    /\ pc' = [pc EXCEPT ![p] = stage]
    /\ UNCHANGED reason

SendTo(q, frame) == wire' = [wire EXCEPT ![q] = Append(@, frame)]
NextFrame(p) == Head(wire[p])
Arrived(p) == wire[p] # << >>
ReadBy(p) == wire' = [wire EXCEPT ![p] = Tail(@)]
ReadAndSend(p, frame) ==
    wire' = [wire EXCEPT ![p] = Tail(@), ![Other(p)] = Append(@, frame)]

confirmVars == <<given, answer, confirmed, peerResult, sessionFrames>>

---------------------------------------------------------------------------
(* protectAndNegotiate and exchangeAvailability                            *)

\* The handshake succeeds while both ends are there; hello is written at once.
FinishHandshake(p) ==
    /\ pc[p] = "tls" /\ ~Closed(Other(p))
    /\ Goto(p, "hello")
    /\ SendTo(Other(p), Frame("hello", TRUE))
    /\ UNCHANGED confirmVars

\* handshakeTimeout, and the failures of TLS.
HandshakeFails(p) ==
    /\ pc[p] = "tls"
    /\ End(p, "timeout")
    /\ UNCHANGED <<wire, confirmVars>>

\* BUG VARIANT: the dialing Peer does not wait for the availability.
ReadHelloOnly(p) ==
    /\ pc[p] = "hello" /\ Arrived(p)
    /\ IF major[p] # major[Other(p)] THEN End(p, "version") /\ ReadBy(p)
       ELSE IF p = "out" THEN Goto(p, "confirm") /\ ReadBy(p)
       ELSE /\ ReadAndSend(p, Frame("availability", ~busy))
            /\ IF busy THEN End(p, "turned away") ELSE Goto(p, "confirm")
    /\ UNCHANGED confirmVars

\* The Peer's hello; "in" goes on to write its availability, and RejectBusy
\* ends there.
ReadHello(p) ==
    /\ pc[p] = "hello" /\ Arrived(p)
    /\ IF NextFrame(p).type # "hello" THEN End(p, "unexpected frame") /\ ReadBy(p)
       ELSE IF major[p] # major[Other(p)] THEN End(p, "version") /\ ReadBy(p)
       ELSE IF p = "out" THEN Goto(p, "availability") /\ ReadBy(p)
       ELSE /\ ReadAndSend(p, Frame("availability", ~busy))
            /\ IF busy THEN End(p, "turned away") ELSE Goto(p, "confirm")
    /\ UNCHANGED confirmVars

\* exchangeAvailability of the dialing Peer.
ReadAvailability(p) ==
    /\ pc[p] = "availability" /\ Arrived(p)
    /\ ReadBy(p)
    /\ IF NextFrame(p).type # "availability" THEN End(p, "unexpected frame")
       ELSE IF ~NextFrame(p).flag THEN End(p, "busy")
       ELSE Goto(p, "confirm")
    /\ UNCHANGED confirmVars

---------------------------------------------------------------------------
(* exchangeConfirmation                                                    *)

\* The user at the prompt types yes or no.
UserAnswers(p) ==
    /\ pc[p] = "confirm" /\ answer[p] = "none"
    /\ \E word \in {"yes", "no"}: answer' = [answer EXCEPT ![p] = word]
    /\ UNCHANGED <<given, pc, wire, reason, confirmed, peerResult, sessionFrames>>

\* BUG VARIANT: one confirmation is enough.
EnterEarly(p, local, peer) == Goto(p, IF local \/ peer THEN "open" ELSE "confirm")

\* The loop ends with the second of the two confirmations.
EnterIfBoth(p, local, peer) == Goto(p, IF local /\ peer THEN "open" ELSE "confirm")

\* The answer is written first; a rejection then ends Open.
TakeAnswer(p) ==
    /\ pc[p] = "confirm" /\ answer[p] # "none" /\ ~confirmed[p]
    /\ SendTo(Other(p), Frame("confirmation", answer[p] = "yes"))
    /\ IF answer[p] = "no" THEN End(p, "rejected") /\ UNCHANGED confirmed
       ELSE /\ EnterIfBoth(p, TRUE, peerResult[p] = "taken")
            /\ confirmed' = [confirmed EXCEPT ![p] = TRUE]
    /\ UNCHANGED <<given, answer, peerResult, sessionFrames>>

\* The reader goroutine takes one frame, whatever the select is doing.
ReaderReads(p) ==
    /\ pc[p] = "confirm" /\ peerResult[p] = "none" /\ Arrived(p)
    /\ ReadBy(p)
    /\ peerResult' = [peerResult EXCEPT ![p] =
                        IF NextFrame(p).type # "confirmation" THEN "bad"
                        ELSE IF NextFrame(p).flag THEN "yes" ELSE "no"]
    /\ UNCHANGED <<given, pc, reason, answer, confirmed, sessionFrames>>

TakePeerResult(p) ==
    /\ pc[p] = "confirm" /\ peerResult[p] \in {"yes", "no", "bad"}
    /\ peerResult' = [peerResult EXCEPT ![p] = "taken"]
    /\ IF peerResult[p] = "bad" THEN End(p, "unexpected frame")
       ELSE IF peerResult[p] = "no" THEN End(p, "peer rejected")
       ELSE EnterIfBoth(p, confirmed[p], TRUE)
    /\ UNCHANGED <<given, wire, answer, confirmed, sessionFrames>>

---------------------------------------------------------------------------
(* The session, and the end of a connection                                *)

SessionSends(p) ==
    /\ pc[p] = "open" /\ sessionFrames[p] < MaxSession
    /\ SendTo(Other(p), Frame("session", TRUE))
    /\ sessionFrames' = [sessionFrames EXCEPT ![p] = @ + 1]
    /\ UNCHANGED <<given, pc, reason, answer, confirmed, peerResult>>

\* serveSession
SessionReads(p) ==
    /\ pc[p] = "open" /\ Arrived(p)
    /\ ReadBy(p)
    /\ IF NextFrame(p).type # "session" THEN End(p, "unexpected frame") ELSE UNCHANGED <<pc, reason>>
    /\ UNCHANGED confirmVars

\* disconnect, quit or the idle timeout, at any time.
Cancel(p) ==
    /\ ~Closed(p)
    /\ End(p, IF pc[p] = "open" THEN "finished" ELSE "canceled")
    /\ UNCHANGED <<wire, confirmVars>>

\* BUG VARIANT: an error of the reader goroutine does not end the prompt.
LostUnlessPrompting(p) ==
    /\ ~Closed(p) /\ Closed(Other(p)) /\ pc[p] # "confirm"
    /\ End(p, "lost")
    /\ UNCHANGED <<wire, confirmVars>>

\* The other end has closed the connection: a read or write fails, at the end
\* of what arrived or, when a reset has overtaken it, before.
ConnectionLost(p) ==
    /\ ~Closed(p) /\ Closed(Other(p))
    /\ End(p, "lost")
    /\ UNCHANGED <<wire, confirmVars>>

OpenStep(p) ==
    \/ FinishHandshake(p) \/ ReadHello(p) \/ ReadAvailability(p)
    \/ TakeAnswer(p) \/ ReaderReads(p) \/ TakePeerResult(p)
    \/ SessionReads(p) \/ ConnectionLost(p)

Next ==
    \E p \in Peers: OpenStep(p) \/ HandshakeFails(p) \/ UserAnswers(p) \/ SessionSends(p) \/ Cancel(p)

Spec == Init /\ [][Next]_vars

\* The goroutines of both ends run; no user is obliged to answer.
FairSpec == Spec /\ \A p \in Peers: WF_vars(OpenStep(p))

---------------------------------------------------------------------------
(* Properties                                                              *)

\* "No application protocol data can be exchanged through this interface until
\* both Peers have confirmed" (session.go:70): an end that is open has the yes
\* of both users, to a Peer of its version that was not busy.
OpenIsAgreed ==
    \A p \in Peers: pc[p] = "open" =>
        /\ answer[p] = "yes" /\ answer[Other(p)] = "yes"
        /\ major[p] = major[Other(p)] /\ ~busy

\* Two ends of this program never misread each other: the reader goroutine of
\* one takes no frame of the session that the other may have opened already,
\* and no session starts with a left-over of the handshake.
NothingIsMisread ==
    \A p \in Peers: reason[p] # "unexpected frame" /\ peerResult[p] # "bad"

\* Every end has a cause: when one end reports a busy Peer, a rejection or a
\* lost connection, the other has closed for a reason of its own.
EndsHaveACause ==
    \A p \in Peers:
        /\ reason[p] = "busy" => busy
        /\ reason[p] = "peer rejected" => answer[Other(p)] = "no"
        /\ reason[p] \in {"busy", "peer rejected", "lost"} => reason[Other(p)] \in Causes

\* When one end is closed the other ends too, its prompt with it, although its
\* user never answers (session.go:380, connection.go:119).
EndTogether == \A p \in Peers: Closed(p) ~> Closed(Other(p))
=============================================================================
