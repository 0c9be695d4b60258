---------------------------- MODULE SessionWire ----------------------------
(***************************************************************************)
(* The verified connection while ONE Transfer Offer moves over it: two     *)
(* reliable FIFO directions and a link that may go down.  A frame is       *)
(* written whole under Session.writeMu (internal/session/session.go), so   *)
(* the frames of concurrent file workers interleave but never mix.         *)
(*                                                                         *)
(* Sizes and offsets are counted in chunks of streamChunkBytes.  The data  *)
(* of the chunk at offset i of the approved file is the number i + 1, and  *)
(* ForeignData stands for any other bytes; a SHA-256 digest is represented *)
(* by the sequence of chunk data that was hashed, so that two digests are  *)
(* equal exactly when the hashed bytes are.                                *)
(***************************************************************************)
EXTENDS Naturals, Sequences

CONSTANTS
    FileCount,  \* manifest.FileCount of the offer
    Size,       \* Size[f]: entry.Size of file f; 0 is a zero-byte file
    ReceiverRoom,  \* frames to the receiver that the connection buffers
    SenderRoom     \* frames to the sender that the connection buffers

ASSUME FileCountAssumption == FileCount \in Nat
ASSUME RoomAssumption == ReceiverRoom \in Nat \ {0} /\ SenderRoom \in Nat \ {0}
ASSUME SizeAssumption == Size \in [1..FileCount -> Nat]

VARIABLES
    toReceiver,  \* frames written by the sending Peer, not yet read
    toSender,    \* frames written by the receiving Peer, not yet read
    link         \* "up", or "down" once the connection is closed or lost

wireVars == <<toReceiver, toSender, link>>

Files == 1..FileCount
ForeignData == 0

\* What the approved digest of file f in the manifest is the digest of.
Approved(f) == [i \in 1..Size[f] |-> i]

\* The data read at an offset of a source, by whether it is still the approved one.
DataAt(offset, same) == IF same THEN offset + 1 ELSE ForeignData

---------------------------------------------------------------------------
\* Frames from the sending Peer.
ContentFrame(f, offset, size, data) ==
    [type |-> "content", file |-> f, offset |-> offset, size |-> size, data |-> data]
CompleteFrame(f, digest, ok) ==
    [type |-> "complete", file |-> f, digest |-> digest, ok |-> ok]
FileFailedFrame(f) == [type |-> "file-failed", file |-> f]
BatchCompleteFrame == [type |-> "batch-complete"]
CancelFrame == [type |-> "cancel"]

ReceiverFrames ==
    [type: {"content"}, file: Files, offset: Nat, size: {0, 1}, data: Nat]
        \cup [type: {"complete"}, file: Files, digest: Seq(Nat), ok: BOOLEAN]
        \cup [type: {"file-failed"}, file: Files]
        \cup [type: {"batch-complete", "cancel"}]

\* Frames from the receiving Peer.  A result without a path (WholeOffer) is
\* about the offer; a verdict is "ok", "failed" or "canceled"
\* (reasonOfferCanceled).
WholeOffer == 0
DecisionFrame(accepted) == [type |-> "decision", accepted |-> accepted]
ResultFrame(f, verdict) == [type |-> "result", file |-> f, verdict |-> verdict]

Verdicts == {"ok", "failed", "canceled"}
SenderFrames ==
    [type: {"decision"}, accepted: BOOLEAN]
        \cup [type: {"result"}, file: Files \cup {WholeOffer}, verdict: Verdicts]
        \cup [type: {"cancel"}]

WireTypeOK ==
    /\ toReceiver \in Seq(ReceiverFrames)
    /\ toSender \in Seq(SenderFrames)
    /\ link \in {"up", "down"}

WireInit ==
    /\ toReceiver = << >>
    /\ toSender = << >>
    /\ link = "up"

\* Session.Send: one whole frame under writeMu.  No write has a deadline after
\* verification, so it waits for as long as the buffers of the connection are
\* full.  A write on a dead link is lost; the error it may return ends the
\* session as reading EOF does.
SendToReceiver(frame) ==
    /\ link = "up" => Len(toReceiver) < ReceiverRoom
    /\ toReceiver' = IF link = "up" THEN Append(toReceiver, frame) ELSE toReceiver
SendToSender(frame) ==
    /\ link = "up" => Len(toSender) < SenderRoom
    /\ toSender' = IF link = "up" THEN Append(toSender, frame) ELSE toSender

\* The network fails, a Peer's process stops or a user disconnects.
LinkDown ==
    /\ link = "up"
    /\ link' = "down"
    /\ UNCHANGED <<toReceiver, toSender>>
============================================================================
