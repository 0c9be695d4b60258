---------------------------- MODULE FileReceiver ----------------------------
(***************************************************************************)
(* The receiving Peer of one Transfer Offer: the review goroutine          *)
(* (internal/terminal/offer_intake.go), the serve loop that stages,        *)
(* verifies and publishes files (receive.go), the cancellation handlers    *)
(* (offer_control.go) and the cleanup of staging (cleanup.go), with the    *)
(* part of the destination disk they write.                                *)
(*                                                                         *)
(* A chunk is consumed by one step, header and bytes: only the serve loop  *)
(* reads the connection and touches the streams.  The steps of the review  *)
(* goroutine, which writes to the same connection, are separate.           *)
(***************************************************************************)
EXTENDS SessionWire

VARIABLES
    incoming,          \* current.incoming: "review", "accepted" or "cleared" (nil)
    review,            \* where reviewIncomingOffer is
    incomingCanceled,  \* incoming.canceled
    cancelRequest,     \* the goroutine of cancelActiveOffer has not sent yet
    stream,            \* incoming.receivingFiles
    outcomes,          \* incoming.fileOutcomes
    completedFile,     \* the counters of the offer
    failedFile,
    staged,            \* files that have a temporary file in .transferly-staging
    part,              \* part[f]: the content of f's temporary file
    published,         \* files that exist under their final path
    final,             \* final[f]: the content under f's final path
    ending,            \* how the offer left this Peer
    receiverEnded,     \* establish returned: the session is over here
    receiverError      \* why serveSession returned: "none", "frame" or "disk"

receiverVars ==
    <<incoming, review, incomingCanceled, cancelRequest, stream, outcomes,
      completedFile, failedFile, staged, part, published, final, ending,
      receiverEnded, receiverError>>

\* A receivingFile; open is FALSE when the map has no entry for the file.
Streams == [open: BOOLEAN, received: Nat, digest: Seq(Nat), writeFailure: BOOLEAN]
Stream(received, digest, writeFailure) ==
    [open |-> TRUE, received |-> received, digest |-> digest, writeFailure |-> writeFailure]
NoStream == [open |-> FALSE, received |-> 0, digest |-> << >>, writeFailure |-> FALSE]

ReceiverTypeOK ==
    /\ incoming \in {"review", "accepted", "cleared"}
    /\ review \in {"waiting", "accepting", "rejecting", "done"}
    /\ incomingCanceled \in BOOLEAN
    /\ cancelRequest \in BOOLEAN
    /\ stream \in [Files -> Streams]
    /\ outcomes \in SUBSET Files
    /\ completedFile \in Nat
    /\ failedFile \in Nat
    /\ staged \in SUBSET Files
    /\ part \in [Files -> Seq(Nat)]
    /\ published \in SUBSET Files
    /\ final \in [Files -> Seq(Nat)]
    /\ ending \in {"none", "rejected", "completed", "canceled", "ended"}
    /\ receiverEnded \in BOOLEAN
    /\ receiverError \in {"none", "frame", "disk"}

ReceiverInit ==
    /\ incoming = "review"
    /\ review = "waiting"
    /\ incomingCanceled = FALSE
    /\ cancelRequest = FALSE
    /\ stream = [f \in Files |-> NoStream]
    /\ outcomes = {}
    /\ completedFile = 0
    /\ failedFile = 0
    /\ staged = {}
    /\ part = [f \in Files |-> << >>]
    /\ published = {}
    /\ final = [f \in Files |-> << >>]
    /\ ending = "none"
    /\ receiverEnded = FALSE
    /\ receiverError = "none"

OpenStreams == {f \in Files: stream[f].open}

---------------------------------------------------------------------------
(* reviewIncomingOffer and the cancel command                              *)

\* accept after prepareIncoming succeeded (when it fails the review goes on):
\* accepted is set and startTransfer runs before the decision is written.
AcceptOffer ==
    /\ ~receiverEnded /\ review = "waiting" /\ incoming = "review"
    /\ review' = "accepting"
    /\ incoming' = "accepted"
    /\ UNCHANGED <<incomingCanceled, cancelRequest, stream, outcomes, completedFile,
                   failedFile, staged, part, published, final, ending, receiverEnded,
                   receiverError>>
    /\ UNCHANGED wireVars

SendAcceptance ==
    /\ ~receiverEnded /\ review = "accepting"
    /\ review' = "done"
    /\ SendToSender(DecisionFrame(TRUE))
    /\ UNCHANGED <<incoming, incomingCanceled, cancelRequest, stream, outcomes,
                   completedFile, failedFile, staged, part, published, final, ending,
                   receiverEnded, receiverError>>
    /\ UNCHANGED <<toReceiver, link>>

\* reject: the decision is written first, then clearIncoming.
RejectOffer ==
    /\ ~receiverEnded /\ review = "waiting" /\ incoming = "review"
    /\ review' = "rejecting"
    /\ SendToSender(DecisionFrame(FALSE))
    /\ UNCHANGED <<incoming, incomingCanceled, cancelRequest, stream, outcomes,
                   completedFile, failedFile, staged, part, published, final, ending,
                   receiverEnded, receiverError>>
    /\ UNCHANGED <<toReceiver, link>>

ClearRejected ==
    /\ ~receiverEnded /\ review = "rejecting"
    /\ review' = "done"
    /\ incoming' = "cleared"
    /\ ending' = "rejected"
    /\ UNCHANGED <<incomingCanceled, cancelRequest, stream, outcomes, completedFile,
                   failedFile, staged, part, published, final, receiverEnded,
                   receiverError>>
    /\ UNCHANGED wireVars

\* cancelActiveOffer on the receiving side: only the flag and a request to the
\* sender; the offer is dropped when the sender echoes the cancellation.
CancelIncoming ==
    /\ ~receiverEnded /\ incoming = "accepted" /\ ~incomingCanceled
    /\ incomingCanceled' = TRUE
    /\ cancelRequest' = TRUE
    /\ UNCHANGED <<incoming, review, stream, outcomes, completedFile, failedFile,
                   staged, part, published, final, ending, receiverEnded, receiverError>>
    /\ UNCHANGED wireVars

SendCancelRequest ==
    /\ ~receiverEnded /\ cancelRequest
    /\ cancelRequest' = FALSE
    /\ SendToSender(CancelFrame)
    /\ UNCHANGED <<incoming, review, incomingCanceled, stream, outcomes, completedFile,
                   failedFile, staged, part, published, final, ending, receiverEnded,
                   receiverError>>
    /\ UNCHANGED <<toReceiver, link>>

---------------------------------------------------------------------------
(* Cleanup                                                                 *)

\* BUG VARIANT of RemoveIncomingFiles: streams are closed, their files stay.
CloseIncomingFiles ==
    /\ stream' = [f \in Files |-> NoStream]
    /\ UNCHANGED <<staged, part>>

\* removeIncomingStaging: the temporary file of every open stream.
RemoveIncomingFiles ==
    /\ staged' = staged \ OpenStreams
    /\ part' = [f \in Files |-> IF stream[f].open THEN << >> ELSE part[f]]
    /\ stream' = [f \in Files |-> NoStream]

\* establish after serveSession returned: cleanupIncoming, then Close; frames
\* that were not read are discarded with the connection.
EndReceiver(error) ==
    /\ receiverEnded' = TRUE
    /\ receiverError' = error
    /\ link' = "down"
    /\ incoming' = "cleared"
    /\ ending' = IF ending = "none" THEN "ended" ELSE ending
    /\ review' = "done"
    /\ cancelRequest' = FALSE
    /\ RemoveIncomingFiles
    /\ toReceiver' = << >>
    /\ UNCHANGED <<incomingCanceled, outcomes, completedFile, failedFile, published,
                   final, toSender>>

\* A handler that returns nil has consumed the frame.
HandlerReturns ==
    /\ toReceiver' = Tail(toReceiver)
    /\ UNCHANGED <<review, cancelRequest, receiverEnded, receiverError, link>>

\* incoming.fileOutcomes[message.Path]
RecordOutcome(f) == outcomes' = outcomes \cup {f}

\* failIncomingFile and receiveFileFailure: drop the stream and its temporary
\* file, count the failure once and tell the sender.
FailIncomingFile(f) ==
    /\ staged' = IF stream[f].open THEN staged \ {f} ELSE staged
    /\ part' = [part EXCEPT ![f] = << >>]
    /\ stream' = [stream EXCEPT ![f] = NoStream]
    /\ RecordOutcome(f)
    /\ failedFile' = failedFile + 1
    /\ SendToSender(ResultFrame(f, "failed"))
    /\ UNCHANGED <<incoming, incomingCanceled, completedFile, published, final, ending>>
    /\ HandlerReturns

---------------------------------------------------------------------------
(* The serve loop                                                          *)

\* startReceivingFile: a stream whose temporary file could not be created is
\* still drained, so that the frames behind it stay readable.
StartReceivingFile(created) == Stream(0, << >>, ~created)

\* receiveContent.  created and written are what the disk does; a failed write
\* is recorded by recoverableWriter and nothing more is written to the file.
ReceiveContent(m) ==
    LET f == m.file
        fresh == ~stream[f].open
    IN
    IF \/ incoming # "accepted"
       \/ m.size > Size[f] - m.offset \/ m.offset > Size[f]
       \/ f \in outcomes
       \/ fresh /\ m.offset # 0
       \/ ~fresh /\ stream[f].received # m.offset
    THEN EndReceiver("frame")
    ELSE \E created, written \in BOOLEAN:
        LET s == IF fresh THEN StartReceivingFile(created) ELSE stream[f]
            data == IF m.size = 0 THEN << >> ELSE <<m.data>>
            writes == ~s.writeFailure /\ written
        IN /\ stream' = [stream EXCEPT ![f] =
                 Stream(s.received + m.size, s.digest \o data, s.writeFailure \/ (m.size > 0 /\ ~written))]
           /\ staged' = IF fresh /\ created THEN staged \cup {f} ELSE staged
           /\ part' = [part EXCEPT ![f] =
                 (IF fresh THEN << >> ELSE @) \o (IF writes THEN data ELSE << >>)]
           /\ UNCHANGED <<incoming, incomingCanceled, outcomes, completedFile, failedFile,
                          published, final, ending, toSender>>
           /\ HandlerReturns

\* publishWithoutOverwrite, the outcome and the result frame.
PublishFile(f) ==
    /\ stream' = [stream EXCEPT ![f] = NoStream]
    /\ staged' = staged \ {f}
    /\ published' = published \cup {f}
    /\ final' = [final EXCEPT ![f] = part[f]]
    /\ part' = [part EXCEPT ![f] = << >>]
    /\ RecordOutcome(f)
    /\ completedFile' = completedFile + 1
    /\ SendToSender(ResultFrame(f, "ok"))
    /\ UNCHANGED <<incoming, incomingCanceled, failedFile, ending>>
    /\ HandlerReturns

\* What the destination disk does to a file that is complete: its temporary
\* file cannot be flushed or closed; the final path is unsafe or its folder
\* cannot be made; the final path is taken or the metadata cannot be applied
\* (the file just published is removed again).
DiskAnswers == {"ok", "flush", "unsafe", "taken", "metadata"}

\* BUG VARIANT of Intact: write failures recorded while draining are forgotten.
IntactForgettingWrites(m) ==
    LET s == stream[m.file] IN m.digest = s.digest /\ s.digest = Approved(m.file) /\ m.ok

\* Every byte was written, and the sender's digest, the digest of the received
\* bytes and the approved digest agree; the sender's own verdict is positive.
Intact(m) ==
    LET s == stream[m.file] IN
    ~s.writeFailure /\ m.digest = s.digest /\ s.digest = Approved(m.file) /\ m.ok

\* completeIncomingFile: size, write failures and the three digests decide.
CompleteIncomingFile(m) ==
    LET f == m.file IN
    IF \/ incoming # "accepted" \/ ~stream[f].open \/ stream[f].received # Size[f]
    THEN EndReceiver("frame")
    ELSE \E disk \in DiskAnswers:
        IF ~Intact(m) \/ disk = "flush" THEN FailIncomingFile(f)
        ELSE IF disk = "unsafe" THEN EndReceiver("disk")
        ELSE IF disk \in {"taken", "metadata"} THEN FailIncomingFile(f)
        ELSE PublishFile(f)

\* receiveFileFailure
ReceiveFileFailure(m) ==
    IF incoming # "accepted" \/ m.file \in outcomes
    THEN EndReceiver("frame")
    ELSE FailIncomingFile(m.file)

\* completeIncomingBatch: every file has an outcome; the metadata of a folder
\* may fail to apply, which ends the session.
CompleteIncomingBatch ==
    IF incoming # "accepted" \/ completedFile + failedFile # FileCount
    THEN EndReceiver("frame")
    ELSE \/ EndReceiver("disk")
         \/ /\ SendToSender(ResultFrame(WholeOffer, IF failedFile = 0 THEN "ok" ELSE "failed"))
            /\ incoming' = "cleared"
            /\ ending' = "completed"
            /\ UNCHANGED <<incomingCanceled, stream, outcomes, completedFile, failedFile,
                           staged, part, published, final>>
            /\ HandlerReturns

\* handlePeerCancellation on the receiving side: staging goes, completed files
\* stay, and the sender is told with a result for the whole offer.
HandlePeerCancellation ==
    IF incoming # "accepted"
    THEN /\ UNCHANGED <<incoming, incomingCanceled, stream, outcomes, completedFile,
                        failedFile, staged, part, published, final, ending, toSender>>
         /\ HandlerReturns
    ELSE /\ incomingCanceled' = TRUE
         /\ RemoveIncomingFiles
         /\ SendToSender(ResultFrame(WholeOffer, "canceled"))
         /\ incoming' = "cleared"
         /\ ending' = "canceled"
         /\ UNCHANGED <<outcomes, completedFile, failedFile, published, final>>
         /\ HandlerReturns

\* serveSession dispatches on the type of the next frame.
Serve(type) == ~receiverEnded /\ toReceiver # << >> /\ Head(toReceiver).type = type

ServeContent == Serve("content") /\ ReceiveContent(Head(toReceiver))
ServeComplete == Serve("complete") /\ CompleteIncomingFile(Head(toReceiver))
ServeFileFailed == Serve("file-failed") /\ ReceiveFileFailure(Head(toReceiver))
ServeBatchComplete == Serve("batch-complete") /\ CompleteIncomingBatch
ServeCancel == Serve("cancel") /\ HandlePeerCancellation

\* Receive returns EOF or a transport error, or a write failed.
ReceiverLosesLink ==
    /\ ~receiverEnded /\ link = "down"
    /\ EndReceiver("none")

ReceiverServe ==
    ServeContent \/ ServeComplete \/ ServeFileFailed \/ ServeBatchComplete \/ ServeCancel
=============================================================================
