---------------------------- MODULE FileTransfer ----------------------------
(***************************************************************************)
(* One Transfer Offer between its review and the moment both Peers are     *)
(* through with it: the sending Peer (FileSender) and the receiving Peer   *)
(* (FileReceiver) over the verified connection (SessionWire).              *)
(***************************************************************************)
EXTENDS FileSender, FileReceiver

vars == <<wireVars, senderVars, receiverVars>>

Init == WireInit /\ SenderInit /\ ReceiverInit

\* The goroutines of the sending Peer and what happens to it.
SenderRuns == RunOutgoing /\ UNCHANGED receiverVars
SenderWorks(w) == WorkerStep(w) /\ UNCHANGED receiverVars
SenderServes == SenderServe /\ UNCHANGED receiverVars
SenderCancels == CancelOutgoing /\ UNCHANGED receiverVars
SenderSendsCancel == SendCancel /\ UNCHANGED receiverVars
SenderEnds == SenderLosesLink /\ UNCHANGED receiverVars
SourceChanges(f) == ChangeSource(f) /\ UNCHANGED receiverVars

\* The goroutines of the receiving Peer.
ReceiverDecides == (AcceptOffer \/ RejectOffer) /\ UNCHANGED senderVars
ReceiverReviews == (SendAcceptance \/ ClearRejected) /\ UNCHANGED senderVars
ReceiverServes == ReceiverServe /\ UNCHANGED senderVars
ReceiverCancels == CancelIncoming /\ UNCHANGED senderVars
ReceiverSendsCancel == SendCancelRequest /\ UNCHANGED senderVars
ReceiverEnds == ReceiverLosesLink /\ UNCHANGED senderVars

LinkFails == LinkDown /\ UNCHANGED <<senderVars, receiverVars>>

Next ==
    \/ SenderRuns \/ SenderServes \/ SenderCancels \/ SenderSendsCancel \/ SenderEnds
    \/ \E w \in Workers: SenderWorks(w)
    \/ \E f \in Files: SourceChanges(f)
    \/ ReceiverDecides \/ ReceiverReviews \/ ReceiverServes \/ ReceiverCancels
    \/ ReceiverSendsCancel \/ ReceiverEnds
    \/ LinkFails

Spec == Init /\ [][Next]_vars

\* Every goroutine that can run does run, and a dead connection is noticed.
\* Nothing is assumed of the users, the sources or the network.
Fairness ==
    /\ WF_vars(SenderRuns) /\ WF_vars(SenderServes)
    /\ WF_vars(SenderSendsCancel) /\ WF_vars(SenderEnds)
    /\ \A w \in Workers: WF_vars(SenderWorks(w))
    /\ WF_vars(ReceiverReviews) /\ WF_vars(ReceiverServes)
    /\ WF_vars(ReceiverSendsCancel) /\ WF_vars(ReceiverEnds)

FairSpec == Spec /\ Fairness

---------------------------------------------------------------------------
(* Safety                                                                  *)

\* Every variable of the two Peers and of the wire has its type.
TypeOK == WireTypeOK /\ SenderTypeOK /\ ReceiverTypeOK

\* A file under its final path has exactly the approved bytes, whatever the
\* source became while it was read, whichever writes failed and however the
\* workers' chunks interleaved (completeIncomingFile, recoverableWriter).
PublishedIsApproved == \A f \in published: final[f] = Approved(f)

\* No temporary file outlives the offer that made it: each belongs to an open
\* stream, and only an accepted offer has open streams (failIncomingFile,
\* handlePeerCancellation, cleanupIncoming).
NoOrphanStaging ==
    /\ staged \subseteq OpenStreams
    /\ incoming # "accepted" => OpenStreams = {}

\* Once a cancel frame is in the stream, no chunk and no completion follows it
\* ("prevent a chunk from being emitted after the ordered cancellation frame",
\* SendChunkChecked); otherwise the receiver would refuse it and end the session.
NoContentAfterCancel ==
    \A i, j \in 1..Len(toReceiver):
        i < j /\ toReceiver[i].type = "cancel"
            => toReceiver[j].type \notin {"content", "complete"}

\* The receiver ends the session over a frame only after a cancellation: in a
\* transfer nobody cancels, the two Peers never disagree about the protocol,
\* and the sender never receives an answer it cannot place.
FrameErrorOnlyAfterCancel ==
    /\ receiverError = "frame" => outgoingCanceled
    /\ ~senderError

\* How many elements of a channel are in the set R.
CountOf(s, R) == Cardinality({i \in 1..Len(s): s[i] \in R})

\* Results of single files, with this verdict, that the sender has not counted yet.
Uncounted(verdict) ==
    CountOf(resultCh, [file: Files, verdict: {verdict}])
    + CountOf(toSender, [type: {"result"}, file: Files, verdict: {verdict}])

\* While the connection lives, every outcome the receiver has recorded is
\* either counted by the sender or still on its way: none is lost or doubled
\* between the wire, the result channel and the counters of runOutgoing.
ResultsAreConserved ==
    link = "up" =>
        /\ completedFile = succeeded + Uncounted("ok")
        /\ failedFile = failed + Uncounted("failed")

\* A published file is never removed or replaced again: not by a cancellation,
\* a failure of another file or the end of the session.
PublishedStays ==
    [][ /\ published \subseteq published'
        /\ \A f \in published: final'[f] = final[f] ]_vars

\* An outcome is recorded once per file, and only the bytes that were hashed are
\* in a temporary file without write failures: the accounting of receivingFiles,
\* fileOutcomes and the counters that publication and cleanup rely on.  With
\* PublishedIsApproved and NoOrphanStaging it is inductive (FileTransferProofs).
OutcomesAreFinal ==
    /\ published \subseteq outcomes
    /\ Cardinality(outcomes) = completedFile + failedFile
    /\ \A f \in Files: stream[f].open =>
        /\ f \notin outcomes
        /\ ~stream[f].writeFailure => part[f] = stream[f].digest

---------------------------------------------------------------------------
(* The promise of the offer as an abstract specification                   *)

Outcome == INSTANCE TransferOutcome WITH
    file <- [f \in Files |-> IF f \in published THEN "published"
                             ELSE IF f \in outcomes THEN "failed" ELSE "pending"],
    receiver <- IF ending = "none" THEN "open" ELSE ending,
    sender <- IF report \in {"complete", "partial", "failed"}
              THEN [report |-> "summary", ok |-> succeeded, bad |-> failed]
              ELSE [report |-> report, ok |-> 0, bad |-> 0]

\* The two Peers together implement TransferOutcome: outcomes are per file and
\* final, and the sender's report is exactly the receiver's account.
ImplementsOutcome == Outcome!Spec

---------------------------------------------------------------------------
(* Liveness                                                                *)

\* An accepted offer does not get stuck: both Peers get rid of it, whether it
\* completes, is canceled or loses its connection (barrier of the workers,
\* bounded result channel, cancellation and its echo).
OfferConcludes ==
    /\ (run = "starting") ~> (run \in {"done", "stopped"})
    /\ (incoming = "accepted") ~> (incoming = "cleared")

---------------------------------------------------------------------------
\* README.md: "Type `cancel` on either Peer ... to cancel that offer without
\* ending the verified Transfer Session."  As an invariant: the session is
\* never ended over a frame of the offer.
CancelKeepsSession == receiverError # "frame" /\ ~senderError
=============================================================================
