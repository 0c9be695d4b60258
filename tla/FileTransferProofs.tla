------------------------- MODULE FileTransferProofs -------------------------
(***************************************************************************)
(* Proofs about FileTransfer, for every number and size of files, every    *)
(* number of workers and every capacity of the result channel: types, the  *)
(* order of a cancellation, what is published, then AccountInv (the two    *)
(* accounts of an offer) and FrameInv (the frames on the wire).            *)
(***************************************************************************)
EXTENDS FileTransfer, FiniteSetTheorems, TLAPS

---------------------------------------------------------------------------
(* Types                                                                   *)

\* A frame built by a sender's action is a frame the receiver can read.
LEMMA ReceiverFrameTypes ==
    /\ \A f \in Files, o \in Nat, n \in {0, 1}, d \in Nat: ContentFrame(f, o, n, d) \in ReceiverFrames
    /\ \A f \in Files, g \in Seq(Nat), b \in BOOLEAN: CompleteFrame(f, g, b) \in ReceiverFrames
    /\ \A f \in Files: FileFailedFrame(f) \in ReceiverFrames
    /\ BatchCompleteFrame \in ReceiverFrames
    /\ CancelFrame \in ReceiverFrames
BY DEF ReceiverFrames, ContentFrame, CompleteFrame, FileFailedFrame, BatchCompleteFrame, CancelFrame

\* A frame built by a receiver's action is a frame the sender can read.
LEMMA SenderFrameTypes ==
    /\ \A b \in BOOLEAN: DecisionFrame(b) \in SenderFrames
    /\ \A f \in Files \cup {WholeOffer}, v \in Verdicts: ResultFrame(f, v) \in SenderFrames
    /\ CancelFrame \in SenderFrames
BY DEF SenderFrames, DecisionFrame, ResultFrame, CancelFrame

\* A worker between jobs, and one with a file, has the type of a worker.
LEMMA WorkerTypes ==
    /\ \A place \in IdlePlaces: IdleWorker(place) \in WorkerState
    /\ \A place \in BusyPlaces, f \in Files, o, d \in Nat, h \in Seq(Nat):
          Worker(place, f, o, d, h) \in WorkerState
BY DEF IdleWorker, Worker, WorkerState

\* Writing a well-formed frame keeps the wire well-formed.
LEMMA SendToReceiverType ==
    ASSUME NEW frame \in ReceiverFrames, WireTypeOK, SendToReceiver(frame)
    PROVE  toReceiver' \in Seq(ReceiverFrames)
BY DEF WireTypeOK, SendToReceiver

LEMMA SendToSenderType ==
    ASSUME NEW frame \in SenderFrames, WireTypeOK, SendToSender(frame)
    PROVE  toSender' \in Seq(SenderFrames)
BY DEF WireTypeOK, SendToSender

---------------------------------------------------------------------------
(* Every action preserves TypeOK                                           *)

LEMMA SenderRunsType == ASSUME TypeOK, SenderRuns PROVE TypeOK'
<1> USE FileCountAssumption DEF TypeOK, WireTypeOK, SenderTypeOK, wireVars
<1>0. ReceiverTypeOK'
  BY DEF SenderRuns, ReceiverTypeOK, receiverVars, OpenStreams
<1>1. CASE TakeDecision
  <2>1. worker' \in [Workers -> WorkerState]
    BY <1>1, WorkerTypes DEF TakeDecision, IdlePlaces
  <2>2. jobs' \in Seq(Files)
    BY <1>1 DEF TakeDecision, Files
  <2> QED BY <1>0, <1>1, <2>1, <2>2 DEF TakeDecision
<1>2. CASE ReleaseWorkers
  BY <1>0, <1>2 DEF ReleaseWorkers
<1>3. CASE CollectResult
  BY <1>0, <1>3 DEF CollectResult, CountResult
<1>4. CASE CompleteBatch
  <2>1. toReceiver' \in Seq(ReceiverFrames)
    BY <1>4, ReceiverFrameTypes, SendToReceiverType DEF CompleteBatch
  <2> QED BY <1>0, <1>4, <2>1 DEF CompleteBatch
<1>5. CASE FinishOutgoing
  BY <1>0, <1>5 DEF FinishOutgoing
<1> QED BY <1>1, <1>2, <1>3, <1>4, <1>5 DEF SenderRuns, RunOutgoing

LEMMA SenderWorksType == ASSUME TypeOK, NEW w \in Workers, SenderWorks(w) PROVE TypeOK'
<1> USE FileCountAssumption, SizeAssumption DEF TypeOK, WireTypeOK, SenderTypeOK, WorkerUnchanged
<1>0. ReceiverTypeOK'
  BY DEF SenderWorks, ReceiverTypeOK, receiverVars
<1>a. worker[w].at \in BusyPlaces =>
         /\ worker[w].file \in Files /\ worker[w].offset \in Nat
         /\ worker[w].buffer \in Nat /\ worker[w].hashed \in Seq(Nat)
  BY DEF WorkerState, BusyPlaces, IdlePlaces
<1>b. \A place \in IdlePlaces: Drops(w, place) => worker' \in [Workers -> WorkerState]
  BY WorkerTypes DEF Drops
<1>c. worker[w].at \in BusyPlaces =>
         \A place \in BusyPlaces: Continues(w, place) => worker' \in [Workers -> WorkerState]
  BY <1>a, WorkerTypes DEF Continues
<1>d. \A r \in WorkerState: worker' = [worker EXCEPT ![w] = r] => worker' \in [Workers -> WorkerState]
  OBVIOUS
<1>1. CASE TakeJob(w)
  <2>1. CASE jobs = << >>
    BY <1>0, <1>1, <1>b, <2>1 DEF TakeJob, IdlePlaces
  <2>2. CASE jobs # << >>
    <3>1. Head(jobs) \in Files /\ Tail(jobs) \in Seq(Files)
      BY <2>2
    <3> DEFINE r == Worker(IF worker[w].at = "start" THEN "barrier" ELSE "open", Head(jobs), 0, 0, << >>)
    <3>a. << >> \in Seq(Nat)
      OBVIOUS
    <3>b. r \in WorkerState
      BY <3>1, <3>a, WorkerTypes DEF BusyPlaces
    <3>c. worker' = [worker EXCEPT ![w] = r]
      BY <1>1, <2>2 DEF TakeJob
    <3> HIDE DEF r
    <3>2. worker' \in [Workers -> WorkerState]
      BY <1>d, <3>b, <3>c
    <3>3. UNCHANGED <<toReceiver, toSender, link>> /\ jobs' = Tail(jobs)
      BY <1>1, <2>2 DEF TakeJob
    <3>4. UNCHANGED <<source, run, outgoingCanceled, cancelGoroutine, decisionCh, resultCh,
                      succeeded, failed, report, senderEnded, senderError>>
      BY <1>1 DEF TakeJob
    <3> QED BY <1>0, <3>1, <3>2, <3>3, <3>4
  <2> QED BY <2>1, <2>2
<1>2. CASE PassBarrier(w)
  <2>1. worker' \in [Workers -> WorkerState]
    BY <1>2, <1>c DEF PassBarrier, BusyPlaces
  <2> QED BY <1>0, <1>2, <2>1 DEF PassBarrier
<1>3. CASE OpenSource(w)
  <2>1. worker' \in [Workers -> WorkerState]
    BY <1>3, <1>b, <1>c DEF OpenSource, BusyPlaces, IdlePlaces
  <2> QED BY <1>0, <1>3, <2>1 DEF OpenSource
<1>4. CASE ReadChunk(w)
  <2>1. worker[w].at \in BusyPlaces
    BY <1>4 DEF ReadChunk, BusyPlaces
  <2>2. DataAt(worker[w].offset, SameContent(source[worker[w].file])) \in Nat
    BY <1>a, <2>1 DEF DataAt, ForeignData
  <2> DEFINE d == DataAt(worker[w].offset, SameContent(source[worker[w].file]))
             r == Worker("send", worker[w].file, worker[w].offset, d, Append(worker[w].hashed, d))
  <2>a. \/ Drops(w, "exit") \/ Continues(w, "send") \/ Continues(w, "failed")
        \/ worker' = [worker EXCEPT ![w] = r]
    BY <1>4 DEF ReadChunk
  <2>b. r \in WorkerState
    <3> HIDE DEF d
    <3>1. d \in Nat /\ Append(worker[w].hashed, d) \in Seq(Nat)
      BY <1>a, <2>1, <2>2 DEF d
    <3> QED BY <1>a, <2>1, <3>1, WorkerTypes DEF BusyPlaces
  <2> HIDE DEF r
  <2>3. worker' \in [Workers -> WorkerState]
    BY <1>b, <1>c, <1>d, <2>1, <2>a, <2>b DEF BusyPlaces, IdlePlaces
  <2> QED BY <1>0, <1>4, <2>3 DEF ReadChunk
<1>5. CASE SendChunk(w)
  <2>1. worker[w].at \in BusyPlaces
    BY <1>5 DEF SendChunk, BusyPlaces
  <2>2. ChunkBytes(worker[w].file) \in {0, 1}
    BY DEF ChunkBytes
  <2> DEFINE next == worker[w].offset + ChunkBytes(worker[w].file)
             r == Worker(IF next < Size[worker[w].file] THEN "read" ELSE "complete",
                         worker[w].file, next, 0, worker[w].hashed)
  <2>a. Drops(w, "exit") \/ worker' = [worker EXCEPT ![w] = r]
    BY <1>5 DEF SendChunk, ChunkSent
  <2>b. r \in WorkerState
    <3>1. next \in Nat
      BY <1>a, <2>1, <2>2
    <3> HIDE DEF next
    <3> QED BY <1>a, <2>1, <3>1, WorkerTypes DEF BusyPlaces
  <2> HIDE DEF r
  <2>3. worker' \in [Workers -> WorkerState]
    BY <1>b, <1>d, <2>a, <2>b DEF IdlePlaces
  <2>4. toReceiver' \in Seq(ReceiverFrames)
    BY <1>5, <1>a, <2>1, <2>2, ReceiverFrameTypes, SendToReceiverType DEF SendChunk
  <2> QED BY <1>0, <1>5, <2>3, <2>4 DEF SendChunk
<1>6. CASE SendComplete(w)
  <2>1. worker[w].at \in BusyPlaces
    BY <1>6 DEF SendComplete, BusyPlaces
  <2>2. worker' \in [Workers -> WorkerState]
    BY <1>6, <1>b DEF SendComplete, IdlePlaces
  <2>3. (StatUnchanged(source[worker[w].file]) /\ worker[w].hashed = Approved(worker[w].file)) \in BOOLEAN
    BY DEF StatUnchanged
  <2>4. toReceiver' \in Seq(ReceiverFrames)
    BY <1>6, <1>a, <2>1, <2>3, ReceiverFrameTypes, SendToReceiverType DEF SendComplete
  <2> QED BY <1>0, <1>6, <2>2, <2>4 DEF SendComplete
<1>7. CASE SendFileFailed(w)
  <2>1. worker[w].at \in BusyPlaces
    BY <1>7 DEF SendFileFailed, BusyPlaces
  <2>2. worker' \in [Workers -> WorkerState]
    BY <1>7, <1>b DEF SendFileFailed, IdlePlaces
  <2>3. toReceiver' \in Seq(ReceiverFrames)
    BY <1>7, <1>a, <2>1, ReceiverFrameTypes, SendToReceiverType DEF SendFileFailed
  <2> QED BY <1>0, <1>7, <2>2, <2>3 DEF SendFileFailed
<1> QED BY <1>1, <1>2, <1>3, <1>4, <1>5, <1>6, <1>7 DEF SenderWorks, WorkerStep

LEMMA EndSenderType ==
    ASSUME WireTypeOK, SenderTypeOK, NEW e \in BOOLEAN, EndSender(e)
    PROVE  WireTypeOK' /\ SenderTypeOK'
<1>1. worker' \in [Workers -> WorkerState]
  BY WorkerTypes DEF EndSender, IdlePlaces
<1>2. /\ jobs' \in Seq(Files) /\ toSender' \in Seq(SenderFrames)
      /\ resultCh' \in Seq([file: Files \cup {WholeOffer}, verdict: Verdicts])
  BY DEF EndSender
<1>3. run' \in {"decision", "starting", "collect", "final", "done", "stopped"}
  BY DEF SenderTypeOK, EndSender
<1> QED BY <1>1, <1>2, <1>3 DEF WireTypeOK, SenderTypeOK, EndSender

LEMMA SenderServesType == ASSUME TypeOK, SenderServes PROVE TypeOK'
<1> USE DEF TypeOK
<1>0. ReceiverTypeOK'
  BY DEF SenderServes, ReceiverTypeOK, receiverVars
<1>a. toSender # << >> => Head(toSender) \in SenderFrames /\ Tail(toSender) \in Seq(SenderFrames)
  BY DEF WireTypeOK
<1>1. CASE ServeDecision
  <2>1. CASE OutgoingIsCurrent
    BY <1>0, <1>1, <1>a, <2>1 DEF ServeDecision, WireTypeOK, SenderTypeOK
  <2>2. CASE ~OutgoingIsCurrent
    BY <1>0, <1>1, <2>2, EndSenderType DEF ServeDecision
  <2> QED BY <2>1, <2>2
<1>2. CASE ServeResult
  <2>1. CASE OutgoingIsCurrent
    <3>1. /\ Head(toSender).file \in Files \cup {WholeOffer}
          /\ Head(toSender).verdict \in Verdicts
      BY <1>2, <1>a DEF ServeResult, SenderFrames
    <3> DEFINE R == [file: Files \cup {WholeOffer}, verdict: Verdicts]
               r == [file |-> Head(toSender).file, verdict |-> Head(toSender).verdict]
    <3>a. r \in R /\ resultCh \in Seq(R) /\ resultCh' = Append(resultCh, r)
      BY <1>2, <2>1, <3>1 DEF ServeResult, SenderTypeOK
    <3>2. resultCh' \in Seq(R)
      <4> HIDE DEF R, r
      <4> QED BY <3>a
    <3>3. WireTypeOK'
      BY <1>2, <1>a, <2>1 DEF ServeResult, WireTypeOK
    <3>4. UNCHANGED <<source, run, jobs, worker, outgoingCanceled, cancelGoroutine, decisionCh,
                      succeeded, failed, report, senderEnded, senderError>>
      BY <1>2, <2>1 DEF ServeResult
    <3>5. SenderTypeOK'
      BY <3>2, <3>4 DEF SenderTypeOK
    <3> QED BY <1>0, <3>3, <3>5
  <2>2. CASE ~OutgoingIsCurrent
    BY <1>0, <1>2, <2>2, EndSenderType DEF ServeResult
  <2> QED BY <2>1, <2>2
<1>3. CASE ServePeerCancel
  <2>1. toReceiver' \in Seq(ReceiverFrames)
    BY <1>3, ReceiverFrameTypes, SendToReceiverType DEF ServePeerCancel, WireTypeOK
  <2>2. WireTypeOK'
    BY <1>3, <1>a, <2>1 DEF ServePeerCancel, WireTypeOK
  <2>3. outgoingCanceled' \in BOOLEAN
    BY <1>3 DEF ServePeerCancel, SenderTypeOK
  <2>4. UNCHANGED <<source, run, jobs, worker, cancelGoroutine, decisionCh, resultCh, succeeded,
                    failed, report, senderEnded, senderError>>
    BY <1>3 DEF ServePeerCancel
  <2>5. SenderTypeOK'
    BY <2>3, <2>4 DEF SenderTypeOK
  <2> QED BY <1>0, <2>2, <2>5
<1> QED BY <1>1, <1>2, <1>3 DEF SenderServes, SenderServe

\* The remaining steps of the sending Peer, its sources and the link.
LEMMA SenderRestType ==
    ASSUME TypeOK,
           \/ SenderCancels \/ SenderSendsCancel \/ SenderEnds \/ LinkFails
           \/ \E f \in Files: SourceChanges(f)
    PROVE  TypeOK'
<1> USE DEF TypeOK, WireTypeOK, SenderTypeOK
<1>0. ReceiverTypeOK'
  BY DEF SenderCancels, SenderSendsCancel, SenderEnds, SourceChanges, LinkFails,
         ReceiverTypeOK, receiverVars
<1>1. CASE SenderCancels
  BY <1>0, <1>1 DEF SenderCancels, CancelOutgoing, wireVars
<1>2. CASE SenderSendsCancel
  <2>1. toReceiver' \in Seq(ReceiverFrames)
    BY <1>2, ReceiverFrameTypes, SendToReceiverType DEF SenderSendsCancel, SendCancel
  <2> QED BY <1>0, <1>2, <2>1 DEF SenderSendsCancel, SendCancel
<1>3. CASE SenderEnds
  BY <1>0, <1>3, EndSenderType DEF SenderEnds, SenderLosesLink
<1>4. CASE LinkFails
  BY <1>0, <1>4 DEF LinkFails, LinkDown, senderVars
<1>5. ASSUME NEW f \in Files, SourceChanges(f) PROVE TypeOK'
  <2>1. PICK s \in SourceFaults: source' = [source EXCEPT ![f] = s]
    BY <1>5 DEF SourceChanges, ChangeSource
  <2>2. source' \in [Files -> SourceStates]
    BY <2>1, SourceFaultsAssumption DEF SourceStates
  <2> QED BY <1>0, <1>5, <2>2 DEF SourceChanges, ChangeSource, wireVars
<1> QED BY <1>1, <1>2, <1>3, <1>4, <1>5

LEMMA RemoveIncomingFilesType ==
    ASSUME ReceiverTypeOK, RemoveIncomingFiles
    PROVE  stream' \in [Files -> Streams] /\ part' \in [Files -> Seq(Nat)] /\ staged' \in SUBSET Files
<1>1. stream' \in [Files -> Streams]
  BY DEF RemoveIncomingFiles, Streams, NoStream
<1> QED BY <1>1 DEF RemoveIncomingFiles, ReceiverTypeOK

LEMMA EndReceiverType ==
    ASSUME WireTypeOK, ReceiverTypeOK, NEW e \in {"none", "frame", "disk"}, EndReceiver(e)
    PROVE  WireTypeOK' /\ ReceiverTypeOK'
<1>1. stream' \in [Files -> Streams]
  BY RemoveIncomingFilesType DEF EndReceiver
<1>2. part' \in [Files -> Seq(Nat)] /\ staged' \in SUBSET Files
  BY RemoveIncomingFilesType DEF EndReceiver
<1>3. toReceiver' \in Seq(ReceiverFrames)
  BY DEF EndReceiver
<1>4. ending' \in {"none", "rejected", "completed", "canceled", "ended"}
  BY DEF ReceiverTypeOK, EndReceiver
<1> QED BY <1>1, <1>2, <1>3, <1>4 DEF WireTypeOK, ReceiverTypeOK, EndReceiver

LEMMA FailIncomingFileType ==
    ASSUME WireTypeOK, ReceiverTypeOK, toReceiver # << >>,
           NEW f \in Files, FailIncomingFile(f)
    PROVE  WireTypeOK' /\ ReceiverTypeOK'
<1>1. NoStream \in Streams
  BY DEF NoStream, Streams
<1>2. stream' \in [Files -> Streams] /\ part' \in [Files -> Seq(Nat)]
  BY <1>1 DEF FailIncomingFile, ReceiverTypeOK
<1>3. toSender' \in Seq(SenderFrames)
  BY SenderFrameTypes, SendToSenderType DEF FailIncomingFile, Verdicts
<1> QED BY <1>2, <1>3 DEF WireTypeOK, ReceiverTypeOK, FailIncomingFile, RecordOutcome, HandlerReturns

LEMMA PublishFileType ==
    ASSUME WireTypeOK, ReceiverTypeOK, toReceiver # << >>, NEW f \in Files, PublishFile(f)
    PROVE  WireTypeOK' /\ ReceiverTypeOK'
<1>1. NoStream \in Streams
  BY DEF NoStream, Streams
<1>2. /\ stream' \in [Files -> Streams] /\ part' \in [Files -> Seq(Nat)]
      /\ final' \in [Files -> Seq(Nat)]
  BY <1>1 DEF PublishFile, ReceiverTypeOK
<1>3. toSender' \in Seq(SenderFrames)
  BY SenderFrameTypes, SendToSenderType DEF PublishFile, Verdicts
<1> QED BY <1>2, <1>3 DEF WireTypeOK, ReceiverTypeOK, PublishFile, RecordOutcome, HandlerReturns

\* The frame the serve loop is about to handle.
LEMMA HeadFrame ==
    ASSUME WireTypeOK, toReceiver # << >>
    PROVE  /\ Head(toReceiver) \in ReceiverFrames
           /\ Tail(toReceiver) \in Seq(ReceiverFrames)
           /\ Head(toReceiver).type \in {"content", "complete", "file-failed"}
                => Head(toReceiver).file \in Files
           /\ Head(toReceiver).type = "content"
                => Head(toReceiver).size \in {0, 1} /\ Head(toReceiver).data \in Nat
<1>1. Head(toReceiver) \in ReceiverFrames /\ Tail(toReceiver) \in Seq(ReceiverFrames)
  BY DEF WireTypeOK
<1> QED BY <1>1 DEF ReceiverFrames

LEMMA ReceiveContentType ==
    ASSUME TypeOK, Serve("content"), ReceiveContent(Head(toReceiver))
    PROVE  WireTypeOK' /\ ReceiverTypeOK'
<1> DEFINE m == Head(toReceiver)
           f == m.file
           fresh == ~stream[f].open
           data == IF m.size = 0 THEN << >> ELSE <<m.data>>
<1>1. f \in Files /\ m.size \in {0, 1} /\ m.data \in Nat /\ Tail(toReceiver) \in Seq(ReceiverFrames)
  BY HeadFrame DEF Serve, TypeOK
<1>2. CASE EndReceiver("frame")
  BY <1>2, EndReceiverType DEF TypeOK
<1>3. CASE ~EndReceiver("frame")
  <2>1. PICK created, written \in BOOLEAN:
          LET s == IF fresh THEN StartReceivingFile(created) ELSE stream[f]
              writes == ~s.writeFailure /\ written
          IN /\ stream' = [stream EXCEPT ![f] =
                   Stream(s.received + m.size, s.digest \o data,
                          s.writeFailure \/ (m.size > 0 /\ ~written))]
             /\ staged' = IF fresh /\ created THEN staged \cup {f} ELSE staged
             /\ part' = [part EXCEPT ![f] =
                   (IF fresh THEN << >> ELSE @) \o (IF writes THEN data ELSE << >>)]
             /\ UNCHANGED <<incoming, incomingCanceled, outcomes, completedFile, failedFile,
                            published, final, ending, toSender>>
             /\ HandlerReturns
    BY <1>3 DEF ReceiveContent
  <2> DEFINE s == IF fresh THEN StartReceivingFile(created) ELSE stream[f]
  <2>2. s \in Streams
    BY <1>1 DEF StartReceivingFile, Stream, Streams, TypeOK, ReceiverTypeOK
  <2>3. data \in Seq(Nat)
    BY <1>1
  <2> HIDE DEF data
  <2>4. Stream(s.received + m.size, s.digest \o data,
               s.writeFailure \/ (m.size > 0 /\ ~written)) \in Streams
    <3>1. s.received + m.size \in Nat /\ s.digest \o data \in Seq(Nat)
      BY <1>1, <2>2, <2>3 DEF Streams
    <3>2. (s.writeFailure \/ (m.size > 0 /\ ~written)) \in BOOLEAN
      OBVIOUS
    <3> QED BY <3>1, <3>2 DEF Stream, Streams
  <2>5. stream' \in [Files -> Streams]
    BY <1>1, <2>1, <2>4 DEF TypeOK, ReceiverTypeOK
  <2>6. part' \in [Files -> Seq(Nat)]
    <3>1. (IF fresh THEN << >> ELSE part[f])
              \o (IF ~s.writeFailure /\ written THEN data ELSE << >>) \in Seq(Nat)
      BY <1>1, <2>3 DEF TypeOK, ReceiverTypeOK
    <3> QED BY <1>1, <2>1, <3>1 DEF TypeOK, ReceiverTypeOK
  <2>7. staged' \in SUBSET Files
    BY <1>1, <2>1 DEF TypeOK, ReceiverTypeOK
  <2>8. /\ UNCHANGED <<incoming, review, incomingCanceled, cancelRequest, outcomes, completedFile,
                       failedFile, published, final, ending, receiverEnded, receiverError>>
        /\ UNCHANGED <<toSender, link>> /\ toReceiver' = Tail(toReceiver)
    BY <2>1 DEF HandlerReturns
  <2>9. ReceiverTypeOK'
    BY <2>5, <2>6, <2>7, <2>8 DEF TypeOK, ReceiverTypeOK
  <2>10. WireTypeOK'
    BY <1>1, <2>8 DEF TypeOK, WireTypeOK
  <2> QED BY <2>9, <2>10
<1> QED BY <1>2, <1>3

LEMMA ReceiverServesType == ASSUME TypeOK, ReceiverServes PROVE TypeOK'
<1> USE DEF TypeOK
<1>0. SenderTypeOK'
  BY DEF ReceiverServes, SenderTypeOK, senderVars
<1>1. CASE ServeContent
  BY <1>0, <1>1, ReceiveContentType DEF ServeContent
<1>2. CASE ServeComplete
  <2>1. Head(toReceiver).file \in Files /\ toReceiver # << >>
    BY <1>2, HeadFrame DEF ServeComplete, Serve
  <2>2. \/ EndReceiver("frame") \/ EndReceiver("disk")
        \/ FailIncomingFile(Head(toReceiver).file) \/ PublishFile(Head(toReceiver).file)
    BY <1>2 DEF ServeComplete, CompleteIncomingFile
  <2> QED BY <1>0, <2>1, <2>2, EndReceiverType, FailIncomingFileType, PublishFileType
<1>3. CASE ServeFileFailed
  <2>1. Head(toReceiver).file \in Files /\ toReceiver # << >>
    BY <1>3, HeadFrame DEF ServeFileFailed, Serve
  <2>2. EndReceiver("frame") \/ FailIncomingFile(Head(toReceiver).file)
    BY <1>3 DEF ServeFileFailed, ReceiveFileFailure
  <2> QED BY <1>0, <2>1, <2>2, EndReceiverType, FailIncomingFileType
<1>4. CASE ServeBatchComplete
  <2>1. CASE EndReceiver("frame") \/ EndReceiver("disk")
    BY <1>0, <2>1, EndReceiverType
  <2>2. CASE ~(EndReceiver("frame") \/ EndReceiver("disk"))
    <3>0. toReceiver # << >>
      BY <1>4 DEF ServeBatchComplete, Serve
    <3>1. /\ SendToSender(ResultFrame(WholeOffer, IF failedFile = 0 THEN "ok" ELSE "failed"))
          /\ incoming' = "cleared"
          /\ ending' = "completed"
          /\ UNCHANGED <<incomingCanceled, stream, outcomes, completedFile, failedFile,
                         staged, part, published, final>>
          /\ HandlerReturns
      BY <1>4, <2>2 DEF ServeBatchComplete, CompleteIncomingBatch
    <3>2. toSender' \in Seq(SenderFrames)
      BY <3>1, SenderFrameTypes, SendToSenderType DEF Verdicts
    <3> QED BY <1>0, <3>0, <3>1, <3>2, HeadFrame DEF HandlerReturns, WireTypeOK, ReceiverTypeOK
  <2> QED BY <2>1, <2>2
<1>5. CASE ServeCancel
  <2>0. toReceiver # << >>
    BY <1>5 DEF ServeCancel, Serve
  <2>1. CASE incoming # "accepted"
    <3>1. UNCHANGED <<receiverVars, toSender, link>> /\ toReceiver' = Tail(toReceiver)
      BY <1>5, <2>1 DEF ServeCancel, HandlePeerCancellation, HandlerReturns, receiverVars
    <3>2. WireTypeOK'
      BY <2>0, <3>1, HeadFrame DEF WireTypeOK
    <3>3. ReceiverTypeOK'
      BY <3>1 DEF receiverVars, ReceiverTypeOK
    <3> QED BY <1>0, <3>2, <3>3
  <2>2. CASE incoming = "accepted"
    <3>1. toSender' \in Seq(SenderFrames)
      BY <1>5, <2>2, SenderFrameTypes, SendToSenderType
      DEF ServeCancel, HandlePeerCancellation, Verdicts
    <3>2. RemoveIncomingFiles
      BY <1>5, <2>2 DEF ServeCancel, HandlePeerCancellation
    <3> QED
      BY <1>0, <1>5, <2>0, <2>2, <3>1, <3>2, RemoveIncomingFilesType, HeadFrame
      DEF ServeCancel, HandlePeerCancellation, HandlerReturns, WireTypeOK, ReceiverTypeOK
  <2> QED BY <2>1, <2>2
<1> QED BY <1>1, <1>2, <1>3, <1>4, <1>5 DEF ReceiverServes, ReceiverServe

\* The review goroutine, the cancel command and the end of the receiving Peer.
LEMMA ReceiverRestType ==
    ASSUME TypeOK,
           ReceiverDecides \/ ReceiverReviews \/ ReceiverCancels \/ ReceiverSendsCancel \/ ReceiverEnds
    PROVE  TypeOK'
<1> USE DEF TypeOK
<1>0. SenderTypeOK'
  BY DEF ReceiverDecides, ReceiverReviews, ReceiverCancels, ReceiverSendsCancel, ReceiverEnds,
         SenderTypeOK, senderVars
<1>1. CASE AcceptOffer \/ ClearRejected \/ CancelIncoming
  BY <1>0, <1>1 DEF AcceptOffer, ClearRejected, CancelIncoming, wireVars, WireTypeOK, ReceiverTypeOK
<1>2. CASE RejectOffer \/ SendAcceptance \/ SendCancelRequest
  <2>1. toSender' \in Seq(SenderFrames)
    BY <1>2, SenderFrameTypes, SendToSenderType DEF RejectOffer, SendAcceptance, SendCancelRequest
  <2>2. WireTypeOK'
    BY <1>2, <2>1 DEF RejectOffer, SendAcceptance, SendCancelRequest, WireTypeOK
  <2>3. UNCHANGED <<incoming, incomingCanceled, stream, outcomes, completedFile, failedFile, staged,
                    part, published, final, ending, receiverEnded, receiverError>>
    BY <1>2 DEF RejectOffer, SendAcceptance, SendCancelRequest
  <2>4. review' \in {"waiting", "accepting", "rejecting", "done"} /\ cancelRequest' \in BOOLEAN
    BY <1>2 DEF RejectOffer, SendAcceptance, SendCancelRequest, ReceiverTypeOK
  <2>5. ReceiverTypeOK'
    BY <2>3, <2>4 DEF ReceiverTypeOK
  <2> QED BY <1>0, <2>2, <2>5
<1>3. CASE ReceiverLosesLink
  BY <1>0, <1>3, EndReceiverType DEF ReceiverLosesLink
<1> QED
  BY <1>1, <1>2, <1>3
  DEF ReceiverDecides, ReceiverReviews, ReceiverCancels, ReceiverSendsCancel, ReceiverEnds

LEMMA TypeInit == Init => TypeOK
<1> SUFFICES ASSUME Init PROVE TypeOK
  OBVIOUS
<1>1. WireTypeOK
  BY DEF Init, WireInit, WireTypeOK
<1>2. worker \in [Workers -> WorkerState]
  BY WorkerTypes DEF Init, SenderInit, IdlePlaces
<1>a. /\ source \in [Files -> SourceStates] /\ jobs \in Seq(Files)
      /\ resultCh \in Seq([file: Files \cup {WholeOffer}, verdict: Verdicts])
  BY DEF Init, SenderInit, SourceStates
<1>b. succeeded \in Nat /\ failed \in Nat
  BY DEF Init, SenderInit
<1>3. SenderTypeOK
  BY <1>2, <1>a, <1>b DEF Init, SenderInit, SenderTypeOK
<1>4. stream \in [Files -> Streams]
  BY DEF Init, ReceiverInit, NoStream, Streams
<1>c. part \in [Files -> Seq(Nat)] /\ final \in [Files -> Seq(Nat)]
  BY DEF Init, ReceiverInit
<1>5. ReceiverTypeOK
  BY <1>4, <1>c DEF Init, ReceiverInit, ReceiverTypeOK
<1> QED BY <1>1, <1>3, <1>5 DEF TypeOK

LEMMA TypeNext == TypeOK /\ [Next]_vars => TypeOK'
<1> SUFFICES ASSUME TypeOK, [Next]_vars PROVE TypeOK'
  OBVIOUS
<1>1. CASE Next
  BY <1>1, SenderRunsType, SenderWorksType, SenderServesType, SenderRestType,
     ReceiverServesType, ReceiverRestType
  DEF Next
<1>2. CASE UNCHANGED vars
  BY <1>2 DEF vars, wireVars, senderVars, receiverVars, TypeOK, WireTypeOK, SenderTypeOK, ReceiverTypeOK
<1> QED BY <1>1, <1>2

\* Type correctness of the composition: every frame, channel, worker, stream
\* and counter of the two Peers keeps its type, for any number of files.
THEOREM TypeCorrect == Spec => []TypeOK
BY TypeInit, TypeNext, PTL DEF Spec

---------------------------------------------------------------------------
(***************************************************************************)
(* A cancellation is ordered: no chunk and no completion follows the       *)
(* cancel frame in the stream, however the file workers, the cancel        *)
(* command and the echo of a peer's cancellation interleave, for any       *)
(* number of workers.                                                      *)
(*                                                                         *)
(* NoContentAfterCancel is not inductive: it says nothing of a worker that *)
(* is about to write behind a cancel frame.  CancelIsFlagged closes the    *)
(* gap: whoever writes a cancel frame has set outgoing.canceled first, and *)
(* SendChunkChecked tests it with the wire in hand.                        *)
(***************************************************************************)

CancelIsFlagged ==
    /\ cancelGoroutine => outgoingCanceled
    /\ \A i \in 1..Len(toReceiver): toReceiver[i].type = "cancel" => outgoingCanceled

CancellationInv == NoContentAfterCancel /\ CancelIsFlagged

\* Appending a frame to the wire, or nothing when the link is down.
LEMMA WrittenFrame ==
    ASSUME WireTypeOK, NEW frame \in ReceiverFrames, SendToReceiver(frame)
    PROVE  /\ Len(toReceiver') \in Nat /\ Len(toReceiver') \leq Len(toReceiver) + 1
           /\ Len(toReceiver') \geq Len(toReceiver)
           /\ \A i \in 1..Len(toReceiver): toReceiver'[i] = toReceiver[i]
           /\ \A i \in 1..Len(toReceiver'): i > Len(toReceiver) => toReceiver'[i] = frame
<1>1. CASE link = "up"
  BY <1>1 DEF WireTypeOK, SendToReceiver
<1>2. CASE link # "up"
  BY <1>2 DEF WireTypeOK, SendToReceiver
<1> QED BY <1>1, <1>2

\* A frame other than content may be written at any time; a cancel frame only
\* once the offer is flagged.
LEMMA WrittenOther ==
    ASSUME TypeOK, CancellationInv, NEW frame \in ReceiverFrames, SendToReceiver(frame),
           frame.type \notin {"content", "complete"},
           frame.type = "cancel" => outgoingCanceled',
           outgoingCanceled => outgoingCanceled', cancelGoroutine' => outgoingCanceled'
    PROVE  CancellationInv'
<1>0. Len(toReceiver) \in Nat
  BY DEF TypeOK, WireTypeOK
<1>1. NoContentAfterCancel'
  BY <1>0, WrittenFrame DEF TypeOK, CancellationInv, NoContentAfterCancel
<1>2. CancelIsFlagged'
  BY <1>0, WrittenFrame DEF TypeOK, CancellationInv, CancelIsFlagged
<1> QED BY <1>1, <1>2 DEF CancellationInv

\* Content is written only while the offer is not flagged, so no cancel frame
\* is in the stream.
LEMMA WrittenContent ==
    ASSUME TypeOK, CancellationInv, NEW frame \in ReceiverFrames, SendToReceiver(frame),
           frame.type # "cancel", ~outgoingCanceled, UNCHANGED <<outgoingCanceled, cancelGoroutine>>
    PROVE  CancellationInv'
<1>0. Len(toReceiver) \in Nat
  BY DEF TypeOK, WireTypeOK
<1>1. \A i \in 1..Len(toReceiver'): toReceiver'[i].type # "cancel"
  BY <1>0, WrittenFrame DEF TypeOK, CancellationInv, CancelIsFlagged
<1> QED
  BY <1>1 DEF CancellationInv, NoContentAfterCancel, CancelIsFlagged

\* The receiver takes the first frame, or drops them all with the connection.
LEMMA TakenFrame ==
    ASSUME TypeOK, CancellationInv, UNCHANGED <<outgoingCanceled, cancelGoroutine>>,
           \/ toReceiver' = << >> \/ UNCHANGED toReceiver
           \/ toReceiver # << >> /\ toReceiver' = Tail(toReceiver)
    PROVE  CancellationInv'
<1>1. CASE toReceiver' = << >>
  BY <1>1 DEF CancellationInv, NoContentAfterCancel, CancelIsFlagged
<1>2. CASE UNCHANGED toReceiver
  BY <1>2 DEF CancellationInv, NoContentAfterCancel, CancelIsFlagged
<1>3. CASE toReceiver # << >> /\ toReceiver' = Tail(toReceiver)
  <2>1. /\ Len(toReceiver) \in Nat /\ Len(toReceiver') = Len(toReceiver) - 1
        /\ \A i \in 1..Len(toReceiver'): i + 1 \in 1..Len(toReceiver) /\ toReceiver'[i] = toReceiver[i + 1]
    BY <1>3 DEF TypeOK, WireTypeOK
  <2>2. NoContentAfterCancel'
    <3> SUFFICES ASSUME NEW i \in 1..Len(toReceiver'), NEW j \in 1..Len(toReceiver'),
                        i < j, toReceiver'[i].type = "cancel"
                 PROVE  toReceiver'[j].type \notin {"content", "complete"}
      BY DEF NoContentAfterCancel
    <3>1. i + 1 < j + 1
      BY <2>1
    <3> QED BY <2>1, <3>1 DEF CancellationInv, NoContentAfterCancel
  <2>3. CancelIsFlagged'
    BY <1>3, <2>1 DEF CancellationInv, CancelIsFlagged
  <2> QED BY <2>2, <2>3 DEF CancellationInv
<1> QED BY <1>1, <1>2, <1>3

\* A file worker writes content and completions only under the canceled test;
\* file-failed may be written behind a cancellation.
LEMMA WorkerCancellation ==
    ASSUME TypeOK, CancellationInv, NEW w \in Workers, SenderWorks(w) PROVE CancellationInv'
<1>0. UNCHANGED <<outgoingCanceled, cancelGoroutine>>
  BY DEF SenderWorks, WorkerStep, TakeJob, PassBarrier, OpenSource, ReadChunk, SendChunk,
         SendComplete, SendFileFailed, WorkerUnchanged
<1>a. worker[w].at \in BusyPlaces =>
         /\ worker[w].file \in Files /\ worker[w].offset \in Nat
         /\ worker[w].buffer \in Nat /\ worker[w].hashed \in Seq(Nat)
  BY DEF WorkerState, BusyPlaces, IdlePlaces, TypeOK, SenderTypeOK
<1>1. CASE UNCHANGED toReceiver
  BY <1>0, <1>1, TakenFrame
<1>2. CASE SendChunk(w) /\ ~outgoingCanceled
  <2> DEFINE frame == ContentFrame(worker[w].file, worker[w].offset, ChunkBytes(worker[w].file),
                                   worker[w].buffer)
  <2>1. frame \in ReceiverFrames
    BY <1>2, <1>a, ReceiverFrameTypes DEF SendChunk, BusyPlaces, ChunkBytes
  <2>2. frame.type # "cancel"
    BY DEF ContentFrame
  <2>3. SendToReceiver(frame)
    BY <1>2 DEF SendChunk
  <2> HIDE DEF frame
  <2> QED BY <1>0, <1>2, <2>1, <2>2, <2>3, WrittenContent
<1>3. CASE SendComplete(w) /\ ~outgoingCanceled
  <2> DEFINE frame == CompleteFrame(worker[w].file, worker[w].hashed,
                StatUnchanged(source[worker[w].file]) /\ worker[w].hashed = Approved(worker[w].file))
  <2>1. frame \in ReceiverFrames
    BY <1>3, <1>a, ReceiverFrameTypes DEF SendComplete, BusyPlaces, StatUnchanged
  <2>2. frame.type # "cancel"
    BY DEF CompleteFrame
  <2>3. SendToReceiver(frame)
    BY <1>3 DEF SendComplete
  <2> HIDE DEF frame
  <2> QED BY <1>0, <1>3, <2>1, <2>2, <2>3, WrittenContent
<1>4. CASE SendFileFailed(w)
  <2> DEFINE frame == FileFailedFrame(worker[w].file)
  <2>1. frame \in ReceiverFrames
    BY <1>4, <1>a, ReceiverFrameTypes DEF SendFileFailed, BusyPlaces
  <2>2. frame.type = "file-failed"
    BY DEF FileFailedFrame
  <2>3. SendToReceiver(frame)
    BY <1>4 DEF SendFileFailed
  <2> HIDE DEF frame
  <2> QED BY <1>0, <2>1, <2>2, <2>3, WrittenOther DEF CancellationInv, CancelIsFlagged
<1> QED
  BY <1>1, <1>2, <1>3, <1>4
  DEF SenderWorks, WorkerStep, TakeJob, PassBarrier, OpenSource, ReadChunk, SendChunk, SendComplete

\* The cancel command, its goroutine, the echo of a peer's cancellation and
\* batch-complete.
LEMMA SenderCancellation ==
    ASSUME TypeOK, CancellationInv,
           \/ SenderRuns \/ SenderServes \/ SenderCancels \/ SenderSendsCancel \/ SenderEnds
    PROVE  CancellationInv'
<1>a. CancelFrame.type = "cancel" /\ BatchCompleteFrame.type = "batch-complete"
  BY DEF CancelFrame, BatchCompleteFrame
<1>b. ASSUME EndSender(TRUE) \/ EndSender(FALSE) PROVE CancellationInv'
  BY <1>b DEF EndSender, CancellationInv, NoContentAfterCancel, CancelIsFlagged
<1>1. CASE CompleteBatch
  BY <1>1, <1>a, ReceiverFrameTypes, WrittenOther DEF CompleteBatch, CancellationInv, CancelIsFlagged
<1>2. CASE TakeDecision \/ ReleaseWorkers \/ CollectResult \/ FinishOutgoing
  BY <1>2, TakenFrame DEF TakeDecision, ReleaseWorkers, CollectResult, FinishOutgoing, wireVars
<1>3. CASE ServeDecision \/ ServeResult
  BY <1>3, <1>b, TakenFrame DEF ServeDecision, ServeResult
<1>4. CASE ServePeerCancel
  <2>1. CASE OutgoingIsCurrent
    BY <1>4, <1>a, <2>1, ReceiverFrameTypes, WrittenOther
    DEF ServePeerCancel, CancellationInv, CancelIsFlagged
  <2>2. CASE ~OutgoingIsCurrent
    BY <1>4, <2>2, TakenFrame DEF ServePeerCancel
  <2> QED BY <2>1, <2>2
<1>5. CASE CancelOutgoing
  BY <1>5 DEF CancelOutgoing, wireVars, CancellationInv, NoContentAfterCancel, CancelIsFlagged
<1>6. CASE SendCancel
  BY <1>6, <1>a, ReceiverFrameTypes, WrittenOther DEF SendCancel, CancellationInv, CancelIsFlagged
<1>7. CASE SenderLosesLink
  BY <1>7, <1>b DEF SenderLosesLink
<1> QED
  BY <1>1, <1>2, <1>3, <1>4, <1>5, <1>6, <1>7
  DEF SenderRuns, RunOutgoing, SenderServes, SenderServe, SenderCancels, SenderSendsCancel, SenderEnds

\* The receiving Peer only consumes frames.
LEMMA ReceiverCancellation ==
    ASSUME TypeOK, CancellationInv,
           \/ ReceiverDecides \/ ReceiverReviews \/ ReceiverServes \/ ReceiverCancels
           \/ ReceiverSendsCancel \/ ReceiverEnds
    PROVE  CancellationInv'
<1>0. UNCHANGED <<outgoingCanceled, cancelGoroutine>>
  BY DEF ReceiverDecides, ReceiverReviews, ReceiverServes, ReceiverCancels, ReceiverSendsCancel,
         ReceiverEnds, senderVars
<1>1. CASE ReceiverServes
  <2>1. toReceiver # << >>
    BY <1>1 DEF ReceiverServes, ReceiverServe, ServeContent, ServeComplete, ServeFileFailed,
                ServeBatchComplete, ServeCancel, Serve
  <2>2. toReceiver' = << >> \/ toReceiver' = Tail(toReceiver)
    BY <1>1 DEF ReceiverServes, ReceiverServe, ServeContent, ReceiveContent, ServeComplete,
                CompleteIncomingFile, FailIncomingFile, PublishFile, ServeFileFailed,
                ReceiveFileFailure, ServeBatchComplete, CompleteIncomingBatch, ServeCancel,
                HandlePeerCancellation, EndReceiver, HandlerReturns
  <2> QED BY <1>0, <2>1, <2>2, TakenFrame
<1>2. CASE ReceiverDecides \/ ReceiverReviews \/ ReceiverCancels \/ ReceiverSendsCancel \/ ReceiverEnds
  <2>1. toReceiver' = << >> \/ UNCHANGED toReceiver
    BY <1>2 DEF ReceiverDecides, AcceptOffer, RejectOffer, ReceiverReviews, SendAcceptance,
                ClearRejected, ReceiverCancels, CancelIncoming, ReceiverSendsCancel,
                SendCancelRequest, ReceiverEnds, ReceiverLosesLink, EndReceiver, wireVars
  <2> QED BY <1>0, <2>1, TakenFrame
<1> QED BY <1>1, <1>2

LEMMA CancellationInit == Init => CancellationInv
BY DEF Init, WireInit, SenderInit, CancellationInv, NoContentAfterCancel, CancelIsFlagged

LEMMA CancellationNext == TypeOK /\ CancellationInv /\ [Next]_vars => CancellationInv'
<1> SUFFICES ASSUME TypeOK, CancellationInv, [Next]_vars PROVE CancellationInv'
  OBVIOUS
<1>1. CASE UNCHANGED <<toReceiver, outgoingCanceled, cancelGoroutine>>
  BY <1>1, TakenFrame
<1>2. CASE LinkFails \/ \E f \in Files: SourceChanges(f)
  BY <1>1, <1>2 DEF LinkFails, LinkDown, senderVars, SourceChanges, ChangeSource, wireVars
<1>3. CASE UNCHANGED vars
  BY <1>1, <1>3 DEF vars, wireVars, senderVars
<1> QED
  BY <1>2, <1>3, WorkerCancellation, SenderCancellation, ReceiverCancellation DEF Next

\* No chunk and no completion ever follows the ordered cancellation frame, for
\* any number of files and concurrent workers (SendChunkChecked, SendChecked).
THEOREM NoContentAfterCancelHolds == Spec => []NoContentAfterCancel
BY TypeCorrect, CancellationInit, CancellationNext, PTL DEF Spec, CancellationInv

---------------------------------------------------------------------------
(* Publication: what a receiving Peer publishes is what was approved, its  *)
(* staging never outlives the offer, and published files stay.             *)
(*                                                                         *)
(* The inductive invariant adds OutcomesAreFinal: a batch is completed by  *)
(* counting (completedFile + failedFile = FileCount), so that it leaves no *)
(* open stream behind follows from the count being the number of files     *)
(* with an outcome, and a stream being open only for a file without one.   *)

\* Between the decision and clearIncoming a rejected offer is not accepted.
RejectedUnaccepted == review = "rejecting" => incoming # "accepted"

PublicationInv ==
    OutcomesAreFinal /\ NoOrphanStaging /\ PublishedIsApproved /\ RejectedUnaccepted

\* What the invariant is about; the sending Peer touches none of it.
diskVars == <<incoming, review, stream, outcomes, completedFile, failedFile, staged,
              part, published, final>>

LEMMA UnchangedDisk ==
    ASSUME PublicationInv, UNCHANGED diskVars PROVE PublicationInv'
BY DEF PublicationInv, diskVars, OutcomesAreFinal, NoOrphanStaging, OpenStreams,
       PublishedIsApproved, RejectedUnaccepted

\* Dropping every stream with its temporary file leaves nothing staged.
LEMMA RemovedFiles ==
    ASSUME PublicationInv, RemoveIncomingFiles, incoming' = "cleared",
           UNCHANGED <<outcomes, completedFile, failedFile, published, final>>
    PROVE  PublicationInv'
<1>1. \A f \in Files: ~stream'[f].open
  BY DEF RemoveIncomingFiles, NoStream
<1>2. staged' = {} /\ OpenStreams' = {}
  BY <1>1 DEF PublicationInv, NoOrphanStaging, OpenStreams, RemoveIncomingFiles
<1> QED
  BY <1>1, <1>2
  DEF PublicationInv, OutcomesAreFinal, NoOrphanStaging, PublishedIsApproved, RejectedUnaccepted

LEMMA FinitelyManyFiles ==
    /\ IsFiniteSet(Files) /\ Cardinality(Files) = FileCount
    /\ \A S \in SUBSET Files:
        /\ IsFiniteSet(S) /\ Cardinality(S) \in Nat
        /\ Cardinality(S) = FileCount => S = Files
        /\ \A f \in Files \ S: Cardinality(S \cup {f}) = Cardinality(S) + 1
<1>1. IsFiniteSet(Files) /\ Cardinality(Files) = FileCount
  <2>1. 1 \in Int /\ FileCount \in Int
    BY FileCountAssumption
  <2> QED BY <2>1, FS_Interval, FileCountAssumption DEF Files
<1>2. ASSUME NEW S \in SUBSET Files
      PROVE  /\ IsFiniteSet(S) /\ Cardinality(S) \in Nat
             /\ Cardinality(S) = FileCount => S = Files
             /\ \A f \in Files \ S: Cardinality(S \cup {f}) = Cardinality(S) + 1
  <2>1. IsFiniteSet(S) /\ (Cardinality(Files) = Cardinality(S) => Files = S)
    BY <1>1, FS_Subset
  <2>2. Cardinality(S) \in Nat
    BY <2>1, FS_CardinalityType
  <2>3. \A f \in Files \ S: Cardinality(S \cup {f}) = Cardinality(S) + 1
    BY <2>1, FS_AddElement
  <2> QED BY <1>1, <2>1, <2>2, <2>3
<1> QED BY <1>1, <1>2

\* A file that fails takes its stream and its temporary file with it.
LEMMA FailedFile ==
    ASSUME TypeOK, PublicationInv, NEW f \in Files, f \notin outcomes, incoming = "accepted",
           FailIncomingFile(f)
    PROVE  PublicationInv'
<1> USE DEF PublicationInv, TypeOK, ReceiverTypeOK
<1>1. \A g \in Files: stream'[g].open <=> (g # f /\ stream[g].open)
  BY DEF FailIncomingFile, NoStream
<1>2. OpenStreams' = OpenStreams \ {f}
  BY <1>1 DEF OpenStreams
<1>3. staged' \subseteq OpenStreams'
  BY <1>2 DEF FailIncomingFile, NoOrphanStaging, OpenStreams
<1>4. Cardinality(outcomes') = completedFile' + failedFile'
  <2>1. Cardinality(outcomes \cup {f}) = Cardinality(outcomes) + 1
    BY FinitelyManyFiles
  <2> QED BY <2>1 DEF FailIncomingFile, RecordOutcome, OutcomesAreFinal
<1>5. \A g \in Files: stream'[g].open =>
        g \notin outcomes' /\ (~stream'[g].writeFailure => part'[g] = stream'[g].digest)
  BY <1>1 DEF FailIncomingFile, RecordOutcome, OutcomesAreFinal
<1> QED
  BY <1>3, <1>4, <1>5
  DEF FailIncomingFile, RecordOutcome, HandlerReturns, OutcomesAreFinal, NoOrphanStaging, PublishedIsApproved,
      RejectedUnaccepted

\* A file that is published has been hashed to the approved digest, and its
\* temporary file holds the bytes that were hashed.
LEMMA PublishedFile ==
    ASSUME TypeOK, PublicationInv, NEW f \in Files, incoming = "accepted", stream[f].open,
           ~stream[f].writeFailure, stream[f].digest = Approved(f), PublishFile(f)
    PROVE  PublicationInv'
<1> USE DEF PublicationInv, TypeOK, ReceiverTypeOK
<1>1. \A g \in Files: stream'[g].open <=> (g # f /\ stream[g].open)
  BY DEF PublishFile, NoStream
<1>2. staged' \subseteq OpenStreams'
  BY <1>1 DEF PublishFile, NoOrphanStaging, OpenStreams
<1>3. f \notin outcomes /\ part[f] = Approved(f)
  BY DEF OutcomesAreFinal
<1>4. Cardinality(outcomes') = completedFile' + failedFile'
  <2>1. Cardinality(outcomes \cup {f}) = Cardinality(outcomes) + 1
    BY <1>3, FinitelyManyFiles
  <2> QED BY <2>1 DEF PublishFile, RecordOutcome, OutcomesAreFinal
<1>5. \A g \in Files: stream'[g].open =>
        g \notin outcomes' /\ (~stream'[g].writeFailure => part'[g] = stream'[g].digest)
  BY <1>1 DEF PublishFile, RecordOutcome, OutcomesAreFinal
<1>6. PublishedIsApproved'
  <2>1. \A g \in published': final'[g] = Approved(g)
    BY <1>3 DEF PublishFile, PublishedIsApproved
  <2> QED BY <2>1 DEF PublishedIsApproved
<1> QED
  BY <1>2, <1>4, <1>5, <1>6
  DEF PublishFile, RecordOutcome, HandlerReturns, OutcomesAreFinal, NoOrphanStaging, RejectedUnaccepted

\* One more chunk: what is hashed and what is written stay the same.
LEMMA ReceivedChunk ==
    ASSUME TypeOK, PublicationInv, Serve("content"), ReceiveContent(Head(toReceiver))
    PROVE  PublicationInv'
<1> DEFINE m == Head(toReceiver)
           f == m.file
           fresh == ~stream[f].open
           data == IF m.size = 0 THEN << >> ELSE <<m.data>>
<1>1. f \in Files /\ m.size \in {0, 1} /\ m.data \in Nat
  BY HeadFrame DEF Serve, TypeOK
<1>2. CASE EndReceiver("frame")
  BY <1>2, RemovedFiles DEF EndReceiver
<1>3. CASE ~EndReceiver("frame")
  <2>0. incoming = "accepted" /\ f \notin outcomes
    BY <1>3 DEF ReceiveContent
  <2>1. PICK created, written \in BOOLEAN:
          LET s == IF fresh THEN StartReceivingFile(created) ELSE stream[f]
              writes == ~s.writeFailure /\ written
          IN /\ stream' = [stream EXCEPT ![f] =
                   Stream(s.received + m.size, s.digest \o data,
                          s.writeFailure \/ (m.size > 0 /\ ~written))]
             /\ staged' = IF fresh /\ created THEN staged \cup {f} ELSE staged
             /\ part' = [part EXCEPT ![f] =
                   (IF fresh THEN << >> ELSE @) \o (IF writes THEN data ELSE << >>)]
             /\ UNCHANGED <<incoming, incomingCanceled, outcomes, completedFile, failedFile,
                            published, final, ending, toSender>>
             /\ HandlerReturns
    BY <1>3 DEF ReceiveContent
  <2> DEFINE s == IF fresh THEN StartReceivingFile(created) ELSE stream[f]
             old == IF fresh THEN << >> ELSE part[f]
             new == IF ~s.writeFailure /\ written THEN data ELSE << >>
  <2>a. stream'[f] = Stream(s.received + m.size, s.digest \o data,
                            s.writeFailure \/ (m.size > 0 /\ ~written))
    BY <1>1, <2>1 DEF TypeOK, ReceiverTypeOK
  <2>b. /\ part'[f] = old \o new
        /\ \A g \in Files \ {f}: stream'[g] = stream[g] /\ part'[g] = part[g]
    BY <1>1, <2>1 DEF TypeOK, ReceiverTypeOK
  <2>c. ~(s.writeFailure \/ (m.size > 0 /\ ~written)) => ~s.writeFailure /\ (m.size = 0 \/ written)
    BY <1>1
  <2>2. /\ stream'[f].open /\ stream'[f].digest = s.digest \o data
        /\ ~stream'[f].writeFailure => ~s.writeFailure /\ (m.size = 0 \/ written)
    <3> DEFINE failure == s.writeFailure \/ (m.size > 0 /\ ~written)
               hashed == s.digest \o data
    <3>2. /\ stream'[f] = Stream(s.received + m.size, hashed, failure)
          /\ ~failure => ~s.writeFailure /\ (m.size = 0 \/ written)
      BY <2>a, <2>c
    <3> HIDE DEF s, failure, hashed
    <3>a. stream'[f].open = TRUE
      BY <3>2 DEF Stream
    <3>b. stream'[f].digest = hashed
      BY <3>2 DEF Stream
    <3>3. stream'[f].open /\ stream'[f].digest = s.digest \o data
      BY <3>a, <3>b DEF hashed
    <3>4. stream'[f].writeFailure = failure
      BY <3>2 DEF Stream
    <3> QED BY <3>2, <3>3, <3>4
  <2> HIDE DEF s
  <2>3. ~s.writeFailure => old = s.digest
    BY <1>1 DEF s, StartReceivingFile, Stream, PublicationInv, OutcomesAreFinal
  <2>4. ~stream'[f].writeFailure => new = data
    BY <1>1, <2>2
  <2> HIDE DEF old, new, data
  <2>5. ~stream'[f].writeFailure => part'[f] = stream'[f].digest
    BY <2>2, <2>3, <2>4, <2>b
  <2>6. OpenStreams' = OpenStreams \cup {f}
    BY <1>1, <2>2, <2>b DEF OpenStreams
  <2>7. NoOrphanStaging'
    <3>1. incoming' = "accepted" /\ staged' \subseteq staged \cup {f}
      BY <2>0, <2>1
    <3> QED BY <2>6, <3>1 DEF NoOrphanStaging, PublicationInv
  <2>8. OutcomesAreFinal'
    <3>1. UNCHANGED <<outcomes, completedFile, failedFile, published>>
      BY <2>1
    <3>2. \A g \in Files: stream'[g].open =>
            g \notin outcomes /\ (~stream'[g].writeFailure => part'[g] = stream'[g].digest)
      BY <2>0, <2>5, <2>b DEF OutcomesAreFinal, PublicationInv
    <3> QED BY <3>1, <3>2 DEF OutcomesAreFinal, PublicationInv
  <2>9. PublishedIsApproved'
    BY <2>1 DEF PublishedIsApproved, PublicationInv
  <2>10. RejectedUnaccepted'
    BY <2>1 DEF RejectedUnaccepted, PublicationInv, HandlerReturns
  <2> QED BY <2>7, <2>8, <2>9, <2>10 DEF PublicationInv
<1> QED BY <1>2, <1>3

\* Every frame the receiving Peer handles keeps the invariant.
LEMMA ServedFrame == ASSUME TypeOK, PublicationInv, ReceiverServes PROVE PublicationInv'
<1> DEFINE f == Head(toReceiver).file
<1>1. CASE ServeContent
  BY <1>1, ReceivedChunk DEF ServeContent
<1>2. CASE ServeComplete
  <2>1. f \in Files
    BY <1>2, HeadFrame DEF ServeComplete, Serve, TypeOK
  <2>2. CASE EndReceiver("frame") \/ EndReceiver("disk")
    BY <2>2, RemovedFiles DEF EndReceiver
  <2>3. CASE ~(EndReceiver("frame") \/ EndReceiver("disk"))
    <3>1. incoming = "accepted" /\ stream[f].open
      BY <1>2, <2>3 DEF ServeComplete, CompleteIncomingFile
    <3>2. f \notin outcomes
      BY <2>1, <3>1 DEF PublicationInv, OutcomesAreFinal
    <3>3. \/ FailIncomingFile(f)
          \/ PublishFile(f) /\ ~stream[f].writeFailure /\ stream[f].digest = Approved(f)
      BY <1>2, <2>3 DEF ServeComplete, CompleteIncomingFile, Intact
    <3> QED BY <2>1, <3>1, <3>2, <3>3, FailedFile, PublishedFile
  <2> QED BY <2>2, <2>3
<1>3. CASE ServeFileFailed
  <2>1. f \in Files
    BY <1>3, HeadFrame DEF ServeFileFailed, Serve, TypeOK
  <2>2. CASE EndReceiver("frame")
    BY <2>2, RemovedFiles DEF EndReceiver
  <2>3. CASE ~EndReceiver("frame")
    BY <1>3, <2>1, <2>3, FailedFile DEF ServeFileFailed, ReceiveFileFailure
  <2> QED BY <2>2, <2>3
<1>4. CASE ServeBatchComplete
  <2>1. CASE EndReceiver("frame") \/ EndReceiver("disk")
    BY <2>1, RemovedFiles DEF EndReceiver
  <2>2. CASE ~(EndReceiver("frame") \/ EndReceiver("disk"))
    <3>1. /\ completedFile + failedFile = FileCount
          /\ incoming' = "cleared"
          /\ UNCHANGED <<stream, outcomes, completedFile, failedFile, staged, part, published, final>>
      BY <1>4, <2>2 DEF ServeBatchComplete, CompleteIncomingBatch
    <3>2. outcomes = Files
      BY <3>1, FinitelyManyFiles DEF PublicationInv, OutcomesAreFinal, TypeOK, ReceiverTypeOK
    <3>3. OpenStreams = {}
      BY <3>2 DEF OpenStreams, PublicationInv, OutcomesAreFinal
    <3> QED
      BY <3>1, <3>3
      DEF PublicationInv, OutcomesAreFinal, NoOrphanStaging, OpenStreams, PublishedIsApproved,
          RejectedUnaccepted
  <2> QED BY <2>1, <2>2
<1>5. CASE ServeCancel
  <2>1. CASE incoming # "accepted"
    BY <1>5, <2>1, UnchangedDisk
    DEF ServeCancel, HandlePeerCancellation, HandlerReturns, diskVars
  <2>2. CASE incoming = "accepted"
    BY <1>5, <2>2, RemovedFiles DEF ServeCancel, HandlePeerCancellation
  <2> QED BY <2>1, <2>2
<1> QED BY <1>1, <1>2, <1>3, <1>4, <1>5 DEF ReceiverServes, ReceiverServe

\* The review: an offer that is accepted or rejected has no streams yet.
LEMMA ReviewedOffer ==
    ASSUME PublicationInv, ReceiverDecides \/ ReceiverReviews PROVE PublicationInv'
<1>1. UNCHANGED <<stream, outcomes, completedFile, failedFile, staged, part, published, final>>
  BY DEF ReceiverDecides, ReceiverReviews, AcceptOffer, RejectOffer, SendAcceptance, ClearRejected
<1>2. OutcomesAreFinal' /\ PublishedIsApproved'
  BY <1>1 DEF PublicationInv, OutcomesAreFinal, PublishedIsApproved
<1>3. RejectedUnaccepted' /\ (incoming' # "accepted" => incoming # "accepted")
  BY DEF ReceiverDecides, ReceiverReviews, AcceptOffer, RejectOffer, SendAcceptance, ClearRejected,
         PublicationInv, RejectedUnaccepted
<1>4. NoOrphanStaging'
  BY <1>1, <1>3 DEF PublicationInv, NoOrphanStaging, OpenStreams
<1> QED BY <1>2, <1>3, <1>4 DEF PublicationInv

LEMMA PublicationInit == Init => PublicationInv
BY FS_EmptySet
DEF Init, ReceiverInit, NoStream, PublicationInv, OutcomesAreFinal, NoOrphanStaging, OpenStreams,
    PublishedIsApproved, RejectedUnaccepted

LEMMA PublicationNext == TypeOK /\ PublicationInv /\ [Next]_vars => PublicationInv'
<1> SUFFICES ASSUME TypeOK, PublicationInv, [Next]_vars PROVE PublicationInv'
  OBVIOUS
<1>1. CASE ReceiverServes
  BY <1>1, ServedFrame
<1>2. CASE ReceiverDecides \/ ReceiverReviews
  BY <1>2, ReviewedOffer
<1>3. CASE ReceiverCancels \/ ReceiverSendsCancel
  BY <1>3, UnchangedDisk
  DEF ReceiverCancels, CancelIncoming, ReceiverSendsCancel, SendCancelRequest, diskVars
<1>4. CASE ReceiverEnds
  BY <1>4, RemovedFiles DEF ReceiverEnds, ReceiverLosesLink, EndReceiver
<1>5. CASE UNCHANGED receiverVars
  BY <1>5, UnchangedDisk DEF receiverVars, diskVars
<1> QED
  BY <1>1, <1>2, <1>3, <1>4, <1>5
  DEF Next, vars, SenderRuns, SenderWorks, SenderServes, SenderCancels, SenderSendsCancel,
      SenderEnds, SourceChanges, LinkFails

\* Every file under its final path has exactly the approved bytes, however
\* sources changed, writes failed and the workers' chunks interleaved.
THEOREM PublishedIsApprovedHolds == Spec => []PublishedIsApproved
BY TypeCorrect, PublicationInit, PublicationNext, PTL DEF Spec, PublicationInv

\* No temporary file outlives its stream and no stream outlives the offer,
\* whether it completes, fails, is canceled or loses its session.
THEOREM NoOrphanStagingHolds == Spec => []NoOrphanStaging
BY TypeCorrect, PublicationInit, PublicationNext, PTL DEF Spec, PublicationInv

\* The accounting of streams, outcomes and counters is exact at all times.
THEOREM OutcomesAreFinalHolds == Spec => []OutcomesAreFinal
BY TypeCorrect, PublicationInit, PublicationNext, PTL DEF Spec, PublicationInv

\* The step property behind PublishedStays: only PublishFile touches the final
\* paths, and only of a file that has no outcome yet.
LEMMA PublishedStaysStep ==
    ASSUME TypeOK, PublicationInv, [Next]_vars
    PROVE  [ published \subseteq published' /\ \A f \in published: final'[f] = final[f] ]_vars
<1>1. CASE UNCHANGED <<published, final>>
  BY <1>1
<1>2. CASE ServeComplete
  <2> DEFINE f == Head(toReceiver).file
  <2>1. f \in Files
    BY <1>2, HeadFrame DEF ServeComplete, Serve, TypeOK
  <2>2. CASE EndReceiver("frame") \/ EndReceiver("disk") \/ FailIncomingFile(f)
    BY <2>2, <1>1 DEF EndReceiver, FailIncomingFile
  <2>3. CASE PublishFile(f) /\ stream[f].open
    <3>1. f \notin published
      BY <2>1, <2>3 DEF PublicationInv, OutcomesAreFinal
    <3> QED BY <2>1, <2>3, <3>1 DEF PublishFile, TypeOK, ReceiverTypeOK
  <2> QED BY <1>2, <2>2, <2>3 DEF ServeComplete, CompleteIncomingFile
<1>3. CASE ServeContent
  BY <1>1, <1>3 DEF ServeContent, ReceiveContent, EndReceiver
<1>4. CASE ServeFileFailed \/ ServeBatchComplete \/ ServeCancel
  BY <1>1, <1>4
  DEF ServeFileFailed, ReceiveFileFailure, FailIncomingFile, ServeBatchComplete,
      CompleteIncomingBatch, ServeCancel, HandlePeerCancellation, EndReceiver
<1>5. CASE ReceiverDecides \/ ReceiverReviews \/ ReceiverCancels \/ ReceiverSendsCancel \/ ReceiverEnds
  BY <1>1, <1>5
  DEF ReceiverDecides, AcceptOffer, RejectOffer, ReceiverReviews, SendAcceptance, ClearRejected,
      ReceiverCancels, CancelIncoming, ReceiverSendsCancel, SendCancelRequest, ReceiverEnds,
      ReceiverLosesLink, EndReceiver
<1>6. CASE UNCHANGED receiverVars
  BY <1>1, <1>6 DEF receiverVars
<1> QED
  BY <1>2, <1>3, <1>4, <1>5, <1>6
  DEF Next, vars, SenderRuns, SenderWorks, SenderServes, SenderCancels, SenderSendsCancel,
      SenderEnds, SourceChanges, LinkFails, ReceiverServes, ReceiverServe

\* A published file is never removed or replaced again.
THEOREM PublishedStaysHolds == Spec => PublishedStays
BY TypeCorrect, PublicationInit, PublicationNext, PublishedStaysStep, PTL
DEF Spec, PublishedStays

---------------------------------------------------------------------------
(* The sender's account of an offer is the receiver's: no result of a file *)
(* is lost or counted twice between the receiver's counters, the wire, the *)
(* result channel and the counters of runOutgoing, and the two Peers       *)
(* implement TransferOutcome, for every number of files and workers.       *)
(*                                                                         *)
(* ResultsAreConserved says nothing once the connection is lost, when      *)
(* results may still be read and counted, and nothing of the result of the *)
(* whole offer, which runOutgoing tells from a file's only by when it      *)
(* arrives.  AccountInv adds both: the sender never counts more than the   *)
(* receiver recorded, and a result of the whole offer is on its way only   *)
(* after batch-complete, that is after every file's result was counted.    *)

\* The result of f (or of the whole offer) is on the wire or in the channel.
OnTheWay(f, verdict) ==
    \/ \E i \in 1..Len(resultCh): resultCh[i] = [file |-> f, verdict |-> verdict]
    \/ \E i \in 1..Len(toSender): toSender[i] = ResultFrame(f, verdict)

\* The receiver's counters are the sizes of its sets, and the sender, with what
\* it has still to read, has no more than the receiver recorded.
Tallied ==
    /\ completedFile = Cardinality(published)
    /\ failedFile = Cardinality(outcomes \ published)
    /\ succeeded + Uncounted("ok") <= completedFile
    /\ failed + Uncounted("failed") <= failedFile

\* The sender hears of the whole offer only when the receiver is through with it.
ClosedBeforeReported ==
    /\ ending = "none" <=> incoming # "cleared"
    /\ \A f \in Files: ~OnTheWay(f, "canceled")
    /\ \A v \in Verdicts: OnTheWay(WholeOffer, v) => ending # "none"

\* runOutgoing has counted the result of every file, or has returned.
CountedAll == run \in {"final", "done", "stopped"}
BatchOnTheWay == \E i \in 1..Len(toReceiver): toReceiver[i].type = "batch-complete"

\* The result of a complete offer answers batch-complete, which follows the
\* last count.
BatchIsAnnounced ==
    /\ BatchOnTheWay => CountedAll
    /\ \A v \in {"ok", "failed"}: OnTheWay(WholeOffer, v) => CountedAll
    /\ run = "final" => succeeded + failed >= FileCount
    /\ report # "none" => run = "done"

RejectionOnTheWay ==
    decisionCh = "reject" \/ \E i \in 1..Len(toSender): toSender[i] = DecisionFrame(FALSE)

\* An offer whose rejection is written is never accepted and has no outcomes.
RejectionIsFinal ==
    /\ incoming = "review" => outcomes = {}
    /\ review = "rejecting" => incoming = "review"
    /\ RejectionOnTheWay
            => review \in {"rejecting", "done"} /\ incoming # "accepted" /\ outcomes = {}

AccountInv ==
    Tallied /\ ResultsAreConserved /\ ClosedBeforeReported /\ BatchIsAnnounced /\ RejectionIsFinal

---------------------------------------------------------------------------
(* Counting in a channel                                                   *)

LEMMA CountedIndices ==
    ASSUME NEW T, NEW s \in Seq(T), NEW R
    PROVE  IsFiniteSet({i \in 1..Len(s): s[i] \in R}) /\ CountOf(s, R) \in Nat
<1>1. IsFiniteSet(1..Len(s))
  BY FS_Interval
<1>2. {i \in 1..Len(s): s[i] \in R} \subseteq 1..Len(s)
  OBVIOUS
<1> QED BY <1>1, <1>2, FS_Subset, FS_CardinalityType DEF CountOf

LEMMA CountEmpty == \A R: CountOf(<< >>, R) = 0
<1> TAKE R
<1>1. {i \in 1..Len(<< >>): << >>[i] \in R} = {}
  OBVIOUS
<1> QED BY <1>1, FS_EmptySet DEF CountOf

\* A sent element adds one to the count of the sets it is in.
LEMMA CountAppend ==
    ASSUME NEW T, NEW s \in Seq(T), NEW x \in T, NEW R
    PROVE  CountOf(Append(s, x), R) = CountOf(s, R) + (IF x \in R THEN 1 ELSE 0)
<1> DEFINE n == Len(s)
           A == {i \in 1..n: s[i] \in R}
           B == {i \in 1..Len(Append(s, x)): Append(s, x)[i] \in R}
<1>1. n \in Nat /\ Len(Append(s, x)) = n + 1 /\ Append(s, x)[n + 1] = x
      /\ \A i \in 1..n: Append(s, x)[i] = s[i]
  OBVIOUS
<1>2. IsFiniteSet(A) /\ Cardinality(A) \in Nat
  BY CountedIndices DEF CountOf
<1>3. CountOf(s, R) = Cardinality(A) /\ CountOf(Append(s, x), R) = Cardinality(B)
  BY DEF CountOf
<1>4. CASE x \in R
  <2>1. B = A \cup {n + 1} /\ n + 1 \notin A
    BY <1>1, <1>4
  <2>2. Cardinality(B) = Cardinality(A) + 1
    <3> HIDE DEF A, B
    <3> QED BY <1>2, <2>1, FS_AddElement
  <2> HIDE DEF A, B
  <2> QED BY <1>4, <1>3, <2>2
<1>5. CASE x \notin R
  <2>1. B = A
    BY <1>1, <1>5
  <2> HIDE DEF A, B
  <2> QED BY <1>2, <1>5, <1>3, <2>1
<1> QED BY <1>4, <1>5

\* A received element takes one from the count of the sets it was in.
LEMMA CountTail ==
    ASSUME NEW T, NEW s \in Seq(T), s # << >>, NEW R
    PROVE  CountOf(s, R) = CountOf(Tail(s), R) + (IF Head(s) \in R THEN 1 ELSE 0)
<1> DEFINE n == Len(s)
           A == {i \in 1..Len(Tail(s)): Tail(s)[i] \in R}
           B == {i \in 1..n: s[i] \in R}
           C == B \ {1}
           F == [i \in A |-> i + 1]
<1>0. /\ Len(s) \in Nat \ {0} /\ Len(Tail(s)) = Len(s) - 1 /\ Head(s) = s[1]
      /\ \A i \in 1..Len(Tail(s)): Tail(s)[i] = s[i + 1]
  OBVIOUS
<1>1. /\ n \in Nat \ {0} /\ Len(Tail(s)) = n - 1 /\ Head(s) = s[1]
      /\ \A i \in 1..(n - 1): Tail(s)[i] = s[i + 1]
  BY <1>0
<1>2. IsFiniteSet(A) /\ IsFiniteSet(B) /\ Cardinality(A) \in Nat
  <2>1. Tail(s) \in Seq(T)
    OBVIOUS
  <2> QED BY <2>1, CountedIndices DEF CountOf
<1>3. F \in Bijection(A, C)
  <2>1. F \in [A -> C]
    BY <1>1
  <2>2. \A i, j \in A: F[i] = F[j] => i = j
    BY <1>1
  <2>3. \A j \in C: j - 1 \in A /\ F[j - 1] = j
    BY <1>1
  <2> QED BY <2>1, <2>2, <2>3 DEF Bijection, Injection, Surjection, IsInjective
<1>4. ExistsBijection(A, C)
  BY <1>3 DEF ExistsBijection
<1>5. IsFiniteSet(C)
  BY <1>2, FS_RemoveElement
<1>6. Cardinality(A) = Cardinality(C)
  BY <1>2, <1>4, <1>5, FS_Bijection
<1>7. CountOf(Tail(s), R) = Cardinality(A) /\ CountOf(s, R) = Cardinality(B)
  BY DEF CountOf
<1>8. CASE Head(s) \in R
  <2>1. B = C \cup {1} /\ 1 \notin C
    BY <1>1, <1>8
  <2>2. Cardinality(B) = Cardinality(A) + 1
    <3> HIDE DEF A, B, C
    <3> QED BY <1>5, <1>6, <2>1, FS_AddElement
  <2> HIDE DEF A, B, C
  <2> QED BY <1>8, <1>7, <2>2
<1>9. CASE Head(s) \notin R
  <2>1. B = C
    BY <1>1, <1>9
  <2>2. Cardinality(B) = Cardinality(A) /\ Cardinality(A) \in Nat
    <3> HIDE DEF A, B, C
    <3> QED BY <1>2, <1>6, <2>1
  <2> HIDE DEF A, B, C
  <2> QED BY <1>9, <1>7, <2>2
<1> QED BY <1>8, <1>9
---------------------------------------------------------------------------
(* What happens to the results on their way                                *)

Results == [file: Files \cup {WholeOffer}, verdict: Verdicts]

\* The two terms of Uncounted.
InChannel(v) == CountOf(resultCh, [file: Files, verdict: {v}])
OnWire(v) == CountOf(toSender, [type: {"result"}, file: Files, verdict: {v}])

LEMMA UncountedTerms ==
    ASSUME TypeOK
    PROVE  \A v \in Verdicts: /\ InChannel(v) \in Nat /\ OnWire(v) \in Nat
                              /\ Uncounted(v) = InChannel(v) + OnWire(v)
<1> TAKE v \in Verdicts
<1>1. resultCh \in Seq(Results) /\ toSender \in Seq(SenderFrames)
  BY DEF TypeOK, WireTypeOK, SenderTypeOK, Results
<1>2. InChannel(v) \in Nat
  BY <1>1, CountedIndices DEF InChannel
<1>3. OnWire(v) \in Nat
  BY <1>1, CountedIndices DEF OnWire
<1> QED BY <1>2, <1>3 DEF Uncounted, InChannel, OnWire

\* The receiver writes a result: it is on its way, unless the link is down.
LEMMA ResultWritten ==
    ASSUME TypeOK, NEW f \in Files \cup {WholeOffer}, NEW v \in Verdicts,
           SendToSender(ResultFrame(f, v)), UNCHANGED resultCh
    PROVE  /\ \A x \in Verdicts: Uncounted(x)' =
                Uncounted(x) + (IF link = "up" /\ f \in Files /\ x = v THEN 1 ELSE 0)
           /\ \A g, x: OnTheWay(g, x)' => OnTheWay(g, x) \/ (g = f /\ x = v)
<1>1. toSender \in Seq(SenderFrames) /\ ResultFrame(f, v) \in SenderFrames
  BY SenderFrameTypes DEF TypeOK, WireTypeOK
<1>2. ASSUME NEW x \in Verdicts
      PROVE  Uncounted(x)' = Uncounted(x) + (IF link = "up" /\ f \in Files /\ x = v THEN 1 ELSE 0)
  <2> DEFINE R == [type: {"result"}, file: Files, verdict: {x}]
  <2>1. ResultFrame(f, v) \in R <=> f \in Files /\ x = v
    BY DEF ResultFrame
  <2>2. OnWire(x)' = OnWire(x) + (IF link = "up" /\ f \in Files /\ x = v THEN 1 ELSE 0)
    <3>1. CASE link = "up"
      <4>1. toSender' = Append(toSender, ResultFrame(f, v))
        BY <3>1 DEF SendToSender
      <4>2. CountOf(toSender', R) = CountOf(toSender, R) + (IF ResultFrame(f, v) \in R THEN 1 ELSE 0)
        <5> HIDE DEF R
        <5> QED BY <1>1, <4>1, CountAppend
      <4> QED BY <2>1, <3>1, <4>2 DEF OnWire
    <3>2. CASE link # "up"
      BY <3>2, UncountedTerms DEF SendToSender, OnWire
    <3> QED BY <3>1, <3>2
  <2>3. InChannel(x)' = InChannel(x)
    BY DEF InChannel
  <2>4. Uncounted(x)' = InChannel(x)' + OnWire(x)'
    BY DEF Uncounted, InChannel, OnWire
  <2> QED BY <2>2, <2>3, <2>4, UncountedTerms
<1>3. ASSUME NEW g, NEW x, OnTheWay(g, x)' PROVE OnTheWay(g, x) \/ (g = f /\ x = v)
  <2>1. \A i \in 1..Len(toSender'): toSender'[i] = ResultFrame(f, v)
           \/ (i \in 1..Len(toSender) /\ toSender'[i] = toSender[i])
    BY <1>1 DEF SendToSender
  <2>2. ResultFrame(g, x) = ResultFrame(f, v) => g = f /\ x = v
    BY DEF ResultFrame
  <2> QED BY <1>3, <2>1, <2>2 DEF OnTheWay
<1> QED BY <1>2, <1>3

\* Neither a decision nor a cancellation is a result.
LEMMA OtherWritten ==
    ASSUME TypeOK, NEW frame \in SenderFrames, frame.type # "result",
           SendToSender(frame), UNCHANGED resultCh
    PROVE  /\ \A x \in Verdicts: Uncounted(x)' = Uncounted(x)
           /\ \A g, x: OnTheWay(g, x)' => OnTheWay(g, x)
<1>1. toSender \in Seq(SenderFrames)
  BY DEF TypeOK, WireTypeOK
<1>2. ASSUME NEW x \in Verdicts PROVE Uncounted(x)' = Uncounted(x)
  <2> DEFINE R == [type: {"result"}, file: Files, verdict: {x}]
  <2>1. frame \notin R
    OBVIOUS
  <2>2. OnWire(x)' = OnWire(x)
    <3>1. CASE link = "up"
      <4>1. toSender' = Append(toSender, frame)
        BY <3>1 DEF SendToSender
      <4>2. CountOf(toSender', R) = CountOf(toSender, R) + (IF frame \in R THEN 1 ELSE 0)
        <5> HIDE DEF R
        <5> QED BY <1>1, <4>1, CountAppend
      <4>3. OnWire(x) \in Nat /\ OnWire(x) = CountOf(toSender, R) /\ OnWire(x)' = CountOf(toSender', R)
        BY UncountedTerms DEF OnWire
      <4> HIDE DEF R
      <4> QED BY <2>1, <4>2, <4>3
    <3>2. CASE link # "up"
      BY <3>2 DEF SendToSender, OnWire
    <3> QED BY <3>1, <3>2
  <2>3. InChannel(x)' = InChannel(x)
    BY DEF InChannel
  <2> QED BY <2>2, <2>3 DEF Uncounted, InChannel, OnWire
<1>3. ASSUME NEW g, NEW x, OnTheWay(g, x)' PROVE OnTheWay(g, x)
  <2>1. \A i \in 1..Len(toSender'): toSender'[i] = frame
           \/ (i \in 1..Len(toSender) /\ toSender'[i] = toSender[i])
    BY <1>1 DEF SendToSender
  <2>2. ResultFrame(g, x) # frame
    BY DEF ResultFrame
  <2> QED BY <1>3, <2>1, <2>2 DEF OnTheWay
<1> QED BY <1>2, <1>3

\* The serve loop hands a result to the channel.
LEMMA ResultRouted ==
    ASSUME TypeOK, toSender # << >>, Head(toSender).type = "result", toSender' = Tail(toSender),
           resultCh' = Append(resultCh, [file |-> Head(toSender).file, verdict |-> Head(toSender).verdict])
    PROVE  /\ \A x \in Verdicts: Uncounted(x)' = Uncounted(x)
           /\ \A g, x: OnTheWay(g, x)' => OnTheWay(g, x)
<1> DEFINE m == Head(toSender)
           r == [file |-> m.file, verdict |-> m.verdict]
<1>1. /\ toSender \in Seq(SenderFrames) /\ resultCh \in Seq(Results) /\ m \in SenderFrames
      /\ m = toSender[1] /\ Len(toSender) \in Nat \ {0}
  BY DEF TypeOK, WireTypeOK, SenderTypeOK, Results
<1>2. m = ResultFrame(m.file, m.verdict) /\ r \in Results
  BY <1>1 DEF SenderFrames, ResultFrame, Results
<1>3. ASSUME NEW x \in Verdicts PROVE Uncounted(x)' = Uncounted(x)
  <2> DEFINE R == [type: {"result"}, file: Files, verdict: {x}]
             C == [file: Files, verdict: {x}]
  <2>1. m \in R <=> r \in C
    BY <1>2 DEF ResultFrame
  <2>2. CountOf(toSender, R) = CountOf(toSender', R) + (IF m \in R THEN 1 ELSE 0)
    <3> HIDE DEF R
    <3> QED BY <1>1, CountTail
  <2>3. CountOf(resultCh', C) = CountOf(resultCh, C) + (IF r \in C THEN 1 ELSE 0)
    <3>1. resultCh' = Append(resultCh, r)
      OBVIOUS
    <3> HIDE DEF C, r
    <3> QED BY <1>1, <1>2, <3>1, CountAppend
  <2>4. CountOf(toSender', R) \in Nat
    <3>1. toSender' \in Seq(SenderFrames)
      BY <1>1
    <3> HIDE DEF R
    <3> QED BY <3>1, CountedIndices
  <2>5. CountOf(resultCh, C) \in Nat
    <3> HIDE DEF C
    <3> QED BY <1>1, CountedIndices
  <2>6. Uncounted(x) = CountOf(resultCh, C) + CountOf(toSender, R)
    BY DEF Uncounted
  <2>7. Uncounted(x)' = CountOf(resultCh', C) + CountOf(toSender', R)
    BY DEF Uncounted
  <2> HIDE DEF R, C, r, m
  <2> QED BY <2>1, <2>2, <2>3, <2>4, <2>5, <2>6, <2>7
<1>4. ASSUME NEW g, NEW x, OnTheWay(g, x)' PROVE OnTheWay(g, x)
  <2>1. \A i \in 1..Len(toSender'): i + 1 \in 1..Len(toSender) /\ toSender'[i] = toSender[i + 1]
    BY <1>1
  <2>2. \A i \in 1..Len(resultCh'): resultCh'[i] = r
           \/ (i \in 1..Len(resultCh) /\ resultCh'[i] = resultCh[i])
    BY <1>1
  <2>3. r = [file |-> g, verdict |-> x] => toSender[1] = ResultFrame(g, x) /\ 1 \in 1..Len(toSender)
    BY <1>1, <1>2
  <2> HIDE DEF r, m
  <2> QED BY <1>4, <2>1, <2>2, <2>3 DEF OnTheWay
<1> QED BY <1>3, <1>4

\* The serve loop takes a frame that is not a result.
LEMMA OtherTaken ==
    ASSUME TypeOK, toSender # << >>, Head(toSender).type # "result", toSender' = Tail(toSender),
           UNCHANGED resultCh
    PROVE  /\ \A x \in Verdicts: Uncounted(x)' = Uncounted(x)
           /\ \A g, x: OnTheWay(g, x)' => OnTheWay(g, x)
<1>1. toSender \in Seq(SenderFrames)
  BY DEF TypeOK, WireTypeOK
<1>2. ASSUME NEW x \in Verdicts PROVE Uncounted(x)' = Uncounted(x)
  <2> DEFINE R == [type: {"result"}, file: Files, verdict: {x}]
  <2>1. Head(toSender) \notin R
    OBVIOUS
  <2>2. CountOf(toSender, R) = CountOf(toSender', R) + (IF Head(toSender) \in R THEN 1 ELSE 0)
    <3> HIDE DEF R
    <3> QED BY <1>1, CountTail
  <2>3. CountOf(toSender', R) \in Nat
    <3>1. toSender' \in Seq(SenderFrames)
      BY <1>1
    <3> HIDE DEF R
    <3> QED BY <3>1, CountedIndices
  <2> QED BY <2>1, <2>2, <2>3 DEF Uncounted
<1>3. ASSUME NEW g, NEW x, OnTheWay(g, x)' PROVE OnTheWay(g, x)
  <2>1. \A i \in 1..Len(toSender'): i + 1 \in 1..Len(toSender) /\ toSender'[i] = toSender[i + 1]
    BY <1>1
  <2> QED BY <1>3, <2>1 DEF OnTheWay
<1> QED BY <1>2, <1>3

\* runOutgoing takes a result from the channel.
LEMMA ResultTaken ==
    ASSUME TypeOK, resultCh # << >>, resultCh' = Tail(resultCh), UNCHANGED toSender
    PROVE  /\ \A x \in Verdicts:
                /\ Uncounted(x)' \in Nat
                /\ Uncounted(x) = Uncounted(x)' +
                     (IF Head(resultCh).file \in Files /\ Head(resultCh).verdict = x THEN 1 ELSE 0)
           /\ \A g, x: OnTheWay(g, x)' => OnTheWay(g, x)
           /\ Head(resultCh) \in Results
           /\ OnTheWay(Head(resultCh).file, Head(resultCh).verdict)
<1> DEFINE r == Head(resultCh)
<1>0. resultCh \in Seq(Results)
  BY DEF TypeOK, SenderTypeOK, Results
<1>1. resultCh \in Seq(Results) /\ r \in Results /\ r = resultCh[1] /\ Len(resultCh) \in Nat \ {0}
  BY <1>0
<1>2. r = [file |-> r.file, verdict |-> r.verdict]
  BY <1>1 DEF Results
<1>3. ASSUME NEW x \in Verdicts
      PROVE  /\ Uncounted(x)' \in Nat
             /\ Uncounted(x) = Uncounted(x)' + (IF r.file \in Files /\ r.verdict = x THEN 1 ELSE 0)
  <2> DEFINE C == [file: Files, verdict: {x}]
  <2>1. r \in C <=> r.file \in Files /\ r.verdict = x
    BY <1>2
  <2>2. CountOf(resultCh, C) = CountOf(resultCh', C) + (IF r \in C THEN 1 ELSE 0)
    <3> HIDE DEF C
    <3> QED BY <1>1, CountTail
  <2>3. CountOf(resultCh', C) \in Nat
    <3>1. resultCh' \in Seq(Results)
      BY <1>1
    <3> HIDE DEF C
    <3> QED BY <3>1, CountedIndices
  <2>4. OnWire(x) \in Nat
    BY UncountedTerms
  <2>5. /\ Uncounted(x) = CountOf(resultCh, C) + OnWire(x)
        /\ Uncounted(x)' = CountOf(resultCh', C) + OnWire(x)
    BY DEF Uncounted, OnWire
  <2> HIDE DEF C, r
  <2> QED BY <2>1, <2>2, <2>3, <2>4, <2>5
<1>4. ASSUME NEW g, NEW x, OnTheWay(g, x)' PROVE OnTheWay(g, x)
  <2>1. \A i \in 1..Len(resultCh'): i + 1 \in 1..Len(resultCh) /\ resultCh'[i] = resultCh[i + 1]
    BY <1>1
  <2> QED BY <1>4, <2>1 DEF OnTheWay
<1>5. OnTheWay(r.file, r.verdict)
  BY <1>1, <1>2 DEF OnTheWay
<1> QED BY <1>1, <1>3, <1>4, <1>5

\* The sending Peer ends: what it has not read is lost.
LEMMA ResultsDropped ==
    ASSUME resultCh' = << >>, toSender' = << >>
    PROVE  /\ \A x \in Verdicts: Uncounted(x)' = 0
           /\ \A g, x: ~OnTheWay(g, x)'
BY CountEmpty DEF Uncounted, OnTheWay

LEMMA ResultsUntouched ==
    ASSUME UNCHANGED <<resultCh, toSender>>
    PROVE  /\ \A x \in Verdicts: Uncounted(x)' = Uncounted(x)
           /\ \A g, x: OnTheWay(g, x)' <=> OnTheWay(g, x)
BY DEF Uncounted, OnTheWay
---------------------------------------------------------------------------
(* The frames that announce the end of the batch, and a rejection          *)

LEMMA NoNewBatch ==
    ASSUME WireTypeOK,
           \/ UNCHANGED toReceiver \/ toReceiver' = << >>
           \/ toReceiver # << >> /\ toReceiver' = Tail(toReceiver)
           \/ \E frame \in ReceiverFrames: frame.type # "batch-complete" /\ SendToReceiver(frame)
    PROVE  BatchOnTheWay' => BatchOnTheWay
<1> USE DEF WireTypeOK, BatchOnTheWay
<1>1. CASE UNCHANGED toReceiver \/ toReceiver' = << >>
  BY <1>1
<1>2. CASE toReceiver # << >> /\ toReceiver' = Tail(toReceiver)
  <2>1. \A i \in 1..Len(toReceiver'): i + 1 \in 1..Len(toReceiver) /\ toReceiver'[i] = toReceiver[i + 1]
    BY <1>2
  <2> QED BY <2>1
<1>3. ASSUME NEW frame \in ReceiverFrames, frame.type # "batch-complete", SendToReceiver(frame)
      PROVE  BatchOnTheWay' => BatchOnTheWay
  <2>1. \A i \in 1..Len(toReceiver'): toReceiver'[i] = frame
           \/ (i \in 1..Len(toReceiver) /\ toReceiver'[i] = toReceiver[i])
    BY <1>3 DEF SendToReceiver
  <2> QED BY <1>3, <2>1
<1> QED BY <1>1, <1>2, <1>3

LEMMA NoNewRejection ==
    ASSUME WireTypeOK, decisionCh' = "reject" => decisionCh = "reject",
           \/ UNCHANGED toSender \/ toSender' = << >>
           \/ toSender # << >> /\ toSender' = Tail(toSender)
           \/ \E frame \in SenderFrames: frame # DecisionFrame(FALSE) /\ SendToSender(frame)
    PROVE  RejectionOnTheWay' => RejectionOnTheWay
<1> USE DEF WireTypeOK, RejectionOnTheWay
<1>0. CASE toSender' = << >>
  BY <1>0
<1>1. CASE UNCHANGED toSender
  BY <1>1
<1>2. CASE toSender # << >> /\ toSender' = Tail(toSender)
  <2>1. \A i \in 1..Len(toSender'): i + 1 \in 1..Len(toSender) /\ toSender'[i] = toSender[i + 1]
    BY <1>2
  <2> QED BY <2>1
<1>3. ASSUME NEW frame \in SenderFrames, frame # DecisionFrame(FALSE), SendToSender(frame)
      PROVE  RejectionOnTheWay' => RejectionOnTheWay
  <2>1. \A i \in 1..Len(toSender'): toSender'[i] = frame
           \/ (i \in 1..Len(toSender) /\ toSender'[i] = toSender[i])
    BY <1>3 DEF SendToSender
  <2> QED BY <1>3, <2>1
<1> QED BY <1>0, <1>1, <1>2, <1>3

---------------------------------------------------------------------------
(* The invariant                                                           *)

\* What the receiver knows of the offer, as far as the account goes.
receiverAccount == <<completedFile, failedFile, published, outcomes, incoming, review, ending>>

\* A step that moves frames without changing what either Peer has counted.
LEMMA AccountKept ==
    ASSUME AccountInv, UNCHANGED <<receiverAccount, succeeded, failed>>,
           \A x \in {"ok", "failed"}: Uncounted(x)' = Uncounted(x),
           \A g, x: OnTheWay(g, x)' => OnTheWay(g, x),
           link' = "up" => link = "up",
           BatchOnTheWay' => BatchOnTheWay \/ CountedAll',
           RejectionOnTheWay' => RejectionOnTheWay,
           CountedAll => CountedAll',
           run' = "final" => succeeded + failed >= FileCount,
           report' # "none" => run' = "done"
    PROVE  AccountInv'
<1> USE DEF AccountInv, receiverAccount
<1>1. Tallied'
  BY DEF Tallied, Verdicts
<1>2. ResultsAreConserved'
  BY DEF ResultsAreConserved, Verdicts
<1>3. ClosedBeforeReported'
  BY DEF ClosedBeforeReported
<1>4. BatchIsAnnounced'
  BY DEF BatchIsAnnounced
<1>5. RejectionIsFinal'
  BY DEF RejectionIsFinal
<1> QED BY <1>1, <1>2, <1>3, <1>4, <1>5

\* The sending Peer loses what it has not counted with its connection.
LEMMA AccountEnded ==
    ASSUME TypeOK, AccountInv, UNCHANGED receiverVars, NEW e \in BOOLEAN, EndSender(e)
    PROVE  AccountInv'
<1> USE DEF AccountInv
<1>1. /\ UNCHANGED receiverAccount /\ UNCHANGED <<succeeded, failed, report, toReceiver>>
      /\ link' = "down" /\ run' = (IF run = "done" THEN run ELSE "stopped")
      /\ resultCh' = << >> /\ toSender' = << >> /\ decisionCh' = "none"
  BY DEF EndSender, receiverVars, receiverAccount
<1>2. \A x \in Verdicts: Uncounted(x) \in Nat
  BY UncountedTerms
<1>3. (\A x \in Verdicts: Uncounted(x)' = 0) /\ \A g, x: ~OnTheWay(g, x)'
  BY <1>1, ResultsDropped
<1>4. Tallied'
  BY <1>1, <1>2, <1>3 DEF Tallied, receiverAccount, Verdicts, TypeOK, SenderTypeOK, ReceiverTypeOK
<1>5. ResultsAreConserved'
  BY <1>1 DEF ResultsAreConserved
<1>6. ClosedBeforeReported'
  BY <1>1, <1>3 DEF ClosedBeforeReported, receiverAccount
<1>7. BatchIsAnnounced'
  BY <1>1, <1>3 DEF BatchIsAnnounced, BatchOnTheWay, CountedAll
<1>8. RejectionIsFinal'
  BY <1>1 DEF RejectionIsFinal, RejectionOnTheWay, receiverAccount
<1> QED BY <1>4, <1>5, <1>6, <1>7, <1>8

LEMMA AccountSenderRuns ==
    ASSUME TypeOK, PublicationInv, AccountInv, SenderRuns PROVE AccountInv'
<1>0. UNCHANGED receiverAccount /\ (RejectionOnTheWay' => RejectionOnTheWay)
  <2>1. UNCHANGED toSender /\ (decisionCh' = "reject" => decisionCh = "reject")
    BY DEF SenderRuns, RunOutgoing, TakeDecision, ReleaseWorkers, CollectResult, CompleteBatch,
           FinishOutgoing, wireVars
  <2> QED BY <2>1, NoNewRejection DEF SenderRuns, receiverVars, receiverAccount, TypeOK
<1>1. CASE TakeDecision \/ ReleaseWorkers
  <2>1. /\ UNCHANGED <<succeeded, failed, resultCh, toSender, toReceiver, link>>
        /\ run \in {"decision", "starting"} /\ run' # "final"
        /\ (report' # "none" => run' = "done" \/ report # "none")
    BY <1>1 DEF TakeDecision, ReleaseWorkers, wireVars
  <2>2. report = "none" /\ ~CountedAll
    BY <2>1 DEF AccountInv, BatchIsAnnounced, CountedAll
  <2>3. BatchOnTheWay' => BatchOnTheWay
    BY <2>1 DEF BatchOnTheWay
  <2> QED BY <1>0, <2>1, <2>2, <2>3, ResultsUntouched, AccountKept DEF Verdicts
<1>2. CASE CompleteBatch
  <2>1. /\ UNCHANGED <<succeeded, failed, resultCh, toSender, link, report>>
        /\ run = "collect" /\ run' = "final" /\ succeeded + failed >= FileCount
    BY <1>2 DEF CompleteBatch
  <2>2. report = "none" /\ CountedAll'
    BY <2>1 DEF AccountInv, BatchIsAnnounced, CountedAll
  <2> QED BY <1>0, <2>1, <2>2, ResultsUntouched, AccountKept DEF Verdicts
<1>3. CASE CollectResult
  <2> DEFINE r == Head(resultCh)
  <2>1. /\ UNCHANGED <<toSender, toReceiver, link, decisionCh>> /\ resultCh # << >>
        /\ resultCh' = Tail(resultCh) /\ run = "collect" /\ CountResult(r.verdict)
        /\ run' = (IF r.verdict = "canceled" THEN "done" ELSE run)
        /\ report' = (IF r.verdict = "canceled" THEN "canceled" ELSE report)
    BY <1>3 DEF CollectResult, wireVars
  <2>2. /\ \A x \in Verdicts:
             /\ Uncounted(x)' \in Nat
             /\ Uncounted(x) = Uncounted(x)' +
                  (IF r.file \in Files /\ r.verdict = x THEN 1 ELSE 0)
        /\ \A g, x: OnTheWay(g, x)' => OnTheWay(g, x)
        /\ r \in Results /\ OnTheWay(r.file, r.verdict)
    BY <2>1, ResultTaken
  <2>3. r.verdict = "canceled" \/ r.file \in Files
    BY <2>1, <2>2 DEF AccountInv, BatchIsAnnounced, CountedAll, Results, Verdicts
  <2> HIDE DEF r
  <2>4. /\ succeeded' + Uncounted("ok")' = succeeded + Uncounted("ok")
        /\ failed' + Uncounted("failed")' = failed + Uncounted("failed")
    <3>1. /\ succeeded \in Nat /\ failed \in Nat
          /\ Uncounted("ok")' \in Nat /\ Uncounted("failed")' \in Nat
          /\ Uncounted("ok") = Uncounted("ok")' + (IF r.verdict = "ok" THEN 1 ELSE 0)
          /\ Uncounted("failed") = Uncounted("failed")' + (IF r.verdict = "failed" THEN 1 ELSE 0)
      BY <2>2, <2>3 DEF Verdicts, TypeOK, SenderTypeOK
    <3> QED BY <2>1, <3>1 DEF CountResult
  <2>5. Tallied' /\ ResultsAreConserved'
    BY <1>0, <2>1, <2>4 DEF AccountInv, Tallied, ResultsAreConserved, receiverAccount
  <2>6. ClosedBeforeReported'
    BY <1>0, <2>2 DEF AccountInv, ClosedBeforeReported, receiverAccount
  <2>7. BatchIsAnnounced'
    BY <2>1, <2>2 DEF AccountInv, BatchIsAnnounced, BatchOnTheWay, CountedAll
  <2>8. RejectionIsFinal'
    BY <1>0 DEF AccountInv, RejectionIsFinal, receiverAccount
  <2> QED BY <2>5, <2>6, <2>7, <2>8 DEF AccountInv
<1>4. CASE FinishOutgoing
  <2> DEFINE r == Head(resultCh)
  <2>1. /\ UNCHANGED <<toSender, toReceiver, link, decisionCh, succeeded, failed>>
        /\ resultCh # << >> /\ resultCh' = Tail(resultCh) /\ run = "final" /\ run' = "done"
    BY <1>4 DEF FinishOutgoing, wireVars
  <2>2. /\ \A x \in Verdicts:
             /\ Uncounted(x)' \in Nat
             /\ Uncounted(x) = Uncounted(x)' +
                  (IF r.file \in Files /\ r.verdict = x THEN 1 ELSE 0)
        /\ \A g, x: OnTheWay(g, x)' => OnTheWay(g, x)
    BY <2>1, ResultTaken
  <2> HIDE DEF r
  <2>3. /\ Uncounted("ok")' <= Uncounted("ok") /\ Uncounted("failed")' <= Uncounted("failed")
        /\ Uncounted("ok")' \in Nat /\ Uncounted("failed")' \in Nat
        /\ Uncounted("ok") \in Nat /\ Uncounted("failed") \in Nat
    BY <2>2, UncountedTerms DEF Verdicts
  <2>4. completedFile + failedFile <= FileCount
    <3>1. Cardinality(outcomes) <= FileCount
      BY FinitelyManyFiles, FS_Subset DEF TypeOK, ReceiverTypeOK
    <3> QED BY <3>1 DEF PublicationInv, OutcomesAreFinal
  <2>5. Uncounted("ok") = 0 /\ Uncounted("failed") = 0
    <3>1. /\ succeeded + failed >= FileCount
          /\ succeeded + Uncounted("ok") <= completedFile /\ failed + Uncounted("failed") <= failedFile
      BY <2>1 DEF AccountInv, BatchIsAnnounced, Tallied
    <3> QED BY <2>3, <2>4, <3>1, FileCountAssumption
            DEF TypeOK, SenderTypeOK, ReceiverTypeOK
  <2>6. Uncounted("ok")' = Uncounted("ok") /\ Uncounted("failed")' = Uncounted("failed")
    BY <2>3, <2>5
  <2> QED BY <1>0, <2>1, <2>2, <2>6, AccountKept DEF BatchOnTheWay, CountedAll
<1> QED BY <1>1, <1>2, <1>3, <1>4 DEF SenderRuns, RunOutgoing
\* A file worker writes at most one frame, and never batch-complete.
LEMMA WorkerWrites ==
    ASSUME TypeOK, NEW w \in Workers, WorkerStep(w)
    PROVE  \/ UNCHANGED toReceiver
           \/ \E frame \in ReceiverFrames: frame.type # "batch-complete" /\ SendToReceiver(frame)
<1>a. worker[w].at \in BusyPlaces =>
         /\ worker[w].file \in Files /\ worker[w].offset \in Nat
         /\ worker[w].buffer \in Nat /\ worker[w].hashed \in Seq(Nat)
  BY DEF TypeOK, SenderTypeOK, WorkerState, BusyPlaces, IdlePlaces
<1>1. CASE TakeJob(w) \/ PassBarrier(w) \/ OpenSource(w) \/ ReadChunk(w)
  BY <1>1 DEF TakeJob, PassBarrier, OpenSource, ReadChunk
<1>2. CASE SendChunk(w)
  <2> DEFINE frame == ContentFrame(worker[w].file, worker[w].offset, ChunkBytes(worker[w].file), worker[w].buffer)
  <2>1. frame \in ReceiverFrames
    BY <1>a, <1>2, ReceiverFrameTypes DEF SendChunk, BusyPlaces, ChunkBytes
  <2>2. frame.type = "content"
    BY DEF ContentFrame
  <2>3. UNCHANGED toReceiver \/ SendToReceiver(frame)
    BY <1>2 DEF SendChunk
  <2> HIDE DEF frame
  <2> QED BY <2>1, <2>2, <2>3
<1>3. CASE SendComplete(w)
  <2> DEFINE ok == StatUnchanged(source[worker[w].file]) /\ worker[w].hashed = Approved(worker[w].file)
             frame == CompleteFrame(worker[w].file, worker[w].hashed, ok)
  <2>1. frame \in ReceiverFrames
    <3>1. ok \in BOOLEAN
      BY DEF StatUnchanged
    <3> QED BY <1>a, <1>3, <3>1, ReceiverFrameTypes DEF SendComplete, BusyPlaces
  <2>2. frame.type = "complete"
    BY DEF CompleteFrame
  <2>3. UNCHANGED toReceiver \/ SendToReceiver(frame)
    BY <1>3 DEF SendComplete
  <2> HIDE DEF frame
  <2> QED BY <2>1, <2>2, <2>3
<1>4. CASE SendFileFailed(w)
  <2> DEFINE frame == FileFailedFrame(worker[w].file)
  <2>1. frame \in ReceiverFrames
    BY <1>a, <1>4, ReceiverFrameTypes DEF SendFileFailed, BusyPlaces
  <2>2. frame.type = "file-failed"
    BY DEF FileFailedFrame
  <2>3. SendToReceiver(frame)
    BY <1>4 DEF SendFileFailed
  <2> HIDE DEF frame
  <2> QED BY <2>1, <2>2, <2>3
<1> QED BY <1>1, <1>2, <1>3, <1>4 DEF WorkerStep

LEMMA CancelFrameType == CancelFrame.type = "cancel" /\ CancelFrame \in ReceiverFrames /\ CancelFrame \in SenderFrames
BY ReceiverFrameTypes, SenderFrameTypes DEF CancelFrame

\* The serve loop hands a decision to the channel.
LEMMA DecisionRouted ==
    ASSUME TypeOK, toSender # << >>, toSender' = Tail(toSender), Head(toSender).type = "decision",
           decisionCh' = IF Head(toSender).accepted THEN "accept" ELSE "reject"
    PROVE  RejectionOnTheWay' => RejectionOnTheWay
<1>1. /\ Head(toSender) = toSender[1] /\ Len(toSender) \in Nat \ {0}
      /\ Head(toSender) \in SenderFrames
      /\ \A i \in 1..Len(toSender'): i + 1 \in 1..Len(toSender) /\ toSender'[i] = toSender[i + 1]
  BY DEF TypeOK, WireTypeOK
<1>2. Head(toSender).accepted \in BOOLEAN /\ Head(toSender) = DecisionFrame(Head(toSender).accepted)
  BY <1>1 DEF SenderFrames, DecisionFrame
<1>3. decisionCh' = "reject" => toSender[1] = DecisionFrame(FALSE) /\ 1 \in 1..Len(toSender)
  <2>1. CASE Head(toSender).accepted
    BY <2>1
  <2>2. CASE ~Head(toSender).accepted
    <3>1. Head(toSender).accepted = FALSE
      BY <1>2, <2>2
    <3>2. Head(toSender) = DecisionFrame(FALSE)
      BY <1>2, <3>1, Zenon
    <3>3. toSender[1] = DecisionFrame(FALSE)
      BY <1>1, <3>2, Zenon
    <3>4. 1 \in 1..Len(toSender)
      BY <1>1
    <3> QED BY <3>3, <3>4, Zenon
  <2> QED BY <2>1, <2>2
<1> QED BY <1>1, <1>3 DEF RejectionOnTheWay

\* The rest of the sending Peer: it moves frames and counts nothing.
LEMMA AccountSender ==
    ASSUME TypeOK, AccountInv,
           \/ \E w \in Workers: SenderWorks(w)
           \/ \E f \in Files: SourceChanges(f)
           \/ SenderServes \/ SenderCancels \/ SenderSendsCancel \/ SenderEnds \/ LinkFails
    PROVE  AccountInv'
<1>a. run = "final" => succeeded + failed >= FileCount
  BY DEF AccountInv, BatchIsAnnounced
<1>b. report # "none" => run = "done"
  BY DEF AccountInv, BatchIsAnnounced
<1>c. ASSUME UNCHANGED receiverVars, UNCHANGED <<run, report, succeeded, failed>>,
             link' = "up" => link = "up",
             \A x \in Verdicts: Uncounted(x)' = Uncounted(x),
             \A g, x: OnTheWay(g, x)' => OnTheWay(g, x),
             BatchOnTheWay' => BatchOnTheWay, RejectionOnTheWay' => RejectionOnTheWay
      PROVE  AccountInv'
  <2>1. UNCHANGED receiverAccount /\ (CountedAll => CountedAll')
    BY <1>c DEF receiverVars, receiverAccount, CountedAll
  <2> QED BY <1>a, <1>b, <1>c, <2>1, AccountKept DEF Verdicts
<1>1. ASSUME NEW w \in Workers, SenderWorks(w) PROVE AccountInv'
  <2>1. UNCHANGED <<run, report, succeeded, failed, resultCh, toSender, link, decisionCh, receiverVars>>
    BY <1>1
    DEF SenderWorks, WorkerStep, TakeJob, PassBarrier, OpenSource, ReadChunk, SendChunk,
        SendComplete, SendFileFailed, WorkerUnchanged
  <2>2. BatchOnTheWay' => BatchOnTheWay
    BY <1>1, WorkerWrites, NoNewBatch DEF SenderWorks, TypeOK
  <2>3. RejectionOnTheWay' => RejectionOnTheWay
    BY <2>1, NoNewRejection DEF TypeOK
  <2> QED BY <1>c, <2>1, <2>2, <2>3, ResultsUntouched
<1>2. CASE (\E f \in Files: SourceChanges(f)) \/ SenderCancels \/ SenderSendsCancel \/ LinkFails
  <2>1. /\ UNCHANGED <<run, report, succeeded, failed, resultCh, toSender, decisionCh, receiverVars>>
        /\ link' = "up" => link = "up"
        /\ UNCHANGED toReceiver \/ SendToReceiver(CancelFrame)
    BY <1>2
    DEF SourceChanges, ChangeSource, SenderCancels, CancelOutgoing, SenderSendsCancel, SendCancel,
        LinkFails, LinkDown, wireVars, senderVars
  <2>2. BatchOnTheWay' => BatchOnTheWay
    BY <2>1, CancelFrameType, NoNewBatch DEF TypeOK
  <2>3. RejectionOnTheWay' => RejectionOnTheWay
    BY <2>1, NoNewRejection DEF TypeOK
  <2> QED BY <1>c, <2>1, <2>2, <2>3, ResultsUntouched
<1>3. CASE SenderEnds
  BY <1>3, AccountEnded DEF SenderEnds, SenderLosesLink
<1>4. CASE SenderServes
  <2>0. UNCHANGED receiverVars
    BY <1>4 DEF SenderServes
  <2>1. CASE EndSender(TRUE)
    BY <2>0, <2>1, AccountEnded
  <2>2. CASE ServeDecision /\ ~EndSender(TRUE)
    <3>1. /\ UNCHANGED <<run, report, succeeded, failed, resultCh, toReceiver, link>>
          /\ toSender # << >> /\ toSender' = Tail(toSender) /\ Head(toSender).type = "decision"
          /\ decisionCh' = (IF Head(toSender).accepted THEN "accept" ELSE "reject")
      BY <2>2 DEF ServeDecision
    <3>2. RejectionOnTheWay' => RejectionOnTheWay
      BY <3>1, DecisionRouted
    <3>3. BatchOnTheWay' => BatchOnTheWay
      BY <3>1 DEF BatchOnTheWay
    <3> QED BY <1>c, <2>0, <3>1, <3>2, <3>3, OtherTaken
  <2>3. CASE ServeResult /\ ~EndSender(TRUE)
    <3>1. /\ UNCHANGED <<run, report, succeeded, failed, decisionCh, toReceiver, link>>
          /\ toSender # << >> /\ toSender' = Tail(toSender) /\ Head(toSender).type = "result"
          /\ resultCh' = Append(resultCh, [file |-> Head(toSender).file, verdict |-> Head(toSender).verdict])
      BY <2>3 DEF ServeResult
    <3>2. RejectionOnTheWay' => RejectionOnTheWay
      BY <3>1, NoNewRejection DEF TypeOK
    <3>3. BatchOnTheWay' => BatchOnTheWay
      BY <3>1 DEF BatchOnTheWay
    <3> QED BY <1>c, <2>0, <3>1, <3>2, <3>3, ResultRouted
  <2>4. CASE ServePeerCancel
    <3>1. /\ UNCHANGED <<run, report, succeeded, failed, resultCh, decisionCh, link>>
          /\ toSender # << >> /\ toSender' = Tail(toSender) /\ Head(toSender).type = "cancel"
          /\ UNCHANGED toReceiver \/ SendToReceiver(CancelFrame)
      BY <2>4 DEF ServePeerCancel
    <3>2. RejectionOnTheWay' => RejectionOnTheWay
      BY <3>1, NoNewRejection DEF TypeOK
    <3>3. BatchOnTheWay' => BatchOnTheWay
      BY <3>1, CancelFrameType, NoNewBatch DEF TypeOK
    <3> QED BY <1>c, <2>0, <3>1, <3>2, <3>3, OtherTaken
  <2> QED BY <1>4, <2>1, <2>2, <2>3, <2>4 DEF SenderServes, SenderServe
<1> QED BY <1>1, <1>2, <1>3, <1>4

\* The receiving Peer ends: the offer is closed and nothing is counted.
LEMMA AccountReceiverEnds ==
    ASSUME TypeOK, AccountInv, UNCHANGED senderVars, NEW e, EndReceiver(e) PROVE AccountInv'
<1> USE DEF AccountInv
<1>1. /\ UNCHANGED <<completedFile, failedFile, published, outcomes, succeeded, failed, run, report,
                     resultCh, toSender, decisionCh>>
      /\ link' = "down" /\ incoming' = "cleared" /\ review' = "done" /\ toReceiver' = << >>
      /\ ending' = (IF ending = "none" THEN "ended" ELSE ending)
  BY DEF EndReceiver, senderVars
<1>2. /\ \A x \in Verdicts: Uncounted(x)' = Uncounted(x)
      /\ \A g, x: OnTheWay(g, x)' <=> OnTheWay(g, x)
  BY <1>1, ResultsUntouched
<1>3. Tallied' /\ ResultsAreConserved'
  BY <1>1, <1>2 DEF Tallied, ResultsAreConserved, Verdicts
<1>4. ClosedBeforeReported'
  BY <1>1, <1>2 DEF ClosedBeforeReported
<1>5. BatchIsAnnounced'
  BY <1>1, <1>2 DEF BatchIsAnnounced, BatchOnTheWay, CountedAll
<1>6. RejectionIsFinal'
  BY <1>1 DEF RejectionIsFinal, RejectionOnTheWay
<1> QED BY <1>3, <1>4, <1>5, <1>6

\* A file gets its outcome: one counter, one set and one result move together.
LEMMA AccountSettles ==
    ASSUME TypeOK, PublicationInv, AccountInv, UNCHANGED senderVars, NEW f \in Files,
           f \notin outcomes, incoming = "accepted", toReceiver # << >>,
           FailIncomingFile(f) \/ PublishFile(f)
    PROVE  AccountInv'
<1> DEFINE v == IF FailIncomingFile(f) THEN "failed" ELSE "ok"
<1>0. WholeOffer \notin Files
  BY DEF Files, WholeOffer
<1>1. /\ UNCHANGED <<succeeded, failed, run, report, resultCh, decisionCh, link, incoming, review, ending>>
      /\ toReceiver' = Tail(toReceiver) /\ outcomes' = outcomes \cup {f}
      /\ SendToSender(ResultFrame(f, v))
  BY DEF FailIncomingFile, PublishFile, RecordOutcome, HandlerReturns, senderVars
<1>2. /\ \A x \in Verdicts: Uncounted(x)' =
           Uncounted(x) + (IF link = "up" /\ f \in Files /\ x = v THEN 1 ELSE 0)
      /\ \A g, x: OnTheWay(g, x)' => OnTheWay(g, x) \/ (g = f /\ x = v)
  BY <1>1, ResultWritten DEF Verdicts
<1>3. /\ completedFile' = completedFile + (IF v = "ok" THEN 1 ELSE 0)
      /\ failedFile' = failedFile + (IF v = "failed" THEN 1 ELSE 0)
      /\ published' = (IF v = "ok" THEN published \cup {f} ELSE published)
  BY DEF FailIncomingFile, PublishFile, TypeOK, ReceiverTypeOK
<1>v. v \in {"ok", "failed"}
  OBVIOUS
<1> HIDE DEF v
<1>4. /\ completedFile' = Cardinality(published') /\ failedFile' = Cardinality(outcomes' \ published')
  <2>1. /\ completedFile = Cardinality(published) /\ failedFile = Cardinality(outcomes \ published)
        /\ published \subseteq outcomes
        /\ published \in SUBSET Files /\ outcomes \ published \in SUBSET Files
    BY DEF AccountInv, Tallied, PublicationInv, OutcomesAreFinal, TypeOK, ReceiverTypeOK
  <2>2. CASE v = "ok"
    <3>1. Cardinality(published \cup {f}) = Cardinality(published) + 1
      BY <2>1, FinitelyManyFiles
    <3>2. outcomes' \ published' = outcomes \ published
      BY <1>1, <1>3, <2>2
    <3>3. completedFile' = completedFile + 1 /\ failedFile' = failedFile
          /\ published' = published \cup {f}
      BY <1>3, <2>2 DEF TypeOK, ReceiverTypeOK
    <3>4. completedFile' = Cardinality(published')
      BY <2>1, <3>1, <3>3
    <3>5. failedFile' = Cardinality(outcomes' \ published')
      BY <2>1, <3>2, <3>3, Zenon
    <3> QED BY <3>4, <3>5
  <2>3. CASE v = "failed"
    <3>1. Cardinality((outcomes \ published) \cup {f}) = Cardinality(outcomes \ published) + 1
      BY <2>1, FinitelyManyFiles
    <3>2. outcomes' \ published' = (outcomes \ published) \cup {f} /\ published' = published
      BY <1>1, <1>3, <2>1, <2>3
    <3>3. completedFile' = completedFile /\ failedFile' = failedFile + 1
      BY <1>3, <2>3 DEF TypeOK, ReceiverTypeOK
    <3>4. completedFile' = Cardinality(published')
      BY <2>1, <3>2, <3>3
    <3>5. failedFile' = Cardinality(outcomes \ published) + 1
      BY <2>1, <3>3
    <3>6. failedFile' = Cardinality(outcomes' \ published')
      BY <3>1, <3>2, <3>5, Zenon
    <3> QED BY <3>4, <3>6
  <2> QED BY <1>v, <2>2, <2>3
<1>5. Tallied' /\ ResultsAreConserved'
  <2>1. /\ Uncounted("ok")' = Uncounted("ok") + (IF link = "up" /\ v = "ok" THEN 1 ELSE 0)
        /\ Uncounted("failed")' = Uncounted("failed") + (IF link = "up" /\ v = "failed" THEN 1 ELSE 0)
        /\ Uncounted("ok") \in Nat /\ Uncounted("failed") \in Nat
    BY <1>2, UncountedTerms DEF Verdicts
  <2>2. succeeded \in Nat /\ failed \in Nat /\ completedFile \in Nat /\ failedFile \in Nat
    BY DEF TypeOK, SenderTypeOK, ReceiverTypeOK
  <2>3. /\ succeeded + Uncounted("ok") <= completedFile /\ failed + Uncounted("failed") <= failedFile
        /\ link = "up" => completedFile = succeeded + Uncounted("ok") /\ failedFile = failed + Uncounted("failed")
    BY DEF AccountInv, Tallied, ResultsAreConserved
  <2>4. /\ succeeded' + Uncounted("ok")' <= completedFile' /\ failed' + Uncounted("failed")' <= failedFile'
        /\ link' = "up" => completedFile' = succeeded' + Uncounted("ok")'
                           /\ failedFile' = failed' + Uncounted("failed")'
    BY <1>1, <1>3, <1>v, <2>1, <2>2, <2>3
  <2> QED BY <1>4, <2>4 DEF Tallied, ResultsAreConserved
<1>6. ClosedBeforeReported'
  BY <1>0, <1>1, <1>2, <1>v DEF AccountInv, ClosedBeforeReported
<1>7. BatchIsAnnounced'
  <2>1. BatchOnTheWay' => BatchOnTheWay
    BY <1>1, NoNewBatch DEF TypeOK
  <2> QED BY <1>0, <1>1, <1>2, <1>v, <2>1 DEF AccountInv, BatchIsAnnounced, CountedAll
<1>8. RejectionIsFinal'
  <2>1. ResultFrame(f, v) # DecisionFrame(FALSE) /\ ResultFrame(f, v) \in SenderFrames
    BY <1>v, SenderFrameTypes DEF ResultFrame, DecisionFrame, Verdicts
  <2>2. RejectionOnTheWay' => RejectionOnTheWay
    BY <1>1, <2>1, NoNewRejection DEF TypeOK
  <2> QED BY <1>1, <2>2 DEF AccountInv, RejectionIsFinal
<1> QED BY <1>5, <1>6, <1>7, <1>8 DEF AccountInv

\* The receiver closes the offer and tells the sender with its last result.
LEMMA AccountCloses ==
    ASSUME TypeOK, PublicationInv, AccountInv, UNCHANGED senderVars, NEW v \in Verdicts,
           toReceiver # << >>, HandlerReturns, SendToSender(ResultFrame(WholeOffer, v)),
           v # "canceled" => CountedAll,
           incoming = "accepted", incoming' = "cleared", ending' # "none",
           UNCHANGED <<outcomes, completedFile, failedFile, published>>
    PROVE  AccountInv'
<1>0. WholeOffer \notin Files /\ WholeOffer \in Files \cup {WholeOffer}
  BY DEF Files, WholeOffer
<1>1. /\ UNCHANGED <<succeeded, failed, run, report, resultCh, decisionCh, link, review>>
      /\ toReceiver' = Tail(toReceiver)
  BY DEF HandlerReturns, senderVars
<1>2. /\ \A x \in Verdicts: Uncounted(x)' = Uncounted(x)
      /\ \A g, x: OnTheWay(g, x)' => OnTheWay(g, x) \/ (g = WholeOffer /\ x = v)
  <2>1. /\ \A x \in Verdicts: Uncounted(x)' =
             Uncounted(x) + (IF link = "up" /\ WholeOffer \in Files /\ x = v THEN 1 ELSE 0)
        /\ \A g, x: OnTheWay(g, x)' => OnTheWay(g, x) \/ (g = WholeOffer /\ x = v)
    BY <1>0, <1>1, ResultWritten
  <2>2. \A x \in Verdicts: Uncounted(x) \in Nat
    BY UncountedTerms
  <2> QED BY <1>0, <2>1, <2>2
<1>3. Tallied' /\ ResultsAreConserved'
  BY <1>1, <1>2 DEF AccountInv, Tallied, ResultsAreConserved, Verdicts
<1>4. ClosedBeforeReported'
  BY <1>0, <1>1, <1>2 DEF AccountInv, ClosedBeforeReported
<1>5. BatchIsAnnounced'
  <2>1. BatchOnTheWay' => BatchOnTheWay
    BY <1>1, NoNewBatch DEF TypeOK
  <2> QED BY <1>0, <1>1, <1>2, <2>1 DEF AccountInv, BatchIsAnnounced, CountedAll
<1>6. RejectionIsFinal'
  <2>1. ResultFrame(WholeOffer, v) # DecisionFrame(FALSE) /\ ResultFrame(WholeOffer, v) \in SenderFrames
    BY <1>0, SenderFrameTypes DEF ResultFrame, DecisionFrame, Verdicts
  <2>2. RejectionOnTheWay' => RejectionOnTheWay
    BY <1>1, <2>1, NoNewRejection DEF TypeOK
  <2>3. review # "rejecting"
    BY DEF AccountInv, RejectionIsFinal
  <2> QED BY <1>1, <2>2, <2>3 DEF AccountInv, RejectionIsFinal
<1> QED BY <1>3, <1>4, <1>5, <1>6 DEF AccountInv
LEMMA AccountReviews ==
    ASSUME TypeOK, AccountInv,
           ReceiverDecides \/ ReceiverReviews \/ ReceiverCancels \/ ReceiverSendsCancel
    PROVE  AccountInv'
<1> USE DEF AccountInv
<1>1. /\ UNCHANGED <<completedFile, failedFile, published, outcomes, succeeded, failed, run, report,
                     resultCh, decisionCh, link, toReceiver>>
      /\ \/ UNCHANGED toSender
         \/ SendToSender(CancelFrame) \/ SendToSender(DecisionFrame(TRUE))
         \/ SendToSender(DecisionFrame(FALSE))
              /\ review = "waiting" /\ review' = "rejecting" /\ incoming = "review" /\ UNCHANGED incoming
  BY DEF ReceiverDecides, ReceiverReviews, ReceiverCancels, ReceiverSendsCancel, AcceptOffer,
         RejectOffer, SendAcceptance, ClearRejected, CancelIncoming, SendCancelRequest, senderVars, wireVars
<1>2. /\ DecisionFrame(TRUE) \in SenderFrames /\ DecisionFrame(TRUE).type = "decision"
      /\ DecisionFrame(FALSE) \in SenderFrames /\ DecisionFrame(FALSE).type = "decision"
  <2>1. DecisionFrame(TRUE) \in SenderFrames /\ DecisionFrame(FALSE) \in SenderFrames
    BY SenderFrameTypes
  <2>2. DecisionFrame(TRUE).type = "decision" /\ DecisionFrame(FALSE).type = "decision"
    BY DEF DecisionFrame
  <2> QED BY <2>1, <2>2, Zenon
<1>3. /\ \A x \in Verdicts: Uncounted(x)' = Uncounted(x)
      /\ \A g, x: OnTheWay(g, x)' => OnTheWay(g, x)
  <2>1. CASE UNCHANGED toSender
    BY <1>1, <2>1, ResultsUntouched
  <2>2. CASE SendToSender(CancelFrame)
    BY <1>1, <2>2, CancelFrameType, OtherWritten
  <2>3. CASE SendToSender(DecisionFrame(TRUE))
    BY <1>1, <1>2, <2>3, OtherWritten
  <2>4. CASE SendToSender(DecisionFrame(FALSE))
    BY <1>1, <1>2, <2>4, OtherWritten
  <2> QED BY <1>1, <2>1, <2>2, <2>3, <2>4
<1>4. /\ \/ UNCHANGED <<incoming, review, ending>>
         \/ /\ review = "waiting" /\ incoming = "review"
            /\ review' \in {"accepting", "rejecting"} /\ ending' = ending
            /\ incoming' = (IF review' = "accepting" THEN "accepted" ELSE "review")
         \/ review = "accepting" /\ review' = "done" /\ UNCHANGED <<incoming, ending>>
         \/ /\ review = "rejecting" /\ review' = "done" /\ incoming' = "cleared"
            /\ ending' = "rejected"
  BY DEF ReceiverDecides, ReceiverReviews, ReceiverCancels, ReceiverSendsCancel, AcceptOffer,
         RejectOffer, SendAcceptance, ClearRejected, CancelIncoming, SendCancelRequest
<1>5. Tallied' /\ ResultsAreConserved'
  BY <1>1, <1>3 DEF Tallied, ResultsAreConserved, Verdicts
<1>6. ClosedBeforeReported'
  BY <1>1, <1>3, <1>4 DEF ClosedBeforeReported
<1>7. BatchIsAnnounced'
  BY <1>1, <1>3 DEF BatchIsAnnounced, BatchOnTheWay, CountedAll
<1>8. RejectionIsFinal'
  <2>1. CASE review' = "rejecting" /\ review = "waiting"
    <3>1. incoming = "review" /\ UNCHANGED incoming
      BY <1>4, <2>1
    <3> QED BY <1>1, <2>1, <3>1 DEF RejectionIsFinal
  <2>2. CASE ~(review' = "rejecting" /\ review = "waiting")
    <3>1. DecisionFrame(TRUE) # DecisionFrame(FALSE) /\ CancelFrame # DecisionFrame(FALSE)
      BY DEF DecisionFrame, CancelFrame
    <3>2. RejectionOnTheWay' => RejectionOnTheWay
      <4>1. CASE UNCHANGED toSender
        BY <1>1, <4>1, NoNewRejection DEF TypeOK
      <4>2. CASE SendToSender(CancelFrame)
        BY <1>1, <3>1, <4>2, CancelFrameType, NoNewRejection DEF TypeOK
      <4>3. CASE SendToSender(DecisionFrame(TRUE))
        BY <1>1, <1>2, <3>1, <4>3, NoNewRejection DEF TypeOK
      <4> QED BY <1>1, <2>2, <4>1, <4>2, <4>3
    <3> QED BY <1>1, <1>4, <2>2, <3>2 DEF RejectionIsFinal
  <2> QED BY <2>1, <2>2
<1> QED BY <1>5, <1>6, <1>7, <1>8

\* The outcomes of a handled frame, with the state they are recorded in.
LEMMA ServedOutcomes ==
    ASSUME TypeOK, PublicationInv, ReceiverServes
    PROVE  \/ \E e \in {"frame", "disk"}: EndReceiver(e)
           \/ /\ incoming = "accepted"
              /\ \E f \in Files: f \notin outcomes /\ (FailIncomingFile(f) \/ PublishFile(f))
           \/ ServeContent /\ HandlerReturns
                /\ UNCHANGED <<receiverAccount, incomingCanceled, final, toSender>>
           \/ ServeCancel /\ incoming # "accepted" /\ HandlerReturns
                /\ UNCHANGED <<receiverAccount, final, toSender>>
           \/ \E v \in Verdicts:
                /\ incoming = "accepted" /\ incoming' = "cleared" /\ HandlerReturns
                /\ SendToSender(ResultFrame(WholeOffer, v))
                /\ UNCHANGED <<outcomes, completedFile, failedFile, published>>
                /\ \/ v = "canceled" /\ ending' = "canceled" /\ ServeCancel
                   \/ v # "canceled" /\ ending' = "completed"
                        /\ ServeBatchComplete /\ completedFile + failedFile = FileCount
<1> DEFINE f == Head(toReceiver).file
<1>1. CASE ServeContent
  BY <1>1 DEF ServeContent, ReceiveContent, HandlerReturns, receiverAccount
<1>2. CASE ServeComplete
  <2>1. f \in Files
    BY <1>2, HeadFrame DEF ServeComplete, Serve, TypeOK
  <2>2. stream[f].open => f \notin outcomes
    BY <2>1 DEF PublicationInv, OutcomesAreFinal
  <2> QED BY <1>2, <2>1, <2>2 DEF ServeComplete, CompleteIncomingFile
<1>3. CASE ServeFileFailed
  <2>1. f \in Files
    BY <1>3, HeadFrame DEF ServeFileFailed, Serve, TypeOK
  <2> QED BY <1>3, <2>1 DEF ServeFileFailed, ReceiveFileFailure
<1>4. CASE ServeBatchComplete
  BY <1>4 DEF ServeBatchComplete, CompleteIncomingBatch, Verdicts
<1>5. CASE ServeCancel
  BY <1>5 DEF ServeCancel, HandlePeerCancellation, HandlerReturns, receiverAccount, Verdicts
<1> QED BY <1>1, <1>2, <1>3, <1>4, <1>5 DEF ReceiverServes, ReceiverServe

LEMMA AccountServes ==
    ASSUME TypeOK, PublicationInv, AccountInv, ReceiverServes PROVE AccountInv'
<1>0. UNCHANGED senderVars /\ toReceiver # << >>
  BY DEF ReceiverServes, ReceiverServe, ServeContent, ServeComplete, ServeFileFailed,
         ServeBatchComplete, ServeCancel, Serve
<1>1. ASSUME NEW e \in {"frame", "disk"}, EndReceiver(e) PROVE AccountInv'
  BY <1>0, <1>1, AccountReceiverEnds
<1>2. ASSUME NEW f \in Files, incoming = "accepted", f \notin outcomes,
             FailIncomingFile(f) \/ PublishFile(f)
      PROVE  AccountInv'
  BY <1>0, <1>2, AccountSettles
<1>3. ASSUME HandlerReturns, UNCHANGED <<receiverAccount, toSender>> PROVE AccountInv'
  <2>1. /\ UNCHANGED <<succeeded, failed, run, report, resultCh, decisionCh, toSender, link>>
        /\ toReceiver' = Tail(toReceiver)
    BY <1>0, <1>3 DEF HandlerReturns, senderVars
  <2>2. BatchOnTheWay' => BatchOnTheWay
    BY <1>0, <2>1, NoNewBatch DEF TypeOK
  <2>3. RejectionOnTheWay' => RejectionOnTheWay
    BY <2>1, NoNewRejection DEF TypeOK
  <2>4. /\ run = "final" => succeeded + failed >= FileCount
        /\ report # "none" => run = "done"
        /\ CountedAll => CountedAll'
    BY <2>1 DEF AccountInv, BatchIsAnnounced, CountedAll
  <2> QED BY <1>3, <2>1, <2>2, <2>3, <2>4, ResultsUntouched, AccountKept DEF Verdicts
<1>4. ASSUME NEW v \in Verdicts, incoming = "accepted", incoming' = "cleared", HandlerReturns,
             SendToSender(ResultFrame(WholeOffer, v)), ending' # "none",
             UNCHANGED <<outcomes, completedFile, failedFile, published>>,
             v # "canceled" => ServeBatchComplete
      PROVE  AccountInv'
  <2>1. v # "canceled" => CountedAll
    <3>1. ServeBatchComplete => BatchOnTheWay
      <4>1. Len(toReceiver) \in Nat \ {0} /\ Head(toReceiver) = toReceiver[1]
        BY <1>0 DEF TypeOK, WireTypeOK
      <4> QED BY <4>1 DEF ServeBatchComplete, Serve, BatchOnTheWay
    <3> QED BY <1>4, <3>1 DEF AccountInv, BatchIsAnnounced
  <2> QED BY <1>0, <1>4, <2>1, AccountCloses
<1> QED BY <1>1, <1>2, <1>3, <1>4, ServedOutcomes

LEMMA AccountInit == Init => AccountInv
<1> SUFFICES ASSUME Init PROVE AccountInv
  OBVIOUS
<1>1. Cardinality({}) = 0
  BY FS_EmptySet
<1>2. \A x \in Verdicts: Uncounted(x) = 0
  BY CountEmpty DEF Init, WireInit, SenderInit, Uncounted
<1>3. /\ \A g, x: ~OnTheWay(g, x)
      /\ ~BatchOnTheWay /\ ~RejectionOnTheWay
  BY DEF Init, WireInit, SenderInit, OnTheWay, BatchOnTheWay, RejectionOnTheWay
<1>4. Tallied /\ ResultsAreConserved
  <2>1. outcomes \ published = {} /\ published = {}
    BY DEF Init, ReceiverInit
  <2> QED BY <1>1, <1>2, <2>1 DEF Init, SenderInit, ReceiverInit, Tallied, ResultsAreConserved, Verdicts
<1> QED
  BY <1>3, <1>4
  DEF Init, SenderInit, ReceiverInit, AccountInv, ClosedBeforeReported, BatchIsAnnounced, RejectionIsFinal

LEMMA AccountNext == TypeOK /\ PublicationInv /\ AccountInv /\ [Next]_vars => AccountInv'
<1> SUFFICES ASSUME TypeOK, PublicationInv, AccountInv, [Next]_vars PROVE AccountInv'
  OBVIOUS
<1>1. CASE UNCHANGED vars
  <2>1. /\ UNCHANGED <<receiverAccount, succeeded, failed, run, report, resultCh, toSender, link>>
        /\ BatchOnTheWay' <=> BatchOnTheWay
        /\ RejectionOnTheWay' <=> RejectionOnTheWay
        /\ CountedAll' <=> CountedAll
    BY <1>1 DEF vars, wireVars, senderVars, receiverVars, receiverAccount, BatchOnTheWay,
                RejectionOnTheWay, CountedAll
  <2>2. (run = "final" => succeeded + failed >= FileCount) /\ (report # "none" => run = "done")
    BY DEF AccountInv, BatchIsAnnounced
  <2> QED BY <2>1, <2>2, ResultsUntouched, AccountKept DEF Verdicts
<1>2. CASE ReceiverEnds
  BY <1>2, AccountReceiverEnds DEF ReceiverEnds, ReceiverLosesLink
<1> QED
  BY <1>1, <1>2, AccountSenderRuns, AccountSender, AccountReviews, AccountServes DEF Next

\* The account is inductive together with the types and with PublicationInv.
THEOREM AccountCorrect == Spec => []AccountInv
BY TypeCorrect, PublicationInit, PublicationNext, AccountInit, AccountNext, PTL DEF Spec

\* While the connection lives, no result is lost or doubled between the
\* receiver's counters and the sender's, whatever the capacities in between.
THEOREM ResultsAreConservedHolds == Spec => []ResultsAreConserved
BY AccountCorrect, PTL DEF AccountInv

\* After batch-complete the accounts agree, and the result that runOutgoing
\* takes for the answer is the receiver's last one.
LEMMA FinalResult ==
    ASSUME TypeOK, PublicationInv, AccountInv, run = "final", resultCh # << >>,
           resultCh' = Tail(resultCh), UNCHANGED toSender
    PROVE  /\ succeeded = completedFile /\ failed = failedFile /\ outcomes = Files
           /\ Head(resultCh).file = WholeOffer /\ ending # "none"
<1> DEFINE r == Head(resultCh)
<1>1. /\ \A x \in Verdicts:
           /\ Uncounted(x)' \in Nat
           /\ Uncounted(x) = Uncounted(x)' +
                (IF r.file \in Files /\ r.verdict = x THEN 1 ELSE 0)
      /\ r \in Results /\ OnTheWay(r.file, r.verdict)
  BY ResultTaken
<1>2. /\ succeeded = completedFile /\ failed = failedFile /\ outcomes = Files
      /\ Uncounted("ok") = 0 /\ Uncounted("failed") = 0
  <2>1. /\ succeeded + failed >= FileCount
        /\ succeeded + Uncounted("ok") <= completedFile /\ failed + Uncounted("failed") <= failedFile
        /\ Cardinality(outcomes) = completedFile + failedFile
    BY DEF AccountInv, BatchIsAnnounced, Tallied, PublicationInv, OutcomesAreFinal
  <2>2. Cardinality(outcomes) <= FileCount /\ (Cardinality(outcomes) = FileCount => outcomes = Files)
    BY FinitelyManyFiles, FS_Subset DEF TypeOK, ReceiverTypeOK
  <2>3. Uncounted("ok") \in Nat /\ Uncounted("failed") \in Nat
    BY UncountedTerms DEF Verdicts
  <2>4. /\ succeeded \in Nat /\ failed \in Nat /\ completedFile \in Nat /\ failedFile \in Nat
        /\ FileCount \in Nat
    BY FileCountAssumption DEF TypeOK, SenderTypeOK, ReceiverTypeOK
  <2>5. /\ succeeded = completedFile /\ failed = failedFile
        /\ Cardinality(outcomes) = FileCount
        /\ Uncounted("ok") = 0 /\ Uncounted("failed") = 0
    BY <2>1, <2>2, <2>3, <2>4
  <2> QED BY <2>2, <2>5
<1>3. r.file = WholeOffer
  <2>1. r.file \in Files => r.verdict = "canceled"
    <3> HIDE DEF r
    <3> QED BY <1>1, <1>2 DEF Results, Verdicts
  <2> QED BY <1>1, <2>1 DEF AccountInv, ClosedBeforeReported, Results
<1>4. ending # "none"
  BY <1>1, <1>3 DEF AccountInv, ClosedBeforeReported, Results
<1> QED BY <1>2, <1>3, <1>4

---------------------------------------------------------------------------
(* The two Peers implement TransferOutcome                                 *)

\* The refinement mapping of FileTransfer!Outcome, by name.
FileNow == [f \in Files |-> IF f \in published THEN "published"
                            ELSE IF f \in outcomes THEN "failed" ELSE "pending"]
ReceiverNow == IF ending = "none" THEN "open" ELSE ending
SenderNow == IF report \in {"complete", "partial", "failed"}
             THEN [report |-> "summary", ok |-> succeeded, bad |-> failed]
             ELSE [report |-> report, ok |-> 0, bad |-> 0]

\* Every file has the outcome its sets say.
LEMMA OutcomeSets ==
    ASSUME TypeOK, PublicationInv
    PROVE  /\ Outcome!Having("published") = published
           /\ Outcome!Having("failed") = outcomes \ published
           /\ Outcome!Having("pending") = Files \ outcomes
<1>1. published \subseteq outcomes /\ outcomes \subseteq Files
  BY DEF TypeOK, ReceiverTypeOK, PublicationInv, OutcomesAreFinal
<1> QED BY <1>1 DEF Outcome!Having

\* Cardinality as TransferOutcome has it through its instance.
LEMMA SameCardinality == \A S: Outcome!Cardinality(S) = Cardinality(S)
BY DEF Outcome!Cardinality, Cardinality

LEMMA OutcomeInit == Init => Outcome!Init
BY DEF Init, SenderInit, ReceiverInit, Outcome!Init, Outcome!Unreported

\* A step that settles, closes and reports nothing.
LEMMA OutcomeStutters ==
    ASSUME UNCHANGED <<published, outcomes, ending, report>>,
           report \in {"complete", "partial", "failed"} => UNCHANGED <<succeeded, failed>>
    PROVE  UNCHANGED Outcome!vars
<1>1. FileNow' = FileNow /\ ReceiverNow' = ReceiverNow
  BY DEF FileNow, ReceiverNow
<1>2. SenderNow' = SenderNow
  BY DEF SenderNow
<1> QED BY <1>1, <1>2 DEF Outcome!vars, FileNow, ReceiverNow, SenderNow

LEMMA OutcomeSettles ==
    ASSUME TypeOK, PublicationInv, ending = "none", NEW f \in Files \ outcomes,
           outcomes' = outcomes \cup {f}, published' \in {published, published \cup {f}},
           UNCHANGED <<ending, report, succeeded, failed>>
    PROVE  Outcome!Next
<1>1. ReceiverNow = "open" /\ FileNow[f] = "pending" /\ published \subseteq outcomes
  BY DEF ReceiverNow, FileNow, PublicationInv, OutcomesAreFinal
<1>2. \E outcome \in {"published", "failed"}: FileNow' = [FileNow EXCEPT ![f] = outcome]
  <2>1. CASE published' = published
    <3>1. FileNow' = [FileNow EXCEPT ![f] = "failed"]
      BY <1>1, <2>1 DEF FileNow
    <3> QED BY <3>1
  <2>2. CASE published' = published \cup {f}
    <3>1. FileNow' = [FileNow EXCEPT ![f] = "published"]
      BY <1>1, <2>2 DEF FileNow
    <3> QED BY <3>1
  <2> QED BY <2>1, <2>2
<1>3. ReceiverNow' = ReceiverNow /\ SenderNow' = SenderNow
  BY DEF ReceiverNow, SenderNow
<1>4. Outcome!Settle(f)
  BY <1>1, <1>2, <1>3 DEF Outcome!Settle, FileNow, ReceiverNow, SenderNow
<1> QED BY <1>4 DEF Outcome!Next

LEMMA OutcomeCloses ==
    ASSUME TypeOK, PublicationInv, ending = "none",
           ending' \in {"completed", "canceled", "rejected", "ended"},
           ending' = "completed" => outcomes = Files, ending' = "rejected" => outcomes = {},
           UNCHANGED <<published, outcomes, report, succeeded, failed>>
    PROVE  Outcome!Next
<1>1. /\ ReceiverNow = "open" /\ ReceiverNow' = ending'
      /\ FileNow' = FileNow /\ SenderNow' = SenderNow
  BY DEF ReceiverNow, FileNow, SenderNow
<1>2. Outcome!Close(ending')
  BY <1>1, OutcomeSets DEF Outcome!Close, FileNow, ReceiverNow, SenderNow
<1> QED BY <1>2 DEF Outcome!Next

LEMMA OutcomeReports ==
    ASSUME TypeOK, PublicationInv, report = "none",
           UNCHANGED <<published, outcomes, ending>>,
           \/ report' = "rejected" /\ outcomes = {}
           \/ report' = "canceled" /\ ending # "none"
           \/ /\ report' \in {"complete", "partial", "failed"} /\ ending # "none" /\ outcomes = Files
              /\ succeeded' = Cardinality(published) /\ failed' = Cardinality(outcomes \ published)
    PROVE  Outcome!Next
<1>1. /\ ReceiverNow' = ReceiverNow /\ FileNow' = FileNow
      /\ SenderNow.report = "none" /\ (ending # "none" => ReceiverNow # "open")
  BY DEF ReceiverNow, FileNow, SenderNow, TypeOK, ReceiverTypeOK
<1>2. CASE report' \in {"rejected", "canceled"}
  <2>1. SenderNow' = [Outcome!Unreported EXCEPT !.report = report']
    BY <1>2 DEF SenderNow, Outcome!Unreported
  <2>2. Outcome!Report(report')
    BY <1>1, <1>2, <2>1, OutcomeSets DEF Outcome!Report, FileNow, ReceiverNow, SenderNow
  <2> QED BY <1>2, <2>2 DEF Outcome!Next
<1>3. CASE report' \in {"complete", "partial", "failed"}
  <2>1. SenderNow' = [report |-> "summary", ok |-> Cardinality(published),
                      bad |-> Cardinality(outcomes \ published)]
    BY <1>3 DEF SenderNow
  <2>a. ending # "none" /\ Outcome!Having("pending") = {}
    BY <1>3, OutcomeSets
  <2>b. SenderNow' = [report |-> "summary", ok |-> Cardinality(Outcome!Having("published")),
                      bad |-> Cardinality(Outcome!Having("failed"))]
    BY <2>1, OutcomeSets
  <2>c. SenderNow.report = "none" /\ ReceiverNow # "open"
    BY <1>1, <2>a
  <2>2. Outcome!Report("summary")
    BY <1>1, <2>a, <2>b, <2>c, SameCardinality DEF Outcome!Report, FileNow, ReceiverNow, SenderNow
  <2> QED BY <2>2 DEF Outcome!Next
<1> QED BY <1>2, <1>3

\* runOutgoing reports what the receiver recorded.
LEMMA OutcomeSenderRuns ==
    ASSUME TypeOK, PublicationInv, AccountInv, SenderRuns
    PROVE  Outcome!Next \/ UNCHANGED Outcome!vars
<1>0. UNCHANGED <<published, outcomes, ending>>
  BY DEF SenderRuns, receiverVars
<1>a. report # "none" => run = "done"
  BY DEF AccountInv, BatchIsAnnounced
<1>1. CASE TakeDecision
  <2>1. UNCHANGED <<succeeded, failed>> /\ run = "decision"
        /\ (UNCHANGED report \/ (decisionCh = "reject" /\ report' = "rejected"))
    BY <1>1 DEF TakeDecision
  <2>2. decisionCh = "reject" => outcomes = {}
    BY DEF AccountInv, RejectionIsFinal, RejectionOnTheWay
  <2> QED BY <1>0, <1>a, <2>1, <2>2, OutcomeReports, OutcomeStutters
<1>2. CASE ReleaseWorkers \/ CompleteBatch
  BY <1>0, <1>2, OutcomeStutters DEF ReleaseWorkers, CompleteBatch
<1>3. CASE CollectResult
  <2> DEFINE r == Head(resultCh)
  <2>1. /\ run = "collect" /\ UNCHANGED toSender /\ resultCh # << >> /\ resultCh' = Tail(resultCh)
        /\ report' = (IF r.verdict = "canceled" THEN "canceled" ELSE report)
    BY <1>3 DEF CollectResult, wireVars
  <2>2. r \in Results /\ OnTheWay(r.file, r.verdict)
    BY <2>1, ResultTaken
  <2>3. r.verdict = "canceled" => ending # "none"
    BY <2>2 DEF AccountInv, ClosedBeforeReported, Results
  <2> HIDE DEF r
  <2>4. report = "none"
    BY <1>a, <2>1
  <2>5. CASE r.verdict = "canceled"
    BY <1>0, <2>1, <2>3, <2>4, <2>5, OutcomeReports
  <2>6. CASE r.verdict # "canceled"
    BY <1>0, <2>1, <2>4, <2>6, OutcomeStutters
  <2> QED BY <2>5, <2>6
<1>4. CASE FinishOutgoing
  <2>1. /\ run = "final" /\ UNCHANGED <<toSender, succeeded, failed>> /\ resultCh # << >>
        /\ resultCh' = Tail(resultCh) /\ report' \in {"partial", "complete", "failed"}
    BY <1>4 DEF FinishOutgoing, wireVars
  <2>2. succeeded = completedFile /\ failed = failedFile /\ outcomes = Files /\ ending # "none"
    BY <2>1, FinalResult
  <2>3. completedFile = Cardinality(published) /\ failedFile = Cardinality(outcomes \ published)
    BY DEF AccountInv, Tallied
  <2>4. report = "none"
    BY <1>a, <2>1
  <2> QED BY <1>0, <2>1, <2>2, <2>3, <2>4, OutcomeReports
<1> QED BY <1>1, <1>2, <1>3, <1>4 DEF SenderRuns, RunOutgoing

\* Every step of the two Peers is a step of the abstract offer or leaves it alone.
LEMMA OutcomeNext ==
    ASSUME TypeOK, PublicationInv, AccountInv, [Next]_vars
    PROVE  [Outcome!Next]_(Outcome!vars)
<1>0. ASSUME Outcome!Next \/ UNCHANGED Outcome!vars PROVE [Outcome!Next]_(Outcome!vars)
  BY <1>0
<1>a. ending = "none" <=> incoming # "cleared"
  BY DEF AccountInv, ClosedBeforeReported
<1>b. ASSUME NEW e, EndReceiver(e), UNCHANGED senderVars PROVE Outcome!Next \/ UNCHANGED Outcome!vars
  <2>1. /\ UNCHANGED <<published, outcomes, report, succeeded, failed>>
        /\ ending' = (IF ending = "none" THEN "ended" ELSE ending)
    BY <1>b DEF EndReceiver, senderVars
  <2>2. CASE ending = "none"
    BY <2>1, <2>2, OutcomeCloses
  <2>3. CASE ending # "none"
    BY <2>1, <2>3, OutcomeStutters
  <2> QED BY <2>2, <2>3
<1>1. CASE SenderRuns
  BY <1>0, <1>1, OutcomeSenderRuns
<1>2. CASE UNCHANGED <<published, outcomes, ending, report, succeeded, failed>>
  BY <1>0, <1>2, OutcomeStutters
<1>3. CASE \/ \E w \in Workers: SenderWorks(w)
           \/ \E f \in Files: SourceChanges(f)
           \/ SenderServes \/ SenderCancels \/ SenderSendsCancel \/ SenderEnds \/ LinkFails
  <2>1. UNCHANGED <<published, outcomes, ending, report, succeeded, failed>>
    BY <1>3
    DEF SenderWorks, WorkerStep, TakeJob, PassBarrier, OpenSource, ReadChunk, SendChunk, SendComplete,
        SendFileFailed, WorkerUnchanged, SourceChanges, ChangeSource, SenderServes, SenderServe,
        ServeDecision, ServeResult, ServePeerCancel, EndSender, SenderCancels, CancelOutgoing,
        SenderSendsCancel, SendCancel, SenderEnds, SenderLosesLink, LinkFails, receiverVars, senderVars
  <2> QED BY <1>2, <2>1
<1>4. CASE ReceiverServes
  <2>0. UNCHANGED senderVars /\ UNCHANGED <<report, succeeded, failed>>
    BY <1>4 DEF ReceiverServes, senderVars
  <2>1. ASSUME NEW f \in Files, incoming = "accepted", f \notin outcomes,
               FailIncomingFile(f) \/ PublishFile(f)
        PROVE  Outcome!Next
    <3>1. outcomes' = outcomes \cup {f} /\ published' \in {published, published \cup {f}} /\ UNCHANGED ending
      BY <2>1 DEF FailIncomingFile, PublishFile, RecordOutcome
    <3> QED BY <1>a, <2>0, <2>1, <3>1, OutcomeSettles
  <2>2. ASSUME UNCHANGED receiverAccount PROVE UNCHANGED Outcome!vars
    BY <2>0, <2>2, OutcomeStutters DEF receiverAccount
  <2>3. ASSUME incoming = "accepted", ending' \in {"canceled", "completed"},
               UNCHANGED <<outcomes, published>>,
               ending' = "completed" => completedFile + failedFile = FileCount
        PROVE  Outcome!Next
    <3>1. ending' = "completed" => outcomes = Files
      BY <2>3, FinitelyManyFiles DEF PublicationInv, OutcomesAreFinal, TypeOK, ReceiverTypeOK
    <3> QED BY <1>a, <2>0, <2>3, <3>1, OutcomeCloses
  <2> QED BY <1>0, <1>4, <1>b, <2>0, <2>1, <2>2, <2>3, ServedOutcomes
<1>5. CASE \/ ReceiverDecides \/ ReceiverCancels \/ ReceiverSendsCancel
           \/ (SendAcceptance /\ UNCHANGED senderVars)
  <2>1. UNCHANGED <<published, outcomes, ending, report, succeeded, failed>>
    BY <1>5
    DEF ReceiverDecides, AcceptOffer, RejectOffer, ReceiverCancels, CancelIncoming, ReceiverSendsCancel,
        SendCancelRequest, SendAcceptance, senderVars
  <2> QED BY <1>2, <2>1
<1>6. CASE ClearRejected /\ UNCHANGED senderVars
  <2>1. /\ UNCHANGED <<published, outcomes, report, succeeded, failed>>
        /\ ending' = "rejected" /\ review = "rejecting"
    BY <1>6 DEF ClearRejected, senderVars
  <2>2. outcomes = {} /\ ending = "none"
    BY <1>a, <2>1 DEF AccountInv, RejectionIsFinal
  <2> QED BY <1>0, <2>1, <2>2, OutcomeCloses
<1>7. CASE ReceiverEnds
  BY <1>0, <1>7, <1>b DEF ReceiverEnds, ReceiverLosesLink
<1>8. CASE UNCHANGED vars
  BY <1>2, <1>8 DEF vars, senderVars, receiverVars
<1>9. CASE ReceiverReviews
  BY <1>5, <1>6, <1>9 DEF ReceiverReviews
<1> QED BY <1>1, <1>3, <1>4, <1>5, <1>7, <1>8, <1>9 DEF Next

\* The two Peers implement TransferOutcome: every file is settled once, the
\* receiver closes the offer once, and what the sender reports, and the counts
\* it reports, are the receiver's.
THEOREM ImplementsOutcomeHolds == Spec => ImplementsOutcome
<1>1. Spec => [](TypeOK /\ PublicationInv /\ AccountInv)
  BY TypeCorrect, PublicationInit, PublicationNext, AccountCorrect, PTL DEF Spec
<1>2. TypeOK /\ PublicationInv /\ AccountInv /\ [Next]_vars => [Outcome!Next]_(Outcome!vars)
  BY OutcomeNext
<1> QED BY <1>1, <1>2, OutcomeInit, PTL DEF Spec, ImplementsOutcome, Outcome!Spec

---------------------------------------------------------------------------
(* The two Peers never disagree about the protocol in a transfer that      *)
(* nobody cancels: the receiver accepts every frame it reads, and the      *)
(* sender can place every answer (FrameErrorOnlyAfterCancel), for every    *)
(* number and size of files, any number of workers and any capacities.     *)
(*                                                                         *)
(* The argument has two halves.  AnswersInOrder: one decision, and the     *)
(* result of the whole offer is the last result, so nothing is left to     *)
(* read when runOutgoing returns.  FramesInOrder to Phases: projected on   *)
(* one file, the wire holds consecutive chunks from what the receiver has  *)
(* taken up to what the file's only worker has sent.                       *)

\* No frame of these types is on the wire to the sender.
NoneToSender(types) == \A i \in 1..Len(toSender): toSender[i].type \notin types

SenderEndsQuietly ==
    /\ ~senderEnded => run # "stopped"
    /\ senderEnded => link = "down" /\ toSender = << >>
    /\ ~senderError

\* runOutgoing returns with nothing left to read.
DoneIsQuiet ==
    /\ run = "done" => report # "none" /\ NoneToSender({"decision", "result"})
    /\ report \notin {"none", "rejected"} => incoming = "cleared"
    /\ report = "rejected" => incoming # "accepted"

\* Nothing follows the result of the whole offer, and a rejected offer has none.
WholeOfferIsLast ==
    /\ \A i \in 1..Len(resultCh): resultCh[i].file = WholeOffer =>
            i = Len(resultCh) /\ NoneToSender({"result"})
    /\ \A i, j \in 1..Len(toSender):
            i < j /\ toSender[i].type = "result" /\ toSender[i].file = WholeOffer
                => toSender[j].type # "result"
    /\ incoming = "review" \/ RejectionOnTheWay => NoneToSender({"result"})

\* The review goroutine writes one decision and runOutgoing takes it.
OneDecision ==
    /\ ~NoneToSender({"decision"}) \/ decisionCh # "none" \/ run \notin {"decision", "stopped"}
            => review \in {"rejecting", "done"}
    /\ decisionCh # "none" \/ run \notin {"decision", "stopped"} => NoneToSender({"decision"})
    /\ run \notin {"decision", "stopped"} => decisionCh = "none"
    /\ \A i, j \in 1..Len(toSender):
            toSender[i].type = "decision" /\ toSender[j].type = "decision" => i = j

AnswersInOrder == SenderEndsQuietly /\ DoneIsQuiet /\ WholeOfferIsLast /\ OneDecision

---------------------------------------------------------------------------
(* The frames to the sender                                                *)

\* What the invariant is about.
answerVars == <<toSender, resultCh, run, report, decisionCh, senderEnded, senderError, incoming, review>>

LEMMA AnswersUntouched ==
    ASSUME AnswersInOrder, UNCHANGED answerVars, link = "down" => link' = "down"
    PROVE  AnswersInOrder'
<1> USE DEF AnswersInOrder, answerVars
<1>1. SenderEndsQuietly'
  BY DEF SenderEndsQuietly
<1>2. DoneIsQuiet'
  BY DEF DoneIsQuiet, NoneToSender
<1>3. WholeOfferIsLast'
  BY DEF WholeOfferIsLast, NoneToSender, RejectionOnTheWay
<1>4. OneDecision'
  BY DEF OneDecision, NoneToSender
<1> QED BY <1>1, <1>2, <1>3, <1>4

\* The frames behind the one that is taken.
LEMMA TakenAnswer ==
    ASSUME TypeOK, toSender # << >>, toSender' = Tail(toSender)
    PROVE  /\ Len(toSender) \in Nat \ {0} /\ Head(toSender) = toSender[1] /\ 1 \in 1..Len(toSender)
           /\ \A i \in 1..Len(toSender'): /\ i + 1 \in 1..Len(toSender) /\ i + 1 > 1
                                          /\ toSender'[i] = toSender[i + 1]
           /\ \A types: NoneToSender(types) => NoneToSender(types)'
<1>1. /\ Len(toSender) \in Nat \ {0} /\ Head(toSender) = toSender[1]
      /\ \A i \in 1..Len(toSender'): i + 1 \in 1..Len(toSender) /\ toSender'[i] = toSender[i + 1]
  BY DEF TypeOK, WireTypeOK
<1>2. \A i \in 1..Len(toSender'): i + 1 > 1
  OBVIOUS
<1>3. \A types: NoneToSender(types) => NoneToSender(types)'
  BY <1>1 DEF NoneToSender
<1> QED BY <1>1, <1>2, <1>3

\* The frames after one is written, or lost with the link.
LEMMA WrittenAnswer ==
    ASSUME TypeOK, NEW frame \in SenderFrames, SendToSender(frame)
    PROVE  /\ \A i \in 1..Len(toSender'):
                \/ i \in 1..Len(toSender) /\ toSender'[i] = toSender[i]
                \/ i = Len(toSender') /\ toSender'[i] = frame
           /\ \A types: NoneToSender(types) /\ frame.type \notin types => NoneToSender(types)'
           /\ senderEnded /\ SenderEndsQuietly => UNCHANGED toSender
<1>1. \A i \in 1..Len(toSender'):
        \/ i \in 1..Len(toSender) /\ toSender'[i] = toSender[i]
        \/ i = Len(toSender') /\ toSender'[i] = frame
  BY DEF TypeOK, WireTypeOK, SendToSender
<1>2. \A types: NoneToSender(types) /\ frame.type \notin types => NoneToSender(types)'
  BY <1>1 DEF NoneToSender
<1>3. senderEnded /\ SenderEndsQuietly => UNCHANGED toSender
  BY DEF SendToSender, SenderEndsQuietly
<1> QED BY <1>1, <1>2, <1>3

---------------------------------------------------------------------------
(* The sending Peer keeps the answers in order                             *)

LEMMA AnswersSenderRuns ==
    ASSUME TypeOK, PublicationInv, AccountInv, AnswersInOrder, SenderRuns PROVE AnswersInOrder'
<1> USE DEF AnswersInOrder
<1>0. UNCHANGED <<toSender, link, incoming, review, senderEnded, senderError, ending>>
  BY DEF SenderRuns, RunOutgoing, TakeDecision, ReleaseWorkers, CollectResult, CompleteBatch,
         FinishOutgoing, wireVars, receiverVars
<1>a. \A types: NoneToSender(types)' <=> NoneToSender(types)
  BY <1>0 DEF NoneToSender
<1>b. ending = "none" <=> incoming # "cleared"
  BY DEF AccountInv, ClosedBeforeReported
<1>c. report # "none" => run = "done"
  BY DEF AccountInv, BatchIsAnnounced
<1>d. run' # "stopped" \/ run = "stopped"
  BY DEF SenderRuns, RunOutgoing, TakeDecision, ReleaseWorkers, CollectResult, CompleteBatch,
         FinishOutgoing
<1>1. SenderEndsQuietly'
  BY <1>0, <1>d DEF SenderEndsQuietly
<1>e. ASSUME resultCh # << >>, resultCh' = Tail(resultCh)
      PROVE  /\ Len(resultCh) \in Nat \ {0} /\ Head(resultCh) = resultCh[1]
             /\ \A i \in 1..Len(resultCh'): /\ i + 1 \in 1..Len(resultCh)
                                            /\ resultCh'[i] = resultCh[i + 1]
                                            /\ Len(resultCh') = Len(resultCh) - 1
    <2>1. resultCh \in Seq(Results)
      BY DEF TypeOK, SenderTypeOK, Results
    <2> QED BY <1>e, <2>1
<1>2. CASE TakeDecision
  <2>1. /\ run = "decision" /\ decisionCh # "none" /\ decisionCh' = "none" /\ UNCHANGED resultCh
        /\ \/ decisionCh = "reject" /\ run' = "done" /\ report' = "rejected"
           \/ run' = "starting" /\ UNCHANGED report
    BY <1>2 DEF TakeDecision
  <2>2. DoneIsQuiet'
    <3>1. CASE run' = "starting"
      BY <1>0, <2>1, <3>1 DEF DoneIsQuiet
    <3>2. CASE decisionCh = "reject" /\ run' = "done" /\ report' = "rejected"
      <4>1. incoming # "accepted" /\ RejectionOnTheWay
        BY <3>2 DEF AccountInv, RejectionIsFinal, RejectionOnTheWay
      <4>2. NoneToSender({"result"}) /\ NoneToSender({"decision"})
        BY <2>1, <4>1 DEF WholeOfferIsLast, OneDecision
      <4>3. NoneToSender({"decision", "result"})
        BY <4>2 DEF NoneToSender
      <4> QED BY <1>0, <1>a, <3>2, <4>1, <4>3 DEF DoneIsQuiet
    <3> QED BY <2>1, <3>1, <3>2
  <2>3. WholeOfferIsLast'
    BY <1>0, <1>a, <2>1 DEF WholeOfferIsLast, RejectionOnTheWay
  <2>4. OneDecision'
    BY <1>0, <1>a, <2>1 DEF OneDecision
  <2> QED BY <1>1, <2>2, <2>3, <2>4
<1>3. CASE ReleaseWorkers \/ CompleteBatch
  <2>1. /\ run \in {"starting", "collect"} /\ run' \in {"collect", "final"}
        /\ UNCHANGED <<resultCh, report, decisionCh>>
    BY <1>3 DEF ReleaseWorkers, CompleteBatch
  <2>2. DoneIsQuiet'
    BY <1>0, <2>1 DEF DoneIsQuiet
  <2>3. WholeOfferIsLast'
    BY <1>0, <1>a, <2>1 DEF WholeOfferIsLast, RejectionOnTheWay
  <2>4. OneDecision'
    BY <1>0, <1>a, <2>1 DEF OneDecision
  <2> QED BY <1>1, <2>2, <2>3, <2>4
<1>4. CASE CollectResult \/ FinishOutgoing
  <2> DEFINE r == Head(resultCh)
  <2>1. /\ run \in {"collect", "final"} /\ resultCh # << >> /\ resultCh' = Tail(resultCh)
        /\ UNCHANGED decisionCh /\ run' \in {run, "done"}
        /\ run' # "done" => UNCHANGED report
        /\ run' = "done" => report' \notin {"none", "rejected"} /\ (r.verdict = "canceled" \/ run = "final")
    BY <1>4 DEF CollectResult, FinishOutgoing
  <2>2. run' = "done" => r.file = WholeOffer /\ incoming = "cleared"
    <3>1. r \in Results /\ OnTheWay(r.file, r.verdict)
      BY <1>0, <2>1, ResultTaken
    <3>2. CASE r.verdict = "canceled"
      BY <1>b, <3>1, <3>2 DEF AccountInv, ClosedBeforeReported, Results
    <3>3. CASE run = "final"
      BY <1>0, <1>b, <2>1, <3>3, FinalResult
    <3> QED BY <2>1, <3>2, <3>3
  <2>3. DoneIsQuiet'
    <3>1. CASE run' = "done"
      <4>1. resultCh[1].file = WholeOffer /\ 1 \in 1..Len(resultCh)
        BY <1>e, <2>1, <2>2, <3>1
      <4>2. NoneToSender({"result"}) /\ NoneToSender({"decision"})
        BY <2>1, <4>1 DEF WholeOfferIsLast, OneDecision
      <4>3. NoneToSender({"decision", "result"})
        BY <4>2 DEF NoneToSender
      <4> QED BY <1>0, <1>a, <2>1, <2>2, <3>1, <4>3 DEF DoneIsQuiet
    <3>2. CASE run' # "done"
      BY <1>0, <2>1, <3>2 DEF DoneIsQuiet
    <3> QED BY <3>1, <3>2
  <2>4. WholeOfferIsLast'
    <3>1. \A i \in 1..Len(resultCh'): resultCh'[i].file = WholeOffer =>
            i = Len(resultCh') /\ NoneToSender({"result"})
      BY <1>e, <2>1 DEF WholeOfferIsLast
    <3> QED BY <1>0, <1>a, <2>1, <3>1 DEF WholeOfferIsLast, RejectionOnTheWay
  <2>5. OneDecision'
    BY <1>0, <1>a, <2>1 DEF OneDecision
  <2> QED BY <1>1, <2>3, <2>4, <2>5
<1> QED BY <1>2, <1>3, <1>4 DEF SenderRuns, RunOutgoing
\* The serve loop of the sending Peer can place every answer.
LEMMA AnswersServed ==
    ASSUME TypeOK, AccountInv, AnswersInOrder, SenderServes PROVE AnswersInOrder'
<1> USE DEF AnswersInOrder
<1>0. /\ ~senderEnded /\ toSender # << >> /\ UNCHANGED <<incoming, review, ending>>
      /\ Head(toSender).type \in {"decision", "result", "cancel"}
  BY DEF SenderServes, SenderServe, ServeDecision, ServeResult, ServePeerCancel, receiverVars
<1>1. run # "stopped" /\ 1 \in 1..Len(toSender) /\ Head(toSender) = toSender[1]
  BY <1>0 DEF SenderEndsQuietly, TypeOK, WireTypeOK
<1>2. Head(toSender).type # "cancel" => OutgoingIsCurrent
  <2>1. run = "done" => Head(toSender).type = "cancel"
    BY <1>0, <1>1 DEF DoneIsQuiet, NoneToSender
  <2> QED BY <1>1, <2>1 DEF OutgoingIsCurrent, TypeOK, SenderTypeOK
<1>3. /\ toSender' = Tail(toSender) /\ UNCHANGED <<run, report, senderEnded, senderError, link>>
      /\ \/ /\ Head(toSender).type = "decision" /\ decisionCh = "none" /\ UNCHANGED resultCh
            /\ decisionCh' = IF Head(toSender).accepted THEN "accept" ELSE "reject"
         \/ /\ Head(toSender).type = "result" /\ UNCHANGED decisionCh
            /\ resultCh' = Append(resultCh, [file |-> Head(toSender).file,
                                             verdict |-> Head(toSender).verdict])
         \/ Head(toSender).type = "cancel" /\ UNCHANGED <<decisionCh, resultCh>>
  BY <1>2 DEF SenderServes, SenderServe, ServeDecision, ServeResult, ServePeerCancel
<1>4. /\ \A i \in 1..Len(toSender'): /\ i + 1 \in 1..Len(toSender) /\ i + 1 > 1
                                     /\ toSender'[i] = toSender[i + 1]
      /\ \A types: NoneToSender(types) => NoneToSender(types)'
  BY <1>0, <1>3, TakenAnswer
<1>5. RejectionOnTheWay' => RejectionOnTheWay
  <2>1. CASE Head(toSender).type = "decision"
    BY <1>0, <1>3, <2>1, DecisionRouted
  <2>2. CASE Head(toSender).type # "decision"
    BY <1>0, <1>3, <2>2, NoNewRejection DEF TypeOK
  <2> QED BY <2>1, <2>2
<1>6. SenderEndsQuietly'
  BY <1>0, <1>3 DEF SenderEndsQuietly
<1>7. DoneIsQuiet'
  BY <1>0, <1>3, <1>4 DEF DoneIsQuiet
<1>8. WholeOfferIsLast'
  <2>1. \A i, j \in 1..Len(toSender'):
            i < j /\ toSender'[i].type = "result" /\ toSender'[i].file = WholeOffer
                => toSender'[j].type # "result"
    <3> SUFFICES ASSUME NEW i \in 1..Len(toSender'), NEW j \in 1..Len(toSender'), i < j
                 PROVE  toSender'[i].type = "result" /\ toSender'[i].file = WholeOffer
                            => toSender'[j].type # "result"
      OBVIOUS
    <3>1. i + 1 < j + 1
      OBVIOUS
    <3> QED BY <1>4, <3>1 DEF WholeOfferIsLast
  <2>2. \A i \in 1..Len(resultCh'): resultCh'[i].file = WholeOffer =>
            i = Len(resultCh') /\ NoneToSender({"result"})'
    <3>1. CASE UNCHANGED resultCh
      BY <1>4, <3>1 DEF WholeOfferIsLast
    <3>2. CASE Head(toSender).type = "result"
      <4> DEFINE r == [file |-> Head(toSender).file, verdict |-> Head(toSender).verdict]
      <4>1. resultCh \in Seq(Results) /\ resultCh' = Append(resultCh, r)
        BY <1>3, <3>2 DEF TypeOK, SenderTypeOK, Results
      <4>2. \A i \in 1..Len(resultCh): resultCh[i].file # WholeOffer
        BY <1>1, <3>2 DEF WholeOfferIsLast, NoneToSender
      <4>3. \A i \in 1..Len(resultCh'): \/ i = Len(resultCh') /\ resultCh'[i] = r
                                        \/ i \in 1..Len(resultCh) /\ resultCh'[i] = resultCh[i]
        <5> HIDE DEF r
        <5> QED BY <4>1
      <4>4. r.file = WholeOffer => NoneToSender({"result"})'
        BY <1>1, <1>4, <3>2 DEF WholeOfferIsLast, NoneToSender
      <4> HIDE DEF r
      <4> QED BY <4>2, <4>3, <4>4
    <3> QED BY <1>3, <3>1, <3>2
  <2> QED BY <1>0, <1>4, <1>5, <2>1, <2>2 DEF WholeOfferIsLast
<1>9. OneDecision'
  <2>1. \A i, j \in 1..Len(toSender'):
            toSender'[i].type = "decision" /\ toSender'[j].type = "decision" => i = j
    <3> SUFFICES ASSUME NEW i \in 1..Len(toSender'), NEW j \in 1..Len(toSender'),
                        toSender'[i].type = "decision", toSender'[j].type = "decision"
                 PROVE  i = j
      OBVIOUS
    <3>1. i + 1 = j + 1
      BY <1>4 DEF OneDecision
    <3> QED BY <3>1
  <2>2. CASE Head(toSender).type # "decision"
    BY <1>0, <1>3, <1>4, <2>1, <2>2 DEF OneDecision
  <2>3. CASE Head(toSender).type = "decision"
    <3>1. ~NoneToSender({"decision"})
      BY <1>1, <2>3 DEF NoneToSender
    <3>2. NoneToSender({"decision"})'
      BY <1>1, <1>4, <2>3 DEF OneDecision, NoneToSender
    <3> QED BY <1>0, <1>3, <2>1, <3>1, <3>2 DEF OneDecision
  <2> QED BY <2>2, <2>3
<1> QED BY <1>6, <1>7, <1>8, <1>9

\* The rest of the sending Peer.
LEMMA AnswersSender ==
    ASSUME TypeOK, AnswersInOrder,
           \/ \E w \in Workers: SenderWorks(w)
           \/ \E f \in Files: SourceChanges(f)
           \/ SenderCancels \/ SenderSendsCancel \/ SenderEnds \/ LinkFails
    PROVE  AnswersInOrder'
<1>1. ASSUME NEW w \in Workers, SenderWorks(w) PROVE AnswersInOrder'
  <2>1. UNCHANGED answerVars /\ UNCHANGED link
    BY <1>1
    DEF SenderWorks, WorkerStep, TakeJob, PassBarrier, OpenSource, ReadChunk, SendChunk,
        SendComplete, SendFileFailed, WorkerUnchanged, answerVars, receiverVars
  <2> QED BY <2>1, AnswersUntouched
<1>2. CASE (\E f \in Files: SourceChanges(f)) \/ SenderCancels \/ SenderSendsCancel \/ LinkFails
  <2>1. UNCHANGED answerVars /\ (link = "down" => link' = "down")
    BY <1>2
    DEF SourceChanges, ChangeSource, SenderCancels, CancelOutgoing, SenderSendsCancel, SendCancel,
        LinkFails, LinkDown, wireVars, senderVars, receiverVars, answerVars
  <2> QED BY <2>1, AnswersUntouched
<1>3. CASE SenderEnds
  <2>1. /\ senderEnded' = TRUE /\ senderError' = FALSE /\ link' = "down" /\ toSender' = << >>
        /\ run' = (IF run = "done" THEN run ELSE "stopped") /\ decisionCh' = "none"
        /\ resultCh' = << >> /\ UNCHANGED <<report, incoming, review>>
    BY <1>3 DEF SenderEnds, SenderLosesLink, EndSender, receiverVars
  <2>2. \A types: NoneToSender(types)'
    BY <2>1 DEF NoneToSender
  <2>3. SenderEndsQuietly'
    BY <2>1 DEF SenderEndsQuietly
  <2>4. DoneIsQuiet'
    BY <2>1, <2>2 DEF DoneIsQuiet, AnswersInOrder
  <2>5. WholeOfferIsLast'
    BY <2>1, <2>2 DEF WholeOfferIsLast, AnswersInOrder
  <2>6. OneDecision'
    BY <2>1, <2>2 DEF OneDecision, AnswersInOrder
  <2> QED BY <2>3, <2>4, <2>5, <2>6 DEF AnswersInOrder
<1> QED BY <1>1, <1>2, <1>3
---------------------------------------------------------------------------
(* The receiving Peer keeps the answers in order                           *)

\* While an offer is accepted, runOutgoing has not returned and no result of
\* the whole offer is on its way: one more result may be written.
LEMMA AnswersResult ==
    ASSUME TypeOK, AccountInv, AnswersInOrder, UNCHANGED senderVars, incoming = "accepted",
           incoming' \in {"accepted", "cleared"}, UNCHANGED <<review, link>>,
           NEW f \in Files \cup {WholeOffer}, NEW v \in Verdicts, SendToSender(ResultFrame(f, v))
    PROVE  AnswersInOrder'
<1> USE DEF AnswersInOrder
<1>0. UNCHANGED <<resultCh, run, report, decisionCh, senderEnded, senderError>>
  BY DEF senderVars
<1>1. ResultFrame(f, v) \in SenderFrames /\ ResultFrame(f, v).type = "result"
  BY SenderFrameTypes DEF ResultFrame
<1>2. /\ \A i \in 1..Len(toSender'):
            \/ i \in 1..Len(toSender) /\ toSender'[i] = toSender[i]
            \/ i = Len(toSender') /\ toSender'[i] = ResultFrame(f, v)
      /\ \A types: NoneToSender(types) /\ "result" \notin types => NoneToSender(types)'
      /\ senderEnded /\ SenderEndsQuietly => UNCHANGED toSender
  BY <1>1, WrittenAnswer
<1>3. run # "done" /\ ~RejectionOnTheWay
  BY DEF DoneIsQuiet, AccountInv, RejectionIsFinal
<1>4. \A x \in Verdicts: ~OnTheWay(WholeOffer, x)
  BY DEF AccountInv, ClosedBeforeReported
<1>5. \A i \in 1..Len(resultCh): resultCh[i].file # WholeOffer
  <2>1. resultCh \in Seq(Results)
    BY DEF TypeOK, SenderTypeOK, Results
  <2>2. \A i \in 1..Len(resultCh):
            /\ resultCh[i].verdict \in Verdicts
            /\ resultCh[i] = [file |-> resultCh[i].file, verdict |-> resultCh[i].verdict]
    <3>1. \A r \in Results: r.verdict \in Verdicts /\ r = [file |-> r.file, verdict |-> r.verdict]
      BY DEF Results
    <3>2. \A i \in 1..Len(resultCh): resultCh[i] \in Results
      BY <2>1
    <3> QED BY <3>1, <3>2
  <2> QED BY <1>4, <2>2 DEF OnTheWay
<1>6. \A i \in 1..Len(toSender): ~(toSender[i].type = "result" /\ toSender[i].file = WholeOffer)
  <2>1. toSender \in Seq(SenderFrames)
    BY DEF TypeOK, WireTypeOK
  <2>2. \A i \in 1..Len(toSender): toSender[i].type = "result" =>
            /\ toSender[i].verdict \in Verdicts
            /\ toSender[i] = ResultFrame(toSender[i].file, toSender[i].verdict)
    BY <2>1 DEF SenderFrames, ResultFrame
  <2> QED BY <1>4, <2>2 DEF OnTheWay
<1>7. SenderEndsQuietly'
  BY <1>0, <1>2 DEF SenderEndsQuietly
<1>8. DoneIsQuiet'
  BY <1>0, <1>3 DEF DoneIsQuiet, AccountInv, BatchIsAnnounced
<1>9. WholeOfferIsLast'
  <2>1. ~RejectionOnTheWay'
    <3>1. ResultFrame(f, v) # DecisionFrame(FALSE)
      BY DEF ResultFrame, DecisionFrame
    <3> QED BY <1>0, <1>1, <1>3, <3>1, NoNewRejection DEF TypeOK
  <2>2. \A i \in 1..Len(resultCh'): resultCh'[i].file # WholeOffer
    BY <1>0, <1>5
  <2>3. \A i, j \in 1..Len(toSender'):
            i < j => ~(toSender'[i].type = "result" /\ toSender'[i].file = WholeOffer)
    <3> SUFFICES ASSUME NEW i \in 1..Len(toSender'), NEW j \in 1..Len(toSender'), i < j
                 PROVE  ~(toSender'[i].type = "result" /\ toSender'[i].file = WholeOffer)
      OBVIOUS
    <3>1. i # Len(toSender')
      OBVIOUS
    <3> QED BY <1>2, <1>6, <3>1
  <2> QED BY <2>1, <2>2, <2>3 DEF WholeOfferIsLast
<1>10. OneDecision'
  <2>1. NoneToSender({"decision"}) => NoneToSender({"decision"})'
    BY <1>2
  <2>2. \A i, j \in 1..Len(toSender'):
            toSender'[i].type = "decision" /\ toSender'[j].type = "decision" => i = j
    BY <1>1, <1>2 DEF OneDecision
  <2>3. NoneToSender({"decision"})' => NoneToSender({"decision"})
    <3>1. \A i \in 1..Len(toSender): i \in 1..Len(toSender') /\ toSender'[i] = toSender[i]
      BY DEF SendToSender, TypeOK, WireTypeOK
    <3> QED BY <3>1 DEF NoneToSender
  <2> QED BY <1>0, <2>1, <2>2, <2>3 DEF OneDecision
<1> QED BY <1>7, <1>8, <1>9, <1>10

LEMMA AnswersReviews ==
    ASSUME TypeOK, AccountInv, AnswersInOrder,
           ReceiverDecides \/ ReceiverReviews \/ ReceiverCancels \/ ReceiverSendsCancel
    PROVE  AnswersInOrder'
<1> USE DEF AnswersInOrder
<1>0. UNCHANGED <<resultCh, run, report, decisionCh, senderEnded, senderError, link>>
  BY DEF ReceiverDecides, ReceiverReviews, ReceiverCancels, ReceiverSendsCancel, AcceptOffer,
         RejectOffer, SendAcceptance, ClearRejected, CancelIncoming, SendCancelRequest, senderVars, wireVars
<1>a. report # "none" => run = "done"
  BY DEF AccountInv, BatchIsAnnounced
<1>b. review \in {"waiting", "accepting"} =>
        /\ NoneToSender({"decision"}) /\ decisionCh = "none" /\ run \in {"decision", "stopped"}
        /\ report = "none"
  BY <1>a DEF OneDecision
<1>1. CASE ReceiverDecides /\ AcceptOffer
  <2>1. /\ review = "waiting" /\ incoming = "review" /\ review' = "accepting" /\ incoming' = "accepted"
        /\ UNCHANGED toSender
    BY <1>1 DEF AcceptOffer, wireVars
  <2>2. \A types: NoneToSender(types)' <=> NoneToSender(types)
    BY <2>1 DEF NoneToSender
  <2>3. SenderEndsQuietly'
    BY <1>0, <2>1 DEF SenderEndsQuietly
  <2>4. DoneIsQuiet'
    BY <1>0, <1>b, <2>1 DEF DoneIsQuiet
  <2>5. WholeOfferIsLast'
    BY <1>0, <2>1, <2>2 DEF WholeOfferIsLast, RejectionOnTheWay
  <2>6. OneDecision'
    BY <1>0, <1>b, <2>1, <2>2 DEF OneDecision
  <2> QED BY <2>3, <2>4, <2>5, <2>6
<1>2. CASE ReceiverReviews /\ ClearRejected
  <2>1. /\ review = "rejecting" /\ review' = "done" /\ incoming' = "cleared" /\ UNCHANGED toSender
    BY <1>2 DEF ClearRejected, wireVars
  <2>2. \A types: NoneToSender(types)' <=> NoneToSender(types)
    BY <2>1 DEF NoneToSender
  <2>3. SenderEndsQuietly'
    BY <1>0, <2>1 DEF SenderEndsQuietly
  <2>4. DoneIsQuiet'
    BY <1>0, <2>1, <2>2 DEF DoneIsQuiet
  <2>5. WholeOfferIsLast'
    BY <1>0, <2>1, <2>2 DEF WholeOfferIsLast, RejectionOnTheWay
  <2>6. OneDecision'
    BY <1>0, <2>1, <2>2 DEF OneDecision
  <2> QED BY <2>3, <2>4, <2>5, <2>6
<1>3. ASSUME NEW b \in BOOLEAN, SendToSender(DecisionFrame(b)), review \in {"waiting", "accepting"},
             review' \in {"rejecting", "done"}, UNCHANGED incoming,
             b = FALSE => incoming = "review"
      PROVE  AnswersInOrder'
  <2>1. DecisionFrame(b) \in SenderFrames /\ DecisionFrame(b).type = "decision"
    BY SenderFrameTypes DEF DecisionFrame
  <2>2. /\ \A i \in 1..Len(toSender'):
              \/ i \in 1..Len(toSender) /\ toSender'[i] = toSender[i]
              \/ i = Len(toSender') /\ toSender'[i] = DecisionFrame(b)
        /\ \A types: NoneToSender(types) /\ "decision" \notin types => NoneToSender(types)'
        /\ senderEnded /\ SenderEndsQuietly => UNCHANGED toSender
    BY <1>3, <2>1, WrittenAnswer
  <2>3. SenderEndsQuietly'
    BY <1>0, <2>2 DEF SenderEndsQuietly
  <2>4. DoneIsQuiet'
    BY <1>0, <1>3, <1>b DEF DoneIsQuiet
  <2>5. WholeOfferIsLast'
    <3>1. RejectionOnTheWay' => RejectionOnTheWay \/ incoming = "review"
      <4>1. CASE b = FALSE
        BY <1>3, <4>1
      <4>2. CASE b = TRUE
        <5>1. DecisionFrame(TRUE) # DecisionFrame(FALSE)
          BY DEF DecisionFrame
        <5>2. DecisionFrame(TRUE) \in SenderFrames /\ SendToSender(DecisionFrame(TRUE))
          BY <1>3, <2>1, <4>2, Zenon
        <5> QED BY <1>0, <5>1, <5>2, NoNewRejection DEF TypeOK
      <4> QED BY <1>3, <4>1, <4>2
    <3>2. NoneToSender({"result"}) => NoneToSender({"result"})'
      BY <2>2
    <3>3. \A i, j \in 1..Len(toSender'):
            i < j /\ toSender'[i].type = "result" /\ toSender'[i].file = WholeOffer
                => toSender'[j].type # "result"
      BY <2>1, <2>2 DEF WholeOfferIsLast
    <3> QED BY <1>0, <1>3, <3>1, <3>2, <3>3 DEF WholeOfferIsLast
  <2>6. OneDecision'
    <3>1. NoneToSender({"decision"}) /\ decisionCh = "none" /\ run \in {"decision", "stopped"}
      BY <1>3, <1>b
    <3>2. \A i, j \in 1..Len(toSender'):
            toSender'[i].type = "decision" /\ toSender'[j].type = "decision" => i = j
      BY <2>2, <3>1 DEF NoneToSender
    <3> QED BY <1>0, <1>3, <3>1, <3>2 DEF OneDecision
  <2> QED BY <2>3, <2>4, <2>5, <2>6
<1>4. CASE ReceiverDecides /\ RejectOffer
  BY <1>3, <1>4 DEF RejectOffer
<1>5. CASE ReceiverReviews /\ SendAcceptance
  <2>1. TRUE \in BOOLEAN /\ ~(TRUE = FALSE)
    OBVIOUS
  <2>2. /\ SendToSender(DecisionFrame(TRUE)) /\ review \in {"waiting", "accepting"}
        /\ review' \in {"rejecting", "done"} /\ UNCHANGED incoming
    BY <1>5 DEF SendAcceptance
  <2> QED BY <1>3, <2>1, <2>2
<1>6. CASE ReceiverCancels
  <2>1. UNCHANGED <<toSender, incoming, review>>
    BY <1>6 DEF ReceiverCancels, CancelIncoming, wireVars
  <2> QED BY <1>0, <2>1, AnswersUntouched DEF answerVars
<1>7. CASE ReceiverSendsCancel
  <2>1. UNCHANGED <<incoming, review>> /\ SendToSender(CancelFrame)
    BY <1>7 DEF ReceiverSendsCancel, SendCancelRequest
  <2>2. /\ \A i \in 1..Len(toSender'):
              \/ i \in 1..Len(toSender) /\ toSender'[i] = toSender[i]
              \/ i = Len(toSender') /\ toSender'[i] = CancelFrame
        /\ \A types: NoneToSender(types) /\ "cancel" \notin types => NoneToSender(types)'
        /\ senderEnded /\ SenderEndsQuietly => UNCHANGED toSender
    BY <2>1, CancelFrameType, WrittenAnswer
  <2>3. SenderEndsQuietly'
    BY <1>0, <2>2 DEF SenderEndsQuietly
  <2>4. DoneIsQuiet'
    <3>1. NoneToSender({"decision", "result"}) => NoneToSender({"decision", "result"})'
      BY <2>2
    <3> QED BY <1>0, <2>1, <3>1 DEF DoneIsQuiet
  <2>5. WholeOfferIsLast'
    <3>1. RejectionOnTheWay' => RejectionOnTheWay
      <4>1. CancelFrame # DecisionFrame(FALSE)
        BY DEF CancelFrame, DecisionFrame
      <4> QED BY <1>0, <2>1, <4>1, CancelFrameType, NoNewRejection DEF TypeOK
    <3>2. NoneToSender({"result"}) => NoneToSender({"result"})'
      BY <2>2
    <3>3. \A i, j \in 1..Len(toSender'):
            i < j /\ toSender'[i].type = "result" /\ toSender'[i].file = WholeOffer
                => toSender'[j].type # "result"
      BY <2>2, CancelFrameType DEF WholeOfferIsLast
    <3> QED BY <1>0, <2>1, <3>1, <3>2, <3>3 DEF WholeOfferIsLast
  <2>6. OneDecision'
    <3>1. NoneToSender({"decision"}) => NoneToSender({"decision"})'
      BY <2>2
    <3>2. \A i, j \in 1..Len(toSender'):
            toSender'[i].type = "decision" /\ toSender'[j].type = "decision" => i = j
      BY <2>2, CancelFrameType DEF OneDecision
    <3>3. NoneToSender({"decision"})' => NoneToSender({"decision"})
      <4>1. \A i \in 1..Len(toSender): i \in 1..Len(toSender') /\ toSender'[i] = toSender[i]
        BY <2>1 DEF SendToSender, TypeOK, WireTypeOK
      <4> QED BY <4>1 DEF NoneToSender
    <3> QED BY <1>0, <2>1, <3>1, <3>2, <3>3 DEF OneDecision
  <2> QED BY <2>3, <2>4, <2>5, <2>6
<1> QED
  BY <1>1, <1>2, <1>4, <1>5, <1>6, <1>7 DEF ReceiverDecides, ReceiverReviews

LEMMA AnswersReceiverEnds ==
    ASSUME AnswersInOrder, UNCHANGED senderVars, NEW e, EndReceiver(e) PROVE AnswersInOrder'
<1> USE DEF AnswersInOrder
<1>1. /\ UNCHANGED <<resultCh, run, report, decisionCh, senderEnded, senderError, toSender>>
      /\ link' = "down" /\ incoming' = "cleared" /\ review' = "done"
  BY DEF EndReceiver, senderVars
<1>2. \A types: NoneToSender(types)' <=> NoneToSender(types)
  BY <1>1 DEF NoneToSender
<1>3. SenderEndsQuietly'
  BY <1>1 DEF SenderEndsQuietly
<1>4. DoneIsQuiet'
  BY <1>1, <1>2 DEF DoneIsQuiet
<1>5. WholeOfferIsLast'
  BY <1>1, <1>2 DEF WholeOfferIsLast, RejectionOnTheWay
<1>6. OneDecision'
  BY <1>1, <1>2 DEF OneDecision
<1> QED BY <1>3, <1>4, <1>5, <1>6

LEMMA AnswersReceiver ==
    ASSUME TypeOK, PublicationInv, AccountInv, AnswersInOrder, ReceiverServes \/ ReceiverEnds
    PROVE  AnswersInOrder'
<1>0. UNCHANGED senderVars
  BY DEF ReceiverServes, ReceiverEnds
<1>a. ASSUME NEW e, EndReceiver(e) PROVE AnswersInOrder'
  BY <1>0, <1>a, AnswersReceiverEnds
<1>1. CASE ReceiverEnds
  BY <1>1, <1>a DEF ReceiverEnds, ReceiverLosesLink
<1>2. CASE ReceiverServes
  <2>1. ASSUME NEW f \in Files, incoming = "accepted", FailIncomingFile(f) \/ PublishFile(f)
        PROVE  AnswersInOrder'
    <3>1. /\ UNCHANGED <<incoming, review, link>>
          /\ SendToSender(ResultFrame(f, "ok")) \/ SendToSender(ResultFrame(f, "failed"))
      BY <2>1 DEF FailIncomingFile, PublishFile, HandlerReturns
    <3> QED BY <1>0, <2>1, <3>1, AnswersResult DEF Verdicts
  <2>2. ASSUME HandlerReturns, UNCHANGED <<receiverAccount, toSender>> PROVE AnswersInOrder'
    BY <1>0, <2>2, AnswersUntouched DEF HandlerReturns, receiverAccount, senderVars, answerVars
  <2>3. ASSUME NEW v \in Verdicts, incoming = "accepted", incoming' = "cleared", HandlerReturns,
               SendToSender(ResultFrame(WholeOffer, v))
        PROVE  AnswersInOrder'
    BY <1>0, <2>3, AnswersResult DEF HandlerReturns
  <2> QED BY <1>2, <1>a, <2>1, <2>2, <2>3, ServedOutcomes
<1> QED BY <1>1, <1>2

LEMMA AnswersInit == Init => AnswersInOrder
BY DEF Init, WireInit, SenderInit, ReceiverInit, AnswersInOrder, SenderEndsQuietly, DoneIsQuiet,
       WholeOfferIsLast, OneDecision, NoneToSender, RejectionOnTheWay

LEMMA AnswersNext ==
    TypeOK /\ PublicationInv /\ AccountInv /\ AnswersInOrder /\ [Next]_vars => AnswersInOrder'
<1> SUFFICES ASSUME TypeOK, PublicationInv, AccountInv, AnswersInOrder, [Next]_vars
             PROVE  AnswersInOrder'
  OBVIOUS
<1>1. CASE UNCHANGED vars
  BY <1>1, AnswersUntouched DEF vars, wireVars, senderVars, receiverVars, answerVars
<1> QED
  BY <1>1, AnswersSenderRuns, AnswersServed, AnswersSender, AnswersReviews, AnswersReceiver DEF Next
---------------------------------------------------------------------------
(* The frames to the receiver, projected on one file                       *)

About(m, f) == m.type \in {"content", "complete", "file-failed"} /\ m.file = f
IsChunk(m, f, o) == m.type = "content" /\ m.file = f /\ m.offset = o

\* A zero-byte file is one empty chunk.
Chunks(f) == IF Size[f] = 0 THEN 1 ELSE Size[f]

\* How many chunks of f the receiver has taken, and how many w has sent of its file.
Taken(f) == IF ~stream[f].open THEN 0 ELSE IF Size[f] = 0 THEN 1 ELSE stream[f].received
Sent(w) == IF worker[w].at = "complete" THEN Chunks(worker[w].file) ELSE worker[w].offset

\* The chunks of f up to n that are not taken yet are on the wire.
Covered(f, n) == \A k \in Taken(f)..(n - 1): \E j \in 1..Len(toReceiver): IsChunk(toReceiver[j], f, k)

\* The frames of f are its next chunks in order, then at most one last frame.
InOrder(f) ==
    \A i, j \in 1..Len(toReceiver):
        i < j /\ About(toReceiver[i], f) /\ About(toReceiver[j], f)
            => /\ toReceiver[i].type = "content"
               /\ toReceiver[j].type = "content" => toReceiver[i].offset < toReceiver[j].offset
Expected(m, f) ==
    /\ f \notin outcomes
    /\ m.type = "content" => /\ m.offset >= Taken(f) /\ m.offset < Chunks(f)
                             /\ m.size = ChunkBytes(f) /\ Covered(f, m.offset)
    /\ m.type = "complete" => Covered(f, Chunks(f))
FileInStep(f) ==
    /\ InOrder(f)
    /\ \A i \in 1..Len(toReceiver): About(toReceiver[i], f) => Expected(toReceiver[i], f)
    /\ stream[f].open => stream[f].received <= Size[f]

\* The worker that holds a file is the only one, and ahead of the wire.
WorkerAhead(w) ==
    LET f == worker[w].file IN
    /\ f \notin outcomes
    /\ worker[w].at \in {"barrier", "open"} => worker[w].offset = 0
    /\ worker[w].at \in {"read", "send"} => worker[w].offset < Chunks(f)
    /\ Taken(f) <= Sent(w) /\ Covered(f, Sent(w))
    /\ \A i \in 1..Len(toReceiver): About(toReceiver[i], f) =>
         toReceiver[i].type = "content" /\ toReceiver[i].offset < Sent(w)
    /\ \A v \in Workers \ {w}: worker[v].file # f
    /\ \A i \in 1..Len(jobs): jobs[i] # f

\* A file no worker has taken is untouched everywhere, and queued once.
JobUntouched(i) ==
    /\ jobs[i] \notin outcomes /\ ~stream[jobs[i]].open
    /\ \A j \in 1..Len(toReceiver): ~About(toReceiver[j], jobs[i])
    /\ \A j \in 1..Len(jobs): jobs[j] = jobs[i] => j = i

AcceptanceOnTheWay ==
    \/ decisionCh = "accept"
    \/ \E i \in 1..Len(toSender): toSender[i].type = "decision" /\ toSender[i].accepted

Phases ==
    /\ toReceiver # << >> => incoming = "accepted"
    /\ run \notin {"starting", "collect"} => \A w \in Workers: worker[w].at = "exit"
    /\ link = "up" /\ (run \in {"starting", "collect"} \/ AcceptanceOnTheWay \/ review = "accepting")
            => incoming = "accepted"
    /\ run = "decision" => toReceiver = << >> /\ outcomes = {} /\ OpenStreams = {}
    /\ BatchOnTheWay => outcomes = Files /\ Len(toReceiver) = 1

\* What holds until somebody cancels.
InStep ==
    /\ \A f \in Files: FileInStep(f)
    /\ link = "up" => /\ \A w \in Workers: worker[w].at \in BusyPlaces => WorkerAhead(w)
                      /\ \A i \in 1..Len(jobs): JobUntouched(i)
    /\ Phases

\* A cancellation that reaches the other Peer was flagged first.
Flagged ==
    /\ OnTheWay(WholeOffer, "canceled") => outgoingCanceled
    /\ receiverError = "frame" => outgoingCanceled

FrameInv == Flagged /\ (~outgoingCanceled => InStep)

---------------------------------------------------------------------------
(* Steps that leave the frames of a file as they are                       *)

LEMMA FileFacts ==
    ASSUME TypeOK, NEW f \in Files
    PROVE  /\ Size[f] \in Nat /\ Chunks(f) \in Nat \ {0} /\ Taken(f) \in Nat
           /\ stream[f] \in Streams /\ stream[f].received \in Nat /\ f # 0
<1>1. Size[f] \in Nat /\ stream[f] \in Streams /\ f # 0
  BY SizeAssumption DEF Files, TypeOK, ReceiverTypeOK
<1>2. stream[f].received \in Nat
  BY <1>1 DEF Streams
<1> QED BY <1>1, <1>2 DEF Chunks, Taken

\* The frames of f move up d places on the wire.
SameFrames(f, d) ==
    /\ \A i \in 1..Len(toReceiver'): About(toReceiver'[i], f) =>
            i + d \in 1..Len(toReceiver) /\ toReceiver'[i] = toReceiver[i + d]
    /\ \A j \in 1..Len(toReceiver): About(toReceiver[j], f) =>
            j - d \in 1..Len(toReceiver') /\ toReceiver'[j - d] = toReceiver[j]

LEMMA SameIfUntouched == ASSUME TypeOK, UNCHANGED toReceiver PROVE \A f: SameFrames(f, 0)
<1>1. \A i \in 1..Len(toReceiver): i + 0 = i /\ i - 0 = i
  OBVIOUS
<1> QED BY <1>1 DEF SameFrames

LEMMA SameIfOthersWritten ==
    ASSUME TypeOK, NEW frame \in ReceiverFrames, SendToReceiver(frame)
    PROVE  \A f: ~About(frame, f) => SameFrames(f, 0)
<1> TAKE f
<1> HAVE ~About(frame, f)
<1>0. /\ Len(toReceiver) \in Nat /\ Len(toReceiver') \in Nat /\ Len(toReceiver') \geq Len(toReceiver)
      /\ \A i \in 1..Len(toReceiver): toReceiver'[i] = toReceiver[i]
      /\ \A i \in 1..Len(toReceiver'): i > Len(toReceiver) => toReceiver'[i] = frame
  BY WrittenFrame DEF TypeOK, WireTypeOK
<1>1. \A i \in Nat: i + 0 = i /\ i - 0 = i
  OBVIOUS
<1>2. \A i \in 1..Len(toReceiver'): About(toReceiver'[i], f) =>
            i \in 1..Len(toReceiver) /\ toReceiver'[i] = toReceiver[i]
  BY <1>0
<1>3. \A j \in 1..Len(toReceiver): j \in 1..Len(toReceiver') /\ toReceiver'[j] = toReceiver[j]
  BY <1>0
<1> QED BY <1>1, <1>2, <1>3 DEF SameFrames

LEMMA TakenFromWire ==
    ASSUME TypeOK, toReceiver # << >>, toReceiver' = Tail(toReceiver)
    PROVE  /\ Len(toReceiver) \in Nat \ {0} /\ Head(toReceiver) = toReceiver[1]
           /\ Len(toReceiver') = Len(toReceiver) - 1 /\ 1 \in 1..Len(toReceiver)
           /\ \A i \in 1..Len(toReceiver'): /\ i + 1 \in 1..Len(toReceiver) /\ i + 1 > 1
                                            /\ toReceiver'[i] = toReceiver[i + 1]
           /\ \A j \in 1..Len(toReceiver): j # 1 =>
                /\ j - 1 \in 1..Len(toReceiver') /\ toReceiver'[j - 1] = toReceiver[j]
<1>1. /\ Len(toReceiver) \in Nat \ {0} /\ Head(toReceiver) = toReceiver[1]
      /\ Len(toReceiver') = Len(toReceiver) - 1
      /\ \A i \in 1..Len(toReceiver'): toReceiver'[i] = toReceiver[i + 1]
  BY DEF TypeOK, WireTypeOK
<1>2. \A i \in 1..Len(toReceiver'): i + 1 \in 1..Len(toReceiver) /\ i + 1 > 1
  BY <1>1
<1>3. ASSUME NEW j \in 1..Len(toReceiver), j # 1
      PROVE  j - 1 \in 1..Len(toReceiver') /\ toReceiver'[j - 1] = toReceiver[j]
  <2>1. j - 1 \in 1..Len(toReceiver') /\ (j - 1) + 1 = j
    BY <1>1, <1>3
  <2> QED BY <1>1, <2>1
<1> QED BY <1>1, <1>2, <1>3

LEMMA SameIfOthersTaken ==
    ASSUME TypeOK, toReceiver # << >>, toReceiver' = Tail(toReceiver)
    PROVE  \A f: ~About(Head(toReceiver), f) => SameFrames(f, 1)
BY TakenFromWire DEF SameFrames

LEMMA FileKept ==
    ASSUME TypeOK, NEW f \in Files, NEW d \in {0, 1}, SameFrames(f, d), stream'[f] = stream[f],
           f \in outcomes' => f \in outcomes
    PROVE  /\ Taken(f)' = Taken(f)
           /\ \A n: Covered(f, n) => Covered(f, n)'
           /\ FileInStep(f) => FileInStep(f)'
<1>1. Taken(f)' = Taken(f)
  BY DEF Taken
<1>2. \A n: Covered(f, n) => Covered(f, n)'
  <2> SUFFICES ASSUME NEW n, Covered(f, n), NEW k \in Taken(f)..(n - 1)
               PROVE  \E j \in 1..Len(toReceiver'): IsChunk(toReceiver'[j], f, k)
    BY <1>1 DEF Covered
  <2>1. PICK j \in 1..Len(toReceiver): IsChunk(toReceiver[j], f, k)
    BY DEF Covered
  <2>2. About(toReceiver[j], f)
    BY <2>1 DEF About, IsChunk
  <2> QED BY <2>1, <2>2 DEF SameFrames
<1>3. ASSUME FileInStep(f) PROVE FileInStep(f)'
  <2>1. InOrder(f)'
    <3> SUFFICES ASSUME NEW i \in 1..Len(toReceiver'), NEW j \in 1..Len(toReceiver'), i < j,
                        About(toReceiver'[i], f), About(toReceiver'[j], f)
                 PROVE  /\ toReceiver'[i].type = "content"
                        /\ toReceiver'[j].type = "content" => toReceiver'[i].offset < toReceiver'[j].offset
      BY DEF InOrder
    <3>1. i + d < j + d
      OBVIOUS
    <3>2. /\ i + d \in 1..Len(toReceiver) /\ toReceiver'[i] = toReceiver[i + d]
          /\ j + d \in 1..Len(toReceiver) /\ toReceiver'[j] = toReceiver[j + d]
      BY DEF SameFrames
    <3> QED BY <1>3, <3>1, <3>2 DEF FileInStep, InOrder
  <2>2. \A i \in 1..Len(toReceiver'): About(toReceiver[i], f)' => Expected(toReceiver[i], f)'
    <3> SUFFICES ASSUME NEW i \in 1..Len(toReceiver'), About(toReceiver'[i], f)
                 PROVE  Expected(toReceiver[i], f)'
      OBVIOUS
    <3>1. Expected(toReceiver[i + d], f) /\ toReceiver'[i] = toReceiver[i + d]
      BY <1>3 DEF FileInStep, SameFrames
    <3> QED BY <1>1, <1>2, <3>1 DEF Expected
  <2> QED BY <1>3, <2>1, <2>2 DEF FileInStep
<1> QED BY <1>1, <1>2, <1>3

LEMMA WorkerKept ==
    ASSUME TypeOK, NEW w \in Workers, worker[w].at \in BusyPlaces, worker'[w] = worker[w],
           WorkerAhead(w), NEW d \in {0, 1}, SameFrames(worker[w].file, d),
           stream'[worker[w].file] = stream[worker[w].file],
           worker[w].file \in outcomes' => worker[w].file \in outcomes,
           \A v \in Workers \ {w}: worker'[v].file # worker[w].file,
           \A i \in 1..Len(jobs'): jobs'[i] # worker[w].file
    PROVE  WorkerAhead(w)'
<1> DEFINE f == worker[w].file
<1>1. f \in Files
  BY DEF TypeOK, SenderTypeOK, WorkerState, BusyPlaces, IdlePlaces
<1>2. Taken(f)' = Taken(f) /\ \A n: Covered(f, n) => Covered(f, n)'
  BY <1>1, FileKept
<1>3. Sent(w)' = Sent(w)
  BY DEF Sent, Chunks
<1>4. \A i \in 1..Len(toReceiver'): About(toReceiver'[i], f) =>
         toReceiver'[i].type = "content" /\ toReceiver'[i].offset < Sent(w)
  BY DEF WorkerAhead, SameFrames
<1> QED BY <1>2, <1>3, <1>4 DEF WorkerAhead, Chunks

LEMMA JobKept ==
    ASSUME TypeOK, UNCHANGED jobs, NEW i \in 1..Len(jobs), JobUntouched(i), NEW d \in {0, 1},
           SameFrames(jobs[i], d), stream'[jobs[i]] = stream[jobs[i]],
           jobs[i] \in outcomes' => jobs[i] \in outcomes
    PROVE  JobUntouched(i)'
BY DEF JobUntouched, SameFrames

\* A step that touches no frame, stream, outcome, worker or job.
LEMMA QuietStep ==
    ASSUME TypeOK, InStep, UNCHANGED <<toReceiver, stream, outcomes, worker, jobs>>,
           link' = "up" => link = "up", Phases'
    PROVE  InStep'
<1>1. \A f: SameFrames(f, 0)
  BY SameIfUntouched
<1>2. \A f \in Files: FileInStep(f)'
  BY <1>1, FileKept DEF InStep
<1>3. ASSUME link' = "up", NEW w \in Workers, worker'[w].at \in BusyPlaces PROVE WorkerAhead(w)'
  BY <1>1, <1>3, WorkerKept DEF InStep, WorkerAhead
<1>4. ASSUME link' = "up", NEW i \in 1..Len(jobs') PROVE JobUntouched(i)'
  BY <1>1, <1>4, JobKept DEF InStep
<1> QED BY <1>2, <1>3, <1>4 DEF InStep
---------------------------------------------------------------------------
(* The file workers                                                        *)

LEMMA BusyWorker ==
    ASSUME TypeOK, NEW w \in Workers
    PROVE  /\ worker[w].at \in BusyPlaces =>
                /\ worker[w].file \in Files /\ worker[w].offset \in Nat
                /\ worker[w].buffer \in Nat /\ worker[w].hashed \in Seq(Nat)
           /\ worker[w].at \notin BusyPlaces => worker[w].file = 0
           /\ worker \in [Workers -> WorkerState]
BY DEF TypeOK, SenderTypeOK, WorkerState, BusyPlaces, IdlePlaces

\* A frame of f is written behind chunks that come before it.
LEMMA FileWritten ==
    ASSUME TypeOK, NEW f \in Files, FileInStep(f), link = "up", NEW frame \in ReceiverFrames,
           SendToReceiver(frame), UNCHANGED <<stream, outcomes>>, About(frame, f), Expected(frame, f),
           \A i \in 1..Len(toReceiver): About(toReceiver[i], f) =>
                /\ toReceiver[i].type = "content"
                /\ frame.type = "content" => toReceiver[i].offset < frame.offset
    PROVE  /\ FileInStep(f)' /\ Taken(f)' = Taken(f)
           /\ \A n: Covered(f, n) => Covered(f, n)'
           /\ \A i \in 1..Len(toReceiver'):
                toReceiver'[i] = frame \/ (i \in 1..Len(toReceiver) /\ toReceiver'[i] = toReceiver[i])
           /\ \E i \in 1..Len(toReceiver'): toReceiver'[i] = frame
<1>1. /\ Len(toReceiver) \in Nat /\ Len(toReceiver') = Len(toReceiver) + 1
      /\ \A i \in 1..Len(toReceiver): i \in 1..Len(toReceiver') /\ toReceiver'[i] = toReceiver[i]
      /\ toReceiver'[Len(toReceiver')] = frame
  BY DEF TypeOK, WireTypeOK, SendToReceiver
<1>2. \A i \in 1..Len(toReceiver'):
         \/ i = Len(toReceiver') /\ toReceiver'[i] = frame
         \/ i \in 1..Len(toReceiver) /\ toReceiver'[i] = toReceiver[i]
  BY <1>1
<1>3. \E i \in 1..Len(toReceiver'): toReceiver'[i] = frame
  <2>1. Len(toReceiver') \in 1..Len(toReceiver')
    BY <1>1
  <2> QED BY <1>1, <2>1
<1>4. Taken(f)' = Taken(f)
  BY DEF Taken
<1>5. \A n: Covered(f, n) => Covered(f, n)'
  BY <1>1, <1>4 DEF Covered
<1>6. InOrder(f)'
  <2> SUFFICES ASSUME NEW i \in 1..Len(toReceiver'), NEW j \in 1..Len(toReceiver'), i < j,
                      About(toReceiver'[i], f), About(toReceiver'[j], f)
               PROVE  /\ toReceiver'[i].type = "content"
                      /\ toReceiver'[j].type = "content" => toReceiver'[i].offset < toReceiver'[j].offset
    BY DEF InOrder
  <2>1. i # Len(toReceiver')
    OBVIOUS
  <2> QED BY <1>2, <2>1 DEF FileInStep, InOrder
<1>7. \A i \in 1..Len(toReceiver'): About(toReceiver[i], f)' => Expected(toReceiver[i], f)'
  <2> SUFFICES ASSUME NEW i \in 1..Len(toReceiver'), About(toReceiver'[i], f)
               PROVE  Expected(toReceiver[i], f)'
    OBVIOUS
  <2>1. CASE toReceiver'[i] = frame
    BY <1>4, <1>5, <2>1 DEF Expected
  <2>2. CASE i \in 1..Len(toReceiver) /\ toReceiver'[i] = toReceiver[i]
    <3>1. Expected(toReceiver[i], f)
      BY <2>2 DEF FileInStep
    <3> QED BY <1>4, <1>5, <2>2, <3>1 DEF Expected
  <2> QED BY <1>2, <2>1, <2>2
<1>8. FileInStep(f)'
  BY <1>6, <1>7 DEF FileInStep
<1> QED BY <1>2, <1>3, <1>4, <1>5, <1>8

\* Worker w goes on with its file or drops it, and touches no other.
LEMMA WorkerMoves ==
    ASSUME TypeOK, InStep, link = "up", NEW w \in Workers, worker[w].at \in BusyPlaces,
           NEW h \in Files, h = worker[w].file, NEW x, worker' = [worker EXCEPT ![w] = x], x.file \in {0, h},
           UNCHANGED <<stream, outcomes, jobs>>, \A g: g # h => SameFrames(g, 0),
           FileInStep(h)', x.at \in BusyPlaces => WorkerAhead(w)'
    PROVE  /\ \A f \in Files: FileInStep(f)'
           /\ \A v \in Workers: worker'[v].at \in BusyPlaces => WorkerAhead(v)'
           /\ \A i \in 1..Len(jobs'): JobUntouched(i)'
<1>1. worker[w].file \in Files /\ WorkerAhead(w)
  BY BusyWorker DEF InStep
<1>2. ASSUME NEW f \in Files, f # h PROVE FileInStep(f)'
  <2>1. SameFrames(f, 0) /\ FileInStep(f)
    BY <1>2 DEF InStep
  <2> QED BY <2>1, FileKept
<1>3. ASSUME NEW v \in Workers, worker'[v].at \in BusyPlaces PROVE WorkerAhead(v)'
  <2>1. CASE v = w
    BY <1>3, <2>1, BusyWorker
  <2>2. CASE v # w
    <3>1. worker'[v] = worker[v] /\ worker[v].file \in Files /\ WorkerAhead(v)
      BY <1>3, <2>2, BusyWorker DEF InStep
    <3>2. worker[v].file # worker[w].file /\ worker[v].file # 0
      BY <2>2, <3>1, FileFacts DEF WorkerAhead
    <3>3. \A u \in Workers \ {v}: worker'[u].file # worker[v].file
      <4>1. ASSUME NEW u \in Workers \ {v} PROVE worker'[u].file # worker[v].file
        <5>1. CASE u = w
          BY <3>2, <5>1, BusyWorker
        <5>2. CASE u # w
          BY <3>1, <5>2, BusyWorker DEF WorkerAhead
        <5> QED BY <5>1, <5>2
      <4> QED BY <4>1
    <3>4. \A i \in 1..Len(jobs'): jobs'[i] # worker[v].file
      BY <3>1 DEF WorkerAhead
    <3>5. SameFrames(worker[v].file, 0)
      BY <3>2
    <3> QED BY <1>3, <3>1, <3>3, <3>4, <3>5, WorkerKept
  <2> QED BY <2>1, <2>2
<1>4. ASSUME NEW i \in 1..Len(jobs') PROVE JobUntouched(i)'
  <2>1. jobs[i] # worker[w].file
    BY <1>1, <1>4 DEF WorkerAhead
  <2>2. SameFrames(jobs[i], 0) /\ JobUntouched(i)
    BY <1>4, <2>1 DEF InStep
  <2> QED BY <1>4, <2>2, JobKept
<1> QED BY <1>2, <1>3, <1>4

LEMMA JobTaken ==
    ASSUME TypeOK, InStep, link = "up", NEW w \in Workers, TakeJob(w), UNCHANGED receiverVars
    PROVE  /\ \A f \in Files: FileInStep(f)'
           /\ \A v \in Workers: worker'[v].at \in BusyPlaces => WorkerAhead(v)'
           /\ \A i \in 1..Len(jobs'): JobUntouched(i)'
<1>0. /\ UNCHANGED <<toReceiver, stream, outcomes>> /\ worker[w].at \notin BusyPlaces
      /\ worker[w].file = 0 /\ worker \in [Workers -> WorkerState] /\ jobs \in Seq(Files)
  <2>1. worker[w].at \notin BusyPlaces
    BY DEF TakeJob, BusyPlaces
  <2> QED BY <2>1, BusyWorker DEF TakeJob, receiverVars, TypeOK, SenderTypeOK
<1>1. \A f: SameFrames(f, 0)
  BY <1>0, SameIfUntouched
<1>2. \A f \in Files: FileInStep(f)'
  BY <1>0, <1>1, FileKept DEF InStep
<1>3. ASSUME NEW v \in Workers, v # w, worker'[v].at \in BusyPlaces,
             worker'[w].file # worker[v].file, \A i \in 1..Len(jobs'): jobs'[i] # worker[v].file
      PROVE  WorkerAhead(v)'
  <2>1. \A u \in Workers: u # w => worker'[u] = worker[u]
    BY <1>0 DEF TakeJob, Drops
  <2>2. WorkerAhead(v)
    BY <1>3, <2>1 DEF InStep
  <2>3. \A u \in Workers \ {v}: worker'[u].file # worker[v].file
    BY <1>3, <2>1, <2>2 DEF WorkerAhead
  <2> QED BY <1>0, <1>1, <1>3, <2>1, <2>2, <2>3, WorkerKept
<1>4. CASE jobs = << >>
  <2>1. worker'[w] = IdleWorker("exit") /\ UNCHANGED jobs
    BY <1>0, <1>4 DEF TakeJob, Drops
  <2>2. worker'[w].at \notin BusyPlaces /\ worker'[w].file = 0
    BY <2>1 DEF IdleWorker, Worker, BusyPlaces
  <2>3. ASSUME NEW v \in Workers, worker'[v].at \in BusyPlaces PROVE WorkerAhead(v)'
    <3>1. v # w /\ worker'[v] = worker[v]
      BY <1>0, <1>4, <2>2, <2>3 DEF TakeJob, Drops
    <3>2. worker[v].file \in Files /\ worker[v].file # 0
      BY <2>3, <3>1, BusyWorker, FileFacts
    <3> QED BY <1>3, <1>4, <2>1, <2>2, <2>3, <3>1, <3>2
  <2>4. \A i \in 1..Len(jobs'): JobUntouched(i)'
    BY <1>4, <2>1
  <2> QED BY <1>2, <2>3, <2>4
<1>5. CASE jobs # << >>
  <2>a. Head(jobs) \in Files
    BY <1>0, <1>5
  <2> PICK h \in Files: h = Head(jobs)
    BY <2>a
  <2>1. /\ worker'[w].at \in {"barrier", "open"} /\ worker'[w].file = h /\ worker'[w].offset = 0
        /\ jobs' = Tail(jobs)
    BY <1>0, <1>5 DEF TakeJob, Worker
  <2>2. /\ 1 \in 1..Len(jobs) /\ h = jobs[1] /\ h \in Files
        /\ \A i \in 1..Len(jobs'): i + 1 \in 1..Len(jobs) /\ i + 1 # 1 /\ jobs'[i] = jobs[i + 1]
        /\ \A i \in 1..Len(jobs), j \in 1..Len(jobs'): i = j + 1 => j = i - 1
    BY <1>0, <1>5, <2>1
  <2>3. \A i \in 1..Len(jobs'): jobs'[i] # h
    BY <2>2 DEF InStep, JobUntouched
  <2>4. ASSUME NEW v \in Workers, v # w PROVE worker'[v] = worker[v] /\ worker[v].file # h
    <3>1. worker'[v] = worker[v]
      BY <1>0, <1>5, <2>4 DEF TakeJob
    <3>2. CASE worker[v].at \in BusyPlaces
      BY <2>2, <3>1, <3>2 DEF InStep, WorkerAhead
    <3>3. CASE worker[v].at \notin BusyPlaces
      BY <2>2, <3>1, <3>3, BusyWorker, FileFacts
    <3> QED BY <3>1, <3>2, <3>3
  <2>5. WorkerAhead(w)'
    <3>1. h \notin outcomes' /\ ~stream'[h].open /\ \A j \in 1..Len(toReceiver'): ~About(toReceiver'[j], h)
      BY <1>0, <2>2 DEF InStep, JobUntouched
    <3>2. Taken(h)' = 0 /\ Sent(w)' = 0
      BY <2>1, <3>1 DEF Taken, Sent
    <3>3. Covered(h, 0)'
      BY <3>2 DEF Covered
    <3>4. \A v \in Workers \ {w}: worker'[v].file # h
      BY <2>4
    <3> QED BY <2>1, <2>3, <3>1, <3>2, <3>3, <3>4 DEF WorkerAhead
  <2>6. ASSUME NEW v \in Workers, worker'[v].at \in BusyPlaces PROVE WorkerAhead(v)'
    <3>1. CASE v = w
      BY <2>5, <3>1
    <3>2. CASE v # w
      <4>1. \A i \in 1..Len(jobs'): jobs'[i] # worker[v].file
        BY <2>2, <2>4, <2>6, <3>2 DEF InStep, WorkerAhead
      <4> QED BY <1>3, <2>1, <2>4, <2>6, <3>2, <4>1
    <3> QED BY <3>1, <3>2
  <2>7. ASSUME NEW i \in 1..Len(jobs') PROVE JobUntouched(i)'
    <3>1. JobUntouched(i + 1) /\ jobs'[i] = jobs[i + 1]
      BY <2>2, <2>7 DEF InStep
    <3>2. ASSUME NEW j \in 1..Len(jobs'), jobs'[j] = jobs'[i] PROVE j = i
      <4>1. j + 1 = i + 1
        BY <2>2, <3>1, <3>2 DEF JobUntouched
      <4> QED BY <4>1
    <3> QED BY <1>0, <3>1, <3>2 DEF JobUntouched
  <2> QED BY <1>2, <2>6, <2>7
<1> QED BY <1>4, <1>5
\* A worker that writes nothing stays as far ahead as it was.
LEMMA WorkerQuiet ==
    ASSUME TypeOK, InStep, link = "up", NEW w \in Workers, ~outgoingCanceled, UNCHANGED receiverVars,
           PassBarrier(w) \/ OpenSource(w) \/ ReadChunk(w)
    PROVE  /\ \A f \in Files: FileInStep(f)'
           /\ \A v \in Workers: worker'[v].at \in BusyPlaces => WorkerAhead(v)'
           /\ \A i \in 1..Len(jobs'): JobUntouched(i)'
<1>1. /\ UNCHANGED <<toReceiver, stream, outcomes, jobs>> /\ worker[w].at \in BusyPlaces
  BY DEF PassBarrier, OpenSource, ReadChunk, receiverVars, BusyPlaces
<1> PICK f \in Files: f = worker[w].file
  BY <1>1, BusyWorker
<1>2. PICK place, d, h:
         /\ place \in {"open", "read", "send", "failed"}
         /\ worker' = [worker EXCEPT ![w] = Worker(place, f, worker[w].offset, d, h)]
         /\ \/ worker[w].at = "barrier" /\ place = "open"
            \/ worker[w].at = "open" /\ place \in {"read", "failed"}
            \/ worker[w].at = "read" /\ place \in {"send", "failed"}
  BY DEF PassBarrier, OpenSource, ReadChunk, Continues
<1> DEFINE x == Worker(place, f, worker[w].offset, d, h)
<1>3. worker'[w] = x /\ x.file = f /\ x.at = place /\ x.offset = worker[w].offset
  BY <1>2, BusyWorker DEF Worker
<1>4. \A g: SameFrames(g, 0)
  BY <1>1, SameIfUntouched
<1>5. /\ Taken(f)' = Taken(f) /\ \A n: Covered(f, n) => Covered(f, n)'
      /\ FileInStep(f)'
  BY <1>1, <1>4, FileKept DEF InStep
<1>6. WorkerAhead(w)
  BY <1>1 DEF InStep
<1>7. Sent(w)' = worker[w].offset /\ Sent(w) = worker[w].offset
  BY <1>2, <1>3 DEF Sent
<1>8. place \in {"read", "send"} => worker[w].offset < Chunks(f)
  BY <1>2, <1>6, FileFacts DEF WorkerAhead
<1>9. place = "open" => worker[w].offset = 0
  BY <1>2, <1>6 DEF WorkerAhead
<1>10. \A v \in Workers \ {w}: worker'[v].file # f
  BY <1>2, <1>6, BusyWorker DEF WorkerAhead
<1>11. WorkerAhead(w)'
  <2>1. \A i \in 1..Len(toReceiver'): About(toReceiver'[i], f) =>
            toReceiver'[i].type = "content" /\ toReceiver'[i].offset < Sent(w)
    BY <1>1, <1>6 DEF WorkerAhead
  <2>2. f \notin outcomes' /\ \A i \in 1..Len(jobs'): jobs'[i] # f
    BY <1>1, <1>6 DEF WorkerAhead
  <2>3. Taken(f)' <= Sent(w)' /\ Covered(f, Sent(w))'
    <3>1. Taken(f) <= worker[w].offset /\ Covered(f, worker[w].offset)
      BY <1>6, <1>7 DEF WorkerAhead
    <3>2. PICK n: n = worker[w].offset
      OBVIOUS
    <3>3. Covered(f, n)' /\ Sent(w)' = n
      BY <1>5, <1>7, <3>1, <3>2
    <3> QED BY <1>5, <1>7, <3>1, <3>3 DEF Covered
  <2> HIDE DEF x
  <2> QED BY <1>2, <1>3, <1>7, <1>8, <1>9, <1>10, <2>1, <2>2, <2>3 DEF WorkerAhead, Chunks
<1>12. x.file \in {0, f} /\ worker' = [worker EXCEPT ![w] = x]
  BY <1>2, <1>3
<1> HIDE DEF x
<1> QED BY <1>1, <1>4, <1>5, <1>11, <1>12, WorkerMoves
\* A worker writes its next chunk, or the last frame of its file.
LEMMA WorkerSends ==
    ASSUME TypeOK, InStep, link = "up", NEW w \in Workers, ~outgoingCanceled, UNCHANGED receiverVars,
           SendChunk(w) \/ SendComplete(w) \/ SendFileFailed(w)
    PROVE  /\ \A f \in Files: FileInStep(f)'
           /\ \A v \in Workers: worker'[v].at \in BusyPlaces => WorkerAhead(v)'
           /\ \A i \in 1..Len(jobs'): JobUntouched(i)'
<1>1. /\ UNCHANGED <<stream, outcomes, jobs>> /\ worker[w].at \in BusyPlaces
  BY DEF SendChunk, SendComplete, SendFileFailed, receiverVars, BusyPlaces
<1> PICK f \in Files: f = worker[w].file
  BY <1>1, BusyWorker
<1>2. WorkerAhead(w) /\ FileInStep(f)
  BY <1>1 DEF InStep
<1>3. /\ worker[w].offset \in Nat /\ worker[w].buffer \in Nat /\ worker[w].hashed \in Seq(Nat)
      /\ Chunks(f) \in Nat \ {0} /\ Size[f] \in Nat
  BY <1>1, BusyWorker, FileFacts
<1>4. ASSUME NEW frame \in ReceiverFrames, About(frame, f), SendToReceiver(frame)
      PROVE  \A g: g # f => SameFrames(g, 0)
  <2>1. \A g: g # f => ~About(frame, g)
    BY <1>4 DEF About
  <2> QED BY <1>4, <2>1, SameIfOthersWritten
<1>5. CASE SendChunk(w)
  <2> DEFINE o == worker[w].offset
             frame == ContentFrame(f, o, ChunkBytes(f), worker[w].buffer)
             next == o + ChunkBytes(f)
             x == Worker(IF next < Size[f] THEN "read" ELSE "complete", f, next, 0, worker[w].hashed)
  <2>1. /\ SendToReceiver(frame) /\ worker' = [worker EXCEPT ![w] = x] /\ worker[w].at = "send"
    BY <1>5 DEF SendChunk, ChunkSent
  <2>2. frame \in ReceiverFrames
    BY <1>3, ReceiverFrameTypes DEF ChunkBytes
  <2>3. /\ About(frame, f) /\ IsChunk(frame, f, o) /\ frame.type = "content"
        /\ frame.offset = o /\ frame.size = ChunkBytes(f)
    BY DEF About, IsChunk, ContentFrame
  <2>4. /\ o < Chunks(f) /\ Taken(f) <= o /\ Covered(f, o) /\ f \notin outcomes
        /\ \A i \in 1..Len(toReceiver): About(toReceiver[i], f) =>
              toReceiver[i].type = "content" /\ toReceiver[i].offset < o
    BY <1>2, <2>1 DEF WorkerAhead, Sent
  <2>5. Expected(frame, f)
    <3>1. o >= Taken(f)
      BY <1>3, <2>4, FileFacts
    <3> HIDE DEF o, frame
    <3> QED BY <2>3, <2>4, <3>1 DEF Expected
  <2>6. x.file = f /\ x.at \in {"read", "complete"} /\ x.offset = next
        /\ (x.at = "read" <=> next < Size[f]) /\ worker'[w] = x
    BY <2>1, BusyWorker DEF Worker
  <2>7. Sent(w)' = o + 1 /\ (x.at = "read" => x.offset < Chunks(f) /\ x.offset = o + 1)
    <3>1. CASE Size[f] = 0
      BY <1>3, <2>4, <2>6, <3>1 DEF Sent, Chunks, ChunkBytes
    <3>2. CASE Size[f] # 0
      BY <1>3, <2>4, <2>6, <3>2 DEF Sent, Chunks, ChunkBytes
    <3> QED BY <3>1, <3>2
  <2> HIDE DEF x, frame, next
  <2>8. /\ FileInStep(f)' /\ Taken(f)' = Taken(f)
        /\ \A n: Covered(f, n) => Covered(f, n)'
        /\ \A i \in 1..Len(toReceiver'):
              toReceiver'[i] = frame \/ (i \in 1..Len(toReceiver) /\ toReceiver'[i] = toReceiver[i])
        /\ \E i \in 1..Len(toReceiver'): toReceiver'[i] = frame
    BY <1>1, <1>2, <2>1, <2>2, <2>3, <2>4, <2>5, FileWritten
  <2>9. WorkerAhead(w)'
    <3>1. PICK n \in Nat: n = o
      BY <1>3
    <3>2. Covered(f, n + 1)'
      <4> SUFFICES ASSUME NEW k \in Taken(f)..n
                   PROVE  \E j \in 1..Len(toReceiver'): IsChunk(toReceiver'[j], f, k)
        BY <2>8, <3>1, FileFacts DEF Covered
      <4>1. CASE k = n
        BY <2>3, <2>8, <3>1, <4>1
      <4>2. CASE k # n
        <5>1. k \in Taken(f)'..(n - 1)
          BY <2>8, <4>2, FileFacts
        <5>2. Covered(f, n)'
          BY <2>4, <2>8, <3>1
        <5> QED BY <5>1, <5>2 DEF Covered
      <4> QED BY <4>1, <4>2
    <3>3. Sent(w)' = n + 1 /\ Covered(f, Sent(w))'
      BY <2>7, <3>1, <3>2 DEF Covered
    <3>4. Taken(f)' <= Sent(w)'
      BY <1>3, <2>4, <2>7, <2>8, FileFacts
    <3>5. \A i \in 1..Len(toReceiver'): About(toReceiver'[i], f) =>
            toReceiver'[i].type = "content" /\ toReceiver'[i].offset < Sent(w)'
      <4>1. \A i \in 1..Len(toReceiver): About(toReceiver[i], f) => toReceiver[i].offset \in Nat
        <5>1. \A m \in ReceiverFrames: m.type = "content" => m.offset \in Nat
          BY DEF ReceiverFrames
        <5>2. \A i \in 1..Len(toReceiver): toReceiver[i] \in ReceiverFrames
          BY DEF TypeOK, WireTypeOK
        <5> QED BY <2>4, <5>1, <5>2
      <4>2. \A a \in Nat: a < o => a < o + 1
        BY <1>3
      <4>3. o < o + 1
        BY <1>3
      <4> QED BY <2>3, <2>4, <2>7, <2>8, <4>1, <4>2, <4>3
    <3>6. f \notin outcomes' /\ \A i \in 1..Len(jobs'): jobs'[i] # f
      BY <1>1, <1>2 DEF WorkerAhead
    <3>7. \A v \in Workers \ {w}: worker'[v].file # f
      BY <1>2, <2>1, BusyWorker DEF WorkerAhead
    <3> QED BY <2>6, <2>7, <3>3, <3>4, <3>5, <3>6, <3>7 DEF WorkerAhead, Chunks
  <2>10. \A g: g # f => SameFrames(g, 0)
    BY <1>4, <2>1, <2>2, <2>3
  <2>11. x.file \in {0, f}
    BY <2>6
  <2> QED BY <1>1, <2>1, <2>8, <2>9, <2>10, <2>11, WorkerMoves
<1>6. ASSUME NEW frame \in ReceiverFrames, About(frame, f), frame.type # "content", SendToReceiver(frame),
             frame.type = "complete" => worker[w].at = "complete", Drops(w, "next")
      PROVE  /\ \A g \in Files: FileInStep(g)'
             /\ \A v \in Workers: worker'[v].at \in BusyPlaces => WorkerAhead(v)'
             /\ \A i \in 1..Len(jobs'): JobUntouched(i)'
  <2>1. /\ f \notin outcomes /\ Covered(f, Sent(w))
        /\ \A i \in 1..Len(toReceiver): About(toReceiver[i], f) => toReceiver[i].type = "content"
    BY <1>2 DEF WorkerAhead
  <2>2. frame.type = "complete" => Covered(f, Chunks(f))
    BY <1>6, <2>1 DEF Sent
  <2>3. Expected(frame, f)
    BY <1>6, <2>1, <2>2 DEF Expected
  <2>4. FileInStep(f)'
    BY <1>1, <1>2, <1>6, <2>1, <2>3, FileWritten
  <2>5. \A g: g # f => SameFrames(g, 0)
    BY <1>4, <1>6
  <2> DEFINE x == IdleWorker("next")
  <2>6. worker' = [worker EXCEPT ![w] = x] /\ x.file \in {0, f} /\ x.at \notin BusyPlaces
    BY <1>6 DEF Drops, IdleWorker, Worker, BusyPlaces
  <2> HIDE DEF x
  <2> QED BY <1>1, <2>4, <2>5, <2>6, WorkerMoves
<1>7. CASE SendComplete(w)
  <2> DEFINE ok == StatUnchanged(source[f]) /\ worker[w].hashed = Approved(f)
             frame == CompleteFrame(f, worker[w].hashed, ok)
  <2>1. /\ SendToReceiver(frame) /\ worker[w].at = "complete" /\ Drops(w, "next")
    BY <1>7 DEF SendComplete
  <2>2. frame \in ReceiverFrames
    <3>1. ok \in BOOLEAN
      BY DEF StatUnchanged
    <3> QED BY <1>3, <3>1, ReceiverFrameTypes
  <2>3. About(frame, f) /\ frame.type = "complete"
    BY DEF About, CompleteFrame
  <2> HIDE DEF frame
  <2> QED BY <1>6, <2>1, <2>2, <2>3
<1>8. CASE SendFileFailed(w)
  <2>1. SendToReceiver(FileFailedFrame(f)) /\ Drops(w, "next")
    BY <1>8 DEF SendFileFailed
  <2>2. /\ FileFailedFrame(f) \in ReceiverFrames
        /\ About(FileFailedFrame(f), f) /\ FileFailedFrame(f).type = "file-failed"
    BY ReceiverFrameTypes DEF About, FileFailedFrame
  <2> QED BY <1>6, <2>1, <2>2
<1> QED BY <1>5, <1>7, <1>8

\* What the places of the two Peers say, as long as a worker runs.
LEMMA WorkerInStep ==
    ASSUME TypeOK, AccountInv, InStep, ~outgoingCanceled, NEW w \in Workers, SenderWorks(w)
    PROVE  InStep'
<1>0. /\ WorkerStep(w) /\ UNCHANGED receiverVars /\ ~senderEnded /\ worker[w].at # "exit"
      /\ UNCHANGED <<stream, outcomes, incoming, review, run, decisionCh, toSender, link>>
  BY DEF SenderWorks, WorkerStep, TakeJob, PassBarrier, OpenSource, ReadChunk, SendChunk, SendComplete,
         SendFileFailed, WorkerUnchanged, receiverVars
<1>1. run \in {"starting", "collect"}
  BY <1>0 DEF InStep, Phases
<1>2. ~BatchOnTheWay'
  <2>1. BatchOnTheWay' => BatchOnTheWay
    BY <1>0, WorkerWrites, NoNewBatch DEF TypeOK
  <2> QED BY <1>1, <2>1 DEF AccountInv, BatchIsAnnounced, CountedAll
<1>3. link # "up" => UNCHANGED toReceiver
  BY <1>0 DEF WorkerStep, TakeJob, PassBarrier, OpenSource, ReadChunk, SendChunk, SendComplete,
              SendFileFailed, SendToReceiver
<1>4. Phases'
  BY <1>0, <1>1, <1>2, <1>3 DEF InStep, Phases, AcceptanceOnTheWay
<1>5. CASE link # "up"
  <2>1. \A f: SameFrames(f, 0)
    BY <1>3, <1>5, SameIfUntouched
  <2>2. \A f \in Files: FileInStep(f)'
    BY <1>0, <2>1, FileKept DEF InStep
  <2> QED BY <1>0, <1>4, <1>5, <2>2 DEF InStep
<1>6. CASE link = "up"
  BY <1>0, <1>4, <1>6, JobTaken, WorkerQuiet, WorkerSends DEF InStep, WorkerStep
<1> QED BY <1>5, <1>6
---------------------------------------------------------------------------
(* runOutgoing                                                             *)

\* runOutgoing writes batch-complete when every file has its outcome, so no
\* frame of a file is on the wire any more.
LEMMA BatchIsOver ==
    ASSUME TypeOK, PublicationInv, AccountInv, CancellationInv, InStep, ~outgoingCanceled,
           run = "collect", succeeded + failed >= FileCount
    PROVE  outcomes = Files /\ toReceiver = << >>
<1>1. outcomes = Files
  <2>1. /\ succeeded \in Nat /\ failed \in Nat /\ completedFile \in Nat /\ failedFile \in Nat
        /\ FileCount \in Nat /\ Uncounted("ok") \in Nat /\ Uncounted("failed") \in Nat
    BY UncountedTerms, FileCountAssumption DEF TypeOK, SenderTypeOK, ReceiverTypeOK, Verdicts
  <2>2. /\ succeeded + Uncounted("ok") <= completedFile /\ failed + Uncounted("failed") <= failedFile
        /\ Cardinality(outcomes) = completedFile + failedFile
    BY DEF AccountInv, Tallied, PublicationInv, OutcomesAreFinal
  <2>3. outcomes \in SUBSET Files
    BY DEF TypeOK, ReceiverTypeOK
  <2>4. Cardinality(outcomes) <= Cardinality(Files)
    BY <2>3, FinitelyManyFiles, FS_Subset
  <2>5. Cardinality(outcomes) = FileCount
    BY <2>1, <2>2, <2>3, <2>4, FinitelyManyFiles
  <2> QED BY <2>3, <2>5, FinitelyManyFiles
<1>2. ASSUME toReceiver # << >> PROVE FALSE
  <2>1. 1 \in 1..Len(toReceiver) /\ toReceiver[1] \in ReceiverFrames
    BY <1>2 DEF TypeOK, WireTypeOK
  <2>2. toReceiver[1].type # "batch-complete"
    BY <2>1 DEF AccountInv, BatchIsAnnounced, BatchOnTheWay, CountedAll
  <2>3. toReceiver[1].type # "cancel"
    BY <2>1 DEF CancellationInv, CancelIsFlagged
  <2>4. About(toReceiver[1], toReceiver[1].file) /\ toReceiver[1].file \in Files
    BY <2>1, <2>2, <2>3 DEF ReceiverFrames, About
  <2> QED BY <1>1, <2>1, <2>4 DEF InStep, FileInStep, Expected
<1> QED BY <1>1, <1>2

LEMMA SenderRunsInStep ==
    ASSUME TypeOK, PublicationInv, AccountInv, CancellationInv, AnswersInOrder, FrameInv,
           ~outgoingCanceled, SenderRuns
    PROVE  InStep'
<1>0. InStep /\ UNCHANGED <<stream, outcomes, incoming, review, toSender, link>>
  BY DEF FrameInv, SenderRuns, RunOutgoing, TakeDecision, ReleaseWorkers, CollectResult, CompleteBatch,
         FinishOutgoing, receiverVars, wireVars
<1>1. CASE TakeDecision /\ run' = "starting"
  <2>1. /\ run = "decision" /\ decisionCh = "accept" /\ decisionCh' = "none" /\ UNCHANGED toReceiver
        /\ jobs' = [i \in 1..FileCount |-> i]
        /\ \A w \in Workers: worker'[w].at \in {"start", "exit"}
    BY <1>1 DEF TakeDecision, IdleWorker, Worker, wireVars
  <2>2. /\ toReceiver = << >> /\ outcomes = {} /\ \A f \in Files: ~stream[f].open
        /\ link = "up" => incoming = "accepted"
    BY <1>0, <2>1 DEF InStep, Phases, OpenStreams, AcceptanceOnTheWay
  <2>3. \A f \in Files: FileInStep(f)'
    BY <1>0, <2>1, <2>2 DEF FileInStep, InOrder
  <2>4. \A w \in Workers: worker'[w].at \notin BusyPlaces
    BY <2>1 DEF BusyPlaces
  <2>5. \A i \in 1..Len(jobs'): JobUntouched(i)'
    <3>1. Len(jobs') = FileCount /\ \A i \in 1..FileCount: jobs'[i] = i /\ i \in Files
      BY <2>1, FileCountAssumption DEF Files
    <3>2. Len(toReceiver') = 0
      BY <2>1, <2>2
    <3> QED BY <1>0, <2>2, <3>1, <3>2 DEF JobUntouched
  <2>6. Phases'
    BY <1>0, <1>1, <2>1, <2>2 DEF Phases, BatchOnTheWay
  <2> QED BY <2>3, <2>4, <2>5, <2>6 DEF InStep
<1>2. CASE TakeDecision /\ run' # "starting"
  <2>1. /\ run = "decision" /\ run' = "done" /\ decisionCh' = "none"
        /\ UNCHANGED <<toReceiver, worker, jobs>>
    BY <1>2 DEF TakeDecision, wireVars
  <2>2. Phases'
    BY <1>0, <2>1 DEF InStep, Phases, AcceptanceOnTheWay, BatchOnTheWay
  <2> QED BY <1>0, <2>1, <2>2, QuietStep
<1>3. CASE ReleaseWorkers \/ FinishOutgoing
  <2>1. /\ (run = "starting" /\ run' = "collect") \/ (run = "final" /\ run' = "done")
        /\ UNCHANGED <<toReceiver, worker, jobs, decisionCh>>
    BY <1>3 DEF ReleaseWorkers, FinishOutgoing, wireVars
  <2>2. Phases'
    BY <1>0, <2>1 DEF InStep, Phases, AcceptanceOnTheWay, BatchOnTheWay
  <2> QED BY <1>0, <2>1, <2>2, QuietStep
<1>4. CASE CollectResult
  <2> DEFINE r == Head(resultCh)
  <2>1. /\ UNCHANGED <<toSender, toReceiver, worker, jobs, decisionCh>> /\ resultCh # << >>
        /\ resultCh' = Tail(resultCh) /\ run' = (IF r.verdict = "canceled" THEN "done" ELSE run)
    BY <1>4 DEF CollectResult, wireVars
  <2>2. r \in Results /\ OnTheWay(r.file, r.verdict)
    BY <2>1, ResultTaken
  <2>3. r.verdict # "canceled"
    BY <2>2 DEF AccountInv, ClosedBeforeReported, Results, FrameInv, Flagged
  <2>4. UNCHANGED run
    BY <2>1, <2>3
  <2> HIDE DEF r
  <2>5. Phases'
    BY <1>0, <2>1, <2>4 DEF InStep, Phases, AcceptanceOnTheWay, BatchOnTheWay, OpenStreams
  <2> QED BY <1>0, <2>1, <2>5, QuietStep
<1>5. CASE CompleteBatch
  <2>1. /\ SendToReceiver(BatchCompleteFrame) /\ run = "collect" /\ run' = "final"
        /\ succeeded + failed >= FileCount /\ \A w \in Workers: worker[w].at = "exit"
        /\ UNCHANGED <<worker, jobs, decisionCh>>
    BY <1>5 DEF CompleteBatch
  <2>2. BatchCompleteFrame \in ReceiverFrames /\ BatchCompleteFrame.type = "batch-complete"
    BY ReceiverFrameTypes DEF BatchCompleteFrame
  <2>3. outcomes = Files /\ toReceiver = << >>
    BY <1>0, <2>1, BatchIsOver
  <2>4. \A f: SameFrames(f, 0)
    BY <2>1, <2>2, SameIfOthersWritten DEF About
  <2>5. \A f \in Files: FileInStep(f)'
    BY <1>0, <2>4, FileKept DEF InStep
  <2>6. \A w \in Workers: worker'[w].at \notin BusyPlaces
    BY <2>1 DEF BusyPlaces
  <2>7. ASSUME link' = "up", NEW i \in 1..Len(jobs') PROVE JobUntouched(i)'
    BY <1>0, <2>1, <2>4, <2>7, JobKept DEF InStep
  <2>8. Phases'
    <3>1. link = "up" => incoming = "accepted"
      BY <1>0, <2>1 DEF InStep, Phases
    <3>2. /\ toReceiver' # << >> => link = "up"
          /\ BatchOnTheWay' => Len(toReceiver') = 1
      BY <2>1, <2>3 DEF SendToReceiver, BatchOnTheWay
    <3> QED BY <1>0, <2>1, <2>3, <3>1, <3>2 DEF Phases
  <2> QED BY <2>5, <2>6, <2>7, <2>8 DEF InStep
<1> QED BY <1>1, <1>2, <1>3, <1>4, <1>5 DEF SenderRuns, RunOutgoing
---------------------------------------------------------------------------
(* The rest of the sending Peer                                            *)

LEMMA NoNewAcceptance ==
    ASSUME TypeOK,
           \/ /\ UNCHANGED toSender \/ toSender' = << >>
              /\ decisionCh' = "accept" => decisionCh = "accept"
           \/ /\ toSender # << >> /\ toSender' = Tail(toSender)
              /\ \/ decisionCh' = "accept" => decisionCh = "accept"
                 \/ /\ Head(toSender).type = "decision"
                    /\ decisionCh' = IF Head(toSender).accepted THEN "accept" ELSE "reject"
           \/ /\ decisionCh' = "accept" => decisionCh = "accept"
              /\ \E frame \in SenderFrames: /\ SendToSender(frame)
                                            /\ ~(frame.type = "decision" /\ frame.accepted)
    PROVE  AcceptanceOnTheWay' => AcceptanceOnTheWay
<1> USE DEF AcceptanceOnTheWay
<1>1. CASE toSender # << >> /\ toSender' = Tail(toSender)
  <2>1. /\ Head(toSender) = toSender[1] /\ 1 \in 1..Len(toSender)
        /\ \A i \in 1..Len(toSender'): i + 1 \in 1..Len(toSender) /\ toSender'[i] = toSender[i + 1]
    BY <1>1 DEF TypeOK, WireTypeOK
  <2>2. CASE decisionCh' = "accept" => decisionCh = "accept"
    BY <2>1, <2>2
  <2>3. CASE /\ Head(toSender).type = "decision"
             /\ decisionCh' = IF Head(toSender).accepted THEN "accept" ELSE "reject"
    BY <2>1, <2>3
  <2>4. CASE /\ UNCHANGED toSender \/ toSender' = << >>
             /\ decisionCh' = "accept" => decisionCh = "accept"
    BY <2>1, <2>4
  <2>5. CASE decisionCh' = "accept" => decisionCh = "accept"
    BY <2>1, <2>5
  <2> QED BY <2>2, <2>3, <2>4, <2>5
<1>2. CASE /\ UNCHANGED toSender \/ toSender' = << >>
           /\ decisionCh' = "accept" => decisionCh = "accept"
  BY <1>2
<1>3. ASSUME decisionCh' = "accept" => decisionCh = "accept",
             NEW frame \in SenderFrames, SendToSender(frame),
             ~(frame.type = "decision" /\ frame.accepted)
      PROVE  AcceptanceOnTheWay' => AcceptanceOnTheWay
  <2>1. \A i \in 1..Len(toSender'): toSender'[i] = frame
           \/ (i \in 1..Len(toSender) /\ toSender'[i] = toSender[i])
    BY <1>3 DEF SendToSender, TypeOK, WireTypeOK
  <2> QED BY <1>3, <2>1
<1> QED BY <1>1, <1>2, <1>3

LEMMA SenderInStep ==
    ASSUME TypeOK, PublicationInv, AccountInv, CancellationInv, AnswersInOrder, FrameInv,
           ~outgoingCanceled', ~outgoingCanceled,
           \/ \E f \in Files: SourceChanges(f)
           \/ SenderServes \/ SenderCancels \/ SenderSendsCancel \/ SenderEnds \/ LinkFails
    PROVE  InStep'
<1>0. InStep
  BY DEF FrameInv
<1>1. CASE (\E f \in Files: SourceChanges(f)) \/ LinkFails
  <2>1. /\ UNCHANGED <<toReceiver, stream, outcomes, worker, jobs>>
        /\ UNCHANGED <<run, decisionCh, toSender, incoming, review>>
        /\ link' = "up" => link = "up"
    BY <1>1 DEF SourceChanges, ChangeSource, LinkFails, LinkDown, wireVars, senderVars, receiverVars
  <2>2. Phases'
    BY <1>0, <2>1 DEF InStep, Phases, AcceptanceOnTheWay, BatchOnTheWay, OpenStreams
  <2> QED BY <1>0, <2>1, <2>2, QuietStep
<1>2. ~SenderCancels /\ ~SenderSendsCancel
  BY DEF SenderCancels, CancelOutgoing, SenderSendsCancel, SendCancel, CancellationInv, CancelIsFlagged
<1>3. CASE SenderServes
  <2>1. ~EndSender(TRUE)
    <3>1. ~senderError'
      BY <1>3, AnswersServed DEF AnswersInOrder, SenderEndsQuietly
    <3> QED BY <3>1 DEF EndSender
  <2>2. /\ UNCHANGED <<toReceiver, stream, outcomes, worker, jobs>>
        /\ UNCHANGED <<run, incoming, review, link>>
        /\ toSender # << >> /\ toSender' = Tail(toSender)
        /\ \/ UNCHANGED decisionCh
           \/ /\ Head(toSender).type = "decision"
              /\ decisionCh' = IF Head(toSender).accepted THEN "accept" ELSE "reject"
    BY <1>3, <2>1 DEF SenderServes, SenderServe, ServeDecision, ServeResult, ServePeerCancel, receiverVars
  <2>3. AcceptanceOnTheWay' => AcceptanceOnTheWay
    <3>1. UNCHANGED decisionCh => (decisionCh' = "accept" => decisionCh = "accept")
      OBVIOUS
    <3> QED BY <2>2, <3>1, NoNewAcceptance
  <2>4. Phases'
    BY <1>0, <2>2, <2>3 DEF InStep, Phases, BatchOnTheWay, OpenStreams
  <2> QED BY <1>0, <2>2, <2>4, QuietStep
<1>4. CASE SenderEnds
  <2>1. /\ UNCHANGED <<toReceiver, stream, outcomes, incoming>> /\ link' = "down"
        /\ run' \in {"done", "stopped"} /\ \A w \in Workers: worker'[w].at = "exit"
    BY <1>4 DEF SenderEnds, SenderLosesLink, EndSender, IdleWorker, Worker, receiverVars
  <2>2. \A f: SameFrames(f, 0)
    BY <2>1, SameIfUntouched
  <2>3. \A f \in Files: FileInStep(f)'
    BY <1>0, <2>1, <2>2, FileKept DEF InStep
  <2>4. Phases'
    BY <1>0, <2>1 DEF InStep, Phases, BatchOnTheWay
  <2> QED BY <2>1, <2>3, <2>4 DEF InStep
<1> QED BY <1>1, <1>2, <1>3, <1>4
---------------------------------------------------------------------------
(* The receiving Peer                                                      *)

LEMMA ReviewsInStep ==
    ASSUME TypeOK, AccountInv, InStep,
           ReceiverDecides \/ ReceiverReviews \/ ReceiverCancels \/ ReceiverSendsCancel
    PROVE  InStep'
<1>0. /\ UNCHANGED <<toReceiver, stream, outcomes, worker, jobs>>
      /\ UNCHANGED <<run, decisionCh, link>>
  BY DEF ReceiverDecides, ReceiverReviews, ReceiverCancels, ReceiverSendsCancel, AcceptOffer,
         RejectOffer, SendAcceptance, ClearRejected, CancelIncoming, SendCancelRequest, senderVars,
         wireVars
<1>a. ASSUME UNCHANGED toSender \/ \E frame \in SenderFrames:
                SendToSender(frame) /\ ~(frame.type = "decision" /\ frame.accepted)
      PROVE  AcceptanceOnTheWay' => AcceptanceOnTheWay
  BY <1>0, <1>a, NoNewAcceptance
<1>1. CASE ReceiverDecides /\ AcceptOffer
  <2>1. incoming' = "accepted"
    BY <1>1 DEF AcceptOffer
  <2>2. Phases'
    BY <1>0, <2>1 DEF InStep, Phases, BatchOnTheWay, OpenStreams
  <2> QED BY <1>0, <2>2, QuietStep
<1>2. CASE ReceiverDecides /\ RejectOffer
  <2>1. UNCHANGED incoming /\ review' = "rejecting" /\ SendToSender(DecisionFrame(FALSE))
    BY <1>2 DEF RejectOffer
  <2>2. DecisionFrame(FALSE) \in SenderFrames
    BY SenderFrameTypes
  <2>3. ~DecisionFrame(FALSE).accepted
    BY DEF DecisionFrame
  <2>4. AcceptanceOnTheWay' => AcceptanceOnTheWay
    BY <1>a, <2>1, <2>2, <2>3
  <2>5. Phases'
    BY <1>0, <2>1, <2>4 DEF InStep, Phases, BatchOnTheWay, OpenStreams
  <2> QED BY <1>0, <2>5, QuietStep
<1>3. CASE ReceiverReviews /\ SendAcceptance
  <2>1. UNCHANGED incoming /\ review = "accepting" /\ review' = "done"
    BY <1>3 DEF SendAcceptance
  <2>2. Phases'
    BY <1>0, <2>1 DEF InStep, Phases, BatchOnTheWay, OpenStreams
  <2> QED BY <1>0, <2>2, QuietStep
<1>4. CASE ReceiverReviews /\ ClearRejected
  <2>1. incoming' = "cleared" /\ review = "rejecting" /\ review' = "done" /\ UNCHANGED toSender
    BY <1>4 DEF ClearRejected, wireVars
  <2>2. incoming = "review"
    BY <2>1 DEF AccountInv, RejectionIsFinal
  <2>3. AcceptanceOnTheWay' => AcceptanceOnTheWay
    BY <1>a, <2>1
  <2>4. Phases'
    BY <1>0, <2>1, <2>2, <2>3 DEF InStep, Phases, BatchOnTheWay, OpenStreams
  <2> QED BY <1>0, <2>4, QuietStep
<1>5. CASE ReceiverCancels \/ ReceiverSendsCancel
  <2>1. UNCHANGED <<incoming, review>> /\ (UNCHANGED toSender \/ SendToSender(CancelFrame))
    BY <1>5 DEF ReceiverCancels, ReceiverSendsCancel, CancelIncoming, SendCancelRequest, wireVars
  <2>2. AcceptanceOnTheWay' => AcceptanceOnTheWay
    BY <1>a, <2>1, CancelFrameType
  <2>3. Phases'
    BY <1>0, <2>1, <2>2 DEF InStep, Phases, BatchOnTheWay, OpenStreams
  <2> QED BY <1>0, <2>3, QuietStep
<1> QED BY <1>1, <1>2, <1>3, <1>4, <1>5 DEF ReceiverDecides, ReceiverReviews

LEMMA ReceiverEndsInStep ==
    ASSUME TypeOK, InStep, UNCHANGED senderVars, NEW e, EndReceiver(e) PROVE InStep'
<1>1. /\ toReceiver' = << >> /\ link' = "down" /\ UNCHANGED <<run, worker, outcomes>>
      /\ \A f \in Files: ~stream'[f].open
  BY DEF EndReceiver, RemoveIncomingFiles, NoStream, senderVars
<1>2. \A f \in Files: FileInStep(f)'
  BY <1>1 DEF FileInStep, InOrder
<1>3. Phases'
  BY <1>1 DEF InStep, Phases, BatchOnTheWay, OpenStreams
<1> QED BY <1>1, <1>2, <1>3 DEF InStep

\* The next chunk to read is the next chunk of its file.
LEMMA NextChunk ==
    ASSUME TypeOK, InStep, toReceiver # << >>, Head(toReceiver).type = "content"
    PROVE  LET m == Head(toReceiver) f == m.file IN
           /\ f \in Files /\ About(m, f) /\ f \notin outcomes
           /\ m.offset = Taken(f) /\ m.offset < Chunks(f) /\ m.size = ChunkBytes(f)
<1> DEFINE m == Head(toReceiver)
           f == m.file
<1>1. m = toReceiver[1] /\ 1 \in 1..Len(toReceiver) /\ m \in ReceiverFrames
  BY DEF TypeOK, WireTypeOK
<1>2. f \in Files /\ m.offset \in Nat /\ About(m, f)
  BY <1>1 DEF ReceiverFrames, About
<1>3. FileInStep(f) /\ Expected(m, f)
  <2> HIDE DEF f
  <2> QED BY <1>1, <1>2 DEF InStep, FileInStep
<1>4. m.offset = Taken(f)
  <2> SUFFICES ASSUME m.offset # Taken(f) PROVE FALSE
    OBVIOUS
  <2>1. m.offset >= Taken(f) /\ Taken(f) \in Nat
    BY <1>2, <1>3, FileFacts DEF Expected
  <2>2. Taken(f) \in Taken(f)..(m.offset - 1)
    BY <1>2, <2>1
  <2>3. PICK j \in 1..Len(toReceiver): IsChunk(toReceiver[j], f, Taken(f))
    BY <1>3, <2>2 DEF Expected, Covered
  <2>4. j # 1 /\ About(toReceiver[j], f)
    BY <1>1, <2>3 DEF IsChunk, About
  <2>5. 1 < j
    BY <2>4
  <2>6. m.offset < Taken(f)
    BY <1>1, <1>2, <1>3, <2>3, <2>4, <2>5 DEF FileInStep, InOrder, IsChunk
  <2> HIDE DEF m, f
  <2> QED BY <1>2, <2>1, <2>6
<1> QED BY <1>2, <1>3, <1>4 DEF Expected

\* A completion is read when every chunk of its file has been.
LEMMA NextComplete ==
    ASSUME TypeOK, InStep, toReceiver # << >>, Head(toReceiver).type = "complete"
    PROVE  LET f == Head(toReceiver).file IN
           f \in Files /\ f \notin outcomes /\ stream[f].open /\ stream[f].received = Size[f]
<1> DEFINE m == Head(toReceiver)
           f == m.file
<1>1. m = toReceiver[1] /\ 1 \in 1..Len(toReceiver) /\ m \in ReceiverFrames
  BY DEF TypeOK, WireTypeOK
<1>2. f \in Files /\ About(m, f)
  BY <1>1 DEF ReceiverFrames, About
<1>3. FileInStep(f) /\ Expected(m, f)
  <2> HIDE DEF f
  <2> QED BY <1>1, <1>2 DEF InStep, FileInStep
<1>4. Taken(f) \in Nat /\ Chunks(f) \in Nat \ {0} /\ Size[f] \in Nat /\ stream[f].received \in Nat
  BY <1>2, FileFacts
<1>5. Taken(f) >= Chunks(f)
  <2> SUFFICES ASSUME Taken(f) < Chunks(f) PROVE FALSE
    BY <1>4
  <2>2. Taken(f) \in Taken(f)..(Chunks(f) - 1)
    BY <1>4
  <2>3. PICK j \in 1..Len(toReceiver): IsChunk(toReceiver[j], f, Taken(f))
    BY <1>3, <2>2 DEF Expected, Covered
  <2>4. j # 1 /\ About(toReceiver[j], f)
    BY <1>1, <2>3 DEF IsChunk, About
  <2>5. 1 < j
    BY <2>4
  <2>6. m.type = "content"
    BY <1>1, <1>2, <1>3, <2>4, <2>5 DEF FileInStep, InOrder
  <2> QED BY <2>6
<1>6. stream[f].open /\ stream[f].received <= Size[f]
  BY <1>3, <1>4, <1>5 DEF Taken, FileInStep
<1>7. stream[f].received = Size[f]
  BY <1>4, <1>5, <1>6 DEF Taken, Chunks
<1> QED BY <1>2, <1>3, <1>6, <1>7 DEF Expected

LEMMA NextFailure ==
    ASSUME TypeOK, InStep, toReceiver # << >>, Head(toReceiver).type = "file-failed"
    PROVE  Head(toReceiver).file \in Files /\ Head(toReceiver).file \notin outcomes
<1> DEFINE m == Head(toReceiver)
           f == m.file
<1>1. m = toReceiver[1] /\ 1 \in 1..Len(toReceiver) /\ m \in ReceiverFrames
  BY DEF TypeOK, WireTypeOK
<1>2. f \in Files /\ About(m, f)
  BY <1>1 DEF ReceiverFrames, About
<1> QED BY <1>1, <1>2 DEF InStep, FileInStep, Expected

LEMMA NextBatch ==
    ASSUME TypeOK, PublicationInv, InStep, toReceiver # << >>,
           Head(toReceiver).type = "batch-complete"
    PROVE  BatchOnTheWay /\ Len(toReceiver) = 1 /\ completedFile + failedFile = FileCount
<1>1. Head(toReceiver) = toReceiver[1] /\ 1 \in 1..Len(toReceiver)
  BY DEF TypeOK, WireTypeOK
<1>2. BatchOnTheWay
  BY <1>1 DEF BatchOnTheWay
<1>3. outcomes = Files /\ Len(toReceiver) = 1
  BY <1>2 DEF InStep, Phases
<1>4. Cardinality(outcomes) = FileCount
  BY <1>3, FinitelyManyFiles
<1>5. Cardinality(outcomes) = completedFile + failedFile
  BY DEF PublicationInv, OutcomesAreFinal
<1> QED BY <1>2, <1>3, <1>4, <1>5

\* The receiver accepts the next frame.
LEMMA NoFrameError ==
    ASSUME TypeOK, PublicationInv, CancellationInv, FrameInv, ~outgoingCanceled, ReceiverServes
    PROVE  receiverError' # "frame" /\ Head(toReceiver).type # "cancel"
<1> DEFINE m == Head(toReceiver)
<1>0. InStep /\ receiverError # "frame" /\ toReceiver # << >>
  BY DEF FrameInv, Flagged, ReceiverServes, ReceiverServe, ServeContent, ServeComplete, ServeFileFailed,
         ServeBatchComplete, ServeCancel, Serve
<1>1. incoming = "accepted"
  BY <1>0 DEF InStep, Phases
<1>2. m.type # "cancel"
  <2>1. m = toReceiver[1] /\ 1 \in 1..Len(toReceiver)
    BY <1>0 DEF TypeOK, WireTypeOK
  <2> QED BY <2>1 DEF CancellationInv, CancelIsFlagged
<1>3. CASE ServeContent
  <2>1. m.type = "content"
    BY <1>3 DEF ServeContent, Serve
  <2>2. PICK f \in Files: f = m.file
    BY <1>0, <2>1, NextChunk
  <2>3. /\ f \notin outcomes /\ m.offset = Taken(f) /\ m.offset < Chunks(f) /\ m.size = ChunkBytes(f)
        /\ Size[f] \in Nat /\ Taken(f) \in Nat
    BY <1>0, <2>1, <2>2, NextChunk, FileFacts
  <2>4. /\ ~(m.size > Size[f] - m.offset) /\ ~(m.offset > Size[f])
        /\ ~stream[f].open => m.offset = 0
        /\ stream[f].open => stream[f].received = m.offset
    <3>1. CASE Size[f] = 0
      BY <2>3, <3>1 DEF Chunks, ChunkBytes, Taken
    <3>2. CASE Size[f] # 0
      BY <2>3, <3>2 DEF Chunks, ChunkBytes, Taken
    <3> QED BY <3>1, <3>2
  <2> HIDE DEF m
  <2>5. ReceiveContent(m)
    BY <1>3 DEF ServeContent, m
  <2>6. UNCHANGED receiverError
    BY <1>1, <2>2, <2>3, <2>4, <2>5 DEF ReceiveContent, HandlerReturns
  <2> QED BY <1>0, <1>2, <2>6 DEF m
<1>4. CASE ServeComplete
  <2>1. m.type = "complete"
    BY <1>4 DEF ServeComplete, Serve
  <2>2. stream[m.file].open /\ stream[m.file].received = Size[m.file]
    BY <1>0, <2>1, NextComplete
  <2>3. receiverError' \in {receiverError, "disk"}
    BY <1>1, <1>4, <2>2
    DEF ServeComplete, CompleteIncomingFile, FailIncomingFile, PublishFile, HandlerReturns, EndReceiver
  <2> QED BY <1>0, <1>2, <2>3
<1>5. CASE ServeFileFailed
  <2>1. m.type = "file-failed"
    BY <1>5 DEF ServeFileFailed, Serve
  <2>2. m.file \notin outcomes
    BY <1>0, <2>1, NextFailure
  <2>3. UNCHANGED receiverError
    BY <1>1, <1>5, <2>2 DEF ServeFileFailed, ReceiveFileFailure, FailIncomingFile, HandlerReturns
  <2> QED BY <1>0, <1>2, <2>3
<1>6. CASE ServeBatchComplete
  <2>1. m.type = "batch-complete"
    BY <1>6 DEF ServeBatchComplete, Serve
  <2>2. completedFile + failedFile = FileCount
    BY <1>0, <2>1, NextBatch
  <2>3. receiverError' \in {receiverError, "disk"}
    BY <1>1, <1>6, <2>2 DEF ServeBatchComplete, CompleteIncomingBatch, HandlerReturns, EndReceiver
  <2> QED BY <1>0, <1>2, <2>3
<1>7. ~ServeCancel
  BY <1>2 DEF ServeCancel, Serve
<1> QED BY <1>3, <1>4, <1>5, <1>6, <1>7 DEF ReceiverServes, ReceiverServe
\* A frame of file h is consumed: the other files, their workers and the
\* queued jobs notice nothing.
LEMMA HeadServed ==
    ASSUME TypeOK, InStep, toReceiver # << >>, toReceiver' = Tail(toReceiver), UNCHANGED <<worker, jobs>>,
           NEW h \in Files, About(Head(toReceiver), h),
           \A g \in Files \ {h}: stream'[g] = stream[g] /\ (g \in outcomes' => g \in outcomes),
           FileInStep(h)',
           link = "up" => \A w \in Workers: worker[w].at \in BusyPlaces /\ worker[w].file = h
                                => WorkerAhead(w)'
    PROVE  /\ \A f \in Files: FileInStep(f)'
           /\ link = "up" => /\ \A w \in Workers: worker'[w].at \in BusyPlaces => WorkerAhead(w)'
                             /\ \A i \in 1..Len(jobs'): JobUntouched(i)'
<1>1. \A g: g # h => ~About(Head(toReceiver), g)
  BY DEF About
<1>2. \A g: g # h => SameFrames(g, 1)
  BY <1>1, SameIfOthersTaken
<1>3. ASSUME NEW f \in Files, f # h PROVE FileInStep(f)'
  BY <1>2, <1>3, FileKept DEF InStep
<1>4. ASSUME link = "up", NEW w \in Workers, worker'[w].at \in BusyPlaces PROVE WorkerAhead(w)'
  <2>1. CASE worker[w].file = h
    BY <1>4, <2>1
  <2>2. CASE worker[w].file # h
    <3>1. worker[w].file \in Files /\ WorkerAhead(w) /\ SameFrames(worker[w].file, 1)
      BY <1>2, <1>4, <2>2, BusyWorker DEF InStep
    <3>2. /\ \A v \in Workers \ {w}: worker'[v].file # worker[w].file
          /\ \A i \in 1..Len(jobs'): jobs'[i] # worker[w].file
      BY <3>1 DEF WorkerAhead
    <3> QED BY <1>4, <2>2, <3>1, <3>2, WorkerKept
  <2> QED BY <2>1, <2>2
<1>5. ASSUME link = "up", NEW i \in 1..Len(jobs') PROVE JobUntouched(i)'
  <2>1. JobUntouched(i) /\ jobs[i] \in Files
    BY <1>5 DEF InStep, TypeOK, SenderTypeOK
  <2>2. jobs[i] # h
    <3>1. Head(toReceiver) = toReceiver[1] /\ 1 \in 1..Len(toReceiver)
      BY TakenFromWire
    <3> QED BY <2>1, <3>1 DEF JobUntouched
  <2> QED BY <1>2, <1>5, <2>1, <2>2, JobKept
<1> QED BY <1>3, <1>4, <1>5

\* The places the two Peers are at, when the frame of a file is consumed.
LEMMA HeadServedPhases ==
    ASSUME TypeOK, InStep, toReceiver # << >>, toReceiver' = Tail(toReceiver),
           NEW h, About(Head(toReceiver), h),
           UNCHANGED <<worker, run, link, incoming, review, decisionCh>>,
           AcceptanceOnTheWay' => AcceptanceOnTheWay
    PROVE  Phases'
<1>1. incoming = "accepted" /\ run # "decision"
  BY DEF InStep, Phases
<1>2. ~BatchOnTheWay
  <2>1. Head(toReceiver) = toReceiver[1] /\ Len(toReceiver) \in Nat \ {0}
    BY TakenFromWire
  <2>2. toReceiver[1].type # "batch-complete"
    BY <2>1 DEF About
  <2> QED BY <2>1, <2>2 DEF BatchOnTheWay, InStep, Phases
<1>3. ~BatchOnTheWay'
  BY <1>2, NoNewBatch DEF TypeOK
<1> QED BY <1>1, <1>3 DEF InStep, Phases

LEMMA ContentInStep ==
    ASSUME TypeOK, InStep, UNCHANGED senderVars, ServeContent, receiverError' # "frame",
           receiverError # "frame", incoming = "accepted"
    PROVE  InStep'
<1> DEFINE m == Head(toReceiver)
<1>0. toReceiver # << >> /\ m.type = "content" /\ ReceiveContent(m)
  BY DEF ServeContent, Serve
<1>1. PICK f \in Files: f = m.file
  BY <1>0, NextChunk
<1>2. /\ About(m, f) /\ f \notin outcomes /\ m.offset = Taken(f) /\ m.offset < Chunks(f)
      /\ m.size = ChunkBytes(f) /\ Size[f] \in Nat /\ Taken(f) \in Nat /\ Chunks(f) \in Nat
      /\ stream[f].received \in Nat
  BY <1>0, <1>1, NextChunk, FileFacts
<1>3. /\ UNCHANGED <<incoming, outcomes, toSender, review, link>> /\ toReceiver' = Tail(toReceiver)
      /\ UNCHANGED <<worker, jobs, run, decisionCh>>
      /\ \E s, digest, failure: /\ stream' = [stream EXCEPT ![f] = Stream(s.received + m.size, digest, failure)]
                                /\ s.received = IF stream[f].open THEN stream[f].received ELSE 0
  <2> HIDE DEF m
  <2>1. ~EndReceiver("frame")
    BY DEF EndReceiver
  <2>2. PICK created \in BOOLEAN, written \in BOOLEAN:
        LET s == IF ~stream[f].open THEN StartReceivingFile(created) ELSE stream[f]
            data == IF m.size = 0 THEN << >> ELSE <<m.data>>
        IN stream' = [stream EXCEPT ![f] =
                 Stream(s.received + m.size, s.digest \o data, s.writeFailure \/ (m.size > 0 /\ ~written))]
    BY <1>0, <1>1, <2>1 DEF ReceiveContent
  <2>3. \E s, digest, failure: /\ stream' = [stream EXCEPT ![f] = Stream(s.received + m.size, digest, failure)]
                               /\ s.received = IF stream[f].open THEN stream[f].received ELSE 0
    <3> DEFINE s == IF ~stream[f].open THEN StartReceivingFile(created) ELSE stream[f]
               data == IF m.size = 0 THEN << >> ELSE <<m.data>>
    <3>1. s.received = IF stream[f].open THEN stream[f].received ELSE 0
      BY DEF StartReceivingFile, Stream
    <3>2. stream' = [stream EXCEPT ![f] =
                 Stream(s.received + m.size, s.digest \o data, s.writeFailure \/ (m.size > 0 /\ ~written))]
      BY <2>2
    <3> HIDE DEF s, data
    <3> QED BY <3>1, <3>2
  <2>4. /\ UNCHANGED <<incoming, outcomes, toSender>> /\ HandlerReturns
    BY <1>0, <2>1 DEF ReceiveContent
  <2> QED BY <2>3, <2>4 DEF HandlerReturns, senderVars
<1>4. /\ stream'[f].open
      /\ stream'[f].received = (IF stream[f].open THEN stream[f].received ELSE 0) + m.size
      /\ \A g \in Files \ {f}: stream'[g] = stream[g]
  <2>1. stream \in [Files -> Streams]
    BY DEF TypeOK, ReceiverTypeOK
  <2> QED BY <1>3, <2>1 DEF Stream
<1>5. Taken(f)' = Taken(f) + 1 /\ stream'[f].received <= Size[f]
  <2> HIDE DEF m
  <2>1. CASE Size[f] = 0
    BY <1>2, <1>4, <2>1 DEF Taken, Chunks, ChunkBytes
  <2>2. CASE Size[f] # 0
    BY <1>2, <1>4, <2>2 DEF Taken, Chunks, ChunkBytes
  <2> QED BY <2>1, <2>2
<1>6. /\ m = toReceiver[1] /\ 1 \in 1..Len(toReceiver)
      /\ \A i \in 1..Len(toReceiver'): /\ i + 1 \in 1..Len(toReceiver) /\ i + 1 > 1
                                       /\ toReceiver'[i] = toReceiver[i + 1]
      /\ \A j \in 1..Len(toReceiver): j # 1 =>
            /\ j - 1 \in 1..Len(toReceiver') /\ toReceiver'[j - 1] = toReceiver[j]
  BY <1>0, <1>3, TakenFromWire
<1>7. \A n: Covered(f, n) => Covered(f, n)'
  <2> SUFFICES ASSUME NEW n, Covered(f, n), NEW k \in Taken(f)'..(n - 1)
               PROVE  \E j \in 1..Len(toReceiver'): IsChunk(toReceiver'[j], f, k)
    BY DEF Covered
  <2>1. k \in Taken(f)..(n - 1) /\ k # Taken(f)
    BY <1>2, <1>5
  <2>2. PICK j \in 1..Len(toReceiver): IsChunk(toReceiver[j], f, k)
    BY <2>1 DEF Covered
  <2>3. j # 1
    BY <1>2, <1>6, <2>1, <2>2 DEF IsChunk
  <2> QED BY <1>6, <2>2, <2>3
<1>8. FileInStep(f)
  BY DEF InStep
<1>9. FileInStep(f)'
  <2>1. InOrder(f)'
    <3> SUFFICES ASSUME NEW i \in 1..Len(toReceiver'), NEW j \in 1..Len(toReceiver'), i < j,
                        About(toReceiver'[i], f), About(toReceiver'[j], f)
                 PROVE  /\ toReceiver'[i].type = "content"
                        /\ toReceiver'[j].type = "content" => toReceiver'[i].offset < toReceiver'[j].offset
      BY DEF InOrder
    <3>1. i + 1 < j + 1
      OBVIOUS
    <3>2. /\ i + 1 \in 1..Len(toReceiver) /\ toReceiver'[i] = toReceiver[i + 1]
          /\ j + 1 \in 1..Len(toReceiver) /\ toReceiver'[j] = toReceiver[j + 1]
      BY <1>6
    <3> QED BY <1>8, <3>1, <3>2 DEF FileInStep, InOrder
  <2>2. ASSUME NEW i \in 1..Len(toReceiver'), About(toReceiver'[i], f)
        PROVE  Expected(toReceiver[i], f)'
    <3>1. /\ i + 1 \in 1..Len(toReceiver) /\ 1 < i + 1 /\ toReceiver'[i] = toReceiver[i + 1]
          /\ About(toReceiver[i + 1], f)
      BY <1>6, <2>2
    <3>2. Expected(toReceiver[i + 1], f)
      BY <1>8, <3>1 DEF FileInStep
    <3>3. toReceiver[i + 1].type = "content" => toReceiver[i + 1].offset \in Nat
      <4>1. toReceiver[i + 1] \in ReceiverFrames
        BY <3>1 DEF TypeOK, WireTypeOK
      <4> QED BY <4>1 DEF ReceiverFrames
    <3>4. toReceiver[i + 1].type = "content" => toReceiver[i + 1].offset > Taken(f)
      BY <1>2, <1>6, <1>8, <3>1 DEF FileInStep, InOrder
    <3>5. toReceiver'[i].type = "content" => toReceiver'[i].offset >= Taken(f)'
      BY <1>2, <1>5, <3>1, <3>3, <3>4
    <3> HIDE DEF m
    <3> QED BY <1>3, <1>7, <3>1, <3>2, <3>5 DEF Expected, Chunks
  <2> HIDE DEF m
  <2> QED BY <1>5, <2>1, <2>2 DEF FileInStep
<1>10. ASSUME link = "up", NEW w \in Workers, worker[w].at \in BusyPlaces, worker[w].file = f
       PROVE  WorkerAhead(w)'
  <2>1. WorkerAhead(w)
    BY <1>10 DEF InStep
  <2>2. Sent(w)' = Sent(w) /\ Sent(w) \in Nat
    BY <1>2, <1>3, <1>10, BusyWorker DEF Sent, Chunks
  <2>3. Taken(f) < Sent(w)
    BY <1>2, <1>6, <1>10, <2>1 DEF WorkerAhead
  <2>4. Taken(f)' <= Sent(w)'
    BY <1>2, <1>5, <2>2, <2>3
  <2>5. PICK n \in Nat: n = Sent(w)
    BY <2>2
  <2>6. Covered(f, Sent(w))'
    <3>1. Covered(f, n)
      BY <1>10, <2>1, <2>5 DEF WorkerAhead
    <3>2. Covered(f, n)' /\ Sent(w)' = n
      BY <1>7, <2>2, <2>5, <3>1
    <3> QED BY <3>2 DEF Covered
  <2>7. \A i \in 1..Len(toReceiver'): About(toReceiver'[i], f) =>
            toReceiver'[i].type = "content" /\ toReceiver'[i].offset < Sent(w)'
    BY <1>6, <1>10, <2>1, <2>2 DEF WorkerAhead
  <2> HIDE DEF m
  <2> QED BY <1>3, <1>10, <2>1, <2>4, <2>6, <2>7 DEF WorkerAhead, Chunks
<1>11. AcceptanceOnTheWay' => AcceptanceOnTheWay
  BY <1>3 DEF AcceptanceOnTheWay
<1>12. Phases'
  BY <1>0, <1>2, <1>3, <1>11, HeadServedPhases
<1>13. /\ \A g \in Files: FileInStep(g)'
       /\ link = "up" => /\ \A w \in Workers: worker'[w].at \in BusyPlaces => WorkerAhead(w)'
                         /\ \A i \in 1..Len(jobs'): JobUntouched(i)'
  <2>1. \A g \in Files \ {f}: stream'[g] = stream[g] /\ (g \in outcomes' => g \in outcomes)
    BY <1>3, <1>4
  <2>2. About(Head(toReceiver), f)
    BY <1>2
  <2> HIDE DEF m
  <2> QED BY <1>0, <1>3, <1>9, <1>10, <2>1, <2>2, HeadServed
<1> QED BY <1>3, <1>12, <1>13 DEF InStep
\* The last frame of a file: nothing of it is left on the wire or with a worker.
LEMMA SettleInStep ==
    ASSUME TypeOK, InStep, UNCHANGED senderVars, toReceiver # << >>,
           Head(toReceiver).type \in {"complete", "file-failed"}, NEW f \in Files,
           f = Head(toReceiver).file, FailIncomingFile(f) \/ PublishFile(f)
    PROVE  InStep'
<1>1. /\ toReceiver' = Tail(toReceiver) /\ outcomes' = outcomes \cup {f}
      /\ UNCHANGED <<incoming, review, link, worker, jobs, run, decisionCh>>
      /\ stream' = [stream EXCEPT ![f] = NoStream]
      /\ \E v \in Verdicts: SendToSender(ResultFrame(f, v))
  BY DEF FailIncomingFile, PublishFile, RecordOutcome, HandlerReturns, senderVars, Verdicts
<1>2. ~stream'[f].open /\ \A g \in Files \ {f}: stream'[g] = stream[g]
  BY <1>1 DEF TypeOK, ReceiverTypeOK, NoStream
<1>3. About(Head(toReceiver), f)
  BY DEF About
<1>4. /\ Head(toReceiver) = toReceiver[1] /\ 1 \in 1..Len(toReceiver)
      /\ \A i \in 1..Len(toReceiver'): /\ i + 1 \in 1..Len(toReceiver) /\ i + 1 > 1
                                       /\ toReceiver'[i] = toReceiver[i + 1]
  BY <1>1, TakenFromWire
<1>5. \A i \in 1..Len(toReceiver'): ~About(toReceiver'[i], f)
  <2> SUFFICES ASSUME NEW i \in 1..Len(toReceiver'), About(toReceiver'[i], f) PROVE FALSE
    OBVIOUS
  <2>1. i + 1 \in 1..Len(toReceiver) /\ 1 < i + 1 /\ About(toReceiver[i + 1], f)
    BY <1>4
  <2>2. FileInStep(f)
    BY DEF InStep
  <2>3. toReceiver[1].type = "content"
    BY <1>3, <1>4, <2>1, <2>2 DEF FileInStep, InOrder
  <2> QED BY <1>4, <2>3
<1>6. FileInStep(f)'
  BY <1>2, <1>5 DEF FileInStep, InOrder
<1>7. ASSUME link = "up", NEW w \in Workers, worker[w].at \in BusyPlaces, worker[w].file = f
      PROVE  WorkerAhead(w)'
  BY <1>3, <1>4, <1>7 DEF InStep, WorkerAhead
<1>8. AcceptanceOnTheWay' => AcceptanceOnTheWay
  <2>1. PICK v \in Verdicts: SendToSender(ResultFrame(f, v))
    BY <1>1
  <2>2. ResultFrame(f, v) \in SenderFrames /\ ResultFrame(f, v).type = "result"
    BY SenderFrameTypes DEF ResultFrame
  <2> QED BY <1>1, <2>1, <2>2, NoNewAcceptance
<1>9. Phases'
  BY <1>1, <1>3, <1>8, HeadServedPhases
<1>10. /\ \A g \in Files: FileInStep(g)'
       /\ link = "up" => /\ \A w \in Workers: worker'[w].at \in BusyPlaces => WorkerAhead(w)'
                         /\ \A i \in 1..Len(jobs'): JobUntouched(i)'
  BY <1>1, <1>2, <1>3, <1>6, <1>7, HeadServed
<1> QED BY <1>1, <1>9, <1>10 DEF InStep

\* batch-complete is the last frame of the offer.
LEMMA BatchInStep ==
    ASSUME TypeOK, PublicationInv, AccountInv, AnswersInOrder, InStep, UNCHANGED senderVars,
           toReceiver # << >>, Head(toReceiver).type = "batch-complete", NEW v \in Verdicts,
           HandlerReturns, SendToSender(ResultFrame(WholeOffer, v)), UNCHANGED <<outcomes, stream>>
    PROVE  InStep'
<1>1. /\ toReceiver' = Tail(toReceiver) /\ UNCHANGED <<review, link, worker, jobs, run, decisionCh>>
  BY DEF HandlerReturns, senderVars
<1>2. BatchOnTheWay /\ Len(toReceiver) = 1
  BY NextBatch
<1>3. toReceiver' = << >>
  BY <1>1, <1>2 DEF TypeOK, WireTypeOK
<1>4. run \in {"final", "done", "stopped"} /\ (link = "up" => run # "stopped")
  BY <1>2 DEF AccountInv, BatchIsAnnounced, CountedAll, AnswersInOrder, SenderEndsQuietly
<1>5. \A w \in Workers: worker[w].at = "exit"
  BY <1>4 DEF InStep, Phases
<1>6. AcceptanceOnTheWay' => AcceptanceOnTheWay
  <2>1. ResultFrame(WholeOffer, v) \in SenderFrames /\ ResultFrame(WholeOffer, v).type = "result"
    BY SenderFrameTypes DEF ResultFrame
  <2> QED BY <1>1, <2>1, NoNewAcceptance
<1>7. link = "up" => ~AcceptanceOnTheWay /\ review # "accepting"
  BY <1>4 DEF AnswersInOrder, OneDecision, NoneToSender, AcceptanceOnTheWay
<1>8. Phases'
  <2>1. ~BatchOnTheWay'
    BY <1>3 DEF BatchOnTheWay
  <2>2. ~(link' = "up" /\ (run' \in {"starting", "collect"} \/ AcceptanceOnTheWay' \/ review' = "accepting"))
    BY <1>1, <1>4, <1>6, <1>7
  <2>3. \A w \in Workers: worker'[w].at = "exit"
    BY <1>1, <1>5
  <2> QED BY <1>1, <1>3, <1>4, <2>1, <2>2, <2>3 DEF Phases
<1>9. \A f \in Files: FileInStep(f)'
  BY <1>3 DEF InStep, FileInStep, InOrder
<1>10. ASSUME link' = "up", NEW i \in 1..Len(jobs') PROVE JobUntouched(i)'
  BY <1>1, <1>3, <1>10 DEF InStep, JobUntouched
<1> QED BY <1>1, <1>5, <1>8, <1>9, <1>10 DEF InStep, BusyPlaces

LEMMA ServesInStep ==
    ASSUME TypeOK, PublicationInv, AccountInv, CancellationInv, AnswersInOrder, FrameInv,
           ~outgoingCanceled, ReceiverServes
    PROVE  InStep'
<1>0. InStep /\ receiverError # "frame" /\ toReceiver # << >> /\ UNCHANGED senderVars
  BY DEF FrameInv, Flagged, ReceiverServes, ReceiverServe, ServeContent, ServeComplete, ServeFileFailed,
         ServeBatchComplete, ServeCancel, Serve
<1>1. receiverError' # "frame" /\ Head(toReceiver).type # "cancel" /\ incoming = "accepted"
  BY <1>0, NoFrameError DEF InStep, Phases
<1>2. ASSUME NEW e, EndReceiver(e) PROVE InStep'
  BY <1>0, <1>2, ReceiverEndsInStep
<1>3. CASE ServeContent
  BY <1>0, <1>1, <1>3, ContentInStep
<1>4. CASE ServeComplete
  <2>1. Head(toReceiver).type = "complete" /\ CompleteIncomingFile(Head(toReceiver))
    BY <1>4 DEF ServeComplete, Serve
  <2>2. PICK f \in Files: f = Head(toReceiver).file
    BY <1>0, <2>1, NextComplete
  <2>3. \/ \E e: EndReceiver(e)
        \/ FailIncomingFile(f) \/ PublishFile(f)
    BY <2>1, <2>2 DEF CompleteIncomingFile
  <2> QED BY <1>0, <1>2, <2>1, <2>2, <2>3, SettleInStep
<1>5. CASE ServeFileFailed
  <2>1. Head(toReceiver).type = "file-failed" /\ ReceiveFileFailure(Head(toReceiver))
    BY <1>5 DEF ServeFileFailed, Serve
  <2>2. PICK f \in Files: f = Head(toReceiver).file
    BY <1>0, <2>1, NextFailure
  <2>3. (\E e: EndReceiver(e)) \/ FailIncomingFile(f)
    BY <2>1, <2>2 DEF ReceiveFileFailure
  <2> QED BY <1>0, <1>2, <2>1, <2>2, <2>3, SettleInStep
<1>6. CASE ServeBatchComplete
  <2>1. Head(toReceiver).type = "batch-complete" /\ CompleteIncomingBatch
    BY <1>6 DEF ServeBatchComplete, Serve
  <2>2. \/ \E e: EndReceiver(e)
        \/ \E v \in Verdicts: /\ HandlerReturns /\ SendToSender(ResultFrame(WholeOffer, v))
                              /\ UNCHANGED <<outcomes, stream>>
    BY <2>1 DEF CompleteIncomingBatch, Verdicts
  <2> QED BY <1>0, <1>2, <2>1, <2>2, BatchInStep
<1>7. ~ServeCancel
  BY <1>1 DEF ServeCancel, Serve
<1> QED BY <1>3, <1>4, <1>5, <1>6, <1>7 DEF ReceiverServes, ReceiverServe

---------------------------------------------------------------------------
(* The theorem                                                             *)

\* What a step may do to the flag, and to the result that reports a cancellation.
LEMMA FlaggedNext ==
    ASSUME TypeOK, PublicationInv, AccountInv, CancellationInv, AnswersInOrder, FrameInv, Next
    PROVE  Flagged' /\ (outgoingCanceled => outgoingCanceled')
<1>0. Flagged
  BY DEF FrameInv
<1>a. ASSUME outgoingCanceled => outgoingCanceled', UNCHANGED receiverError,
             OnTheWay(WholeOffer, "canceled")' => OnTheWay(WholeOffer, "canceled")
      PROVE  Flagged'
  BY <1>0, <1>a DEF Flagged
<1>1. CASE SenderRuns
  <2>1. /\ UNCHANGED <<outgoingCanceled, receiverError, toSender>>
        /\ UNCHANGED resultCh \/ (resultCh # << >> /\ resultCh' = Tail(resultCh))
    BY <1>1 DEF SenderRuns, RunOutgoing, TakeDecision, ReleaseWorkers, CollectResult, CompleteBatch,
                FinishOutgoing, receiverVars, wireVars
  <2>2. OnTheWay(WholeOffer, "canceled")' => OnTheWay(WholeOffer, "canceled")
    BY <2>1, ResultsUntouched, ResultTaken
  <2> QED BY <1>a, <2>1, <2>2
<1>2. ASSUME NEW w \in Workers, SenderWorks(w) PROVE Flagged' /\ (outgoingCanceled => outgoingCanceled')
  <2>1. UNCHANGED <<outgoingCanceled, receiverError, toSender, resultCh>>
    BY <1>2 DEF SenderWorks, WorkerStep, TakeJob, PassBarrier, OpenSource, ReadChunk, SendChunk,
                SendComplete, SendFileFailed, WorkerUnchanged, receiverVars
  <2> QED BY <1>a, <2>1, ResultsUntouched
<1>3. CASE (\E f \in Files: SourceChanges(f)) \/ SenderCancels \/ SenderSendsCancel \/ LinkFails
  <2>1. UNCHANGED <<receiverError, toSender, resultCh>>
    BY <1>3 DEF SourceChanges, ChangeSource, SenderCancels, CancelOutgoing, SenderSendsCancel, SendCancel,
                LinkFails, LinkDown, wireVars, senderVars, receiverVars
  <2>2. outgoingCanceled => outgoingCanceled'
    <3>1. CASE SenderCancels
      BY <3>1 DEF SenderCancels, CancelOutgoing
    <3>2. CASE ~SenderCancels
      BY <1>3, <3>2 DEF SourceChanges, ChangeSource, SenderSendsCancel, SendCancel, LinkFails, LinkDown,
                        wireVars, senderVars, receiverVars
    <3> QED BY <3>1, <3>2
  <2> QED BY <1>a, <2>1, <2>2, ResultsUntouched
<1>4. CASE SenderEnds
  <2>1. UNCHANGED <<outgoingCanceled, receiverError>> /\ resultCh' = << >> /\ toSender' = << >>
    BY <1>4 DEF SenderEnds, SenderLosesLink, EndSender, receiverVars
  <2> QED BY <1>a, <2>1, ResultsDropped
<1>5. CASE SenderServes
  <2>1. ~EndSender(TRUE)
    <3>1. ~senderError'
      BY <1>5, AnswersServed DEF AnswersInOrder, SenderEndsQuietly
    <3> QED BY <3>1 DEF EndSender
  <2>2. UNCHANGED receiverError /\ (outgoingCanceled => outgoingCanceled')
    BY <1>5, <2>1 DEF SenderServes, SenderServe, ServeDecision, ServeResult, ServePeerCancel, receiverVars
  <2>3. /\ toSender # << >> /\ toSender' = Tail(toSender)
        /\ \/ Head(toSender).type # "result" /\ UNCHANGED resultCh
           \/ /\ Head(toSender).type = "result"
              /\ resultCh' = Append(resultCh, [file |-> Head(toSender).file,
                                               verdict |-> Head(toSender).verdict])
    BY <1>5, <2>1 DEF SenderServes, SenderServe, ServeDecision, ServeResult, ServePeerCancel
  <2>4. OnTheWay(WholeOffer, "canceled")' => OnTheWay(WholeOffer, "canceled")
    BY <2>3, OtherTaken, ResultRouted
  <2> QED BY <1>a, <2>2, <2>4
<1>6. CASE ReceiverDecides \/ ReceiverReviews \/ ReceiverCancels \/ ReceiverSendsCancel
  <2>1. /\ UNCHANGED <<outgoingCanceled, receiverError, resultCh>>
        /\ \/ UNCHANGED toSender
           \/ SendToSender(CancelFrame) \/ SendToSender(DecisionFrame(TRUE))
           \/ SendToSender(DecisionFrame(FALSE))
    BY <1>6 DEF ReceiverDecides, ReceiverReviews, ReceiverCancels, ReceiverSendsCancel, AcceptOffer,
         RejectOffer, SendAcceptance, ClearRejected, CancelIncoming, SendCancelRequest, senderVars, wireVars
  <2>2. DecisionFrame(TRUE) \in SenderFrames /\ DecisionFrame(FALSE) \in SenderFrames
    BY SenderFrameTypes
  <2>3. DecisionFrame(TRUE).type = "decision" /\ DecisionFrame(FALSE).type = "decision"
    BY DEF DecisionFrame
  <2>4. OnTheWay(WholeOffer, "canceled")' => OnTheWay(WholeOffer, "canceled")
    <3>1. CASE UNCHANGED toSender
      BY <2>1, <3>1, ResultsUntouched
    <3>2. CASE SendToSender(CancelFrame)
      BY <2>1, <3>2, CancelFrameType, OtherWritten
    <3>3. CASE SendToSender(DecisionFrame(TRUE))
      BY <2>1, <2>2, <2>3, <3>3, OtherWritten
    <3>4. CASE SendToSender(DecisionFrame(FALSE))
      BY <2>1, <2>2, <2>3, <3>4, OtherWritten
    <3> QED BY <2>1, <3>1, <3>2, <3>3, <3>4
  <2> QED BY <1>a, <2>1, <2>4
<1>7. ASSUME NEW e, EndReceiver(e), UNCHANGED senderVars, e = "frame" => outgoingCanceled
      PROVE  Flagged' /\ (outgoingCanceled => outgoingCanceled')
  <2>1. UNCHANGED <<outgoingCanceled, resultCh, toSender>> /\ receiverError' = e
    BY <1>7 DEF EndReceiver, senderVars
  <2>2. OnTheWay(WholeOffer, "canceled")' => OnTheWay(WholeOffer, "canceled")
    BY <2>1, ResultsUntouched
  <2> QED BY <1>0, <1>7, <2>1, <2>2 DEF Flagged
<1>8. CASE ReceiverEnds
  BY <1>7, <1>8 DEF ReceiverEnds, ReceiverLosesLink
<1>9. CASE ReceiverServes
  <2>0. UNCHANGED senderVars /\ UNCHANGED <<outgoingCanceled, resultCh>>
    BY <1>9 DEF ReceiverServes, senderVars
  <2>1. ASSUME NEW e \in {"frame", "disk"}, EndReceiver(e) PROVE Flagged'
    <3>1. e = "frame" => outgoingCanceled
      <4>1. receiverError' = e
        BY <2>1 DEF EndReceiver
      <4> QED BY <1>9, <4>1, NoFrameError
    <3> QED BY <1>7, <2>0, <2>1, <3>1
  <2>2. ASSUME NEW f \in Files, FailIncomingFile(f) \/ PublishFile(f) PROVE Flagged'
    <3>1. PICK v \in {"ok", "failed"}: SendToSender(ResultFrame(f, v))
      BY <2>2 DEF FailIncomingFile, PublishFile
    <3>2. UNCHANGED receiverError
      BY <2>2 DEF FailIncomingFile, PublishFile, HandlerReturns
    <3>3. v \in Verdicts /\ f \in Files \cup {WholeOffer}
      BY DEF Verdicts
    <3>4. OnTheWay(WholeOffer, "canceled")' => OnTheWay(WholeOffer, "canceled")
      BY <2>0, <3>1, <3>3, ResultWritten
    <3> QED BY <1>a, <2>0, <3>2, <3>4
  <2>3. ASSUME HandlerReturns, UNCHANGED toSender PROVE Flagged'
    BY <1>a, <2>0, <2>3, ResultsUntouched DEF HandlerReturns
  <2>4. ASSUME NEW v \in Verdicts, HandlerReturns, SendToSender(ResultFrame(WholeOffer, v)),
               v = "canceled" => ServeCancel
        PROVE  Flagged'
    <3>1. \A g, x: OnTheWay(g, x)' => OnTheWay(g, x) \/ (g = WholeOffer /\ x = v)
      BY <2>0, <2>4, ResultWritten
    <3>2. v = "canceled" => outgoingCanceled
      <4>1. Head(toReceiver).type = "cancel" => outgoingCanceled
        BY <1>9, NoFrameError
      <4> QED BY <2>4, <4>1 DEF ServeCancel, Serve
    <3> QED BY <1>0, <2>0, <2>4, <3>1, <3>2 DEF Flagged, HandlerReturns
  <2>5. Flagged'
    BY <1>9, <2>1, <2>2, <2>3, <2>4, ServedOutcomes
  <2> QED BY <2>0, <2>5
<1> QED BY <1>1, <1>2, <1>3, <1>4, <1>5, <1>6, <1>8, <1>9 DEF Next

LEMMA FrameInit == Init => FrameInv
<1> SUFFICES ASSUME Init PROVE FrameInv
  OBVIOUS
<1> USE DEF Init, WireInit, SenderInit, ReceiverInit
<1>1. Flagged
  BY DEF Flagged, OnTheWay
<1>2. \A f \in Files: FileInStep(f)
  BY DEF FileInStep, InOrder, NoStream
<1>3. Phases
  BY DEF Phases, OpenStreams, NoStream, BatchOnTheWay, AcceptanceOnTheWay, IdleWorker, Worker
<1>4. \A w \in Workers: worker[w].at \notin BusyPlaces
  BY DEF IdleWorker, Worker, BusyPlaces
<1> QED BY <1>1, <1>2, <1>3, <1>4 DEF FrameInv, InStep

LEMMA FrameNext ==
    TypeOK /\ PublicationInv /\ AccountInv /\ CancellationInv /\ AnswersInOrder /\ FrameInv /\ [Next]_vars
        => FrameInv'
<1> SUFFICES ASSUME TypeOK, PublicationInv, AccountInv, CancellationInv, AnswersInOrder, FrameInv,
                    [Next]_vars
             PROVE  FrameInv'
  OBVIOUS
<1>1. CASE UNCHANGED vars
  <2>1. /\ UNCHANGED <<toReceiver, stream, outcomes, worker, jobs>>
        /\ UNCHANGED <<run, decisionCh, toSender, incoming, review, link, outgoingCanceled>>
        /\ UNCHANGED <<receiverError, resultCh>>
    BY <1>1 DEF vars, wireVars, senderVars, receiverVars
  <2>2. Flagged'
    BY <2>1, ResultsUntouched DEF FrameInv, Flagged
  <2>3. InStep => Phases'
    BY <2>1 DEF InStep, Phases, AcceptanceOnTheWay, BatchOnTheWay, OpenStreams
  <2>4. InStep => InStep'
    BY <2>1, <2>3, QuietStep
  <2> QED BY <2>1, <2>2, <2>4 DEF FrameInv
<1>2. CASE Next
  <2>1. Flagged' /\ (outgoingCanceled => outgoingCanceled')
    BY <1>2, FlaggedNext
  <2>2. ASSUME ~outgoingCanceled' PROVE InStep'
    <3>0. ~outgoingCanceled /\ InStep
      BY <2>1, <2>2 DEF FrameInv
    <3>1. CASE ReceiverEnds
      BY <3>0, <3>1, ReceiverEndsInStep DEF ReceiverEnds, ReceiverLosesLink
    <3> QED
      BY <1>2, <2>2, <3>0, <3>1, SenderRunsInStep, WorkerInStep, SenderInStep, ReviewsInStep, ServesInStep
      DEF Next
  <2> QED BY <2>1, <2>2 DEF FrameInv
<1> QED BY <1>1, <1>2

\* In a transfer nobody cancels, the two Peers never disagree about the
\* protocol: the receiver ends the session over a frame (receiveContent,
\* completeIncomingFile, receiveFileFailure, completeIncomingBatch) only after
\* outgoing.canceled was set, and the sender can place every answer
\* (routeOutgoing), for every number and size of files and any interleaving of
\* the workers.
THEOREM FrameErrorOnlyAfterCancelHolds == Spec => []FrameErrorOnlyAfterCancel
<1>1. AnswersInOrder /\ FrameInv => FrameErrorOnlyAfterCancel
  BY DEF AnswersInOrder, SenderEndsQuietly, FrameInv, Flagged, FrameErrorOnlyAfterCancel
<1>2. Spec => [](TypeOK /\ PublicationInv /\ AccountInv /\ CancellationInv)
  <2>1. Spec => []TypeOK
    BY TypeCorrect
  <2>2. Init /\ [][Next]_vars /\ []TypeOK => []PublicationInv
    BY PublicationInit, PublicationNext, PTL
  <2>3. Init /\ [][Next]_vars /\ []TypeOK => []CancellationInv
    BY CancellationInit, CancellationNext, PTL
  <2> QED BY <2>1, <2>2, <2>3, AccountCorrect, PTL DEF Spec
<1>3. Init /\ [][Next]_vars /\ [](TypeOK /\ PublicationInv /\ AccountInv /\ CancellationInv)
        => [](AnswersInOrder /\ FrameInv)
  BY AnswersInit, AnswersNext, FrameInit, FrameNext, PTL
<1> QED BY <1>1, <1>2, <1>3, PTL DEF Spec
=============================================================================
