----------------------------- MODULE FileSender -----------------------------
(***************************************************************************)
(* The sending Peer of one Transfer Offer: the goroutine runOutgoing, its  *)
(* file workers, the serve loop that routes the receiver's frames to it    *)
(* (internal/terminal/send.go, connection.go) and the local cancel command *)
(* (offer_control.go).  The manifest has already been sent.                *)
(*                                                                         *)
(* run is the place runOutgoing is at:                                     *)
(*   "decision"  select on outgoing.decision                               *)
(*   "starting"  started.Wait, every worker must take its first job        *)
(*   "collect"   the loop that counts results                              *)
(*   "final"     batch-complete written, select on outgoing.result         *)
(*   "done"      returned after clearOutgoing (current.outgoing = nil)     *)
(*   "stopped"   returned because the session context was canceled         *)
(***************************************************************************)
EXTENDS SessionWire, FiniteSets

CONSTANTS
    ParallelThreshold,  \* adaptiveFileConcurrency: files needed for parallel streams (4)
    MaxWorkers,         \* adaptiveFileConcurrency: streams of a parallel batch (4)
    ResultCap,          \* capacity of outgoing.result (8)
    SourceFaults,       \* what may become of a source after its approval
    MaxSourceChanges    \* bound: how many sources change

\* started.Wait needs a first job for every worker.
ASSUME ConcurrencyAssumption ==
    /\ ParallelThreshold \in Nat \ {0}
    /\ MaxWorkers \in Nat \ {0}
    /\ MaxWorkers <= ParallelThreshold
ASSUME ResultCapAssumption == ResultCap \in Nat \ {0}
ASSUME SourceFaultsAssumption ==
    /\ SourceFaults \subseteq {"rewritten", "forged", "truncated", "gone"}
    /\ MaxSourceChanges \in Nat

VARIABLES
    source,            \* source[f]: the state of the file on the sender's disk
    run,               \* where runOutgoing is
    jobs,              \* the closed channel of files no worker has taken yet
    worker,            \* worker[w]: the state of one file worker
    outgoingCanceled,  \* outgoing.canceled, guarded by App.mu
    cancelGoroutine,   \* the goroutine of cancelActiveOffer has not sent yet
    decisionCh,        \* outgoing.decision, capacity 1
    resultCh,          \* outgoing.result
    succeeded,         \* the counters of runOutgoing
    failed,
    report,            \* what the sender's user was told at the end
    senderEnded,       \* establish returned: the session is over here
    senderError        \* serveSession returned an error about a frame

senderVars ==
    <<source, run, jobs, worker, outgoingCanceled, cancelGoroutine, decisionCh,
      resultCh, succeeded, failed, report, senderEnded, senderError>>

Workers == 1..MaxWorkers

\* "approved": as hashed into the manifest.  "rewritten": other content and
\* other size or time.  "forged": other content under the old size and time.
\* "truncated": too short to read completely.  "gone": cannot be opened.
SourceStates == {"approved", "rewritten", "forged", "truncated", "gone"}

\* The file's size and modification time are the ones in the manifest (a
\* handle that is already open still sees a removed file's).
StatUnchanged(s) == s \in {"approved", "forged", "gone"}
SameContent(s) == s \in {"approved", "gone"}

\* The places a worker can be at: "start" before its first job, "barrier" at
\* <-release, "open" about to open its file, "read" at the head of the chunk
\* loop, "send" with a chunk in its buffer, "complete" after the last chunk,
\* "failed" about to send file-failed, "next" between jobs, "exit" returned.
BusyPlaces == {"barrier", "open", "read", "send", "complete", "failed"}
IdlePlaces == {"start", "next", "exit"}

WorkerState ==
    [at: BusyPlaces, file: Files, offset: Nat, buffer: Nat, hashed: Seq(Nat)]
        \cup [at: IdlePlaces, file: {0}, offset: {0}, buffer: {0}, hashed: {<< >>}]

Worker(place, f, offset, buffer, hashed) ==
    [at |-> place, file |-> f, offset |-> offset, buffer |-> buffer, hashed |-> hashed]
IdleWorker(place) == Worker(place, 0, 0, 0, << >>)

SenderTypeOK ==
    /\ source \in [Files -> SourceStates]
    /\ run \in {"decision", "starting", "collect", "final", "done", "stopped"}
    /\ jobs \in Seq(Files)
    /\ worker \in [Workers -> WorkerState]
    /\ outgoingCanceled \in BOOLEAN
    /\ cancelGoroutine \in BOOLEAN
    /\ decisionCh \in {"none", "accept", "reject"}
    /\ resultCh \in Seq([file: Files \cup {WholeOffer}, verdict: Verdicts])
    /\ succeeded \in Nat
    /\ failed \in Nat
    /\ report \in {"none", "rejected", "canceled", "partial", "failed", "complete"}
    /\ senderEnded \in BOOLEAN
    /\ senderError \in BOOLEAN

SenderInit ==
    /\ source = [f \in Files |-> "approved"]
    /\ run = "decision"
    /\ jobs = << >>
    /\ worker = [w \in Workers |-> IdleWorker("exit")]
    /\ outgoingCanceled = FALSE
    /\ cancelGoroutine = FALSE
    /\ decisionCh = "none"
    /\ resultCh = << >>
    /\ succeeded = 0
    /\ failed = 0
    /\ report = "none"
    /\ senderEnded = FALSE
    /\ senderError = FALSE

\* current.outgoing is this offer.
OutgoingIsCurrent == run \in {"decision", "starting", "collect", "final"}

\* The source may change at any time after it was hashed into the manifest; a
\* change after the last look at it is of no consequence and left out.
ChangeSource(f) ==
    /\ source[f] = "approved"
    /\ Cardinality({g \in Files: source[g] # "approved"}) < MaxSourceChanges
    /\ \/ run = "decision"
       \/ \E i \in 1..Len(jobs): jobs[i] = f
       \/ \E w \in Workers: worker[w].file = f
    /\ \E s \in SourceFaults: source' = [source EXCEPT ![f] = s]
    /\ UNCHANGED <<run, jobs, worker, outgoingCanceled, cancelGoroutine, decisionCh,
                   resultCh, succeeded, failed, report, senderEnded, senderError>>
    /\ UNCHANGED wireVars

---------------------------------------------------------------------------
(* runOutgoing                                                             *)

adaptiveFileConcurrency ==
    IF FileCount = 0 THEN 0
    ELSE IF FileCount < ParallelThreshold THEN 1
    ELSE MaxWorkers

\* The decision arrives: a rejection clears the offer, an acceptance fills
\* the jobs channel and starts the workers.
TakeDecision ==
    /\ ~senderEnded /\ run = "decision" /\ decisionCh # "none"
    /\ decisionCh' = "none"
    /\ \/ /\ decisionCh = "reject"
          /\ run' = "done" /\ report' = "rejected"
          /\ UNCHANGED <<jobs, worker>>
       \/ /\ decisionCh = "accept"
          /\ run' = "starting"
          /\ jobs' = [i \in 1..FileCount |-> i]
          /\ worker' = [w \in Workers |->
                IdleWorker(IF w <= adaptiveFileConcurrency THEN "start" ELSE "exit")]
          /\ UNCHANGED report
    /\ UNCHANGED <<source, outgoingCanceled, cancelGoroutine, resultCh, succeeded,
                   failed, senderEnded, senderError>>
    /\ UNCHANGED wireVars

\* started.Wait(); close(release)
ReleaseWorkers ==
    /\ ~senderEnded /\ run = "starting"
    /\ \A w \in 1..adaptiveFileConcurrency: worker[w].at = "barrier"
    /\ run' = "collect"
    /\ UNCHANGED <<source, jobs, worker, outgoingCanceled, cancelGoroutine, decisionCh,
                   resultCh, succeeded, failed, report, senderEnded, senderError>>
    /\ UNCHANGED wireVars

\* BUG VARIANT of CountResult: every result counts as a success.
CountAnyResult(verdict) ==
    /\ succeeded' = succeeded + (IF verdict # "canceled" THEN 1 ELSE 0)
    /\ UNCHANGED failed

CountResult(verdict) ==
    /\ succeeded' = succeeded + (IF verdict = "ok" THEN 1 ELSE 0)
    /\ failed' = failed + (IF verdict = "failed" THEN 1 ELSE 0)

\* One turn of the loop that counts results until every file has one.
CollectResult ==
    /\ ~senderEnded /\ run = "collect" /\ succeeded + failed < FileCount
    /\ resultCh # << >>
    /\ resultCh' = Tail(resultCh)
    /\ LET verdict == Head(resultCh).verdict IN
        /\ CountResult(verdict)
        /\ run' = IF verdict = "canceled" THEN "done" ELSE run
        /\ report' = IF verdict = "canceled" THEN "canceled" ELSE report
    /\ UNCHANGED <<source, jobs, worker, outgoingCanceled, cancelGoroutine, decisionCh,
                   senderEnded, senderError>>
    /\ UNCHANGED wireVars

\* workers.Wait(), then batch-complete, which is not checked against canceled.
CompleteBatch ==
    /\ ~senderEnded /\ run = "collect" /\ succeeded + failed >= FileCount
    /\ \A w \in Workers: worker[w].at = "exit"
    /\ run' = "final"
    /\ SendToReceiver(BatchCompleteFrame)
    /\ UNCHANGED <<source, jobs, worker, outgoingCanceled, cancelGoroutine, decisionCh,
                   resultCh, succeeded, failed, report, senderEnded, senderError>>
    /\ UNCHANGED <<toSender, link>>

\* The result of the whole offer: clearOutgoing and the closing message.
FinishOutgoing ==
    /\ ~senderEnded /\ run = "final" /\ resultCh # << >>
    /\ resultCh' = Tail(resultCh)
    /\ run' = "done"
    /\ report' = IF failed > 0 THEN "partial"
                 ELSE IF Head(resultCh).verdict = "ok" THEN "complete" ELSE "failed"
    /\ UNCHANGED <<source, jobs, worker, outgoingCanceled, cancelGoroutine, decisionCh,
                   succeeded, failed, senderEnded, senderError>>
    /\ UNCHANGED wireVars

---------------------------------------------------------------------------
(* The file workers                                                        *)

WorkerUnchanged ==
    /\ UNCHANGED <<source, run, outgoingCanceled, cancelGoroutine, decisionCh,
                   resultCh, succeeded, failed, report, senderEnded, senderError>>
    /\ UNCHANGED <<toSender, link>>

\* Worker w is through with its file, or goes on with it.
Drops(w, place) == worker' = [worker EXCEPT ![w] = IdleWorker(place)]
Continues(w, place) ==
    worker' = [worker EXCEPT ![w] =
        Worker(place, worker[w].file, worker[w].offset, worker[w].buffer, worker[w].hashed)]

\* for entry := range jobs: the first job of a worker is announced to
\* started.Wait, and the worker returns once the channel is drained.
TakeJob(w) ==
    /\ worker[w].at \in {"start", "next"}
    /\ IF jobs = << >>
       THEN Drops(w, "exit") /\ UNCHANGED jobs
       ELSE /\ jobs' = Tail(jobs)
            /\ worker' = [worker EXCEPT ![w] =
                 Worker(IF worker[w].at = "start" THEN "barrier" ELSE "open",
                        Head(jobs), 0, 0, << >>)]
    /\ UNCHANGED toReceiver
    /\ WorkerUnchanged

\* <-release
PassBarrier(w) ==
    /\ worker[w].at = "barrier" /\ run # "starting"
    /\ Continues(w, "open")
    /\ UNCHANGED <<jobs, toReceiver>>
    /\ WorkerUnchanged

\* The canceled test, os.Open and the stat that must match the manifest.
OpenSource(w) ==
    /\ worker[w].at = "open"
    /\ LET s == source[worker[w].file] IN
       IF outgoingCanceled THEN Drops(w, "exit")
       ELSE Continues(w, IF s # "gone" /\ StatUnchanged(s) THEN "read" ELSE "failed")
    /\ UNCHANGED <<jobs, toReceiver>>
    /\ WorkerUnchanged

\* The head of the chunk loop: the canceled test, then the read of one chunk
\* into the worker's buffer and its hash.  A zero-byte file reads nothing.
ReadChunk(w) ==
    /\ worker[w].at = "read"
    /\ LET s == source[worker[w].file]
           data == DataAt(worker[w].offset, SameContent(s))
       IN IF outgoingCanceled THEN Drops(w, "exit")
          ELSE IF Size[worker[w].file] = 0 THEN Continues(w, "send")
          ELSE IF s = "truncated" THEN Continues(w, "failed")
          ELSE worker' = [worker EXCEPT ![w] =
                   Worker("send", worker[w].file, worker[w].offset, data,
                          Append(worker[w].hashed, data))]
    /\ UNCHANGED <<jobs, toReceiver>>
    /\ WorkerUnchanged

\* The chunk size of file f at any offset: entry.Size - offset or a full buffer.
ChunkBytes(f) == IF Size[f] = 0 THEN 0 ELSE 1

\* BUG VARIANT of ChunkSent: one chunk too many.
ChunkSentOffByOne(w, next) ==
    worker' = [worker EXCEPT ![w] =
        Worker(IF next <= Size[worker[w].file] THEN "read" ELSE "complete",
               worker[w].file, next, 0, worker[w].hashed)]

\* The loop goes on until the offset has reached the size of the file.
ChunkSent(w, next) ==
    worker' = [worker EXCEPT ![w] =
        Worker(IF next < Size[worker[w].file] THEN "read" ELSE "complete",
               worker[w].file, next, 0, worker[w].hashed)]

\* BUG VARIANT of SendChunk: the canceled test under the wire lock is dropped.
SendChunkUnchecked(w) ==
    /\ worker[w].at = "send"
    /\ LET f == worker[w].file
           next == worker[w].offset + ChunkBytes(f)
       IN /\ SendToReceiver(ContentFrame(f, worker[w].offset, ChunkBytes(f), worker[w].buffer))
          /\ ChunkSent(w, next)
    /\ UNCHANGED jobs
    /\ WorkerUnchanged

\* SendChunkChecked: canceled is tested again while holding the wire, and the
\* header and its bytes are written as one frame.
SendChunk(w) ==
    /\ worker[w].at = "send"
    /\ LET f == worker[w].file
           next == worker[w].offset + ChunkBytes(f)
       IN IF outgoingCanceled
          THEN Drops(w, "exit") /\ UNCHANGED toReceiver
          ELSE /\ SendToReceiver(ContentFrame(f, worker[w].offset, ChunkBytes(f), worker[w].buffer))
               /\ ChunkSent(w, next)
    /\ UNCHANGED jobs
    /\ WorkerUnchanged

\* After the last chunk: the second stat, the comparison with the approved
\* digest and SendChecked of the completion.
SendComplete(w) ==
    /\ worker[w].at = "complete"
    /\ LET f == worker[w].file
           ok == StatUnchanged(source[f]) /\ worker[w].hashed = Approved(f)
       IN IF outgoingCanceled
          THEN Drops(w, "exit") /\ UNCHANGED toReceiver
          ELSE /\ SendToReceiver(CompleteFrame(f, worker[w].hashed, ok))
               /\ Drops(w, "next")
    /\ UNCHANGED jobs
    /\ WorkerUnchanged

\* A file that could not be sent is reported; this Send is not checked
\* against canceled.
SendFileFailed(w) ==
    /\ worker[w].at = "failed"
    /\ SendToReceiver(FileFailedFrame(worker[w].file))
    /\ Drops(w, "next")
    /\ UNCHANGED jobs
    /\ WorkerUnchanged

WorkerStep(w) ==
    /\ ~senderEnded
    /\ \/ TakeJob(w) \/ PassBarrier(w) \/ OpenSource(w) \/ ReadChunk(w)
       \/ SendChunk(w) \/ SendComplete(w) \/ SendFileFailed(w)

---------------------------------------------------------------------------
(* The cancel command and the serve loop                                   *)

\* cancelActiveOffer: the flag under App.mu; the frame is sent by a goroutine.
\* transferActive holds from startTransfer to clearOutgoing.
CancelOutgoing ==
    /\ ~senderEnded /\ run \in {"starting", "collect", "final"}
    /\ ~outgoingCanceled
    /\ outgoingCanceled' = TRUE
    /\ cancelGoroutine' = TRUE
    /\ UNCHANGED <<source, run, jobs, worker, decisionCh, resultCh, succeeded, failed,
                   report, senderEnded, senderError>>
    /\ UNCHANGED wireVars

SendCancel ==
    /\ ~senderEnded /\ cancelGoroutine
    /\ cancelGoroutine' = FALSE
    /\ SendToReceiver(CancelFrame)
    /\ UNCHANGED <<source, run, jobs, worker, outgoingCanceled, decisionCh, resultCh,
                   succeeded, failed, report, senderEnded, senderError>>
    /\ UNCHANGED <<toSender, link>>

\* establish after serveSession returned: the context is canceled, so every
\* goroutine of the attempt returns, and the connection is closed; frames that
\* were not read are discarded with it.
EndSender(error) ==
    /\ senderEnded' = TRUE
    /\ senderError' = error
    /\ link' = "down"
    /\ run' = IF run = "done" THEN run ELSE "stopped"
    /\ worker' = [w \in Workers |-> IdleWorker("exit")]
    /\ jobs' = << >> /\ decisionCh' = "none" /\ resultCh' = << >>
    /\ cancelGoroutine' = FALSE
    /\ toSender' = << >>
    /\ UNCHANGED <<source, outgoingCanceled, succeeded, failed, report, toReceiver>>

\* routeOutgoing(decision): an offer that is not known any more ends the session.
ServeDecision ==
    /\ ~senderEnded /\ toSender # << >> /\ Head(toSender).type = "decision"
    /\ IF OutgoingIsCurrent
       THEN /\ toSender' = Tail(toSender)
            /\ decisionCh = "none"
            /\ decisionCh' = IF Head(toSender).accepted THEN "accept" ELSE "reject"
            /\ UNCHANGED <<source, run, jobs, worker, outgoingCanceled, cancelGoroutine,
                           resultCh, succeeded, failed, report, senderEnded, senderError,
                           toReceiver, link>>
       ELSE EndSender(TRUE)

\* BUG VARIANT of ServeResult: a result is dropped while outgoing.result is full.
ServeResultDropping ==
    /\ ~senderEnded /\ toSender # << >> /\ Head(toSender).type = "result"
    /\ IF OutgoingIsCurrent
       THEN /\ toSender' = Tail(toSender)
            /\ resultCh' = IF Len(resultCh) >= ResultCap THEN resultCh
                           ELSE Append(resultCh, [file |-> Head(toSender).file,
                                                  verdict |-> Head(toSender).verdict])
            /\ UNCHANGED <<source, run, jobs, worker, outgoingCanceled, cancelGoroutine,
                           decisionCh, succeeded, failed, report, senderEnded, senderError,
                           toReceiver, link>>
       ELSE EndSender(TRUE)

\* routeOutgoing(result): blocks while outgoing.result is full.
ServeResult ==
    /\ ~senderEnded /\ toSender # << >> /\ Head(toSender).type = "result"
    /\ IF OutgoingIsCurrent
       THEN /\ toSender' = Tail(toSender)
            /\ Len(resultCh) < ResultCap
            /\ resultCh' = Append(resultCh, [file |-> Head(toSender).file,
                                             verdict |-> Head(toSender).verdict])
            /\ UNCHANGED <<source, run, jobs, worker, outgoingCanceled, cancelGoroutine,
                           decisionCh, succeeded, failed, report, senderEnded, senderError,
                           toReceiver, link>>
       ELSE EndSender(TRUE)

\* BUG VARIANT of ServePeerCancel: the cancellation is not echoed.
ServePeerCancelSilently ==
    /\ ~senderEnded /\ toSender # << >> /\ Head(toSender).type = "cancel"
    /\ toSender' = Tail(toSender)
    /\ outgoingCanceled' = (outgoingCanceled \/ OutgoingIsCurrent)
    /\ UNCHANGED <<source, run, jobs, worker, cancelGoroutine, decisionCh, resultCh,
                   succeeded, failed, report, senderEnded, senderError, toReceiver, link>>

\* handlePeerCancellation on the sending side: stop future chunks, then echo
\* the ordered cancellation.
ServePeerCancel ==
    /\ ~senderEnded /\ toSender # << >> /\ Head(toSender).type = "cancel"
    /\ toSender' = Tail(toSender)
    /\ IF OutgoingIsCurrent
       THEN outgoingCanceled' = TRUE /\ SendToReceiver(CancelFrame)
       ELSE UNCHANGED <<outgoingCanceled, toReceiver>>
    /\ UNCHANGED <<source, run, jobs, worker, cancelGoroutine, decisionCh, resultCh,
                   succeeded, failed, report, senderEnded, senderError, link>>

\* Receive returns EOF or a transport error, or a write failed.
SenderLosesLink ==
    /\ ~senderEnded /\ link = "down"
    /\ EndSender(FALSE)

SenderServe == ServeDecision \/ ServeResult \/ ServePeerCancel
RunOutgoing == TakeDecision \/ ReleaseWorkers \/ CollectResult \/ CompleteBatch \/ FinishOutgoing
=============================================================================
