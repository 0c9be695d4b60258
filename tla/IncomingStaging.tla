-------------------------- MODULE IncomingStaging --------------------------
(***************************************************************************)
(* The destination disk and the receiving Transferly processes that share  *)
(* it: the review of an offer (reviewIncomingOffer, resolveIncomingPaths), *)
(* the preparation of its folders (prepareIncoming), the temporary files   *)
(* in .transferly-staging, publication without overwriting, and what is    *)
(* removed when an offer fails, is withdrawn, or its process dies.         *)
(*                                                                         *)
(* Every step is one that another process or a crash can come between; the *)
(* content of the files is the subject of FileReceiver and left out here:  *)
(* a file is published when all of it has arrived and been verified.       *)
(***************************************************************************)
EXTENDS ManifestPaths

CONSTANTS
    Process,          \* processes that receive
    Windows,          \* those of them that publish by MoveFileEx
    Destination,      \* folders, none inside another
    Default(_),       \* config.DefaultDestination of a process
    Selectable,       \* Selectable[p]: the destinations p's user chooses from
    Entries,          \* Entries[p]: the manifest of every offer to p
    MaxSuffix,        \* bounds the final names that can occur
    MaxOffers,        \* MaxOffers[p] bounds the offers to p
    MaxCrashes,       \* bounds the crashes of all processes
    UserPaths         \* UserPaths[d]: what the user may put into d meanwhile

ASSUME ProcessAssumption ==
    /\ IsFiniteSet(Process) /\ Windows \subseteq Process /\ "user" \notin Process
    /\ MaxOffers \in [Process -> Nat] /\ MaxCrashes \in Nat /\ MaxSuffix \in Nat
ASSUME DestinationAssumption ==
    \A p \in Process: Selectable[p] \subseteq Destination /\ Default(p) \in Destination
ASSUME EntriesAssumption ==
    \A p \in Process: /\ Entries[p] \in Seq([path: Seq(Seq(Nat)), kind: {manifestFile, manifestFolder}])
                      /\ IsApproved(Entries[p])

VARIABLES
    tree,             \* tree[d][x]: what is at path x of d
    folders,          \* the destinations that have a .transferly-staging folder
    staging,          \* staging[d]: the temporary files in it
    phase,            \* where the offer to p is
    destination,      \* incoming.destination
    staleStaging,     \* incoming.staleStaging
    finals,           \* incoming.finalPaths: the final names of the roots ...
    finalsIn,         \* ... and the destination they were resolved for
    created,          \* incoming.createdDirectories
    prepared,         \* the entries prepareIncoming has gone through
    stream,           \* stream[p][f]: receivingFiles and fileOutcomes of file f
    offer,            \* offer[p]: the number of offers to p so far
    reviewed,         \* the last choice of a destination was without an error
    fate,             \* fate[p][n]: how the n-th offer to p ended
    crashes           \* how many processes have died

diskVars == <<tree, folders, staging>>
reviewVars == <<destination, staleStaging, finals, finalsIn, reviewed>>
boundVars == <<offer, fate, crashes>>
vars == <<diskVars, reviewVars, boundVars, phase, created, prepared, stream>>

\* The roots of the offer, by their numbers in the manifest.
Roots(p) == [i \in {j \in DOMAIN Entries[p]: IsTopLevel(Entries[p][j].path)} |-> Entries[p][i].path[1]]
Files(p) == {e.path: e \in FilesOf(Entries[p])}

\* Every final path that an offer can be given.
RootNames == UNION {{Roots(p)[i]: i \in DOMAIN Roots(p)}: p \in Process}
FinalNames == {Candidate(root, k): root \in RootNames, k \in 0..MaxSuffix}
Places == {[e.path EXCEPT ![1] = name]: e \in UNION {ToSet(Entries[p]): p \in Process}, name \in FinalNames}

ASSUME UserAssumption == \A d \in Destination: UserPaths[d] \subseteq Places

Absent == [kind |-> "absent", by |-> "user", offer |-> 0]
Node(kind, by, n) == [kind |-> kind, by |-> by, offer |-> n]
Temp(p, f) == [by |-> p, offer |-> offer[p], path |-> f]
Exists(d, x) == tree[d][x] # Absent
\* The folder that x is in is there.
HasParent(d, x) == \A y \in Ancestors(x): y \in Places /\ tree[d][y].kind = manifestFolder
Children(d, x) == {y \in Places: x \in Ancestors(y) /\ Exists(d, y)}

\* The final path of an entry's path, in finalsIn[p].
Target(p, path) == incomingPath(Roots(p), finals[p], path)
Resolved(p, path) == FinalOf(Roots(p), finals[p], path[1]) # << >>

NoFinals(p) == [i \in DOMAIN Roots(p) |-> << >>]

\* The serve loop is inside a handler: nothing else of p's offer moves.
Handling(p) == \E f \in Files(p): stream[p][f] \in {"opening", "linked", "published"}

TypeOK ==
    /\ tree \in [Destination -> [Places -> [kind: {"absent", manifestFile, manifestFolder},
                                            by: Process \cup {"user"}, offer: Nat]]]
    /\ folders \subseteq Destination
    /\ staging \in [Destination -> SUBSET [by: Process, offer: Nat, path: UNION {Files(p): p \in Process}]]
    /\ \A d \in Destination: \A t \in staging[d]:
        d \in folders /\ t.offer \in 1..offer[t.by] /\ t.path \in Files(t.by)
    /\ phase \in [Process -> {"none", "review", "preparing", "rollback", "receiving", "withdrawing"}]
    /\ destination \in [Process -> Destination]
    /\ finalsIn \in [Process -> Destination]
    /\ staleStaging \in [Process -> BOOLEAN] /\ reviewed \in [Process -> BOOLEAN]
    /\ created \in [Process -> Seq(Places)]
    /\ offer \in [Process -> Nat]
    /\ DOMAIN finals = Process /\ DOMAIN prepared = Process /\ DOMAIN stream = Process /\ DOMAIN fate = Process
    /\ \A p \in Process:
        /\ finals[p] \in [DOMAIN Roots(p) -> FinalNames \cup {<< >>}]
        /\ prepared[p] \subseteq DOMAIN Entries[p]
        /\ stream[p] \in [Files(p) -> {"none", "opening", "open", "broken", "linked",
                                       "published", "done", "failed", "stuck"}]
        /\ fate[p] \in [1..MaxOffers[p] -> {"open", "closed", "withdrawn", "crashed"}]
        /\ offer[p] <= MaxOffers[p]
    /\ crashes \in 0..MaxCrashes

Init ==
    /\ tree = [d \in Destination |-> [x \in Places |-> Absent]]
    /\ folders = {}
    /\ staging = [d \in Destination |-> {}]
    /\ phase = [p \in Process |-> "none"]
    /\ destination = [p \in Process |-> Default(p)]
    /\ staleStaging = [p \in Process |-> FALSE]
    /\ finals = [p \in Process |-> NoFinals(p)]
    /\ finalsIn = destination
    /\ created = [p \in Process |-> << >>]
    /\ prepared = [p \in Process |-> {}]
    /\ stream = [p \in Process |-> [f \in Files(p) |-> "none"]]
    /\ offer = [p \in Process |-> 0]
    /\ reviewed = [p \in Process |-> FALSE]
    /\ fate = [p \in Process |-> [n \in 1..MaxOffers[p] |-> "open"]]
    /\ crashes = 0

\* The incomingOffer is dropped: the next one starts afresh.
Forget(p, how) ==
    /\ phase' = [phase EXCEPT ![p] = "none"]
    /\ destination' = [destination EXCEPT ![p] = Default(p)]
    /\ staleStaging' = [staleStaging EXCEPT ![p] = FALSE]
    /\ finals' = [finals EXCEPT ![p] = NoFinals(p)]
    /\ finalsIn' = [finalsIn EXCEPT ![p] = Default(p)]
    /\ reviewed' = [reviewed EXCEPT ![p] = FALSE]
    /\ created' = [created EXCEPT ![p] = << >>]
    /\ prepared' = [prepared EXCEPT ![p] = {}]
    /\ stream' = [stream EXCEPT ![p] = [f \in Files(p) |-> "none"]]
    /\ fate' = [fate EXCEPT ![p][offer[p]] = how]
    /\ UNCHANGED offer

---------------------------------------------------------------------------
(* The review of an offer                                                  *)

\* BUG VARIANT: the folder goes with everything in it.
RemoveTempsAll(d, gone) ==
    /\ staging' = [staging EXCEPT ![d] = @ \ gone]
    /\ folders' = folders \ {d}

\* Temporary files are removed, then removeEmptyStagingDirectory: os.Remove
\* leaves a folder that has files.
RemoveTemps(d, gone) ==
    /\ staging' = [staging EXCEPT ![d] = @ \ gone]
    /\ folders' = IF staging[d] \subseteq gone THEN folders \ {d} ELSE folders

\* destinationNameReservations: the names in d, without case.
Reservations(d) == {Key(x[1]): x \in {y \in Places: IsTopLevel(y) /\ Exists(d, y)}}

\* resolveIncomingPaths: hasStaleStaging removes the staging folder when it is
\* empty and calls it stale otherwise; the roots get their final names.
resolveIncomingPaths(p, d) ==
    /\ destination' = [destination EXCEPT ![p] = d]
    /\ staleStaging' = [staleStaging EXCEPT ![p] = staging[d] # {}]
    /\ RemoveTemps(d, {})
    /\ \E names \in resolveRoots(Roots(p), Reservations(d), FinalNames): finals' = [finals EXCEPT ![p] = names]
    /\ finalsIn' = [finalsIn EXCEPT ![p] = d]
    /\ reviewed' = [reviewed EXCEPT ![p] = TRUE]

\* A new offer is reviewed at the default destination. (With an error the
\* session ends and nothing has changed.)
StartReview(p) ==
    /\ phase[p] = "none" /\ offer[p] < MaxOffers[p]
    /\ resolveIncomingPaths(p, Default(p))
    /\ \A i \in DOMAIN Roots(p): finals'[p][i] # << >>
    /\ phase' = [phase EXCEPT ![p] = "review"]
    /\ offer' = [offer EXCEPT ![p] = @ + 1]
    /\ UNCHANGED <<tree, created, prepared, stream, fate, crashes>>

\* destination <path>. A root whose name became too long is an error as well,
\* but everything before it has been assigned.
ChooseDestination(p) ==
    /\ phase[p] = "review"
    /\ \E d \in Selectable[p]: resolveIncomingPaths(p, d)
    /\ UNCHANGED <<tree, phase, created, prepared, stream, boundVars>>

\* The destination cannot be listed: only incoming.destination has been assigned.
DestinationUnlisted(p) ==
    /\ phase[p] = "review"
    /\ \E d \in Selectable[p]: destination' = [destination EXCEPT ![p] = d]
    /\ reviewed' = [reviewed EXCEPT ![p] = FALSE]
    /\ UNCHANGED <<diskVars, phase, staleStaging, finals, finalsIn, created, prepared,
                   stream, boundVars>>

\* The staging folder cannot be inspected: hasStaleStaging returns false with
\* its error, and that is assigned too.
DestinationUninspected(p) ==
    /\ phase[p] = "review"
    /\ \E d \in Selectable[p]: destination' = [destination EXCEPT ![p] = d]
    /\ staleStaging' = [staleStaging EXCEPT ![p] = FALSE]
    /\ reviewed' = [reviewed EXCEPT ![p] = FALSE]
    /\ UNCHANGED <<diskVars, phase, finals, finalsIn, created, prepared, stream, boundVars>>

\* BUG VARIANT: the flag is cleared although RemoveAll failed.
CleanupClearsFlag(p) ==
    /\ phase[p] = "review" /\ staleStaging[p]
    /\ \E left \in SUBSET staging[destination[p]]:
        staging' = [staging EXCEPT ![destination[p]] = left]
    /\ staleStaging' = [staleStaging EXCEPT ![p] = FALSE]
    /\ UNCHANGED <<tree, folders, phase, destination, finals, finalsIn, reviewed, created, prepared,
                   stream, boundVars>>

\* cleanup-staging: RemoveAll of whatever is there, also the live files of
\* another process. It may stop with an error (Windows keeps open files), and
\* then the flag stays.
CleanupStaging(p) ==
    /\ phase[p] = "review" /\ staleStaging[p]
    /\ LET d == destination[p] IN
        \/ /\ RemoveTemps(d, staging[d])
           /\ staleStaging' = [staleStaging EXCEPT ![p] = FALSE]
        \/ /\ \E left \in SUBSET staging[d]: staging' = [staging EXCEPT ![d] = left]
           /\ UNCHANGED <<folders, staleStaging>>
    /\ UNCHANGED <<tree, phase, destination, finals, finalsIn, reviewed, created, prepared,
                   stream, boundVars>>

\* reject writes nothing to the disk.
Reject(p) ==
    /\ phase[p] = "review"
    /\ Forget(p, "closed")
    /\ UNCHANGED <<diskVars, crashes>>

---------------------------------------------------------------------------
(* accept: prepareIncoming                                                 *)

\* accept: refused on the flag that the last review left, whatever the staging
\* folder holds now.
Accept(p) ==
    /\ phase[p] = "review" /\ ~staleStaging[p]
    /\ phase' = [phase EXCEPT ![p] = "preparing"]
    /\ prepared' = [prepared EXCEPT ![p] = {}]
    /\ created' = [created EXCEPT ![p] = << >>]
    /\ UNCHANGED <<diskVars, reviewVars, stream, boundVars>>

\* A folder is made and remembered; for a file its place must be free.
Make(p, d, e) ==
    LET x == Target(p, e.path) IN
    /\ Resolved(p, e.path)
    /\ ~Exists(d, x) /\ HasParent(d, x)
    /\ IF e.kind = manifestFolder
       THEN /\ tree' = [tree EXCEPT ![d][x] = Node(manifestFolder, p, offer[p])]
            /\ created' = [created EXCEPT ![p] = Append(@, x)]
       ELSE UNCHANGED <<tree, created>>

\* BUG VARIANT: the check that the final path lies in the destination is missing.
PrepareAnywhere(p) ==
    /\ phase[p] = "preparing"
    /\ \E i \in NextToPrepare(Entries[p], prepared[p]):
        /\ Make(p, finalsIn[p], Entries[p][i])
        /\ prepared' = [prepared EXCEPT ![p] = @ \cup {i}]
    /\ UNCHANGED <<folders, staging, reviewVars, phase, stream, boundVars>>

\* A path of one destination is beneath it and beneath no other.
ensurePathBeneath(d, at) == at = d

\* One root or nested folder: it must lie beneath the destination and must not
\* exist.
PrepareEntry(p) ==
    /\ phase[p] = "preparing" /\ ensurePathBeneath(destination[p], finalsIn[p])
    /\ \E i \in NextToPrepare(Entries[p], prepared[p]):
        /\ Make(p, destination[p], Entries[p][i])
        /\ prepared' = [prepared EXCEPT ![p] = @ \cup {i}]
    /\ UNCHANGED <<folders, staging, reviewVars, phase, stream, boundVars>>

\* Any check or system call of prepareIncoming fails: rollbackRoots.
PrepareFails(p) ==
    /\ phase[p] = "preparing"
    /\ phase' = [phase EXCEPT ![p] = "rollback"]
    /\ UNCHANGED <<diskVars, reviewVars, created, prepared, stream, boundVars>>

\* os.Remove of a folder leaves it when there is something in it.
RemoveFolder(d, x) == tree' = IF Children(d, x) = {} THEN [tree EXCEPT ![d][x] = Absent] ELSE tree

\* BUG VARIANT: the folders are removed in the order they were made.
RemoveForwards(p) ==
    /\ phase[p] \in {"rollback", "withdrawing"} /\ created[p] # << >>
    /\ RemoveFolder(finalsIn[p], Head(created[p]))
    /\ created' = [created EXCEPT ![p] = Tail(@)]
    /\ UNCHANGED <<folders, staging, reviewVars, phase, prepared, stream, boundVars>>

\* One round of removeCreatedDirectories: the last one first.
removeCreatedDirectories(p) ==
    /\ phase[p] \in {"rollback", "withdrawing"} /\ created[p] # << >>
    /\ RemoveFolder(finalsIn[p], Last(created[p]))
    /\ created' = [created EXCEPT ![p] = Front(@)]
    /\ UNCHANGED <<folders, staging, reviewVars, phase, prepared, stream, boundVars>>

\* After the rollback the review goes on.
ResumeReview(p) ==
    /\ phase[p] = "rollback" /\ created[p] = << >>
    /\ phase' = [phase EXCEPT ![p] = "review"]
    /\ prepared' = [prepared EXCEPT ![p] = {}]
    /\ UNCHANGED <<diskVars, reviewVars, created, stream, boundVars>>

\* MkdirAll of the staging folder; the offer is accepted.
FinishPreparing(p) ==
    /\ phase[p] = "preparing" /\ Unprepared(Entries[p], prepared[p]) = {}
    /\ phase' = [phase EXCEPT ![p] = "receiving"]
    /\ folders' = folders \cup {destination[p]}
    /\ UNCHANGED <<tree, staging, reviewVars, created, prepared, stream, boundVars>>

---------------------------------------------------------------------------
(* The files: receive.go and publication_*.go                              *)

SetStream(p, f, s) == stream' = [stream EXCEPT ![p][f] = s]
HasTemp(p, f) == Temp(p, f) \in staging[destination[p]]

\* startReceivingFile makes the staging folder again, or finds it unsafe or
\* refused ...
startReceivingFile(p, f) ==
    /\ phase[p] = "receiving" /\ ~Handling(p) /\ stream[p][f] = "none"
    /\ \/ folders' = folders \cup {destination[p]} /\ SetStream(p, f, "opening")
       \/ SetStream(p, f, "broken") /\ UNCHANGED folders
    /\ UNCHANGED <<tree, staging, reviewVars, phase, created, prepared, boundVars>>

\* ... and a temporary file in it, unless the folder has been removed since or
\* the disk refuses; the stream is drained all the same.
CreateTemp(p, f) ==
    /\ stream[p][f] = "opening"
    /\ \/ /\ destination[p] \in folders
          /\ staging' = [staging EXCEPT ![destination[p]] = @ \cup {Temp(p, f)}]
          /\ SetStream(p, f, "open")
       \/ SetStream(p, f, "broken") /\ UNCHANGED staging
    /\ UNCHANGED <<tree, folders, reviewVars, phase, created, prepared, boundVars>>

\* BUG VARIANT: the temporary file of a failed file is forgotten.
FailKeepsTemp(p, f) ==
    /\ phase[p] = "receiving" /\ ~Handling(p) /\ stream[p][f] \in {"open", "broken"}
    /\ SetStream(p, f, "failed")
    /\ UNCHANGED <<diskVars, reviewVars, phase, created, prepared, boundVars>>

\* failIncomingFile and receiveFileFailure, for whatever reason: the temporary
\* file and then an empty staging folder are removed.
failIncomingFile(p, f) ==
    /\ phase[p] = "receiving" /\ ~Handling(p) /\ stream[p][f] \in {"open", "broken"}
    /\ RemoveTemps(destination[p], {Temp(p, f)})
    /\ SetStream(p, f, "failed")
    /\ UNCHANGED <<tree, reviewVars, phase, created, prepared, boundVars>>

\* BUG VARIANT: publication renames over whatever is there.
LinkReplacing(p, f) ==
    /\ p \notin Windows
    /\ phase[p] = "receiving" /\ ~Handling(p) /\ stream[p][f] = "open"
    /\ LET d == finalsIn[p] IN
        /\ HasTemp(p, f)
        /\ tree' = [tree EXCEPT ![d][Target(p, f)] = Node(manifestFile, p, offer[p])]
    /\ SetStream(p, f, "linked")
    /\ UNCHANGED <<folders, staging, reviewVars, phase, created, prepared, boundVars>>

\* publishWithoutOverwrite on Unix: os.Link needs the temporary file and a free
\* final path (otherwise the file fails).
Link(p, f) ==
    /\ p \notin Windows
    /\ phase[p] = "receiving" /\ ~Handling(p) /\ stream[p][f] = "open"
    /\ LET d == finalsIn[p] IN
        /\ HasTemp(p, f)
        /\ ~Exists(d, Target(p, f))
        /\ tree' = [tree EXCEPT ![d][Target(p, f)] = Node(manifestFile, p, offer[p])]
    /\ SetStream(p, f, "linked")
    /\ UNCHANGED <<folders, staging, reviewVars, phase, created, prepared, boundVars>>

\* BUG VARIANT: the new name stays when the temporary file cannot be removed.
UnlinkKeepsFinal(p, f) ==
    /\ stream[p][f] = "linked"
    /\ SetStream(p, f, IF HasTemp(p, f) THEN "published" ELSE "failed")
    /\ staging' = [staging EXCEPT ![destination[p]] = @ \ {Temp(p, f)}]
    /\ UNCHANGED <<tree, folders, reviewVars, phase, created, prepared, boundVars>>

\* ... then os.Remove of the temporary file; when it is gone already the final
\* path is removed again and the file fails.
Unlink(p, f) ==
    /\ stream[p][f] = "linked"
    /\ IF HasTemp(p, f)
       THEN /\ staging' = [staging EXCEPT ![destination[p]] = @ \ {Temp(p, f)}]
            /\ SetStream(p, f, "published")
            /\ UNCHANGED <<tree, folders>>
       ELSE /\ tree' = [tree EXCEPT ![finalsIn[p]][Target(p, f)] = Absent]
            /\ RemoveTemps(destination[p], {})
            /\ SetStream(p, f, "failed")
    /\ UNCHANGED <<reviewVars, phase, created, prepared, boundVars>>

\* publishWithoutOverwrite on Windows: one MoveFileEx that does not replace.
Move(p, f) ==
    /\ p \in Windows
    /\ phase[p] = "receiving" /\ ~Handling(p) /\ stream[p][f] = "open"
    /\ LET d == finalsIn[p] IN
        /\ HasTemp(p, f)
        /\ ~Exists(d, Target(p, f))
        /\ tree' = [tree EXCEPT ![d][Target(p, f)] = Node(manifestFile, p, offer[p])]
        /\ staging' = [staging EXCEPT ![destination[p]] = @ \ {Temp(p, f)}]
    /\ SetStream(p, f, "published")
    /\ UNCHANGED <<folders, reviewVars, phase, created, prepared, boundVars>>

\* applyBasicMetadata and the success result; or the file fails and is removed
\* from its final path, which may be refused without anybody noticing.
ApplyMetadata(p, f) ==
    /\ stream[p][f] = "published"
    /\ \/ SetStream(p, f, "done") /\ UNCHANGED tree
       \/ SetStream(p, f, "failed") /\ tree' = [tree EXCEPT ![finalsIn[p]][Target(p, f)] = Absent]
       \/ SetStream(p, f, "stuck") /\ UNCHANGED tree
    /\ UNCHANGED <<folders, staging, reviewVars, phase, created, prepared, boundVars>>

\* completeIncomingBatch with an outcome for every file.
completeIncomingBatch(p) ==
    /\ phase[p] = "receiving"
    /\ \A f \in Files(p): stream[p][f] \in {"done", "failed", "stuck"}
    /\ RemoveTemps(destination[p], {})
    /\ Forget(p, "closed")
    /\ UNCHANGED <<tree, crashes>>

---------------------------------------------------------------------------
(* The end of an offer                                                     *)

\* removeIncomingFiles after a cancellation, a failed decision or the end of
\* the session (cleanupIncoming waits for the review goroutine, so that never
\* falls into prepareIncoming): the temporary files of the open streams go
\* first, then the folders, one by one.
removeIncomingFiles(p) ==
    /\ phase[p] \in {"review", "receiving"} /\ ~Handling(p)
    /\ RemoveTemps(destination[p], {Temp(p, f): f \in {g \in Files(p): stream[p][g] = "open"}})
    /\ phase' = [phase EXCEPT ![p] = "withdrawing"]
    /\ stream' = [stream EXCEPT ![p] = [f \in Files(p) |-> "none"]]
    /\ UNCHANGED <<tree, reviewVars, created, prepared, boundVars>>

\* clearIncoming
clearIncoming(p) ==
    /\ phase[p] = "withdrawing" /\ created[p] = << >>
    /\ Forget(p, "withdrawn")
    /\ UNCHANGED <<diskVars, crashes>>

\* The process dies between any two of its steps.
Crash(p) ==
    /\ phase[p] # "none" /\ crashes < MaxCrashes
    /\ crashes' = crashes + 1
    /\ Forget(p, "crashed")
    /\ UNCHANGED diskVars

\* The user puts something of their own into the destination.
UserCreates(d, x) ==
    /\ ~Exists(d, x) /\ HasParent(d, x)
    /\ tree' = [tree EXCEPT ![d][x] = Node(manifestFile, "user", 0)]
    /\ UNCHANGED <<folders, staging, reviewVars, phase, created, prepared, stream, boundVars>>

ReviewStep(p) ==
    \/ StartReview(p) \/ ChooseDestination(p)
    \/ DestinationUnlisted(p) \/ DestinationUninspected(p)
    \/ CleanupStaging(p) \/ Reject(p)
    \/ Accept(p) \/ PrepareEntry(p) \/ PrepareFails(p) \/ removeCreatedDirectories(p)
    \/ ResumeReview(p) \/ FinishPreparing(p)

FileStep(p, f) ==
    \/ startReceivingFile(p, f) \/ CreateTemp(p, f) \/ failIncomingFile(p, f)
    \/ Link(p, f) \/ Unlink(p, f) \/ Move(p, f) \/ ApplyMetadata(p, f)

Next ==
    \/ \E p \in Process: ReviewStep(p) \/ (\E f \in Files(p): FileStep(p, f))
    \/ \E p \in Process: completeIncomingBatch(p) \/ removeIncomingFiles(p) \/ clearIncoming(p) \/ Crash(p)
    \/ \E d \in Destination: \E x \in UserPaths[d]: UserCreates(d, x)

Spec == Init /\ [][Next]_vars

---------------------------------------------------------------------------
(* Properties                                                              *)

\* README.md:93: "atomically published without overwriting existing content".
\* Whatever is in a destination stays as it is, except that a process takes
\* back what its own running offer has put there: an empty folder, or a file it
\* has not reported as received. Not even two processes that were shown the
\* same final paths disturb each other, or the user.
NothingOverwritten ==
    [][\A d \in Destination, x \in Places:
        LET n == tree[d][x] IN
        Exists(d, x) /\ tree'[d][x] # n =>
            /\ tree'[d][x] = Absent
            /\ n.by \in Process /\ n.offer = offer[n.by] /\ phase[n.by] # "none"
            /\ n.kind = manifestFile =>
                 \E f \in Files(n.by): Target(n.by, f) = x /\ stream[n.by][f] \in {"linked", "published"}
            /\ \A y \in Places: x \in Ancestors(y) => tree'[d][y] = Absent]_vars

\* What a receiver has reported to its Peer is true of the disk, until the offer
\* has left the process. A file reported as received is at its final path, put
\* there by this offer (receive.go:160); one reported as failed is not
\* (receive.go:206: "incomplete content was removed"), unless its metadata could
\* not be written and the removal was refused ("stuck").
ReportsAreTrue ==
    \A p \in Process: phase[p] = "receiving" =>
        \A f \in Files(p):
            LET there == tree[finalsIn[p]][Target(p, f)] = Node(manifestFile, p, offer[p]) IN
            /\ stream[p][f] = "done" => there
            /\ stream[p][f] = "failed" => ~there

\* README.md:95: "Incomplete staging is removed". Every temporary file belongs to
\* a stream that is being received, or its process has died; and while no
\* process has died and none receives, the staging folders are gone too.
TempsAreAccountedFor ==
    /\ \A d \in Destination: \A t \in staging[d]:
        \/ fate[t.by][t.offer] = "crashed"
        \/ /\ t.offer = offer[t.by] /\ phase[t.by] = "receiving" /\ destination[t.by] = d
           /\ stream[t.by][t.path] \in {"open", "linked"}
    /\ (crashes = 0 /\ \A p \in Process: phase[p] # "receiving") => folders = {}

\* README.md:97: staging "left by a crash is detected the next time that
\* destination is reviewed": a process that has restarted accepts nothing while
\* its own old temporary files are there, however the cleanup went, if the last
\* destination command did not fail.
OwnLeftoversGone ==
    \A p \in Process: (phase[p] \in {"preparing", "receiving"} /\ reviewed[p]) =>
        \A t \in staging[destination[p]]: t.by = p => t.offer = offer[p]

\* An accepted offer goes where its final paths were shown: into the destination
\* that holds its staging folder, also after destination commands that failed.
AcceptedWhereShown ==
    \A p \in Process: phase[p] = "receiving" =>
        finalsIn[p] = destination[p] /\ \A i \in DOMAIN Roots(p): finals[p][i] # << >>

\* A refused accept and a withdrawn offer leave no empty folder behind
\* (staging.go:36, cleanup.go:66), but what others have put something into.
NoEmptyFolderLeft ==
    \A d \in Destination, x \in Places:
        LET n == tree[d][x] IN
        /\ n.kind = manifestFolder
        /\ \/ phase[n.by] = "review" /\ n.offer = offer[n.by]
           \/ fate[n.by][n.offer] = "withdrawn"
        => Children(d, x) # {}
=============================================================================
