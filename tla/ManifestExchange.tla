-------------------------- MODULE ManifestExchange --------------------------
(***************************************************************************)
(* A Transfer Offer from the paths given to send to the folders made at    *)
(* the receiver: the walk over the source, which may change meanwhile      *)
(* (buildManifest, walkManifestRoot), the frames of sendManifest and their *)
(* size, the checks of the receiving Peer (handleIncomingOffer,            *)
(* handleIncomingManifest, validateReceivedManifest) and the final paths   *)
(* and folders of the offer.                                               *)
(*                                                                         *)
(* The frames may also come from another implementation of the protocol,   *)
(* so that the receiver's checks meet what this sender never writes.       *)
(***************************************************************************)
EXTENDS ManifestPaths

CONSTANTS
    Arguments,     \* the base names of the paths given to send
    Sources,       \* the source trees: functions from places to kinds
    OtherOffers,   \* frame sequences of another implementation
    Listings,      \* what the destination may hold: sets of names
    Size,          \* Size[b]: the size of a file whose name has base b
    Encoded,       \* Encoded[b]: the length of b in JSON, which escapes '&' as \u0026
    MaxEntries,    \* maxManifestEntries
    MaxOmissions,  \* maxManifestOmissions
    MaxTotal,      \* the greatest int64
    Overhead,      \* what a manifest-entry frame adds to its path
    MaxFrame,      \* maximumFrameBytes
    MaxChanges     \* bounds the changes of the source during the walk

VARIABLES
    arguments,     \* the names of the paths given to send
    source,        \* the file system at the sender; a place starts with the
                   \* number of its argument, <<n>>, the names below it follow
    phase,         \* "building", "built", "sent", "unsent", "failed" or "other"
    manifest,      \* offerManifest at the sender
    nextRoot,      \* the loop of buildManifest
    pending,       \* calls of walkManifestRoot still to be made, in order
    changes,
    wire,          \* frames under way
    header,        \* the counts of the offer frame, as they arrived
    received,      \* incoming.manifest: entries, omissions and roots
    verdict,       \* what became of the offer at the receiver
    listing,       \* names in the destination
    caseSensitive, \* how its file system compares names
    finals,        \* the final names of the roots
    made           \* the entries prepareIncoming has gone through

senderVars == <<arguments, source, phase, manifest, nextRoot, pending, changes>>
destinationVars == <<listing, caseSensitive, finals>>
receiverVars == <<header, received, verdict, destinationVars, made>>
vars == <<senderVars, wire, receiverVars>>

Int64 == -(MaxTotal + 1)..MaxTotal
Kinds == {"absent", "file", "unreadable", "folder", "locked", "link", "other"}
Entry(path, kind, size) == [path |-> path, kind |-> kind, size |-> size]
EmptyManifest == [roots |-> << >>, entries |-> << >>, omissions |-> << >>,
                  files |-> 0, folders |-> 0, bytes |-> 0]
NoHeader == [roots |-> 0, files |-> 0, folders |-> 0, bytes |-> 0]

RootPlace(n) == << <<n>> >>
\* The path of a place on the wire: the name of its root, then the rest.
Relative(x) == [x EXCEPT ![1] = arguments[x[1][1]]]
PathsOf(s) == {s[i].path: i \in DOMAIN s}
TotalSize(entries) == Total([i \in DOMAIN entries |-> entries[i].size])
\* int64 arithmetic
Wrap(n) == ((n + MaxTotal + 1) % (2 * (MaxTotal + 1))) - (MaxTotal + 1)
Count(entries, kind) == Cardinality({i \in DOMAIN entries: entries[i].kind = kind})

OfferFrame(roots, files, folders, bytes) ==
    [type |-> "offer", roots |-> roots, files |-> files, folders |-> folders, bytes |-> bytes]
EntryFrame(e) == [type |-> "manifest-entry", path |-> e.path, kind |-> e.kind, size |-> e.size]
OmissionFrame(o) == [type |-> "manifest-omission", path |-> o.path]
CompleteFrame == [type |-> "offer-complete"]

\* Whatever another implementation sends; every kind this one does not know is
\* the same to it.
FrameKinds == {manifestFile, manifestFolder, "other"}
OtherFrames ==
    [type: {"offer"}, roots: Int, files: Int, folders: Int, bytes: Int64]
    \cup [type: {"manifest-entry"}, path: Seq(Names), kind: FrameKinds, size: Int64]
    \cup [type: {"manifest-omission"}, path: Seq(Names)]
    \cup {CompleteFrame}

ASSUME ManifestAssumption ==
    /\ {MaxEntries, MaxOmissions, MaxTotal, MaxChanges, MaxPath} \subseteq Nat
    /\ Overhead \in Nat /\ MaxFrame \in Nat /\ MaxPath + Overhead <= MaxFrame
    /\ \A b \in DOMAIN Fold: Size[b] \in 0..MaxTotal /\ Bytes[b] \in Nat /\ Encoded[b] \in Nat

ASSUME OffersAssumption ==
    /\ \A frames \in OtherOffers: frames \in Seq(OtherFrames)
    /\ \A names \in Listings: IsFiniteSet(names) /\ names \subseteq Names

\* A tree has the places of its arguments, and whatever a place is in.
IsTree(tree, args) ==
    /\ IsFiniteSet(DOMAIN tree)
    /\ \A n \in DOMAIN args: RootPlace(n) \in DOMAIN tree
    /\ \A x \in DOMAIN tree:
        /\ tree[x] \in Kinds
        /\ x \in Seq(Seq(Nat)) /\ x # << >>
        /\ Len(x[1]) = 1 /\ x[1][1] \in DOMAIN args
        /\ \A i \in 2..Len(x): x[i] \in Names
        /\ Ancestors(x) \subseteq DOMAIN tree

ASSUME SourcesAssumption ==
    \A args \in Arguments: args \in Seq(Names) /\ \A tree \in Sources: IsTree(tree, args)

TypeOK ==
    /\ \A x \in DOMAIN source: source[x] \in Kinds
    /\ phase \in {"building", "built", "sent", "unsent", "failed", "other"}
    /\ manifest.files + manifest.folders = Len(manifest.entries)
    /\ Len(manifest.entries) <= MaxEntries /\ Len(manifest.omissions) <= MaxOmissions
    /\ manifest.bytes \in 0..MaxTotal
    /\ nextRoot \in 1..(Len(arguments) + 1)
    /\ ToSet(pending) \subseteq DOMAIN source
    /\ changes \in 0..MaxChanges
    /\ Len(received.entries) <= MaxEntries /\ Len(received.omissions) <= MaxOmissions
    /\ verdict \in {"none", "collecting", "refused", "reviewed", "unresolved", "prepared", "unprepared"}

Init ==
    /\ \/ /\ phase = "building" /\ wire = << >>
          /\ source \in Sources /\ arguments \in Arguments
       \/ /\ phase = "other" /\ wire \in OtherOffers
          /\ source = << >> /\ arguments = << >>
    /\ manifest = EmptyManifest
    /\ nextRoot = 1
    /\ pending = << >>
    /\ changes = 0
    /\ header = NoHeader
    /\ received = EmptyManifest
    /\ verdict = "none"
    /\ listing = {} /\ caseSensitive = FALSE
    /\ finals = << >>
    /\ made = {}

---------------------------------------------------------------------------
(* The sender                                                              *)

\* An error ends the command: nothing is offered.
Abandon == phase' = "failed" /\ UNCHANGED <<manifest, pending>>

\* One round of buildManifest: the path is inspected and its name checked, and
\* the root is recorded before anything is known about its content.
BuildRoot ==
    /\ phase = "building" /\ pending = << >> /\ nextRoot <= Len(arguments)
    /\ LET name == arguments[nextRoot]
           usable == /\ source[RootPlace(nextRoot)] # "absent"
                     /\ validateManifestPath(<<name>>)
                     /\ \A i \in DOMAIN manifest.roots: Key(manifest.roots[i]) # Key(name)
       IN IF usable
          THEN /\ manifest' = [manifest EXCEPT !.roots = Append(@, name)]
               /\ pending' = <<RootPlace(nextRoot)>>
               /\ nextRoot' = nextRoot + 1
               /\ UNCHANGED phase
          ELSE Abandon /\ UNCHANGED nextRoot
    /\ UNCHANGED <<arguments, source, changes, wire, receiverVars>>

\* The walk goes on after the head of pending, with the manifest m.
Continue(m, children) ==
    /\ manifest' = m
    /\ pending' = children \o Tail(pending)
    /\ UNCHANGED phase

addManifestOmission(m, x) ==
    IF Len(m.omissions) < MaxOmissions
    THEN Continue([m EXCEPT !.omissions = Append(@, [path |-> Relative(x)])], << >>)
    ELSE Abandon

\* A regular file that can be read to its end without changing.
AddFile(x) ==
    LET size == Size[Last(Relative(x))[1]] IN
    IF size <= MaxTotal - manifest.bytes
    THEN Continue([manifest EXCEPT !.entries = Append(@, Entry(Relative(x), manifestFile, size)),
                                   !.files = @ + 1, !.bytes = Wrap(@ + size)], << >>)
    ELSE Abandon

ChildrenOf(x) == {y \in DOMAIN source: Len(y) = Len(x) + 1 /\ x \in Ancestors(y) /\ source[y] # "absent"}
\* The order of strings, for keys.
Precedes(m, n) == \E k \in DOMAIN n: /\ \A j \in 1..(k - 1): j \in DOMAIN m /\ m[j] = n[j]
                                     /\ k \in DOMAIN m => m[k] < n[k]
\* The places one after the other by the keys of their names, as sort.Slice may
\* leave them.
SortedByKey(places) ==
    {s \in [1..Cardinality(places) -> places]:
        \A i, j \in DOMAIN s: i < j => s[i] # s[j] /\ ~Precedes(Key(Last(s[j])), Key(Last(s[i])))}
WithFolder(x) == [manifest EXCEPT !.entries = Append(@, Entry(Relative(x), manifestFolder, 0)),
                                  !.folders = @ + 1]

\* BUG VARIANT: an unreadable folder is offered without an omission.
AddFolderSilently(x) ==
    IF source[x] = "locked" THEN Continue(WithFolder(x), << >>)
    ELSE \E children \in SortedByKey(ChildrenOf(x)): Continue(WithFolder(x), children)

\* BUG VARIANT: children whose names differ only in case are both offered.
AddFolderWithAliases(x) ==
    IF source[x] = "locked" THEN addManifestOmission(WithFolder(x), x)
    ELSE \E children \in SortedByKey(ChildrenOf(x)): Continue(WithFolder(x), children)

\* A folder is an entry, and then its children by key; two of them that are the
\* same without case end the whole command.
AddFolder(x) ==
    LET aliases == \E y, z \in ChildrenOf(x): y # z /\ Key(Last(y)) = Key(Last(z)) IN
    IF source[x] = "locked" THEN addManifestOmission(WithFolder(x), x)
    ELSE IF aliases THEN Abandon
    ELSE \E children \in SortedByKey(ChildrenOf(x)): Continue(WithFolder(x), children)

\* BUG VARIANT: the limit on entries allows one too many.
WalkPastLimit(x, stable) ==
    IF Len(manifest.entries) > MaxEntries \/ ~validateManifestPath(Relative(x))
    THEN Abandon
    ELSE CASE source[x] \in {"folder", "locked"} -> AddFolder(x)
           [] source[x] = "file" /\ stable -> AddFile(x)
           [] OTHER -> addManifestOmission(manifest, x)

\* One call of walkManifestRoot. A file that changes while it is hashed, and
\* whatever has vanished, cannot be read or is neither file nor folder, is
\* omitted.
walkManifestRoot(x, stable) ==
    IF Len(manifest.entries) >= MaxEntries \/ ~validateManifestPath(Relative(x))
    THEN Abandon
    ELSE CASE source[x] \in {"folder", "locked"} -> AddFolder(x)
           [] source[x] = "file" /\ stable -> AddFile(x)
           [] OTHER -> addManifestOmission(manifest, x)

Walk ==
    /\ phase = "building" /\ pending # << >>
    /\ \E stable \in BOOLEAN:
        /\ ~stable => changes < MaxChanges /\ source[Head(pending)] = "file"
        /\ changes' = changes + (IF stable THEN 0 ELSE 1)
        /\ walkManifestRoot(Head(pending), stable)
    /\ UNCHANGED <<arguments, source, nextRoot, wire, receiverVars>>

\* Something vanishes from the source, with all there is in it.
SourceVanishes ==
    /\ phase = "building" /\ changes < MaxChanges
    /\ \E x \in DOMAIN source:
        /\ source[x] # "absent"
        /\ source' = [y \in DOMAIN source |->
                        IF y = x \/ x \in Ancestors(y) THEN "absent" ELSE source[y]]
    /\ changes' = changes + 1
    /\ UNCHANGED <<arguments, phase, manifest, nextRoot, pending, wire, receiverVars>>

FinishBuilding ==
    /\ phase = "building" /\ pending = << >> /\ nextRoot > Len(arguments)
    /\ phase' = IF manifest.entries = << >> THEN "failed" ELSE "built"
    /\ UNCHANGED <<arguments, source, manifest, nextRoot, pending, changes, wire, receiverVars>>

FramesOf(m) ==
    <<OfferFrame(Len(m.roots), m.files, m.folders, m.bytes)>>
    \o [i \in DOMAIN m.entries |-> EntryFrame(m.entries[i])]
    \o [i \in DOMAIN m.omissions |-> OmissionFrame(m.omissions[i])]
    \o <<CompleteFrame>>

\* writeFrame refuses what is longer than maximumFrameBytes once it is encoded.
Fits(frame) ==
    frame.type \in {"manifest-entry", "manifest-omission"} =>
        Length(frame.path, Encoded) + Overhead <= MaxFrame

\* sendManifest: frames are written until one does not fit.
sendManifest ==
    /\ phase = "built"
    /\ LET frames == FramesOf(manifest)
           fitting == CHOOSE n \in 0..Len(frames): /\ \A i \in 1..n: Fits(frames[i])
                                                   /\ n < Len(frames) => ~Fits(frames[n + 1])
       IN /\ wire' = SubSeq(frames, 1, fitting)
          /\ phase' = IF fitting = Len(frames) THEN "sent" ELSE "unsent"
    /\ UNCHANGED <<arguments, source, manifest, nextRoot, pending, changes, receiverVars>>

---------------------------------------------------------------------------
(* The receiver                                                            *)

\* handleIncomingOffer
handleIncomingOffer(m) ==
    /\ header' = [roots |-> m.roots, files |-> m.files, folders |-> m.folders, bytes |-> m.bytes]
    /\ verdict' = IF /\ verdict = "none"
                     /\ m.roots \in 1..MaxEntries /\ m.files + m.folders \in 1..MaxEntries
                     /\ m.files >= 0 /\ m.folders >= 0 /\ m.bytes >= 0
                  THEN "collecting" ELSE "refused"
    /\ UNCHANGED received

\* handleIncomingManifest: manifest-entry
ReceiveEntry(m) ==
    LET valid == /\ Len(received.entries) < MaxEntries
                 /\ validateManifestPath(m.path)
                 /\ m.kind \in {manifestFile, manifestFolder}
                 /\ m.size >= 0 /\ (m.kind = manifestFolder => m.size = 0)
    IN /\ verdict' = IF valid THEN verdict ELSE "refused"
       /\ received' = IF valid THEN [received EXCEPT !.entries = Append(@, Entry(m.path, m.kind, m.size))] ELSE received
       /\ UNCHANGED header

\* handleIncomingManifest: manifest-omission
ReceiveOmission(m) ==
    LET valid == Len(received.omissions) < MaxOmissions /\ validateManifestPath(m.path)
    IN /\ verdict' = IF valid THEN verdict ELSE "refused"
       /\ received' = IF valid THEN [received EXCEPT !.omissions = Append(@, [path |-> m.path])] ELSE received
       /\ UNCHANGED header

\* The second loop of validateReceivedManifest: the parents of e, from the
\* nearest up, are folders of the manifest.
ParentsAreFolders(entries, e) ==
    \A parent \in Ancestors(e.path):
        \E i \in DOMAIN entries: /\ manifestPathKey(entries[i].path) = manifestPathKey(parent)
                                 /\ entries[i].kind = manifestFolder

\* BUG VARIANT: the byte total is compared at the end only, after it may have
\* passed the greatest int64.
ScanUnchecked(st, e, total) ==
    IF ~st.ok \/ manifestPathKey(e.path) \in st.seen
    THEN [st EXCEPT !.ok = FALSE]
    ELSE [ok |-> TRUE, seen |-> st.seen \cup {manifestPathKey(e.path)},
          bytes |-> Wrap(st.bytes + e.size),
          roots |-> IF IsTopLevel(e.path) THEN Append(st.roots, e.path[1]) ELSE st.roots]

\* One round of the first loop of validateReceivedManifest, with what the rounds
\* before have left: no key twice, a byte total that never passes the announced
\* one, and the roots in the order of the entries.
ScanEntry(st, e, total) ==
    IF ~st.ok \/ manifestPathKey(e.path) \in st.seen \/ (e.kind = manifestFile /\ e.size > total - st.bytes)
    THEN [st EXCEPT !.ok = FALSE]
    ELSE [ok |-> TRUE, seen |-> st.seen \cup {manifestPathKey(e.path)},
          bytes |-> Wrap(st.bytes + e.size),
          roots |-> IF IsTopLevel(e.path) THEN Append(st.roots, e.path[1]) ELSE st.roots]
NothingScanned == [ok |-> TRUE, seen |-> {}, bytes |-> 0, roots |-> << >>]

ScanEntries(entries, total) ==
    LET scan[n \in 0..Len(entries)] ==
            IF n = 0 THEN NothingScanned ELSE ScanEntry(scan[n - 1], entries[n], total)
    IN scan[Len(entries)]

\* handleIncomingManifest: offer-complete, with validateReceivedManifest.
ReceiveComplete ==
    LET scan == ScanEntries(received.entries, header.bytes)
        valid == /\ scan.ok
                 /\ \A i \in DOMAIN received.entries: ParentsAreFolders(received.entries, received.entries[i])
                 /\ Count(received.entries, manifestFile) = header.files
                 /\ Count(received.entries, manifestFolder) = header.folders
                 /\ scan.bytes = header.bytes
                 /\ Len(scan.roots) = header.roots
    IN /\ verdict' = IF valid THEN "reviewed" ELSE "refused"
       /\ received' = [received EXCEPT !.roots = scan.roots]
       /\ UNCHANGED header

\* The serve loop takes the next frame; manifest data needs a header.
Receive ==
    /\ wire # << >> /\ verdict \in {"none", "collecting"}
    /\ wire' = Tail(wire)
    /\ LET m == Head(wire) IN
        IF m.type = "offer" THEN handleIncomingOffer(m)
        ELSE IF verdict = "none" THEN verdict' = "refused" /\ UNCHANGED <<header, received>>
        ELSE CASE m.type = "manifest-entry" -> ReceiveEntry(m)
               [] m.type = "manifest-omission" -> ReceiveOmission(m)
               [] m.type = "offer-complete" -> ReceiveComplete
    /\ UNCHANGED <<senderVars, destinationVars, made>>

\* The names the roots can get at a destination with one of the Listings.
FinalNames ==
    {Candidate(root, k): root \in ToSet(received.roots),
                         k \in 0..(Len(received.roots) + Max({Cardinality(l): l \in Listings}))}

\* The review resolves the final names at the destination as it is then.
Review ==
    /\ verdict = "reviewed" /\ finals = << >>
    /\ \E names \in Listings, sensitive \in BOOLEAN:
        \E resolved \in resolveRoots(received.roots, {Key(n): n \in names}, FinalNames):
            /\ listing' = names /\ caseSensitive' = sensitive
            /\ finals' = resolved
            /\ verdict' = IF << >> \in ToSet(resolved) THEN "unresolved" ELSE verdict
    /\ UNCHANGED <<senderVars, wire, header, received, made>>

\* Paths as the file system of the destination tells them apart.
OnDisk(path) == IF caseSensitive THEN path ELSE manifestPathKey(path)
Final(path) == incomingPath(received.roots, finals, path)
FoldersThere == {OnDisk(Final(received.entries[i].path)): i \in {k \in made: received.entries[k].kind = manifestFolder}}
Occupied == {OnDisk(<<n>>): n \in listing} \cup FoldersThere
CanBeMade(path) ==
    /\ OnDisk(Final(path)) \notin Occupied
    /\ \A parent \in Ancestors(Final(path)): OnDisk(parent) \in FoldersThere

\* accept, at a destination nobody else touches: prepareIncoming goes through
\* the roots and the nested folders in its order.
Prepare ==
    /\ verdict = "reviewed" /\ finals # << >>
    /\ \/ /\ Unprepared(received.entries, made) = {}
          /\ verdict' = "prepared" /\ UNCHANGED made
       \/ \E i \in NextToPrepare(received.entries, made):
             IF CanBeMade(received.entries[i].path) THEN made' = made \cup {i} /\ UNCHANGED verdict
             ELSE verdict' = "unprepared" /\ UNCHANGED made
    /\ UNCHANGED <<senderVars, wire, header, received, destinationVars>>

Next ==
    \/ BuildRoot \/ Walk \/ SourceVanishes \/ FinishBuilding \/ sendManifest
    \/ Receive \/ Review \/ Prepare

Spec == Init /\ [][Next]_vars

---------------------------------------------------------------------------
(* Properties                                                              *)

Approved == verdict \in {"reviewed", "unresolved", "prepared", "unprepared"}

\* The byte total that the receiver reviews, and compares with the free space
\* (staging.go:31), is the sum of the sizes as whole numbers, whoever has sent
\* the frames and however near the greatest int64 (offer_intake.go:120).
TotalIsTrue == Approved => header.bytes = TotalSize(received.entries)

\* Every entry of an approved offer has a final path of its own, and no root
\* one that the destination has already, with whatever suffixes the conflicts
\* and the names of the other roots have led to.
FinalPathsAreDistinct ==
    (Approved /\ finals # << >> /\ verdict # "unresolved") =>
        LET es == received.entries IN
        /\ \A i, j \in DOMAIN es: manifestPathKey(Final(es[i].path)) = manifestPathKey(Final(es[j].path)) => i = j
        /\ \A i \in DOMAIN finals: \A n \in listing: Key(finals[i]) # Key(n)

\* An approved manifest can be realised: prepareIncoming does not stop
\* (staging.go:54, 81) and leaves a place for every file. Another
\* implementation may write a parent in another case than its entry, which
\* only a file system without case takes for the same folder.
ApprovedCanBePrepared ==
    (caseSensitive => phase # "other") =>
        /\ verdict # "unprepared"
        /\ verdict = "prepared" => \A e \in FilesOf(received.entries): CanBeMade(e.path)

\* README.md:91: what cannot be sent is "omitted and disclosed". When nothing
\* changes during the walk, every entry of the source that can be reached
\* through readable folders is offered or disclosed, and once only.
EverythingIsDisclosed ==
    (phase \in {"built", "sent", "unsent"} /\ changes = 0) =>
        /\ \A x \in DOMAIN source:
             (/\ source[x] # "absent"
              /\ \A parent \in Ancestors(x): source[parent] = "folder") =>
                 Relative(x) \in PathsOf(manifest.entries) \cup PathsOf(manifest.omissions)
        /\ \A x \in DOMAIN source: source[x] = "locked" /\ Relative(x) \in PathsOf(manifest.entries) =>
             Relative(x) \in PathsOf(manifest.omissions)
        /\ Cardinality(PathsOf(manifest.entries)) = Len(manifest.entries)

\* An offer that this program has built reaches the review of this program,
\* whatever the walk has to leave out, with two exceptions. It is refused, and
\* the session ends, if a path given to send was omitted as a whole, so that the
\* header announces a root without an entry (manifest.go:67,
\* offer_intake.go:146), where README.md:91 has it "omitted and disclosed". And
\* it cannot be written if JSON makes one of its paths longer (safety.go:19:
\* "Leaves room for the rest of a bounded control frame").
OwnOfferIsReviewed ==
    /\ (phase = "sent" /\ verdict = "refused") =>
         \E i \in DOMAIN manifest.roots:
             /\ <<manifest.roots[i]>> \in PathsOf(manifest.omissions)
             /\ <<manifest.roots[i]>> \notin PathsOf(manifest.entries)
    /\ phase = "unsent" =>
         \E path \in PathsOf(manifest.entries) \cup PathsOf(manifest.omissions):
             Length(path, Encoded) > Length(path, Bytes)
=============================================================================
