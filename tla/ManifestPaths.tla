--------------------------- MODULE ManifestPaths ---------------------------
(***************************************************************************)
(* Names and paths of a Transfer Offer: what validateManifestPath and      *)
(* manifestPathKey tell apart (internal/terminal/safety.go), how a name    *)
(* that is taken gets a suffix (cleanup.go), and where an entry of an      *)
(* approved manifest goes (staging.go).                                    *)
(*                                                                         *)
(* A name is a sequence: its base, a number that stands for stem and       *)
(* extension, followed by the suffixes it carries: with base 1 for         *)
(* "a.txt", <<1>> is "a.txt" and <<1, 2>> is "a (2).txt". A path is a      *)
(* sequence of names, its components between slashes.                      *)
(***************************************************************************)
EXTENDS Integers, Sequences, FiniteSets, SequencesExt

CONSTANTS
    Fold,       \* Fold[b]: the base that b equals without case and Unicode form
    Unsafe,     \* bases that Windows or the wire refuse
    MaxName,    \* a name of more parts is longer than maxWindowsComponent
    Bytes,      \* Bytes[b]: the length of b in UTF-8; a suffix adds SuffixBytes
    MaxPath     \* maxManifestPathBytes

ASSUME FoldAssumption == \A b \in DOMAIN Fold: Fold[b] \in DOMAIN Fold /\ Fold[Fold[b]] = Fold[b]

manifestFile == "file"
manifestFolder == "folder"

\* A name has a base that Fold knows; a path has at least one name.
Names == {n \in Seq(Nat): n # << >> /\ n[1] \in DOMAIN Fold}
IsPath(path) == path \in Seq(Names) /\ path # << >>

\* s[1] + ... + s[Len(s)]
Total(s) ==
    LET upTo[n \in 0..Len(s)] == IF n = 0 THEN 0 ELSE upTo[n - 1] + s[n]
    IN upTo[Len(s)]

validateWindowsComponent(name) == name[1] \notin Unsafe /\ Len(name) <= MaxName

SuffixBytes == 4
\* The length of a path with the given lengths of the bases, slashes included.
Length(path, lengths) ==
    Len(path) - 1 + Total([i \in DOMAIN path |-> lengths[path[i][1]] + SuffixBytes * (Len(path[i]) - 1)])

validateManifestPath(path) ==
    /\ path # << >> /\ Length(path, Bytes) <= MaxPath
    /\ \A i \in DOMAIN path: validateWindowsComponent(path[i])

\* manifestPathKey folds case and Unicode form; suffixes are digits.
manifestPathKey(path) ==
    [i \in DOMAIN path |-> [path[i] EXCEPT ![1] = Fold[@]]]

Key(name) == manifestPathKey(<<name>>)[1]
IsTopLevel(path) == Len(path) = 1
Ancestors(path) == {SubSeq(path, 1, n): n \in 1..(Len(path) - 1)}

\* The candidates that resolveFinalPathWithReservations tries, in this order.
Candidate(name, suffix) == IF suffix = 0 THEN name ELSE Append(name, suffix)

\* The free candidate with the least suffix, or << >> when the name has become
\* too long for Windows before one was found.
resolveFinalPath(name, reserved) ==
    LET taken(k) == Key(Candidate(name, k)) \in reserved
        suffix == CHOOSE k \in 0..Cardinality(reserved): ~taken(k) /\ \A j \in 0..(k - 1): taken(j)
    IN IF validateWindowsComponent(Candidate(name, suffix)) THEN Candidate(name, suffix) ELSE << >>

\* BUG VARIANT: a resolved name is not reserved for the roots after it.
ResolvedUnreserved(finals, roots, reserved, i) ==
    finals[i] = resolveFinalPath(roots[i], reserved)

\* One round of the loop of resolveIncomingPaths: the names of the roots before
\* are reserved, and the first one that cannot be resolved ends the loop.
ResolvedRoot(finals, roots, reserved, i) ==
    LET before == {j \in DOMAIN roots: j < i} IN
    finals[i] = IF \E j \in before: finals[j] = << >> THEN << >>
                ELSE resolveFinalPath(roots[i], reserved \cup {Key(finals[j]): j \in before})

\* The loop, as what holds when it has ended: roots and finals are functions of
\* the same numbers, and names are the names a root can get.
resolveRoots(roots, reserved, names) ==
    {finals \in [DOMAIN roots -> names \cup {<< >>}]:
        \A i \in DOMAIN roots: ResolvedRoot(finals, roots, reserved, i)}

\* incoming.finalPaths maps the key of a root to its final name.
FinalOf(roots, finals, root) ==
    finals[CHOOSE i \in DOMAIN roots: Key(roots[i]) = Key(root)]

incomingPath(roots, finals, path) == [path EXCEPT ![1] = FinalOf(roots, finals, @)]

FoldersOf(entries) == {e \in ToSet(entries): e.kind = manifestFolder}
FilesOf(entries) == {e \in ToSet(entries): e.kind = manifestFile}

\* What validateReceivedManifest leaves of a manifest that buildManifest wrote:
\* no two keys are the same, and every parent is a folder of the manifest. (The
\* receiver compares parents without case; the sender always writes them alike.)
IsApproved(entries) ==
    /\ entries # << >>
    /\ \A i \in DOMAIN entries: IsPath(entries[i].path) /\ entries[i].kind \in {manifestFile, manifestFolder}
    /\ \A i, j \in DOMAIN entries: manifestPathKey(entries[i].path) = manifestPathKey(entries[j].path) => i = j
    /\ \A i \in DOMAIN entries: \A parent \in Ancestors(entries[i].path):
        \E j \in DOMAIN entries: entries[j].path = parent /\ entries[j].kind = manifestFolder

\* BUG VARIANT: nested folders are not sorted.
PreparedUnsorted(entries, i, j) ==
    /\ IsTopLevel(entries[i].path)
    /\ IsTopLevel(entries[j].path) => i < j

\* The order in which prepareIncoming goes through the offer: the roots, then
\* the nested folders by their depth. sort.Slice does not keep the order of
\* folders of the same depth.
PreparedBefore(entries, i, j) ==
    \/ Len(entries[i].path) < Len(entries[j].path)
    \/ IsTopLevel(entries[i].path) /\ IsTopLevel(entries[j].path) /\ i < j

\* The entries that prepareIncoming has still to go through, and the next ones.
Unprepared(entries, done) ==
    {i \in DOMAIN entries \ done: IsTopLevel(entries[i].path) \/ entries[i].kind = manifestFolder}
NextToPrepare(entries, done) ==
    {i \in Unprepared(entries, done): \A j \in Unprepared(entries, done): ~PreparedBefore(entries, j, i)}
=============================================================================
