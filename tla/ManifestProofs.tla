---------------------------- MODULE ManifestProofs ----------------------------
(***************************************************************************)
(* What holds of every Transfer Offer, for any paths given to send, any    *)
(* source that changes during the walk, any frames of another              *)
(* implementation, any destination and all limits.                         *)
(***************************************************************************)
EXTENDS ManifestExchange, PathProofs

ReceivedEntries == {e \in [path: Seq(Names), kind: {manifestFile, manifestFolder}, size: 0..MaxTotal]:
                        e.path # << >> /\ (e.kind = manifestFolder => e.size = 0)}
Sizes(entries) == [i \in DOMAIN entries |-> entries[i].size]
TopLevel(entries, n) == {i \in 1..n: IsTopLevel(entries[i].path)}

\* The first n entries have different keys and these roots.
KeysDiffer(entries, n) ==
    \A i, j \in 1..n: manifestPathKey(entries[i].path) = manifestPathKey(entries[j].path) => i = j
RootsAre(roots, entries, n) ==
    /\ \A k \in DOMAIN roots: \E i \in 1..n: entries[i].path = <<roots[k]>>
    /\ \A i \in 1..n: IsTopLevel(entries[i].path) => \E k \in DOMAIN roots: roots[k] = entries[i].path[1]
    /\ \A j, k \in DOMAIN roots: Key(roots[j]) = Key(roots[k]) => j = k
    /\ Len(roots) = Cardinality(TopLevel(entries, n))
\* Two paths part at a name that differs even without case.
Apart(x, y) == \E n \in DOMAIN x \cap DOMAIN y: Key(x[n]) # Key(y[n])
HasFolder(entries, n, path) == \E j \in 1..n: entries[j].path = path /\ entries[j].kind = manifestFolder

ManifestEntries == {e \in ReceivedEntries: validateManifestPath(e.path)}
Omissions == {o \in [path: Seq(Names)]: o.path # << >> /\ validateManifestPath(o.path)}

Manifests == [roots: Seq(Names), entries: Seq(ManifestEntries), omissions: Seq(Omissions),
              files: Nat, folders: Nat, bytes: 0..MaxTotal]

Headers == [roots: Int, files: Int, folders: Int, bytes: Int64]
Receipts == [roots: Seq(Names), entries: Seq(ManifestEntries), omissions: Seq(Omissions),
             files: {0}, folders: {0}, bytes: {0}]

\* Types, as the proofs need them.
SenderTypes ==
    /\ arguments \in Seq(Names) /\ IsTree(source, arguments)
    /\ phase \in {"building", "built", "sent", "unsent", "failed", "other"}
    /\ manifest \in Manifests
    /\ nextRoot \in 1..(Len(arguments) + 1)
    /\ pending \in Seq(DOMAIN source)
    /\ changes \in 0..MaxChanges
ReceiverTypes ==
    /\ wire \in Seq(OtherFrames)
    /\ header \in Headers /\ received \in Receipts
    /\ verdict \in {"none", "collecting", "refused", "reviewed", "unresolved", "prepared", "unprepared"}
    /\ caseSensitive \in BOOLEAN
Types == SenderTypes /\ ReceiverTypes

\* A place of a tree, and its path.
Rel(args, x) == [x EXCEPT ![1] = args[x[1][1]]]

\* The walk so far: its counts,
CountsOK(m) ==
    /\ Len(m.entries) <= MaxEntries /\ Len(m.omissions) <= MaxOmissions
    /\ m.files = Count(m.entries, manifestFile) /\ m.folders = Count(m.entries, manifestFolder)
    /\ m.files + m.folders = Len(m.entries)
    /\ m.bytes = TotalSize(m.entries)

\* its roots, of which one at most has not been looked at,
Recorded(m, path) == path \in PathsOf(m.entries) \cup PathsOf(m.omissions)
RootsOK(args, next, m, pend) ==
    /\ Len(m.roots) = next - 1
    /\ \A n \in DOMAIN m.roots: m.roots[n] = args[n]
    /\ \A n, k \in DOMAIN m.roots: Key(m.roots[n]) = Key(m.roots[k]) => n = k
    /\ \A n \in DOMAIN m.roots: Recorded(m, <<m.roots[n]>>) \/ pend = <<RootPlace(n)>>

\* its entries, every one after the folders it is in,
EntriesOK(m) ==
    /\ KeysDiffer(m.entries, Len(m.entries))
    /\ \A i \in DOMAIN m.entries:
        /\ \E n \in DOMAIN m.roots: m.entries[i].path[1] = m.roots[n]
        /\ \A parent \in Ancestors(m.entries[i].path): HasFolder(m.entries, i - 1, parent)

\* and the places still to be walked: none below another, none recorded.
PlaceOK(args, next, m, x) ==
    /\ x[1][1] < next
    /\ \A parent \in Ancestors(Rel(args, x)): HasFolder(m.entries, Len(m.entries), parent)
    /\ \A i \in DOMAIN m.entries: \/ Apart(m.entries[i].path, Rel(args, x))
                                 \/ m.entries[i].path \in Ancestors(Rel(args, x))
PendingOK(args, next, m, pend) ==
    /\ \A k \in DOMAIN pend: PlaceOK(args, next, m, pend[k])
    /\ \A k, l \in DOMAIN pend: k # l => Apart(Rel(args, pend[k]), Rel(args, pend[l]))

\* Nothing that can be reached has been passed over.
Reached(tree, x) == tree[x] # "absent" /\ \A parent \in Ancestors(x): tree[parent] = "folder"
ToBeWalked(pend, x) == \E k \in DOMAIN pend: x = pend[k] \/ pend[k] \in Ancestors(x)
DisclosedOK(args, tree, next, m, pend) ==
    \A x \in DOMAIN tree: x[1][1] < next =>
        /\ Reached(tree, x) => Recorded(m, Rel(args, x)) \/ ToBeWalked(pend, x)
        /\ tree[x] = "locked" /\ Rel(args, x) \in PathsOf(m.entries) => Rel(args, x) \in PathsOf(m.omissions)

WalkInv ==
    /\ CountsOK(manifest)
    /\ RootsOK(arguments, nextRoot, manifest, pending)
    /\ EntriesOK(manifest)
    /\ PendingOK(arguments, nextRoot, manifest, pending)
    /\ changes = 0 => DisclosedOK(arguments, source, nextRoot, manifest, pending)

PhaseInv ==
    /\ phase \in {"built", "sent", "unsent"} =>
        pending = << >> /\ nextRoot = Len(arguments) + 1 /\ manifest.entries # << >>
    /\ phase \in {"building", "built", "failed"} => wire = << >> /\ verdict = "none"
    /\ verdict = "none" => received = EmptyManifest

\* The receiver of an offer of this program: what it has taken, and what is
\* still under way.
RootOmitted ==
    \E i \in DOMAIN manifest.roots:
        /\ <<manifest.roots[i]>> \in PathsOf(manifest.omissions)
        /\ <<manifest.roots[i]>> \notin PathsOf(manifest.entries)
Taken == IF verdict = "none" THEN 0 ELSE 1 + Len(received.entries) + Len(received.omissions)
Collected ==
    /\ \A i \in DOMAIN received.entries: i <= Len(manifest.entries) /\ received.entries[i] = manifest.entries[i]
    /\ \A i \in DOMAIN received.omissions: i <= Len(manifest.omissions) /\ received.omissions[i] = manifest.omissions[i]
    /\ received.omissions # << >> => Len(received.entries) = Len(manifest.entries)
    /\ verdict # "none" => header = [roots |-> Len(manifest.roots), files |-> manifest.files,
                                     folders |-> manifest.folders, bytes |-> manifest.bytes]
UnderWay ==
    LET frames == FramesOf(manifest) IN
    /\ \A i \in DOMAIN wire: Taken + i <= Len(frames) /\ wire[i] = frames[Taken + i]
    /\ (phase = "sent") = (Taken + Len(wire) = Len(frames))
OwnInv ==
    phase \in {"sent", "unsent"} =>
        /\ verdict = "refused" => RootOmitted
        /\ verdict \in {"none", "collecting"} => Collected /\ UnderWay
        /\ Approved => received.entries = manifest.entries
UnsentInv == phase = "unsent" => \E i \in DOMAIN FramesOf(manifest): ~Fits(FramesOf(manifest)[i])

\* What validateReceivedManifest has made sure of.
ApprovedInv ==
    /\ verdict \notin {"none", "refused"} => header.bytes >= 0 /\ header.roots > 0
    /\ Len(received.entries) <= MaxEntries /\ Len(received.omissions) <= MaxOmissions
    /\ Approved =>
        /\ KeysDiffer(received.entries, Len(received.entries))
        /\ RootsAre(received.roots, received.entries, Len(received.entries))
        /\ received.roots # << >>
        /\ \A i \in DOMAIN received.entries: ParentsAreFolders(received.entries, received.entries[i])
        /\ header.bytes = TotalSize(received.entries)

\* The final names of the roots, and the folders made so far.
FinalsInv ==
    /\ finals = << >> \/ Approved
    /\ finals # << >> /\ verdict # "unresolved" =>
        /\ DOMAIN finals = DOMAIN received.roots
        /\ \A i \in DOMAIN finals: finals[i] \in Names /\ \A n \in listing: Key(finals[i]) # Key(n)
        /\ \A i, j \in DOMAIN finals: Key(finals[i]) = Key(finals[j]) => i = j
    /\ finals = << >> \/ verdict = "unresolved" => made = {}
    /\ verdict \in {"prepared", "unprepared"} => finals # << >>
PreparedInv ==
    /\ made \subseteq DOMAIN received.entries
    /\ verdict = "unprepared" => caseSensitive /\ phase = "other"
    /\ verdict = "prepared" => Unprepared(received.entries, made) = {}

ReceiverInv == OwnInv /\ UnsentInv /\ ApprovedInv /\ FinalsInv /\ PreparedInv
Inv == WalkInv /\ PhaseInv /\ ReceiverInv
---------------------------------------------------------------------------
(* The scan of validateReceivedManifest                                    *)

Scans(entries, total) ==
    CHOOSE scan: scan = [n \in 0..Len(entries) |->
        IF n = 0 THEN NothingScanned ELSE ScanEntry(scan[n - 1], entries[n], total)]

LEMMA ScansExist ==
    ASSUME NEW entries, NEW total, NEW N \in Nat
    PROVE  \E f: f = [n \in 0..N |-> IF n = 0 THEN NothingScanned ELSE ScanEntry(f[n - 1], entries[n], total)]
<1> DEFINE Is(f, m) == f = [n \in 0..m |-> IF n = 0 THEN NothingScanned ELSE ScanEntry(f[n - 1], entries[n], total)]
           S == {m \in 0..N: \E f: Is(f, m)}
<1>1. 0 \in S
  <2>1. Is([n \in 0..0 |-> NothingScanned], 0)
    OBVIOUS
  <2> HIDE DEF Is
  <2> QED BY <2>1
<1>2. ASSUME NEW m \in 0..N, m \in S, m # N PROVE m + 1 \in S
  <2>1. PICK f: Is(f, m)
    BY <1>2
  <2> DEFINE g == [n \in 0..(m + 1) |-> IF n = m + 1 THEN ScanEntry(f[m], entries[m + 1], total) ELSE f[n]]
  <2>2. \A n \in 0..(m + 1): g[n] = IF n = 0 THEN NothingScanned ELSE ScanEntry(g[n - 1], entries[n], total)
    <3> SUFFICES ASSUME NEW n \in 0..(m + 1)
                 PROVE  g[n] = IF n = 0 THEN NothingScanned ELSE ScanEntry(g[n - 1], entries[n], total)
      OBVIOUS
    <3>1. n = m + 1 => g[n] = ScanEntry(f[m], entries[m + 1], total) /\ g[n - 1] = f[m] /\ n # 0
      OBVIOUS
    <3>2. n # m + 1 => n \in 0..m /\ g[n] = f[n] /\ (n # 0 => g[n - 1] = f[n - 1])
      OBVIOUS
    <3>3. \A k \in 0..m: f[k] = IF k = 0 THEN NothingScanned ELSE ScanEntry(f[k - 1], entries[k], total)
      BY <2>1
    <3>4. n = m + 1 => n - 1 = m
      OBVIOUS
    <3> HIDE DEF g
    <3>5. CASE n = m + 1
      BY <3>1, <3>5
    <3>6. CASE n # m + 1
      BY <3>2, <3>3, <3>6
    <3> QED BY <3>5, <3>6
  <2>3. Is(g, m + 1)
    <3>1. g = [n \in 0..(m + 1) |-> g[n]]
      OBVIOUS
    <3> HIDE DEF g
    <3> QED BY <2>2, <3>1
  <2>4. m + 1 \in 0..N
    BY <1>2
  <2> HIDE DEF Is
  <2> QED BY <2>3, <2>4
<1>3. N \in S
  <2>1. N \in 0..N
    OBVIOUS
  <2> HIDE DEF S
  <2> QED BY <1>1, <1>2, <2>1, UpTo
<1> QED BY <1>3

LEMMA ScansAre ==
    ASSUME NEW entries, NEW total, Len(entries) \in Nat
    PROVE  /\ ScanEntries(entries, total) = Scans(entries, total)[Len(entries)]
           /\ Scans(entries, total)[0] = NothingScanned
           /\ \A n \in 1..Len(entries):
                Scans(entries, total)[n] = ScanEntry(Scans(entries, total)[n - 1], entries[n], total)
<1> DEFINE F == Scans(entries, total)
<1>1. F = [n \in 0..Len(entries) |-> IF n = 0 THEN NothingScanned ELSE ScanEntry(F[n - 1], entries[n], total)]
  BY ScansExist DEF Scans
<1>2. ScanEntries(entries, total) = F[Len(entries)]
  BY DEF ScanEntries, Scans
<1> HIDE DEF F
<1>3. F[0] = NothingScanned
  BY <1>1
<1>4. \A n \in 1..Len(entries): F[n] = ScanEntry(F[n - 1], entries[n], total)
  BY <1>1
<1> QED BY <1>2, <1>3, <1>4 DEF F

LEMMA WrapIs ==
    /\ \A n \in Int: Wrap(n) \in Int
    /\ \A n \in Int64: Wrap(n) = n
<1>1. MaxTotal \in Nat
  BY ManifestAssumption
<1> DEFINE k == 2 * (MaxTotal + 1)
<1>2. k \in Nat \ {0}
  BY <1>1
<1>3. \A m \in Int: m % k \in 0..(k - 1)
  <2> HIDE DEF k
  <2> QED BY <1>2
<1>4. \A m \in 0..(k - 1): m % k = m
  <2> HIDE DEF k
  <2> QED BY <1>2
<1>5. \A n \in Int: Wrap(n) = ((n + MaxTotal + 1) % k) - (MaxTotal + 1)
  BY DEF Wrap
<1>6. \A n \in Int64: n + MaxTotal + 1 \in 0..(k - 1)
  BY <1>1 DEF Int64
<1>7. \A n \in Int: n + MaxTotal + 1 \in Int
  BY <1>1
<1> HIDE DEF k
<1>8. \A n \in Int: Wrap(n) \in Int
  <2> SUFFICES ASSUME NEW n \in Int PROVE Wrap(n) \in Int
    OBVIOUS
  <2>1. (n + MaxTotal + 1) % k \in 0..(k - 1)
    BY <1>3, <1>7
  <2> QED BY <1>1, <1>2, <1>5, <2>1
<1>9. \A n \in Int64: Wrap(n) = n
  <2> SUFFICES ASSUME NEW n \in Int64 PROVE Wrap(n) = n
    OBVIOUS
  <2>1. n \in Int
    BY <1>1 DEF Int64
  <2>2. (n + MaxTotal + 1) % k = n + MaxTotal + 1
    BY <1>4, <1>6
  <2> QED BY <1>1, <1>5, <2>1, <2>2
<1> QED BY <1>8, <1>9

ScanStates(entries) ==
    [ok: BOOLEAN, seen: SUBSET {manifestPathKey(entries[i].path): i \in DOMAIN entries}, bytes: Int, roots: Seq(Names)]

LEMMA EntryIs ==
    ASSUME NEW e \in ReceivedEntries
    PROVE  /\ IsPath(e.path) /\ e.kind \in {manifestFile, manifestFolder} /\ e.size \in 0..MaxTotal
           /\ e.kind # manifestFile => e.size = 0
           /\ e.path[1] \in Names
<1>1. IsPath(e.path) /\ e.kind \in {manifestFile, manifestFolder} /\ e.size \in 0..MaxTotal
  BY DEF ReceivedEntries, IsPath
<1>2. e.kind # manifestFile => e.size = 0
  BY DEF ReceivedEntries, manifestFile, manifestFolder
<1>3. e.path[1] \in Names
  BY <1>1, PathIs
<1> QED BY <1>1, <1>2, <1>3

\* A round keeps the form of the state.
LEMMA ScanEntryType ==
    ASSUME NEW entries \in Seq(ReceivedEntries), NEW n \in DOMAIN entries, NEW st \in ScanStates(entries), NEW total
    PROVE  /\ ScanEntry(st, entries[n], total) \in ScanStates(entries)
           /\ ~ScanEntry(st, entries[n], total).ok => ScanEntry(st, entries[n], total) = [st EXCEPT !.ok = FALSE]
<1> DEFINE e == entries[n]
<1>1. e \in ReceivedEntries
  OBVIOUS
<1>2. e.path[1] \in Names /\ e.size \in Int
  BY <1>1, EntryIs, ManifestAssumption
<1>3. st.bytes + e.size \in Int /\ st.roots \in Seq(Names)
  BY <1>2 DEF ScanStates
<1>4. Wrap(st.bytes + e.size) \in Int
  BY <1>3, WrapIs
<1>5. manifestPathKey(e.path) \in {manifestPathKey(entries[i].path): i \in DOMAIN entries}
  OBVIOUS
<1>6. st.seen \cup {manifestPathKey(e.path)} \in SUBSET {manifestPathKey(entries[i].path): i \in DOMAIN entries}
  BY <1>5 DEF ScanStates
<1>7. (IF IsTopLevel(e.path) THEN Append(st.roots, e.path[1]) ELSE st.roots) \in Seq(Names)
  BY <1>2, <1>3
<1> HIDE DEF e
<1>8. [st EXCEPT !.ok = FALSE] \in ScanStates(entries)
  BY DEF ScanStates
<1>9. ScanEntry(st, e, total) \in ScanStates(entries)
  BY <1>4, <1>6, <1>7, <1>8 DEF ScanEntry, ScanStates
<1>10. ~ScanEntry(st, e, total).ok => ScanEntry(st, e, total) = [st EXCEPT !.ok = FALSE]
  BY DEF ScanEntry
<1> QED BY <1>9, <1>10 DEF e

LEMMA TopLevelPath ==
    ASSUME NEW x, IsPath(x), IsTopLevel(x)
    PROVE  x = <<x[1]>> /\ x[1] \in Names
<1>1. x \in Seq(Names) /\ Len(x) = 1
  BY DEF IsPath, IsTopLevel
<1> QED BY <1>1

LEMMA SameTopLevelKey ==
    ASSUME NEW m, NEW n, Key(m) = Key(n)
    PROVE  manifestPathKey(<<m>>) = manifestPathKey(<<n>>)
<1>1. \A x: manifestPathKey(<<x>>) = [i \in {1} |-> Key(x)]
  <2> SUFFICES ASSUME NEW x PROVE manifestPathKey(<<x>>) = [i \in {1} |-> Key(x)]
    OBVIOUS
  <2>1. DOMAIN <<x>> = {1} /\ <<x>>[1] = x
    OBVIOUS
  <2>2. manifestPathKey(<<x>>) = [i \in {1} |-> [x EXCEPT ![1] = Fold[@]]]
    BY <2>1 DEF manifestPathKey
  <2>3. Key(x) = [x EXCEPT ![1] = Fold[@]]
    BY <2>2 DEF Key
  <2> QED BY <2>2, <2>3
<1> QED BY <1>1

LEMMA RootsStep ==
    ASSUME NEW entries \in Seq(ReceivedEntries), NEW n \in Nat, n + 1 \in DOMAIN entries,
           NEW roots \in Seq(Names), RootsAre(roots, entries, n), KeysDiffer(entries, n + 1)
    PROVE  RootsAre(IF IsTopLevel(entries[n + 1].path) THEN Append(roots, entries[n + 1].path[1]) ELSE roots, entries, n + 1)
<1> DEFINE path == entries[n + 1].path
           after == IF IsTopLevel(path) THEN Append(roots, path[1]) ELSE roots
<1>1. \A i \in 1..(n + 1): i \in 1..n \/ i = n + 1
  OBVIOUS
<1>2. \A i \in 1..(n + 1): entries[i] \in ReceivedEntries
  <2>1. Len(entries) \in Nat /\ n + 1 <= Len(entries)
    OBVIOUS
  <2> QED BY <2>1
<1>3. IsPath(path) /\ path[1] \in Names
  BY <1>2, EntryIs
<1>4. IsFiniteSet(TopLevel(entries, n)) /\ n + 1 \notin TopLevel(entries, n)
  <2>1. TopLevel(entries, n) \subseteq 1..n /\ n + 1 \notin 1..n
    BY DEF TopLevel
  <2>2. IsFiniteSet(1..n)
    BY FS_Interval
  <2> QED BY <2>1, <2>2, FS_Subset
<1>5. CASE IsTopLevel(path)
  <2>1. path = <<path[1]>>
    BY <1>3, <1>5, TopLevelPath
  <2>2. /\ DOMAIN after = DOMAIN roots \cup {Len(roots) + 1} /\ Len(after) = Len(roots) + 1
        /\ \A k \in DOMAIN roots: after[k] = roots[k] /\ k # Len(roots) + 1
        /\ after[Len(roots) + 1] = path[1]
    BY <1>3, <1>5
  <2>3. \A k \in DOMAIN roots: Key(roots[k]) # Key(path[1])
    <3> SUFFICES ASSUME NEW k \in DOMAIN roots, Key(roots[k]) = Key(path[1]) PROVE FALSE
      OBVIOUS
    <3>1. PICK i \in 1..n: entries[i].path = <<roots[k]>>
      BY DEF RootsAre
    <3>2. manifestPathKey(entries[i].path) = manifestPathKey(path)
      BY <2>1, <3>1, SameTopLevelKey
    <3>3. i \in 1..(n + 1) /\ n + 1 \in 1..(n + 1) /\ i # n + 1
      OBVIOUS
    <3> QED BY <3>2, <3>3 DEF KeysDiffer
  <2>4. TopLevel(entries, n + 1) = TopLevel(entries, n) \cup {n + 1}
    BY <1>1, <1>5 DEF TopLevel
  <2>5. Cardinality(TopLevel(entries, n + 1)) = Cardinality(TopLevel(entries, n)) + 1
    BY <1>4, <2>4, FS_AddElement
  <2>6. \A k \in DOMAIN after: \E i \in 1..(n + 1): entries[i].path = <<after[k]>>
    <3> SUFFICES ASSUME NEW k \in DOMAIN after PROVE \E i \in 1..(n + 1): entries[i].path = <<after[k]>>
      OBVIOUS
    <3> HIDE DEF after
    <3>1. CASE k \in DOMAIN roots
      <4>1. PICK i \in 1..n: entries[i].path = <<roots[k]>>
        BY <3>1 DEF RootsAre
      <4>2. i \in 1..(n + 1)
        OBVIOUS
      <4> QED BY <2>2, <3>1, <4>1, <4>2
    <3>2. CASE k = Len(roots) + 1
      <4>1. n + 1 \in 1..(n + 1)
        OBVIOUS
      <4> QED BY <2>1, <2>2, <3>2, <4>1
    <3> QED BY <2>2, <3>1, <3>2
  <2>7. \A i \in 1..(n + 1): IsTopLevel(entries[i].path) => \E k \in DOMAIN after: after[k] = entries[i].path[1]
    <3> SUFFICES ASSUME NEW i \in 1..(n + 1), IsTopLevel(entries[i].path)
                 PROVE  \E k \in DOMAIN after: after[k] = entries[i].path[1]
      OBVIOUS
    <3> HIDE DEF after
    <3>1. CASE i \in 1..n
      <4>1. PICK k \in DOMAIN roots: roots[k] = entries[i].path[1]
        BY <3>1 DEF RootsAre
      <4> QED BY <2>2, <4>1
    <3>2. CASE i = n + 1
      BY <2>2, <3>2
    <3> QED BY <1>1, <3>1, <3>2
  <2>8. \A j, k \in DOMAIN after: Key(after[j]) = Key(after[k]) => j = k
    <3>1. \A j, k \in DOMAIN roots: Key(roots[j]) = Key(roots[k]) => j = k
      BY DEF RootsAre
    <3> HIDE DEF after
    <3> QED BY <2>2, <2>3, <3>1
  <2>9. Len(after) = Cardinality(TopLevel(entries, n + 1))
    BY <2>2, <2>5 DEF RootsAre
  <2> HIDE DEF after
  <2>10. RootsAre(after, entries, n + 1)
    BY <2>6, <2>7, <2>8, <2>9 DEF RootsAre
  <2> QED BY <2>10 DEF after
<1>6. CASE ~IsTopLevel(path)
  <2>1. TopLevel(entries, n + 1) = TopLevel(entries, n)
    BY <1>1, <1>6 DEF TopLevel
  <2>2. \A i \in 1..n: i \in 1..(n + 1)
    OBVIOUS
  <2>3. RootsAre(roots, entries, n + 1)
    BY <1>1, <1>6, <2>1, <2>2 DEF RootsAre
  <2> QED BY <1>6, <2>3
<1> QED BY <1>5, <1>6

\* What the scan knows after n rounds.
ScanKnows(entries, total, n) ==
    LET st == Scans(entries, total)[n] IN
    /\ st \in ScanStates(entries)
    /\ st.ok => /\ st.seen = {manifestPathKey(entries[i].path): i \in 1..n}
                /\ KeysDiffer(entries, n) /\ RootsAre(st.roots, entries, n)
                /\ st.bytes = Sums(Sizes(entries))[n] /\ st.bytes \in 0..total

LEMMA SizesAre ==
    ASSUME NEW entries \in Seq(ReceivedEntries)
    PROVE  /\ Sizes(entries) \in Seq(Nat) /\ Len(Sizes(entries)) = Len(entries)
           /\ \A i \in DOMAIN entries: Sizes(entries)[i] = entries[i].size
           /\ TotalSize(entries) = Sums(Sizes(entries))[Len(entries)]
<1>1. DOMAIN entries = 1..Len(entries) /\ Len(entries) \in Nat
  OBVIOUS
<1>2. \A i \in DOMAIN entries: entries[i].size \in Nat
  <2> SUFFICES ASSUME NEW i \in DOMAIN entries PROVE entries[i].size \in Nat
    OBVIOUS
  <2>1. entries[i] \in ReceivedEntries
    OBVIOUS
  <2> QED BY <2>1, EntryIs, ManifestAssumption
<1>3. Sizes(entries) \in [1..Len(entries) -> Nat]
  BY <1>1, <1>2 DEF Sizes
<1>4. Sizes(entries) \in Seq(Nat) /\ Len(Sizes(entries)) = Len(entries)
  BY <1>1, <1>3
<1>5. \A i \in DOMAIN entries: Sizes(entries)[i] = entries[i].size
  BY DEF Sizes
<1>6. TotalSize(entries) = Total(Sizes(entries))
  BY DEF TotalSize, Sizes
<1>7. Total(Sizes(entries)) = Sums(Sizes(entries))[Len(entries)]
  BY <1>1, <1>4, SumsAre
<1> QED BY <1>4, <1>5, <1>6, <1>7

LEMMA ScanStep ==
    ASSUME NEW entries \in Seq(ReceivedEntries), NEW total \in 0..MaxTotal,
           NEW n \in Nat, n + 1 \in DOMAIN entries, ScanKnows(entries, total, n)
    PROVE  ScanKnows(entries, total, n + 1)
<1> DEFINE st == Scans(entries, total)[n]
           next == Scans(entries, total)[n + 1]
           e == entries[n + 1]
<1>0. /\ Len(entries) \in Nat /\ n + 1 \in 1..Len(entries) /\ (n + 1) - 1 = n
      /\ e \in ReceivedEntries /\ MaxTotal \in Nat
  BY ManifestAssumption
<1>1. next = ScanEntry(st, e, total)
  BY <1>0, ScansAre
<1>2. st \in ScanStates(entries)
  BY DEF ScanKnows
<1>3. next \in ScanStates(entries)
  BY <1>1, <1>2, ScanEntryType
<1>4. ASSUME next.ok
      PROVE  /\ next.seen = {manifestPathKey(entries[i].path): i \in 1..(n + 1)}
             /\ KeysDiffer(entries, n + 1) /\ RootsAre(next.roots, entries, n + 1)
             /\ next.bytes = Sums(Sizes(entries))[n + 1] /\ next.bytes \in 0..total
  <2> DEFINE ends == \/ ~st.ok
                     \/ manifestPathKey(e.path) \in st.seen
                     \/ e.kind = manifestFile /\ e.size > total - st.bytes
             roots == IF IsTopLevel(e.path) THEN Append(st.roots, e.path[1]) ELSE st.roots
  <2>1. ~ends
    <3>1. ends => ScanEntry(st, e, total) = [st EXCEPT !.ok = FALSE]
      BY DEF ScanEntry
    <3>2. [st EXCEPT !.ok = FALSE].ok = FALSE
      <4> HIDE DEF st
      <4> QED BY <1>2 DEF ScanStates
    <3> HIDE DEF ends, st, next
    <3> QED BY <1>1, <1>4, <3>1, <3>2
  <2>2. next = [ok |-> TRUE, seen |-> st.seen \cup {manifestPathKey(e.path)},
                bytes |-> Wrap(st.bytes + e.size), roots |-> roots]
    <3> HIDE DEF st, next, e
    <3> QED BY <1>1, <2>1 DEF ScanEntry
  <2>3. /\ st.seen = {manifestPathKey(entries[i].path): i \in 1..n}
        /\ KeysDiffer(entries, n) /\ RootsAre(st.roots, entries, n)
        /\ st.bytes = Sums(Sizes(entries))[n] /\ st.bytes \in 0..total
    BY <2>1 DEF ScanKnows
  <2>4. next.seen = {manifestPathKey(entries[i].path): i \in 1..(n + 1)}
    <3>1. 1..(n + 1) = (1..n) \cup {n + 1}
      OBVIOUS
    <3>2. next.seen = st.seen \cup {manifestPathKey(e.path)}
      BY <2>2
    <3> HIDE DEF st, next
    <3> QED BY <2>3, <3>1, <3>2
  <2>5. KeysDiffer(entries, n + 1)
    <3>1. \A i \in 1..(n + 1): i \in 1..n \/ i = n + 1
      OBVIOUS
    <3>2. \A i \in 1..n: manifestPathKey(entries[i].path) # manifestPathKey(entries[n + 1].path)
      <4>1. manifestPathKey(e.path) \notin st.seen
        BY <2>1
      <4> HIDE DEF st
      <4> QED BY <2>3, <4>1
    <3>3. \A i, j \in 1..n: manifestPathKey(entries[i].path) = manifestPathKey(entries[j].path) => i = j
      BY <2>3 DEF KeysDiffer
    <3> QED BY <3>1, <3>2, <3>3 DEF KeysDiffer
  <2>6. RootsAre(next.roots, entries, n + 1)
    <3>1. next.roots = roots
      BY <2>2
    <3>2. st.roots \in Seq(Names)
      <4> HIDE DEF st
      <4> QED BY <1>2 DEF ScanStates
    <3>3. RootsAre(roots, entries, n + 1)
      <4> HIDE DEF st
      <4> QED BY <2>3, <2>5, <3>2, RootsStep
    <3> QED BY <3>1, <3>3
  <2>7. st.bytes + e.size \in 0..total
    <3>1. e.size \in 0..MaxTotal /\ (e.kind # manifestFile => e.size = 0)
      BY <1>0, EntryIs
    <3>2. e.kind = manifestFile => ~(e.size > total - st.bytes)
      BY <2>1
    <3> HIDE DEF e, st
    <3> QED BY <1>0, <2>3, <3>1, <3>2
  <2>8. next.bytes = st.bytes + e.size
    <3>1. st.bytes + e.size \in Int64
      <4> HIDE DEF e, st
      <4> QED BY <1>0, <2>7 DEF Int64
    <3>2. next.bytes = Wrap(st.bytes + e.size)
      BY <2>2
    <3> HIDE DEF e, st, next
    <3> QED BY <3>1, <3>2, WrapIs
  <2>9. Sums(Sizes(entries))[n + 1] = Sums(Sizes(entries))[n] + e.size
    <3>1. Len(Sizes(entries)) \in Nat /\ n + 1 \in 1..Len(Sizes(entries)) /\ Sizes(entries)[n + 1] = e.size
      BY <1>0, SizesAre
    <3> HIDE DEF e
    <3> QED BY <1>0, <3>1, SumsAre
  <2> HIDE DEF st, next, e
  <2> QED BY <2>3, <2>4, <2>5, <2>6, <2>7, <2>8, <2>9
<1> QED BY <1>3, <1>4 DEF ScanKnows

LEMMA NothingKnown ==
    ASSUME NEW entries \in Seq(ReceivedEntries), NEW total \in 0..MaxTotal
    PROVE  ScanKnows(entries, total, 0)
<1>0. Len(entries) \in Nat
  OBVIOUS
<1>1. Scans(entries, total)[0] = NothingScanned
  BY ScansAre
<1>2. << >> \in Seq(Names)
  OBVIOUS
<1>3. NothingScanned \in ScanStates(entries)
  BY <1>2 DEF NothingScanned, ScanStates
<1>4. {manifestPathKey(entries[i].path): i \in 1..0} = {} /\ KeysDiffer(entries, 0)
  BY DEF KeysDiffer
<1>5. RootsAre(<< >>, entries, 0)
  <2>1. TopLevel(entries, 0) = {} /\ Cardinality({}) = 0
    BY FS_EmptySet DEF TopLevel
  <2>2. DOMAIN << >> = {} /\ Len(<< >>) = 0
    OBVIOUS
  <2>3. \A i \in 1..0: FALSE
    OBVIOUS
  <2>4. \A k \in DOMAIN << >>: FALSE
    BY <2>2
  <2>5. Len(<< >>) = Cardinality(TopLevel(entries, 0))
    BY <2>1, <2>2
  <2> QED BY <2>3, <2>4, <2>5 DEF RootsAre
<1>6. Sums(Sizes(entries))[0] = 0
  BY <1>0, SizesAre, SumsAre
<1>7. 0 \in 0..total
  BY ManifestAssumption
<1>8. ScanKnows(entries, total, 0)
  BY <1>1, <1>3, <1>4, <1>5, <1>6, <1>7 DEF ScanKnows, NothingScanned
<1> QED BY <1>8

\* What validateReceivedManifest knows after its first loop.
LEMMA ScanIs ==
    ASSUME NEW entries \in Seq(ReceivedEntries), NEW total \in 0..MaxTotal
    PROVE  LET scan == ScanEntries(entries, total) IN
           /\ scan.roots \in Seq(Names)
           /\ scan.ok => /\ KeysDiffer(entries, Len(entries)) /\ RootsAre(scan.roots, entries, Len(entries))
                         /\ scan.bytes = TotalSize(entries)
<1> DEFINE S == {n \in 0..Len(entries): ScanKnows(entries, total, n)}
           N == Len(entries)
<1>1. N \in Nat
  OBVIOUS
<1>2. 0 \in S
  BY <1>1, NothingKnown
<1>3. ASSUME NEW n \in 0..N, n \in S, n # N PROVE n + 1 \in S
  <2>1. n \in Nat /\ n + 1 \in DOMAIN entries /\ n + 1 \in 0..N
    BY <1>3
  <2>2. ScanKnows(entries, total, n + 1)
    BY <1>3, <2>1, ScanStep
  <2> QED BY <2>1, <2>2
<1>4. N \in S
  <2>1. N \in 0..N
    BY <1>1
  <2> HIDE DEF S, N
  <2> QED BY <1>1, <1>2, <1>3, <2>1, UpTo
<1>5. ScanKnows(entries, total, N)
  BY <1>4
<1>6. ScanEntries(entries, total) = Scans(entries, total)[N]
  BY <1>1, ScansAre
<1>7. TotalSize(entries) = Sums(Sizes(entries))[N]
  BY SizesAre
<1> HIDE DEF N
<1> QED BY <1>5, <1>6, <1>7 DEF ScanKnows, ScanStates, N

---------------------------------------------------------------------------
(* Places and their paths                                                  *)

LEMMA ApartKeys ==
    ASSUME NEW x, NEW y, Apart(x, y)
    PROVE  manifestPathKey(x) # manifestPathKey(y) /\ Apart(y, x)
<1>1. PICK n \in DOMAIN x \cap DOMAIN y: Key(x[n]) # Key(y[n])
  BY DEF Apart
<1>2. \A m: Key(m) = [m EXCEPT ![1] = Fold[@]]
  <2> SUFFICES ASSUME NEW m PROVE Key(m) = [m EXCEPT ![1] = Fold[@]]
    OBVIOUS
  <2>1. DOMAIN <<m>> = {1} /\ <<m>>[1] = m
    OBVIOUS
  <2> QED BY <2>1 DEF Key, manifestPathKey
<1>3. manifestPathKey(x)[n] = [x[n] EXCEPT ![1] = Fold[@]] /\ manifestPathKey(y)[n] = [y[n] EXCEPT ![1] = Fold[@]]
  BY DEF manifestPathKey
<1>4. manifestPathKey(x)[n] = Key(x[n]) /\ manifestPathKey(y)[n] = Key(y[n])
  BY <1>2, <1>3
<1>5. Apart(y, x)
  BY <1>1 DEF Apart
<1> QED BY <1>1, <1>4, <1>5

LEMMA ApartBelow ==
    ASSUME NEW x, NEW y, NEW z \in Paths, y \in Ancestors(z), Apart(x, y)
    PROVE  Apart(x, z)
<1>1. PICK n \in DOMAIN x \cap DOMAIN y: Key(x[n]) # Key(y[n])
  BY DEF Apart
<1>2. y \in Paths /\ Len(y) \in 1..(Len(z) - 1) /\ \A i \in 1..Len(y): y[i] = z[i]
  BY AncestorIs
<1>3. DOMAIN y = 1..Len(y) /\ DOMAIN z = 1..Len(z) /\ Len(z) \in Nat
  BY <1>2 DEF Paths
<1>4. n \in DOMAIN z /\ y[n] = z[n]
  BY <1>1, <1>2, <1>3
<1> QED BY <1>1, <1>4 DEF Apart

LEMMA ApartSiblings ==
    ASSUME NEW y \in Paths, NEW z \in Paths, Len(y) = Len(z), Key(Last(y)) # Key(Last(z))
    PROVE  Apart(y, z)
<1>1. Len(y) \in DOMAIN y \cap DOMAIN z
  BY DEF Paths
<1>2. Last(y) = y[Len(y)] /\ Last(z) = z[Len(y)]
  BY DEF Last
<1> QED BY <1>1, <1>2 DEF Apart

LEMMA AncestorKeys ==
    ASSUME NEW x \in Paths, NEW y \in Ancestors(x)
    PROVE  manifestPathKey(x) # manifestPathKey(y)
<1>1. y \in Paths /\ Len(y) \in 1..(Len(x) - 1)
  BY AncestorIs
<1>2. DOMAIN x = 1..Len(x) /\ DOMAIN y = 1..Len(y) /\ Len(x) \in Nat
  BY <1>1 DEF Paths
<1>3. Len(x) \in DOMAIN x /\ Len(x) \notin DOMAIN y
  BY <1>1, <1>2
<1>4. DOMAIN manifestPathKey(x) = DOMAIN x /\ DOMAIN manifestPathKey(y) = DOMAIN y
  BY DEF manifestPathKey
<1> QED BY <1>3, <1>4

LEMMA ChildAncestors ==
    ASSUME NEW y \in Paths, NEW x \in Ancestors(y), Len(y) = Len(x) + 1
    PROVE  Ancestors(y) = Ancestors(x) \cup {x}
<1>1. x \in Paths /\ Len(x) \in Nat /\ Len(y) \in Nat /\ \A i \in 1..Len(x): x[i] = y[i]
  BY AncestorIs DEF Paths
<1>2. ASSUME NEW z \in Ancestors(y) PROVE z \in Ancestors(x) \cup {x}
  <2>1. z \in Paths /\ Len(z) \in 1..Len(x) /\ \A i \in 1..Len(z): z[i] = y[i]
    BY <1>1, AncestorIs
  <2>2. \A i \in 1..Len(z): z[i] = x[i]
    BY <1>1, <2>1
  <2>3. CASE Len(z) = Len(x)
    <3>1. z = x
      BY <1>1, <2>1, <2>2, <2>3, SamePath
    <3> QED BY <3>1
  <2>4. CASE Len(z) # Len(x)
    <3>1. Len(z) < Len(x)
      BY <1>1, <2>1, <2>4
    <3> QED BY <1>1, <2>1, <2>2, <3>1, PrefixIsAncestor
  <2> QED BY <2>3, <2>4
<1>3. Ancestors(x) \subseteq Ancestors(y)
  BY AncestorsChain
<1> QED BY <1>2, <1>3

LEMMA PlaceIs ==
    ASSUME NEW args \in Seq(Names), NEW tree, IsTree(tree, args), NEW x \in DOMAIN tree
    PROVE  /\ x \in Paths /\ Len(x) \in Nat \ {0} /\ x[1] = <<x[1][1]>> /\ x[1][1] \in DOMAIN args
           /\ Ancestors(x) \subseteq DOMAIN tree /\ tree[x] \in Kinds
           /\ IsPath(Rel(args, x)) /\ Rel(args, x) \in Paths /\ Rel(args, x) \in Seq(Names)
           /\ Len(Rel(args, x)) = Len(x)
           /\ Rel(args, x)[1] = args[x[1][1]] /\ \A i \in 2..Len(x): Rel(args, x)[i] = x[i]
<1>1. /\ x \in Seq(Seq(Nat)) /\ x # << >> /\ Len(x[1]) = 1 /\ x[1][1] \in DOMAIN args
      /\ \A i \in 2..Len(x): x[i] \in Names
      /\ Ancestors(x) \subseteq DOMAIN tree /\ tree[x] \in Kinds
  BY DEF IsTree
<1>2. Len(x) \in Nat \ {0} /\ DOMAIN x = 1..Len(x) /\ x[1] \in Seq(Nat)
  BY <1>1
<1>3. x[1] = <<x[1][1]>>
  BY <1>1, <1>2
<1>4. args[x[1][1]] \in Names
  BY <1>1
<1> DEFINE r == Rel(args, x)
<1>5. DOMAIN r = 1..Len(x) /\ r[1] = args[x[1][1]] /\ \A i \in 2..Len(x): r[i] = x[i]
  BY <1>2 DEF Rel
<1>6. \A i \in 1..Len(x): r[i] \in Names
  <2> SUFFICES ASSUME NEW i \in 1..Len(x) PROVE r[i] \in Names
    OBVIOUS
  <2>1. i = 1 \/ i \in 2..Len(x)
    BY <1>2
  <2> HIDE DEF r
  <2> QED BY <1>1, <1>4, <1>5, <2>1
<1>7. r = [i \in 1..Len(x) |-> r[i]]
  BY <1>2 DEF Rel
<1> HIDE DEF r
<1>8. r \in [1..Len(x) -> Names]
  BY <1>6, <1>7
<1>9. r \in Seq(Names) /\ Len(r) = Len(x) /\ r # << >>
  BY <1>2, <1>8
<1>10. IsPath(r)
  BY <1>9 DEF IsPath
<1>11. x \in Paths /\ r \in Paths
  BY <1>1, <1>10, PathIs DEF Paths
<1> QED BY <1>1, <1>2, <1>3, <1>5, <1>9, <1>10, <1>11 DEF r

LEMMA RelAncestor ==
    ASSUME NEW args \in Seq(Names), NEW tree, IsTree(tree, args), NEW x \in DOMAIN tree, NEW y \in Ancestors(x)
    PROVE  /\ y \in DOMAIN tree /\ y[1] = x[1]
           /\ Rel(args, y) \in Ancestors(Rel(args, x))
<1>1. y \in DOMAIN tree /\ x \in Paths /\ Rel(args, x) \in Paths /\ Len(Rel(args, x)) = Len(x)
  BY PlaceIs
<1>2. Len(y) \in 1..(Len(x) - 1) /\ \A i \in 1..Len(y): y[i] = x[i]
  BY <1>1, AncestorIs
<1>3. Rel(args, y) \in Paths /\ Len(Rel(args, y)) = Len(y) /\ Len(x) \in Nat
  BY <1>1, PlaceIs
<1>4. y[1] = x[1]
  BY <1>2, <1>3
<1>5. \A i \in 1..Len(y): Rel(args, y)[i] = Rel(args, x)[i]
  <2> SUFFICES ASSUME NEW i \in 1..Len(y) PROVE Rel(args, y)[i] = Rel(args, x)[i]
    OBVIOUS
  <2>1. CASE i = 1
    BY <1>1, <1>4, <2>1, PlaceIs
  <2>2. CASE i # 1
    <3>1. i \in 2..Len(y) /\ i \in 2..Len(x) /\ y[i] = x[i]
      BY <1>2, <1>3, <2>2
    <3>2. Rel(args, y)[i] = y[i]
      BY <1>1, <3>1, PlaceIs
    <3>3. Rel(args, x)[i] = x[i]
      BY <3>1, PlaceIs
    <3> QED BY <3>1, <3>2, <3>3
  <2> QED BY <2>1, <2>2
<1>6. Len(Rel(args, y)) < Len(Rel(args, x))
  BY <1>1, <1>2, <1>3
<1> QED BY <1>1, <1>3, <1>4, <1>5, <1>6, PrefixIsAncestor

\* The places of recorded roots have paths of their own.
LEMMA RelInjective ==
    ASSUME NEW args \in Seq(Names), NEW tree, IsTree(tree, args), NEW x \in DOMAIN tree, NEW y \in DOMAIN tree,
           NEW next \in Nat, x[1][1] < next, y[1][1] < next,
           \A n, k \in 1..(next - 1): Key(args[n]) = Key(args[k]) => n = k,
           Rel(args, x) = Rel(args, y)
    PROVE  x = y
<1>1. /\ x \in Paths /\ y \in Paths /\ Len(x) \in Nat
      /\ Len(x) = Len(Rel(args, x)) /\ Len(y) = Len(Rel(args, y))
      /\ x[1] = <<x[1][1]>> /\ y[1] = <<y[1][1]>> /\ x[1][1] \in DOMAIN args /\ y[1][1] \in DOMAIN args
  BY PlaceIs
<1>2. x[1][1] \in 1..(next - 1) /\ y[1][1] \in 1..(next - 1)
  BY <1>1
<1>3. args[x[1][1]] = args[y[1][1]]
  BY PlaceIs
<1>4. x[1][1] = y[1][1]
  BY <1>2, <1>3
<1>5. x[1] = y[1]
  BY <1>1, <1>4
<1>6. \A i \in 1..Len(y): x[i] = y[i]
  <2> SUFFICES ASSUME NEW i \in 1..Len(y) PROVE x[i] = y[i]
    OBVIOUS
  <2>1. CASE i = 1
    BY <1>5, <2>1
  <2>2. CASE i # 1
    <3>1. i \in 2..Len(x) /\ i \in 2..Len(y)
      BY <1>1, <2>2
    <3>2. Rel(args, x)[i] = x[i]
      BY <3>1, PlaceIs
    <3>3. Rel(args, y)[i] = y[i]
      BY <3>1, PlaceIs
    <3> QED BY <3>2, <3>3
  <2> QED BY <2>1, <2>2
<1>7. Len(x) = Len(y)
  BY <1>1
<1> QED BY <1>1, <1>6, <1>7, SamePath

---------------------------------------------------------------------------
(* Children, and what is left to walk                                      *)

Below(tree, x) == {y \in DOMAIN tree: Len(y) = Len(x) + 1 /\ x \in Ancestors(y)}
NoAliases(C) == \A y, z \in C: Key(Last(y)) = Key(Last(z)) => y = z

LEMMA SortedIs ==
    ASSUME NEW C, IsFiniteSet(C), NEW children \in SortedByKey(C)
    PROVE  /\ children \in Seq(C)
           /\ \A k, l \in DOMAIN children: k # l => children[k] # children[l]
           /\ \A y \in C: \E k \in DOMAIN children: children[k] = y
<1> DEFINE n == Cardinality(C)
<1>1. n \in Nat
  BY FS_CardinalityType
<1>2. /\ children \in [1..n -> C]
      /\ \A k, l \in 1..n: k < l => children[k] # children[l]
  BY DEF SortedByKey
<1>3. \A k, l \in 1..n: k # l => children[k] # children[l]
  <2> HIDE DEF n
  <2> QED BY <1>1, <1>2
<1>4. children \in Injection(1..n, C)
  BY <1>2, <1>3 DEF Injection, IsInjective
<1>5. IsFiniteSet(1..n) /\ Cardinality(1..n) = n
  BY <1>1, FS_Interval
<1>6. children \in Surjection(1..n, C)
  <2> HIDE DEF n
  <2>1. Cardinality(1..n) = Cardinality(C)
    BY <1>5 DEF n
  <2> QED BY <1>4, <2>1, FS_Injection
<1>7. \A y \in C: \E k \in 1..n: children[k] = y
  BY <1>6 DEF Surjection
<1>8. children \in Seq(C) /\ DOMAIN children = 1..n
  <2> HIDE DEF n
  <2> QED BY <1>1, <1>2
<1> QED BY <1>3, <1>7, <1>8

LEMMA ChildrenAre ==
    ASSUME NEW args \in Seq(Names), NEW tree, IsTree(tree, args), NEW x \in DOMAIN tree,
           NEW C \in SUBSET Below(tree, x), NoAliases(C), NEW children \in SortedByKey(C)
    PROVE  /\ children \in Seq(C) /\ children \in Seq(DOMAIN tree)
           /\ \A y \in C: \E k \in DOMAIN children: children[k] = y
           /\ \A k \in DOMAIN children:
                /\ children[k][1][1] = x[1][1]
                /\ Rel(args, x) \in Ancestors(Rel(args, children[k]))
                /\ Ancestors(Rel(args, children[k])) = Ancestors(Rel(args, x)) \cup {Rel(args, x)}
           /\ \A k, l \in DOMAIN children: k # l => Apart(Rel(args, children[k]), Rel(args, children[l]))
<1>1. IsFiniteSet(C)
  <2>1. IsFiniteSet(DOMAIN tree) /\ C \in SUBSET DOMAIN tree
    BY DEF IsTree, Below
  <2> QED BY <2>1, FS_Subset
<1>2. /\ children \in Seq(C)
      /\ \A k, l \in DOMAIN children: k # l => children[k] # children[l]
      /\ \A y \in C: \E k \in DOMAIN children: children[k] = y
  BY <1>1, SortedIs
<1>3. children \in Seq(DOMAIN tree)
  <2>1. \A y \in C: y \in DOMAIN tree
    BY DEF Below
  <2>2. children \in [1..Len(children) -> DOMAIN tree] /\ Len(children) \in Nat
    BY <1>2, <2>1
  <2> QED BY <2>2
<1>4. \A y \in C: /\ y \in DOMAIN tree /\ y[1][1] = x[1][1] /\ Len(y) = Len(x) + 1
                  /\ Rel(args, x) \in Ancestors(Rel(args, y))
                  /\ Ancestors(Rel(args, y)) = Ancestors(Rel(args, x)) \cup {Rel(args, x)}
                  /\ Rel(args, y) \in Paths /\ Len(Rel(args, y)) = Len(x) + 1 /\ Last(Rel(args, y)) = Last(y)
  <2> SUFFICES ASSUME NEW y \in C
               PROVE  /\ y \in DOMAIN tree /\ y[1][1] = x[1][1] /\ Len(y) = Len(x) + 1
                      /\ Rel(args, x) \in Ancestors(Rel(args, y))
                      /\ Ancestors(Rel(args, y)) = Ancestors(Rel(args, x)) \cup {Rel(args, x)}
                      /\ Rel(args, y) \in Paths /\ Len(Rel(args, y)) = Len(x) + 1 /\ Last(Rel(args, y)) = Last(y)
    OBVIOUS
  <2>1. y \in DOMAIN tree /\ Len(y) = Len(x) + 1 /\ x \in Ancestors(y)
    BY DEF Below
  <2>2. x[1] = y[1] /\ Rel(args, x) \in Ancestors(Rel(args, y))
    BY <2>1, RelAncestor
  <2>3. Rel(args, y) \in Paths /\ Len(Rel(args, y)) = Len(x) + 1 /\ Len(Rel(args, x)) = Len(x) /\ Len(x) \in Nat \ {0}
    BY <2>1, PlaceIs
  <2>4. Ancestors(Rel(args, y)) = Ancestors(Rel(args, x)) \cup {Rel(args, x)}
    BY <2>2, <2>3, ChildAncestors
  <2>5. Rel(args, y)[Len(y)] = y[Len(y)]
    <3>1. Len(y) \in 2..Len(y)
      BY <2>1, <2>3
    <3> QED BY <2>1, <3>1, PlaceIs
  <2>6. Last(Rel(args, y)) = Last(y)
    BY <2>1, <2>3, <2>5 DEF Last
  <2> QED BY <2>1, <2>2, <2>3, <2>4, <2>6
<1>5. \A k \in DOMAIN children: children[k] \in C
  BY <1>2
<1>6. \A k, l \in DOMAIN children: k # l => Apart(Rel(args, children[k]), Rel(args, children[l]))
  <2> SUFFICES ASSUME NEW k \in DOMAIN children, NEW l \in DOMAIN children, k # l
               PROVE  Apart(Rel(args, children[k]), Rel(args, children[l]))
    OBVIOUS
  <2>1. children[k] \in C /\ children[l] \in C /\ children[k] # children[l]
    BY <1>2, <1>5
  <2>2. Key(Last(children[k])) # Key(Last(children[l]))
    BY <2>1 DEF NoAliases
  <2>3. Key(Last(Rel(args, children[k]))) # Key(Last(Rel(args, children[l])))
    BY <1>4, <2>1, <2>2
  <2>4. Len(Rel(args, children[k])) = Len(Rel(args, children[l]))
    BY <1>4, <2>1
  <2> QED BY <1>4, <2>1, <2>3, <2>4, ApartSiblings
<1> QED BY <1>2, <1>3, <1>4, <1>5, <1>6

\* What is left after the head is walked: its children, and then the rest.
LEMMA LeftIs ==
    ASSUME NEW P, NEW pend \in Seq(P), pend # << >>, NEW children \in Seq(P)
    PROVE  LET left == children \o Tail(pend) IN
           /\ left \in Seq(P)
           /\ \A k \in DOMAIN left:
                \/ k \in DOMAIN children /\ left[k] = children[k]
                \/ /\ k \notin DOMAIN children
                   /\ k - Len(children) + 1 \in DOMAIN pend /\ k - Len(children) + 1 # 1
                   /\ left[k] = pend[k - Len(children) + 1]
           /\ \A k \in DOMAIN children: k \in DOMAIN left /\ left[k] = children[k]
           /\ \A k \in DOMAIN pend: k # 1 => k + Len(children) - 1 \in DOMAIN left /\ left[k + Len(children) - 1] = pend[k]
<1> DEFINE rest == Tail(pend)
           left == children \o rest
<1>1. /\ Len(children) \in Nat /\ Len(pend) \in Nat \ {0}
      /\ DOMAIN pend = 1..Len(pend) /\ DOMAIN children = 1..Len(children)
  OBVIOUS
<1>2. rest \in Seq(P) /\ Len(rest) = Len(pend) - 1 /\ \A k \in 1..Len(rest): rest[k] = pend[k + 1]
  BY <1>1
<1> HIDE DEF rest
<1>3. /\ left \in Seq(P) /\ Len(left) = Len(children) + Len(rest) /\ DOMAIN left = 1..Len(left)
      /\ \A k \in 1..Len(left): left[k] = IF k <= Len(children) THEN children[k] ELSE rest[k - Len(children)]
  <2>1. left \in Seq(P)
    BY <1>2
  <2>2. Len(left) = Len(children) + Len(rest)
    <3>1. children \in Seq(P) /\ rest \in Seq(P)
      BY <1>2
    <3> QED BY <3>1
  <2>3. \A k \in 1..(Len(children) + Len(rest)):
          left[k] = IF k <= Len(children) THEN children[k] ELSE rest[k - Len(children)]
    BY <1>2
  <2> HIDE DEF left
  <2> QED BY <2>1, <2>2, <2>3
<1> HIDE DEF left
<1>4. \A k \in DOMAIN left:
        \/ k \in DOMAIN children /\ left[k] = children[k]
        \/ /\ k \notin DOMAIN children
           /\ k - Len(children) + 1 \in DOMAIN pend /\ k - Len(children) + 1 # 1
           /\ left[k] = pend[k - Len(children) + 1]
  <2> SUFFICES ASSUME NEW k \in DOMAIN left, k \notin DOMAIN children
               PROVE  /\ k - Len(children) + 1 \in DOMAIN pend /\ k - Len(children) + 1 # 1
                      /\ left[k] = pend[k - Len(children) + 1]
    BY <1>1, <1>3
  <2>1. k - Len(children) \in 1..Len(rest) /\ left[k] = rest[k - Len(children)]
    BY <1>1, <1>2, <1>3
  <2>2. rest[k - Len(children)] = pend[k - Len(children) + 1]
    BY <1>2, <2>1
  <2> QED BY <1>1, <1>2, <2>1, <2>2
<1>5. \A k \in DOMAIN children: k \in DOMAIN left /\ left[k] = children[k]
  BY <1>1, <1>2, <1>3
<1>6. \A k \in DOMAIN pend: k # 1 => k + Len(children) - 1 \in DOMAIN left /\ left[k + Len(children) - 1] = pend[k]
  <2> SUFFICES ASSUME NEW k \in DOMAIN pend, k # 1
               PROVE  k + Len(children) - 1 \in DOMAIN left /\ left[k + Len(children) - 1] = pend[k]
    OBVIOUS
  <2>1. k - 1 \in 1..Len(rest) /\ rest[k - 1] = pend[k]
    BY <1>1, <1>2
  <2>2. k + Len(children) - 1 \in 1..Len(left) /\ ~(k + Len(children) - 1 <= Len(children))
        /\ (k + Len(children) - 1) - Len(children) = k - 1
    BY <1>1, <1>2, <1>3
  <2> QED BY <1>3, <2>1, <2>2
<1> QED BY <1>3, <1>4, <1>5, <1>6 DEF left, rest

---------------------------------------------------------------------------
(* A step of the walk                                                      *)

LEMMA ManifestIs ==
    ASSUME NEW m \in Manifests
    PROVE  /\ m.roots \in Seq(Names) /\ m.entries \in Seq(ReceivedEntries) /\ m.entries \in Seq(ManifestEntries)
           /\ Len(m.entries) \in Nat /\ DOMAIN m.entries = 1..Len(m.entries)
           /\ DOMAIN m.roots = 1..Len(m.roots) /\ Len(m.roots) \in Nat
           /\ \A i \in DOMAIN m.entries: IsPath(m.entries[i].path) /\ m.entries[i].path \in Paths
           /\ m.omissions \in Seq(Omissions)
<1>1. m.roots \in Seq(Names) /\ m.entries \in Seq(ManifestEntries) /\ m.omissions \in Seq(Omissions)
  BY DEF Manifests
<1>2. \A e \in ManifestEntries: e \in ReceivedEntries
  BY DEF ManifestEntries
<1>3. Len(m.entries) \in Nat /\ DOMAIN m.entries = 1..Len(m.entries) /\ m.entries \in [1..Len(m.entries) -> ReceivedEntries]
  BY <1>1, <1>2
<1>4. m.entries \in Seq(ReceivedEntries)
  BY <1>3
<1>5. \A i \in DOMAIN m.entries: IsPath(m.entries[i].path) /\ m.entries[i].path \in Paths
  <2> SUFFICES ASSUME NEW i \in DOMAIN m.entries PROVE IsPath(m.entries[i].path) /\ m.entries[i].path \in Paths
    OBVIOUS
  <2>1. m.entries[i] \in ReceivedEntries
    BY <1>3
  <2> QED BY <2>1, EntryIs, PathIs
<1> QED BY <1>1, <1>3, <1>4, <1>5

LEMMA NoChildren == << >> \in SortedByKey({}) /\ NoAliases({})
<1>1. Cardinality({}) = 0
  BY FS_EmptySet
<1>2. << >> \in [1..0 -> {}] /\ DOMAIN << >> = {}
  OBVIOUS
<1> QED BY <1>1, <1>2 DEF SortedByKey, NoAliases

\* An entry for the head of what was pending, with its children if it is a folder.
LEMMA EntryAdded ==
    ASSUME NEW args \in Seq(Names), NEW tree, IsTree(tree, args), NEW next \in Nat,
           NEW m \in Manifests, NEW after \in Manifests, NEW pend \in Seq(DOMAIN tree), pend # << >>,
           EntriesOK(m), PendingOK(args, next, m, pend), RootsOK(args, next, m, pend),
           NEW kind, NEW size, after.roots = m.roots,
           after.entries = Append(m.entries, Entry(Rel(args, pend[1]), kind, size)),
           NEW C \in SUBSET Below(tree, pend[1]), NoAliases(C), NEW children \in SortedByKey(C),
           C = {} \/ kind = manifestFolder
    PROVE  EntriesOK(after) /\ PendingOK(args, next, after, children \o Tail(pend))
<1> DEFINE x == pend[1]
           r == Rel(args, x)
           N == Len(m.entries)
           left == children \o Tail(pend)
<1>1. x \in DOMAIN tree /\ 1 \in DOMAIN pend
  OBVIOUS
<1>2. /\ r \in Paths /\ r[1] = args[x[1][1]] /\ x[1][1] \in DOMAIN args /\ Len(r) \in Nat
      /\ DOMAIN r = 1..Len(r)
  BY <1>1, PlaceIs DEF Paths
<1>3. /\ N \in Nat /\ Len(after.entries) = N + 1
      /\ DOMAIN m.entries = 1..N /\ DOMAIN after.entries = 1..(N + 1)
      /\ after.entries[N + 1].path = r /\ after.entries[N + 1].kind = kind
      /\ \A i \in 1..N: after.entries[i] = m.entries[i]
      /\ \A i \in 1..N: m.entries[i].path \in Paths
  <2>1. Entry(r, kind, size).path = r /\ Entry(r, kind, size).kind = kind
    BY DEF Entry
  <2>2. m.entries \in Seq(ReceivedEntries) /\ N \in Nat /\ DOMAIN m.entries = 1..N /\ \A i \in 1..N: m.entries[i].path \in Paths
    BY ManifestIs
  <2> DEFINE e == Entry(r, kind, size)
             es == m.entries
  <2>3. after.entries = Append(es, e)
    OBVIOUS
  <2>4. es \in Seq(ReceivedEntries)
    BY <2>2
  <2> HIDE DEF r, e, es
  <2>5. /\ Len(Append(es, e)) = Len(es) + 1 /\ DOMAIN Append(es, e) = 1..(Len(es) + 1)
        /\ Append(es, e)[Len(es) + 1] = e /\ \A i \in 1..Len(es): Append(es, e)[i] = es[i]
    BY <2>4, AppendIs
  <2> QED BY <2>1, <2>2, <2>3, <2>5 DEF e, es
<1>4. PlaceOK(args, next, m, x)
  BY <1>1 DEF PendingOK
<1>5. \A n \in 0..N: \A path: HasFolder(m.entries, n, path) => \A k \in n..(N + 1): HasFolder(after.entries, k, path)
  <2> SUFFICES ASSUME NEW n \in 0..N, NEW path, HasFolder(m.entries, n, path), NEW k \in n..(N + 1)
               PROVE  HasFolder(after.entries, k, path)
    OBVIOUS
  <2>1. PICK j \in 1..n: m.entries[j].path = path /\ m.entries[j].kind = manifestFolder
    BY DEF HasFolder
  <2>2. j \in 1..N /\ j \in 1..k
    BY <1>3
  <2>3. after.entries[j] = m.entries[j]
    BY <1>3, <2>2
  <2> QED BY <2>1, <2>2, <2>3 DEF HasFolder
<1>6. \A i \in 1..N: manifestPathKey(m.entries[i].path) # manifestPathKey(r)
  <2> SUFFICES ASSUME NEW i \in 1..N PROVE manifestPathKey(m.entries[i].path) # manifestPathKey(r)
    OBVIOUS
  <2>1. Apart(m.entries[i].path, r) \/ m.entries[i].path \in Ancestors(r)
    BY <1>3, <1>4 DEF PlaceOK
  <2> HIDE DEF r
  <2> QED BY <1>2, <2>1, ApartKeys, AncestorKeys
<1>7. KeysDiffer(after.entries, N + 1)
  <2>1. \A i \in 1..(N + 1): i \in 1..N \/ i = N + 1
    BY <1>3
  <2>2. \A i, j \in 1..N: manifestPathKey(after.entries[i].path) = manifestPathKey(after.entries[j].path) => i = j
    BY <1>3 DEF EntriesOK, KeysDiffer
  <2>3. \A i \in 1..N: manifestPathKey(after.entries[i].path) # manifestPathKey(after.entries[N + 1].path)
    BY <1>3, <1>6
  <2> QED BY <2>1, <2>2, <2>3 DEF KeysDiffer
<1>8. EntriesOK(after)
  <2> SUFFICES ASSUME NEW i \in 1..(N + 1)
               PROVE  /\ \E n \in DOMAIN after.roots: after.entries[i].path[1] = after.roots[n]
                      /\ \A parent \in Ancestors(after.entries[i].path): HasFolder(after.entries, i - 1, parent)
    BY <1>3, <1>7 DEF EntriesOK
  <2>1. CASE i \in 1..N
    <3>1. \E n \in DOMAIN after.roots: after.entries[i].path[1] = after.roots[n]
      <4>1. i \in DOMAIN m.entries /\ after.entries[i] = m.entries[i]
        BY <1>3, <2>1
      <4>2. \E n \in DOMAIN m.roots: m.entries[i].path[1] = m.roots[n]
        BY <4>1 DEF EntriesOK
      <4> QED BY <4>1, <4>2
    <3>2. i - 1 \in 0..N /\ i - 1 \in (i - 1)..(N + 1)
      BY <1>3, <2>1
    <3>3. \A parent \in Ancestors(m.entries[i].path): HasFolder(m.entries, i - 1, parent)
      BY <1>3, <2>1 DEF EntriesOK
    <3>4. \A parent \in Ancestors(m.entries[i].path): HasFolder(after.entries, i - 1, parent)
      BY <1>5, <3>2, <3>3
    <3> QED BY <1>3, <2>1, <3>1, <3>4
  <2>2. CASE i = N + 1
    <3>1. x[1][1] \in 1..Len(m.roots) /\ DOMAIN m.roots = 1..Len(m.roots)
      <4>1. x[1][1] < next /\ Len(m.roots) = next - 1 /\ x[1][1] \in 1..Len(args) /\ Len(args) \in Nat
        BY <1>2, <1>4 DEF PlaceOK, RootsOK
      <4> QED BY <4>1, ManifestIs
    <3>2. m.roots[x[1][1]] = r[1]
      BY <1>2, <3>1 DEF RootsOK
    <3>3. \A parent \in Ancestors(r): HasFolder(m.entries, N, parent)
      BY <1>4 DEF PlaceOK
    <3>4. N \in 0..N /\ N \in N..(N + 1) /\ i - 1 = N
      BY <1>3, <2>2
    <3>5. \A parent \in Ancestors(r): HasFolder(after.entries, i - 1, parent)
      BY <1>5, <3>3, <3>4
    <3> HIDE DEF r
    <3> QED BY <1>3, <2>2, <3>1, <3>2, <3>5
  <2> QED BY <1>3, <2>1, <2>2
<1>9. /\ children \in Seq(DOMAIN tree)
      /\ \A k \in DOMAIN children:
            /\ children[k][1][1] = x[1][1]
            /\ r \in Ancestors(Rel(args, children[k]))
            /\ Ancestors(Rel(args, children[k])) = Ancestors(r) \cup {r}
            /\ Rel(args, children[k]) \in Paths
      /\ \A k, l \in DOMAIN children: k # l => Apart(Rel(args, children[k]), Rel(args, children[l]))
  <2>1. \A k \in DOMAIN children: children[k] \in DOMAIN tree
    BY <1>1, ChildrenAre
  <2>2. \A k \in DOMAIN children: Rel(args, children[k]) \in Paths
    BY <2>1, PlaceIs
  <2> QED BY <1>1, <2>2, ChildrenAre
<1>10. DOMAIN children # {} => kind = manifestFolder
  <2>1. \A k \in DOMAIN children: children[k] \in C
    BY <1>1, ChildrenAre
  <2> QED BY <2>1
<1>11. /\ \A k \in DOMAIN left:
            \/ k \in DOMAIN children /\ left[k] = children[k]
            \/ /\ k \notin DOMAIN children
               /\ k - Len(children) + 1 \in DOMAIN pend /\ k - Len(children) + 1 # 1
               /\ left[k] = pend[k - Len(children) + 1]
       /\ left \in Seq(DOMAIN tree)
  BY <1>9, LeftIs
<1>12. \A k \in DOMAIN children: PlaceOK(args, next, after, children[k])
  <2> SUFFICES ASSUME NEW k \in DOMAIN children PROVE PlaceOK(args, next, after, children[k])
    OBVIOUS
  <2> DEFINE c == Rel(args, children[k])
  <2>1. c \in Paths /\ r \in Ancestors(c) /\ Ancestors(c) = Ancestors(r) \cup {r} /\ children[k][1][1] < next
    BY <1>4, <1>9 DEF PlaceOK
  <2>2. HasFolder(after.entries, N + 1, r)
    <3>1. N + 1 \in 1..(N + 1)
      BY <1>3
    <3> QED BY <1>3, <1>10, <3>1 DEF HasFolder
  <2>3. \A parent \in Ancestors(r): HasFolder(after.entries, N + 1, parent)
    <3>1. \A parent \in Ancestors(r): HasFolder(m.entries, N, parent)
      BY <1>4 DEF PlaceOK
    <3>2. N \in 0..N /\ N + 1 \in N..(N + 1)
      BY <1>3
    <3> QED BY <1>5, <3>1, <3>2
  <2>4. \A i \in 1..N: Apart(after.entries[i].path, c) \/ after.entries[i].path \in Ancestors(c)
    <3> SUFFICES ASSUME NEW i \in 1..N
                 PROVE  Apart(m.entries[i].path, c) \/ m.entries[i].path \in Ancestors(c)
      BY <1>3
    <3>1. Apart(m.entries[i].path, r) \/ m.entries[i].path \in Ancestors(r)
      BY <1>3, <1>4 DEF PlaceOK
    <3> HIDE DEF r, c
    <3> QED BY <2>1, <3>1, ApartBelow
  <2>5. \A i \in DOMAIN after.entries: Apart(after.entries[i].path, c) \/ after.entries[i].path \in Ancestors(c)
    BY <1>3, <2>1, <2>4
  <2>6. \A parent \in Ancestors(c): HasFolder(after.entries, Len(after.entries), parent)
    BY <1>3, <2>1, <2>2, <2>3
  <2> QED BY <2>1, <2>5, <2>6 DEF PlaceOK
<1>13. \A l \in DOMAIN pend: l # 1 => PlaceOK(args, next, after, pend[l])
  <2> SUFFICES ASSUME NEW l \in DOMAIN pend, l # 1 PROVE PlaceOK(args, next, after, pend[l])
    OBVIOUS
  <2> DEFINE t == Rel(args, pend[l])
  <2>1. PlaceOK(args, next, m, pend[l]) /\ Apart(r, t)
    BY <1>1 DEF PendingOK
  <2>2. \A parent \in Ancestors(t): HasFolder(after.entries, N + 1, parent)
    <3>1. \A parent \in Ancestors(t): HasFolder(m.entries, N, parent)
      BY <2>1 DEF PlaceOK
    <3>2. N \in 0..N /\ N + 1 \in N..(N + 1)
      BY <1>3
    <3> QED BY <1>5, <3>1, <3>2
  <2>3. \A i \in DOMAIN after.entries: Apart(after.entries[i].path, t) \/ after.entries[i].path \in Ancestors(t)
    <3> SUFFICES ASSUME NEW i \in 1..(N + 1)
                 PROVE  Apart(after.entries[i].path, t) \/ after.entries[i].path \in Ancestors(t)
      BY <1>3
    <3>1. i \in 1..N \/ i = N + 1
      BY <1>3
    <3>2. i \in 1..N => after.entries[i] = m.entries[i] /\ (Apart(m.entries[i].path, t) \/ m.entries[i].path \in Ancestors(t))
      BY <1>3, <2>1 DEF PlaceOK
    <3> HIDE DEF r, t
    <3> QED BY <1>3, <2>1, <3>1, <3>2
  <2>4. pend[l][1][1] < next
    BY <2>1 DEF PlaceOK
  <2> QED BY <1>3, <2>2, <2>3, <2>4 DEF PlaceOK
<1>14. \A k, l \in DOMAIN left: k # l => Apart(Rel(args, left[k]), Rel(args, left[l]))
  <2>1. \A k \in DOMAIN children, l \in DOMAIN pend: l # 1 =>
            Apart(Rel(args, children[k]), Rel(args, pend[l])) /\ Apart(Rel(args, pend[l]), Rel(args, children[k]))
    <3> SUFFICES ASSUME NEW k \in DOMAIN children, NEW l \in DOMAIN pend, l # 1
                 PROVE  Apart(Rel(args, children[k]), Rel(args, pend[l])) /\ Apart(Rel(args, pend[l]), Rel(args, children[k]))
      OBVIOUS
    <3>1. Apart(Rel(args, pend[l]), r)
      BY <1>1 DEF PendingOK
    <3>2. r \in Ancestors(Rel(args, children[k])) /\ Rel(args, children[k]) \in Paths
      BY <1>9
    <3>3. Apart(Rel(args, pend[l]), Rel(args, children[k]))
      <4> HIDE DEF r
      <4> QED BY <3>1, <3>2, ApartBelow
    <3> QED BY <3>3, ApartKeys
  <2>2. \A k, l \in DOMAIN pend: k # l => Apart(Rel(args, pend[k]), Rel(args, pend[l]))
    BY DEF PendingOK
  <2> SUFFICES ASSUME NEW k \in DOMAIN left, NEW l \in DOMAIN left, k # l
               PROVE  Apart(Rel(args, left[k]), Rel(args, left[l]))
    OBVIOUS
  <2>3. k \in Int /\ l \in Int /\ Len(children) \in Int
    <3> HIDE DEF left
    <3> QED BY <1>9, <1>11
  <2> HIDE DEF left
  <2>4. CASE k \in DOMAIN children /\ l \in DOMAIN children
    BY <1>9, <1>11, <2>4
  <2>5. CASE k \in DOMAIN children /\ l \notin DOMAIN children
    BY <1>11, <2>1, <2>5
  <2>6. CASE k \notin DOMAIN children /\ l \in DOMAIN children
    BY <1>11, <2>1, <2>6
  <2>7. CASE k \notin DOMAIN children /\ l \notin DOMAIN children
    <3>1. k - Len(children) + 1 # l - Len(children) + 1
      BY <2>3
    <3> QED BY <1>11, <2>2, <2>7, <3>1
  <2> QED BY <2>4, <2>5, <2>6, <2>7
<1>15. \A k \in DOMAIN left: PlaceOK(args, next, after, left[k])
  <2> HIDE DEF left, x, r
  <2> QED BY <1>11, <1>12, <1>13
<1>16. PendingOK(args, next, after, left)
  <2> HIDE DEF left
  <2> QED BY <1>14, <1>15 DEF PendingOK
<1> QED BY <1>8, <1>16

\* The head of what was pending is no entry.
LEMMA NothingAdded ==
    ASSUME NEW args \in Seq(Names), NEW tree, NEW next,
           NEW m, NEW after, NEW pend \in Seq(DOMAIN tree), pend # << >>,
           EntriesOK(m), PendingOK(args, next, m, pend),
           after.roots = m.roots, after.entries = m.entries
    PROVE  EntriesOK(after) /\ PendingOK(args, next, after, << >> \o Tail(pend))
<1> DEFINE left == << >> \o Tail(pend)
<1>1. EntriesOK(after)
  BY DEF EntriesOK
<1>2. \A k \in DOMAIN left: k + 1 \in DOMAIN pend /\ left[k] = pend[k + 1]
  <2>1. << >> \in Seq(DOMAIN tree) /\ Len(<< >>) = 0 /\ DOMAIN << >> = {}
    OBVIOUS
  <2>2. /\ left \in Seq(DOMAIN tree)
        /\ \A k \in DOMAIN left: /\ k - Len(<< >>) + 1 \in DOMAIN pend
                                 /\ left[k] = pend[k - Len(<< >>) + 1]
    BY <2>1, LeftIs
  <2>3. \A k \in DOMAIN left: k - 0 + 1 = k + 1
    <3> HIDE DEF left
    <3> QED BY <2>2
  <2> HIDE DEF left
  <2> QED BY <2>1, <2>2, <2>3
<1>3. \A k \in DOMAIN left: k \in Int
  <2>1. << >> \in Seq(DOMAIN tree)
    OBVIOUS
  <2>2. left \in Seq(DOMAIN tree)
    BY <2>1, LeftIs
  <2> HIDE DEF left
  <2> QED BY <2>2
<1>4. \A k \in DOMAIN pend: PlaceOK(args, next, after, pend[k])
  BY DEF PendingOK, PlaceOK
<1>5. \A k, l \in DOMAIN pend: k # l => Apart(Rel(args, pend[k]), Rel(args, pend[l]))
  BY DEF PendingOK
<1>6. \A k \in DOMAIN left: PlaceOK(args, next, after, left[k])
  <2> HIDE DEF left
  <2> QED BY <1>2, <1>4
<1>7. \A k, l \in DOMAIN left: k # l => Apart(Rel(args, left[k]), Rel(args, left[l]))
  <2> SUFFICES ASSUME NEW k \in DOMAIN left, NEW l \in DOMAIN left, k # l
               PROVE  Apart(Rel(args, left[k]), Rel(args, left[l]))
    OBVIOUS
  <2> HIDE DEF left
  <2>1. k + 1 # l + 1 /\ k + 1 \in DOMAIN pend /\ l + 1 \in DOMAIN pend /\ left[k] = pend[k + 1] /\ left[l] = pend[l + 1]
    BY <1>2, <1>3
  <2> QED BY <1>5, <2>1
<1>8. PendingOK(args, next, after, left)
  <2> HIDE DEF left
  <2> QED BY <1>6, <1>7 DEF PendingOK
<1> QED BY <1>1, <1>8

\* What a step of the walk records.
Records(args, m, after, x) ==
    /\ after.roots = m.roots
    /\ PathsOf(m.entries) \subseteq PathsOf(after.entries)
    /\ PathsOf(m.omissions) \subseteq PathsOf(after.omissions)
    /\ PathsOf(after.entries) \subseteq PathsOf(m.entries) \cup {Rel(args, x)}
    /\ Recorded(after, Rel(args, x))

LEMMA RootsKept ==
    ASSUME NEW args, NEW next, NEW m, NEW after, NEW pend, NEW left,
           RootsOK(args, next, m, pend), Records(args, m, after, pend[1])
    PROVE  RootsOK(args, next, after, left)
<1>1. \A path: Recorded(m, path) => Recorded(after, path)
  BY DEF Recorded, Records
<1>2. ASSUME NEW n \in DOMAIN m.roots, pend = <<RootPlace(n)>> PROVE Recorded(after, <<m.roots[n]>>)
  <2>1. pend[1] = << <<n>> >>
    BY <1>2 DEF RootPlace
  <2>2. Rel(args, << <<n>> >>) = <<args[n]>>
    BY DEF Rel
  <2>3. m.roots[n] = args[n]
    BY DEF RootsOK
  <2> QED BY <2>1, <2>2, <2>3 DEF Records
<1>3. \A n \in DOMAIN m.roots: Recorded(after, <<m.roots[n]>>)
  BY <1>1, <1>2 DEF RootsOK
<1>4. after.roots = m.roots
  BY DEF Records
<1> QED BY <1>3, <1>4 DEF RootsOK

LEMMA DisclosedKept ==
    ASSUME NEW args \in Seq(Names), NEW tree, IsTree(tree, args), NEW next \in Nat,
           NEW m \in Manifests, NEW after, NEW pend \in Seq(DOMAIN tree), pend # << >>,
           RootsOK(args, next, m, pend), PendingOK(args, next, m, pend),
           DisclosedOK(args, tree, next, m, pend), Records(args, m, after, pend[1]),
           NEW children \in Seq(DOMAIN tree),
           tree[pend[1]] = "folder" =>
               \A y \in Below(tree, pend[1]): tree[y] # "absent" => \E k \in DOMAIN children: children[k] = y,
           tree[pend[1]] = "locked" => Rel(args, pend[1]) \in PathsOf(after.omissions)
    PROVE  DisclosedOK(args, tree, next, after, children \o Tail(pend))
<1> DEFINE x == pend[1]
           left == children \o Tail(pend)
<1>1. x \in DOMAIN tree /\ 1 \in DOMAIN pend
  OBVIOUS
<1>2. x[1][1] < next
  BY <1>1 DEF PendingOK, PlaceOK
<1>3. \A path: Recorded(m, path) => Recorded(after, path)
  BY DEF Recorded, Records
<1>4. \A n, k \in 1..(next - 1): Key(args[n]) = Key(args[k]) => n = k
  <2>1. DOMAIN m.roots = 1..(next - 1)
    BY ManifestIs DEF RootsOK
  <2> QED BY <2>1 DEF RootsOK
<1>5. /\ \A k \in DOMAIN children: k \in DOMAIN left /\ left[k] = children[k]
      /\ \A k \in DOMAIN pend: k # 1 => k + Len(children) - 1 \in DOMAIN left /\ left[k + Len(children) - 1] = pend[k]
  BY LeftIs
<1>6. ASSUME NEW y \in DOMAIN tree, y[1][1] < next, Reached(tree, y)
      PROVE  Recorded(after, Rel(args, y)) \/ ToBeWalked(left, y)
  <2>1. Recorded(m, Rel(args, y)) \/ ToBeWalked(pend, y)
    BY <1>6 DEF DisclosedOK
  <2>2. ASSUME NEW k \in DOMAIN pend, k # 1, y = pend[k] \/ pend[k] \in Ancestors(y)
        PROVE  ToBeWalked(left, y)
    <3> HIDE DEF left
    <3> QED BY <1>5, <2>2 DEF ToBeWalked
  <2>3. CASE y = x
    BY <2>3 DEF Records
  <2>4. CASE x \in Ancestors(y)
    <3>1. tree[x] = "folder"
      BY <1>6, <2>4 DEF Reached
    <3>2. /\ y \in Paths /\ x \in Paths /\ Len(x) \in 1..(Len(y) - 1) /\ Len(y) \in Nat
          /\ y \in Seq(Seq(Nat)) /\ \A i \in 1..Len(x): x[i] = y[i]
      <4>1. y \in Paths
        BY <1>6, PlaceIs
      <4> QED BY <2>4, <4>1, AncestorIs DEF Paths
    <3> DEFINE c == SubSeq(y, 1, Len(x) + 1)
    <3>3. c \in Paths /\ Len(c) = Len(x) + 1 /\ \A i \in 1..(Len(x) + 1): c[i] = y[i]
      <4>1. Len(x) + 1 \in 1..Len(y)
        BY <3>2
      <4>2. c \in Seq(Seq(Nat)) /\ Len(c) = Len(x) + 1 /\ \A i \in 1..(Len(x) + 1): c[i] = y[i]
        BY <3>2, <4>1
      <4>3. Len(c) # 0
        <5>1. Len(x) \in Nat
          BY <3>2
        <5> HIDE DEF c, x
        <5> QED BY <4>2, <5>1
      <4> HIDE DEF c
      <4>4. c # << >>
        BY <4>3
      <4> QED BY <4>2, <4>4 DEF Paths
    <3>4. c = y \/ c \in Ancestors(y)
      <4>1. CASE Len(x) + 1 = Len(y)
        <5> HIDE DEF c
        <5> QED BY <3>2, <3>3, <4>1, SamePath
      <4>2. CASE Len(x) + 1 # Len(y)
        <5>1. Len(x) + 1 < Len(y)
          BY <3>2, <4>2
        <5> HIDE DEF c
        <5> QED BY <3>2, <3>3, <5>1, PrefixIsAncestor
      <4> QED BY <4>1, <4>2
    <3>5. c \in DOMAIN tree /\ tree[c] # "absent"
      <4>1. Ancestors(y) \subseteq DOMAIN tree
        BY <1>6, PlaceIs
      <4>2. \A z \in Ancestors(y): tree[z] # "absent"
        BY <1>6 DEF Reached
      <4>3. tree[y] # "absent"
        BY <1>6 DEF Reached
      <4> HIDE DEF c
      <4> QED BY <1>6, <3>4, <4>1, <4>2, <4>3
    <3>6. x \in Ancestors(c)
      <4>1. \A i \in 1..Len(x): x[i] = c[i]
        BY <3>2, <3>3
      <4>2. Len(x) < Len(c)
        BY <3>2, <3>3
      <4> HIDE DEF c, x
      <4> QED BY <3>2, <3>3, <4>1, <4>2, PrefixIsAncestor
    <3>7. c \in Below(tree, x)
      BY <3>3, <3>5, <3>6 DEF Below
    <3>8. PICK k \in DOMAIN children: children[k] = c
      BY <3>1, <3>5, <3>7
    <3>9. k \in DOMAIN left /\ left[k] = c
      BY <1>5, <3>8
    <3> HIDE DEF c, left
    <3> QED BY <3>4, <3>9 DEF ToBeWalked
  <2>5. CASE \E k \in DOMAIN pend: k # 1 /\ (y = pend[k] \/ pend[k] \in Ancestors(y))
    BY <2>2, <2>5
  <2>6. ToBeWalked(pend, y) => \/ y = x \/ x \in Ancestors(y)
                               \/ \E k \in DOMAIN pend: k # 1 /\ (y = pend[k] \/ pend[k] \in Ancestors(y))
    BY DEF ToBeWalked
  <2> HIDE DEF left, x
  <2> QED BY <1>3, <2>1, <2>3, <2>4, <2>5, <2>6
<1>7. ASSUME NEW y \in DOMAIN tree, y[1][1] < next, tree[y] = "locked", Rel(args, y) \in PathsOf(after.entries)
      PROVE  Rel(args, y) \in PathsOf(after.omissions)
  <2>1. CASE Rel(args, y) \in PathsOf(m.entries)
    <3>1. Rel(args, y) \in PathsOf(m.omissions)
      BY <1>7, <2>1 DEF DisclosedOK
    <3> QED BY <3>1 DEF Records
  <2>2. CASE Rel(args, y) = Rel(args, x)
    <3>1. y = x
      BY <1>1, <1>2, <1>4, <1>7, <2>2, RelInjective
    <3> QED BY <1>7, <3>1
  <2> QED BY <1>7, <2>1, <2>2 DEF Records
<1> HIDE DEF left
<1>8. DisclosedOK(args, tree, next, after, left)
  BY <1>6, <1>7 DEF DisclosedOK
<1> QED BY <1>8 DEF left

LEMMA CountAppend ==
    ASSUME NEW entries \in Seq(ReceivedEntries), NEW e \in ReceivedEntries, NEW kind
    PROVE  /\ Count(entries, kind) \in Nat
           /\ Count(Append(entries, e), kind) = Count(entries, kind) + (IF e.kind = kind THEN 1 ELSE 0)
<1> DEFINE n == Len(entries)
           more == Append(entries, e)
           K == {i \in 1..n: entries[i].kind = kind}
<1>1. /\ n \in Nat /\ DOMAIN entries = 1..n /\ DOMAIN more = 1..(n + 1)
      /\ more[n + 1] = e /\ \A i \in 1..n: more[i] = entries[i]
  BY AppendIs
<1>2. IsFiniteSet(K) /\ n + 1 \notin K
  <2>1. K \subseteq 1..n /\ IsFiniteSet(1..n) /\ n + 1 \notin 1..n
    BY <1>1, FS_Interval
  <2> QED BY <2>1, FS_Subset
<1>3. Count(entries, kind) = Cardinality(K)
  BY <1>1 DEF Count
<1>4. Cardinality(K) \in Nat
  BY <1>2, FS_CardinalityType
<1>5. 1..(n + 1) = (1..n) \cup {n + 1}
  BY <1>1
<1> HIDE DEF n, more
<1>6. {i \in DOMAIN more: more[i].kind = kind} = IF e.kind = kind THEN K \cup {n + 1} ELSE K
  BY <1>1, <1>5
<1> HIDE DEF K
<1>7. Cardinality(K \cup {n + 1}) = Cardinality(K) + 1
  BY <1>2, FS_AddElement
<1>8. Count(more, kind) = Cardinality(K) + (IF e.kind = kind THEN 1 ELSE 0)
  <2>1. Count(more, kind) = Cardinality({i \in DOMAIN more: more[i].kind = kind})
    BY DEF Count
  <2>2. CASE e.kind = kind
    BY <1>6, <1>7, <2>1, <2>2
  <2>3. CASE e.kind # kind
    <3>1. Count(more, kind) = Cardinality(K)
      BY <1>6, <2>1, <2>3
    <3> QED BY <1>4, <2>3, <3>1
  <2> QED BY <2>2, <2>3
<1> QED BY <1>3, <1>4, <1>8 DEF more

LEMMA TotalSizeAppend ==
    ASSUME NEW entries \in Seq(ReceivedEntries), NEW e \in ReceivedEntries
    PROVE  /\ TotalSize(entries) \in Nat
           /\ TotalSize(Append(entries, e)) = TotalSize(entries) + e.size
<1> DEFINE more == Append(entries, e)
<1>1. /\ DOMAIN more = 1..(Len(entries) + 1) /\ Len(entries) \in Nat /\ DOMAIN entries = 1..Len(entries)
      /\ more[Len(entries) + 1] = e /\ \A i \in 1..Len(entries): more[i] = entries[i]
  BY AppendIs
<1>2. Sizes(entries) \in Seq(Nat) /\ Len(Sizes(entries)) = Len(entries)
  BY SizesAre
<1>3. e.size \in Nat
  BY EntryIs, ManifestAssumption
<1>4. Sizes(more) = Append(Sizes(entries), e.size)
  <2> DEFINE s == Sizes(more)
             t == Append(Sizes(entries), e.size)
  <2>1. s \in [1..(Len(entries) + 1) -> {more[i].size: i \in 1..(Len(entries) + 1)}]
    BY <1>1 DEF Sizes
  <2>2. DOMAIN t = 1..(Len(entries) + 1) /\ t[Len(entries) + 1] = e.size
        /\ \A i \in 1..Len(entries): t[i] = Sizes(entries)[i]
    BY <1>2, AppendIs
  <2>3. \A i \in 1..Len(entries): Sizes(entries)[i] = entries[i].size
    BY <1>1 DEF Sizes
  <2>4. \A i \in 1..(Len(entries) + 1): s[i] = t[i]
    <3> SUFFICES ASSUME NEW i \in 1..(Len(entries) + 1) PROVE s[i] = t[i]
      OBVIOUS
    <3>1. s[i] = more[i].size
      BY <1>1 DEF Sizes
    <3>2. i \in 1..Len(entries) \/ i = Len(entries) + 1
      BY <1>1
    <3> HIDE DEF s, t, more
    <3> QED BY <1>1, <2>2, <2>3, <3>1, <3>2
  <2>5. t \in Seq(Nat) /\ Len(t) = Len(entries) + 1
    BY <1>2, <1>3, AppendIs
  <2>6. t = [i \in 1..(Len(entries) + 1) |-> t[i]]
    <3> HIDE DEF t
    <3> QED BY <2>2, <2>5
  <2>7. s = [i \in 1..(Len(entries) + 1) |-> s[i]]
    <3> HIDE DEF s
    <3> QED BY <2>1
  <2> HIDE DEF s, t
  <2>8. s = t
    BY <2>4, <2>6, <2>7
  <2> QED BY <2>8 DEF s, t
<1>5. Sizes(entries) \in Seq(Int) /\ e.size \in Int
  BY <1>2, <1>3
<1>6. Total(Sizes(more)) = Total(Sizes(entries)) + e.size
  BY <1>4, <1>5, TotalAppend
<1>7. Total(Sizes(entries)) \in Nat
  BY <1>2, SumsType
<1>8. \A es: TotalSize(es) = Total(Sizes(es))
  BY DEF TotalSize, Sizes
<1> QED BY <1>6, <1>7, <1>8 DEF more

LEMMA PathsAppend ==
    ASSUME NEW S, NEW s \in Seq(S), NEW e
    PROVE  PathsOf(Append(s, e)) = PathsOf(s) \cup {e.path}
<1> DEFINE more == Append(s, e)
<1>1. /\ DOMAIN more = 1..(Len(s) + 1) /\ Len(s) \in Nat /\ DOMAIN s = 1..Len(s)
      /\ more[Len(s) + 1] = e /\ \A i \in 1..Len(s): more[i] = s[i]
  BY AppendIs
<1>2. 1..(Len(s) + 1) = 1..Len(s) \cup {Len(s) + 1}
  BY <1>1
<1> HIDE DEF more
<1>3. PathsOf(more) = PathsOf(s) \cup {e.path}
  BY <1>1, <1>2 DEF PathsOf
<1> QED BY <1>3 DEF more

\* The head of pending becomes an entry, and its children C take its place.
LEMMA EntryStep ==
    ASSUME NEW args \in Seq(Names), NEW tree, IsTree(tree, args), NEW next \in Nat,
           NEW m \in Manifests, NEW after \in Manifests, NEW pend \in Seq(DOMAIN tree), pend # << >>,
           EntriesOK(m), PendingOK(args, next, m, pend), RootsOK(args, next, m, pend),
           NEW kind, NEW size, after.roots = m.roots,
           after.entries = Append(m.entries, Entry(Rel(args, pend[1]), kind, size)),
           PathsOf(m.omissions) \subseteq PathsOf(after.omissions),
           NEW C \in SUBSET Below(tree, pend[1]), NoAliases(C), NEW children \in SortedByKey(C),
           C = {} \/ kind = manifestFolder,
           tree[pend[1]] = "folder" => \A y \in Below(tree, pend[1]): tree[y] # "absent" => y \in C,
           tree[pend[1]] = "locked" => Rel(args, pend[1]) \in PathsOf(after.omissions)
    PROVE  LET left == children \o Tail(pend) IN
           /\ left \in Seq(DOMAIN tree)
           /\ RootsOK(args, next, after, left) /\ EntriesOK(after) /\ PendingOK(args, next, after, left)
           /\ DisclosedOK(args, tree, next, m, pend) => DisclosedOK(args, tree, next, after, left)
<1> DEFINE left == children \o Tail(pend)
           x == pend[1]
<1>1. x \in DOMAIN tree
  OBVIOUS
<1>2. /\ children \in Seq(DOMAIN tree)
      /\ \A y \in C: \E k \in DOMAIN children: children[k] = y
  BY <1>1, ChildrenAre
<1>3. left \in Seq(DOMAIN tree)
  BY <1>2, LeftIs
<1>4. EntriesOK(after) /\ PendingOK(args, next, after, left)
  BY EntryAdded
<1>5. PathsOf(after.entries) = PathsOf(m.entries) \cup {Rel(args, x)}
  <2>1. m.entries \in Seq(ManifestEntries)
    BY ManifestIs
  <2>2. Entry(Rel(args, x), kind, size).path = Rel(args, x)
    BY DEF Entry
  <2> HIDE DEF x
  <2> QED BY <2>1, <2>2, PathsAppend DEF x
<1>6. Records(args, m, after, x)
  <2> HIDE DEF x
  <2> QED BY <1>5 DEF Records, Recorded
<1>7. RootsOK(args, next, after, left)
  BY <1>6, RootsKept
<1>8. DisclosedOK(args, tree, next, m, pend) => DisclosedOK(args, tree, next, after, left)
  <2>1. tree[x] = "folder" =>
            \A y \in Below(tree, x): tree[y] # "absent" => \E k \in DOMAIN children: children[k] = y
    BY <1>2
  <2> QED BY <1>2, <1>6, <2>1, DisclosedKept
<1> QED BY <1>3, <1>4, <1>7, <1>8

\* The head of pending is omitted.
LEMMA OmissionStep ==
    ASSUME NEW args \in Seq(Names), NEW tree, IsTree(tree, args), NEW next \in Nat,
           NEW m \in Manifests, NEW after, NEW pend \in Seq(DOMAIN tree), pend # << >>,
           EntriesOK(m), PendingOK(args, next, m, pend), RootsOK(args, next, m, pend),
           after.roots = m.roots, after.entries = m.entries,
           PathsOf(after.omissions) = PathsOf(m.omissions) \cup {Rel(args, pend[1])},
           tree[pend[1]] # "folder"
    PROVE  LET left == << >> \o Tail(pend) IN
           /\ left \in Seq(DOMAIN tree)
           /\ RootsOK(args, next, after, left) /\ EntriesOK(after) /\ PendingOK(args, next, after, left)
           /\ DisclosedOK(args, tree, next, m, pend) => DisclosedOK(args, tree, next, after, left)
<1> DEFINE left == << >> \o Tail(pend)
           x == pend[1]
<1>1. << >> \in Seq(DOMAIN tree)
  OBVIOUS
<1>2. left \in Seq(DOMAIN tree)
  BY <1>1, LeftIs
<1>3. EntriesOK(after) /\ PendingOK(args, next, after, left)
  BY NothingAdded
<1>4. Records(args, m, after, x) /\ Rel(args, x) \in PathsOf(after.omissions)
  <2> HIDE DEF x
  <2> QED BY DEF Records, Recorded, x
<1>5. RootsOK(args, next, after, left)
  BY <1>4, RootsKept
<1>6. DisclosedOK(args, tree, next, m, pend) => DisclosedOK(args, tree, next, after, left)
  BY <1>1, <1>4, DisclosedKept
<1> QED BY <1>2, <1>3, <1>5, <1>6

WalkOK(args, tree, next, m, pend) ==
    /\ args \in Seq(Names) /\ IsTree(tree, args) /\ next \in Nat
    /\ m \in Manifests /\ pend \in Seq(DOMAIN tree)
    /\ CountsOK(m) /\ RootsOK(args, next, m, pend) /\ EntriesOK(m) /\ PendingOK(args, next, m, pend)
WalkKept(args, tree, next, m, pend, after, left) ==
    /\ WalkOK(args, tree, next, after, left)
    /\ DisclosedOK(args, tree, next, m, pend) => DisclosedOK(args, tree, next, after, left)

LEMMA CountsStep ==
    ASSUME NEW m \in Manifests, CountsOK(m), Len(m.entries) < MaxEntries,
           NEW e \in ManifestEntries, m.bytes + e.size <= MaxTotal,
           NEW after, after = [roots |-> m.roots, entries |-> Append(m.entries, e), omissions |-> m.omissions,
                               files |-> m.files + (IF e.kind = manifestFile THEN 1 ELSE 0),
                               folders |-> m.folders + (IF e.kind = manifestFolder THEN 1 ELSE 0),
                               bytes |-> m.bytes + e.size]
    PROVE  after \in Manifests /\ CountsOK(after)
<1>1. /\ m.entries \in Seq(ManifestEntries) /\ m.entries \in Seq(ReceivedEntries) /\ e \in ReceivedEntries
      /\ m.roots \in Seq(Names) /\ m.omissions \in Seq(Omissions)
  BY ManifestIs DEF ManifestEntries
<1>2. e.size \in 0..MaxTotal /\ e.kind \in {manifestFile, manifestFolder} /\ MaxTotal \in Nat /\ MaxEntries \in Nat
  BY <1>1, EntryIs, ManifestAssumption
<1>3. m.files \in Nat /\ m.folders \in Nat /\ m.bytes \in 0..MaxTotal
  BY DEF Manifests
<1>4. Append(m.entries, e) \in Seq(ManifestEntries)
  BY <1>1
<1>5. after.bytes \in 0..MaxTotal /\ after.files \in Nat /\ after.folders \in Nat
  <2>1. /\ after.bytes = m.bytes + e.size
        /\ after.files = m.files + (IF e.kind = manifestFile THEN 1 ELSE 0)
        /\ after.folders = m.folders + (IF e.kind = manifestFolder THEN 1 ELSE 0)
    OBVIOUS
  <2>2. m.bytes + e.size \in 0..MaxTotal
    BY <1>2, <1>3
  <2>3. after.files \in Nat /\ after.folders \in Nat
    BY <1>3, <2>1
  <2> QED BY <2>1, <2>2, <2>3
<1>6. after \in Manifests
  BY <1>1, <1>4, <1>5 DEF Manifests
<1>7. Len(after.entries) = Len(m.entries) + 1 /\ Len(m.entries) \in Nat
  BY <1>1, AppendIs
<1>8. /\ Count(after.entries, manifestFile) = Count(m.entries, manifestFile) + (IF e.kind = manifestFile THEN 1 ELSE 0)
      /\ Count(after.entries, manifestFolder) = Count(m.entries, manifestFolder) + (IF e.kind = manifestFolder THEN 1 ELSE 0)
  BY <1>1, CountAppend
<1>9. TotalSize(after.entries) = TotalSize(m.entries) + e.size
  BY <1>1, TotalSizeAppend
<1>10. after.files + after.folders = m.files + m.folders + 1
  BY <1>2, <1>3 DEF manifestFile, manifestFolder
<1>11. CountsOK(after)
  BY <1>2, <1>7, <1>8, <1>9, <1>10 DEF CountsOK
<1> QED BY <1>6, <1>11

LEMMA FileKept ==
    ASSUME NEW args, NEW tree, NEW next, NEW m, NEW pend, WalkOK(args, tree, next, m, pend), pend # << >>,
           Len(m.entries) < MaxEntries, validateManifestPath(Rel(args, pend[1])), tree[pend[1]] = "file",
           NEW size \in 0..MaxTotal, size <= MaxTotal - m.bytes,
           NEW after, after = [m EXCEPT !.entries = Append(@, Entry(Rel(args, pend[1]), manifestFile, size)),
                                        !.files = @ + 1, !.bytes = Wrap(@ + size)]
    PROVE  WalkKept(args, tree, next, m, pend, after, << >> \o Tail(pend))
<1> DEFINE e == Entry(Rel(args, pend[1]), manifestFile, size)
<1>1. /\ args \in Seq(Names) /\ IsTree(tree, args) /\ next \in Nat
      /\ m \in Manifests /\ pend \in Seq(DOMAIN tree)
      /\ CountsOK(m) /\ RootsOK(args, next, m, pend) /\ EntriesOK(m) /\ PendingOK(args, next, m, pend)
  BY DEF WalkOK
<1>2. pend[1] \in DOMAIN tree
  BY <1>1
<1>3. IsPath(Rel(args, pend[1]))
  BY <1>1, <1>2, PlaceIs
<1>4. e \in ManifestEntries /\ e.kind = manifestFile /\ e.size = size /\ manifestFile # manifestFolder
  BY <1>3 DEF Entry, IsPath, ReceivedEntries, ManifestEntries, manifestFile, manifestFolder
<1>5. m.bytes + size \in Int64 /\ m.bytes + size <= MaxTotal /\ MaxTotal \in Nat
  <2>1. m.bytes \in 0..MaxTotal /\ MaxTotal \in Nat
    BY <1>1, ManifestAssumption DEF Manifests
  <2> QED BY <2>1 DEF Int64
<1>6. Wrap(m.bytes + size) = m.bytes + size
  BY <1>5, WrapIs
<1>7. m.folders + 0 = m.folders
  BY <1>1 DEF Manifests
<1> HIDE DEF e
<1>8. after = [roots |-> m.roots, entries |-> Append(m.entries, e), omissions |-> m.omissions,
               files |-> m.files + (IF e.kind = manifestFile THEN 1 ELSE 0),
               folders |-> m.folders + (IF e.kind = manifestFolder THEN 1 ELSE 0),
               bytes |-> m.bytes + e.size]
  <2>1. after = [roots |-> m.roots, entries |-> Append(m.entries, e), omissions |-> m.omissions,
                 files |-> m.files + 1, folders |-> m.folders, bytes |-> Wrap(m.bytes + size)]
    BY <1>1 DEF e, Manifests
  <2> QED BY <1>4, <1>6, <1>7, <2>1
<1>9. after \in Manifests /\ CountsOK(after)
  BY <1>1, <1>4, <1>5, <1>8, CountsStep
<1>10. after.roots = m.roots /\ after.entries = Append(m.entries, e) /\ after.omissions = m.omissions
  <2>1. m = [roots |-> m.roots, entries |-> m.entries, omissions |-> m.omissions,
             files |-> m.files, folders |-> m.folders, bytes |-> m.bytes]
    BY <1>1 DEF Manifests
  <2>2. after = [m EXCEPT !.entries = Append(@, e), !.files = @ + 1, !.bytes = Wrap(@ + size)]
    BY DEF e
  <2> QED BY <2>1, <2>2
<1>11. << >> \in SortedByKey({}) /\ NoAliases({}) /\ {} \in SUBSET Below(tree, pend[1])
  BY NoChildren
<1> DEFINE left == << >> \o Tail(pend)
<1>12. /\ left \in Seq(DOMAIN tree)
       /\ RootsOK(args, next, after, left) /\ EntriesOK(after) /\ PendingOK(args, next, after, left)
       /\ DisclosedOK(args, tree, next, m, pend) => DisclosedOK(args, tree, next, after, left)
  <2>1. tree[pend[1]] # "folder" /\ tree[pend[1]] # "locked"
    OBVIOUS
  <2>2. PathsOf(m.omissions) \subseteq PathsOf(after.omissions)
    BY <1>10
  <2>3. after.entries = Append(m.entries, Entry(Rel(args, pend[1]), manifestFile, size))
    BY <1>10 DEF e
  <2>4. after.roots = m.roots
    BY <1>10
  <2> QED BY ONLY <1>1, <1>9, <1>11, <2>1, <2>2, <2>3, <2>4, pend # << >>, EntryStep
<1> QED BY <1>1, <1>9, <1>12 DEF WalkOK, WalkKept

LEMMA FolderCounts ==
    ASSUME NEW args, NEW tree, NEW next, NEW m, NEW pend, WalkOK(args, tree, next, m, pend), pend # << >>,
           Len(m.entries) < MaxEntries, validateManifestPath(Rel(args, pend[1])),
           NEW after, after = [m EXCEPT !.entries = Append(@, Entry(Rel(args, pend[1]), manifestFolder, 0)), !.folders = @ + 1]
    PROVE  after \in Manifests /\ CountsOK(after)
<1> DEFINE e == Entry(Rel(args, pend[1]), manifestFolder, 0)
<1>1. /\ args \in Seq(Names) /\ IsTree(tree, args) /\ m \in Manifests /\ pend \in Seq(DOMAIN tree) /\ CountsOK(m)
  BY DEF WalkOK
<1>2. pend[1] \in DOMAIN tree
  BY <1>1
<1>3. IsPath(Rel(args, pend[1]))
  BY <1>1, <1>2, PlaceIs
<1>4. MaxTotal \in Nat /\ m.bytes \in 0..MaxTotal /\ m.files \in Nat
  BY <1>1, ManifestAssumption DEF Manifests
<1>5. e \in ManifestEntries /\ e.kind = manifestFolder /\ e.size = 0 /\ manifestFile # manifestFolder
  BY <1>3, <1>4 DEF Entry, IsPath, ReceivedEntries, ManifestEntries, manifestFile, manifestFolder
<1>6. m.bytes + 0 = m.bytes /\ m.files + 0 = m.files /\ m.bytes + 0 <= MaxTotal
  BY <1>4
<1> HIDE DEF e
<1>7. after = [roots |-> m.roots, entries |-> Append(m.entries, e), omissions |-> m.omissions,
               files |-> m.files + (IF e.kind = manifestFile THEN 1 ELSE 0),
               folders |-> m.folders + (IF e.kind = manifestFolder THEN 1 ELSE 0),
               bytes |-> m.bytes + e.size]
  <2>1. after = [roots |-> m.roots, entries |-> Append(m.entries, e), omissions |-> m.omissions,
                 files |-> m.files, folders |-> m.folders + 1, bytes |-> m.bytes]
    BY <1>1 DEF e, Manifests
  <2> QED BY <1>5, <1>6, <2>1
<1> QED BY <1>1, <1>5, <1>6, <1>7, CountsStep

LEMMA FolderKept ==
    ASSUME NEW args, NEW tree, NEW next, NEW m, NEW pend, WalkOK(args, tree, next, m, pend), pend # << >>,
           Len(m.entries) < MaxEntries, validateManifestPath(Rel(args, pend[1])), tree[pend[1]] = "folder",
           NEW after, after = [m EXCEPT !.entries = Append(@, Entry(Rel(args, pend[1]), manifestFolder, 0)), !.folders = @ + 1],
           NEW C, C = {y \in Below(tree, pend[1]): tree[y] # "absent"}, NoAliases(C), NEW children \in SortedByKey(C)
    PROVE  WalkKept(args, tree, next, m, pend, after, children \o Tail(pend))
<1>1. /\ args \in Seq(Names) /\ IsTree(tree, args) /\ next \in Nat
      /\ m \in Manifests /\ pend \in Seq(DOMAIN tree)
      /\ CountsOK(m) /\ RootsOK(args, next, m, pend) /\ EntriesOK(m) /\ PendingOK(args, next, m, pend)
  BY DEF WalkOK
<1>2. after \in Manifests /\ CountsOK(after)
  BY FolderCounts
<1>3. /\ after.roots = m.roots /\ after.omissions = m.omissions
      /\ after.entries = Append(m.entries, Entry(Rel(args, pend[1]), manifestFolder, 0))
  <2>1. m = [roots |-> m.roots, entries |-> m.entries, omissions |-> m.omissions,
             files |-> m.files, folders |-> m.folders, bytes |-> m.bytes]
    BY <1>1 DEF Manifests
  <2> QED BY <2>1
<1>4. C \in SUBSET Below(tree, pend[1])
  OBVIOUS
<1>5. PathsOf(m.omissions) \subseteq PathsOf(after.omissions)
  BY <1>3
<1>6. /\ tree[pend[1]] = "folder" => \A y \in Below(tree, pend[1]): tree[y] # "absent" => y \in C
      /\ tree[pend[1]] # "locked"
  OBVIOUS
<1>7. C = {} \/ manifestFolder = manifestFolder
  OBVIOUS
<1> DEFINE left == children \o Tail(pend)
<1>8. /\ left \in Seq(DOMAIN tree)
      /\ RootsOK(args, next, after, left) /\ EntriesOK(after) /\ PendingOK(args, next, after, left)
      /\ DisclosedOK(args, tree, next, m, pend) => DisclosedOK(args, tree, next, after, left)
  BY ONLY <1>1, <1>2, <1>3, <1>4, <1>5, <1>6, <1>7, pend # << >>, NoAliases(C), children \in SortedByKey(C), EntryStep
<1> QED BY <1>1, <1>2, <1>8 DEF WalkOK, WalkKept

Omitting(m, path) == [m EXCEPT !.omissions = Append(@, [path |-> path])]

\* The omission of a place.
LEMMA OmissionCounts ==
    ASSUME NEW args \in Seq(Names), NEW tree, IsTree(tree, args), NEW x \in DOMAIN tree,
           NEW m \in Manifests, CountsOK(m),
           Len(m.omissions) < MaxOmissions, validateManifestPath(Rel(args, x)),
           NEW after, after = Omitting(m, Rel(args, x))
    PROVE  /\ after \in Manifests /\ CountsOK(after)
           /\ after.roots = m.roots /\ after.entries = m.entries
           /\ PathsOf(after.omissions) = PathsOf(m.omissions) \cup {Rel(args, x)}
<1> DEFINE o == [path |-> Rel(args, x)]
<1>1. IsPath(Rel(args, x))
  BY PlaceIs
<1>2. o \in Omissions /\ o.path = Rel(args, x)
  BY <1>1 DEF IsPath, Omissions
<1>3. m.omissions \in Seq(Omissions) /\ MaxOmissions \in Nat
  BY ManifestIs, ManifestAssumption
<1> HIDE DEF o
<1>4. Append(m.omissions, o) \in Seq(Omissions) /\ Len(Append(m.omissions, o)) = Len(m.omissions) + 1 /\ Len(m.omissions) \in Nat
  BY <1>2, <1>3, AppendIs
<1>5. after = [roots |-> m.roots, entries |-> m.entries, omissions |-> Append(m.omissions, o),
               files |-> m.files, folders |-> m.folders, bytes |-> m.bytes]
  BY DEF o, Manifests, Omitting
<1>6. after \in Manifests
  BY <1>4, <1>5 DEF Manifests
<1>7. CountsOK(after)
  <2>1. /\ after.entries = m.entries /\ after.files = m.files /\ after.folders = m.folders
        /\ after.bytes = m.bytes /\ Len(after.omissions) = Len(m.omissions) + 1
    BY ONLY <1>4, <1>5
  <2>2. Len(after.omissions) <= MaxOmissions
    BY <1>3, <1>4, <2>1
  <2> QED BY <2>1, <2>2 DEF CountsOK
<1>8. PathsOf(after.omissions) = PathsOf(m.omissions) \cup {Rel(args, x)}
  BY <1>2, <1>3, <1>5, PathsAppend
<1> QED BY <1>5, <1>6, <1>7, <1>8

LEMMA OmissionKept ==
    ASSUME NEW args, NEW tree, NEW next, NEW m, NEW pend, WalkOK(args, tree, next, m, pend), pend # << >>,
           Len(m.omissions) < MaxOmissions, validateManifestPath(Rel(args, pend[1])), tree[pend[1]] # "folder",
           NEW after, after = Omitting(m, Rel(args, pend[1]))
    PROVE  WalkKept(args, tree, next, m, pend, after, << >> \o Tail(pend))
<1>1. /\ args \in Seq(Names) /\ IsTree(tree, args) /\ next \in Nat
      /\ m \in Manifests /\ pend \in Seq(DOMAIN tree)
      /\ CountsOK(m) /\ RootsOK(args, next, m, pend) /\ EntriesOK(m) /\ PendingOK(args, next, m, pend)
  BY DEF WalkOK
<1>2. pend[1] \in DOMAIN tree
  BY <1>1
<1>3. /\ after \in Manifests /\ CountsOK(after)
      /\ after.roots = m.roots /\ after.entries = m.entries
      /\ PathsOf(after.omissions) = PathsOf(m.omissions) \cup {Rel(args, pend[1])}
  <2>1. /\ Len(m.omissions) < MaxOmissions /\ validateManifestPath(Rel(args, pend[1]))
        /\ after = Omitting(m, Rel(args, pend[1]))
    OBVIOUS
  <2> QED BY ONLY <1>1, <1>2, <2>1, OmissionCounts
<1> DEFINE left == << >> \o Tail(pend)
<1>4. /\ left \in Seq(DOMAIN tree)
      /\ RootsOK(args, next, after, left) /\ EntriesOK(after) /\ PendingOK(args, next, after, left)
      /\ DisclosedOK(args, tree, next, m, pend) => DisclosedOK(args, tree, next, after, left)
  BY ONLY <1>1, <1>3, pend # << >>, tree[pend[1]] # "folder", OmissionStep
<1> QED BY <1>1, <1>3, <1>4 DEF WalkOK, WalkKept

\* A folder that cannot be read is an entry and an omission.
LEMMA LockedKept ==
    ASSUME NEW args, NEW tree, NEW next, NEW m, NEW pend, WalkOK(args, tree, next, m, pend), pend # << >>,
           Len(m.entries) < MaxEntries, validateManifestPath(Rel(args, pend[1])), tree[pend[1]] = "locked",
           NEW with, with = [m EXCEPT !.entries = Append(@, Entry(Rel(args, pend[1]), manifestFolder, 0)), !.folders = @ + 1],
           Len(with.omissions) < MaxOmissions,
           NEW after, after = Omitting(with, Rel(args, pend[1]))
    PROVE  WalkKept(args, tree, next, m, pend, after, << >> \o Tail(pend))
<1>1. /\ args \in Seq(Names) /\ IsTree(tree, args) /\ next \in Nat
      /\ m \in Manifests /\ pend \in Seq(DOMAIN tree)
      /\ CountsOK(m) /\ RootsOK(args, next, m, pend) /\ EntriesOK(m) /\ PendingOK(args, next, m, pend)
  BY DEF WalkOK
<1>2. pend[1] \in DOMAIN tree
  BY <1>1
<1>3. with \in Manifests /\ CountsOK(with)
  BY FolderCounts
<1>4. /\ with.roots = m.roots /\ with.omissions = m.omissions
      /\ with.entries = Append(m.entries, Entry(Rel(args, pend[1]), manifestFolder, 0))
  <2>1. m = [roots |-> m.roots, entries |-> m.entries, omissions |-> m.omissions,
             files |-> m.files, folders |-> m.folders, bytes |-> m.bytes]
    BY <1>1 DEF Manifests
  <2> QED BY <2>1
<1>5. /\ after \in Manifests /\ CountsOK(after)
      /\ after.roots = with.roots /\ after.entries = with.entries
      /\ PathsOf(after.omissions) = PathsOf(with.omissions) \cup {Rel(args, pend[1])}
  <2>1. /\ Len(with.omissions) < MaxOmissions /\ validateManifestPath(Rel(args, pend[1]))
        /\ after = Omitting(with, Rel(args, pend[1]))
    OBVIOUS
  <2> QED BY ONLY <1>1, <1>2, <1>3, <2>1, OmissionCounts
<1>6. /\ after.roots = m.roots
      /\ after.entries = Append(m.entries, Entry(Rel(args, pend[1]), manifestFolder, 0))
      /\ PathsOf(m.omissions) \subseteq PathsOf(after.omissions)
      /\ Rel(args, pend[1]) \in PathsOf(after.omissions)
  BY <1>4, <1>5
<1>7. << >> \in SortedByKey({}) /\ NoAliases({}) /\ {} \in SUBSET Below(tree, pend[1])
  BY NoChildren
<1>8. tree[pend[1]] # "folder" /\ ({} = {} \/ manifestFolder = manifestFolder)
  OBVIOUS
<1> DEFINE left == << >> \o Tail(pend)
<1>9. /\ left \in Seq(DOMAIN tree)
      /\ RootsOK(args, next, after, left) /\ EntriesOK(after) /\ PendingOK(args, next, after, left)
      /\ DisclosedOK(args, tree, next, m, pend) => DisclosedOK(args, tree, next, after, left)
  BY ONLY <1>1, <1>5, <1>6, <1>7, <1>8, pend # << >>, EntryStep
<1> QED BY <1>1, <1>5, <1>9 DEF WalkOK, WalkKept

---------------------------------------------------------------------------
(* The steps of the sender                                                 *)

LEMMA WalkNow ==
    ASSUME SenderTypes, WalkInv
    PROVE  WalkOK(arguments, source, nextRoot, manifest, pending)
<1>1. nextRoot \in Nat
  BY DEF SenderTypes
<1> QED BY <1>1 DEF SenderTypes, WalkInv, WalkOK

LEMMA SameWalk ==
    ASSUME NEW args, NEW tree, NEW next, NEW m, NEW pend, WalkOK(args, tree, next, m, pend)
    PROVE  WalkKept(args, tree, next, m, pend, m, pend)
BY DEF WalkKept

LEMMA FolderWalked ==
    ASSUME SenderTypes, WalkInv, pending # << >>, NEW x, x = pending[1],
           Len(manifest.entries) < MaxEntries, validateManifestPath(Relative(x)),
           source[x] \in {"folder", "locked"}, AddFolder(x)
    PROVE  /\ WalkKept(arguments, source, nextRoot, manifest, pending, manifest', pending')
           /\ phase' \in {phase, "failed"}
<1> DEFINE kept == WalkKept(arguments, source, nextRoot, manifest, pending, manifest', pending')
<1>1. WalkOK(arguments, source, nextRoot, manifest, pending)
  BY WalkNow
<1>2. Relative(x) = Rel(arguments, x)
  BY DEF Relative, Rel
<1>3. WithFolder(x) = [manifest EXCEPT !.entries = Append(@, Entry(Rel(arguments, pending[1]), manifestFolder, 0)),
                                       !.folders = @ + 1]
  BY <1>2 DEF WithFolder
<1>4. CASE Abandon
  <2>1. manifest' = manifest /\ pending' = pending /\ phase' = "failed"
    BY <1>4 DEF Abandon
  <2> QED BY <1>1, <2>1, SameWalk
<1>5. CASE source[x] = "locked" /\ ~Abandon
  <2>1. addManifestOmission(WithFolder(x), x)
    BY <1>5 DEF AddFolder
  <2>2. /\ Len(WithFolder(x).omissions) < MaxOmissions
        /\ manifest' = Omitting(WithFolder(x), Rel(arguments, pending[1]))
        /\ pending' = << >> \o Tail(pending) /\ phase' = phase
    BY <1>2, <1>5, <2>1 DEF addManifestOmission, Continue, Omitting
  <2>3. validateManifestPath(Rel(arguments, pending[1])) /\ source[pending[1]] = "locked"
    BY <1>2, <1>5
  <2>4. WalkKept(arguments, source, nextRoot, manifest, pending, manifest', << >> \o Tail(pending))
    BY ONLY <1>1, <1>3, <2>2, <2>3, pending # << >>, Len(manifest.entries) < MaxEntries, LockedKept
  <2> QED BY <2>2, <2>4
<1>6. CASE source[x] = "folder" /\ ~Abandon
  <2> DEFINE C == {y \in Below(source, pending[1]): source[y] # "absent"}
  <2>1. ChildrenOf(x) = C
    BY DEF ChildrenOf, Below
  <2>2. /\ ~(\E y, z \in ChildrenOf(x): y # z /\ Key(Last(y)) = Key(Last(z)))
        /\ \E children \in SortedByKey(ChildrenOf(x)): Continue(WithFolder(x), children)
    BY <1>6 DEF AddFolder
  <2>3. NoAliases(C)
    BY <2>1, <2>2 DEF NoAliases
  <2>4. PICK children \in SortedByKey(C): Continue(WithFolder(x), children)
    BY <2>1, <2>2
  <2>5. manifest' = WithFolder(x) /\ pending' = children \o Tail(pending) /\ phase' = phase
    BY <2>4 DEF Continue
  <2>6. validateManifestPath(Rel(arguments, pending[1])) /\ source[pending[1]] = "folder"
    BY <1>2, <1>6
  <2>7. WalkKept(arguments, source, nextRoot, manifest, pending, WithFolder(x), children \o Tail(pending))
    <3> HIDE DEF C
    <3>1. C = {y \in Below(source, pending[1]): source[y] # "absent"}
      BY DEF C
    <3> QED BY ONLY <1>1, <1>3, <2>3, <2>6, <3>1, children \in SortedByKey(C), pending # << >>,
                    Len(manifest.entries) < MaxEntries, FolderKept
  <2> QED BY <2>5, <2>7
<1> QED BY <1>4, <1>5, <1>6

LEMMA FileWalked ==
    ASSUME SenderTypes, WalkInv, pending # << >>, NEW x, x = pending[1],
           Len(manifest.entries) < MaxEntries, validateManifestPath(Relative(x)),
           source[x] = "file", AddFile(x)
    PROVE  /\ WalkKept(arguments, source, nextRoot, manifest, pending, manifest', pending')
           /\ phase' \in {phase, "failed"}
<1> DEFINE size == Size[Last(Rel(arguments, x))[1]]
<1>1. WalkOK(arguments, source, nextRoot, manifest, pending)
  BY WalkNow
<1>2. Relative(x) = Rel(arguments, x)
  BY DEF Relative, Rel
<1>3. size \in 0..MaxTotal
  <2>1. x \in DOMAIN source /\ arguments \in Seq(Names) /\ IsTree(source, arguments)
    BY DEF SenderTypes
  <2>2. IsPath(Rel(arguments, x))
    BY <2>1, PlaceIs
  <2>3. Last(Rel(arguments, x)) \in Names
    BY <2>2, PathIs DEF Last
  <2>4. Last(Rel(arguments, x))[1] \in DOMAIN Fold
    BY <2>3 DEF Names
  <2> QED BY <2>4, ManifestAssumption
<1> HIDE DEF size
<1>4. \/ Abandon
      \/ /\ size <= MaxTotal - manifest.bytes
         /\ Continue([manifest EXCEPT !.entries = Append(@, Entry(Rel(arguments, pending[1]), manifestFile, size)),
                                      !.files = @ + 1, !.bytes = Wrap(@ + size)], << >>)
  BY <1>2 DEF AddFile, size
<1>5. CASE Abandon
  <2>1. manifest' = manifest /\ pending' = pending /\ phase' = "failed"
    BY <1>5 DEF Abandon
  <2> QED BY <1>1, <2>1, SameWalk
<1>6. CASE ~Abandon
  <2>1. /\ size <= MaxTotal - manifest.bytes
        /\ manifest' = [manifest EXCEPT !.entries = Append(@, Entry(Rel(arguments, pending[1]), manifestFile, size)),
                                        !.files = @ + 1, !.bytes = Wrap(@ + size)]
        /\ pending' = << >> \o Tail(pending) /\ phase' = phase
    BY <1>4, <1>6 DEF Continue
  <2>2. validateManifestPath(Rel(arguments, pending[1])) /\ source[pending[1]] = "file"
    BY <1>2
  <2>3. WalkKept(arguments, source, nextRoot, manifest, pending, manifest', << >> \o Tail(pending))
    BY ONLY <1>1, <1>3, <2>1, <2>2, pending # << >>, Len(manifest.entries) < MaxEntries, FileKept
  <2> QED BY <2>1, <2>3
<1> QED BY <1>5, <1>6

LEMMA OmissionWalked ==
    ASSUME SenderTypes, WalkInv, pending # << >>, NEW x, x = pending[1],
           validateManifestPath(Relative(x)), source[x] # "folder", addManifestOmission(manifest, x)
    PROVE  /\ WalkKept(arguments, source, nextRoot, manifest, pending, manifest', pending')
           /\ phase' \in {phase, "failed"}
<1>1. WalkOK(arguments, source, nextRoot, manifest, pending)
  BY WalkNow
<1>2. Relative(x) = Rel(arguments, x)
  BY DEF Relative, Rel
<1>3. CASE Abandon
  <2>1. manifest' = manifest /\ pending' = pending /\ phase' = "failed"
    BY <1>3 DEF Abandon
  <2> QED BY <1>1, <2>1, SameWalk
<1>4. CASE ~Abandon
  <2>1. /\ Len(manifest.omissions) < MaxOmissions
        /\ manifest' = Omitting(manifest, Rel(arguments, pending[1]))
        /\ pending' = << >> \o Tail(pending) /\ phase' = phase
    BY <1>2, <1>4 DEF addManifestOmission, Continue, Omitting
  <2>2. validateManifestPath(Rel(arguments, pending[1])) /\ source[pending[1]] # "folder"
    BY <1>2
  <2>3. WalkKept(arguments, source, nextRoot, manifest, pending, manifest', << >> \o Tail(pending))
    BY ONLY <1>1, <2>1, <2>2, pending # << >>, OmissionKept
  <2> QED BY <2>1, <2>3
<1> QED BY <1>3, <1>4

\* The next root: nothing recorded so far is below it.
LEMMA RootAdded ==
    ASSUME NEW args, NEW tree, NEW next, NEW m, WalkOK(args, tree, next, m, << >>), next \in 1..Len(args),
           validateManifestPath(<<args[next]>>),
           \A i \in DOMAIN m.roots: Key(m.roots[i]) # Key(args[next]),
           NEW after, after = [m EXCEPT !.roots = Append(@, args[next])]
    PROVE  /\ WalkOK(args, tree, next + 1, after, <<RootPlace(next)>>)
           /\ DisclosedOK(args, tree, next, m, << >>) => DisclosedOK(args, tree, next + 1, after, <<RootPlace(next)>>)
<1> DEFINE name == args[next]
           pend == <<RootPlace(next)>>
<1>1. /\ args \in Seq(Names) /\ IsTree(tree, args) /\ next \in Nat
      /\ m \in Manifests
      /\ CountsOK(m) /\ RootsOK(args, next, m, << >>) /\ EntriesOK(m) /\ PendingOK(args, next, m, << >>)
  BY DEF WalkOK
<1>2. name \in Names /\ m.roots \in Seq(Names) /\ Len(m.roots) = next - 1
  BY <1>1, ManifestIs DEF RootsOK
<1>3. /\ after = [roots |-> Append(m.roots, name), entries |-> m.entries, omissions |-> m.omissions,
                  files |-> m.files, folders |-> m.folders, bytes |-> m.bytes]
  BY <1>1 DEF Manifests
<1>4. /\ after.roots = Append(m.roots, name) /\ after.entries = m.entries /\ after.omissions = m.omissions
      /\ after.files = m.files /\ after.folders = m.folders /\ after.bytes = m.bytes
  BY <1>3
<1>5. /\ Append(m.roots, name) \in Seq(Names) /\ DOMAIN m.roots = 1..(next - 1)
      /\ Len(after.roots) = next /\ DOMAIN after.roots = 1..next /\ after.roots[next] = name
      /\ \A n \in 1..(next - 1): after.roots[n] = m.roots[n]
  <2> HIDE DEF name
  <2>1. /\ Len(Append(m.roots, name)) = (next - 1) + 1 /\ DOMAIN Append(m.roots, name) = 1..((next - 1) + 1)
        /\ Append(m.roots, name)[(next - 1) + 1] = name
        /\ \A n \in 1..(next - 1): Append(m.roots, name)[n] = m.roots[n]
        /\ DOMAIN m.roots = 1..(next - 1)
    BY <1>2, AppendIs
  <2>2. (next - 1) + 1 = next
    BY <1>1
  <2> QED BY <1>2, <1>4, <2>1, <2>2
<1>6. after \in Manifests
  BY <1>1, <1>3, <1>5 DEF Manifests
<1>7. CountsOK(after)
  BY <1>1, <1>4 DEF CountsOK
<1>8. 1..next = 1..(next - 1) \cup {next} /\ next \notin 1..(next - 1)
  BY <1>1
<1>9. \A n, k \in DOMAIN after.roots: Key(after.roots[n]) = Key(after.roots[k]) => n = k
  <2>1. \A n, k \in 1..(next - 1): Key(m.roots[n]) = Key(m.roots[k]) => n = k
    BY <1>1, <1>5 DEF RootsOK
  <2>2. \A n \in 1..(next - 1): Key(m.roots[n]) # Key(name)
    BY <1>5
  <2> HIDE DEF name
  <2> QED BY <1>5, <1>8, <2>1, <2>2
<1>10. \A n \in DOMAIN after.roots: after.roots[n] = args[n]
  <2>1. \A n \in 1..(next - 1): m.roots[n] = args[n]
    BY <1>1, <1>5 DEF RootsOK
  <2> QED BY <1>5, <1>8, <2>1
<1>11. \A n \in DOMAIN after.roots: Recorded(after, <<after.roots[n]>>) \/ pend = <<RootPlace(n)>>
  <2>1. \A n \in 1..(next - 1): Recorded(m, <<m.roots[n]>>)
    <3>1. \A n: << >> # <<RootPlace(n)>>
      OBVIOUS
    <3> QED BY <1>1, <1>5, <3>1 DEF RootsOK
  <2>2. \A path: Recorded(m, path) => Recorded(after, path)
    BY <1>4 DEF Recorded
  <2> QED BY <1>5, <1>8, <2>1, <2>2
<1>12. RootsOK(args, next + 1, after, pend)
  <2>1. Len(after.roots) = (next + 1) - 1
    BY <1>1, <1>5
  <2> HIDE DEF pend
  <2> QED BY <1>9, <1>10, <1>11, <2>1 DEF RootsOK
<1>13. \A i \in DOMAIN m.entries: /\ \E n \in 1..(next - 1): m.entries[i].path[1] = m.roots[n]
                                  /\ Key(m.entries[i].path[1]) # Key(name)
  <2>1. \A i \in DOMAIN m.entries: \E n \in 1..(next - 1): m.entries[i].path[1] = m.roots[n]
    BY <1>1, <1>5 DEF EntriesOK
  <2> QED BY <1>5, <2>1
<1>14. EntriesOK(after)
  <2>1. \A i \in DOMAIN m.entries: \E n \in DOMAIN after.roots: m.entries[i].path[1] = after.roots[n]
    BY <1>5, <1>8, <1>13
  <2> QED BY <1>1, <1>4, <2>1 DEF EntriesOK
<1>15. RootPlace(next) \in DOMAIN tree /\ RootPlace(next)[1][1] = next /\ Len(RootPlace(next)) = 1
       /\ DOMAIN args = 1..Len(args)
  BY <1>1 DEF IsTree, RootPlace
<1>16. PlaceOK(args, next + 1, after, RootPlace(next))
  <2> DEFINE r == Rel(args, RootPlace(next))
  <2>1. r \in Paths /\ Len(r) = 1 /\ r[1] = name
    BY <1>1, <1>15, PlaceIs
  <2>2. Ancestors(r) = {}
    BY <2>1 DEF Ancestors
  <2>3. \A i \in DOMAIN m.entries: Apart(m.entries[i].path, r)
    <3> SUFFICES ASSUME NEW i \in DOMAIN m.entries PROVE Apart(m.entries[i].path, r)
      OBVIOUS
    <3>1. 1 \in DOMAIN m.entries[i].path
      <4>1. IsPath(m.entries[i].path)
        BY <1>1, ManifestIs
      <4> QED BY <4>1, PathIs
    <3>2. 1 \in DOMAIN r
      BY <2>1 DEF Paths
    <3> HIDE DEF r
    <3> QED BY <1>13, <2>1, <3>1, <3>2 DEF Apart
  <2>4. next < next + 1
    BY <1>1
  <2> QED BY <1>4, <1>15, <2>2, <2>3, <2>4 DEF PlaceOK
<1>17. DOMAIN pend = {1} /\ pend[1] = RootPlace(next) /\ pend \in Seq(DOMAIN tree)
  BY <1>15
<1>18. PendingOK(args, next + 1, after, pend)
  <2> HIDE DEF pend
  <2> QED BY <1>16, <1>17 DEF PendingOK
<1>19. WalkOK(args, tree, next + 1, after, pend)
  <2>1. next + 1 \in Nat
    BY <1>1
  <2> HIDE DEF pend
  <2> QED BY <1>1, <1>6, <1>7, <1>12, <1>14, <1>17, <1>18, <2>1 DEF WalkOK
<1>20. ASSUME DisclosedOK(args, tree, next, m, << >>)
       PROVE  DisclosedOK(args, tree, next + 1, after, pend)
  <2>1. ASSUME NEW x \in DOMAIN tree, x[1][1] < next + 1
        PROVE  /\ Reached(tree, x) => Recorded(after, Rel(args, x)) \/ ToBeWalked(pend, x)
               /\ tree[x] = "locked" /\ Rel(args, x) \in PathsOf(after.entries) =>
                    Rel(args, x) \in PathsOf(after.omissions)
    <3>1. /\ x \in Paths /\ x[1] = <<x[1][1]>> /\ x[1][1] \in 1..Len(args) /\ Rel(args, x)[1] = args[x[1][1]]
          /\ Len(x) \in Nat \ {0} /\ x \in Seq(Seq(Nat))
      <4>1. /\ x \in Paths /\ x[1] = <<x[1][1]>> /\ x[1][1] \in 1..Len(args) /\ Rel(args, x)[1] = args[x[1][1]]
            /\ Len(x) \in Nat \ {0}
        BY <1>1, <1>15, <2>1, PlaceIs
      <4> QED BY <4>1 DEF Paths
    <3>2. CASE x[1][1] < next
      <4>1. ~ToBeWalked(<< >>, x)
        BY DEF ToBeWalked
      <4>2. Recorded(m, Rel(args, x)) => Recorded(after, Rel(args, x))
        BY <1>4 DEF Recorded
      <4> QED BY <1>4, <1>20, <2>1, <3>2, <4>1, <4>2 DEF DisclosedOK
    <3>3. CASE x[1][1] = next
      <4>1. RootPlace(next) \in Paths /\ RootPlace(next)[1] = x[1]
        BY <1>1, <1>15, <3>1, <3>3, PlaceIs DEF RootPlace
      <4>2. \A i \in 1..1: RootPlace(next)[i] = x[i]
        BY <4>1
      <4>3. x = RootPlace(next) \/ RootPlace(next) \in Ancestors(x)
        <5>1. CASE Len(x) = 1
          BY <1>15, <3>1, <4>1, <4>2, <5>1, SamePath
        <5>2. CASE Len(x) # 1
          <6>1. 1 < Len(x)
            BY <3>1, <5>2
          <6> QED BY <1>15, <3>1, <4>1, <4>2, <6>1, PrefixIsAncestor
        <5> QED BY <5>1, <5>2
      <4>4. ToBeWalked(pend, x)
        <5> HIDE DEF pend
        <5> QED BY <1>17, <4>3 DEF ToBeWalked
      <4>5. Rel(args, x) \notin PathsOf(after.entries)
        <5> SUFFICES ASSUME Rel(args, x) \in PathsOf(after.entries) PROVE FALSE
          OBVIOUS
        <5>1. PICK i \in DOMAIN m.entries: m.entries[i].path = Rel(args, x)
          BY <1>4 DEF PathsOf
        <5> QED BY <1>13, <3>1, <3>3, <5>1
      <4> QED BY <4>4, <4>5
    <3>4. x[1][1] < next \/ x[1][1] = next
      BY <1>1, <2>1, <3>1
    <3> QED BY <3>2, <3>3, <3>4
  <2> HIDE DEF pend
  <2> QED BY <2>1 DEF DisclosedOK
<1> QED BY <1>19, <1>20

LEMMA WalkStep ==
    ASSUME SenderTypes, WalkInv, Walk
    PROVE  SenderTypes' /\ WalkInv' /\ phase' \in {"building", "failed"}
<1>1. /\ phase = "building" /\ pending # << >>
      /\ arguments' = arguments /\ source' = source /\ nextRoot' = nextRoot
  BY DEF Walk
<1>2. PICK stable \in BOOLEAN:
        /\ ~stable => changes < MaxChanges /\ source[Head(pending)] = "file"
        /\ changes' = changes + (IF stable THEN 0 ELSE 1)
        /\ walkManifestRoot(Head(pending), stable)
  BY DEF Walk
<1>3. changes \in 0..MaxChanges /\ MaxChanges \in Nat
  BY ManifestAssumption DEF SenderTypes
<1>4. changes' \in 0..MaxChanges /\ (changes' = 0 => changes = 0)
  BY <1>2, <1>3
<1> DEFINE x == pending[1]
<1>5. pending \in Seq(DOMAIN source) /\ Head(pending) = x /\ walkManifestRoot(x, stable)
  BY <1>1, <1>2 DEF SenderTypes
<1> HIDE DEF x
<1>6. /\ WalkKept(arguments, source, nextRoot, manifest, pending, manifest', pending')
      /\ phase' \in {phase, "failed"}
  <2>1. WalkOK(arguments, source, nextRoot, manifest, pending)
    BY WalkNow
  <2>2. CASE Abandon
    <3>1. manifest' = manifest /\ pending' = pending /\ phase' = "failed"
      BY <2>2 DEF Abandon
    <3> QED BY <2>1, <3>1, SameWalk
  <2>3. CASE ~Abandon
    <3>1. /\ ~(Len(manifest.entries) >= MaxEntries) /\ validateManifestPath(Relative(x))
          /\ CASE source[x] \in {"folder", "locked"} -> AddFolder(x)
               [] source[x] = "file" /\ stable -> AddFile(x)
               [] OTHER -> addManifestOmission(manifest, x)
      BY <1>5, <2>3 DEF walkManifestRoot
    <3>2. Len(manifest.entries) < MaxEntries
      <4>1. Len(manifest.entries) \in Nat /\ MaxEntries \in Nat
        BY ManifestIs, ManifestAssumption DEF SenderTypes
      <4> QED BY <3>1, <4>1
    <3>3. CASE source[x] \in {"folder", "locked"}
      <4>1. AddFolder(x)
        BY <3>1, <3>3
      <4> QED BY <1>1, <3>1, <3>2, <3>3, <4>1, FolderWalked DEF x
    <3>4. CASE source[x] = "file" /\ stable
      <4>1. AddFile(x)
        BY <3>1, <3>4
      <4> QED BY <1>1, <3>1, <3>2, <3>4, <4>1, FileWalked DEF x
    <3>5. CASE source[x] \notin {"folder", "locked"} /\ ~(source[x] = "file" /\ stable)
      <4>1. addManifestOmission(manifest, x)
        BY <3>1, <3>5
      <4> QED BY <1>1, <3>1, <3>5, <4>1, OmissionWalked DEF x
    <3> QED BY <3>3, <3>4, <3>5
  <2> QED BY <2>2, <2>3
<1>7. /\ WalkOK(arguments', source', nextRoot', manifest', pending')
      /\ DisclosedOK(arguments, source, nextRoot, manifest, pending) =>
           DisclosedOK(arguments', source', nextRoot', manifest', pending')
  BY <1>1, <1>6 DEF WalkKept
<1>8. SenderTypes'
  <2>1. nextRoot' \in 1..(Len(arguments') + 1)
    BY <1>1 DEF SenderTypes
  <2> QED BY <1>1, <1>4, <1>6, <1>7, <2>1 DEF SenderTypes, WalkOK
<1>9. WalkInv'
  BY <1>4, <1>7 DEF WalkInv, WalkOK
<1> QED BY <1>1, <1>6, <1>8, <1>9

LEMMA BuildRootStep ==
    ASSUME SenderTypes, WalkInv, BuildRoot
    PROVE  SenderTypes' /\ WalkInv' /\ phase' \in {"building", "failed"}
<1> DEFINE name == arguments[nextRoot]
           usable == /\ source[RootPlace(nextRoot)] # "absent"
                     /\ validateManifestPath(<<name>>)
                     /\ \A i \in DOMAIN manifest.roots: Key(manifest.roots[i]) # Key(name)
<1>1. /\ phase = "building" /\ pending = << >> /\ nextRoot <= Len(arguments)
      /\ IF usable
         THEN /\ manifest' = [manifest EXCEPT !.roots = Append(@, name)]
              /\ pending' = <<RootPlace(nextRoot)>>
              /\ nextRoot' = nextRoot + 1
              /\ UNCHANGED phase
         ELSE Abandon /\ UNCHANGED nextRoot
      /\ arguments' = arguments /\ source' = source /\ changes' = changes
  BY DEF BuildRoot
<1>2. WalkOK(arguments, source, nextRoot, manifest, pending)
  BY WalkNow
<1>3. CASE ~usable
  <2>1. /\ manifest' = manifest /\ pending' = pending /\ nextRoot' = nextRoot
        /\ arguments' = arguments /\ source' = source /\ changes' = changes /\ phase' = "failed"
    BY <1>1, <1>3 DEF Abandon
  <2> QED BY <2>1 DEF SenderTypes, WalkInv
<1>4. CASE usable
  <2>1. /\ manifest' = [manifest EXCEPT !.roots = Append(@, name)]
        /\ pending' = <<RootPlace(nextRoot)>> /\ nextRoot' = nextRoot + 1 /\ phase' = phase
    BY <1>1, <1>4
  <2>2. nextRoot \in 1..Len(arguments) /\ nextRoot' \in 1..(Len(arguments) + 1)
    <3>1. nextRoot \in 1..(Len(arguments) + 1) /\ Len(arguments) \in Nat
      BY DEF SenderTypes
    <3> QED BY <1>1, <2>1, <3>1
  <2>3. WalkOK(arguments, source, nextRoot, manifest, << >>)
    BY <1>1, <1>2
  <2>4. validateManifestPath(<<name>>) /\ \A i \in DOMAIN manifest.roots: Key(manifest.roots[i]) # Key(name)
    BY <1>4
  <2>5. /\ WalkOK(arguments, source, nextRoot + 1, manifest', <<RootPlace(nextRoot)>>)
        /\ DisclosedOK(arguments, source, nextRoot, manifest, << >>) =>
             DisclosedOK(arguments, source, nextRoot + 1, manifest', <<RootPlace(nextRoot)>>)
    BY ONLY <2>1, <2>2, <2>3, <2>4, RootAdded
  <2>6. /\ WalkOK(arguments', source', nextRoot', manifest', pending')
        /\ DisclosedOK(arguments, source, nextRoot, manifest, pending) =>
             DisclosedOK(arguments', source', nextRoot', manifest', pending')
    BY <1>1, <2>1, <2>5
  <2>7. SenderTypes'
    BY <1>1, <2>1, <2>2, <2>6 DEF SenderTypes, WalkOK
  <2>8. WalkInv'
    BY <1>1, <2>6 DEF WalkInv, WalkOK
  <2> QED BY <1>1, <2>1, <2>7, <2>8
<1> QED BY <1>3, <1>4

LEMMA VanishStep ==
    ASSUME SenderTypes, WalkInv, SourceVanishes
    PROVE  SenderTypes' /\ WalkInv' /\ phase' = "building"
<1>1. /\ phase = "building" /\ changes < MaxChanges /\ changes' = changes + 1
      /\ arguments' = arguments /\ phase' = phase /\ manifest' = manifest
      /\ nextRoot' = nextRoot /\ pending' = pending
  BY DEF SourceVanishes
<1>2. DOMAIN source' = DOMAIN source /\ \A y \in DOMAIN source: source'[y] \in {"absent", source[y]}
  BY DEF SourceVanishes
<1>3. changes \in 0..MaxChanges /\ MaxChanges \in Nat
  BY ManifestAssumption DEF SenderTypes
<1>4. changes' \in 0..MaxChanges /\ changes' # 0
  BY <1>1, <1>3
<1>5. IsTree(source', arguments)
  <2>1. IsTree(source, arguments)
    BY DEF SenderTypes
  <2>2. \A y \in DOMAIN source: source'[y] \in Kinds
    BY <1>2, <2>1 DEF IsTree, Kinds
  <2> QED BY <1>2, <2>1, <2>2 DEF IsTree
<1>6. SenderTypes'
  BY <1>1, <1>2, <1>4, <1>5 DEF SenderTypes
<1>7. WalkInv'
  BY <1>1, <1>4 DEF WalkInv
<1> QED BY <1>1, <1>6, <1>7

LEMMA FinishStep ==
    ASSUME SenderTypes, WalkInv, FinishBuilding
    PROVE  /\ SenderTypes' /\ WalkInv' /\ phase' \in {"built", "failed"}
           /\ phase' = "built" => pending' = << >> /\ nextRoot' = Len(arguments') + 1 /\ manifest'.entries # << >>
<1>1. /\ pending = << >> /\ nextRoot > Len(arguments)
      /\ phase' = IF manifest.entries = << >> THEN "failed" ELSE "built"
      /\ arguments' = arguments /\ source' = source /\ manifest' = manifest
      /\ nextRoot' = nextRoot /\ pending' = pending /\ changes' = changes
  BY DEF FinishBuilding
<1>2. nextRoot = Len(arguments) + 1
  <2>1. nextRoot \in 1..(Len(arguments) + 1) /\ Len(arguments) \in Nat
    BY DEF SenderTypes
  <2> QED BY <1>1, <2>1
<1>3. SenderTypes' /\ WalkInv'
  BY <1>1 DEF SenderTypes, WalkInv
<1> QED BY <1>1, <1>2, <1>3

\* Nothing reaches the receiver before the manifest is built.
LEMMA NothingReceived ==
    ASSUME PhaseInv, ReceiverTypes, ReceiverInv, phase = "building", phase' \in {"building", "built", "failed"},
           UNCHANGED <<wire, receiverVars>>,
           phase' = "built" => pending' = << >> /\ nextRoot' = Len(arguments') + 1 /\ manifest'.entries # << >>
    PROVE  PhaseInv' /\ ReceiverTypes' /\ ReceiverInv'
<1>1. /\ wire' = wire /\ header' = header /\ received' = received /\ verdict' = verdict
      /\ listing' = listing /\ caseSensitive' = caseSensitive /\ finals' = finals /\ made' = made
  BY DEF receiverVars, destinationVars
<1>2. wire = << >> /\ verdict = "none"
  BY DEF PhaseInv
<1>3. PhaseInv'
  BY <1>1, <1>2 DEF PhaseInv
<1>4. ReceiverTypes'
  BY <1>1 DEF ReceiverTypes
<1>5. OwnInv' /\ UnsentInv'
  BY DEF OwnInv, UnsentInv
<1>6. ApprovedInv' /\ FinalsInv'
  BY <1>1 DEF ReceiverInv, ApprovedInv, FinalsInv, Approved
<1>7. PreparedInv'
  BY <1>1, <1>2 DEF ReceiverInv, PreparedInv
<1> QED BY <1>3, <1>4, <1>5, <1>6, <1>7 DEF ReceiverInv

LEMMA ConcatIs ==
    ASSUME NEW S, NEW s \in Seq(S), NEW t \in Seq(S)
    PROVE  /\ s \o t \in Seq(S) /\ Len(s \o t) = Len(s) + Len(t)
           /\ DOMAIN (s \o t) = 1..(Len(s) + Len(t))
           /\ \A i \in 1..Len(s): (s \o t)[i] = s[i]
           /\ \A i \in 1..Len(t): (s \o t)[Len(s) + i] = t[i]
<1>1. s \o t \in Seq(S) /\ Len(s) \in Nat /\ Len(t) \in Nat /\ Len(s \o t) = Len(s) + Len(t)
  OBVIOUS
<1>2. DOMAIN (s \o t) = 1..(Len(s) + Len(t))
  BY <1>1
<1>3. \A i \in 1..Len(s): (s \o t)[i] = s[i]
  BY <1>1
<1>4. ASSUME NEW i \in 1..Len(t) PROVE (s \o t)[Len(s) + i] = t[i]
  <2>1. Len(s) + i \in 1..(Len(s) + Len(t)) /\ ~(Len(s) + i <= Len(s)) /\ (Len(s) + i) - Len(s) = i
    BY <1>1
  <2>2. (s \o t)[Len(s) + i] = t[(Len(s) + i) - Len(s)]
    BY <1>1, <2>1
  <2> QED BY <2>1, <2>2
<1> QED BY <1>1, <1>2, <1>3, <1>4

\* The frames of an offer, one after the other.
LEMMA FramesAre ==
    ASSUME NEW m \in Manifests
    PROVE  LET frames == FramesOf(m)
               E == Len(m.entries)
               O == Len(m.omissions)
           IN /\ frames \in Seq(OtherFrames) /\ E \in Nat /\ O \in Nat /\ Len(frames) = E + O + 2
              /\ DOMAIN frames = 1..(E + O + 2)
              /\ frames[1] = OfferFrame(Len(m.roots), m.files, m.folders, m.bytes)
              /\ \A i \in 1..E: frames[1 + i] = EntryFrame(m.entries[i])
              /\ \A i \in 1..O: frames[1 + E + i] = OmissionFrame(m.omissions[i])
              /\ frames[E + O + 2] = CompleteFrame
<1> DEFINE first == <<OfferFrame(Len(m.roots), m.files, m.folders, m.bytes)>>
           es == [i \in DOMAIN m.entries |-> EntryFrame(m.entries[i])]
           os == [i \in DOMAIN m.omissions |-> OmissionFrame(m.omissions[i])]
           last == <<CompleteFrame>>
           E == Len(m.entries)
           O == Len(m.omissions)
<1>1. /\ m.entries \in Seq(ManifestEntries) /\ m.omissions \in Seq(Omissions) /\ Len(m.roots) \in Int
      /\ m.files \in Int /\ m.folders \in Int /\ m.bytes \in 0..MaxTotal /\ MaxTotal \in Nat
  BY ManifestIs, ManifestAssumption DEF Manifests
<1>2. E \in Nat /\ O \in Nat /\ DOMAIN m.entries = 1..E /\ DOMAIN m.omissions = 1..O
  BY <1>1
<1>3. OfferFrame(Len(m.roots), m.files, m.folders, m.bytes) \in OtherFrames
  <2>1. m.bytes \in Int64
    BY <1>1 DEF Int64
  <2> QED BY <1>1, <2>1 DEF OfferFrame, OtherFrames
<1>4. \A i \in 1..E: EntryFrame(m.entries[i]) \in OtherFrames
  <2> SUFFICES ASSUME NEW i \in 1..E PROVE EntryFrame(m.entries[i]) \in OtherFrames
    OBVIOUS
  <2>1. m.entries[i] \in ReceivedEntries
    BY <1>1 DEF ManifestEntries
  <2>2. /\ m.entries[i].path \in Seq(Names) /\ m.entries[i].kind \in {manifestFile, manifestFolder}
        /\ m.entries[i].size \in Int64
    <3>1. IsPath(m.entries[i].path) /\ m.entries[i].kind \in {manifestFile, manifestFolder}
          /\ m.entries[i].size \in 0..MaxTotal
      BY <2>1, EntryIs
    <3>2. m.entries[i].size \in Int64
      BY <1>1, <3>1 DEF Int64
    <3> QED BY <3>1, <3>2 DEF IsPath
  <2>3. m.entries[i].kind \in FrameKinds
    BY <2>2 DEF FrameKinds
  <2> QED BY <2>2, <2>3 DEF EntryFrame, OtherFrames
<1>5. \A i \in 1..O: OmissionFrame(m.omissions[i]) \in OtherFrames
  <2> SUFFICES ASSUME NEW i \in 1..O PROVE OmissionFrame(m.omissions[i]) \in OtherFrames
    OBVIOUS
  <2>1. m.omissions[i] \in Omissions
    BY <1>1
  <2>2. m.omissions[i].path \in Seq(Names)
    BY <2>1 DEF Omissions
  <2> QED BY <2>2 DEF OmissionFrame, OtherFrames
<1>6. CompleteFrame \in OtherFrames
  BY DEF OtherFrames
<1>7. first \in Seq(OtherFrames) /\ Len(first) = 1 /\ first[1] = OfferFrame(Len(m.roots), m.files, m.folders, m.bytes)
  BY <1>3
<1>8. last \in Seq(OtherFrames) /\ Len(last) = 1 /\ last[1] = CompleteFrame
  BY <1>6
<1>9. es \in Seq(OtherFrames) /\ Len(es) = E /\ \A i \in 1..E: es[i] = EntryFrame(m.entries[i])
  <2>1. es \in [1..E -> OtherFrames]
    BY <1>2, <1>4
  <2> QED BY <1>2, <2>1
<1>10. os \in Seq(OtherFrames) /\ Len(os) = O /\ \A i \in 1..O: os[i] = OmissionFrame(m.omissions[i])
  <2>1. os \in [1..O -> OtherFrames]
    BY <1>2, <1>5
  <2> QED BY <1>2, <2>1
<1>11. FramesOf(m) = first \o es \o os \o last
  BY DEF FramesOf
<1> HIDE DEF first, es, os, last, E, O
<1> DEFINE a == first \o es
           b == a \o os
           c == b \o last
<1>12. /\ a \in Seq(OtherFrames) /\ Len(a) = 1 + E /\ a[1] = first[1]
       /\ \A i \in 1..E: a[1 + i] = es[i]
  <2>1. 1 \in 1..Len(first)
    BY <1>7
  <2>2. /\ a \in Seq(OtherFrames) /\ Len(a) = Len(first) + Len(es)
        /\ \A i \in 1..Len(first): a[i] = first[i]
        /\ \A i \in 1..Len(es): a[Len(first) + i] = es[i]
    <3>1. first \in Seq(OtherFrames) /\ es \in Seq(OtherFrames)
      BY <1>7, <1>9
    <3> QED BY ONLY <3>1, ConcatIs
  <2> HIDE DEF a
  <2> QED BY <1>7, <1>9, <2>1, <2>2
<1> HIDE DEF a
<1>13. /\ b \in Seq(OtherFrames) /\ Len(b) = 1 + E + O /\ b[1] = first[1]
       /\ \A i \in 1..E: b[1 + i] = es[i]
       /\ \A i \in 1..O: b[1 + E + i] = os[i]
  <2>1. /\ b \in Seq(OtherFrames) /\ Len(b) = 1 + E + O
        /\ \A i \in 1..(1 + E): b[i] = a[i]
        /\ \A i \in 1..O: b[1 + E + i] = os[i]
    <3>1. /\ b \in Seq(OtherFrames) /\ Len(b) = Len(a) + Len(os)
          /\ \A i \in 1..Len(a): b[i] = a[i]
          /\ \A i \in 1..Len(os): b[Len(a) + i] = os[i]
      <4>1. a \in Seq(OtherFrames) /\ os \in Seq(OtherFrames)
        BY <1>10, <1>12
      <4> QED BY ONLY <4>1, ConcatIs
    <3> HIDE DEF b
    <3> QED BY <1>10, <1>12, <3>1
  <2>2. 1 \in 1..(1 + E) /\ \A i \in 1..E: 1 + i \in 1..(1 + E)
    BY <1>2
  <2> HIDE DEF b
  <2> QED BY <1>12, <2>1, <2>2
<1> HIDE DEF b
<1>14. /\ c \in Seq(OtherFrames) /\ Len(c) = 1 + E + O + 1 /\ DOMAIN c = 1..(1 + E + O + 1)
       /\ \A i \in 1..(1 + E + O): c[i] = b[i]
       /\ c[1 + E + O + 1] = last[1]
  <2>1. 1 \in 1..Len(last)
    BY <1>8
  <2>2. /\ c \in Seq(OtherFrames) /\ Len(c) = Len(b) + Len(last) /\ DOMAIN c = 1..(Len(b) + Len(last))
        /\ \A i \in 1..Len(b): c[i] = b[i]
        /\ \A i \in 1..Len(last): c[Len(b) + i] = last[i]
    <3>1. b \in Seq(OtherFrames) /\ last \in Seq(OtherFrames)
      BY <1>8, <1>13
    <3> QED BY ONLY <3>1, ConcatIs
  <2> HIDE DEF c
  <2> QED BY <1>8, <1>13, <2>1, <2>2
<1>15. FramesOf(m) = c
  BY <1>11 DEF a, b
<1> HIDE DEF c
<1>16. 1 + E + O + 1 = E + O + 2
  BY <1>2
<1>17. /\ 1 \in 1..(1 + E + O) /\ \A i \in 1..E: 1 + i \in 1..(1 + E + O)
       /\ \A i \in 1..O: 1 + E + i \in 1..(1 + E + O)
  BY <1>2
<1>18. /\ c[1] = OfferFrame(Len(m.roots), m.files, m.folders, m.bytes)
       /\ \A i \in 1..E: c[1 + i] = EntryFrame(m.entries[i])
       /\ \A i \in 1..O: c[1 + E + i] = OmissionFrame(m.omissions[i])
       /\ c[E + O + 2] = CompleteFrame
  BY <1>7, <1>8, <1>9, <1>10, <1>13, <1>14, <1>16, <1>17
<1> QED BY <1>2, <1>14, <1>15, <1>16, <1>18 DEF E, O

\* How many frames sendManifest writes.
LEMMA FittingIs ==
    ASSUME NEW frames, Len(frames) \in Nat
    PROVE  LET fitting == CHOOSE n \in 0..Len(frames): /\ \A i \in 1..n: Fits(frames[i])
                                                       /\ n < Len(frames) => ~Fits(frames[n + 1])
           IN fitting \in 0..Len(frames) /\ (fitting < Len(frames) => ~Fits(frames[fitting + 1]))
<1> DEFINE N == Len(frames)
           S == {n \in 0..N: n < N => ~Fits(frames[n + 1])}
<1>1. S \in SUBSET Nat /\ N \in S
  OBVIOUS
<1> HIDE DEF S
<1>2. PICK n \in S: \A k \in S: n <= k
  BY <1>1, LeastNumber
<1>3. n \in 0..N /\ (n < N => ~Fits(frames[n + 1]))
  BY <1>2 DEF S
<1>4. \A i \in 1..n: Fits(frames[i])
  <2> SUFFICES ASSUME NEW i \in 1..n, ~Fits(frames[i]) PROVE FALSE
    OBVIOUS
  <2>1. i - 1 \in 0..N /\ i - 1 < n /\ (i - 1) + 1 = i
    BY <1>3
  <2>2. i - 1 \in S
    BY <2>1 DEF S
  <2>3. n <= i - 1
    BY <1>2, <2>2
  <2> QED BY <1>3, <2>1, <2>3
<1>5. \E k \in 0..N: (\A i \in 1..k: Fits(frames[i])) /\ (k < N => ~Fits(frames[k + 1]))
  BY <1>3, <1>4
<1> HIDE DEF N
<1> QED BY <1>5 DEF N

LEMMA PrefixIs ==
    ASSUME NEW S, NEW s \in Seq(S), NEW n \in 0..Len(s)
    PROVE  /\ SubSeq(s, 1, n) \in Seq(S) /\ Len(SubSeq(s, 1, n)) = n
           /\ \A i \in 1..n: SubSeq(s, 1, n)[i] = s[i]
<1>1. Len(s) \in Nat /\ DOMAIN s = 1..Len(s)
  OBVIOUS
<1>2. \A i \in 1..n: i \in 1..Len(s) /\ s[i] \in S
  BY <1>1
<1>3. SubSeq(s, 1, n) = [i \in 1..n |-> s[i]]
  BY <1>1
<1>4. SubSeq(s, 1, n) \in [1..n -> S]
  BY <1>2, <1>3
<1> QED BY <1>3, <1>4

LEMMA SendStep ==
    ASSUME SenderTypes, WalkInv, PhaseInv, ReceiverTypes, ReceiverInv, sendManifest
    PROVE  SenderTypes' /\ WalkInv' /\ PhaseInv' /\ ReceiverTypes' /\ ReceiverInv'
<1> DEFINE frames == FramesOf(manifest)
           fitting == CHOOSE n \in 0..Len(frames): /\ \A i \in 1..n: Fits(frames[i])
                                                   /\ n < Len(frames) => ~Fits(frames[n + 1])
<1>1. /\ phase = "built" /\ wire' = SubSeq(frames, 1, fitting)
      /\ phase' = IF fitting = Len(frames) THEN "sent" ELSE "unsent"
      /\ arguments' = arguments /\ source' = source /\ manifest' = manifest
      /\ nextRoot' = nextRoot /\ pending' = pending /\ changes' = changes
      /\ header' = header /\ received' = received /\ verdict' = verdict
      /\ listing' = listing /\ caseSensitive' = caseSensitive /\ finals' = finals /\ made' = made
  BY DEF sendManifest, receiverVars, destinationVars
<1>2. manifest \in Manifests
  BY DEF SenderTypes
<1>3. frames \in Seq(OtherFrames) /\ Len(frames) \in Nat /\ DOMAIN frames = 1..Len(frames)
  <2>1. frames \in Seq(OtherFrames)
    BY <1>2, FramesAre
  <2> HIDE DEF frames
  <2> QED BY <2>1
<1>4. fitting \in 0..Len(frames) /\ (fitting < Len(frames) => ~Fits(frames[fitting + 1]))
  BY <1>3, FittingIs
<1> HIDE DEF fitting, frames
<1>5. /\ wire' \in Seq(OtherFrames) /\ Len(wire') = fitting
      /\ \A i \in 1..fitting: wire'[i] = frames[i]
  BY <1>1, <1>3, <1>4, PrefixIs
<1>6. SenderTypes' /\ WalkInv'
  BY <1>1 DEF SenderTypes, WalkInv
<1>7. ReceiverTypes'
  BY <1>1, <1>5 DEF ReceiverTypes
<1>8. /\ pending = << >> /\ nextRoot = Len(arguments) + 1 /\ manifest.entries # << >>
      /\ verdict = "none" /\ received = EmptyManifest /\ phase' \in {"sent", "unsent"}
  BY <1>1 DEF PhaseInv
<1>9. PhaseInv'
  BY <1>1, <1>8 DEF PhaseInv
<1>10. OwnInv'
  <2>1. received'.entries = << >> /\ received'.omissions = << >> /\ verdict' = "none"
    BY <1>1, <1>8 DEF EmptyManifest
  <2>2. Collected'
    <3>1. \A i \in DOMAIN << >>: FALSE
      OBVIOUS
    <3> QED BY <2>1, <3>1 DEF Collected
  <2>3. Taken' = 0
    BY <2>1 DEF Taken
  <2>4. FramesOf(manifest') = frames
    BY <1>1 DEF frames
  <2>5. \A i \in DOMAIN wire': 0 + i <= Len(frames) /\ wire'[i] = frames[0 + i]
    <3> SUFFICES ASSUME NEW i \in DOMAIN wire' PROVE 0 + i <= Len(frames) /\ wire'[i] = frames[0 + i]
      OBVIOUS
    <3>1. i \in 1..fitting /\ 0 + i = i /\ fitting <= Len(frames)
      BY <1>3, <1>4, <1>5
    <3>2. i <= Len(frames)
      BY <1>3, <1>4, <3>1
    <3> QED BY <1>5, <3>1, <3>2
  <2>6. (phase' = "sent") = (0 + Len(wire') = Len(frames))
    <3>1. 0 + Len(wire') = fitting
      BY <1>4, <1>5
    <3> QED BY <1>1, <3>1
  <2>7. UnderWay'
    BY <2>3, <2>4, <2>5, <2>6 DEF UnderWay
  <2>8. ~Approved'
    BY <2>1 DEF Approved
  <2> QED BY <2>1, <2>2, <2>7, <2>8 DEF OwnInv
<1>11. UnsentInv'
  <2> SUFFICES ASSUME phase' = "unsent"
               PROVE  \E i \in DOMAIN frames: ~Fits(frames[i])
    BY <1>1 DEF UnsentInv, frames
  <2>1. fitting # Len(frames)
    BY <1>1
  <2>2. fitting + 1 \in 1..Len(frames) /\ fitting < Len(frames)
    <3>1. fitting \in 0..Len(frames) /\ Len(frames) \in Nat
      BY <1>3, <1>4
    <3> QED BY ONLY <2>1, <3>1
  <2> QED BY <1>3, <1>4, <2>2
<1>12. ApprovedInv' /\ FinalsInv'
  BY <1>1 DEF ReceiverInv, ApprovedInv, FinalsInv, Approved
<1>13. PreparedInv'
  BY <1>1, <1>8 DEF ReceiverInv, PreparedInv
<1> QED BY <1>6, <1>7, <1>9, <1>10, <1>11, <1>12, <1>13 DEF ReceiverInv

---------------------------------------------------------------------------
(* The frames at the receiver                                              *)

\* A frame is taken: one of these, with what becomes of the offer.
LEMMA ReceiveCases ==
    ASSUME ReceiverTypes, Receive
    PROVE  LET m == wire[1] IN
           /\ m \in OtherFrames /\ wire # << >> /\ verdict \in {"none", "collecting"}
           /\ wire' \in Seq(OtherFrames) /\ Len(wire') = Len(wire) - 1 /\ Len(wire) \in Nat \ {0}
           /\ DOMAIN wire = 1..Len(wire) /\ DOMAIN wire' = 1..Len(wire')
           /\ \A i \in 1..Len(wire'): wire'[i] = wire[i + 1] /\ i + 1 \in 1..Len(wire)
           /\ UNCHANGED <<senderVars, destinationVars, made>>
           /\ \/ m.type = "offer" /\ handleIncomingOffer(m)
              \/ m.type # "offer" /\ verdict = "none" /\ verdict' = "refused" /\ UNCHANGED <<header, received>>
              \/ m.type = "manifest-entry" /\ verdict = "collecting" /\ ReceiveEntry(m)
              \/ m.type = "manifest-omission" /\ verdict = "collecting" /\ ReceiveOmission(m)
              \/ m.type = "offer-complete" /\ verdict = "collecting" /\ ReceiveComplete
<1> DEFINE m == wire[1]
<1>1. /\ wire # << >> /\ verdict \in {"none", "collecting"} /\ wire' = Tail(wire)
      /\ UNCHANGED <<senderVars, destinationVars, made>>
      /\ wire \in Seq(OtherFrames)
  BY DEF Receive, ReceiverTypes
<1>2. Head(wire) = m /\ m \in OtherFrames /\ Len(wire) \in Nat \ {0}
  BY <1>1
<1>3. /\ wire' \in Seq(OtherFrames) /\ Len(wire') = Len(wire) - 1
      /\ DOMAIN wire = 1..Len(wire) /\ DOMAIN wire' = 1..Len(wire')
  BY <1>1
<1>4. \A i \in 1..Len(wire'): wire'[i] = wire[i + 1] /\ i + 1 \in 1..Len(wire)
  BY <1>1, <1>3
<1> HIDE DEF m
<1>5. m.type \in {"offer", "manifest-entry", "manifest-omission", "offer-complete"}
  BY <1>2 DEF OtherFrames, CompleteFrame
<1>6. IF m.type = "offer" THEN handleIncomingOffer(m)
      ELSE IF verdict = "none" THEN verdict' = "refused" /\ UNCHANGED <<header, received>>
      ELSE CASE m.type = "manifest-entry" -> ReceiveEntry(m)
             [] m.type = "manifest-omission" -> ReceiveOmission(m)
             [] m.type = "offer-complete" -> ReceiveComplete
  BY <1>2 DEF Receive
<1>7. CASE m.type = "offer"
  BY <1>1, <1>2, <1>3, <1>4, <1>6, <1>7 DEF m
<1>8. CASE m.type # "offer" /\ verdict = "none"
  BY <1>1, <1>2, <1>3, <1>4, <1>6, <1>8 DEF m
<1>9. CASE m.type = "manifest-entry" /\ verdict = "collecting"
  <2>1. ReceiveEntry(m)
    BY <1>6, <1>9
  <2> QED BY <1>1, <1>2, <1>3, <1>4, <1>9, <2>1 DEF m
<1>10. CASE m.type = "manifest-omission" /\ verdict = "collecting"
  <2>1. ReceiveOmission(m)
    BY <1>6, <1>10
  <2> QED BY <1>1, <1>2, <1>3, <1>4, <1>10, <2>1 DEF m
<1>11. CASE m.type = "offer-complete" /\ verdict = "collecting"
  <2>1. ReceiveComplete
    BY <1>6, <1>11
  <2> QED BY <1>1, <1>2, <1>3, <1>4, <1>11, <2>1 DEF m
<1> QED BY <1>1, <1>5, <1>7, <1>8, <1>9, <1>10, <1>11

LEMMA OtherFrameIs ==
    ASSUME NEW m \in OtherFrames
    PROVE  /\ m.type = "offer" => m.roots \in Int /\ m.files \in Int /\ m.folders \in Int /\ m.bytes \in Int64
           /\ m.type = "manifest-entry" => m.path \in Seq(Names) /\ m.kind \in FrameKinds /\ m.size \in Int64
           /\ m.type = "manifest-omission" => m.path \in Seq(Names)
<1>1. CASE m \in [type: {"offer"}, roots: Int, files: Int, folders: Int, bytes: Int64]
  BY <1>1
<1>2. CASE m \in [type: {"manifest-entry"}, path: Seq(Names), kind: FrameKinds, size: Int64]
  BY <1>2
<1>3. CASE m \in [type: {"manifest-omission"}, path: Seq(Names)]
  BY <1>3
<1>4. CASE m = CompleteFrame
  BY <1>4 DEF CompleteFrame
<1> QED BY <1>1, <1>2, <1>3, <1>4 DEF OtherFrames

\* A valid entry or omission is recorded.
LEMMA EntryReceived ==
    ASSUME ReceiverTypes, NEW m \in OtherFrames, m.type = "manifest-entry", verdict = "collecting", ReceiveEntry(m)
    PROVE  /\ header' = header
           /\ \/ /\ Len(received.entries) < MaxEntries /\ verdict' = verdict
                 /\ Entry(m.path, m.kind, m.size) \in ManifestEntries
                 /\ received' = [received EXCEPT !.entries = Append(@, Entry(m.path, m.kind, m.size))]
              \/ /\ verdict' = "refused" /\ received' = received
                 /\ ~(/\ Len(received.entries) < MaxEntries
                      /\ Entry(m.path, m.kind, m.size) \in ManifestEntries)
<1> DEFINE valid == /\ Len(received.entries) < MaxEntries
                    /\ validateManifestPath(m.path)
                    /\ m.kind \in {manifestFile, manifestFolder}
                    /\ m.size >= 0 /\ (m.kind = manifestFolder => m.size = 0)
           e == Entry(m.path, m.kind, m.size)
<1>1. /\ header' = header
      /\ verdict' = IF valid THEN verdict ELSE "refused"
      /\ received' = IF valid THEN [received EXCEPT !.entries = Append(@, e)] ELSE received
  BY DEF ReceiveEntry
<1>2. m.path \in Seq(Names) /\ m.size \in Int64 /\ MaxTotal \in Nat
  BY OtherFrameIs, ManifestAssumption
<1>3. e.path = m.path /\ e.kind = m.kind /\ e.size = m.size /\ e = [path |-> m.path, kind |-> m.kind, size |-> m.size]
  BY DEF Entry
<1>4. ASSUME valid PROVE e \in ManifestEntries
  <2>1. m.path # << >> /\ validateManifestPath(m.path)
    BY <1>4 DEF validateManifestPath
  <2>2. m.size \in 0..MaxTotal
    BY <1>2, <1>4 DEF Int64
  <2> QED BY <1>2, <1>3, <1>4, <2>1, <2>2 DEF ReceivedEntries, ManifestEntries
<1>5. ASSUME e \in ManifestEntries, Len(received.entries) < MaxEntries PROVE valid
  <2>1. /\ e.kind \in {manifestFile, manifestFolder} /\ e.size \in 0..MaxTotal
        /\ e.kind = manifestFolder => e.size = 0
        /\ validateManifestPath(e.path)
    BY <1>5 DEF ReceivedEntries, ManifestEntries
  <2> HIDE DEF e
  <2> QED BY <1>2, <1>3, <1>5, <2>1
<1> HIDE DEF valid, e
<1>6. CASE valid
  <2>1. Len(received.entries) < MaxEntries
    BY <1>6 DEF valid
  <2> QED BY <1>1, <1>4, <1>6, <2>1 DEF e
<1>7. CASE ~valid
  BY <1>1, <1>5, <1>7 DEF e
<1> QED BY <1>6, <1>7

LEMMA OmissionReceived ==
    ASSUME ReceiverTypes, NEW m \in OtherFrames, m.type = "manifest-omission", verdict = "collecting", ReceiveOmission(m)
    PROVE  /\ header' = header
           /\ \/ /\ Len(received.omissions) < MaxOmissions /\ verdict' = verdict
                 /\ [path |-> m.path] \in Omissions
                 /\ received' = [received EXCEPT !.omissions = Append(@, [path |-> m.path])]
              \/ /\ verdict' = "refused" /\ received' = received
                 /\ ~(Len(received.omissions) < MaxOmissions /\ validateManifestPath(m.path))
<1> DEFINE valid == Len(received.omissions) < MaxOmissions /\ validateManifestPath(m.path)
<1>1. /\ header' = header
      /\ verdict' = IF valid THEN verdict ELSE "refused"
      /\ received' = IF valid THEN [received EXCEPT !.omissions = Append(@, [path |-> m.path])] ELSE received
  BY DEF ReceiveOmission
<1>2. m.path \in Seq(Names)
  BY OtherFrameIs
<1>3. valid => [path |-> m.path] \in Omissions
  BY <1>2 DEF Omissions, validateManifestPath
<1>4. CASE valid
  BY <1>1, <1>3, <1>4
<1>5. CASE ~valid
  BY <1>1, <1>5
<1> QED BY <1>4, <1>5

\* What ApprovedInv says of entries that were accepted.
EntriesApproved(entries, roots, total) ==
    /\ KeysDiffer(entries, Len(entries))
    /\ RootsAre(roots, entries, Len(entries))
    /\ roots # << >>
    /\ \A i \in DOMAIN entries: ParentsAreFolders(entries, entries[i])
    /\ total = TotalSize(entries)

LEMMA CompleteReceived ==
    ASSUME ReceiverTypes, verdict = "collecting", header.bytes >= 0, header.roots > 0, ReceiveComplete
    PROVE  LET scan == ScanEntries(received.entries, header.bytes)
               valid == /\ scan.ok
                        /\ \A i \in DOMAIN received.entries: ParentsAreFolders(received.entries, received.entries[i])
                        /\ Count(received.entries, manifestFile) = header.files
                        /\ Count(received.entries, manifestFolder) = header.folders
                        /\ scan.bytes = header.bytes
                        /\ Len(scan.roots) = header.roots
           IN /\ header' = header /\ received' = [received EXCEPT !.roots = scan.roots]
              /\ scan.roots \in Seq(Names)
              /\ \/ ~valid /\ verdict' = "refused"
                 \/ valid /\ verdict' = "reviewed" /\ EntriesApproved(received.entries, scan.roots, header.bytes)
<1> DEFINE scan == ScanEntries(received.entries, header.bytes)
           valid == /\ scan.ok
                    /\ \A i \in DOMAIN received.entries: ParentsAreFolders(received.entries, received.entries[i])
                    /\ Count(received.entries, manifestFile) = header.files
                    /\ Count(received.entries, manifestFolder) = header.folders
                    /\ scan.bytes = header.bytes
                    /\ Len(scan.roots) = header.roots
<1>1. /\ header' = header /\ received' = [received EXCEPT !.roots = scan.roots]
      /\ verdict' = IF valid THEN "reviewed" ELSE "refused"
  BY DEF ReceiveComplete
<1>2. received.entries \in Seq(ReceivedEntries)
  <2>1. received.entries \in Seq(ManifestEntries)
    BY DEF ReceiverTypes, Receipts
  <2>2. ManifestEntries \subseteq ReceivedEntries
    BY DEF ManifestEntries
  <2>3. \A s \in Seq(ManifestEntries): s \in Seq(ReceivedEntries)
    BY <2>2
  <2> QED BY <2>1, <2>3
<1>3. header.bytes \in 0..MaxTotal
  <2>1. header.bytes \in Int64 /\ MaxTotal \in Nat
    BY ManifestAssumption DEF ReceiverTypes, Headers
  <2> QED BY <2>1 DEF Int64
<1>4. /\ scan.roots \in Seq(Names)
      /\ scan.ok => /\ KeysDiffer(received.entries, Len(received.entries))
                    /\ RootsAre(scan.roots, received.entries, Len(received.entries))
                    /\ scan.bytes = TotalSize(received.entries)
  BY <1>2, <1>3, ScanIs
<1> HIDE DEF scan
<1>5. CASE valid
  <2>1. scan.roots # << >>
    <3>1. Len(scan.roots) > 0
      BY <1>5
    <3>2. Len(<< >>) = 0
      OBVIOUS
    <3> QED BY <3>1, <3>2
  <2>2. EntriesApproved(received.entries, scan.roots, header.bytes)
    BY <1>4, <1>5, <2>1 DEF EntriesApproved
  <2> QED BY <1>1, <1>4, <1>5, <2>2 DEF scan
<1>6. CASE ~valid
  <2> HIDE DEF valid
  <2>1. verdict' = "refused" /\ ~valid
    BY <1>1, <1>6
  <2> QED BY <1>1, <1>4, <2>1 DEF scan, valid
<1> QED BY <1>5, <1>6

\* A record of what has been received, with one of its parts renewed.
LEMMA ReceiptIs ==
    ASSUME NEW r \in Receipts
    PROVE  /\ r.roots \in Seq(Names) /\ r.entries \in Seq(ManifestEntries) /\ r.omissions \in Seq(Omissions)
           /\ \A es \in Seq(ManifestEntries):
                LET u == [r EXCEPT !.entries = es] IN
                u \in Receipts /\ u.entries = es /\ u.omissions = r.omissions /\ u.roots = r.roots
           /\ \A os \in Seq(Omissions):
                LET u == [r EXCEPT !.omissions = os] IN
                u \in Receipts /\ u.entries = r.entries /\ u.omissions = os /\ u.roots = r.roots
           /\ \A rs \in Seq(Names):
                LET u == [r EXCEPT !.roots = rs] IN
                u \in Receipts /\ u.entries = r.entries /\ u.omissions = r.omissions /\ u.roots = rs
<1>1. r.roots \in Seq(Names) /\ r.entries \in Seq(ManifestEntries) /\ r.omissions \in Seq(Omissions)
  BY DEF Receipts
<1>2. ASSUME NEW es \in Seq(ManifestEntries)
      PROVE  LET u == [r EXCEPT !.entries = es] IN
             u \in Receipts /\ u.entries = es /\ u.omissions = r.omissions /\ u.roots = r.roots
  BY DEF Receipts
<1>3. ASSUME NEW os \in Seq(Omissions)
      PROVE  LET u == [r EXCEPT !.omissions = os] IN
             u \in Receipts /\ u.entries = r.entries /\ u.omissions = os /\ u.roots = r.roots
  BY DEF Receipts
<1>4. ASSUME NEW rs \in Seq(Names)
      PROVE  LET u == [r EXCEPT !.roots = rs] IN
             u \in Receipts /\ u.entries = r.entries /\ u.omissions = r.omissions /\ u.roots = rs
  BY DEF Receipts
<1> QED BY <1>1, <1>2, <1>3, <1>4

\* What a frame leaves.
HeldOK(h, r, v) ==
    /\ h \in Headers /\ r \in Receipts /\ v \in {"collecting", "refused", "reviewed"}
    /\ v # "refused" => h.bytes >= 0 /\ h.roots > 0
    /\ Len(r.entries) <= MaxEntries /\ Len(r.omissions) <= MaxOmissions
    /\ v = "reviewed" => EntriesApproved(r.entries, r.roots, h.bytes)

LEMMA FrameHeld ==
    ASSUME ReceiverTypes, ApprovedInv, Receive
    PROVE  HeldOK(header', received', verdict')
<1> DEFINE m == wire[1]
<1>1. /\ m \in OtherFrames /\ verdict \in {"none", "collecting"}
      /\ \/ m.type = "offer" /\ handleIncomingOffer(m)
         \/ m.type # "offer" /\ verdict = "none" /\ verdict' = "refused" /\ UNCHANGED <<header, received>>
         \/ m.type = "manifest-entry" /\ verdict = "collecting" /\ ReceiveEntry(m)
         \/ m.type = "manifest-omission" /\ verdict = "collecting" /\ ReceiveOmission(m)
         \/ m.type = "offer-complete" /\ verdict = "collecting" /\ ReceiveComplete
  BY ReceiveCases
<1> HIDE DEF m
<1>2. /\ received \in Receipts /\ header \in Headers
      /\ Len(received.entries) <= MaxEntries /\ Len(received.omissions) <= MaxOmissions
      /\ MaxEntries \in Nat /\ MaxOmissions \in Nat
  BY ManifestAssumption DEF ReceiverTypes, ApprovedInv
<1>3. verdict = "collecting" => header.bytes >= 0 /\ header.roots > 0
  BY DEF ApprovedInv
<1>4. received' = received /\ header' = header /\ verdict' = "refused" => HeldOK(header', received', verdict')
  BY <1>2 DEF HeldOK
<1>5. CASE m.type = "offer" /\ handleIncomingOffer(m)
  <2>1. m.roots \in Int /\ m.files \in Int /\ m.folders \in Int /\ m.bytes \in Int64
    BY <1>1, <1>5, OtherFrameIs
  <2>2. /\ header' = [roots |-> m.roots, files |-> m.files, folders |-> m.folders, bytes |-> m.bytes]
        /\ received' = received
        /\ verdict' \in {"collecting", "refused"}
        /\ verdict' = "collecting" => m.roots \in 1..MaxEntries /\ m.bytes >= 0
    BY <1>5 DEF handleIncomingOffer
  <2>3. header'.bytes = m.bytes /\ header'.roots = m.roots /\ header' \in Headers
    BY <2>1, <2>2 DEF Headers
  <2>4. verdict' # "refused" => header'.bytes >= 0 /\ header'.roots > 0
    BY <1>2, <2>1, <2>2, <2>3
  <2> QED BY <1>2, <2>2, <2>3, <2>4 DEF HeldOK
<1>6. CASE verdict = "none" /\ verdict' = "refused" /\ UNCHANGED <<header, received>>
  BY <1>4, <1>6
<1>7. CASE m.type = "manifest-entry" /\ verdict = "collecting" /\ ReceiveEntry(m)
  <2> DEFINE e == Entry(m.path, m.kind, m.size)
  <2>1. /\ header' = header
        /\ \/ /\ Len(received.entries) < MaxEntries /\ verdict' = verdict /\ e \in ManifestEntries
              /\ received' = [received EXCEPT !.entries = Append(received.entries, e)]
           \/ verdict' = "refused" /\ received' = received
    BY <1>1, <1>7, EntryReceived
  <2> HIDE DEF e
  <2>2. CASE /\ Len(received.entries) < MaxEntries /\ verdict' = verdict /\ e \in ManifestEntries
             /\ received' = [received EXCEPT !.entries = Append(received.entries, e)]
    <3>1. received.entries \in Seq(ManifestEntries)
      BY <1>2, ReceiptIs
    <3>2. /\ Append(received.entries, e) \in Seq(ManifestEntries) /\ Len(received.entries) \in Nat
          /\ Len(Append(received.entries, e)) = Len(received.entries) + 1
      BY <2>2, <3>1, AppendIs
    <3>3. received' \in Receipts /\ received'.entries = Append(received.entries, e) /\ received'.omissions = received.omissions
      BY <1>2, <2>2, <3>2, ReceiptIs
    <3>4. Len(received'.entries) <= MaxEntries
      BY <1>2, <2>2, <3>2, <3>3
    <3> QED BY <1>2, <1>3, <1>7, <2>1, <2>2, <3>3, <3>4 DEF HeldOK
  <2> QED BY <1>4, <2>1, <2>2
<1>8. CASE m.type = "manifest-omission" /\ verdict = "collecting" /\ ReceiveOmission(m)
  <2> DEFINE o == [path |-> m.path]
  <2>1. /\ header' = header
        /\ \/ /\ Len(received.omissions) < MaxOmissions /\ verdict' = verdict /\ o \in Omissions
              /\ received' = [received EXCEPT !.omissions = Append(received.omissions, o)]
           \/ verdict' = "refused" /\ received' = received
    BY <1>1, <1>8, OmissionReceived
  <2> HIDE DEF o
  <2>2. CASE /\ Len(received.omissions) < MaxOmissions /\ verdict' = verdict /\ o \in Omissions
             /\ received' = [received EXCEPT !.omissions = Append(received.omissions, o)]
    <3>1. received.omissions \in Seq(Omissions)
      BY <1>2, ReceiptIs
    <3>2. /\ Append(received.omissions, o) \in Seq(Omissions) /\ Len(received.omissions) \in Nat
          /\ Len(Append(received.omissions, o)) = Len(received.omissions) + 1
      BY <2>2, <3>1, AppendIs
    <3>3. received' \in Receipts /\ received'.omissions = Append(received.omissions, o) /\ received'.entries = received.entries
      BY <1>2, <2>2, <3>2, ReceiptIs
    <3>4. Len(received'.omissions) <= MaxOmissions
      BY <1>2, <2>2, <3>2, <3>3
    <3> QED BY <1>2, <1>3, <1>8, <2>1, <2>2, <3>3, <3>4 DEF HeldOK
  <2> QED BY <1>4, <2>1, <2>2
<1>9. CASE m.type = "offer-complete" /\ verdict = "collecting" /\ ReceiveComplete
  <2> DEFINE roots == ScanEntries(received.entries, header.bytes).roots
  <2>1. /\ header' = header /\ received' = [received EXCEPT !.roots = roots] /\ roots \in Seq(Names)
        /\ \/ verdict' = "refused"
           \/ verdict' = "reviewed" /\ EntriesApproved(received.entries, roots, header.bytes)
    BY <1>3, <1>9, CompleteReceived
  <2> HIDE DEF roots
  <2>2. /\ received' \in Receipts /\ received'.roots = roots /\ received'.entries = received.entries
        /\ received'.omissions = received.omissions
    BY <1>2, <2>1, ReceiptIs
  <2> QED BY <1>2, <1>3, <1>9, <2>1, <2>2 DEF HeldOK
<1> QED BY <1>1, <1>5, <1>6, <1>7, <1>8, <1>9

LEMMA ReceiveKeeps ==
    ASSUME ReceiverTypes, PhaseInv, ApprovedInv, FinalsInv, PreparedInv, Receive
    PROVE  /\ ReceiverTypes' /\ PhaseInv' /\ ApprovedInv' /\ FinalsInv' /\ PreparedInv'
           /\ verdict' \in {"collecting", "refused", "reviewed"}
<1>1. /\ wire # << >> /\ verdict \in {"none", "collecting"} /\ wire' \in Seq(OtherFrames)
      /\ UNCHANGED <<senderVars, destinationVars, made>>
  BY ReceiveCases
<1>2. HeldOK(header', received', verdict')
  BY FrameHeld
<1>3. /\ header' \in Headers /\ received' \in Receipts /\ verdict' \in {"collecting", "refused", "reviewed"}
  BY <1>2 DEF HeldOK
<1>4. caseSensitive' \in BOOLEAN
  BY <1>1 DEF ReceiverTypes, destinationVars
<1>5. ReceiverTypes'
  BY <1>1, <1>3, <1>4 DEF ReceiverTypes
<1>6. ApprovedInv'
  <2>1. Approved' => verdict' = "reviewed"
    BY <1>3 DEF Approved
  <2> QED BY <1>2, <2>1 DEF HeldOK, ApprovedInv, EntriesApproved
<1>7. finals = << >> /\ made = {} /\ finals' = finals /\ made' = made /\ phase' = phase
      /\ pending' = pending /\ nextRoot' = nextRoot /\ arguments' = arguments /\ manifest' = manifest
  BY <1>1 DEF FinalsInv, Approved, destinationVars, senderVars
<1>8. FinalsInv' /\ PreparedInv'
  BY <1>3, <1>7 DEF FinalsInv, PreparedInv, Approved
<1>9. PhaseInv'
  BY <1>1, <1>3, <1>7 DEF PhaseInv
<1> QED BY <1>3, <1>5, <1>6, <1>8, <1>9

---------------------------------------------------------------------------
(* An offer of this program at the receiver                                *)

LEMMA SumsGrow ==
    ASSUME NEW s \in Seq(Nat)
    PROVE  \A n \in 0..Len(s): Sums(s)[n] <= Sums(s)[Len(s)]
<1> DEFINE N == Len(s)
           S == {k \in 0..N: Sums(s)[N - k] <= Sums(s)[N]}
<1>1. N \in Nat
  OBVIOUS
<1>2. \A n \in 0..N: Sums(s)[n] \in Nat
  BY SumsType
<1>3. \A n \in 1..N: Sums(s)[n] = Sums(s)[n - 1] + s[n] /\ s[n] \in Nat
  BY <1>1, SumsAre
<1> HIDE DEF N
<1>4. 0 \in S
  <2>1. N - 0 = N /\ N \in 0..N /\ 0 \in 0..N
    BY <1>1
  <2>2. Sums(s)[N] \in Nat
    BY <1>2, <2>1
  <2>3. Sums(s)[N - 0] <= Sums(s)[N]
    BY <2>1, <2>2
  <2> QED BY <2>1, <2>3
<1>5. ASSUME NEW k \in 0..N, k \in S, k # N PROVE k + 1 \in S
  <2>1. N - k \in 1..N /\ (N - k) - 1 = N - (k + 1) /\ k + 1 \in 0..N /\ N - (k + 1) \in 0..N /\ N - k \in 0..N /\ N \in 0..N
    BY <1>1, <1>5
  <2>2. Sums(s)[N - k] = Sums(s)[N - (k + 1)] + s[N - k] /\ s[N - k] \in Nat
    BY <1>3, <2>1
  <2>3. Sums(s)[N - k] \in Nat /\ Sums(s)[N - (k + 1)] \in Nat /\ Sums(s)[N] \in Nat
    BY <1>2, <2>1
  <2>4. Sums(s)[N - k] <= Sums(s)[N]
    BY <1>5
  <2>5. Sums(s)[N - (k + 1)] <= Sums(s)[N]
    BY <2>2, <2>3, <2>4
  <2> QED BY <2>1, <2>5
<1>6. \A k \in 0..N: k \in S
  <2> HIDE DEF S
  <2> QED BY <1>1, <1>4, <1>5, UpTo
<1>7. ASSUME NEW n \in 0..N PROVE Sums(s)[n] <= Sums(s)[N]
  <2>1. N - n \in 0..N /\ N - (N - n) = n
    BY <1>1
  <2>2. N - n \in S
    BY <1>6, <2>1
  <2> QED BY <2>1, <2>2
<1> QED BY <1>7 DEF N

\* The scan of entries with different keys ends well when their total is the
\* announced one.
LEMMA ScanSucceeds ==
    ASSUME NEW entries \in Seq(ReceivedEntries), NEW total \in 0..MaxTotal,
           KeysDiffer(entries, Len(entries)), total = TotalSize(entries)
    PROVE  ScanEntries(entries, total).ok
<1> DEFINE N == Len(entries)
           S == {n \in 0..N: ScanKnows(entries, total, n) /\ Scans(entries, total)[n].ok}
<1>1. N \in Nat /\ DOMAIN entries = 1..N
  OBVIOUS
<1>2. 0 \in S
  <2>1. Scans(entries, total)[0] = NothingScanned
    BY ScansAre
  <2>2. ScanKnows(entries, total, 0)
    BY NothingKnown
  <2>3. 0 \in 0..N
    BY <1>1
  <2> QED BY <2>1, <2>2, <2>3 DEF NothingScanned
<1>3. ASSUME NEW n \in 0..N, n \in S, n # N PROVE n + 1 \in S
  <2> DEFINE st == Scans(entries, total)[n]
             e == entries[n + 1]
  <2>1. n \in Nat /\ n + 1 \in 1..N /\ n + 1 \in 0..N /\ (n + 1) - 1 = n /\ e \in ReceivedEntries
    <3>1. n \in Nat /\ n + 1 \in 1..N /\ n + 1 \in 0..N /\ (n + 1) - 1 = n
      <4> HIDE DEF N
      <4> QED BY <1>1, <1>3
    <3>2. n + 1 \in DOMAIN entries
      BY <1>1, <3>1
    <3> QED BY <3>1, <3>2
  <2>2. ScanKnows(entries, total, n + 1)
    BY <1>1, <1>3, <2>1, ScanStep
  <2>3. /\ st.ok /\ st.seen = {manifestPathKey(entries[i].path): i \in 1..n}
        /\ st.bytes = Sums(Sizes(entries))[n] /\ st.bytes \in 0..total
    BY <1>3 DEF ScanKnows
  <2>4. Scans(entries, total)[n + 1] = ScanEntry(st, e, total)
    BY <1>1, <2>1, ScansAre
  <2>5. manifestPathKey(e.path) \notin st.seen
    <3> SUFFICES ASSUME NEW i \in 1..n, manifestPathKey(entries[i].path) = manifestPathKey(e.path) PROVE FALSE
      BY <2>3
    <3>1. i \in 1..N /\ i # n + 1
      BY <1>1, <2>1
    <3> QED BY <2>1, <3>1 DEF KeysDiffer
  <2>6. ~(e.size > total - st.bytes)
    <3>1. Sizes(entries) \in Seq(Nat) /\ Len(Sizes(entries)) = N /\ Sizes(entries)[n + 1] = e.size
          /\ total = Sums(Sizes(entries))[N]
      BY <1>1, <2>1, SizesAre
    <3>2. Sums(Sizes(entries))[n + 1] <= total
      BY <2>1, <3>1, SumsGrow
    <3>3. Sums(Sizes(entries))[n + 1] = st.bytes + e.size
      BY <2>1, <2>3, <3>1, SumsAre
    <3>4. e.size \in Int /\ total \in Int /\ st.bytes \in Int
      BY <2>1, <2>3, EntryIs, ManifestAssumption
    <3> HIDE DEF e, st
    <3> QED BY <3>2, <3>3, <3>4
  <2> HIDE DEF st, e
  <2>7. ScanEntry(st, e, total).ok
    BY <2>3, <2>5, <2>6 DEF ScanEntry
  <2> QED BY <2>1, <2>2, <2>4, <2>7
<1>4. N \in S
  <2>1. N \in 0..N
    BY <1>1
  <2> HIDE DEF S, N
  <2> QED BY <1>1, <1>2, <1>3, <2>1, UpTo
<1>5. ScanEntries(entries, total) = Scans(entries, total)[N]
  BY <1>1, ScansAre
<1> QED BY <1>4, <1>5

\* The roots are the top-level entries, unless one was omitted as a whole.
LEMMA OwnRoots ==
    ASSUME NEW args, NEW next, NEW m \in Manifests,
           RootsOK(args, next, m, << >>), EntriesOK(m),
           \A n \in DOMAIN m.roots: <<m.roots[n]>> \in PathsOf(m.omissions) => <<m.roots[n]>> \in PathsOf(m.entries)
    PROVE  Len(m.roots) = Cardinality(TopLevel(m.entries, Len(m.entries)))
<1> DEFINE T == TopLevel(m.entries, Len(m.entries))
           N == Len(m.roots)
<1>1. /\ DOMAIN m.roots = 1..N /\ N \in Nat /\ DOMAIN m.entries = 1..Len(m.entries)
      /\ \A i \in DOMAIN m.entries: IsPath(m.entries[i].path)
  BY ManifestIs
<1>2. \A n \in 1..N: \E i \in DOMAIN m.entries: m.entries[i].path = <<m.roots[n]>>
  <2> SUFFICES ASSUME NEW n \in 1..N PROVE <<m.roots[n]>> \in PathsOf(m.entries)
    BY DEF PathsOf
  <2>1. << >> # <<RootPlace(n)>>
    OBVIOUS
  <2>2. Recorded(m, <<m.roots[n]>>)
    BY <1>1, <2>1 DEF RootsOK
  <2> QED BY <1>1, <2>2 DEF Recorded
<1> DEFINE EntryOf(n) == CHOOSE i \in DOMAIN m.entries: m.entries[i].path = <<m.roots[n]>>
           at == [n \in 1..N |-> EntryOf(n)]
<1>3. \A n \in 1..N: EntryOf(n) \in DOMAIN m.entries /\ m.entries[EntryOf(n)].path = <<m.roots[n]>>
  BY <1>2
<1> HIDE DEF EntryOf
<1>4. \A n \in 1..N: EntryOf(n) \in T
  <2>1. \A n: Len(<<m.roots[n]>>) = 1
    OBVIOUS
  <2> QED BY <1>1, <1>3, <2>1 DEF TopLevel, IsTopLevel
<1>5. at \in [1..N -> T] /\ \A n \in 1..N: at[n] = EntryOf(n)
  <2> HIDE DEF T
  <2> QED BY <1>4
<1>6. \A n, k \in 1..N: at[n] = at[k] => n = k
  <2> SUFFICES ASSUME NEW n \in 1..N, NEW k \in 1..N, at[n] = at[k] PROVE n = k
    OBVIOUS
  <2> HIDE DEF at
  <2>1. <<m.roots[n]>> = <<m.roots[k]>>
    BY <1>3, <1>5
  <2>2. m.roots[n] = m.roots[k]
    BY <2>1
  <2>3. Key(m.roots[n]) = Key(m.roots[k])
    BY <2>2
  <2> QED BY <1>1, <2>3 DEF RootsOK
<1>7. \A t \in T: \E n \in 1..N: at[n] = t
  <2> SUFFICES ASSUME NEW t \in T PROVE \E n \in 1..N: at[n] = t
    OBVIOUS
  <2>1. t \in DOMAIN m.entries /\ IsTopLevel(m.entries[t].path)
    BY <1>1 DEF TopLevel
  <2>2. m.entries[t].path = <<m.entries[t].path[1]>>
    BY <1>1, <2>1, TopLevelPath
  <2>3. PICK n \in DOMAIN m.roots: m.entries[t].path[1] = m.roots[n]
    BY <2>1 DEF EntriesOK
  <2> HIDE DEF at
  <2>4. n \in 1..N /\ at[n] \in DOMAIN m.entries /\ m.entries[at[n]].path = m.entries[t].path
    BY <1>1, <1>3, <1>5, <2>2, <2>3
  <2>5. at[n] = t
    BY <1>1, <2>1, <2>4 DEF EntriesOK, KeysDiffer
  <2> QED BY <2>4, <2>5
<1>8. at \in Bijection(1..N, T)
  <2> HIDE DEF at, T
  <2>1. at \in Injection(1..N, T)
    BY <1>5, <1>6 DEF Injection, IsInjective
  <2>2. at \in Surjection(1..N, T)
    BY <1>5, <1>7 DEF Surjection
  <2> QED BY <2>1, <2>2 DEF Bijection
<1>9. IsFiniteSet(1..N) /\ Cardinality(1..N) = N
  BY <1>1, FS_Interval
<1> HIDE DEF at, T
<1>10. Cardinality(T) = Cardinality(1..N)
  BY <1>8, <1>9, FS_Bijection DEF ExistsBijection
<1> QED BY <1>9, <1>10 DEF T

\* What the receiver has taken of an offer of this program, and what follows.
LEMMA OwnProgress ==
    ASSUME SenderTypes, WalkInv, PhaseInv, ReceiverTypes, OwnInv, ApprovedInv, phase \in {"sent", "unsent"},
           verdict = "collecting"
    PROVE  LET E == Len(manifest.entries)
               O == Len(manifest.omissions)
               R == Len(received.entries)
               Q == Len(received.omissions)
           IN /\ E \in Nat /\ O \in Nat /\ R \in 0..E /\ Q \in 0..O /\ Taken = 1 + R + Q
              /\ Q # 0 => R = E
              /\ received.entries \in Seq(ManifestEntries) /\ received.omissions \in Seq(Omissions)
              /\ \A i \in 1..R: received.entries[i] = manifest.entries[i]
              /\ \A i \in 1..Q: received.omissions[i] = manifest.omissions[i]
              /\ header = [roots |-> Len(manifest.roots), files |-> manifest.files,
                           folders |-> manifest.folders, bytes |-> manifest.bytes]
<1> DEFINE E == Len(manifest.entries)
           O == Len(manifest.omissions)
           R == Len(received.entries)
           Q == Len(received.omissions)
<1>1. Collected
  BY DEF OwnInv
<1>2. received.entries \in Seq(ManifestEntries) /\ received.omissions \in Seq(Omissions)
  BY ReceiptIs DEF ReceiverTypes
<1>3. manifest.entries \in Seq(ManifestEntries) /\ manifest.omissions \in Seq(Omissions)
  BY ManifestIs DEF SenderTypes
<1>4. /\ R \in Nat /\ DOMAIN received.entries = 1..R /\ Q \in Nat /\ DOMAIN received.omissions = 1..Q
      /\ E \in Nat /\ O \in Nat
  BY <1>2, <1>3
<1>5. /\ \A i \in 1..R: i <= E /\ received.entries[i] = manifest.entries[i]
      /\ \A i \in 1..Q: i <= O /\ received.omissions[i] = manifest.omissions[i]
      /\ received.omissions # << >> => R = E
      /\ header = [roots |-> Len(manifest.roots), files |-> manifest.files,
                   folders |-> manifest.folders, bytes |-> manifest.bytes]
  BY <1>1, <1>4 DEF Collected
<1>6. Q # 0 => received.omissions # << >>
  <2>1. Len(<< >>) = 0
    OBVIOUS
  <2> QED BY <2>1
<1>7. Taken = 1 + R + Q
  BY DEF Taken
<1> HIDE DEF E, O, R, Q
<1>8. R \in 0..E
  <2>1. R \in Nat /\ E \in Nat /\ \A i \in 1..R: i <= E
    BY <1>4, <1>5
  <2>2. R = 0 \/ R \in 1..R
    BY ONLY <2>1
  <2> QED BY ONLY <2>1, <2>2
<1>9. Q \in 0..O
  <2>1. Q \in Nat /\ O \in Nat /\ \A i \in 1..Q: i <= O
    BY <1>4, <1>5
  <2>2. Q = 0 \/ Q \in 1..Q
    BY ONLY <2>1
  <2> QED BY ONLY <2>1, <2>2
<1> QED BY <1>2, <1>4, <1>5, <1>6, <1>7, <1>8, <1>9 DEF E, O, R, Q

\* The next frame of an offer of this program.
LEMMA OwnNext ==
    ASSUME SenderTypes, ReceiverTypes, OwnInv, phase \in {"sent", "unsent"}, Receive
    PROVE  /\ wire[1] = FramesOf(manifest)[Taken + 1] /\ Taken + 1 <= Len(FramesOf(manifest)) /\ Taken \in Nat
           /\ FramesOf(manifest') = FramesOf(manifest) /\ phase' = phase
           /\ Taken' = Taken + 1 => UnderWay'
<1> DEFINE frames == FramesOf(manifest)
<1>1. /\ wire # << >> /\ verdict \in {"none", "collecting"}
      /\ wire' \in Seq(OtherFrames) /\ Len(wire') = Len(wire) - 1 /\ Len(wire) \in Nat \ {0}
      /\ DOMAIN wire = 1..Len(wire) /\ DOMAIN wire' = 1..Len(wire')
      /\ \A i \in 1..Len(wire'): wire'[i] = wire[i + 1] /\ i + 1 \in 1..Len(wire)
      /\ manifest' = manifest /\ phase' = phase
  BY ReceiveCases DEF senderVars
<1>2. Taken \in Nat
  <2>1. received.entries \in Seq(ManifestEntries) /\ received.omissions \in Seq(Omissions)
    BY ReceiptIs DEF ReceiverTypes
  <2>2. Len(received.entries) \in Nat /\ Len(received.omissions) \in Nat
    BY <2>1
  <2>3. Taken = 0 \/ Taken = 1 + Len(received.entries) + Len(received.omissions)
    BY DEF Taken
  <2>4. 1 + Len(received.entries) + Len(received.omissions) \in Nat /\ 0 \in Nat
    <3>1. \A a, b \in Nat: 1 + a + b \in Nat
      OBVIOUS
    <3> QED BY ONLY <2>2, <3>1, Zenon
  <2> QED BY ONLY <2>3, <2>4, Zenon
<1>3. FramesOf(manifest') = frames
  BY <1>1
<1>4. /\ \A i \in 1..Len(wire): Taken + i <= Len(frames) /\ wire[i] = frames[Taken + i]
      /\ (phase = "sent") = (Taken + Len(wire) = Len(frames))
  BY <1>1 DEF OwnInv, UnderWay
<1>5. 1 \in 1..Len(wire)
  BY <1>1
<1> HIDE DEF frames
<1>6. ASSUME Taken' = Taken + 1 PROVE UnderWay'
  <2>1. ASSUME NEW i \in 1..Len(wire') PROVE Taken' + i <= Len(frames) /\ wire'[i] = frames[Taken' + i]
    <3>1. Taken' + i = Taken + (i + 1)
      BY <1>2, <1>6
    <3> QED BY <1>1, <1>4, <3>1
  <2>2. Taken' + Len(wire') = Taken + Len(wire)
    BY <1>1, <1>2, <1>6
  <2> QED BY <1>1, <1>3, <1>4, <2>1, <2>2 DEF UnderWay
<1> QED BY <1>1, <1>2, <1>3, <1>4, <1>5, <1>6 DEF frames

\* The offer frame: its counts are within the limits, or a root was omitted.
LEMMA OwnOffer ==
    ASSUME SenderTypes, WalkInv, PhaseInv, ReceiverTypes, OwnInv, phase \in {"sent", "unsent"},
           Receive, verdict = "none"
    PROVE  /\ verdict' = "refused" => RootOmitted
           /\ verdict' # "refused" => verdict' = "collecting" /\ Collected' /\ Taken' = Taken + 1
<1> DEFINE m == wire[1]
           E == Len(manifest.entries)
<1>1. /\ \/ m.type = "offer" /\ handleIncomingOffer(m)
         \/ m.type # "offer"
      /\ manifest' = manifest
  BY ReceiveCases DEF senderVars
<1>2. Taken = 0
  BY DEF Taken
<1>3. m = FramesOf(manifest)[0 + 1]
  BY <1>2, OwnNext
<1>4. manifest \in Manifests
  BY DEF SenderTypes
<1>5. m = OfferFrame(Len(manifest.roots), manifest.files, manifest.folders, manifest.bytes)
  <2>1. FramesOf(manifest)[1] = OfferFrame(Len(manifest.roots), manifest.files, manifest.folders, manifest.bytes)
    BY <1>4, FramesAre
  <2>2. m = FramesOf(manifest)[1]
    BY <1>3
  <2> QED BY <2>1, <2>2
<1>6. /\ m.type = "offer" /\ m.roots = Len(manifest.roots) /\ m.files = manifest.files
      /\ m.folders = manifest.folders /\ m.bytes = manifest.bytes
  BY <1>5 DEF OfferFrame
<1>7. handleIncomingOffer(m)
  BY <1>1, <1>6
<1> HIDE DEF m
<1>8. /\ header' = [roots |-> Len(manifest.roots), files |-> manifest.files,
                    folders |-> manifest.folders, bytes |-> manifest.bytes]
      /\ received' = received
      /\ verdict' = IF /\ m.roots \in 1..MaxEntries /\ m.files + m.folders \in 1..MaxEntries
                       /\ m.files >= 0 /\ m.folders >= 0 /\ m.bytes >= 0
                    THEN "collecting" ELSE "refused"
  BY <1>6, <1>7 DEF handleIncomingOffer
<1>9. /\ E \in 1..MaxEntries /\ manifest.files + manifest.folders = E
      /\ manifest.files \in Nat /\ manifest.folders \in Nat /\ manifest.bytes \in 0..MaxTotal
      /\ MaxTotal \in Nat /\ MaxEntries \in Nat
  <2>1. manifest.entries # << >> /\ manifest.entries \in Seq(ManifestEntries)
    BY <1>4, ManifestIs DEF PhaseInv
  <2>2. E \in Nat \ {0}
    BY <2>1
  <2>3. E <= MaxEntries /\ manifest.files + manifest.folders = E
    BY DEF WalkInv, CountsOK
  <2>4. MaxEntries \in Nat /\ MaxTotal \in Nat
    BY ManifestAssumption
  <2>5. manifest.files \in Nat /\ manifest.folders \in Nat /\ manifest.bytes \in 0..MaxTotal
    BY <1>4 DEF Manifests
  <2> HIDE DEF E
  <2> QED BY <2>2, <2>3, <2>4, <2>5
<1>10. m.files >= 0 /\ m.folders >= 0 /\ m.bytes >= 0 /\ m.files + m.folders \in 1..MaxEntries
  BY <1>6, <1>9
<1>11. Len(manifest.roots) \in Nat /\ DOMAIN manifest.roots = 1..Len(manifest.roots)
  BY <1>4, ManifestIs
<1>12. Len(manifest.roots) > 0
  <2>1. 1 \in DOMAIN manifest.entries
    BY <1>4, <1>9, ManifestIs
  <2>2. \E n \in DOMAIN manifest.roots: manifest.entries[1].path[1] = manifest.roots[n]
    BY <2>1 DEF WalkInv, EntriesOK
  <2> QED BY <1>11, <2>2
<1>13. ASSUME ~RootOmitted PROVE Len(manifest.roots) <= MaxEntries
  <2>1. Len(manifest.roots) = Cardinality(TopLevel(manifest.entries, E))
    BY <1>4, <1>13, OwnRoots DEF RootOmitted, WalkInv, PhaseInv
  <2>2. TopLevel(manifest.entries, E) \subseteq 1..E /\ IsFiniteSet(1..E) /\ Cardinality(1..E) = E
    <3>1. E \in Nat
      BY <1>9
    <3> HIDE DEF E
    <3>2. TopLevel(manifest.entries, E) \subseteq 1..E
      BY DEF TopLevel
    <3>3. IsFiniteSet(1..E) /\ Cardinality(1..E) = E
      <4>1. 1 \in Int /\ E \in Int /\ ~(1 > E) /\ E - 1 + 1 = E
        BY <1>9
      <4> QED BY <4>1, FS_Interval
    <3> QED BY <3>2, <3>3
  <2>3. Cardinality(TopLevel(manifest.entries, E)) <= E
    BY <2>2, FS_Subset
  <2> HIDE DEF E
  <2> QED BY <1>9, <1>11, <2>1, <2>3
<1>14. verdict' = "refused" => RootOmitted
  <2>1. ~RootOmitted => m.roots \in 1..MaxEntries
    BY <1>6, <1>9, <1>11, <1>12, <1>13
  <2> QED BY <1>8, <1>10, <2>1
<1>15. ASSUME verdict' # "refused" PROVE verdict' = "collecting" /\ Collected' /\ Taken' = Taken + 1
  <2>1. verdict' = "collecting"
    BY <1>8, <1>15
  <2>2. received' = EmptyManifest
    BY <1>8 DEF PhaseInv
  <2>3. received'.entries = << >> /\ received'.omissions = << >> /\ Len(<< >>) = 0 /\ \A i \in DOMAIN << >>: FALSE
    BY <2>2 DEF EmptyManifest
  <2>4. Collected'
    BY <1>1, <1>8, <2>3 DEF Collected
  <2>5. Taken' = 1
    BY <2>1, <2>3 DEF Taken
  <2> QED BY <1>2, <2>1, <2>4, <2>5
<1> QED BY <1>14, <1>15

\* The entry and omission frames are always taken.
LEMMA OwnEntry ==
    ASSUME SenderTypes, WalkInv, PhaseInv, ReceiverTypes, OwnInv, ApprovedInv, phase \in {"sent", "unsent"},
           Receive, verdict = "collecting", Len(received.entries) < Len(manifest.entries)
    PROVE  verdict' = "collecting" /\ Collected' /\ Taken' = Taken + 1
<1> DEFINE m == wire[1]
           E == Len(manifest.entries)
           O == Len(manifest.omissions)
           R == Len(received.entries)
           Q == Len(received.omissions)
           next == manifest.entries[R + 1]
<1>1. /\ m \in OtherFrames
      /\ \/ m.type = "manifest-entry" /\ ReceiveEntry(m)
         \/ m.type # "manifest-entry"
      /\ manifest' = manifest
  BY ReceiveCases DEF senderVars
<1>2. manifest \in Manifests /\ received \in Receipts
  BY DEF SenderTypes, ReceiverTypes
<1>3. /\ E \in Nat /\ O \in Nat /\ R \in 0..E /\ Q \in 0..O /\ Taken = 1 + R + Q
      /\ Q # 0 => R = E
      /\ received.entries \in Seq(ManifestEntries) /\ received.omissions \in Seq(Omissions)
      /\ \A i \in 1..R: received.entries[i] = manifest.entries[i]
      /\ \A i \in 1..Q: received.omissions[i] = manifest.omissions[i]
      /\ header = [roots |-> Len(manifest.roots), files |-> manifest.files,
                   folders |-> manifest.folders, bytes |-> manifest.bytes]
  BY OwnProgress
<1>4. R < E /\ received.entries \in Seq(ManifestEntries)
  BY <1>3
<1>5. DOMAIN manifest.entries = 1..E /\ DOMAIN received.entries = 1..R
  BY <1>2, <1>4, ManifestIs
<1>6. m = FramesOf(manifest)[Taken + 1]
  BY OwnNext
<1>7. \A i \in 1..E: FramesOf(manifest)[1 + i] = EntryFrame(manifest.entries[i])
  BY <1>2, FramesAre
<1>8. manifest.entries \in Seq(ManifestEntries) /\ E <= MaxEntries /\ MaxEntries \in Nat
  BY <1>2, ManifestIs, ManifestAssumption DEF WalkInv, CountsOK
<1> HIDE DEF m, E, O, R, Q
<1>9. Q = 0 /\ Taken = 1 + R /\ R + 1 \in 1..E /\ Taken + 1 = 1 + (R + 1) /\ R \in Nat
  BY <1>3, <1>4
<1>10. next \in ManifestEntries /\ m = EntryFrame(next)
  BY <1>5, <1>6, <1>7, <1>8, <1>9
<1> HIDE DEF next
<1>11. /\ m.type = "manifest-entry" /\ Entry(m.path, m.kind, m.size) = next
  <2>1. m.type = "manifest-entry" /\ m.path = next.path /\ m.kind = next.kind /\ m.size = next.size
    BY <1>10 DEF EntryFrame
  <2>2. next = [path |-> next.path, kind |-> next.kind, size |-> next.size]
    BY <1>10 DEF ManifestEntries, ReceivedEntries
  <2> QED BY <2>1, <2>2 DEF Entry
<1>12. R < MaxEntries
  BY <1>4, <1>3, <1>8
<1>13. /\ header' = header /\ verdict' = "collecting"
       /\ received' = [received EXCEPT !.entries = Append(received.entries, next)]
  <2>1. ReceiveEntry(m)
    BY <1>1, <1>11
  <2>2. /\ header' = header
        /\ \/ /\ verdict' = verdict
              /\ received' = [received EXCEPT !.entries = Append(received.entries, Entry(m.path, m.kind, m.size))]
           \/ ~(/\ Len(received.entries) < MaxEntries
                /\ Entry(m.path, m.kind, m.size) \in ManifestEntries)
    BY <1>1, <1>11, <2>1, EntryReceived
  <2> QED BY <1>10, <1>11, <1>12, <2>2 DEF R
<1>14. /\ Append(received.entries, next) \in Seq(ManifestEntries)
       /\ Len(Append(received.entries, next)) = R + 1 /\ DOMAIN Append(received.entries, next) = 1..(R + 1)
       /\ Append(received.entries, next)[R + 1] = next
       /\ \A i \in 1..R: Append(received.entries, next)[i] = received.entries[i]
  BY <1>4, <1>10, AppendIs DEF R
<1>15. received'.entries = Append(received.entries, next) /\ received'.omissions = received.omissions
  BY <1>2, <1>13, <1>14, ReceiptIs
<1>16. Collected'
  <2>1. \A i \in 1..(R + 1): i <= E /\ Append(received.entries, next)[i] = manifest.entries[i]
    <3> SUFFICES ASSUME NEW i \in 1..(R + 1) PROVE i <= E /\ Append(received.entries, next)[i] = manifest.entries[i]
      OBVIOUS
    <3>1. i \in 1..R \/ i = R + 1
      BY <1>9
    <3>2. i <= E
      BY <1>3, <1>9
    <3> QED BY <1>3, <1>14, <3>1, <3>2 DEF next
  <2>2. received.omissions = << >>
    <3>1. Len(received.omissions) = 0
      BY <1>9 DEF Q
    <3> QED BY <1>3, <3>1
  <2>3. \A i \in DOMAIN << >>: FALSE
    OBVIOUS
  <2> QED BY <1>1, <1>3, <1>13, <1>14, <1>15, <2>1, <2>2, <2>3 DEF Collected, E
<1>17. Taken' = Taken + 1
  <2>1. Taken' = 1 + (R + 1) + Q
    BY <1>13, <1>14, <1>15 DEF Taken, Q
  <2> QED BY <1>9, <2>1
<1> QED BY <1>13, <1>16, <1>17

LEMMA OwnOmission ==
    ASSUME SenderTypes, WalkInv, PhaseInv, ReceiverTypes, OwnInv, ApprovedInv, phase \in {"sent", "unsent"},
           Receive, verdict = "collecting", Len(received.entries) = Len(manifest.entries),
           Len(received.omissions) < Len(manifest.omissions)
    PROVE  verdict' = "collecting" /\ Collected' /\ Taken' = Taken + 1
<1> DEFINE m == wire[1]
           E == Len(manifest.entries)
           O == Len(manifest.omissions)
           R == Len(received.entries)
           Q == Len(received.omissions)
           next == manifest.omissions[Q + 1]
<1>1. /\ m \in OtherFrames
      /\ \/ m.type = "manifest-omission" /\ ReceiveOmission(m)
         \/ m.type # "manifest-omission"
      /\ manifest' = manifest
  BY ReceiveCases DEF senderVars
<1>2. manifest \in Manifests /\ received \in Receipts
  BY DEF SenderTypes, ReceiverTypes
<1>3. /\ E \in Nat /\ O \in Nat /\ R \in 0..E /\ Q \in 0..O /\ Taken = 1 + R + Q
      /\ received.entries \in Seq(ManifestEntries) /\ received.omissions \in Seq(Omissions)
      /\ \A i \in 1..R: received.entries[i] = manifest.entries[i]
      /\ \A i \in 1..Q: received.omissions[i] = manifest.omissions[i]
      /\ header = [roots |-> Len(manifest.roots), files |-> manifest.files,
                   folders |-> manifest.folders, bytes |-> manifest.bytes]
  BY OwnProgress
<1>4. R = E /\ Q < O /\ received.omissions \in Seq(Omissions)
  BY <1>3
<1>5. DOMAIN received.entries = 1..R /\ manifest.omissions \in Seq(Omissions)
  BY <1>2, <1>3, ManifestIs
<1>6. m = FramesOf(manifest)[Taken + 1]
  BY OwnNext
<1>7. \A i \in 1..O: FramesOf(manifest)[1 + E + i] = OmissionFrame(manifest.omissions[i])
  BY <1>2, FramesAre
<1>8. DOMAIN manifest.omissions = 1..O /\ O <= MaxOmissions /\ MaxOmissions \in Nat
  BY <1>5, ManifestAssumption DEF WalkInv, CountsOK
<1> HIDE DEF m, E, O, R, Q
<1>9. Q + 1 \in 1..O /\ Taken + 1 = 1 + E + (Q + 1) /\ Q \in Nat
  BY <1>3, <1>4
<1>10. next \in Omissions /\ m = OmissionFrame(next)
  <2>1. manifest.omissions[Q + 1] \in Omissions
    <3>1. \A i \in DOMAIN manifest.omissions: manifest.omissions[i] \in Omissions
      BY <1>5
    <3> QED BY <1>8, <1>9, <3>1
  <2>2. FramesOf(manifest)[1 + E + (Q + 1)] = OmissionFrame(manifest.omissions[Q + 1])
    BY <1>7, <1>9
  <2> QED BY <1>6, <1>9, <2>1, <2>2
<1> HIDE DEF next
<1>11. m.type = "manifest-omission" /\ [path |-> m.path] = next /\ validateManifestPath(m.path)
  <2>1. m.type = "manifest-omission" /\ m.path = next.path
    BY <1>10 DEF OmissionFrame
  <2>2. next = [path |-> next.path] /\ validateManifestPath(next.path)
    BY <1>10 DEF Omissions
  <2> QED BY <2>1, <2>2
<1>12. Q < MaxOmissions
  BY <1>3, <1>4, <1>8
<1>13. /\ header' = header /\ verdict' = "collecting"
       /\ received' = [received EXCEPT !.omissions = Append(received.omissions, next)]
  <2>1. ReceiveOmission(m)
    BY <1>1, <1>11
  <2>2. /\ header' = header
        /\ \/ /\ verdict' = verdict
              /\ received' = [received EXCEPT !.omissions = Append(received.omissions, [path |-> m.path])]
           \/ ~(Len(received.omissions) < MaxOmissions /\ validateManifestPath(m.path))
    BY <1>1, <1>11, <2>1, OmissionReceived
  <2> QED BY <1>11, <1>12, <2>2 DEF Q
<1>14. /\ Append(received.omissions, next) \in Seq(Omissions)
       /\ Len(Append(received.omissions, next)) = Q + 1 /\ DOMAIN Append(received.omissions, next) = 1..(Q + 1)
       /\ Append(received.omissions, next)[Q + 1] = next
       /\ \A i \in 1..Q: Append(received.omissions, next)[i] = received.omissions[i]
  BY <1>4, <1>10, AppendIs DEF Q
<1>15. received'.omissions = Append(received.omissions, next) /\ received'.entries = received.entries
  BY <1>2, <1>13, <1>14, ReceiptIs
<1>16. Collected'
  <2>1. \A i \in 1..(Q + 1): i <= O /\ Append(received.omissions, next)[i] = manifest.omissions[i]
    <3> SUFFICES ASSUME NEW i \in 1..(Q + 1) PROVE i <= O /\ Append(received.omissions, next)[i] = manifest.omissions[i]
      OBVIOUS
    <3>1. i \in 1..Q \/ i = Q + 1
      BY <1>9
    <3>2. i <= O
      BY <1>3, <1>9
    <3> QED BY <1>3, <1>14, <3>1, <3>2 DEF next
  <2>2. \A i \in 1..R: i <= E /\ received.entries[i] = manifest.entries[i]
    <3>1. \A i \in 1..R: i <= E
      BY <1>3
    <3> QED BY <1>3, <3>1
  <2>3. Len(received'.entries) = Len(manifest.entries)
    BY <1>4, <1>15 DEF R, E
  <2> QED BY <1>1, <1>3, <1>5, <1>13, <1>14, <1>15, <2>1, <2>2, <2>3 DEF Collected, E, O
<1>17. Taken' = Taken + 1
  <2>1. Taken' = 1 + R + (Q + 1)
    BY <1>13, <1>14, <1>15 DEF Taken, R
  <2> QED BY <1>3, <1>9, <2>1
<1> QED BY <1>13, <1>16, <1>17

LEMMA SameFunction ==
    ASSUME NEW D, NEW S, NEW f \in [D -> S], NEW g \in [D -> S], \A i \in D: f[i] = g[i]
    PROVE  f = g
OBVIOUS

\* The last frame: the review, or the refusal of a root that was omitted.
LEMMA OwnComplete ==
    ASSUME SenderTypes, WalkInv, PhaseInv, ReceiverTypes, OwnInv, ApprovedInv, phase \in {"sent", "unsent"},
           Receive, verdict = "collecting", Len(received.entries) = Len(manifest.entries),
           ~(Len(received.omissions) < Len(manifest.omissions))
    PROVE  /\ verdict' = "refused" => RootOmitted
           /\ verdict' # "refused" => verdict' = "reviewed" /\ received'.entries = manifest'.entries
<1> DEFINE m == wire[1]
           E == Len(manifest.entries)
           O == Len(manifest.omissions)
           R == Len(received.entries)
           Q == Len(received.omissions)
<1>1. /\ m.type = "offer-complete" => ReceiveComplete
      /\ manifest' = manifest
  BY ReceiveCases DEF senderVars
<1>2. manifest \in Manifests /\ received \in Receipts
  BY DEF SenderTypes, ReceiverTypes
<1>3. /\ E \in Nat /\ O \in Nat /\ R \in 0..E /\ Q \in 0..O /\ Taken = 1 + R + Q
      /\ received.entries \in Seq(ManifestEntries)
      /\ \A i \in 1..R: received.entries[i] = manifest.entries[i]
      /\ header = [roots |-> Len(manifest.roots), files |-> manifest.files,
                   folders |-> manifest.folders, bytes |-> manifest.bytes]
  BY OwnProgress
<1>4. R = E /\ ~(Q < O)
  OBVIOUS
<1>5. m = FramesOf(manifest)[Taken + 1]
  BY OwnNext
<1>6. FramesOf(manifest)[E + O + 2] = CompleteFrame
  BY <1>2, FramesAre
<1>7. /\ manifest.entries \in Seq(ManifestEntries) /\ manifest.entries \in Seq(ReceivedEntries)
      /\ DOMAIN manifest.entries = 1..E
      /\ \A i \in DOMAIN manifest.entries: IsPath(manifest.entries[i].path) /\ manifest.entries[i].path \in Paths
      /\ CountsOK(manifest) /\ EntriesOK(manifest)
      /\ RootsOK(arguments, nextRoot, manifest, << >>)
      /\ manifest.bytes \in 0..MaxTotal
  BY <1>2, ManifestIs DEF WalkInv, PhaseInv, Manifests
<1>8. received.entries = manifest.entries
  <2>1. received.entries \in [1..E -> ManifestEntries] /\ manifest.entries \in [1..E -> ManifestEntries]
    BY <1>3, <1>4, <1>7
  <2>2. \A i \in 1..E: received.entries[i] = manifest.entries[i]
    BY <1>3, <1>4
  <2> QED BY <2>1, <2>2, SameFunction
<1> HIDE DEF m, E, O, R, Q
<1>9. Taken + 1 = E + O + 2
  BY <1>3, <1>4
<1>10. ReceiveComplete
  <2>1. m = CompleteFrame
    BY <1>5, <1>6, <1>9
  <2> QED BY <1>1, <2>1 DEF CompleteFrame
<1> DEFINE scan == ScanEntries(received.entries, header.bytes)
           parents == \A i \in DOMAIN received.entries: ParentsAreFolders(received.entries, received.entries[i])
<1>11. header.bytes >= 0 /\ header.roots > 0
  BY DEF ApprovedInv
<1>12. /\ received' = [received EXCEPT !.roots = scan.roots] /\ scan.roots \in Seq(Names)
       /\ \/ /\ verdict' = "refused"
             /\ ~(/\ scan.ok /\ parents
                  /\ Count(received.entries, manifestFile) = header.files
                  /\ Count(received.entries, manifestFolder) = header.folders
                  /\ scan.bytes = header.bytes
                  /\ Len(scan.roots) = header.roots)
          \/ verdict' = "reviewed"
  BY <1>10, <1>11, CompleteReceived
<1>13. /\ header.bytes = manifest.bytes /\ header.roots = Len(manifest.roots)
       /\ header.files = manifest.files /\ header.folders = manifest.folders
  BY <1>3
<1>14. /\ manifest.files = Count(manifest.entries, manifestFile)
       /\ manifest.folders = Count(manifest.entries, manifestFolder)
       /\ manifest.bytes = TotalSize(manifest.entries)
  BY <1>7 DEF CountsOK
<1>15. scan.ok /\ scan.bytes = header.bytes /\ Len(scan.roots) = Cardinality(TopLevel(manifest.entries, E))
  <2>1. scan = ScanEntries(manifest.entries, manifest.bytes)
    BY <1>8, <1>13
  <2>2. KeysDiffer(manifest.entries, Len(manifest.entries))
    BY <1>7 DEF EntriesOK
  <2>3. ScanEntries(manifest.entries, manifest.bytes).ok
    BY <1>7, <1>14, <2>2, ScanSucceeds
  <2> HIDE DEF scan
  <2>4. scan.bytes = TotalSize(manifest.entries) /\ RootsAre(scan.roots, manifest.entries, Len(manifest.entries))
    BY <1>7, <2>1, <2>3, ScanIs
  <2> QED BY <1>13, <1>14, <2>1, <2>3, <2>4 DEF RootsAre, E
<1>16. parents
  <2> SUFFICES ASSUME NEW i \in 1..E, NEW parent \in Ancestors(manifest.entries[i].path)
               PROVE  \E j \in 1..E: /\ manifestPathKey(manifest.entries[j].path) = manifestPathKey(parent)
                                     /\ manifest.entries[j].kind = manifestFolder
    BY <1>7, <1>8 DEF ParentsAreFolders
  <2>1. HasFolder(manifest.entries, i - 1, parent)
    BY <1>7 DEF EntriesOK
  <2>2. PICK j \in 1..(i - 1): manifest.entries[j].path = parent /\ manifest.entries[j].kind = manifestFolder
    BY <2>1 DEF HasFolder
  <2>3. j \in 1..E
    BY <1>3
  <2> QED BY <2>2, <2>3
<1>17. ~RootOmitted => Len(manifest.roots) = Cardinality(TopLevel(manifest.entries, E))
  BY <1>2, <1>7, OwnRoots DEF RootOmitted, E
<1> HIDE DEF scan, parents
<1>18. verdict' = "refused" => RootOmitted
  BY <1>8, <1>12, <1>13, <1>14, <1>15, <1>16, <1>17
<1>19. received'.entries = received.entries
  BY <1>2, <1>12, ReceiptIs
<1> QED BY <1>1, <1>8, <1>12, <1>18, <1>19

\* Every frame of an offer of this program.
LEMMA OwnReceived ==
    ASSUME SenderTypes, WalkInv, PhaseInv, ReceiverTypes, OwnInv, UnsentInv, ApprovedInv, Receive
    PROVE  OwnInv' /\ UnsentInv'
<1>1. manifest' = manifest /\ phase' = phase /\ verdict \in {"none", "collecting"}
  BY ReceiveCases DEF senderVars
<1>2. UnsentInv'
  BY <1>1 DEF UnsentInv
<1>3. CASE phase \in {"sent", "unsent"}
  <2>1. Taken' = Taken + 1 => UnderWay'
    BY <1>3, OwnNext
  <2>2. RootOmitted' = RootOmitted
    BY <1>1 DEF RootOmitted
  <2>3. \/ verdict' = "refused" /\ RootOmitted
        \/ verdict' = "collecting" /\ Collected' /\ Taken' = Taken + 1
        \/ verdict' = "reviewed" /\ received'.entries = manifest'.entries
    <3>1. CASE verdict = "none"
      BY <1>3, <3>1, OwnOffer
    <3>2. CASE verdict = "collecting" /\ Len(received.entries) < Len(manifest.entries)
      BY <1>3, <3>2, OwnEntry
    <3>3. ASSUME verdict = "collecting", ~(Len(received.entries) < Len(manifest.entries))
          PROVE  Len(received.entries) = Len(manifest.entries)
      <4>1. Len(received.entries) \in 0..Len(manifest.entries) /\ Len(manifest.entries) \in Nat
        BY <1>3, <3>3, OwnProgress
      <4> QED BY ONLY <3>3, <4>1
    <3>4. CASE /\ verdict = "collecting" /\ ~(Len(received.entries) < Len(manifest.entries))
               /\ Len(received.omissions) < Len(manifest.omissions)
      BY <1>3, <3>3, <3>4, OwnOmission
    <3>5. CASE /\ verdict = "collecting" /\ ~(Len(received.entries) < Len(manifest.entries))
               /\ ~(Len(received.omissions) < Len(manifest.omissions))
      BY <1>3, <3>3, <3>5, OwnComplete
    <3> QED BY <1>1, <3>1, <3>2, <3>4, <3>5
  <2>4. /\ verdict' = "refused" => RootOmitted'
        /\ verdict' \in {"none", "collecting"} => Collected' /\ UnderWay'
        /\ Approved' => received'.entries = manifest'.entries
    <3>1. Approved' => verdict' = "reviewed" \/ verdict' \notin {"refused", "collecting"}
      BY DEF Approved
    <3> QED BY <2>1, <2>2, <2>3, <3>1
  <2>7. OwnInv'
    BY <2>4 DEF OwnInv
  <2> QED BY <1>2, <2>7
<1>4. CASE phase \notin {"sent", "unsent"}
  <2>1. OwnInv'
    BY <1>1, <1>4 DEF OwnInv
  <2> QED BY <1>2, <2>1
<1> QED BY <1>3, <1>4

---------------------------------------------------------------------------
(* Final names and folders                                                 *)

LEMMA KeysAre ==
    /\ \A x: manifestPathKey(x) = [i \in DOMAIN x |-> Key(x[i])]
    /\ \A x \in Paths, y \in Paths:
         manifestPathKey(x) = manifestPathKey(y) <=> Len(x) = Len(y) /\ \A i \in 1..Len(y): Key(x[i]) = Key(y[i])
<1>1. \A n: Key(n) = [n EXCEPT ![1] = Fold[@]]
  BY DEF Key, manifestPathKey
<1>2. \A x: manifestPathKey(x) = [i \in DOMAIN x |-> Key(x[i])]
  BY <1>1 DEF manifestPathKey
<1>3. ASSUME NEW x \in Paths, NEW y \in Paths
      PROVE  manifestPathKey(x) = manifestPathKey(y) <=> Len(x) = Len(y) /\ \A i \in 1..Len(y): Key(x[i]) = Key(y[i])
  <2>1. DOMAIN x = 1..Len(x) /\ DOMAIN y = 1..Len(y) /\ Len(x) \in Nat /\ Len(y) \in Nat
    BY DEF Paths
  <2>2. manifestPathKey(x) = [i \in 1..Len(x) |-> Key(x[i])] /\ manifestPathKey(y) = [i \in 1..Len(y) |-> Key(y[i])]
    BY <1>2, <2>1
  <2>3. ASSUME manifestPathKey(x) = manifestPathKey(y) PROVE Len(x) = Len(y) /\ \A i \in 1..Len(y): Key(x[i]) = Key(y[i])
    <3>1. 1..Len(x) = 1..Len(y)
      BY <2>2, <2>3
    <3>2. Len(x) = Len(y)
      <4>1. \A m, n \in Nat: m # 0 /\ n # 0 /\ 1..m = 1..n => m \in 1..n /\ n \in 1..m
        OBVIOUS
      <4>2. Len(x) # 0 /\ Len(y) # 0
        BY DEF Paths
      <4>3. Len(x) \in 1..Len(y) /\ Len(y) \in 1..Len(x)
        BY <2>1, <3>1, <4>1, <4>2
      <4>4. \A m, n \in Nat: m \in 1..n /\ n \in 1..m => m = n
        OBVIOUS
      <4> QED BY ONLY <2>1, <4>3, <4>4, Zenon
    <3>3. \A i \in 1..Len(y): manifestPathKey(x)[i] = Key(x[i]) /\ manifestPathKey(y)[i] = Key(y[i])
      BY <2>2, <3>2
    <3> QED BY <2>3, <3>2, <3>3
  <2> QED BY <2>2, <2>3
<1> QED BY <1>2, <1>3

\* The names that the roots of an approved offer get.
NamesFree(roots, F, names) ==
    /\ DOMAIN F = DOMAIN roots
    /\ \A i \in DOMAIN F: F[i] \in Names /\ \A n \in names: Key(F[i]) # Key(n)
    /\ \A i, j \in DOMAIN F: Key(F[i]) = Key(F[j]) => i = j

LEMMA ResolvedRoots ==
    ASSUME NEW roots \in Seq(Names), NEW names, IsFiniteSet(names), names \subseteq Names, NEW all,
           NEW F \in resolveRoots(roots, {Key(n): n \in names}, all), << >> \notin ToSet(F)
    PROVE  NamesFree(roots, F, names)
<1> DEFINE reserved == {Key(n): n \in names}
           before(i) == {j \in DOMAIN roots: j < i}
           taken(i) == reserved \cup {Key(F[j]): j \in before(i)}
<1>1. DOMAIN F = DOMAIN roots /\ \A i \in DOMAIN roots: ResolvedRoot(F, roots, reserved, i)
  BY DEF resolveRoots
<1>2. \A i \in DOMAIN F: F[i] # << >>
  BY DEF ToSet
<1>3. \A i \in DOMAIN roots: F[i] = resolveFinalPath(roots[i], taken(i))
  BY <1>1, <1>2 DEF ResolvedRoot
<1>4. IsFiniteSet(reserved)
  <2> DEFINE k == [n \in names |-> Key(n)]
             img == {k[n]: n \in names}
  <2>1. k \in Surjection(names, img)
    BY DEF Surjection
  <2>2. img = reserved
    OBVIOUS
  <2> HIDE DEF k, img
  <2>3. IsFiniteSet(img)
    BY <2>1, FS_Surjection
  <2> HIDE DEF reserved
  <2> QED BY <2>2, <2>3
<1>5. \A i \in DOMAIN roots: IsFiniteSet(taken(i))
  <2> SUFFICES ASSUME NEW i \in DOMAIN roots PROVE IsFiniteSet(taken(i))
    OBVIOUS
  <2> DEFINE B == before(i)
             k == [j \in B |-> Key(F[j])]
             img == {k[j]: j \in B}
  <2>1. IsFiniteSet(B)
    <3>1. DOMAIN roots = 1..Len(roots) /\ Len(roots) \in Int
      OBVIOUS
    <3>2. IsFiniteSet(1..Len(roots))
      BY <3>1, FS_Interval
    <3>3. B \subseteq 1..Len(roots)
      BY <3>1
    <3> HIDE DEF B
    <3> QED BY <3>2, <3>3, FS_Subset
  <2>2. k \in Surjection(B, img)
    BY DEF Surjection
  <2>3. taken(i) = reserved \cup img
    OBVIOUS
  <2> HIDE DEF k, B, img
  <2>4. IsFiniteSet(img)
    BY <2>1, <2>2, FS_Surjection
  <2> HIDE DEF reserved, taken
  <2> QED BY <1>4, <2>3, <2>4, FS_Union
<1>6. \A i \in DOMAIN roots: Key(F[i]) \notin taken(i) /\ F[i] \in Names
  <2> SUFFICES ASSUME NEW i \in DOMAIN roots PROVE Key(F[i]) \notin taken(i) /\ F[i] \in Names
    OBVIOUS
  <2>1. roots[i] \in Names
    OBVIOUS
  <2>2. F[i] = resolveFinalPath(roots[i], taken(i)) /\ IsFiniteSet(taken(i)) /\ F[i] # << >>
    BY <1>1, <1>2, <1>3, <1>5
  <2> DEFINE t == taken(i)
             r == roots[i]
  <2> HIDE DEF t, r, reserved, taken
  <2>3. Key(resolveFinalPath(r, t)) \notin t /\ resolveFinalPath(r, t) \in Names
    BY <2>1, <2>2, ResolvedIsFree DEF t, r
  <2> QED BY <2>2, <2>3 DEF t, r
<1>7. \A i \in DOMAIN roots: (\A n \in names: Key(F[i]) # Key(n)) /\ \A j \in DOMAIN roots: j < i => Key(F[i]) # Key(F[j])
  <2> SUFFICES ASSUME NEW i \in DOMAIN roots
               PROVE  (\A n \in names: Key(F[i]) # Key(n)) /\ \A j \in DOMAIN roots: j < i => Key(F[i]) # Key(F[j])
    OBVIOUS
  <2>1. Key(F[i]) \notin reserved /\ Key(F[i]) \notin {Key(F[j]): j \in before(i)}
    BY <1>6
  <2> QED BY <2>1
<1>8. \A i, j \in DOMAIN roots: Key(F[i]) = Key(F[j]) => i = j
  <2> SUFFICES ASSUME NEW i \in DOMAIN roots, NEW j \in DOMAIN roots, Key(F[i]) = Key(F[j]) PROVE i = j
    OBVIOUS
  <2>1. i \in Nat /\ j \in Nat
    OBVIOUS
  <2>2. ~(i < j) /\ ~(j < i)
    BY <1>7
  <2> QED BY <2>1, <2>2
<1> QED BY <1>1, <1>6, <1>7, <1>8 DEF NamesFree

\* The root that a path of the offer is in.
RootNo(roots, path) == CHOOSE k \in DOMAIN roots: Key(roots[k]) = Key(path[1])

LEMMA RootNoIs ==
    ASSUME NEW entries \in Seq(ManifestEntries), NEW roots \in Seq(Names), RootsAre(roots, entries, Len(entries)),
           NEW i \in DOMAIN entries, ParentsAreFolders(entries, entries[i])
    PROVE  LET path == entries[i].path IN
           /\ path \in Paths
           /\ RootNo(roots, path) \in DOMAIN roots /\ Key(roots[RootNo(roots, path)]) = Key(path[1])
<1> DEFINE path == entries[i].path
<1>1. \A j \in DOMAIN entries: entries[j].path \in Paths /\ IsPath(entries[j].path)
  <2>1. \A j \in DOMAIN entries: entries[j] \in ReceivedEntries
    BY DEF ManifestEntries
  <2> QED BY <2>1, EntryIs, PathIs
<1>2. path \in Paths /\ Len(path) \in Nat \ {0} /\ DOMAIN entries = 1..Len(entries)
  BY <1>1 DEF Paths
<1>3. PICK j \in DOMAIN entries: Len(entries[j].path) = 1 /\ Key(entries[j].path[1]) = Key(path[1])
  <2>1. CASE Len(path) = 1
    BY <2>1
  <2>2. CASE Len(path) # 1
    <3>1. Root(path) \in Ancestors(path) /\ Root(path) \in Paths /\ Len(Root(path)) = 1
      BY <1>2, <2>2, RootIs
    <3>2. PICK j \in DOMAIN entries: manifestPathKey(entries[j].path) = manifestPathKey(Root(path))
      BY <3>1 DEF ParentsAreFolders
    <3>3. Len(entries[j].path) = 1 /\ \A k \in 1..1: Key(entries[j].path[k]) = Key(Root(path)[k])
      BY <1>1, <3>1, <3>2, KeysAre
    <3>4. Root(path)[1] = path[1]
      BY DEF Root
    <3>5. 1 \in 1..1
      OBVIOUS
    <3> QED BY <3>3, <3>4, <3>5
  <2> QED BY <2>1, <2>2
<1>4. PICK k \in DOMAIN roots: roots[k] = entries[j].path[1]
  BY <1>2, <1>3 DEF RootsAre, IsTopLevel
<1>5. \E n \in DOMAIN roots: Key(roots[n]) = Key(path[1])
  BY <1>3, <1>4
<1> HIDE DEF path
<1>6. RootNo(roots, path) \in DOMAIN roots /\ Key(roots[RootNo(roots, path)]) = Key(path[1])
  BY <1>5 DEF RootNo
<1> QED BY <1>2, <1>6 DEF path

\* A final path: the final name of the root, and the rest of the path.
LEMMA FinalIs ==
    ASSUME NEW roots \in Seq(Names), NEW F, NEW names, NamesFree(roots, F, names),
           NEW path \in Paths, RootNo(roots, path) \in DOMAIN roots
    PROVE  LET x == incomingPath(roots, F, path) IN
           /\ x \in Paths /\ Len(x) = Len(path)
           /\ x[1] = F[RootNo(roots, path)] /\ x[1] \in Names
           /\ \A k \in 2..Len(path): x[k] = path[k]
<1> DEFINE n == F[RootNo(roots, path)]
<1>1. n \in Names /\ n \in Seq(Nat)
  BY DEF NamesFree, Names
<1>2. incomingPath(roots, F, path) = [path EXCEPT ![1] = n]
  BY DEF incomingPath, FinalOf, RootNo
<1> HIDE DEF n
<1>3. path \in Seq(Seq(Nat)) /\ path # << >> /\ 1 \in 1..Len(path)
  BY DEF Paths
<1>4. [path EXCEPT ![1] = n] \in Seq(Seq(Nat)) /\ Len([path EXCEPT ![1] = n]) = Len(path)
  BY <1>1, <1>3
<1>5. [path EXCEPT ![1] = n][1] = n /\ \A k \in 2..Len(path): [path EXCEPT ![1] = n][k] = path[k]
  BY <1>3
<1>6. [path EXCEPT ![1] = n] # << >>
  <2>1. Len([path EXCEPT ![1] = n]) # 0
    BY <1>3, <1>4
  <2>2. Len(<< >>) = 0
    OBVIOUS
  <2> QED BY <2>1, <2>2
<1> QED BY <1>1, <1>2, <1>4, <1>5, <1>6 DEF n, Paths

\* Paths of the offer with the same final path, up to case, are the same up to case.
LEMMA FinalsDiffer ==
    ASSUME NEW roots \in Seq(Names), NEW F, NEW names, NamesFree(roots, F, names),
           NEW x \in Paths, NEW y \in Paths,
           RootNo(roots, x) \in DOMAIN roots, Key(roots[RootNo(roots, x)]) = Key(x[1]),
           RootNo(roots, y) \in DOMAIN roots, Key(roots[RootNo(roots, y)]) = Key(y[1])
    PROVE  manifestPathKey(incomingPath(roots, F, x)) = manifestPathKey(incomingPath(roots, F, y))
               <=> manifestPathKey(x) = manifestPathKey(y)
<1> DEFINE fx == incomingPath(roots, F, x)
           fy == incomingPath(roots, F, y)
<1>1. fx \in Paths /\ Len(fx) = Len(x) /\ fx[1] = F[RootNo(roots, x)] /\ \A k \in 2..Len(x): fx[k] = x[k]
  BY FinalIs
<1>2. fy \in Paths /\ Len(fy) = Len(y) /\ fy[1] = F[RootNo(roots, y)] /\ \A k \in 2..Len(y): fy[k] = y[k]
  BY FinalIs
<1> HIDE DEF fx, fy
<1>3. Key(fx[1]) = Key(fy[1]) <=> Key(x[1]) = Key(y[1])
  <2>1. Key(fx[1]) = Key(fy[1]) => RootNo(roots, x) = RootNo(roots, y)
    BY <1>1, <1>2 DEF NamesFree
  <2>2. Key(x[1]) = Key(y[1]) => RootNo(roots, x) = RootNo(roots, y)
    BY DEF RootNo
  <2> QED BY <1>1, <1>2, <2>1, <2>2
<1>4. Len(x) \in Nat \ {0} /\ Len(y) \in Nat \ {0}
  BY DEF Paths
<1>5. manifestPathKey(fx) = manifestPathKey(fy) <=> Len(x) = Len(y) /\ \A k \in 1..Len(y): Key(fx[k]) = Key(fy[k])
  BY <1>1, <1>2, KeysAre
<1>6. manifestPathKey(x) = manifestPathKey(y) <=> Len(x) = Len(y) /\ \A k \in 1..Len(y): Key(x[k]) = Key(y[k])
  BY KeysAre
<1>7. ASSUME Len(x) = Len(y), NEW k \in 1..Len(y) PROVE Key(fx[k]) = Key(fy[k]) <=> Key(x[k]) = Key(y[k])
  <2>1. k = 1 \/ k \in 2..Len(y)
    BY <1>4
  <2> QED BY <1>1, <1>2, <1>3, <1>7, <2>1
<1> QED BY <1>5, <1>6, <1>7 DEF fx, fy

\* The review names the roots.
LEMMA ReviewStep ==
    ASSUME ReceiverTypes, PhaseInv, ReceiverInv, Review
    PROVE  PhaseInv' /\ ReceiverTypes' /\ ReceiverInv'
<1>1. PICK names \in Listings, sensitive \in BOOLEAN:
        \E resolved \in resolveRoots(received.roots, {Key(n): n \in names}, FinalNames):
            /\ listing' = names /\ caseSensitive' = sensitive
            /\ finals' = resolved
            /\ verdict' = IF << >> \in ToSet(resolved) THEN "unresolved" ELSE verdict
  BY DEF Review
<1>2. /\ finals' \in resolveRoots(received.roots, {Key(n): n \in names}, FinalNames)
      /\ listing' = names /\ caseSensitive' = sensitive
      /\ verdict' = IF << >> \in ToSet(finals') THEN "unresolved" ELSE verdict
  BY <1>1
<1>3. /\ verdict = "reviewed" /\ finals = << >>
      /\ wire' = wire /\ header' = header /\ received' = received /\ made' = made
      /\ arguments' = arguments /\ phase' = phase /\ manifest' = manifest
      /\ nextRoot' = nextRoot /\ pending' = pending
  BY DEF Review, senderVars
<1>4. verdict' \in {"reviewed", "unresolved"}
  BY <1>2, <1>3
<1>5. received.roots \in Seq(Names)
  BY ReceiptIs DEF ReceiverTypes
<1>6. verdict' # "unresolved" => NamesFree(received'.roots, finals', listing')
  <2>1. IsFiniteSet(names) /\ names \subseteq Names
    BY OffersAssumption
  <2>2. verdict' # "unresolved" => << >> \notin ToSet(finals')
    BY <1>2
  <2>3. << >> \notin ToSet(finals') => NamesFree(received.roots, finals', names)
    BY <1>2, <1>5, <2>1, ResolvedRoots
  <2> QED BY <1>2, <1>3, <2>2, <2>3
<1>7. ReceiverTypes'
  BY <1>2, <1>3, <1>4 DEF ReceiverTypes
<1>8. PhaseInv'
  BY <1>3, <1>4 DEF PhaseInv
<1>9. OwnInv' /\ UnsentInv'
  <2>1. phase \in {"sent", "unsent"} => received.entries = manifest.entries
    BY <1>3 DEF ReceiverInv, OwnInv, Approved
  <2> QED BY <1>3, <1>4, <2>1 DEF ReceiverInv, OwnInv, UnsentInv
<1>10. ApprovedInv'
  BY <1>3, <1>4 DEF ReceiverInv, ApprovedInv, Approved
<1>11. FinalsInv'
  <2>1. made' = {}
    BY <1>3 DEF ReceiverInv, FinalsInv
  <2>2. Approved'
    BY <1>4 DEF Approved
  <2> QED BY <1>4, <1>6, <2>1, <2>2 DEF FinalsInv, NamesFree
<1>12. PreparedInv'
  BY <1>3, <1>4 DEF ReceiverInv, PreparedInv
<1> QED BY <1>7, <1>8, <1>9, <1>10, <1>11, <1>12 DEF ReceiverInv

\* The entries of an approved offer, with the roots they are in.
LEMMA ApprovedEntries ==
    ASSUME ReceiverTypes, ApprovedInv, Approved
    PROVE  /\ received.entries \in Seq(ManifestEntries) /\ received.roots \in Seq(Names)
           /\ \A i \in DOMAIN received.entries:
                LET path == received.entries[i].path IN
                /\ path \in Paths
                /\ RootNo(received.roots, path) \in DOMAIN received.roots
                /\ Key(received.roots[RootNo(received.roots, path)]) = Key(path[1])
           /\ \A i, j \in DOMAIN received.entries:
                manifestPathKey(received.entries[i].path) = manifestPathKey(received.entries[j].path) => i = j
<1>1. received.entries \in Seq(ManifestEntries) /\ received.roots \in Seq(Names)
  BY ReceiptIs DEF ReceiverTypes
<1>2. /\ KeysDiffer(received.entries, Len(received.entries))
      /\ RootsAre(received.roots, received.entries, Len(received.entries))
      /\ \A i \in DOMAIN received.entries: ParentsAreFolders(received.entries, received.entries[i])
  BY DEF ApprovedInv
<1>3. DOMAIN received.entries = 1..Len(received.entries)
  BY <1>1
<1>4. ASSUME NEW i \in DOMAIN received.entries
      PROVE  LET path == received.entries[i].path IN
                /\ path \in Paths
                /\ RootNo(received.roots, path) \in DOMAIN received.roots
                /\ Key(received.roots[RootNo(received.roots, path)]) = Key(path[1])
  BY <1>1, <1>2, RootNoIs
<1>5. \A i, j \in DOMAIN received.entries:
         manifestPathKey(received.entries[i].path) = manifestPathKey(received.entries[j].path) => i = j
  BY <1>2, <1>3 DEF KeysDiffer
<1> QED BY <1>1, <1>4, <1>5

\* Two entries have different final paths, even without case.
LEMMA FinalsApart ==
    ASSUME ReceiverTypes, ApprovedInv, Approved, NamesFree(received.roots, finals, listing),
           NEW i \in DOMAIN received.entries, NEW j \in DOMAIN received.entries,
           manifestPathKey(Final(received.entries[i].path)) = manifestPathKey(Final(received.entries[j].path))
    PROVE  i = j
<1> DEFINE x == received.entries[i].path
           y == received.entries[j].path
           roots == received.roots
<1>1. /\ x \in Paths /\ RootNo(roots, x) \in DOMAIN roots /\ Key(roots[RootNo(roots, x)]) = Key(x[1])
      /\ y \in Paths /\ RootNo(roots, y) \in DOMAIN roots /\ Key(roots[RootNo(roots, y)]) = Key(y[1])
      /\ roots \in Seq(Names)
  BY ApprovedEntries
<1>2. manifestPathKey(incomingPath(roots, finals, x)) = manifestPathKey(incomingPath(roots, finals, y))
  BY DEF Final
<1>3. NamesFree(roots, finals, listing)
  OBVIOUS
<1>4. manifestPathKey(x) = manifestPathKey(y)
  <2> HIDE DEF x, y, roots
  <2> QED BY <1>1, <1>2, <1>3, FinalsDiffer
<1> QED BY <1>4, ApprovedEntries

\* A folder of the offer that a final path is in, as the disk knows it.
LEMMA ParentThere ==
    ASSUME SenderTypes, ReceiverTypes, PhaseInv, WalkInv, OwnInv, ApprovedInv, Approved,
           NamesFree(received.roots, finals, listing),
           caseSensitive => phase # "other",
           NEW i \in DOMAIN received.entries, NEW parent \in Ancestors(Final(received.entries[i].path))
    PROVE  \E j \in DOMAIN received.entries:
               /\ received.entries[j].kind = manifestFolder
               /\ Len(received.entries[j].path) < Len(received.entries[i].path)
               /\ OnDisk(Final(received.entries[j].path)) = OnDisk(parent)
<1> DEFINE es == received.entries
           roots == received.roots
           path == es[i].path
           x == Final(path)
           z == SubSeq(path, 1, Len(parent))
<1>1. \A j \in DOMAIN es: /\ es[j].path \in Paths /\ RootNo(roots, es[j].path) \in DOMAIN roots
                          /\ Key(roots[RootNo(roots, es[j].path)]) = Key(es[j].path[1])
  BY ApprovedEntries
<1>2. roots \in Seq(Names)
  BY ApprovedEntries
<1>3. \A j \in DOMAIN es: LET y == Final(es[j].path) IN
        /\ y \in Paths /\ Len(y) = Len(es[j].path)
        /\ y[1] = finals[RootNo(roots, es[j].path)]
        /\ \A k \in 2..Len(es[j].path): y[k] = es[j].path[k]
  BY <1>1, <1>2, FinalIs DEF Final
<1>4. /\ path \in Paths /\ x \in Paths /\ Len(x) = Len(path)
      /\ x[1] = finals[RootNo(roots, path)] /\ \A k \in 2..Len(path): x[k] = path[k]
  BY <1>1, <1>3
<1>5. /\ parent \in Paths /\ Len(parent) \in 1..(Len(path) - 1) /\ parent[1] = x[1]
      /\ \A k \in 1..Len(parent): parent[k] = x[k]
  BY <1>4, AncestorIs
<1>6. z \in Ancestors(path)
  BY <1>5 DEF Ancestors
<1>7. z \in Paths /\ Len(z) = Len(parent) /\ z[1] = path[1] /\ \A k \in 1..Len(z): z[k] = path[k]
  <2>1. path \in Seq(Seq(Nat)) /\ Len(parent) \in 1..Len(path)
    BY <1>4, <1>5 DEF Paths
  <2>2. Len(z) = Len(parent)
    BY <2>1
  <2> QED BY <1>4, <1>6, <2>2, AncestorIs
<1>8. \A k \in 2..Len(parent): parent[k] = z[k]
  <2>1. Len(path) \in Nat
    BY <1>4 DEF Paths
  <2> HIDE DEF z, x, path
  <2> QED BY <1>4, <1>5, <1>7, <2>1
<1> HIDE DEF x, z, es, roots
<1>9. ASSUME NEW j \in DOMAIN es, manifestPathKey(es[j].path) = manifestPathKey(z)
      PROVE  /\ Len(es[j].path) = Len(z) /\ Final(es[j].path)[1] = parent[1]
             /\ manifestPathKey(Final(es[j].path)) = manifestPathKey(parent)
             /\ es[j].path = z => Final(es[j].path) = parent
  <2> DEFINE y == Final(es[j].path)
             w == es[j].path
  <2>1. /\ y \in Paths /\ Len(y) = Len(w) /\ y[1] = finals[RootNo(roots, w)]
        /\ \A k \in 2..Len(w): y[k] = w[k]
        /\ w \in Paths
    BY <1>1, <1>3
  <2> HIDE DEF y
  <2>2. Len(w) = Len(z) /\ \A k \in 1..Len(z): Key(w[k]) = Key(z[k])
    BY <1>7, <1>9, <2>1, KeysAre
  <2>3. Len(z) \in Nat \ {0}
    BY <1>7 DEF Paths
  <2>4. RootNo(roots, w) = RootNo(roots, path)
    <3>1. Key(w[1]) = Key(path[1])
      BY <1>7, <2>2, <2>3
    <3> QED BY <3>1 DEF RootNo
  <2> HIDE DEF w
  <2>5. y[1] = parent[1]
    BY <1>4, <1>5, <2>1, <2>4
  <2>6. \A k \in 1..Len(parent): Key(y[k]) = Key(parent[k]) /\ (w = z => y[k] = parent[k])
    <3> SUFFICES ASSUME NEW k \in 1..Len(parent) PROVE Key(y[k]) = Key(parent[k]) /\ (w = z => y[k] = parent[k])
      OBVIOUS
    <3>1. k = 1 \/ k \in 2..Len(parent)
      BY <1>7, <2>3
    <3>2. CASE k = 1
      BY <2>5, <3>2
    <3>3. CASE k \in 2..Len(parent)
      <4>1. y[k] = w[k] /\ parent[k] = z[k] /\ k \in 1..Len(z)
        BY <1>7, <1>8, <2>1, <2>2, <3>3
      <4> QED BY <2>2, <4>1
    <3> QED BY <3>1, <3>2, <3>3
  <2>7. Len(y) = Len(parent)
    BY <1>7, <2>1, <2>2
  <2>8. manifestPathKey(y) = manifestPathKey(parent)
    BY <1>5, <2>1, <2>6, <2>7, KeysAre
  <2>9. w = z => y = parent
    BY <1>5, <2>1, <2>6, <2>7, SamePath
  <2> QED BY <2>2, <2>5, <2>8, <2>9 DEF y, w
<1>10. \E j \in DOMAIN es: /\ es[j].kind = manifestFolder /\ manifestPathKey(es[j].path) = manifestPathKey(z)
                           /\ caseSensitive => es[j].path = z
  <2>1. CASE ~caseSensitive
    <3>1. ParentsAreFolders(es, es[i])
      BY DEF ApprovedInv, es
    <3>2. \E j \in DOMAIN es: manifestPathKey(es[j].path) = manifestPathKey(z) /\ es[j].kind = manifestFolder
      BY <1>6, <3>1 DEF ParentsAreFolders
    <3> QED BY <2>1, <3>2
  <2>2. CASE caseSensitive
    <3>1. phase \in {"sent", "unsent"}
      BY <2>2 DEF PhaseInv, Approved, SenderTypes
    <3>2. es = manifest.entries
      BY <3>1 DEF OwnInv, es
    <3>3. EntriesOK(manifest)
      BY DEF WalkInv
    <3>4. HasFolder(es, i - 1, z)
      BY <1>6, <3>2, <3>3 DEF EntriesOK, es
    <3>5. PICK j \in 1..(i - 1): es[j].path = z /\ es[j].kind = manifestFolder
      BY <3>4 DEF HasFolder
    <3>6. j \in DOMAIN es
      <4>1. es \in Seq(ManifestEntries)
        BY ApprovedEntries DEF es
      <4>2. DOMAIN es = 1..Len(es) /\ Len(es) \in Nat /\ i \in DOMAIN es
        BY <4>1 DEF es
      <4> QED BY <4>2
    <3> QED BY <3>5, <3>6
  <2> QED BY <2>1, <2>2
<1>11. PICK j \in DOMAIN es: /\ es[j].kind = manifestFolder /\ manifestPathKey(es[j].path) = manifestPathKey(z)
                             /\ caseSensitive => es[j].path = z
  BY <1>10
<1>12. Len(es[j].path) < Len(path)
  <2>1. Len(es[j].path) = Len(parent) /\ Len(path) \in Nat
    BY <1>4, <1>7, <1>9, <1>11 DEF Paths
  <2> HIDE DEF path
  <2> QED BY <1>5, <2>1
<1>13. OnDisk(Final(es[j].path)) = OnDisk(parent)
  BY <1>9, <1>11 DEF OnDisk
<1> QED BY <1>11, <1>12, <1>13 DEF es

LEMMA PlaceFree ==
    ASSUME SenderTypes, ReceiverTypes, PhaseInv, WalkInv, OwnInv, ApprovedInv, Approved,
           NamesFree(received.roots, finals, listing), made \subseteq DOMAIN received.entries,
           caseSensitive => phase # "other",
           NEW i \in DOMAIN received.entries,
           i \notin made \/ received.entries[i].kind # manifestFolder,
           \A j \in DOMAIN received.entries:
               received.entries[j].kind = manifestFolder /\ Len(received.entries[j].path) < Len(received.entries[i].path) =>
                   j \in made
    PROVE  CanBeMade(received.entries[i].path)
<1> DEFINE es == received.entries
           x == Final(es[i].path)
<1>1. \A y, z: OnDisk(y) = OnDisk(z) => manifestPathKey(y) = manifestPathKey(z)
  BY DEF OnDisk
<1>2. OnDisk(x) \notin FoldersThere
  <2> SUFFICES ASSUME OnDisk(x) \in FoldersThere PROVE FALSE
    OBVIOUS
  <2>1. PICK k \in made: es[k].kind = manifestFolder /\ OnDisk(x) = OnDisk(Final(es[k].path))
    BY DEF FoldersThere
  <2>2. k \in DOMAIN es /\ manifestPathKey(x) = manifestPathKey(Final(es[k].path))
    BY <1>1, <2>1
  <2>3. i = k
    BY <2>2, FinalsApart
  <2> QED BY <2>1, <2>3
<1>3. OnDisk(x) \notin {OnDisk(<<n>>): n \in listing}
  <2> SUFFICES ASSUME NEW n \in listing, OnDisk(x) = OnDisk(<<n>>) PROVE FALSE
    OBVIOUS
  <2>1. manifestPathKey(x) = manifestPathKey(<<n>>)
    BY <1>1
  <2>2. /\ es[i].path \in Paths /\ RootNo(received.roots, es[i].path) \in DOMAIN received.roots
        /\ received.roots \in Seq(Names)
    BY ApprovedEntries
  <2>3. x[1] = finals[RootNo(received.roots, es[i].path)] /\ x \in Paths
    BY <2>2, FinalIs DEF Final
  <2>4. Key(x[1]) = Key(n)
    <3>1. manifestPathKey(x) = [k \in DOMAIN x |-> Key(x[k])] /\ manifestPathKey(<<n>>) = [k \in {1} |-> Key(<<n>>[k])]
      <4>1. DOMAIN <<n>> = {1}
        OBVIOUS
      <4>2. manifestPathKey(<<n>>) = [k \in DOMAIN <<n>> |-> Key(<<n>>[k])] /\ manifestPathKey(x) = [k \in DOMAIN x |-> Key(x[k])]
        BY KeysAre
      <4> QED BY <4>1, <4>2
    <3>2. 1 \in DOMAIN x
      BY <2>3 DEF Paths
    <3>3. <<n>>[1] = n
      OBVIOUS
    <3> HIDE DEF x
    <3>4. manifestPathKey(x)[1] = Key(x[1]) /\ manifestPathKey(<<n>>)[1] = Key(<<n>>[1])
      BY <3>1, <3>2
    <3> QED BY <2>1, <3>3, <3>4
  <2> HIDE DEF x
  <2> QED BY <2>2, <2>3, <2>4 DEF NamesFree
<1>4. \A parent \in Ancestors(x): OnDisk(parent) \in FoldersThere
  <2> SUFFICES ASSUME NEW parent \in Ancestors(x) PROVE OnDisk(parent) \in FoldersThere
    OBVIOUS
  <2>1. PICK j \in DOMAIN es: es[j].kind = manifestFolder /\ Len(es[j].path) < Len(es[i].path)
                              /\ OnDisk(Final(es[j].path)) = OnDisk(parent)
    BY ParentThere
  <2>2. j \in {k \in made: received.entries[k].kind = manifestFolder}
    BY <2>1
  <2>3. OnDisk(Final(es[j].path)) \in FoldersThere
    BY <2>2 DEF FoldersThere
  <2> QED BY <2>1, <2>3
<1> QED BY <1>2, <1>3, <1>4 DEF CanBeMade, Occupied

LEMMA PrepareStep ==
    ASSUME SenderTypes, WalkInv, PhaseInv, ReceiverTypes, ReceiverInv, Prepare
    PROVE  PhaseInv' /\ ReceiverTypes' /\ ReceiverInv'
<1>1. /\ verdict = "reviewed" /\ finals # << >> /\ Approved
      /\ wire' = wire /\ header' = header /\ received' = received
      /\ listing' = listing /\ caseSensitive' = caseSensitive /\ finals' = finals
      /\ arguments' = arguments /\ phase' = phase /\ manifest' = manifest
      /\ nextRoot' = nextRoot /\ pending' = pending
  BY DEF Prepare, senderVars, destinationVars, Approved
<1>2. NamesFree(received.roots, finals, listing)
  BY <1>1 DEF ReceiverInv, FinalsInv, NamesFree
<1>3. made \subseteq DOMAIN received.entries
  BY DEF ReceiverInv, PreparedInv
<1>4. \/ verdict' = "prepared" /\ made' = made /\ Unprepared(received.entries, made) = {}
      \/ verdict' = "reviewed" /\ made' \subseteq DOMAIN received.entries
      \/ verdict' = "unprepared" /\ made' = made /\ caseSensitive /\ phase = "other"
  <2>1. CASE Unprepared(received.entries, made) = {} /\ verdict' = "prepared" /\ made' = made
    BY <2>1
  <2>2. ASSUME NEW i \in NextToPrepare(received.entries, made),
               IF CanBeMade(received.entries[i].path) THEN made' = made \cup {i} /\ UNCHANGED verdict
               ELSE verdict' = "unprepared" /\ UNCHANGED made
        PROVE  \/ verdict' = "reviewed" /\ made' \subseteq DOMAIN received.entries
               \/ verdict' = "unprepared" /\ made' = made /\ caseSensitive /\ phase = "other"
    <3>1. /\ i \in DOMAIN received.entries /\ i \notin made
          /\ \A j \in Unprepared(received.entries, made): ~PreparedBefore(received.entries, j, i)
      BY DEF NextToPrepare, Unprepared
    <3>2. CASE CanBeMade(received.entries[i].path)
      BY <1>1, <1>3, <2>2, <3>1, <3>2
    <3>3. CASE ~CanBeMade(received.entries[i].path)
      <4>1. ASSUME NEW j \in DOMAIN received.entries, received.entries[j].kind = manifestFolder,
                   Len(received.entries[j].path) < Len(received.entries[i].path)
            PROVE  j \in made
        <5>1. PreparedBefore(received.entries, j, i)
          BY <4>1 DEF PreparedBefore
        <5>2. j \notin Unprepared(received.entries, made)
          BY <3>1, <5>1
        <5> QED BY <4>1, <5>2 DEF Unprepared
      <4>2. caseSensitive /\ phase = "other"
        BY <1>1, <1>2, <1>3, <3>1, <3>3, <4>1, PlaceFree DEF ReceiverInv, ReceiverTypes
      <4> QED BY <2>2, <3>3, <4>2
    <3> QED BY <3>2, <3>3
  <2> QED BY <2>1, <2>2 DEF Prepare
<1>5. verdict' \in {"reviewed", "prepared", "unprepared"} /\ Approved'
  BY <1>4 DEF Approved
<1>6. ReceiverTypes'
  BY <1>1, <1>5 DEF ReceiverTypes
<1>7. PhaseInv'
  BY <1>1, <1>5 DEF PhaseInv
<1>8. OwnInv' /\ UnsentInv'
  <2>1. phase \in {"sent", "unsent"} => received.entries = manifest.entries
    BY <1>1 DEF ReceiverInv, OwnInv
  <2> QED BY <1>1, <1>5, <2>1 DEF ReceiverInv, OwnInv, UnsentInv
<1>9. ApprovedInv'
  BY <1>1, <1>5 DEF ReceiverInv, ApprovedInv
<1>10. FinalsInv'
  BY <1>1, <1>2, <1>5 DEF FinalsInv, NamesFree
<1>11. PreparedInv'
  BY <1>1, <1>3, <1>4 DEF PreparedInv
<1> QED BY <1>6, <1>7, <1>8, <1>9, <1>10, <1>11 DEF ReceiverInv

---------------------------------------------------------------------------
(* Every Transfer Offer                                                    *)

\* What the walk, the wire and the receiver start with.
LEMMA InitInv == Init => Types /\ Inv
<1> SUFFICES ASSUME Init PROVE Types /\ Inv
  OBVIOUS
<1>1. /\ manifest = EmptyManifest /\ nextRoot = 1 /\ pending = << >> /\ changes = 0
      /\ header = NoHeader /\ received = EmptyManifest /\ verdict = "none"
      /\ listing = {} /\ caseSensitive = FALSE /\ finals = << >> /\ made = {}
  BY DEF Init
<1>2. /\ {MaxEntries, MaxOmissions, MaxTotal, MaxChanges} \subseteq Nat
  BY ManifestAssumption
<1>3. \A S: << >> \in Seq(S)
  OBVIOUS
<1>4. Len(<< >>) = 0 /\ DOMAIN << >> = {} /\ 1..0 = {}
  OBVIOUS
<1>5. /\ phase \in {"building", "other"} /\ wire \in Seq(OtherFrames) /\ (phase = "building" => wire = << >>)
      /\ arguments \in Seq(Names) /\ IsTree(source, arguments)
  <2>1. CASE phase = "building" /\ wire = << >> /\ source \in Sources /\ arguments \in Arguments
    BY <1>3, <2>1, SourcesAssumption
  <2>2. CASE phase = "other" /\ wire \in OtherOffers /\ source = << >> /\ arguments = << >>
    <3>1. IsTree(source, arguments)
      <4>1. IsFiniteSet({})
        BY FS_EmptySet
      <4> QED BY <1>4, <2>2, <4>1 DEF IsTree
    <3> QED BY <1>3, <2>2, <3>1, OffersAssumption
  <2> QED BY <2>1, <2>2 DEF Init
<1>6. /\ EmptyManifest.roots = << >> /\ EmptyManifest.entries = << >> /\ EmptyManifest.omissions = << >>
      /\ EmptyManifest.files = 0 /\ EmptyManifest.folders = 0 /\ EmptyManifest.bytes = 0
  BY DEF EmptyManifest
<1>7. EmptyManifest \in Manifests /\ EmptyManifest \in Receipts
  <2>1. 0 \in Nat /\ 0 \in 0..MaxTotal /\ 0 \in {0}
    BY <1>2
  <2> QED BY <1>3, <2>1 DEF EmptyManifest, Manifests, Receipts
<1>8. NoHeader \in Headers
  <2>1. 0 \in Int /\ 0 \in Int64
    BY <1>2 DEF Int64
  <2> QED BY <2>1 DEF NoHeader, Headers
<1>9. SenderTypes
  <2>1. nextRoot \in 1..(Len(arguments) + 1) /\ changes \in 0..MaxChanges
    <3>1. Len(arguments) \in Nat
      BY <1>5
    <3> QED BY <1>1, <1>2, <3>1
  <2> QED BY <1>1, <1>3, <1>5, <1>7, <2>1 DEF SenderTypes
<1>10. ReceiverTypes
  BY <1>1, <1>5, <1>7, <1>8 DEF ReceiverTypes
<1>11. CountsOK(manifest)
  <2>1. \A kind: Count(<< >>, kind) = 0
    <3> SUFFICES ASSUME NEW kind PROVE Count(<< >>, kind) = 0
      OBVIOUS
    <3>1. {i \in DOMAIN << >>: << >>[i].kind = kind} = {}
      BY <1>4
    <3> QED BY <3>1, FS_EmptySet DEF Count
  <2>2. TotalSize(<< >>) = 0
    <3>1. << >> \in Seq(ReceivedEntries)
      BY <1>3
    <3>2. TotalSize(<< >>) = Sums(Sizes(<< >>))[0] /\ Len(Sizes(<< >>)) = 0
      BY <1>4, <3>1, SizesAre
    <3>3. Sums(Sizes(<< >>))[0] = 0
      BY <3>2, SumsAre
    <3> QED BY <3>2, <3>3
  <2> QED BY <1>1, <1>2, <1>4, <1>6, <2>1, <2>2 DEF CountsOK
<1>12. RootsOK(arguments, nextRoot, manifest, pending) /\ EntriesOK(manifest)
  BY <1>1, <1>4, <1>6 DEF RootsOK, EntriesOK, KeysDiffer
<1>13. PendingOK(arguments, nextRoot, manifest, pending)
  BY <1>1, <1>4 DEF PendingOK
<1>14. DisclosedOK(arguments, source, nextRoot, manifest, pending)
  <2>1. \A x \in DOMAIN source: x[1][1] \in Nat \ {0}
    <3> SUFFICES ASSUME NEW x \in DOMAIN source PROVE x[1][1] \in Nat \ {0}
      OBVIOUS
    <3>1. x[1][1] \in DOMAIN arguments
      BY <1>5, PlaceIs
    <3> QED BY <1>5, <3>1
  <2>2. \A x \in DOMAIN source: ~(x[1][1] < nextRoot)
    BY <1>1, <2>1
  <2> QED BY <2>2 DEF DisclosedOK
<1>15. WalkInv
  BY <1>11, <1>12, <1>13, <1>14 DEF WalkInv
<1>16. PhaseInv
  BY <1>1, <1>5 DEF PhaseInv
<1>17. ReceiverInv
  <2>1. OwnInv /\ UnsentInv
    BY <1>5 DEF OwnInv, UnsentInv
  <2>2. ApprovedInv /\ FinalsInv /\ PreparedInv
    BY <1>1, <1>2, <1>4, <1>6 DEF ApprovedInv, FinalsInv, PreparedInv, Approved
  <2> QED BY <2>1, <2>2 DEF ReceiverInv
<1> QED BY <1>9, <1>10, <1>15, <1>16, <1>17 DEF Types, Inv

LEMMA NextInv == Types /\ Inv /\ [Next]_vars => Types' /\ Inv'
<1> SUFFICES ASSUME Types, Inv, [Next]_vars PROVE Types' /\ Inv'
  OBVIOUS
<1>1. SenderTypes /\ ReceiverTypes /\ WalkInv /\ PhaseInv /\ ReceiverInv
  BY DEF Types, Inv
<1>2. CASE BuildRoot
  <2>1. SenderTypes' /\ WalkInv' /\ phase' \in {"building", "failed"}
    BY <1>1, <1>2, BuildRootStep
  <2>2. phase = "building" /\ UNCHANGED <<wire, receiverVars>>
    BY <1>2 DEF BuildRoot
  <2>3. PhaseInv' /\ ReceiverTypes' /\ ReceiverInv'
    BY <1>1, <2>1, <2>2, NothingReceived
  <2> QED BY <2>1, <2>3 DEF Types, Inv
<1>3. CASE Walk
  <2>1. SenderTypes' /\ WalkInv' /\ phase' \in {"building", "failed"}
    BY <1>1, <1>3, WalkStep
  <2>2. phase = "building" /\ UNCHANGED <<wire, receiverVars>>
    BY <1>3 DEF Walk
  <2>3. PhaseInv' /\ ReceiverTypes' /\ ReceiverInv'
    BY <1>1, <2>1, <2>2, NothingReceived
  <2> QED BY <2>1, <2>3 DEF Types, Inv
<1>4. CASE SourceVanishes
  <2>1. SenderTypes' /\ WalkInv' /\ phase' = "building"
    BY <1>1, <1>4, VanishStep
  <2>2. phase = "building" /\ UNCHANGED <<wire, receiverVars>>
    BY <1>4 DEF SourceVanishes
  <2>3. PhaseInv' /\ ReceiverTypes' /\ ReceiverInv'
    BY <1>1, <2>1, <2>2, NothingReceived
  <2> QED BY <2>1, <2>3 DEF Types, Inv
<1>5. CASE FinishBuilding
  <2>1. /\ SenderTypes' /\ WalkInv' /\ phase' \in {"built", "failed"}
        /\ phase' = "built" => pending' = << >> /\ nextRoot' = Len(arguments') + 1 /\ manifest'.entries # << >>
    BY <1>1, <1>5, FinishStep
  <2>2. phase = "building" /\ UNCHANGED <<wire, receiverVars>>
    BY <1>5 DEF FinishBuilding
  <2>3. PhaseInv' /\ ReceiverTypes' /\ ReceiverInv'
    BY <1>1, <2>1, <2>2, NothingReceived
  <2> QED BY <2>1, <2>3 DEF Types, Inv
<1>6. CASE sendManifest
  BY <1>1, <1>6, SendStep DEF Types, Inv
<1>7. CASE Receive
  <2>1. ReceiverTypes' /\ PhaseInv' /\ ApprovedInv' /\ FinalsInv' /\ PreparedInv'
    BY <1>1, <1>7, ReceiveKeeps DEF ReceiverInv
  <2>2. OwnInv' /\ UnsentInv'
    BY <1>1, <1>7, OwnReceived DEF ReceiverInv
  <2>3. UNCHANGED senderVars
    BY <1>7 DEF Receive
  <2>4. SenderTypes' /\ WalkInv'
    BY <1>1, <2>3 DEF SenderTypes, WalkInv, senderVars
  <2> QED BY <2>1, <2>2, <2>4 DEF Types, Inv, ReceiverInv
<1>8. CASE Review
  <2>1. UNCHANGED senderVars
    BY <1>8 DEF Review
  <2>2. SenderTypes' /\ WalkInv'
    BY <1>1, <2>1 DEF SenderTypes, WalkInv, senderVars
  <2>3. PhaseInv' /\ ReceiverTypes' /\ ReceiverInv'
    BY <1>1, <1>8, ReviewStep
  <2> QED BY <2>2, <2>3 DEF Types, Inv
<1>9. CASE Prepare
  <2>1. UNCHANGED senderVars
    BY <1>9 DEF Prepare
  <2>2. SenderTypes' /\ WalkInv'
    BY <1>1, <2>1 DEF SenderTypes, WalkInv, senderVars
  <2>3. PhaseInv' /\ ReceiverTypes' /\ ReceiverInv'
    BY <1>1, <1>9, PrepareStep
  <2> QED BY <2>2, <2>3 DEF Types, Inv
<1>10. CASE UNCHANGED vars
  <2>1. /\ arguments' = arguments /\ source' = source /\ phase' = phase /\ manifest' = manifest
        /\ nextRoot' = nextRoot /\ pending' = pending /\ changes' = changes /\ wire' = wire
        /\ header' = header /\ received' = received /\ verdict' = verdict /\ listing' = listing
        /\ caseSensitive' = caseSensitive /\ finals' = finals /\ made' = made
    BY <1>10 DEF vars, senderVars, receiverVars, destinationVars
  <2>2. SenderTypes' /\ ReceiverTypes' /\ WalkInv' /\ PhaseInv'
    BY <1>1, <2>1 DEF SenderTypes, ReceiverTypes, WalkInv, PhaseInv
  <2>3. OwnInv' /\ UnsentInv'
    BY <1>1, <2>1 DEF ReceiverInv, OwnInv, UnsentInv, RootOmitted, Collected, UnderWay, Taken, Approved
  <2>4. ApprovedInv' /\ FinalsInv' /\ PreparedInv'
    BY <1>1, <2>1 DEF ReceiverInv, ApprovedInv, FinalsInv, PreparedInv, Approved
  <2> QED BY <2>2, <2>3, <2>4 DEF Types, Inv, ReceiverInv
<1> QED BY <1>2, <1>3, <1>4, <1>5, <1>6, <1>7, <1>8, <1>9, <1>10 DEF Next

\* The inductive invariant: what the walk has recorded and has still to see, what
\* is under way, and what the receiver has made sure of, whatever changes at the
\* source and whoever sends the frames.
THEOREM ManifestCorrect == Spec => [](Types /\ Inv)
<1> QED BY InitInv, NextInv, PTL DEF Spec

\* The walk and the receiver stay within the limits of manifest.go, and what is
\* still to be walked is in the source.
THEOREM ManifestTypesHold == Spec => []TypeOK
<1>1. Types /\ Inv => TypeOK
  <2> SUFFICES ASSUME Types, Inv PROVE TypeOK
    OBVIOUS
  <2>1. SenderTypes /\ ReceiverTypes /\ CountsOK(manifest) /\ ApprovedInv
    BY DEF Types, Inv, WalkInv, ReceiverInv
  <2>2. \A x \in DOMAIN source: source[x] \in Kinds
    BY <2>1 DEF SenderTypes, IsTree
  <2>3. ToSet(pending) \subseteq DOMAIN source
    <3>1. \A k \in DOMAIN pending: pending[k] \in DOMAIN source
      BY <2>1 DEF SenderTypes
    <3> QED BY <3>1 DEF ToSet
  <2>4. manifest.bytes \in 0..MaxTotal
    BY <2>1 DEF SenderTypes, Manifests
  <2> QED BY <2>1, <2>2, <2>3, <2>4 DEF TypeOK, SenderTypes, ReceiverTypes, CountsOK, ApprovedInv
<1> QED BY <1>1, ManifestCorrect, PTL

\* The byte total that is reviewed is the sum of the sizes, for every manifest of
\* every implementation (validateReceivedManifest).
THEOREM TotalIsTrueHolds == Spec => []TotalIsTrue
<1>1. Types /\ Inv => TotalIsTrue
  BY DEF Inv, ReceiverInv, ApprovedInv, TotalIsTrue
<1> QED BY <1>1, ManifestCorrect, PTL

\* No two entries of an approved offer have the same final path, and no root the
\* name of what is in the destination (resolveIncomingPaths, incomingPath).
THEOREM FinalPathsAreDistinctHolds == Spec => []FinalPathsAreDistinct
<1>1. Types /\ Inv => FinalPathsAreDistinct
  <2> SUFFICES ASSUME Types, Inv, Approved, finals # << >>, verdict # "unresolved"
               PROVE  LET es == received.entries IN
                      /\ \A i, j \in DOMAIN es: manifestPathKey(Final(es[i].path)) = manifestPathKey(Final(es[j].path)) => i = j
                      /\ \A i \in DOMAIN finals: \A n \in listing: Key(finals[i]) # Key(n)
    BY DEF FinalPathsAreDistinct
  <2>1. ReceiverTypes /\ ApprovedInv /\ FinalsInv
    BY DEF Types, Inv, ReceiverInv
  <2>2. NamesFree(received.roots, finals, listing)
    BY <2>1 DEF FinalsInv, NamesFree
  <2>3. \A i, j \in DOMAIN received.entries:
            manifestPathKey(Final(received.entries[i].path)) = manifestPathKey(Final(received.entries[j].path)) => i = j
    BY <2>1, <2>2, FinalsApart
  <2> QED BY <2>2, <2>3 DEF NamesFree
<1> QED BY <1>1, ManifestCorrect, PTL

\* prepareIncoming never stops half way, and leaves a free place with all its
\* folders for every file.
THEOREM ApprovedCanBePreparedHolds == Spec => []ApprovedCanBePrepared
<1>1. Types /\ Inv => ApprovedCanBePrepared
  <2> SUFFICES ASSUME Types, Inv, caseSensitive => phase # "other"
               PROVE  /\ verdict # "unprepared"
                      /\ verdict = "prepared" => \A e \in FilesOf(received.entries): CanBeMade(e.path)
    BY DEF ApprovedCanBePrepared
  <2>1. SenderTypes /\ ReceiverTypes /\ PhaseInv /\ WalkInv /\ OwnInv /\ ApprovedInv /\ FinalsInv /\ PreparedInv
    BY DEF Types, Inv, ReceiverInv
  <2>2. verdict # "unprepared"
    BY <2>1 DEF PreparedInv
  <2>3. ASSUME verdict = "prepared", NEW e \in FilesOf(received.entries) PROVE CanBeMade(e.path)
    <3>1. PICK i \in DOMAIN received.entries: e = received.entries[i] /\ e.kind = manifestFile
      BY DEF FilesOf, ToSet
    <3>2. received.entries[i].kind # manifestFolder
      BY <3>1 DEF manifestFile, manifestFolder
    <3>3. Approved /\ finals # << >> /\ verdict # "unresolved"
      BY <2>1, <2>3 DEF Approved, FinalsInv
    <3>4. NamesFree(received.roots, finals, listing)
      BY <2>1, <3>3 DEF FinalsInv, NamesFree
    <3>5. Unprepared(received.entries, made) = {} /\ made \subseteq DOMAIN received.entries
      BY <2>1, <2>3 DEF PreparedInv
    <3>6. \A j \in DOMAIN received.entries: received.entries[j].kind = manifestFolder => j \in made
      BY <3>5 DEF Unprepared
    <3>7. CanBeMade(received.entries[i].path)
      BY <2>1, <3>2, <3>3, <3>4, <3>5, <3>6, PlaceFree
    <3> QED BY <3>1, <3>7
  <2> QED BY <2>2, <2>3
<1> QED BY <1>1, ManifestCorrect, PTL

\* Nothing that can be reached is passed over when nothing changes during the
\* walk: it is offered or disclosed, and offered once only (walkManifestRoot).
THEOREM EverythingIsDisclosedHolds == Spec => []EverythingIsDisclosed
<1>1. Types /\ Inv => EverythingIsDisclosed
  <2> SUFFICES ASSUME Types, Inv, phase \in {"built", "sent", "unsent"}, changes = 0
               PROVE  /\ \A x \in DOMAIN source:
                           (/\ source[x] # "absent"
                            /\ \A parent \in Ancestors(x): source[parent] = "folder") =>
                               Relative(x) \in PathsOf(manifest.entries) \cup PathsOf(manifest.omissions)
                      /\ \A x \in DOMAIN source: source[x] = "locked" /\ Relative(x) \in PathsOf(manifest.entries) =>
                           Relative(x) \in PathsOf(manifest.omissions)
                      /\ Cardinality(PathsOf(manifest.entries)) = Len(manifest.entries)
    BY DEF EverythingIsDisclosed
  <2>1. /\ arguments \in Seq(Names) /\ IsTree(source, arguments) /\ manifest \in Manifests
        /\ pending = << >> /\ nextRoot = Len(arguments) + 1
        /\ DisclosedOK(arguments, source, nextRoot, manifest, pending) /\ EntriesOK(manifest)
    BY DEF Types, SenderTypes, Inv, PhaseInv, WalkInv
  <2>2. \A x \in DOMAIN source: x[1][1] < nextRoot
    <3> SUFFICES ASSUME NEW x \in DOMAIN source PROVE x[1][1] < nextRoot
      OBVIOUS
    <3>1. x[1][1] \in DOMAIN arguments
      BY <2>1, PlaceIs
    <3>2. DOMAIN arguments = 1..Len(arguments) /\ Len(arguments) \in Nat
      BY <2>1
    <3> QED BY <2>1, <3>1, <3>2
  <2>3. \A x \in DOMAIN source: ~ToBeWalked(pending, x)
    <3>1. DOMAIN << >> = {}
      OBVIOUS
    <3> QED BY <2>1, <3>1 DEF ToBeWalked
  <2>4. \A x: Relative(x) = Rel(arguments, x)
    BY DEF Relative, Rel
  <2>5. Cardinality(PathsOf(manifest.entries)) = Len(manifest.entries)
    <3> DEFINE E == Len(manifest.entries)
               at == [i \in 1..E |-> manifest.entries[i].path]
               P == PathsOf(manifest.entries)
    <3>1. /\ E \in Nat /\ DOMAIN manifest.entries = 1..E
          /\ \A i, j \in 1..E: manifest.entries[i].path = manifest.entries[j].path => i = j
      BY <2>1, ManifestIs DEF EntriesOK, KeysDiffer
    <3>2. P = {manifest.entries[i].path: i \in 1..E}
      BY <3>1 DEF PathsOf
    <3> HIDE DEF E
    <3>3. at \in [1..E -> P] /\ (\A i, j \in 1..E: at[i] = at[j] => i = j) /\ \A p \in P: \E i \in 1..E: at[i] = p
      BY <3>1, <3>2
    <3> HIDE DEF at, P
    <3>4. at \in Bijection(1..E, P)
      BY <3>3 DEF Bijection, Injection, Surjection, IsInjective
    <3>5. IsFiniteSet(1..E) /\ Cardinality(1..E) = E
      BY <3>1, FS_Interval
    <3>6. Cardinality(P) = Cardinality(1..E)
      BY <3>4, <3>5, FS_Bijection DEF ExistsBijection
    <3> QED BY <3>5, <3>6 DEF E, P
  <2> QED BY <2>1, <2>2, <2>3, <2>4, <2>5 DEF DisclosedOK, Reached, Recorded
<1> QED BY <1>1, ManifestCorrect, PTL

LEMMA LengthIs ==
    ASSUME NEW path \in Seq(Names), NEW lengths, \A b \in DOMAIN Fold: lengths[b] \in Nat
    PROVE  Length(path, lengths) \in Int
<1> DEFINE s == [i \in DOMAIN path |-> lengths[path[i][1]] + SuffixBytes * (Len(path[i]) - 1)]
<1>1. DOMAIN path = 1..Len(path) /\ Len(path) \in Nat
  OBVIOUS
<1>2. \A i \in 1..Len(path): lengths[path[i][1]] + SuffixBytes * (Len(path[i]) - 1) \in Int
  <2> SUFFICES ASSUME NEW i \in 1..Len(path) PROVE lengths[path[i][1]] + SuffixBytes * (Len(path[i]) - 1) \in Int
    OBVIOUS
  <2>1. path[i] \in Names
    BY <1>1
  <2>2. lengths[path[i][1]] \in Nat /\ Len(path[i]) \in Nat
    BY <2>1 DEF Names
  <2> QED BY <2>2 DEF SuffixBytes
<1>3. s \in [1..Len(path) -> Int]
  BY <1>1, <1>2
<1>4. s \in Seq(Int)
  BY <1>1, <1>3
<1>5. Length(path, lengths) = Len(path) - 1 + Total(s)
  BY DEF Length
<1> HIDE DEF s
<1>6. Total(s) \in Int
  BY <1>4, SumsType
<1> QED BY <1>1, <1>5, <1>6

\* A frame of an offer that was built is too long only because of its path.
LEMMA TooLong ==
    ASSUME NEW m \in Manifests, NEW i \in DOMAIN FramesOf(m), ~Fits(FramesOf(m)[i])
    PROVE  \E path \in PathsOf(m.entries) \cup PathsOf(m.omissions): Length(path, Encoded) > Length(path, Bytes)
<1> DEFINE frame == FramesOf(m)[i]
           E == Len(m.entries)
           O == Len(m.omissions)
<1>1. /\ E \in Nat /\ O \in Nat /\ DOMAIN FramesOf(m) = 1..(E + O + 2)
      /\ FramesOf(m)[1] = OfferFrame(Len(m.roots), m.files, m.folders, m.bytes)
      /\ \A k \in 1..E: FramesOf(m)[1 + k] = EntryFrame(m.entries[k])
      /\ \A k \in 1..O: FramesOf(m)[1 + E + k] = OmissionFrame(m.omissions[k])
      /\ FramesOf(m)[E + O + 2] = CompleteFrame
  BY FramesAre
<1>2. /\ m.entries \in Seq(ManifestEntries) /\ DOMAIN m.entries = 1..E
      /\ m.omissions \in Seq(Omissions) /\ DOMAIN m.omissions = 1..O
  <2>1. m.entries \in Seq(ManifestEntries) /\ m.omissions \in Seq(Omissions)
    BY ManifestIs
  <2> QED BY <2>1
<1>3. \A k \in 1..E: m.entries[k] \in ManifestEntries
  BY <1>2
<1>4. \A k \in 1..O: m.omissions[k] \in Omissions
  BY <1>2
<1> HIDE DEF E, O
<1>5. \/ i = 1 \/ i = E + O + 2
      \/ \E k \in 1..E: i = 1 + k
      \/ \E k \in 1..O: i = 1 + E + k
  <2>1. i \in 1..(E + O + 2)
    BY <1>1
  <2>2. i \in 2..(1 + E) => i - 1 \in 1..E /\ i = 1 + (i - 1)
    BY <1>1
  <2>3. i \in (2 + E)..(1 + E + O) => i - 1 - E \in 1..O /\ i = 1 + E + (i - 1 - E)
    BY <1>1
  <2>4. i = 1 \/ i = E + O + 2 \/ i \in 2..(1 + E) \/ i \in (2 + E)..(1 + E + O)
    BY <1>1, <2>1
  <2> QED BY <2>2, <2>3, <2>4
<1>6. frame.type \in {"manifest-entry", "manifest-omission"} /\ ~(Length(frame.path, Encoded) + Overhead <= MaxFrame)
  BY DEF Fits
<1> HIDE DEF frame
<1>7. frame.path \in PathsOf(m.entries) \cup PathsOf(m.omissions) /\ frame.path \in Seq(Names) /\ validateManifestPath(frame.path)
  <2>1. CASE i = 1
    <3>1. frame.type = "offer"
      BY <1>1, <2>1 DEF OfferFrame, frame
    <3> QED BY <1>6, <3>1
  <2>2. CASE i = E + O + 2
    <3>1. frame.type = "offer-complete"
      BY <1>1, <2>2 DEF CompleteFrame, frame
    <3> QED BY <1>6, <3>1
  <2>3. ASSUME NEW k \in 1..E, i = 1 + k
        PROVE  frame.path \in PathsOf(m.entries) /\ frame.path \in Seq(Names) /\ validateManifestPath(frame.path)
    <3>1. frame = EntryFrame(m.entries[k])
      BY <1>1, <2>3 DEF frame
    <3>2. frame.path = m.entries[k].path
      BY <3>1 DEF EntryFrame
    <3> QED BY <1>2, <1>3, <3>2 DEF PathsOf, ManifestEntries, ReceivedEntries
  <2>4. ASSUME NEW k \in 1..O, i = 1 + E + k
        PROVE  frame.path \in PathsOf(m.omissions) /\ frame.path \in Seq(Names) /\ validateManifestPath(frame.path)
    <3>1. frame = OmissionFrame(m.omissions[k])
      BY <1>1, <2>4 DEF frame
    <3>2. frame.path = m.omissions[k].path
      BY <3>1 DEF OmissionFrame
    <3> QED BY <1>2, <1>4, <3>2 DEF PathsOf, Omissions
  <2> QED BY <1>5, <2>1, <2>2, <2>3, <2>4
<1>8. /\ \A b \in DOMAIN Fold: Bytes[b] \in Nat /\ Encoded[b] \in Nat
      /\ MaxPath \in Nat /\ Overhead \in Nat /\ MaxFrame \in Nat /\ MaxPath + Overhead <= MaxFrame
  BY ManifestAssumption
<1>9. Length(frame.path, Encoded) \in Int /\ Length(frame.path, Bytes) \in Int
  BY <1>7, <1>8, LengthIs
<1>10. Length(frame.path, Bytes) <= MaxPath
  BY <1>7 DEF validateManifestPath
<1>11. Length(frame.path, Encoded) > Length(frame.path, Bytes)
  <2> DEFINE long == Length(frame.path, Encoded)
             short == Length(frame.path, Bytes)
  <2>1. long \in Int /\ short \in Int /\ short <= MaxPath /\ ~(long + Overhead <= MaxFrame)
    BY <1>6, <1>9, <1>10
  <2> HIDE DEF long, short
  <2>2. long > short
    BY <1>8, <2>1
  <2> QED BY <2>2 DEF long, short
<1> QED BY <1>7, <1>11

\* An offer that this program has built reaches the review of this program, but for
\* a root that was omitted as a whole, and a path that JSON makes longer
\* (sendManifest, handleIncomingManifest).
THEOREM OwnOfferIsReviewedHolds == Spec => []OwnOfferIsReviewed
<1>1. Types /\ Inv => OwnOfferIsReviewed
  <2> SUFFICES ASSUME Types, Inv PROVE OwnOfferIsReviewed
    OBVIOUS
  <2>1. OwnInv /\ UnsentInv /\ manifest \in Manifests
    BY DEF Types, SenderTypes, Inv, ReceiverInv
  <2>2. phase = "sent" /\ verdict = "refused" => RootOmitted
    BY <2>1 DEF OwnInv
  <2>3. phase = "unsent" => \E path \in PathsOf(manifest.entries) \cup PathsOf(manifest.omissions):
                                Length(path, Encoded) > Length(path, Bytes)
    BY <2>1, TooLong DEF UnsentInv
  <2> QED BY <2>2, <2>3 DEF OwnOfferIsReviewed, RootOmitted
<1> QED BY <1>1, ManifestCorrect, PTL

\* What IncomingStaging assumes of the entries of an offer holds of every offer of
\* this program that its receiver has reviewed.
THEOREM OwnOfferIsApproved == Spec => [](Approved /\ phase # "other" => IsApproved(received.entries))
<1>1. Types /\ Inv => (Approved /\ phase # "other" => IsApproved(received.entries))
  <2> SUFFICES ASSUME Types, Inv, Approved, phase # "other" PROVE IsApproved(received.entries)
    OBVIOUS
  <2>1. /\ phase \in {"sent", "unsent"} /\ manifest \in Manifests /\ EntriesOK(manifest)
        /\ manifest.entries # << >> /\ OwnInv
    BY DEF Types, SenderTypes, Inv, PhaseInv, WalkInv, ReceiverInv, Approved
  <2>2. received.entries = manifest.entries
    BY <2>1 DEF OwnInv
  <2> DEFINE es == manifest.entries
  <2>3. es \in Seq(ManifestEntries) /\ DOMAIN es = 1..Len(es) /\ Len(es) \in Nat
    BY <2>1, ManifestIs
  <2>4. \A i \in DOMAIN es: IsPath(es[i].path) /\ es[i].kind \in {manifestFile, manifestFolder}
    <3>1. \A i \in DOMAIN es: es[i] \in ReceivedEntries
      BY <2>3 DEF ManifestEntries
    <3> QED BY <3>1, EntryIs
  <2>5. \A i, j \in DOMAIN es: manifestPathKey(es[i].path) = manifestPathKey(es[j].path) => i = j
    BY <2>1, <2>3 DEF EntriesOK, KeysDiffer
  <2>6. \A i \in DOMAIN es: \A parent \in Ancestors(es[i].path):
            \E j \in DOMAIN es: es[j].path = parent /\ es[j].kind = manifestFolder
    <3> SUFFICES ASSUME NEW i \in DOMAIN es, NEW parent \in Ancestors(es[i].path)
                 PROVE  \E j \in DOMAIN es: es[j].path = parent /\ es[j].kind = manifestFolder
      OBVIOUS
    <3>1. HasFolder(es, i - 1, parent)
      BY <2>1 DEF EntriesOK
    <3>2. PICK j \in 1..(i - 1): es[j].path = parent /\ es[j].kind = manifestFolder
      BY <3>1 DEF HasFolder
    <3>3. j \in DOMAIN es
      BY <2>3
    <3> QED BY <3>2, <3>3
  <2> QED BY <2>1, <2>2, <2>4, <2>5, <2>6 DEF IsApproved
<1> QED BY <1>1, ManifestCorrect, PTL
===============================================================================
