---------------------------- MODULE StagingProofs ----------------------------
(***************************************************************************)
(* What holds of the destinations of receiving processes, for any number   *)
(* of processes, destinations and offers, any approved manifests, any      *)
(* crashes and whatever the user puts there.                               *)
(*                                                                         *)
(* The disk is shared and every step may come between two of another       *)
(* process, so that the invariant says whose everything is: whatever is    *)
(* there has its folder, and what an offer made is below a root of the     *)
(* same offer (TreeInv); the folders it has made (CreatedInv), its files   *)
(* (FilesInv) and its temporary files (TempsInv) are where it left them.   *)
(***************************************************************************)
EXTENDS IncomingStaging, PathProofs

Running(p) == phase[p] # "none"
\* What is at x of d belongs to the offer that p is at.
IsCurrent(p, d, x) == tree[d][x].by = p /\ tree[d][x].offer = offer[p] /\ Running(p)
Made(p, d, x) == d = finalsIn[p] /\ \E i \in 1..Len(created[p]): created[p][i] = x

TreeInv ==
    \A d \in Destination: \A x \in Places: Exists(d, x) =>
        LET n == tree[d][x] IN
        /\ n.kind # "absent" /\ HasParent(d, x)
        /\ n.by \in Process => /\ n.offer \in 1..offer[n.by]
                               /\ Root(x) \in Places
                               /\ tree[d][Root(x)].by = n.by /\ tree[d][Root(x)].offer = n.offer
        /\ n.kind = manifestFolder => n.by \in Process

\* Where an offer is.
PhaseInv(p) ==
    /\ phase[p] \in {"none", "review"} => created[p] = << >>
    /\ phase[p] # "receiving" => \A f \in Files(p): stream[p][f] = "none"
    /\ Running(p) => offer[p] >= 1 /\ fate[p][offer[p]] = "open"
    /\ \A n \in 1..MaxOffers[p]: n > offer[p] => fate[p][n] = "open"
    /\ phase[p] \in {"preparing", "rollback", "receiving"} => ~staleStaging[p]
    /\ phase[p] = "receiving" => Unprepared(Entries[p], prepared[p]) = {}

\* The roots got different names, and what is prepared is where it was shown.
PreparedInv(p) ==
    /\ \A i, j \in DOMAIN Roots(p): finals[p][i] # << >> /\ finals[p][i] = finals[p][j] => i = j
    /\ phase[p] \in {"preparing", "receiving"} =>
        \A i \in prepared[p]:
            LET e == Entries[p][i] IN
            /\ finalsIn[p] = destination[p] /\ Resolved(p, e.path)
            /\ e.kind = manifestFolder => Made(p, finalsIn[p], Target(p, e.path))

\* The folders that will be removed again are this offer's, each one once and
\* each one after the folder it is in.
CreatedInv(p) ==
    \A i \in 1..Len(created[p]):
        /\ tree[finalsIn[p]][created[p][i]] = Node(manifestFolder, p, offer[p])
        /\ \A j \in 1..Len(created[p]): created[p][j] = created[p][i] => j = i
        /\ \A j \in 1..Len(created[p]): created[p][j] \in Ancestors(created[p][i]) => j < i

\* A folder that is not to be removed any more has something in it, and nothing
\* that will be removed.
KeptAt(p, d, x) ==
    /\ IsCurrent(p, d, x) /\ ~Made(p, d, x) =>
        /\ Children(d, x) # {}
        /\ \A y \in Places: Made(p, d, y) => x \notin Ancestors(y)
    /\ fate[p][tree[d][x].offer] = "withdrawn" => Children(d, x) # {}
KeptInv(p) ==
    \A d \in Destination: \A x \in Places:
        tree[d][x].kind = manifestFolder /\ tree[d][x].by = p => KeptAt(p, d, x)

Landed == {"linked", "published", "done", "stuck"}
FilesInv(p) ==
    /\ \A f \in Files(p): stream[p][f] \in Landed =>
        tree[finalsIn[p]][Target(p, f)] = Node(manifestFile, p, offer[p])
    /\ phase[p] \in {"review", "preparing", "rollback", "receiving"} =>
        \A d \in Destination: \A x \in Places: tree[d][x] = Node(manifestFile, p, offer[p]) =>
            d = finalsIn[p] /\ \E f \in Files(p): Target(p, f) = x /\ stream[p][f] \in Landed

\* Whose the temporary files are.
Owned(d, t) ==
    \/ fate[t.by][t.offer] = "crashed"
    \/ /\ t.offer = offer[t.by] /\ phase[t.by] = "receiving" /\ destination[t.by] = d
       /\ stream[t.by][t.path] \in {"open", "linked"}
TempsInv ==
    /\ \A d \in Destination: \A t \in staging[d]: Owned(d, t)
    /\ crashes = 0 => /\ \A p \in Process: \A n \in 1..MaxOffers[p]: fate[p][n] # "crashed"
                      /\ \A d \in folders: \E p \in Process: phase[p] = "receiving" /\ destination[p] = d
LeftoversInv(p) ==
    \A t \in staging[destination[p]]: t.by = p /\ reviewed[p] =>
        /\ phase[p] = "receiving" => t.offer = offer[p]
        /\ phase[p] \in {"review", "preparing", "rollback"} => staleStaging[p]

OfferInv(p) == PhaseInv(p) /\ PreparedInv(p) /\ CreatedInv(p) /\ KeptInv(p) /\ FilesInv(p) /\ LeftoversInv(p)
Inv == TreeInv /\ TempsInv /\ \A p \in Process: OfferInv(p)
---------------------------------------------------------------------------
(* Manifests and final paths                                               *)

LEMMA EntryIs ==
    ASSUME NEW p \in Process, NEW i \in DOMAIN Entries[p]
    PROVE  /\ DOMAIN Entries[p] = 1..Len(Entries[p]) /\ Len(Entries[p]) \in Nat
           /\ Entries[p][i].path \in Paths /\ Entries[p][i].path[1] \in Names
           /\ Entries[p][i].kind \in {manifestFile, manifestFolder}
<1>1. Entries[p] \in Seq([path: Seq(Seq(Nat)), kind: {manifestFile, manifestFolder}]) /\ IsApproved(Entries[p])
  BY EntriesAssumption
<1>2. IsPath(Entries[p][i].path)
  BY <1>1 DEF IsApproved
<1>3. Entries[p][i].path \in Paths /\ 1 \in DOMAIN Entries[p][i].path
  BY <1>2, PathIs
<1>5. Entries[p][i].path[1] \in Names
  BY <1>2, PathIs
<1>6. Entries[p][i].kind \in {manifestFile, manifestFolder}
  BY <1>1 DEF IsApproved
<1>7. DOMAIN Entries[p] = 1..Len(Entries[p]) /\ Len(Entries[p]) \in Nat
  BY <1>1
<1> QED BY <1>3, <1>5, <1>6, <1>7

\* What an entry is in is a folder of the manifest.
LEMMA ParentIs ==
    ASSUME NEW p \in Process, NEW i \in DOMAIN Entries[p], NEW y \in Ancestors(Entries[p][i].path)
    PROVE  \E j \in DOMAIN Entries[p]: Entries[p][j].path = y /\ Entries[p][j].kind = manifestFolder
<1>1. IsApproved(Entries[p])
  BY EntriesAssumption
<1> QED BY <1>1 DEF IsApproved

\* The keys of the roots are different.
LEMMA RootsDiffer ==
    ASSUME NEW p \in Process
    PROVE  /\ DOMAIN Roots(p) = {j \in DOMAIN Entries[p]: Len(Entries[p][j].path) = 1}
           /\ \A i \in DOMAIN Roots(p): Roots(p)[i] \in Names /\ Roots(p)[i] = Entries[p][i].path[1]
           /\ \A i, j \in DOMAIN Roots(p): Key(Roots(p)[i]) = Key(Roots(p)[j]) => i = j
<1>1. DOMAIN Roots(p) = {j \in DOMAIN Entries[p]: Len(Entries[p][j].path) = 1}
  BY DEF Roots, IsTopLevel
<1>2. \A i \in DOMAIN Roots(p): Roots(p)[i] = Entries[p][i].path[1]
  BY DEF Roots
<1>3. \A i \in DOMAIN Roots(p): Roots(p)[i] \in Names
  BY <1>1, <1>2, EntryIs
<1>4. \A i, j \in DOMAIN Roots(p): Key(Roots(p)[i]) = Key(Roots(p)[j]) => i = j
  <2> SUFFICES ASSUME NEW i \in DOMAIN Roots(p), NEW j \in DOMAIN Roots(p), Key(Roots(p)[i]) = Key(Roots(p)[j])
               PROVE  i = j
    OBVIOUS
  <2> DEFINE a == Entries[p][i].path
             b == Entries[p][j].path
  <2>1. DOMAIN a = {1} /\ DOMAIN b = {1}
    <3>1. a \in Paths /\ b \in Paths /\ Len(a) = 1 /\ Len(b) = 1
      BY <1>1, EntryIs
    <3> QED BY <3>1 DEF Paths
  <2>2. [a[1] EXCEPT ![1] = Fold[a[1][1]]] = [b[1] EXCEPT ![1] = Fold[b[1][1]]]
    BY <1>2 DEF Key, manifestPathKey
  <2>3. manifestPathKey(a) = manifestPathKey(b)
    BY <2>1, <2>2 DEF manifestPathKey
  <2> QED BY <1>1, <2>3, EntriesAssumption DEF IsApproved
<1> QED BY <1>1, <1>2, <1>3, <1>4

\* The number of the root that a path of the manifest is in.
RootOf(p, path) == CHOOSE i \in DOMAIN Roots(p): Key(Roots(p)[i]) = Key(path[1])

LEMMA RootOfIs ==
    ASSUME NEW p \in Process, NEW i \in DOMAIN Entries[p]
    PROVE  LET path == Entries[p][i].path IN
           /\ RootOf(p, path) \in DOMAIN Roots(p)
           /\ Key(Roots(p)[RootOf(p, path)]) = Key(path[1])
           /\ Len(path) = 1 => RootOf(p, path) = i
<1> DEFINE path == Entries[p][i].path
<1>1. path \in Paths /\ Len(path) \in Nat \ {0}
  BY EntryIs DEF Paths
<1>2. \E r \in DOMAIN Roots(p): Key(Roots(p)[r]) = Key(path[1]) /\ (Len(path) = 1 => r = i)
  <2>1. CASE Len(path) = 1
    BY <2>1, RootsDiffer
  <2>2. CASE Len(path) # 1
    <3>1. Root(path) \in Ancestors(path) /\ Len(Root(path)) = 1
      BY <1>1, <2>2, RootIs
    <3>2. PICK j \in DOMAIN Entries[p]: Entries[p][j].path = Root(path)
      BY <3>1, ParentIs
    <3>3. Root(path)[1] = path[1]
      BY DEF Root
    <3>4. j \in DOMAIN Roots(p) /\ Roots(p)[j] = path[1]
      <4>1. Len(Entries[p][j].path) = 1 /\ Entries[p][j].path[1] = path[1]
        BY <3>1, <3>2, <3>3
      <4>2. j \in DOMAIN Roots(p)
        BY <4>1, RootsDiffer
      <4> QED BY <4>1, <4>2, RootsDiffer
    <3> QED BY <2>2, <3>4
  <2> QED BY <2>1, <2>2
<1>3. RootOf(p, path) \in DOMAIN Roots(p) /\ Key(Roots(p)[RootOf(p, path)]) = Key(path[1])
  BY <1>2 DEF RootOf
<1> HIDE DEF path
<1>4. Len(path) = 1 => RootOf(p, path) = i
  <2> SUFFICES ASSUME Len(path) = 1 PROVE RootOf(p, path) = i
    OBVIOUS
  <2>1. i \in DOMAIN Roots(p) /\ Key(Roots(p)[i]) = Key(path[1])
    BY <1>2
  <2>2. Key(Roots(p)[RootOf(p, path)]) = Key(Roots(p)[i])
    BY <1>3, <2>1
  <2> QED BY <1>3, <2>1, <2>2, RootsDiffer
<1> QED BY <1>3, <1>4 DEF path
\* The final path of an entry, for given final names of the roots.
PlaceOf(p, F, i) == incomingPath(Roots(p), F, Entries[p][i].path)
NameOf(p, F, i) == F[RootOf(p, Entries[p][i].path)]
FinalsOf(p) == [DOMAIN Roots(p) -> FinalNames \cup {<< >>}]

LEMMA PlaceIs ==
    ASSUME NEW p \in Process, NEW i \in DOMAIN Entries[p], NEW F
    PROVE  /\ FinalOf(Roots(p), F, Entries[p][i].path[1]) = NameOf(p, F, i)
           /\ PlaceOf(p, F, i) = [Entries[p][i].path EXCEPT ![1] = NameOf(p, F, i)]
BY DEF PlaceOf, NameOf, RootOf, incomingPath, FinalOf

LEMMA FinalNameIs ==
    ASSUME NEW n \in FinalNames
    PROVE  n \in Names /\ n # << >> /\ n \in Seq(Nat)
<1>0. PICK p \in Process: \E i \in DOMAIN Roots(p), k \in 0..MaxSuffix: n = Candidate(Roots(p)[i], k)
  BY DEF FinalNames, RootNames
<1>1. PICK i \in DOMAIN Roots(p), k \in 0..MaxSuffix: n = Candidate(Roots(p)[i], k)
  BY <1>0
<1>2. k \in Nat
  BY ProcessAssumption
<1>3. Roots(p)[i] \in Names
  BY RootsDiffer
<1> QED BY <1>1, <1>2, <1>3, CandidateIs DEF Names

LEMMA PlacesArePaths ==
    ASSUME NEW x \in Places
    PROVE  x \in Paths /\ x[1] \in FinalNames
<1>0. PICK p \in Process: \E i \in DOMAIN Entries[p], n \in FinalNames: x = [Entries[p][i].path EXCEPT ![1] = n]
  BY DEF Places, ToSet
<1>1. PICK i \in DOMAIN Entries[p], n \in FinalNames: x = [Entries[p][i].path EXCEPT ![1] = n]
  BY <1>0
<1>2. Entries[p][i].path \in Paths /\ n \in Seq(Nat)
  BY EntryIs, FinalNameIs
<1>3. 1 \in 1..Len(Entries[p][i].path) /\ Entries[p][i].path \in Seq(Seq(Nat))
  BY <1>2 DEF Paths
<1> QED BY <1>1, <1>2, <1>3 DEF Paths

LEMMA ResolvedPlace ==
    ASSUME NEW p \in Process, NEW i \in DOMAIN Entries[p], NEW F \in FinalsOf(p), NameOf(p, F, i) # << >>
    PROVE  /\ PlaceOf(p, F, i) \in Places /\ NameOf(p, F, i) \in FinalNames
           /\ PlaceOf(p, F, i) \in Paths
           /\ Len(PlaceOf(p, F, i)) = Len(Entries[p][i].path)
           /\ PlaceOf(p, F, i)[1] = NameOf(p, F, i)
           /\ \A k \in 2..Len(Entries[p][i].path): PlaceOf(p, F, i)[k] = Entries[p][i].path[k]
<1>1. NameOf(p, F, i) \in FinalNames
  BY RootOfIs DEF FinalsOf, NameOf
<1>2. PlaceOf(p, F, i) = [Entries[p][i].path EXCEPT ![1] = NameOf(p, F, i)]
  BY PlaceIs
<1>3. PlaceOf(p, F, i) \in Places
  BY <1>1, <1>2 DEF Places, ToSet
<1>4. Entries[p][i].path \in Seq(Seq(Nat)) /\ 1 \in 1..Len(Entries[p][i].path) /\ NameOf(p, F, i) \in Seq(Nat)
  BY <1>1, EntryIs, FinalNameIs DEF Paths
<1>5. /\ Len(PlaceOf(p, F, i)) = Len(Entries[p][i].path)
      /\ PlaceOf(p, F, i)[1] = NameOf(p, F, i)
      /\ \A k \in 2..Len(Entries[p][i].path): PlaceOf(p, F, i)[k] = Entries[p][i].path[k]
  BY <1>2, <1>4
<1> QED BY <1>1, <1>3, <1>5, PlacesArePaths

\* The folders that the final path of an entry is in are final paths of the
\* folders that the entry is in.
LEMMA ParentPlace ==
    ASSUME NEW p \in Process, NEW i \in DOMAIN Entries[p], NEW F \in FinalsOf(p), NameOf(p, F, i) # << >>,
           NEW y \in Ancestors(PlaceOf(p, F, i))
    PROVE  \E j \in DOMAIN Entries[p]:
               /\ Entries[p][j].kind = manifestFolder /\ Len(Entries[p][j].path) < Len(Entries[p][i].path)
               /\ PlaceOf(p, F, j) = y /\ NameOf(p, F, j) = NameOf(p, F, i)
<1> DEFINE path == Entries[p][i].path
           x == PlaceOf(p, F, i)
<1>1. path \in Paths /\ x \in Paths /\ Len(x) = Len(path) /\ Len(path) \in Nat
  BY EntryIs, ResolvedPlace DEF Paths
<1>2. x[1] = NameOf(p, F, i) /\ \A k \in 2..Len(path): x[k] = path[k]
  BY ResolvedPlace
<1>3. /\ y \in Paths /\ Len(y) \in 1..(Len(x) - 1) /\ y[1] = x[1]
      /\ \A k \in 1..Len(y): y[k] = x[k]
  BY <1>1, AncestorIs
<1> DEFINE z == SubSeq(path, 1, Len(y))
<1>4. z \in Ancestors(path)
  BY <1>1, <1>3 DEF Ancestors
<1>5. z \in Paths /\ Len(z) = Len(y) /\ z[1] = path[1] /\ \A k \in 1..Len(z): z[k] = path[k]
  <2>1. path \in Seq(Seq(Nat)) /\ Len(y) \in 1..Len(path)
    BY <1>1, <1>3 DEF Paths
  <2> QED BY <1>1, <1>4, <2>1, AncestorIs
<1>6. PICK j \in DOMAIN Entries[p]: Entries[p][j].path = z /\ Entries[p][j].kind = manifestFolder
  BY <1>4, ParentIs
<1>7. NameOf(p, F, j) = NameOf(p, F, i)
  BY <1>5, <1>6 DEF NameOf, RootOf
<1>8. PlaceOf(p, F, j) = y
  <2>1. /\ PlaceOf(p, F, j) \in Paths /\ Len(PlaceOf(p, F, j)) = Len(y)
        /\ PlaceOf(p, F, j)[1] = x[1]
        /\ \A k \in 2..Len(y): PlaceOf(p, F, j)[k] = z[k]
    BY <1>2, <1>5, <1>6, <1>7, ResolvedPlace
  <2>2. \A k \in 1..Len(y): PlaceOf(p, F, j)[k] = y[k]
    BY <1>1, <1>2, <1>3, <1>5, <2>1
  <2> HIDE DEF x, z
  <2> QED BY <1>3, <2>1, <2>2, SamePath
<1> QED BY <1>1, <1>3, <1>5, <1>6, <1>7, <1>8

\* Entries have different final paths when the roots have different final names.
LEMMA PlacesDiffer ==
    ASSUME NEW p \in Process, NEW i \in DOMAIN Entries[p], NEW j \in DOMAIN Entries[p], NEW F \in FinalsOf(p),
           \A r, s \in DOMAIN Roots(p): F[r] # << >> /\ F[r] = F[s] => r = s,
           NameOf(p, F, i) # << >>, NameOf(p, F, j) # << >>, PlaceOf(p, F, i) = PlaceOf(p, F, j)
    PROVE  i = j
<1> DEFINE a == Entries[p][i].path
           b == Entries[p][j].path
<1>1. Len(a) = Len(b) /\ a \in Paths /\ b \in Paths /\ \A k \in 2..Len(a): a[k] = b[k]
  BY ResolvedPlace, EntryIs
<1>2. RootOf(p, a) = RootOf(p, b)
  <2>1. F[RootOf(p, a)] = F[RootOf(p, b)]
    BY ResolvedPlace DEF NameOf
  <2> QED BY <2>1, RootOfIs DEF NameOf
<1>3. Key(a[1]) = Key(b[1])
  BY <1>2, RootOfIs
<1>4. [a[1] EXCEPT ![1] = Fold[a[1][1]]] = [b[1] EXCEPT ![1] = Fold[b[1][1]]]
  <2>1. \A n: Key(n) = [n EXCEPT ![1] = Fold[n[1]]]
    BY DEF Key, manifestPathKey
  <2> HIDE DEF a, b
  <2> QED BY <1>3, <2>1
<1>5. DOMAIN a = 1..Len(a) /\ DOMAIN b = 1..Len(a) /\ Len(a) \in Nat
  BY <1>1 DEF Paths
<1>6. \A k \in 1..Len(a): [a[k] EXCEPT ![1] = Fold[a[k][1]]] = [b[k] EXCEPT ![1] = Fold[b[k][1]]]
  <2> SUFFICES ASSUME NEW k \in 1..Len(a)
               PROVE  [a[k] EXCEPT ![1] = Fold[a[k][1]]] = [b[k] EXCEPT ![1] = Fold[b[k][1]]]
    OBVIOUS
  <2>1. k = 1 \/ k \in 2..Len(a)
    BY <1>5
  <2>2. k \in 2..Len(a) => a[k] = b[k]
    BY <1>1
  <2> HIDE DEF a, b
  <2> QED BY <1>4, <2>1, <2>2
<1>7. manifestPathKey(a) = manifestPathKey(b)
  BY <1>5, <1>6 DEF manifestPathKey
<1>8. IsApproved(Entries[p])
  BY EntriesAssumption
<1> QED BY <1>7, <1>8 DEF IsApproved
---------------------------------------------------------------------------
(* Final names                                                             *)

\* The names that the offers can be given are finitely many.
LEMMA FinalNamesFinite == IsFiniteSet({Key(n): n \in FinalNames})
<1>1. \A p \in Process: IsFiniteSet({Roots(p)[i]: i \in DOMAIN Roots(p)})
  <2> SUFFICES ASSUME NEW p \in Process PROVE IsFiniteSet({Roots(p)[i]: i \in DOMAIN Roots(p)})
    OBVIOUS
  <2>1. Entries[p] \in Seq([path: Seq(Seq(Nat)), kind: {manifestFile, manifestFolder}])
    BY EntriesAssumption
  <2>2. DOMAIN Roots(p) \in SUBSET (1..Len(Entries[p])) /\ Len(Entries[p]) \in Int
    BY <2>1 DEF Roots
  <2>3. IsFiniteSet(DOMAIN Roots(p))
    <3>1. IsFiniteSet(1..Len(Entries[p]))
      BY <2>2, FS_Interval
    <3> QED BY <2>2, <3>1, FS_Subset
  <2>4. Roots(p) \in [DOMAIN Roots(p) -> Names]
    BY RootsDiffer DEF Roots
  <2> QED BY <2>3, <2>4, FiniteImage
<1>2. IsFiniteSet(RootNames)
  <2> DEFINE g == [p \in Process |-> {Roots(p)[i]: i \in DOMAIN Roots(p)}]
  <2>1. IsFiniteSet({g[p]: p \in Process})
    <3> DEFINE img == {g[p]: p \in Process}
    <3>1. g \in Surjection(Process, img)
      BY DEF Surjection
    <3>2. IsFiniteSet(Process)
      BY ProcessAssumption
    <3> HIDE DEF g, img
    <3>3. IsFiniteSet(img)
      BY <3>1, <3>2, FS_Surjection
    <3> QED BY <3>3 DEF img
  <2>2. \A T \in {g[p]: p \in Process}: IsFiniteSet(T)
    BY <1>1
  <2>3. RootNames = UNION {g[p]: p \in Process}
    BY DEF RootNames
  <2> HIDE DEF g
  <2> QED BY <2>1, <2>2, <2>3, FS_UNION
<1>3. IsFiniteSet(FinalNames)
  <2> DEFINE D == RootNames \X (0..MaxSuffix)
             c == [x \in D |-> Candidate(x[1], x[2])]
  <2>1. IsFiniteSet(D)
    <3>1. IsFiniteSet(0..MaxSuffix)
      BY FS_Interval, ProcessAssumption
    <3> QED BY <1>2, <3>1, FS_Product
  <2>2. c \in [D -> {c[x]: x \in D}]
    OBVIOUS
  <2>3. FinalNames = {c[x]: x \in D}
    <3>1. \A r \in RootNames, k \in 0..MaxSuffix: <<r, k>> \in D /\ c[<<r, k>>] = Candidate(r, k)
      OBVIOUS
    <3>2. \A x \in D: \E r \in RootNames, k \in 0..MaxSuffix: c[x] = Candidate(r, k)
      OBVIOUS
    <3> HIDE DEF c, D
    <3>3. \A n \in FinalNames: \E x \in D: n = c[x]
      <4> SUFFICES ASSUME NEW n \in FinalNames PROVE \E x \in D: n = c[x]
        OBVIOUS
      <4>1. PICK r \in RootNames, k \in 0..MaxSuffix: n = Candidate(r, k)
        BY DEF FinalNames
      <4> QED BY <3>1, <4>1
    <3>4. \A x \in D: c[x] \in FinalNames
      BY <3>2 DEF FinalNames
    <3> QED BY <3>3, <3>4
  <2> DEFINE img == {c[x]: x \in D}
  <2>4. IsFiniteSet(img)
    <3>1. c \in [D -> img]
      BY <2>2
    <3> HIDE DEF c, D
    <3> QED BY <2>1, <3>1, FiniteImage
  <2> QED BY <2>3, <2>4
<1> DEFINE k == [n \in FinalNames |-> Key(n)]
<1>4. {Key(n): n \in FinalNames} = {k[n]: n \in FinalNames}
  OBVIOUS
<1>5. IsFiniteSet({k[n]: n \in FinalNames})
  <2> DEFINE img == {k[n]: n \in FinalNames}
  <2>1. k \in Surjection(FinalNames, img)
    BY DEF Surjection
  <2> HIDE DEF k, img
  <2>2. IsFiniteSet(img)
    BY <1>3, <2>1, FS_Surjection
  <2> QED BY <2>2 DEF img
<1> QED BY <1>4, <1>5

\* resolveIncomingPaths gives different names to the roots of an offer.
LEMMA ResolvedNamesDiffer ==
    ASSUME NEW p \in Process, NEW reserved \in SUBSET {Key(n): n \in FinalNames},
           NEW F \in resolveRoots(Roots(p), reserved, FinalNames)
    PROVE  /\ F \in FinalsOf(p)
           /\ \A i, j \in DOMAIN Roots(p): F[i] # << >> /\ F[i] = F[j] => i = j
<1>1. F \in FinalsOf(p) /\ \A i \in DOMAIN Roots(p): ResolvedRoot(F, Roots(p), reserved, i)
  BY DEF resolveRoots, FinalsOf
<1>2. \A i, j \in DOMAIN Roots(p): j < i /\ F[i] # << >> => F[j] # F[i]
  <2> SUFFICES ASSUME NEW i \in DOMAIN Roots(p), NEW j \in DOMAIN Roots(p), j < i, F[i] # << >>, F[j] = F[i]
               PROVE  FALSE
    OBVIOUS
  <2> DEFINE before == {m \in DOMAIN Roots(p): m < i}
             taken == reserved \cup {Key(F[m]): m \in before}
  <2>1. /\ \A m \in before: F[m] # << >>
        /\ F[i] = resolveFinalPath(Roots(p)[i], taken)
    BY <1>1 DEF ResolvedRoot
  <2>2. \A m \in before: F[m] \in FinalNames
    BY <1>1, <2>1 DEF FinalsOf
  <2>3. taken \in SUBSET {Key(n): n \in FinalNames}
    BY <2>2
  <2>4. IsFiniteSet(taken)
    <3> HIDE DEF taken
    <3> QED BY <2>3, FinalNamesFinite, FS_Subset
  <2>5. Key(F[j]) \in taken
    OBVIOUS
  <2>6. Roots(p)[i] \in Names
    BY RootsDiffer
  <2> HIDE DEF taken
  <2> QED BY <2>1, <2>4, <2>5, <2>6, ResolvedIsFree
<1>3. \A i \in DOMAIN Roots(p): i \in Nat
  <2>1. Entries[p] \in Seq([path: Seq(Seq(Nat)), kind: {manifestFile, manifestFolder}])
    BY EntriesAssumption
  <2> QED BY <2>1 DEF Roots
<1>4. \A i, j \in DOMAIN Roots(p): F[i] # << >> /\ F[i] = F[j] => i = j
  BY <1>2, <1>3
<1> QED BY <1>1, <1>4
---------------------------------------------------------------------------
(* The tree                                                                *)

Nodes == [kind: {"absent", manifestFile, manifestFolder}, by: Process \cup {"user"}, offer: Nat]

\* A step of p puts something of its running offer into a folder of that offer,
\* or the user something into any folder.
Adds(p, d, x) ==
    /\ ~Exists(d, x)
    /\ \A y \in Ancestors(x): y \in Places /\ tree[d][y] = Node(manifestFolder, p, offer[p])
    /\ \E k \in {manifestFile, manifestFolder}: tree' = [tree EXCEPT ![d][x] = Node(k, p, offer[p])]
UserAdds(d, x) ==
    /\ ~Exists(d, x) /\ HasParent(d, x)
    /\ tree' = [tree EXCEPT ![d][x] = Node(manifestFile, "user", 0)]
\* p removes a file or an empty folder of its running offer.
Removes(p, d, x) ==
    /\ tree[d][x].by = p /\ tree[d][x].offer = offer[p] /\ Children(d, x) = {}
    /\ tree' = [tree EXCEPT ![d][x] = Absent]

TreeStep(p) ==
    \/ tree' = tree
    \/ \E d \in Destination, x \in Places: Adds(p, d, x)
    \/ \E d \in Destination, x \in Places: Removes(p, d, x)

LEMMA AbsentIs == Absent \in Nodes /\ Absent.by = "user" /\ Absent.kind = "absent"
BY DEF Absent, Nodes

LEMMA NodeIs ==
    ASSUME NEW k \in {manifestFile, manifestFolder}, NEW p \in Process \cup {"user"}, NEW n \in Nat
    PROVE  /\ Node(k, p, n) \in Nodes /\ Node(k, p, n) # Absent
           /\ Node(k, p, n).kind = k /\ Node(k, p, n).by = p /\ Node(k, p, n).offer = n
BY DEF Node, Nodes, Absent, manifestFile, manifestFolder

LEMMA TreeType ==
    ASSUME TypeOK
    PROVE  /\ tree \in [Destination -> [Places -> Nodes]]
           /\ \A p \in Process: offer[p] \in Nat
BY DEF TypeOK, Nodes

\* What one change of a tree does.
LEMMA TreeExcept ==
    ASSUME TypeOK, NEW d \in Destination, NEW x \in Places, NEW n \in Nodes,
           tree' = [tree EXCEPT ![d][x] = n]
    PROVE  /\ tree' \in [Destination -> [Places -> Nodes]]
           /\ tree'[d][x] = n
           /\ \A e \in Destination: \A y \in Places: (e # d \/ y # x) => tree'[e][y] = tree[e][y]
BY TreeType

\* Everything above a place is a place.
LEMMA AboveIsPlace ==
    ASSUME NEW x \in Places, NEW y \in Ancestors(x)
    PROVE  y \in Paths /\ x \in Paths /\ y # x /\ x \notin Ancestors(y) /\ Root(y) = Root(x) /\ Root(x) \in Paths
BY PlacesArePaths, AncestorIs, AncestorsChain, RootIs

\* Nothing is above itself, and a root is the only one of its tree.
LEMMA RootOfPlace ==
    ASSUME NEW x \in Places
    PROVE  x \in Paths /\ x \notin Ancestors(x) /\ (Root(x) = x \/ Root(x) \in Ancestors(x)) /\ Root(Root(x)) = Root(x)
<1>1. x \in Paths
  BY PlacesArePaths
<1>2. x \notin Ancestors(x)
  <2>1. \A y \in Ancestors(x): y # x
    BY <1>1, AncestorsChain
  <2> QED BY <2>1
<1> QED BY <1>1, <1>2, RootIs

\* What belongs to one tree belongs to one offer.
LEMMA OneOwner ==
    ASSUME TypeOK, TreeInv, NEW d \in Destination, NEW x \in Places, NEW y \in Places,
           x \in Ancestors(y), Exists(d, y), tree[d][y].by \in Process, tree[d][x].by \in Process
    PROVE  Exists(d, x) /\ tree[d][x].by = tree[d][y].by /\ tree[d][x].offer = tree[d][y].offer
<1>1. Root(x) = Root(y)
  BY AboveIsPlace
<1>2. Exists(d, x)
  BY AbsentIs, ProcessAssumption DEF Exists
<1> QED BY <1>1, <1>2 DEF TreeInv

\* TreeInv, for one path.
TreeInvAt(d, x) ==
    LET n == tree[d][x] IN
    /\ n.kind # "absent" /\ HasParent(d, x)
    /\ n.by \in Process => /\ n.offer \in 1..offer[n.by]
                           /\ Root(x) \in Places
                           /\ tree[d][Root(x)].by = n.by /\ tree[d][Root(x)].offer = n.offer
    /\ n.kind = manifestFolder => n.by \in Process

\* A path stays right when nothing above it is removed.
LEMMA TreeInvAtKept ==
    ASSUME TypeOK, \A p \in Process: offer'[p] \in Nat /\ offer[p] <= offer'[p],
           NEW d \in Destination, NEW x \in Places, TreeInvAt(d, x), tree'[d][x] = tree[d][x],
           \A y \in Places: y \in Ancestors(x) => tree'[d][y] = tree[d][y]
    PROVE  TreeInvAt(d, x)'
<1>1. HasParent(d, x)'
  BY DEF TreeInvAt, HasParent
<1>2. Root(x) \in Places => tree'[d][Root(x)] = tree[d][Root(x)]
  BY RootOfPlace
<1>3. tree[d][x].by \in Process => tree[d][x].offer \in 1..offer'[tree[d][x].by]
  BY TreeType DEF TreeInvAt
<1> QED BY <1>1, <1>2, <1>3 DEF TreeInvAt

LEMMA TreeSame ==
    ASSUME TypeOK, TreeInv, tree' = tree, \A p \in Process: offer'[p] \in Nat /\ offer[p] <= offer'[p]
    PROVE  TreeInv'
<1> SUFFICES ASSUME NEW d \in Destination, NEW x \in Places, Exists(d, x)' PROVE TreeInvAt(d, x)'
  BY DEF TreeInv, TreeInvAt
<1>1. TreeInvAt(d, x)
  BY DEF TreeInv, TreeInvAt, Exists
<1> QED BY <1>1, TreeInvAtKept

LEMMA TreeAdded ==
    ASSUME TypeOK, TreeInv, UNCHANGED offer, NEW d \in Destination, NEW x \in Places,
           NEW n \in Nodes, n.kind # "absent", n.kind = manifestFolder => n.by \in Process,
           tree' = [tree EXCEPT ![d][x] = n], ~Exists(d, x), HasParent(d, x),
           n.by \in Process => /\ n.offer \in 1..offer[n.by]
                               /\ \A y \in Ancestors(x): tree[d][y].by = n.by /\ tree[d][y].offer = n.offer
    PROVE  TreeInv'
<1> SUFFICES ASSUME NEW e \in Destination, NEW z \in Places, Exists(e, z)' PROVE TreeInvAt(e, z)'
  BY DEF TreeInv, TreeInvAt
<1>1. /\ tree'[d][x] = n
      /\ \A a \in Destination: \A y \in Places: (a # d \/ y # x) => tree'[a][y] = tree[a][y]
  BY TreeType
<1>2. \A p \in Process: offer'[p] \in Nat /\ offer[p] <= offer'[p]
  BY TreeType
<1>3. tree[d][x].kind = "absent"
  BY AbsentIs DEF Exists
<1>4. CASE e = d /\ z = x
  <2>1. HasParent(d, x)'
    <3>1. \A y \in Ancestors(x): y \in Places /\ y # x /\ tree[d][y].kind = manifestFolder
      BY AboveIsPlace DEF HasParent
    <3> QED BY <1>1, <3>1 DEF HasParent
  <2>2. Root(x) \in Places /\ (n.by \in Process => tree'[d][Root(x)].by = n.by /\ tree'[d][Root(x)].offer = n.offer)
    <3>1. CASE Root(x) = x
      BY <1>1, <3>1
    <3>2. CASE Root(x) \in Ancestors(x)
      <4>1. Root(x) \in Places /\ Root(x) # x
        BY <3>2, RootOfPlace DEF HasParent
      <4> QED BY <1>1, <3>2, <4>1
    <3> QED BY <3>1, <3>2, RootOfPlace
  <2> QED BY <1>1, <1>4, <2>1, <2>2 DEF TreeInvAt
<1>5. CASE e # d \/ z # x
  <2>1. tree'[e][z] = tree[e][z] /\ Exists(e, z)
    BY <1>1, <1>5 DEF Exists
  <2>2. TreeInvAt(e, z)
    BY <2>1 DEF TreeInv, TreeInvAt
  <2>3. \A y \in Places: y \in Ancestors(z) => tree[e][y].kind = manifestFolder
    BY <2>2 DEF TreeInvAt, HasParent
  <2>4. \A y \in Places: y \in Ancestors(z) => tree'[e][y] = tree[e][y]
    BY <1>1, <1>3, <2>3 DEF manifestFolder
  <2> QED BY <1>2, <2>1, <2>2, <2>4, TreeInvAtKept
<1> QED BY <1>4, <1>5

LEMMA TreeRemoved ==
    ASSUME TypeOK, TreeInv, UNCHANGED offer, NEW d \in Destination, NEW x \in Places,
           tree' = [tree EXCEPT ![d][x] = Absent], Children(d, x) = {}
    PROVE  TreeInv'
<1> SUFFICES ASSUME NEW e \in Destination, NEW z \in Places, Exists(e, z)' PROVE TreeInvAt(e, z)'
  BY DEF TreeInv, TreeInvAt
<1>1. /\ tree'[d][x] = Absent
      /\ \A a \in Destination: \A y \in Places: (a # d \/ y # x) => tree'[a][y] = tree[a][y]
  <2>1. Absent \in Nodes
    BY AbsentIs
  <2> QED BY <2>1, TreeType
<1>2. \A p \in Process: offer'[p] \in Nat /\ offer[p] <= offer'[p]
  BY TreeType
<1>3. e # d \/ z # x
  BY <1>1 DEF Exists
<1>4. tree'[e][z] = tree[e][z] /\ Exists(e, z)
  BY <1>1, <1>3 DEF Exists
<1>5. TreeInvAt(e, z)
  BY <1>4 DEF TreeInv, TreeInvAt
<1>6. \A y \in Places: y \in Ancestors(z) => tree'[e][y] = tree[e][y]
  BY <1>1, <1>4 DEF Children
<1> QED BY <1>2, <1>4, <1>5, <1>6, TreeInvAtKept

LEMMA TreeStepKeeps ==
    ASSUME TypeOK, TreeInv, UNCHANGED offer, NEW p \in Process, offer[p] >= 1, TreeStep(p)
    PROVE  TreeInv'
<1>1. offer[p] \in Nat
  BY TreeType
<1>2. CASE tree' = tree
  BY <1>2, TreeSame, TreeType
<1>3. ASSUME NEW d \in Destination, NEW x \in Places, Adds(p, d, x) PROVE TreeInv'
  <2>1. PICK k \in {manifestFile, manifestFolder}: tree' = [tree EXCEPT ![d][x] = Node(k, p, offer[p])]
    BY <1>3 DEF Adds
  <2>2. /\ Node(k, p, offer[p]) \in Nodes /\ Node(k, p, offer[p]).kind = k
        /\ Node(k, p, offer[p]).by = p /\ Node(k, p, offer[p]).offer = offer[p]
    BY <1>1, NodeIs
  <2>3. /\ Node(manifestFolder, p, offer[p]).kind = manifestFolder
        /\ Node(manifestFolder, p, offer[p]).by = p /\ Node(manifestFolder, p, offer[p]).offer = offer[p]
    BY <1>1, NodeIs
  <2>4. /\ ~Exists(d, x) /\ HasParent(d, x)
        /\ \A y \in Ancestors(x): tree[d][y].by = p /\ tree[d][y].offer = offer[p]
    BY <1>3, <2>3 DEF Adds, HasParent
  <2>5. k # "absent" /\ offer[p] \in 1..offer[p]
    BY <1>1 DEF manifestFile, manifestFolder
  <2> DEFINE n == Node(k, p, offer[p])
  <2> HIDE DEF n
  <2> QED BY <2>1, <2>2, <2>4, <2>5, TreeAdded DEF n
<1>4. ASSUME NEW d \in Destination, NEW x \in Places, Removes(p, d, x) PROVE TreeInv'
  BY <1>4, TreeRemoved DEF Removes
<1> QED BY <1>2, <1>3, <1>4 DEF TreeStep

LEMMA UserAddsKeeps ==
    ASSUME TypeOK, TreeInv, UNCHANGED offer, NEW d \in Destination, NEW x \in Places, UserAdds(d, x)
    PROVE  TreeInv'
<1> DEFINE n == Node(manifestFile, "user", 0)
<1>1. n \in Nodes /\ n.kind = manifestFile /\ n.by = "user"
  BY NodeIs
<1>2. n.kind # "absent" /\ n.kind # manifestFolder /\ n.by \notin Process
  BY <1>1, ProcessAssumption DEF manifestFile, manifestFolder
<1>3. tree' = [tree EXCEPT ![d][x] = n] /\ ~Exists(d, x) /\ HasParent(d, x)
  BY DEF UserAdds
<1> HIDE DEF n
<1> QED BY <1>1, <1>2, <1>3, TreeAdded
---------------------------------------------------------------------------
(* What is prepared                                                        *)

LEMMA FinalsType ==
    ASSUME TypeOK, NEW p \in Process
    PROVE  finals[p] \in FinalsOf(p) /\ finalsIn[p] \in Destination /\ destination[p] \in Destination
BY DEF TypeOK, FinalsOf

LEMMA FileIs ==
    ASSUME NEW p \in Process, NEW f \in Files(p)
    PROVE  \E i \in DOMAIN Entries[p]: Entries[p][i].kind = manifestFile /\ Entries[p][i].path = f
BY DEF Files, FilesOf, ToSet

LEMMA TargetIs ==
    ASSUME NEW p \in Process, NEW i \in DOMAIN Entries[p]
    PROVE  /\ Target(p, Entries[p][i].path) = PlaceOf(p, finals[p], i)
           /\ Resolved(p, Entries[p][i].path) <=> NameOf(p, finals[p], i) # << >>
BY PlaceIs DEF Target, PlaceOf, Resolved

\* An offer whose preparation has ended has a final name for every root.
LEMMA AllResolved ==
    ASSUME TypeOK, NEW p \in Process, PhaseInv(p), PreparedInv(p), phase[p] = "receiving"
    PROVE  /\ finalsIn[p] = destination[p]
           /\ \A r \in DOMAIN Roots(p): finals[p][r] # << >>
           /\ \A i \in DOMAIN Entries[p]: NameOf(p, finals[p], i) # << >>
           /\ \A i \in DOMAIN Entries[p]: Entries[p][i].kind = manifestFolder => i \in prepared[p]
<1>1. \A i \in DOMAIN Entries[p]: IsTopLevel(Entries[p][i].path) \/ Entries[p][i].kind = manifestFolder => i \in prepared[p]
  BY DEF PhaseInv, Unprepared
<1>2. \A i \in prepared[p]: finalsIn[p] = destination[p] /\ Resolved(p, Entries[p][i].path)
  BY DEF PreparedInv
<1>3. ASSUME NEW r \in DOMAIN Roots(p) PROVE r \in prepared[p] /\ finals[p][r] # << >>
  <2>1. r \in DOMAIN Entries[p] /\ Len(Entries[p][r].path) = 1
    BY RootsDiffer
  <2>2. r \in prepared[p]
    BY <1>1, <2>1 DEF IsTopLevel
  <2>3. NameOf(p, finals[p], r) # << >>
    BY <1>2, <2>1, <2>2, TargetIs
  <2>4. RootOf(p, Entries[p][r].path) = r
    BY <2>1, RootOfIs
  <2> QED BY <2>2, <2>3, <2>4 DEF NameOf
<1>4. \A i \in DOMAIN Entries[p]: NameOf(p, finals[p], i) # << >>
  BY <1>3, RootOfIs DEF NameOf
<1>5. finalsIn[p] = destination[p]
  <2>1. Entries[p] \in Seq([path: Seq(Seq(Nat)), kind: {manifestFile, manifestFolder}]) /\ Entries[p] # << >>
    BY EntriesAssumption DEF IsApproved
  <2>2. 1 \in DOMAIN Entries[p]
    BY <2>1
  <2>3. RootOf(p, Entries[p][1].path) \in DOMAIN Roots(p)
    BY <2>2, RootOfIs
  <2> QED BY <1>2, <1>3, <2>3
<1> QED BY <1>1, <1>3, <1>4, <1>5

\* Where its files go: to a place of their own, in folders that it has made.
LEMMA TargetsArePlaces ==
    ASSUME TypeOK, NEW p \in Process, PhaseInv(p), PreparedInv(p), phase[p] = "receiving", NEW f \in Files(p)
    PROVE  /\ Target(p, f) \in Places
           /\ \A y \in Ancestors(Target(p, f)): Made(p, finalsIn[p], y)
           /\ \A g \in Files(p): Target(p, g) = Target(p, f) => g = f
<1>1. PICK i \in DOMAIN Entries[p]: Entries[p][i].path = f
  BY FileIs
<1>2. finals[p] \in FinalsOf(p)
  BY FinalsType
<1>3. \A j \in DOMAIN Entries[p]: NameOf(p, finals[p], j) # << >>
  BY AllResolved
<1>4. Target(p, f) = PlaceOf(p, finals[p], i)
  BY <1>1, TargetIs
<1>5. Target(p, f) \in Places
  BY <1>2, <1>3, <1>4, ResolvedPlace
<1>6. ASSUME NEW y \in Ancestors(Target(p, f)) PROVE Made(p, finalsIn[p], y)
  <2>1. PICK j \in DOMAIN Entries[p]: Entries[p][j].kind = manifestFolder /\ PlaceOf(p, finals[p], j) = y
    BY <1>2, <1>3, <1>4, ParentPlace
  <2>2. j \in prepared[p]
    BY <2>1, AllResolved
  <2>3. Target(p, Entries[p][j].path) = y
    BY <2>1, TargetIs
  <2> QED BY <2>1, <2>2, <2>3 DEF PreparedInv
<1>7. ASSUME NEW g \in Files(p), Target(p, g) = Target(p, f) PROVE g = f
  <2>1. PICK j \in DOMAIN Entries[p]: Entries[p][j].path = g
    BY FileIs
  <2>2. PlaceOf(p, finals[p], j) = PlaceOf(p, finals[p], i)
    BY <1>4, <1>7, <2>1, TargetIs
  <2>3. \A r, s \in DOMAIN Roots(p): finals[p][r] # << >> /\ finals[p][r] = finals[p][s] => r = s
    BY DEF PreparedInv
  <2>4. i = j
    BY <1>2, <1>3, <2>2, <2>3, PlacesDiffer
  <2> QED BY <1>1, <2>1, <2>4
<1> QED BY <1>5, <1>6, <1>7

LEMMA LandedIsPlace ==
    ASSUME TypeOK, NEW p \in Process, PhaseInv(p), PreparedInv(p), NEW f \in Files(p), stream[p][f] # "none"
    PROVE  phase[p] = "receiving" /\ Target(p, f) \in Places
<1>1. phase[p] = "receiving"
  BY DEF PhaseInv
<1> QED BY <1>1, TargetsArePlaces

\* Everything above the next entry to prepare is made.
LEMMA NextIsReady ==
    ASSUME TypeOK, NEW p \in Process, PreparedInv(p), phase[p] = "preparing",
           NEW i \in NextToPrepare(Entries[p], prepared[p]), Resolved(p, Entries[p][i].path)
    PROVE  LET x == Target(p, Entries[p][i].path) IN
           /\ i \in DOMAIN Entries[p] /\ x \in Places
           /\ \A y \in Ancestors(x): Made(p, finalsIn[p], y)
<1>1. i \in DOMAIN Entries[p] /\ finals[p] \in FinalsOf(p)
  BY FinalsType DEF NextToPrepare, Unprepared
<1>2. NameOf(p, finals[p], i) # << >> /\ Target(p, Entries[p][i].path) = PlaceOf(p, finals[p], i)
  BY <1>1, TargetIs
<1>3. PlaceOf(p, finals[p], i) \in Places
  BY <1>1, <1>2, ResolvedPlace
<1>4. ASSUME NEW y \in Ancestors(PlaceOf(p, finals[p], i)) PROVE Made(p, finalsIn[p], y)
  <2>1. PICK j \in DOMAIN Entries[p]: /\ Entries[p][j].kind = manifestFolder
                                      /\ Len(Entries[p][j].path) < Len(Entries[p][i].path)
                                      /\ PlaceOf(p, finals[p], j) = y
    BY <1>1, <1>2, ParentPlace
  <2>2. j \in prepared[p]
    BY <2>1 DEF NextToPrepare, Unprepared, PreparedBefore
  <2>3. Target(p, Entries[p][j].path) = y
    BY <2>1, TargetIs
  <2> QED BY <2>1, <2>2, <2>3 DEF PreparedInv
<1> QED BY <1>1, <1>2, <1>3, <1>4
---------------------------------------------------------------------------
(* The other processes                                                     *)

Same(q) ==
    /\ phase'[q] = phase[q] /\ destination'[q] = destination[q] /\ staleStaging'[q] = staleStaging[q]
    /\ finals'[q] = finals[q] /\ finalsIn'[q] = finalsIn[q] /\ reviewed'[q] = reviewed[q]
    /\ created'[q] = created[q] /\ prepared'[q] = prepared[q] /\ stream'[q] = stream[q]
    /\ offer'[q] = offer[q] /\ fate'[q] = fate[q]

\* A step leaves what is q's, and whatever is in a folder of q.
LeavesTree(q) ==
    /\ \A d \in Destination: \A x \in Places:
        tree[d][x].by = q \/ tree'[d][x].by = q => tree'[d][x] = tree[d][x]
    /\ \A d \in Destination: \A x \in Places:
        tree[d][x].by = q => \A y \in Places: x \in Ancestors(y) /\ Exists(d, y) => tree'[d][y] # Absent
LeavesTemps(q) == \A d \in Destination: \A t \in staging'[d]: t.by = q => t \in staging[d]

LEMMA TreeStepLeaves ==
    ASSUME TypeOK, TreeInv, NEW p \in Process, TreeStep(p), NEW q \in Process, q # p
    PROVE  LeavesTree(q)
<1>1. q # "user" /\ offer[p] \in Nat
  BY ProcessAssumption, TreeType
<1>2. CASE tree' = tree
  BY <1>2 DEF LeavesTree, Exists
<1>3. ASSUME NEW d \in Destination, NEW x \in Places, Adds(p, d, x) PROVE LeavesTree(q)
  <2>1. PICK k \in {manifestFile, manifestFolder}: tree' = [tree EXCEPT ![d][x] = Node(k, p, offer[p])]
    BY <1>3 DEF Adds
  <2>2. Node(k, p, offer[p]) \in Nodes /\ Node(k, p, offer[p]) # Absent /\ Node(k, p, offer[p]).by = p
    BY <1>1, NodeIs
  <2>3. /\ tree'[d][x] = Node(k, p, offer[p])
        /\ \A e \in Destination: \A y \in Places: (e # d \/ y # x) => tree'[e][y] = tree[e][y]
    BY <2>1, <2>2, TreeType
  <2>4. tree[d][x].by = "user"
    BY <1>3, AbsentIs DEF Adds, Exists
  <2> QED BY <1>1, <2>2, <2>3, <2>4 DEF LeavesTree, Exists
<1>4. ASSUME NEW d \in Destination, NEW x \in Places, Removes(p, d, x) PROVE LeavesTree(q)
  <2>1. /\ tree'[d][x] = Absent
        /\ \A e \in Destination: \A y \in Places: (e # d \/ y # x) => tree'[e][y] = tree[e][y]
    BY <1>4, AbsentIs, TreeType DEF Removes
  <2>2. tree[d][x].by = p
    BY <1>4 DEF Removes
  <2>3. \A e \in Destination: \A y \in Places:
            tree[e][y].by = q \/ tree'[e][y].by = q => tree'[e][y] = tree[e][y]
    BY <1>1, <2>1, <2>2, AbsentIs
  <2>4. ASSUME NEW y \in Places, y \in Ancestors(x), tree[d][y].by = q PROVE FALSE
    <3>1. Exists(d, x)
      BY <2>2, AbsentIs, ProcessAssumption DEF Exists
    <3> QED BY <2>2, <2>4, <3>1, OneOwner
  <2>5. ASSUME NEW e \in Destination, NEW z \in Places, tree[e][z].by = q, NEW y \in Places, z \in Ancestors(y), Exists(e, y)
        PROVE  tree'[e][y] # Absent
    BY <2>1, <2>4, <2>5 DEF Exists
  <2> QED BY <2>3, <2>5 DEF LeavesTree
<1> QED BY <1>2, <1>3, <1>4 DEF TreeStep

LEMMA UserAddsLeaves ==
    ASSUME TypeOK, NEW d \in Destination, NEW x \in Places, UserAdds(d, x), NEW q \in Process
    PROVE  LeavesTree(q)
<1> DEFINE n == Node(manifestFile, "user", 0)
<1>1. n \in Nodes /\ n # Absent /\ n.by = "user" /\ q # "user"
  BY NodeIs, ProcessAssumption
<1>2. tree' = [tree EXCEPT ![d][x] = n] /\ ~Exists(d, x)
  BY DEF UserAdds
<1> HIDE DEF n
<1>3. /\ tree'[d][x] = n
      /\ \A e \in Destination: \A y \in Places: (e # d \/ y # x) => tree'[e][y] = tree[e][y]
  BY <1>1, <1>2, TreeType
<1>4. tree[d][x].by = "user"
  BY <1>2, AbsentIs DEF Exists
<1> QED BY <1>1, <1>3, <1>4 DEF LeavesTree, Exists

\* The parts of OfferInv that say something of the tree.
LEMMA CreatedKept ==
    ASSUME NEW q \in Process, TypeOK, CreatedInv(q), created'[q] = created[q], finalsIn'[q] = finalsIn[q],
           offer'[q] = offer[q],
           \A d \in Destination: \A x \in Places: tree[d][x] = Node(manifestFolder, q, offer[q]) => tree'[d][x] = tree[d][x]
    PROVE  CreatedInv(q)'
<1>1. finalsIn[q] \in Destination /\ created[q] \in Seq(Places)
  BY DEF TypeOK
<1> QED BY <1>1 DEF CreatedInv

\* A folder that has something in it.
LEMMA ChildrenKept ==
    ASSUME NEW d \in Destination, NEW x \in Places, Children(d, x) # {},
           \A y \in Places: x \in Ancestors(y) /\ Exists(d, y) => tree'[d][y] # Absent
    PROVE  Children(d, x)' # {}
BY DEF Children, Exists

LEMMA OthersKept ==
    ASSUME NEW q \in Process, TypeOK, OfferInv(q), Same(q), LeavesTree(q), LeavesTemps(q)
    PROVE  OfferInv(q)'
<1>1. offer[q] \in Nat /\ finalsIn[q] \in Destination /\ destination[q] \in Destination
  BY DEF TypeOK
<1>2. PhaseInv(q)'
  BY DEF OfferInv, PhaseInv, Same, Running
<1>3. PreparedInv(q)'
  BY DEF OfferInv, PreparedInv, Same, Made, Resolved, Target
<1>4. CreatedInv(q)'
  <2>1. \A d \in Destination: \A x \in Places: tree[d][x] = Node(manifestFolder, q, offer[q]) => tree'[d][x] = tree[d][x]
    BY <1>1, NodeIs DEF LeavesTree
  <2> QED BY <2>1, CreatedKept DEF OfferInv, Same
<1>5. KeptInv(q)'
  <2> SUFFICES ASSUME NEW d \in Destination, NEW x \in Places, tree'[d][x].kind = manifestFolder, tree'[d][x].by = q
               PROVE  KeptAt(q, d, x)'
    BY DEF KeptInv
  <2>1. tree[d][x] = tree'[d][x] /\ \A y \in Places: x \in Ancestors(y) /\ Exists(d, y) => tree'[d][y] # Absent
    BY DEF LeavesTree
  <2>2. Children(d, x) # {} => Children(d, x)' # {}
    BY <2>1, ChildrenKept
  <2>3. /\ Made(q, d, x)' <=> Made(q, d, x)
        /\ \A y \in Places: Made(q, d, y)' <=> Made(q, d, y)
    BY DEF Made, Same
  <2>4. IsCurrent(q, d, x)' <=> IsCurrent(q, d, x)
    BY <2>1 DEF IsCurrent, Same, Running
  <2>5. KeptAt(q, d, x)
    BY <2>1 DEF OfferInv, KeptInv
  <2>6. fate'[q][tree'[d][x].offer] = fate[q][tree[d][x].offer]
    BY <2>1 DEF Same
  <2> QED BY <2>2, <2>3, <2>4, <2>5, <2>6 DEF KeptAt
<1>6. FilesInv(q)'
  <2>1. \A x: Target(q, x)' = Target(q, x)
    BY DEF Target, Same
  <2>2. \A d \in Destination: \A x \in Places:
            (tree[d][x] = Node(manifestFile, q, offer[q])) = (tree'[d][x] = Node(manifestFile, q, offer[q]))
    BY <1>1, NodeIs DEF LeavesTree
  <2>3. offer'[q] = offer[q] /\ finalsIn'[q] = finalsIn[q] /\ phase'[q] = phase[q] /\ stream'[q] = stream[q]
    BY DEF Same
  <2>4. FilesInv(q)
    BY DEF OfferInv
  <2>5. \A f \in Files(q): stream'[q][f] \in Landed =>
            tree'[finalsIn'[q]][Target(q, f)'] = Node(manifestFile, q, offer'[q])
    <3> SUFFICES ASSUME NEW f \in Files(q), stream[q][f] \in Landed
                 PROVE  tree'[finalsIn[q]][Target(q, f)] = Node(manifestFile, q, offer[q])
      BY <2>1, <2>3
    <3>1. tree[finalsIn[q]][Target(q, f)] = Node(manifestFile, q, offer[q])
      BY <2>4 DEF FilesInv
    <3>2. Target(q, f) \in Places
      <4>1. stream[q][f] # "none"
        BY DEF Landed
      <4> QED BY <4>1, LandedIsPlace DEF OfferInv
    <3> QED BY <1>1, <2>2, <3>1, <3>2
  <2> HIDE DEF Landed
  <2> QED BY <1>1, <2>1, <2>2, <2>3, <2>4, <2>5 DEF FilesInv
<1>7. LeftoversInv(q)'
  BY <1>1 DEF OfferInv, LeftoversInv, Same, LeavesTemps
<1> QED BY <1>2, <1>3, <1>4, <1>5, <1>6, <1>7 DEF OfferInv
---------------------------------------------------------------------------
(* The process that takes the step                                         *)

Busy(p) == phase[p] \in {"review", "preparing", "rollback", "receiving"}

\* The conjuncts that a step keeps when it leaves the tree.
LEMMA KeptKept ==
    ASSUME NEW p \in Process, TypeOK, KeptInv(p), Running(p), tree' = tree,
           created'[p] = created[p], finalsIn'[p] = finalsIn[p] \/ created[p] = << >>,
           offer'[p] = offer[p], fate'[p] = fate[p]
    PROVE  KeptInv(p)'
<1> SUFFICES ASSUME NEW d \in Destination, NEW x \in Places, tree[d][x].kind = manifestFolder, tree[d][x].by = p
             PROVE  KeptAt(p, d, x)'
  BY DEF KeptInv
<1>1. KeptAt(p, d, x)
  BY DEF KeptInv
<1>2. Children(d, x)' = Children(d, x)
  BY DEF Children, Exists
<1>3. /\ Made(p, d, x)' <=> Made(p, d, x)
      /\ \A y \in Places: Made(p, d, y)' <=> Made(p, d, y)
  BY DEF Made
<1>4. IsCurrent(p, d, x)' => IsCurrent(p, d, x)
  BY DEF IsCurrent
<1> QED BY <1>1, <1>2, <1>3, <1>4 DEF KeptAt

LEMMA FilesKept ==
    ASSUME NEW p \in Process, TypeOK, PhaseInv(p), PreparedInv(p), FilesInv(p), Busy(p), tree' = tree,
           finals'[p] = finals[p], finalsIn'[p] = finalsIn[p], offer'[p] = offer[p],
           \A f \in Files(p): stream'[p][f] \in Landed <=> stream[p][f] \in Landed
    PROVE  FilesInv(p)'
<1>1. \A f: Target(p, f)' = Target(p, f)
  BY DEF Target
<1> QED BY <1>1 DEF FilesInv, Busy

\* In the review of an offer there are no files of it.
LEMMA FilesInReview ==
    ASSUME NEW p \in Process, TypeOK, PhaseInv(p), FilesInv(p), Busy(p), phase[p] # "receiving", tree' = tree,
           offer'[p] = offer[p], \A f \in Files(p): stream'[p][f] = "none"
    PROVE  FilesInv(p)'
<1>1. \A f \in Files(p): stream[p][f] = "none"
  BY DEF PhaseInv
<1>2. "none" \notin Landed
  BY DEF Landed
<1> QED BY <1>1, <1>2 DEF FilesInv, Busy

LEMMA EmptyCreated ==
    ASSUME NEW p \in Process, created'[p] = << >>
    PROVE  CreatedInv(p)'
BY DEF CreatedInv

\* A process that forgets its offer.
LEMMA ForgetKeeps ==
    ASSUME NEW p \in Process, TypeOK, OfferInv(p), Running(p), NEW how \in {"closed", "withdrawn", "crashed"},
           Forget(p, how), tree' = tree, how = "withdrawn" => created[p] = << >>
    PROVE  OfferInv(p)'
<1>1. /\ phase'[p] = "none" /\ created'[p] = << >> /\ prepared'[p] = {}
      /\ finals'[p] = NoFinals(p) /\ offer'[p] = offer[p] /\ stream'[p] = [f \in Files(p) |-> "none"]
      /\ staleStaging'[p] = FALSE
  BY DEF TypeOK, Forget
<1>2. fate'[p] = [fate[p] EXCEPT ![offer[p]] = how]
  BY DEF TypeOK, Forget
<1>3. fate[p] \in [1..MaxOffers[p] -> {"open", "closed", "withdrawn", "crashed"}] /\ offer[p] \in Nat
  BY DEF TypeOK
<1>4. PhaseInv(p)'
  <2>1. \A n \in 1..MaxOffers[p]: n > offer'[p] => fate'[p][n] = "open"
    BY <1>1, <1>2, <1>3, ProcessAssumption DEF OfferInv, PhaseInv
  <2> QED BY <1>1, <2>1 DEF PhaseInv, Running
<1>5. PreparedInv(p)'
  BY <1>1 DEF PreparedInv, NoFinals
<1>6. CreatedInv(p)'
  BY <1>1, EmptyCreated
<1>7. KeptInv(p)'
  <2> SUFFICES ASSUME NEW d \in Destination, NEW x \in Places, tree[d][x].kind = manifestFolder, tree[d][x].by = p
               PROVE  KeptAt(p, d, x)'
    BY DEF KeptInv
  <2>1. KeptAt(p, d, x)
    BY DEF OfferInv, KeptInv
  <2>2. Children(d, x)' = Children(d, x)
    BY DEF Children, Exists
  <2>3. ~IsCurrent(p, d, x)'
    BY <1>1 DEF IsCurrent, Running
  <2>4. CASE tree[d][x].offer = offer[p] /\ how = "withdrawn"
    <3>1. IsCurrent(p, d, x) /\ ~Made(p, d, x)
      BY <2>4 DEF IsCurrent, Made
    <3> QED BY <2>1, <2>2, <2>3, <3>1 DEF KeptAt
  <2>5. CASE tree[d][x].offer = offer[p] /\ how # "withdrawn"
    <3>1. offer[p] \in 1..MaxOffers[p]
      BY <1>3, ProcessAssumption DEF TypeOK, OfferInv, PhaseInv
    <3>2. fate'[p][tree'[d][x].offer] # "withdrawn"
      BY <1>2, <1>3, <2>5, <3>1
    <3> QED BY <2>3, <3>2 DEF KeptAt
  <2>6. CASE tree[d][x].offer # offer[p]
    <3>1. fate'[p][tree'[d][x].offer] = fate[p][tree[d][x].offer]
      BY <1>2, <1>3, <2>6
    <3> QED BY <2>1, <2>2, <2>3, <3>1 DEF KeptAt
  <2> QED BY <2>4, <2>5, <2>6
<1>8. FilesInv(p)'
  BY <1>1 DEF FilesInv, Landed
<1>9. LeftoversInv(p)'
  BY <1>1 DEF LeftoversInv
<1> QED BY <1>4, <1>5, <1>6, <1>7, <1>8, <1>9 DEF OfferInv

\* A step of p changes nothing of what the other processes hold, and adds no
\* temporary file but its own.
Others(p) == \A q \in Process: q # p => Same(q) /\ LeavesTemps(q)

EndStep(p) == completeIncomingBatch(p) \/ removeIncomingFiles(p) \/ clearIncoming(p) \/ Crash(p)
ProcessStep(p) == ReviewStep(p) \/ (\E f \in Files(p): FileStep(p, f)) \/ EndStep(p)

LEMMA RemoveTempsIs ==
    ASSUME TypeOK, NEW d \in Destination, NEW gone, RemoveTemps(d, gone)
    PROVE  /\ staging'[d] = staging[d] \ gone /\ \A e \in Destination: e # d => staging'[e] = staging[e]
           /\ \A e \in Destination: staging'[e] \subseteq staging[e]
           /\ folders' \subseteq folders
           /\ \A e \in folders: e # d \/ staging'[d] # {} => e \in folders'
           /\ staging' \in [Destination -> SUBSET [by: Process, offer: Nat, path: UNION {Files(p): p \in Process}]]
           /\ staging'[d] = {} => d \notin folders'
<1>1. staging \in [Destination -> SUBSET [by: Process, offer: Nat, path: UNION {Files(p): p \in Process}]]
  BY DEF TypeOK
<1> QED BY <1>1 DEF RemoveTemps

\* The variables that are functions of the processes.
LEMMA FunctionsOfProcesses ==
    ASSUME TypeOK
    PROVE  /\ phase = [p \in Process |-> phase[p]] /\ destination = [p \in Process |-> destination[p]]
           /\ staleStaging = [p \in Process |-> staleStaging[p]] /\ finalsIn = [p \in Process |-> finalsIn[p]]
           /\ reviewed = [p \in Process |-> reviewed[p]] /\ created = [p \in Process |-> created[p]]
           /\ offer = [p \in Process |-> offer[p]]
           /\ DOMAIN finals = Process /\ DOMAIN prepared = Process /\ DOMAIN stream = Process /\ DOMAIN fate = Process
BY DEF TypeOK

LEMMA ForgetIsMine ==
    ASSUME TypeOK, NEW p \in Process, NEW how, Forget(p, how), NEW q \in Process, q # p
    PROVE  Same(q)
BY FunctionsOfProcesses DEF Forget, Same

LEMMA OnlyMine ==
    ASSUME TypeOK, NEW p \in Process, ProcessStep(p)
    PROVE  Others(p)
<1> SUFFICES ASSUME NEW q \in Process, q # p PROVE Same(q) /\ LeavesTemps(q)
  BY DEF Others
<1>1. destination[p] \in Destination /\ Default(p) \in Destination /\ \A d \in Selectable[p]: d \in Destination
  BY DestinationAssumption DEF TypeOK
<1>2. UNCHANGED staging => LeavesTemps(q)
  BY DEF LeavesTemps
<1>3. ASSUME NEW d \in Destination, NEW gone, RemoveTemps(d, gone) PROVE LeavesTemps(q)
  BY <1>3, RemoveTempsIs DEF LeavesTemps
<1>4. staging \in [Destination -> SUBSET [by: Process, offer: Nat, path: UNION {Files(r): r \in Process}]]
  BY DEF TypeOK
<1>5. CASE StartReview(p)
  BY <1>1, <1>3, <1>5, FunctionsOfProcesses DEF StartReview, resolveIncomingPaths, Same
<1>6. CASE ChooseDestination(p)
  BY <1>1, <1>3, <1>6, FunctionsOfProcesses DEF ChooseDestination, resolveIncomingPaths, Same, boundVars
<1>7. CASE DestinationUnlisted(p) \/ DestinationUninspected(p)
  BY <1>2, <1>7, FunctionsOfProcesses DEF DestinationUnlisted, DestinationUninspected, Same, boundVars, diskVars
<1>8. CASE CleanupStaging(p)
  <2>1. Same(q)
    BY <1>8, FunctionsOfProcesses DEF CleanupStaging, Same, boundVars
  <2>2. LeavesTemps(q)
    <3>1. CASE RemoveTemps(destination[p], staging[destination[p]])
      BY <1>1, <1>3, <3>1
    <3>2. CASE \E left \in SUBSET staging[destination[p]]: staging' = [staging EXCEPT ![destination[p]] = left]
      BY <1>1, <1>4, <3>2 DEF LeavesTemps
    <3> QED BY <1>8, <3>1, <3>2 DEF CleanupStaging
  <2> QED BY <2>1, <2>2
<1>9. CASE Reject(p) \/ clearIncoming(p) \/ Crash(p)
  BY <1>2, <1>9, ForgetIsMine DEF Reject, clearIncoming, Crash, diskVars
<1>10. CASE Accept(p) \/ PrepareFails(p) \/ ResumeReview(p) \/ FinishPreparing(p)
  BY <1>2, <1>10, FunctionsOfProcesses
     DEF Accept, PrepareFails, ResumeReview, FinishPreparing, Same, boundVars, diskVars, reviewVars
<1>11. CASE PrepareEntry(p)
  BY <1>2, <1>11, FunctionsOfProcesses DEF PrepareEntry, Make, Same, boundVars, reviewVars
<1>12. CASE removeCreatedDirectories(p)
  BY <1>2, <1>12, FunctionsOfProcesses DEF removeCreatedDirectories, Same, boundVars, reviewVars
<1>13. ASSUME NEW f \in Files(p), FileStep(p, f) PROVE Same(q) /\ LeavesTemps(q)
  <2>1. /\ UNCHANGED <<reviewVars, phase, created, prepared, boundVars>>
        /\ \E s: SetStream(p, f, s)
    BY <1>13 DEF FileStep, startReceivingFile, CreateTemp, failIncomingFile, Link, Unlink, Move, ApplyMetadata
  <2>2. Same(q)
    BY <2>1, FunctionsOfProcesses DEF Same, SetStream, reviewVars, boundVars
  <2>3. CASE startReceivingFile(p, f) \/ Link(p, f) \/ ApplyMetadata(p, f)
    BY <1>2, <2>2, <2>3 DEF startReceivingFile, Link, ApplyMetadata
  <2>4. CASE CreateTemp(p, f)
    <3>1. Temp(p, f).by = p
      BY DEF Temp
    <3> QED BY <1>1, <1>2, <1>4, <2>2, <2>4, <3>1 DEF CreateTemp, LeavesTemps
  <2>5. CASE failIncomingFile(p, f)
    BY <1>1, <1>3, <2>2, <2>5 DEF failIncomingFile
  <2>6. CASE Unlink(p, f)
    <3>1. CASE HasTemp(p, f)
      BY <1>1, <1>4, <2>2, <2>6, <3>1 DEF Unlink, LeavesTemps
    <3>2. CASE ~HasTemp(p, f)
      BY <1>1, <1>3, <2>2, <2>6, <3>2 DEF Unlink
    <3> QED BY <3>1, <3>2
  <2>7. CASE Move(p, f)
    BY <1>1, <1>4, <2>2, <2>7 DEF Move, LeavesTemps
  <2> QED BY <1>13, <2>3, <2>4, <2>5, <2>6, <2>7 DEF FileStep
<1>14. CASE completeIncomingBatch(p)
  BY <1>1, <1>3, <1>14, ForgetIsMine DEF completeIncomingBatch
<1>15. CASE removeIncomingFiles(p)
  <2>1. Same(q)
    BY <1>15, FunctionsOfProcesses DEF removeIncomingFiles, Same, boundVars, reviewVars
  <2>2. LeavesTemps(q)
    BY <1>1, <1>3, <1>15 DEF removeIncomingFiles
  <2> QED BY <2>1, <2>2
<1> QED BY <1>5, <1>6, <1>7, <1>8, <1>9, <1>10, <1>11, <1>12, <1>13, <1>14, <1>15
        DEF ProcessStep, ReviewStep, EndStep
---------------------------------------------------------------------------
(* The review                                                              *)

LEMMA ReservedAreNames ==
    ASSUME NEW d \in Destination
    PROVE  Reservations(d) \in SUBSET {Key(n): n \in FinalNames}
BY PlacesArePaths DEF Reservations

LEMMA ResolvedPaths ==
    ASSUME TypeOK, NEW p \in Process, NEW d \in Destination, resolveIncomingPaths(p, d)
    PROVE  /\ destination'[p] = d /\ finalsIn'[p] = d /\ reviewed'[p] = TRUE
           /\ staleStaging'[p] = (staging[d] # {})
           /\ finals'[p] \in FinalsOf(p)
           /\ \A i, j \in DOMAIN Roots(p): finals'[p][i] # << >> /\ finals'[p][i] = finals'[p][j] => i = j
           /\ staging' = staging
<1>1. PICK names \in resolveRoots(Roots(p), Reservations(d), FinalNames): finals' = [finals EXCEPT ![p] = names]
  BY DEF resolveIncomingPaths
<1>2. finals'[p] = names
  BY <1>1, FunctionsOfProcesses
<1>3. names \in FinalsOf(p) /\ \A i, j \in DOMAIN Roots(p): names[i] # << >> /\ names[i] = names[j] => i = j
  BY ReservedAreNames, ResolvedNamesDiffer
<1>4. staging' = staging
  BY DEF resolveIncomingPaths, RemoveTemps, TypeOK
<1>5. /\ destination'[p] = d /\ finalsIn'[p] = d /\ reviewed'[p] = TRUE
      /\ staleStaging'[p] = (staging[d] # {})
  BY FunctionsOfProcesses DEF resolveIncomingPaths
<1> QED BY <1>2, <1>3, <1>4, <1>5

LEMMA StartReviewKeeps ==
    ASSUME TypeOK, TreeInv, NEW p \in Process, OfferInv(p), StartReview(p)
    PROVE  OfferInv(p)'
<1> DEFINE d == Default(p)
<1>1. /\ d \in Destination /\ offer[p] \in Nat /\ offer[p] < MaxOffers[p] /\ MaxOffers[p] \in Nat
      /\ phase[p] = "none" /\ resolveIncomingPaths(p, d)
  BY DestinationAssumption, ProcessAssumption DEF StartReview, TypeOK
<1>2. /\ destination'[p] = d /\ finalsIn'[p] = d /\ reviewed'[p] = TRUE
      /\ staleStaging'[p] = (staging[d] # {})
      /\ \A i, j \in DOMAIN Roots(p): finals'[p][i] # << >> /\ finals'[p][i] = finals'[p][j] => i = j
      /\ staging' = staging
  BY <1>1, ResolvedPaths
<1>3. /\ phase'[p] = "review" /\ offer'[p] = offer[p] + 1
      /\ tree' = tree /\ created' = created /\ prepared' = prepared /\ stream' = stream /\ fate' = fate
  BY FunctionsOfProcesses DEF StartReview
<1>4. created[p] = << >> /\ \A f \in Files(p): stream[p][f] = "none"
  BY <1>1 DEF OfferInv, PhaseInv
<1>5. PhaseInv(p)'
  <2>1. \A n \in 1..MaxOffers[p]: n > offer[p] => fate[p][n] = "open"
    BY DEF OfferInv, PhaseInv
  <2> QED BY <1>1, <1>3, <1>4, <2>1 DEF PhaseInv, Running
<1>6. PreparedInv(p)'
  BY <1>2, <1>3 DEF PreparedInv
<1>7. CreatedInv(p)'
  BY <1>3, <1>4, EmptyCreated
<1>8. ASSUME NEW e \in Destination, NEW x \in Places, Exists(e, x), tree[e][x].by = p
      PROVE  tree[e][x].offer # offer[p] + 1
  BY <1>1, <1>8 DEF TreeInv
<1>9. KeptInv(p)'
  <2> SUFFICES ASSUME NEW e \in Destination, NEW x \in Places, tree[e][x].kind = manifestFolder, tree[e][x].by = p
               PROVE  KeptAt(p, e, x)'
    BY <1>3 DEF KeptInv
  <2>1. Exists(e, x)
    BY AbsentIs DEF Exists, manifestFolder
  <2>2. ~IsCurrent(p, e, x)'
    BY <1>3, <1>8, <2>1 DEF IsCurrent
  <2>3. KeptAt(p, e, x) /\ Children(e, x)' = Children(e, x)
    BY <1>3 DEF OfferInv, KeptInv, Children, Exists
  <2> QED BY <1>3, <2>2, <2>3 DEF KeptAt
<1>10. FilesInv(p)'
  <2>1. \A f \in Files(p): stream'[p][f] \notin Landed
    BY <1>3, <1>4 DEF Landed
  <2>2. ASSUME NEW e \in Destination, NEW x \in Places, tree[e][x] = Node(manifestFile, p, offer[p] + 1)
        PROVE  FALSE
    BY <1>1, <1>8, <2>2, NodeIs DEF Exists
  <2> QED BY <1>3, <2>1, <2>2 DEF FilesInv
<1>11. LeftoversInv(p)'
  BY <1>2, <1>3 DEF LeftoversInv
<1> QED BY <1>5, <1>6, <1>7, <1>9, <1>10, <1>11 DEF OfferInv

\* A destination command.
LEMMA DestinationKeeps ==
    ASSUME TypeOK, NEW p \in Process, OfferInv(p), ChooseDestination(p) \/ DestinationUnlisted(p) \/ DestinationUninspected(p)
    PROVE  OfferInv(p)'
<1>1. /\ phase[p] = "review" /\ phase'[p] = "review" /\ tree' = tree /\ staging' = staging
      /\ created' = created /\ prepared' = prepared /\ stream' = stream /\ offer' = offer /\ fate' = fate
  <2>1. CASE ChooseDestination(p)
    BY <2>1, ResolvedPaths, DestinationAssumption DEF ChooseDestination, boundVars
  <2>2. CASE DestinationUnlisted(p) \/ DestinationUninspected(p)
    BY <2>2 DEF DestinationUnlisted, DestinationUninspected, boundVars, diskVars
  <2> QED BY <2>1, <2>2
<1>2. \/ \E d \in Destination: /\ destination'[p] = d /\ staleStaging'[p] = (staging[d] # {})
                               /\ \A i, j \in DOMAIN Roots(p): finals'[p][i] # << >> /\ finals'[p][i] = finals'[p][j] => i = j
      \/ finals' = finals /\ reviewed'[p] = FALSE
  <2>1. CASE ChooseDestination(p)
    BY <2>1, ResolvedPaths, DestinationAssumption DEF ChooseDestination
  <2>2. CASE DestinationUnlisted(p) \/ DestinationUninspected(p)
    BY <2>2, FunctionsOfProcesses DEF DestinationUnlisted, DestinationUninspected
  <2> QED BY <2>1, <2>2
<1>3. created[p] = << >> /\ (\A f \in Files(p): stream[p][f] = "none") /\ Running(p) /\ Busy(p)
  BY <1>1 DEF OfferInv, PhaseInv, Running, Busy
<1>4. PhaseInv(p)'
  BY <1>1, <1>3 DEF OfferInv, PhaseInv, Running
<1>5. PreparedInv(p)'
  BY <1>1, <1>2 DEF OfferInv, PreparedInv
<1>6. CreatedInv(p)'
  BY <1>1, <1>3, EmptyCreated
<1>7. KeptInv(p)'
  BY <1>1, <1>3, KeptKept DEF OfferInv
<1>8. FilesInv(p)'
  BY <1>1, <1>3, FilesInReview DEF OfferInv
<1>9. LeftoversInv(p)'
  BY <1>1, <1>2 DEF LeftoversInv
<1> QED BY <1>4, <1>5, <1>6, <1>7, <1>8, <1>9 DEF OfferInv

LEMMA CleanupKeeps ==
    ASSUME TypeOK, NEW p \in Process, OfferInv(p), CleanupStaging(p)
    PROVE  OfferInv(p)'
<1> DEFINE d == destination[p]
<1>1. /\ phase[p] = "review" /\ UNCHANGED <<tree, phase, destination, finals, finalsIn, reviewed, created, prepared, stream>>
      /\ UNCHANGED <<offer, fate>> /\ d \in Destination
  BY DEF CleanupStaging, boundVars, TypeOK
<1>2. staging'[d] = {} \/ (staging'[d] \subseteq staging[d] /\ UNCHANGED staleStaging)
  <2>1. CASE RemoveTemps(d, staging[d])
    BY <1>1, <2>1, RemoveTempsIs
  <2>2. CASE (\E left \in SUBSET staging[d]: staging' = [staging EXCEPT ![d] = left]) /\ UNCHANGED staleStaging
    <3>1. staging \in [Destination -> SUBSET [by: Process, offer: Nat, path: UNION {Files(r): r \in Process}]]
      BY DEF TypeOK
    <3> QED BY <1>1, <2>2, <3>1
  <2> QED BY <2>1, <2>2 DEF CleanupStaging
<1>3. Running(p) /\ Busy(p)
  BY <1>1 DEF Running, Busy
<1>4. PhaseInv(p)'
  BY <1>1 DEF OfferInv, PhaseInv, Running
<1>5. PreparedInv(p)'
  BY <1>1 DEF OfferInv, PreparedInv
<1>6. CreatedInv(p)'
  BY <1>1, EmptyCreated DEF OfferInv, PhaseInv
<1>7. KeptInv(p)'
  BY <1>1, <1>3, KeptKept DEF OfferInv
<1>8. FilesInv(p)'
  BY <1>1, <1>3, FilesKept DEF OfferInv
<1>9. LeftoversInv(p)'
  BY <1>1, <1>2 DEF OfferInv, LeftoversInv
<1> QED BY <1>4, <1>5, <1>6, <1>7, <1>8, <1>9 DEF OfferInv

LEMMA AcceptKeeps ==
    ASSUME TypeOK, NEW p \in Process, OfferInv(p),
           Accept(p) \/ PrepareFails(p) \/ ResumeReview(p) \/ FinishPreparing(p)
    PROVE  OfferInv(p)'
<1>1. UNCHANGED <<tree, staging, reviewVars, stream, boundVars>> /\ phase[p] # "none"
  BY DEF Accept, PrepareFails, ResumeReview, FinishPreparing, diskVars
<1>2. UNCHANGED <<destination, staleStaging, finals, finalsIn, reviewed, offer, fate>>
  BY <1>1 DEF reviewVars, boundVars
<1>3. created'[p] = created[p]
  <2>1. phase[p] = "review" => created[p] = << >>
    BY DEF OfferInv, PhaseInv
  <2> QED BY <2>1, FunctionsOfProcesses DEF Accept, PrepareFails, ResumeReview, FinishPreparing
<1>4. \/ phase[p] = "review" /\ ~staleStaging[p] /\ phase'[p] = "preparing" /\ prepared'[p] = {}
      \/ phase[p] = "preparing" /\ phase'[p] = "rollback" /\ prepared'[p] = prepared[p]
      \/ phase[p] = "rollback" /\ phase'[p] = "review" /\ prepared'[p] = {} /\ created[p] = << >>
      \/ /\ phase[p] = "preparing" /\ phase'[p] = "receiving" /\ prepared'[p] = prepared[p]
         /\ Unprepared(Entries[p], prepared[p]) = {}
  BY FunctionsOfProcesses DEF Accept, PrepareFails, ResumeReview, FinishPreparing
<1>5. Running(p) /\ Busy(p) /\ phase[p] # "receiving" /\ \A f \in Files(p): stream[p][f] = "none"
  BY <1>4 DEF Running, Busy, OfferInv, PhaseInv
<1>6. PhaseInv(p)'
  BY <1>1, <1>2, <1>3, <1>4, <1>5 DEF OfferInv, PhaseInv, Running
<1>7. PreparedInv(p)'
  BY <1>2, <1>3, <1>4 DEF OfferInv, PreparedInv, Made, Resolved, Target
<1>8. CreatedInv(p)'
  BY <1>1, <1>2, <1>3, CreatedKept DEF OfferInv
<1>9. KeptInv(p)'
  BY <1>1, <1>2, <1>3, <1>5, KeptKept DEF OfferInv
<1>10. FilesInv(p)'
  BY <1>1, <1>2, <1>5, FilesInReview DEF OfferInv
<1>11. LeftoversInv(p)'
  BY <1>1, <1>2, <1>4 DEF OfferInv, LeftoversInv, PhaseInv
<1> QED BY <1>6, <1>7, <1>8, <1>9, <1>10, <1>11 DEF OfferInv

---------------------------------------------------------------------------
(* The folders and files of an offer                                       *)

LEMMA MadeIs ==
    ASSUME TypeOK, NEW p \in Process, CreatedInv(p), NEW x, Made(p, finalsIn[p], x)
    PROVE  x \in Places /\ tree[finalsIn[p]][x] = Node(manifestFolder, p, offer[p])
<1>1. created[p] \in Seq(Places)
  BY DEF TypeOK
<1> QED BY <1>1 DEF Made, CreatedInv

\* Something is put into a folder that the offer has made.
LEMMA AddedKept ==
    ASSUME TypeOK, TreeInv, NEW p \in Process, PhaseInv(p), KeptInv(p), Running(p), NEW x \in Places,
           NEW k \in {manifestFile, manifestFolder}, tree' = [tree EXCEPT ![finalsIn[p]][x] = Node(k, p, offer[p])],
           ~Exists(finalsIn[p], x), \A y \in Ancestors(x): Made(p, finalsIn[p], y),
           phase'[p] = phase[p], finalsIn'[p] = finalsIn[p], offer'[p] = offer[p], fate'[p] = fate[p],
           k = manifestFolder => Made(p, finalsIn[p], x)',
           \A y \in Places: y # x => (Made(p, finalsIn[p], y)' <=> Made(p, finalsIn[p], y))
    PROVE  KeptInv(p)'
<1> DEFINE d == finalsIn[p]
<1>1. d \in Destination /\ offer[p] \in Nat
  BY DEF TypeOK
<1>2. /\ Node(k, p, offer[p]) \in Nodes /\ Node(k, p, offer[p]) # Absent
      /\ Node(k, p, offer[p]).kind = k /\ Node(k, p, offer[p]).offer = offer[p]
  BY <1>1, NodeIs
<1>3. /\ tree'[d][x] = Node(k, p, offer[p])
      /\ \A e \in Destination: \A y \in Places: (e # d \/ y # x) => tree'[e][y] = tree[e][y]
  BY <1>1, <1>2, TreeType
<1> SUFFICES ASSUME NEW e \in Destination, NEW z \in Places, tree'[e][z].kind = manifestFolder, tree'[e][z].by = p
             PROVE  KeptAt(p, e, z)'
  BY DEF KeptInv
<1>4. CASE e = d /\ z = x
  <2>1. Made(p, e, z)' /\ tree'[e][z].offer = offer[p]
    BY <1>2, <1>3, <1>4
  <2>2. fate'[p][tree'[e][z].offer] # "withdrawn"
    BY <2>1 DEF PhaseInv
  <2> QED BY <2>1, <2>2 DEF KeptAt
<1>5. CASE e # d \/ z # x
  <2>1. tree'[e][z] = tree[e][z]
    BY <1>3, <1>5
  <2>2. KeptAt(p, e, z)
    BY <2>1 DEF KeptInv
  <2>3. Children(e, z) # {} => Children(e, z)' # {}
    <3>1. \A y \in Places: z \in Ancestors(y) /\ Exists(e, y) => tree'[e][y] # Absent
      BY <1>2, <1>3 DEF Exists
    <3> QED BY <3>1, ChildrenKept
  <2>4. IsCurrent(p, e, z)' => IsCurrent(p, e, z)
    BY <2>1 DEF IsCurrent
  <2>5. Made(p, e, z)' <=> Made(p, e, z)
    <3>1. CASE e = d
      BY <1>5, <3>1
    <3>2. CASE e # d
      BY <3>2 DEF Made
    <3> QED BY <3>1, <3>2
  <2>6. ASSUME ~Made(p, e, z), NEW y \in Places, Made(p, e, y)', \A w \in Places: Made(p, e, w) => z \notin Ancestors(w)
        PROVE  z \notin Ancestors(y)
    <3>1. e = d
      BY <2>6 DEF Made
    <3>2. CASE y = x
      BY <2>6, <3>1, <3>2
    <3>3. CASE y # x
      BY <2>6, <3>1, <3>3
    <3> QED BY <3>2, <3>3
  <2> QED BY <2>1, <2>2, <2>3, <2>4, <2>5, <2>6 DEF KeptAt
<1> QED BY <1>4, <1>5

\* Something of the offer is removed that is in no folder that is kept.
LEMMA RemovedKept ==
    ASSUME TypeOK, TreeInv, NEW p \in Process, PhaseInv(p), KeptInv(p), Running(p), NEW x \in Places,
           tree' = [tree EXCEPT ![finalsIn[p]][x] = Absent],
           tree[finalsIn[p]][x].by = p, tree[finalsIn[p]][x].offer = offer[p],
           \A z \in Places:
               tree[finalsIn[p]][z].kind = manifestFolder /\ IsCurrent(p, finalsIn[p], z) /\ ~Made(p, finalsIn[p], z)
               => z \notin Ancestors(x),
           phase'[p] = phase[p], finalsIn'[p] = finalsIn[p], offer'[p] = offer[p], fate'[p] = fate[p],
           \A y \in Places: y # x => (Made(p, finalsIn[p], y)' <=> Made(p, finalsIn[p], y)),
           Made(p, finalsIn[p], x)' => Made(p, finalsIn[p], x)
    PROVE  KeptInv(p)'
<1> DEFINE d == finalsIn[p]
<1>1. d \in Destination /\ offer[p] \in Nat
  BY DEF TypeOK
<1>2. /\ tree'[d][x] = Absent
      /\ \A e \in Destination: \A y \in Places: (e # d \/ y # x) => tree'[e][y] = tree[e][y]
  <2>1. Absent \in Nodes
    BY AbsentIs
  <2> QED BY <1>1, <2>1, TreeType
<1> SUFFICES ASSUME NEW e \in Destination, NEW z \in Places, tree'[e][z].kind = manifestFolder, tree'[e][z].by = p
             PROVE  KeptAt(p, e, z)'
  BY DEF KeptInv
<1>3. e # d \/ z # x
  BY <1>2, AbsentIs DEF manifestFolder
<1>4. tree'[e][z] = tree[e][z]
  BY <1>2, <1>3
<1>5. KeptAt(p, e, z)
  BY <1>4 DEF KeptInv
<1>6. IsCurrent(p, e, z)' => IsCurrent(p, e, z)
  BY <1>4 DEF IsCurrent
<1>7. Made(p, e, z)' <=> Made(p, e, z)
  <2>1. CASE e = d
    BY <1>3, <2>1
  <2>2. CASE e # d
    BY <2>2 DEF Made
  <2> QED BY <2>1, <2>2
<1>8. \A y \in Places: Made(p, e, y)' => Made(p, e, y)
  <2>1. CASE e = d
    BY <2>1
  <2>2. CASE e # d
    BY <2>2 DEF Made
  <2> QED BY <2>1, <2>2
<1>9. ASSUME Children(e, z) # {}, \/ IsCurrent(p, e, z) /\ ~Made(p, e, z)
                                  \/ fate[p][tree[e][z].offer] = "withdrawn"
      PROVE  Children(e, z)' # {}
  <2>1. e = d => z \notin Ancestors(x)
    <3> SUFFICES ASSUME e = d, z \in Ancestors(x) PROVE FALSE
      OBVIOUS
    <3>1. fate[p][offer[p]] = "open"
      BY DEF PhaseInv
    <3>2. Exists(d, x)
      BY AbsentIs, ProcessAssumption DEF Exists
    <3>3. tree[e][z].offer = offer[p]
      BY <1>1, <1>4, <3>2, OneOwner
    <3> QED BY <1>4, <1>9, <3>1, <3>3
  <2>2. \A y \in Places: z \in Ancestors(y) /\ Exists(e, y) => tree'[e][y] # Absent
    BY <1>2, <2>1 DEF Exists
  <2> QED BY <1>9, <2>2, ChildrenKept
<1> QED BY <1>4, <1>5, <1>6, <1>7, <1>8, <1>9 DEF KeptAt

\* prepareIncoming makes a folder.
LEMMA FolderMade ==
    ASSUME TypeOK, TreeInv, NEW p \in Process, OfferInv(p), phase[p] = "preparing",
           NEW i \in NextToPrepare(Entries[p], prepared[p]), Entries[p][i].kind = manifestFolder,
           finalsIn[p] = destination[p], Make(p, destination[p], Entries[p][i]),
           prepared'[p] = prepared[p] \cup {i},
           UNCHANGED <<staging, phase, destination, staleStaging, finals, finalsIn, reviewed, stream, offer, fate>>
    PROVE  OfferInv(p)' /\ TreeStep(p)
<1>0. /\ finalsIn[p] \in Destination
      /\ i \in DOMAIN Entries[p] /\ Target(p, Entries[p][i].path) \in Places
      /\ \A y \in Ancestors(Target(p, Entries[p][i].path)): Made(p, finalsIn[p], y)
  BY NextIsReady DEF OfferInv, TypeOK, Make
<1>a. PICK d \in Destination: d = finalsIn[p]
  BY <1>0
<1>b. PICK x \in Places: x = Target(p, Entries[p][i].path)
  BY <1>0
<1>c. PICK n: n = Node(manifestFolder, p, offer[p])
  OBVIOUS
<1>1. offer[p] \in Nat /\ created[p] \in Seq(Places) /\ Len(created[p]) \in Nat
  BY DEF TypeOK
<1>2. /\ Resolved(p, Entries[p][i].path) /\ ~Exists(d, x)
      /\ tree' = [tree EXCEPT ![d][x] = n]
      /\ created'[p] = Append(created[p], x)
  BY <1>a, <1>b, <1>c, FunctionsOfProcesses DEF Make
<1>3. \A y \in Ancestors(x): Made(p, d, y)
  BY <1>0, <1>a, <1>b
<1>4. \A y \in Ancestors(x): y \in Places /\ tree[d][y] = Node(manifestFolder, p, offer[p])
  BY <1>3, <1>a, MadeIs DEF OfferInv
<1>5. n \in Nodes /\ n # Absent /\ n # Node(manifestFile, p, offer[p])
  <2>1. n \in Nodes /\ n # Absent /\ n.kind = manifestFolder
    BY <1>1, <1>c, NodeIs
  <2>2. Node(manifestFile, p, offer[p]).kind = manifestFile
    BY <1>1, NodeIs
  <2> QED BY <2>1, <2>2 DEF manifestFile, manifestFolder
<1>6. /\ tree'[d][x] = n
      /\ \A e \in Destination: \A y \in Places: (e # d \/ y # x) => tree'[e][y] = tree[e][y]
  BY <1>2, <1>5, TreeType
<1>7. TreeStep(p)
  BY <1>2, <1>4, <1>c DEF TreeStep, Adds
<1>8. /\ Len(created'[p]) = Len(created[p]) + 1 /\ created'[p][Len(created[p]) + 1] = x
      /\ \A m \in 1..Len(created[p]): created'[p][m] = created[p][m] /\ created[p][m] \in Places
  BY <1>1, <1>2, <1>3
<1>9. Made(p, d, x)' /\ \A y: y # x => (Made(p, d, y)' <=> Made(p, d, y))
  <2>1. Made(p, d, x)'
    BY <1>1, <1>8, <1>a DEF Made
  <2>2. ASSUME NEW y, y # x PROVE Made(p, d, y)' <=> Made(p, d, y)
    <3>1. (\E m \in 1..Len(created'[p]): created'[p][m] = y) <=> (\E m \in 1..Len(created[p]): created[p][m] = y)
      <4>1. \A m \in 1..Len(created'[p]): m \in 1..Len(created[p]) \/ created'[p][m] = x
        BY <1>1, <1>8
      <4>2. 1..Len(created[p]) \subseteq 1..Len(created'[p])
        BY <1>1, <1>8
      <4> QED BY <1>8, <2>2, <4>1, <4>2
    <3> QED BY <3>1, <1>a DEF Made
  <2> QED BY <2>1, <2>2
<1>10. PhaseInv(p)'
  BY DEF OfferInv, PhaseInv, Running
<1>11. PreparedInv(p)'
  <2>1. \A y: Target(p, y)' = Target(p, y) /\ (Resolved(p, y)' <=> Resolved(p, y))
    BY DEF Target, Resolved
  <2>2. ASSUME NEW j \in prepared'[p]
        PROVE  /\ Resolved(p, Entries[p][j].path)
               /\ Entries[p][j].kind = manifestFolder => Made(p, finalsIn[p], Target(p, Entries[p][j].path))'
    <3>0. Made(p, finalsIn[p], Target(p, Entries[p][j].path))' <=> \E y: y = Target(p, Entries[p][j].path) /\ Made(p, d, y)'
      BY <1>a, <2>1 DEF Made
    <3>1. CASE j = i
      BY <1>2, <1>9, <1>b, <3>0, <3>1
    <3>2. CASE j \in prepared[p]
      <4>1. /\ Resolved(p, Entries[p][j].path)
            /\ Entries[p][j].kind = manifestFolder => Made(p, d, Target(p, Entries[p][j].path))
        BY <1>a, <3>2 DEF OfferInv, PreparedInv
      <4>2. CASE Target(p, Entries[p][j].path) = x
        BY <1>9, <3>0, <4>1, <4>2
      <4>3. CASE Target(p, Entries[p][j].path) # x
        BY <1>9, <3>0, <4>1, <4>3
      <4> QED BY <4>2, <4>3
    <3> QED BY <3>1, <3>2
  <2> QED BY <2>1, <2>2 DEF OfferInv, PreparedInv
<1>12. CreatedInv(p)'
  <2>1. CreatedInv(p)
    BY DEF OfferInv
  <2>2. \A m \in 1..Len(created[p]): tree[d][created[p][m]] = n /\ created[p][m] # x /\ x \notin Ancestors(created[p][m])
    <3> SUFFICES ASSUME NEW m \in 1..Len(created[p])
                 PROVE  tree[d][created[p][m]] = n /\ created[p][m] # x /\ x \notin Ancestors(created[p][m])
      OBVIOUS
    <3>1. tree[d][created[p][m]] = n
      BY <1>a, <1>c, <2>1 DEF CreatedInv
    <3>2. HasParent(d, created[p][m])
      BY <1>1, <1>5, <1>8, <3>1 DEF TreeInv, Exists
    <3>3. tree[d][x].kind # manifestFolder
      BY <1>2, AbsentIs DEF Exists, manifestFolder
    <3> QED BY <1>2, <1>5, <3>1, <3>2, <3>3 DEF Exists, HasParent
  <2>3. x \notin Ancestors(x)
    BY RootOfPlace
  <2>4. \A m \in 1..Len(created'[p]): tree'[d][created'[p][m]] = n
    BY <1>1, <1>6, <1>8, <2>2
  <2>5. \A m, j \in 1..Len(created'[p]): created'[p][j] = created'[p][m] => j = m
    <3>1. \A m \in 1..Len(created'[p]): m \in 1..Len(created[p]) \/ m = Len(created[p]) + 1
      BY <1>1, <1>8
    <3>2. \A m, j \in 1..Len(created[p]): created[p][j] = created[p][m] => j = m
      BY <2>1 DEF CreatedInv
    <3>3. \A m \in 1..Len(created[p]): created'[p][m] = created[p][m] /\ created'[p][m] # x
      BY <1>8, <2>2
    <3>4. created'[p][Len(created[p]) + 1] = x
      BY <1>8
    <3> QED BY <3>1, <3>2, <3>3, <3>4
  <2>6. \A m, j \in 1..Len(created'[p]): created'[p][j] \in Ancestors(created'[p][m]) => j < m
    <3> SUFFICES ASSUME NEW m \in 1..Len(created'[p]), NEW j \in 1..Len(created'[p]),
                        created'[p][j] \in Ancestors(created'[p][m])
                 PROVE  j < m
      OBVIOUS
    <3>1. CASE m = Len(created[p]) + 1
      BY <1>1, <1>8, <2>3, <3>1
    <3>2. CASE m \in 1..Len(created[p]) /\ j = Len(created[p]) + 1
      BY <1>8, <2>2, <3>2
    <3>3. CASE m \in 1..Len(created[p]) /\ j \in 1..Len(created[p])
      BY <1>8, <2>1, <3>3 DEF CreatedInv
    <3> QED BY <1>1, <1>8, <3>1, <3>2, <3>3
  <2> QED BY <1>a, <1>c, <2>4, <2>5, <2>6 DEF CreatedInv
<1>13. KeptInv(p)'
  <2>1. /\ tree' = [tree EXCEPT ![finalsIn[p]][x] = Node(manifestFolder, p, offer[p])]
        /\ ~Exists(finalsIn[p], x) /\ \A y \in Ancestors(x): Made(p, finalsIn[p], y)
    BY <1>2, <1>3, <1>a, <1>c
  <2>2. Made(p, finalsIn[p], x)' /\ \A y \in Places: y # x => (Made(p, finalsIn[p], y)' <=> Made(p, finalsIn[p], y))
    BY <1>9, <1>a
  <2> QED BY <2>1, <2>2, AddedKept DEF OfferInv, Running
<1>14. FilesInv(p)'
  <2>1. \A f \in Files(p): stream[p][f] \notin Landed
    BY DEF OfferInv, PhaseInv, Landed
  <2>2. \A e \in Destination: \A z \in Places: tree'[e][z] # Node(manifestFile, p, offer[p])
    BY <1>5, <1>6, <2>1 DEF OfferInv, FilesInv
  <2> QED BY <2>1, <2>2 DEF FilesInv
<1>15. LeftoversInv(p)'
  BY DEF OfferInv, LeftoversInv
<1> QED BY <1>7, <1>10, <1>11, <1>12, <1>13, <1>14, <1>15 DEF OfferInv

LEMMA PrepareKeeps ==
    ASSUME TypeOK, TreeInv, NEW p \in Process, OfferInv(p), PrepareEntry(p)
    PROVE  OfferInv(p)' /\ TreeStep(p)
<1>1. PICK i \in NextToPrepare(Entries[p], prepared[p]):
          Make(p, destination[p], Entries[p][i]) /\ prepared' = [prepared EXCEPT ![p] = @ \cup {i}]
  BY DEF PrepareEntry
<1>2. /\ phase[p] = "preparing" /\ finalsIn[p] = destination[p] /\ prepared'[p] = prepared[p] \cup {i}
      /\ UNCHANGED <<staging, phase, destination, staleStaging, finals, finalsIn, reviewed, stream, offer, fate>>
  BY <1>1, FunctionsOfProcesses DEF PrepareEntry, ensurePathBeneath, reviewVars, boundVars
<1>3. CASE Entries[p][i].kind = manifestFolder
  BY <1>1, <1>2, <1>3, FolderMade
<1>4. CASE Entries[p][i].kind # manifestFolder
  <2>1. tree' = tree /\ created' = created /\ Resolved(p, Entries[p][i].path)
    BY <1>1, <1>4 DEF Make
  <2>2. Running(p) /\ Busy(p) /\ \A f \in Files(p): stream[p][f] = "none"
    BY <1>2 DEF Running, Busy, OfferInv, PhaseInv
  <2>3. PhaseInv(p)'
    BY <1>2, <2>1 DEF OfferInv, PhaseInv, Running
  <2>4. PreparedInv(p)'
    BY <1>2, <1>4, <2>1 DEF OfferInv, PreparedInv, Made, Resolved, Target
  <2>5. CreatedInv(p)'
    BY <1>2, <2>1, CreatedKept DEF OfferInv
  <2>6. KeptInv(p)'
    BY <1>2, <2>1, <2>2, KeptKept DEF OfferInv
  <2>7. FilesInv(p)'
    BY <1>2, <2>1, <2>2, FilesInReview DEF OfferInv
  <2>8. LeftoversInv(p)'
    BY <1>2 DEF OfferInv, LeftoversInv
  <2> QED BY <2>1, <2>3, <2>4, <2>5, <2>6, <2>7, <2>8 DEF OfferInv, TreeStep
<1> QED BY <1>3, <1>4

\* removeCreatedDirectories goes on to the next folder.
LEMMA RemoveFolderKeeps ==
    ASSUME TypeOK, TreeInv, NEW p \in Process, OfferInv(p), removeCreatedDirectories(p)
    PROVE  OfferInv(p)' /\ TreeStep(p)
<1>1. /\ phase[p] \in {"rollback", "withdrawing"} /\ created[p] # << >>
      /\ UNCHANGED <<staging, phase, destination, staleStaging, finals, finalsIn, reviewed, stream, offer, fate, prepared>>
  BY DEF removeCreatedDirectories, reviewVars, boundVars
<1>2. offer[p] \in Nat /\ created[p] \in Seq(Places) /\ finalsIn[p] \in Destination
  BY DEF TypeOK
<1>3. PICK L \in Nat \ {0}: L = Len(created[p])
  BY <1>1, <1>2
<1>4. PICK d \in Destination: d = finalsIn[p]
  BY <1>2
<1>5. PICK x \in Places: x = created[p][L]
  BY <1>2, <1>3
<1>6. /\ RemoveFolder(d, x)
      /\ Len(created'[p]) = L - 1 /\ \A m \in 1..(L - 1): created'[p][m] = created[p][m] /\ created[p][m] \in Places
  <2>1. RemoveFolder(d, x) /\ created'[p] = SubSeq(created[p], 1, L - 1)
    BY <1>3, <1>4, <1>5, FunctionsOfProcesses DEF removeCreatedDirectories, Last, Front
  <2> QED BY <1>2, <1>3, <2>1
<1>7. CreatedInv(p) /\ KeptInv(p) /\ PhaseInv(p) /\ FilesInv(p)
  BY DEF OfferInv
<1>8. /\ Made(p, d, x) /\ tree[d][x] = Node(manifestFolder, p, offer[p])
      /\ tree[d][x].kind = manifestFolder /\ tree[d][x].by = p /\ tree[d][x].offer = offer[p]
  <2>1. Made(p, d, x)
    BY <1>3, <1>4, <1>5 DEF Made
  <2>2. tree[d][x] = Node(manifestFolder, p, offer[p])
    BY <1>4, <1>7, <2>1, MadeIs
  <2> QED BY <1>2, <2>1, <2>2, NodeIs
<1>9. /\ \A m \in 1..(L - 1): created[p][m] # x /\ x \notin Ancestors(created[p][m])
      /\ ~Made(p, d, x)' /\ \A y: y # x => (Made(p, d, y)' <=> Made(p, d, y))
  <2>1. \A m \in 1..(L - 1): created[p][m] # x /\ x \notin Ancestors(created[p][m])
    BY <1>3, <1>5, <1>7 DEF CreatedInv
  <2>2. ~Made(p, d, x)'
    BY <1>6, <2>1 DEF Made
  <2>3. ASSUME NEW y, y # x PROVE Made(p, d, y)' <=> Made(p, d, y)
    <3>1. finalsIn'[p] = finalsIn[p]
      BY <1>1
    <3>2. Made(p, d, y)' => Made(p, d, y)
      BY <1>3, <1>6, <3>1 DEF Made
    <3>3. ASSUME NEW m \in 1..Len(created[p]), created[p][m] = y PROVE m \in 1..Len(created'[p]) /\ created'[p][m] = y
      BY <1>3, <1>5, <1>6, <2>3, <3>3
    <3>4. Made(p, d, y) => Made(p, d, y)'
      BY <3>1, <3>3 DEF Made
    <3> QED BY <3>2, <3>4
  <2> QED BY <2>1, <2>2, <2>3
<1>10. /\ \A e \in Destination: \A y \in Places: (e # d \/ y # x) => tree'[e][y] = tree[e][y]
       /\ tree'[d][x] = tree[d][x] \/ tree'[d][x] = Absent
       /\ TreeStep(p)
  <2>1. CASE Children(d, x) = {}
    <3>1. tree' = [tree EXCEPT ![d][x] = Absent]
      BY <1>6, <2>1 DEF RemoveFolder
    <3>2. Removes(p, d, x)
      BY <1>8, <2>1, <3>1 DEF Removes
    <3>3. TreeStep(p)
      BY <3>2 DEF TreeStep
    <3> QED BY <3>1, <3>3, AbsentIs, TreeType
  <2>2. CASE Children(d, x) # {}
    BY <1>6, <2>2 DEF RemoveFolder, TreeStep
  <2> QED BY <2>1, <2>2
<1>11. PhaseInv(p)'
  BY <1>1 DEF OfferInv, PhaseInv, Running
<1>12. PreparedInv(p)'
  BY <1>1 DEF OfferInv, PreparedInv
<1>13. CreatedInv(p)'
  <2>1. \A m \in 1..(L - 1): m \in 1..Len(created[p]) /\ tree'[d][created[p][m]] = tree[d][created[p][m]]
    BY <1>3, <1>6, <1>9, <1>10
  <2> SUFFICES ASSUME NEW m \in 1..(L - 1)
               PROVE  /\ tree'[d][created[p][m]] = Node(manifestFolder, p, offer[p])
                      /\ \A j \in 1..(L - 1): created[p][j] = created[p][m] => j = m
                      /\ \A j \in 1..(L - 1): created[p][j] \in Ancestors(created[p][m]) => j < m
    BY <1>1, <1>4, <1>6 DEF CreatedInv
  <2> QED BY <1>4, <1>7, <2>1 DEF CreatedInv
<1>14. KeptInv(p)'
  <2>1. CASE Children(d, x) = {}
    <3>1. tree' = [tree EXCEPT ![finalsIn[p]][x] = Absent]
      BY <1>4, <1>6, <2>1 DEF RemoveFolder
    <3>2. \A z \in Places:
              tree[finalsIn[p]][z].kind = manifestFolder /\ IsCurrent(p, finalsIn[p], z) /\ ~Made(p, finalsIn[p], z)
              => z \notin Ancestors(x)
      <4>1. ASSUME NEW z \in Places, tree[d][z].kind = manifestFolder, IsCurrent(p, d, z), ~Made(p, d, z)
            PROVE  z \notin Ancestors(x)
        <5>1. KeptAt(p, d, z)
          BY <1>7, <4>1 DEF KeptInv, IsCurrent
        <5> QED BY <1>8, <4>1, <5>1 DEF KeptAt
      <4> QED BY <1>4, <4>1
    <3>3. /\ \A y \in Places: y # x => (Made(p, finalsIn[p], y)' <=> Made(p, finalsIn[p], y))
          /\ Made(p, finalsIn[p], x)' => Made(p, finalsIn[p], x)
      BY <1>1, <1>4, <1>9
    <3>4. Running(p) /\ tree[finalsIn[p]][x].by = p /\ tree[finalsIn[p]][x].offer = offer[p]
      BY <1>1, <1>4, <1>8 DEF Running
    <3> QED BY <1>1, <1>7, <3>1, <3>2, <3>3, <3>4, RemovedKept
  <2>2. CASE Children(d, x) # {}
    <3>1. tree' = tree
      BY <1>6, <2>2 DEF RemoveFolder
    <3> SUFFICES ASSUME NEW e \in Destination, NEW z \in Places, tree[e][z].kind = manifestFolder, tree[e][z].by = p
                 PROVE  KeptAt(p, e, z)'
      BY <3>1 DEF KeptInv
    <3>2. KeptAt(p, e, z) /\ Children(e, z)' = Children(e, z) /\ fate'[p][tree'[e][z].offer] = fate[p][tree[e][z].offer]
      BY <1>1, <1>7, <3>1 DEF KeptInv, Children, Exists
    <3>3. CASE e = d /\ z = x
      <4>1. \A y \in Places: Made(p, d, y)' => x \notin Ancestors(y)
        BY <1>6, <1>9 DEF Made
      <4> QED BY <2>2, <3>2, <3>3, <4>1 DEF KeptAt
    <3>4. CASE e = d /\ z # x
      <4>1. IsCurrent(p, e, z)' => IsCurrent(p, e, z)
        BY <1>1, <3>1 DEF IsCurrent, Running
      <4>2. (Made(p, e, z)' <=> Made(p, e, z)) /\ \A y \in Places: Made(p, e, y)' => Made(p, e, y)
        BY <1>8, <1>9, <3>4
      <4> QED BY <3>2, <4>1, <4>2 DEF KeptAt
    <3>5. CASE e # d
      <4>1. IsCurrent(p, e, z)' => IsCurrent(p, e, z)
        BY <1>1, <3>1 DEF IsCurrent, Running
      <4>2. ~Made(p, e, z) /\ \A y \in Places: ~Made(p, e, y)'
        BY <1>1, <1>4, <3>5 DEF Made
      <4> QED BY <3>2, <4>1, <4>2 DEF KeptAt
    <3> QED BY <3>3, <3>4, <3>5
  <2> QED BY <2>1, <2>2
<1>15. FilesInv(p)'
  <2>1. \A f \in Files(p): stream[p][f] \notin Landed
    BY <1>1, <1>7 DEF PhaseInv, Landed
  <2>2. Node(manifestFile, p, offer[p]) # Absent /\ Node(manifestFile, p, offer[p]).kind = manifestFile
    BY <1>2, NodeIs
  <2>3. phase[p] = "rollback" => \A e \in Destination: \A z \in Places: tree[e][z] # Node(manifestFile, p, offer[p])
    BY <1>7, <2>1 DEF FilesInv
  <2>4. phase[p] = "rollback" => \A e \in Destination: \A z \in Places: tree'[e][z] # Node(manifestFile, p, offer[p])
    BY <1>10, <2>2, <2>3
  <2> QED BY <1>1, <2>1, <2>4 DEF FilesInv
<1>16. LeftoversInv(p)'
  BY <1>1 DEF OfferInv, LeftoversInv
<1> QED BY <1>10, <1>11, <1>12, <1>13, <1>14, <1>15, <1>16 DEF OfferInv

\* What every step of a file leaves alone, and what it does to the streams.
StreamStep(p, f, s) ==
    /\ phase[p] = "receiving" /\ stream'[p] = [stream[p] EXCEPT ![f] = s]
    /\ UNCHANGED <<phase, destination, staleStaging, finals, finalsIn, reviewed, created, prepared, offer, fate>>
    /\ \A t \in staging'[destination[p]]: t \in staging[destination[p]] \/ t.offer = offer[p]

LEMMA StreamStepKeeps ==
    ASSUME TypeOK, NEW p \in Process, OfferInv(p), NEW f \in Files(p), NEW s, StreamStep(p, f, s)
    PROVE  /\ PhaseInv(p)' /\ PreparedInv(p)' /\ LeftoversInv(p)' /\ Running(p) /\ Busy(p)
           /\ stream'[p][f] = s /\ \A g \in Files(p): g # f => stream'[p][g] = stream[p][g]
<1>1. stream'[p][f] = s /\ \A g \in Files(p): g # f => stream'[p][g] = stream[p][g]
  BY DEF StreamStep, TypeOK
<1>2. PhaseInv(p)'
  BY DEF OfferInv, PhaseInv, StreamStep, Running
<1>3. PreparedInv(p)'
  BY DEF OfferInv, PreparedInv, StreamStep, Made, Resolved, Target
<1>4. LeftoversInv(p)'
  BY DEF OfferInv, LeftoversInv, StreamStep
<1>5. Running(p) /\ Busy(p)
  BY DEF StreamStep, Running, Busy
<1> QED BY <1>1, <1>2, <1>3, <1>4, <1>5

\* The stream goes on and the tree stays.
LEMMA StreamKeeps ==
    ASSUME TypeOK, NEW p \in Process, OfferInv(p), NEW f \in Files(p), NEW s, StreamStep(p, f, s), tree' = tree,
           s \in Landed <=> stream[p][f] \in Landed
    PROVE  OfferInv(p)' /\ TreeStep(p)
<1>1. /\ created'[p] = created[p] /\ finals'[p] = finals[p] /\ finalsIn'[p] = finalsIn[p]
      /\ offer'[p] = offer[p] /\ fate'[p] = fate[p]
  BY DEF StreamStep
<1>2. /\ PhaseInv(p)' /\ PreparedInv(p)' /\ LeftoversInv(p)' /\ Running(p) /\ Busy(p)
      /\ stream'[p][f] = s /\ \A g \in Files(p): g # f => stream'[p][g] = stream[p][g]
  BY StreamStepKeeps
<1>3. \A g \in Files(p): stream'[p][g] \in Landed <=> stream[p][g] \in Landed
  BY <1>2
<1>4. CreatedInv(p)'
  BY <1>1, CreatedKept DEF OfferInv
<1>5. KeptInv(p)'
  BY <1>1, <1>2, KeptKept DEF OfferInv
<1>6. FilesInv(p)'
  BY <1>1, <1>2, <1>3, FilesKept DEF OfferInv
<1> QED BY <1>2, <1>4, <1>5, <1>6 DEF OfferInv, TreeStep

\* A file is published.
LEMMA PublishKeeps ==
    ASSUME TypeOK, TreeInv, NEW p \in Process, OfferInv(p), NEW f \in Files(p), NEW s \in Landed, StreamStep(p, f, s),
           ~Exists(finalsIn[p], Target(p, f)),
           tree' = [tree EXCEPT ![finalsIn[p]][Target(p, f)] = Node(manifestFile, p, offer[p])]
    PROVE  OfferInv(p)' /\ TreeStep(p)
<1>1. /\ UNCHANGED <<phase, created, finals, finalsIn, offer, fate>>
      /\ phase[p] = "receiving" /\ finalsIn[p] \in Destination /\ offer[p] \in Nat
  BY DEF StreamStep, TypeOK
<1>2. /\ PhaseInv(p)' /\ PreparedInv(p)' /\ LeftoversInv(p)' /\ Running(p) /\ Busy(p)
      /\ stream'[p][f] = s /\ \A g \in Files(p): g # f => stream'[p][g] = stream[p][g]
  BY StreamStepKeeps
<1>3. /\ \A g \in Files(p): Target(p, g) \in Places
      /\ \A y \in Ancestors(Target(p, f)): Made(p, finalsIn[p], y)
  BY <1>1, TargetsArePlaces DEF OfferInv
<1>4. PICK x \in Places: x = Target(p, f)
  BY <1>3
<1>5. PICK d \in Destination: d = finalsIn[p]
  BY <1>1
<1>6. PICK n: n = Node(manifestFile, p, offer[p])
  OBVIOUS
<1>7. n \in Nodes /\ n # Absent /\ n # Node(manifestFolder, p, offer[p])
  <2>1. n \in Nodes /\ n # Absent /\ n.kind = manifestFile
    BY <1>1, <1>6, NodeIs
  <2>2. Node(manifestFolder, p, offer[p]).kind = manifestFolder
    BY <1>1, NodeIs
  <2> QED BY <2>1, <2>2 DEF manifestFile, manifestFolder
<1>8. tree' = [tree EXCEPT ![d][x] = n] /\ ~Exists(d, x)
  BY <1>4, <1>5, <1>6
<1>9. /\ tree'[d][x] = n
      /\ \A e \in Destination: \A y \in Places: (e # d \/ y # x) => tree'[e][y] = tree[e][y]
  BY <1>7, <1>8, TreeType
<1>10. TreeStep(p)
  <2>1. \A y \in Ancestors(x): y \in Places /\ tree[d][y] = Node(manifestFolder, p, offer[p])
    BY <1>3, <1>4, <1>5, MadeIs DEF OfferInv
  <2> QED BY <1>6, <1>8, <2>1 DEF TreeStep, Adds
<1>11. CreatedInv(p)'
  <2>1. Node(manifestFolder, p, offer[p]) # Absent
    BY <1>1, NodeIs
  <2>2. \A e \in Destination: \A y \in Places:
            tree[e][y] = Node(manifestFolder, p, offer[p]) => tree'[e][y] = tree[e][y]
    BY <1>8, <1>9, <2>1 DEF Exists
  <2> QED BY <1>1, <2>2, CreatedKept DEF OfferInv
<1>12. KeptInv(p)'
  <2>1. /\ tree' = [tree EXCEPT ![finalsIn[p]][x] = Node(manifestFile, p, offer[p])]
        /\ ~Exists(finalsIn[p], x) /\ \A y \in Ancestors(x): Made(p, finalsIn[p], y)
    BY <1>3, <1>4
  <2>2. \A y \in Places: Made(p, finalsIn[p], y)' <=> Made(p, finalsIn[p], y)
    BY <1>1 DEF Made
  <2>3. manifestFile # manifestFolder
    BY DEF manifestFile, manifestFolder
  <2> QED BY <1>1, <1>2, <2>1, <2>2, <2>3, AddedKept DEF OfferInv
<1>13. FilesInv(p)'
  <2>1. \A g \in Files(p): Target(p, g)' = Target(p, g)
    BY <1>1 DEF Target
  <2>2. \A g \in Files(p): stream'[p][g] \in Landed => tree'[d][Target(p, g)] = n
    <3> SUFFICES ASSUME NEW g \in Files(p), stream'[p][g] \in Landed PROVE tree'[d][Target(p, g)] = n
      OBVIOUS
    <3>1. CASE g = f
      BY <1>4, <1>9, <3>1
    <3>2. CASE g # f
      <4>1. tree[d][Target(p, g)] = n
        BY <1>2, <1>5, <1>6, <3>2 DEF OfferInv, FilesInv
      <4> QED BY <1>3, <1>7, <1>8, <1>9, <4>1 DEF Exists
    <3> QED BY <3>1, <3>2
  <2>3. ASSUME NEW e \in Destination, NEW z \in Places, tree'[e][z] = n
        PROVE  e = d /\ \E g \in Files(p): Target(p, g) = z /\ stream'[p][g] \in Landed
    <3>1. CASE e = d /\ z = x
      BY <1>2, <1>4, <3>1
    <3>2. CASE e # d \/ z # x
      <4>1. tree[e][z] = n
        BY <1>9, <2>3, <3>2
      <4>2. e = d /\ \E g \in Files(p): Target(p, g) = z /\ stream[p][g] \in Landed
        BY <1>1, <1>5, <1>6, <4>1 DEF OfferInv, FilesInv
      <4> QED BY <1>2, <4>2
    <3> QED BY <3>1, <3>2
  <2> QED BY <1>1, <1>5, <1>6, <2>1, <2>2, <2>3 DEF FilesInv
<1> QED BY <1>2, <1>10, <1>11, <1>12, <1>13 DEF OfferInv

\* A file is taken back.
LEMMA TakeBackKeeps ==
    ASSUME TypeOK, TreeInv, NEW p \in Process, OfferInv(p), NEW f \in Files(p), NEW s, s \notin Landed, StreamStep(p, f, s),
           stream[p][f] \in Landed,
           tree' = [tree EXCEPT ![finalsIn[p]][Target(p, f)] = Absent]
    PROVE  OfferInv(p)' /\ TreeStep(p)
<1>1. /\ UNCHANGED <<phase, created, finals, finalsIn, offer, fate>>
      /\ phase[p] = "receiving" /\ finalsIn[p] \in Destination /\ offer[p] \in Nat
  BY DEF StreamStep, TypeOK
<1>2. /\ PhaseInv(p)' /\ PreparedInv(p)' /\ LeftoversInv(p)' /\ Running(p) /\ Busy(p)
      /\ stream'[p][f] = s /\ \A g \in Files(p): g # f => stream'[p][g] = stream[p][g]
  BY StreamStepKeeps
<1>3. /\ \A g \in Files(p): Target(p, g) \in Places
      /\ \A y \in Ancestors(Target(p, f)): Made(p, finalsIn[p], y)
      /\ \A g \in Files(p): Target(p, g) = Target(p, f) => g = f
  BY <1>1, TargetsArePlaces DEF OfferInv
<1>4. PICK x \in Places: x = Target(p, f)
  BY <1>3
<1>5. PICK d \in Destination: d = finalsIn[p]
  BY <1>1
<1>6. PICK n: n = Node(manifestFile, p, offer[p])
  OBVIOUS
<1>7. /\ n \in Nodes /\ n # Absent /\ n # Node(manifestFolder, p, offer[p])
      /\ n.kind = manifestFile /\ n.by = p /\ n.offer = offer[p]
  <2>1. n \in Nodes /\ n # Absent /\ n.kind = manifestFile /\ n.by = p /\ n.offer = offer[p]
    BY <1>1, <1>6, NodeIs
  <2>2. Node(manifestFolder, p, offer[p]).kind = manifestFolder
    BY <1>1, NodeIs
  <2> QED BY <2>1, <2>2 DEF manifestFile, manifestFolder
<1>8. tree' = [tree EXCEPT ![d][x] = Absent] /\ tree[d][x] = n
  BY <1>4, <1>5, <1>6 DEF OfferInv, FilesInv
<1>9. /\ tree'[d][x] = Absent
      /\ \A e \in Destination: \A y \in Places: (e # d \/ y # x) => tree'[e][y] = tree[e][y]
  <2>1. Absent \in Nodes
    BY AbsentIs
  <2> QED BY <1>8, <2>1, TreeType
<1>10. TreeStep(p)
  <2>1. Children(d, x) = {}
    <3> SUFFICES ASSUME NEW y \in Places, x \in Ancestors(y), Exists(d, y) PROVE FALSE
      BY DEF Children
    <3>1. tree[d][x].kind = manifestFolder
      BY DEF TreeInv, HasParent
    <3> QED BY <1>7, <1>8, <3>1 DEF manifestFile, manifestFolder
  <2>2. Removes(p, d, x)
    BY <1>7, <1>8, <2>1 DEF Removes
  <2> QED BY <2>2 DEF TreeStep
<1>11. CreatedInv(p)'
  <2>1. \A e \in Destination: \A y \in Places:
            tree[e][y] = Node(manifestFolder, p, offer[p]) => tree'[e][y] = tree[e][y]
    BY <1>7, <1>8, <1>9
  <2> QED BY <1>1, <2>1, CreatedKept DEF OfferInv
<1>12. KeptInv(p)'
  <2>1. /\ tree' = [tree EXCEPT ![finalsIn[p]][x] = Absent]
        /\ tree[finalsIn[p]][x].by = p /\ tree[finalsIn[p]][x].offer = offer[p]
    BY <1>5, <1>7, <1>8
  <2>2. \A z \in Places:
            tree[finalsIn[p]][z].kind = manifestFolder /\ IsCurrent(p, finalsIn[p], z) /\ ~Made(p, finalsIn[p], z)
            => z \notin Ancestors(x)
    BY <1>3, <1>4
  <2>3. \A y \in Places: Made(p, finalsIn[p], y)' <=> Made(p, finalsIn[p], y)
    BY <1>1 DEF Made
  <2> QED BY <1>1, <1>2, <2>1, <2>2, <2>3, RemovedKept DEF OfferInv
<1>13. FilesInv(p)'
  <2>1. \A g \in Files(p): Target(p, g)' = Target(p, g)
    BY <1>1 DEF Target
  <2>2. \A g \in Files(p): stream'[p][g] \in Landed => tree'[d][Target(p, g)] = n
    <3> SUFFICES ASSUME NEW g \in Files(p), stream'[p][g] \in Landed PROVE tree'[d][Target(p, g)] = n
      OBVIOUS
    <3>1. g # f
      BY <1>2
    <3>2. tree[d][Target(p, g)] = n
      BY <1>2, <1>5, <1>6, <3>1 DEF OfferInv, FilesInv
    <3>3. Target(p, g) # x
      BY <1>3, <1>4, <3>1
    <3> QED BY <1>3, <1>9, <3>2, <3>3
  <2>3. ASSUME NEW e \in Destination, NEW z \in Places, tree'[e][z] = n
        PROVE  e = d /\ \E g \in Files(p): Target(p, g) = z /\ stream'[p][g] \in Landed
    <3>1. e # d \/ z # x
      BY <1>7, <1>9, <2>3
    <3>2. tree[e][z] = n
      BY <1>9, <2>3, <3>1
    <3>3. e = d /\ \E g \in Files(p): Target(p, g) = z /\ stream[p][g] \in Landed
      BY <1>1, <1>5, <1>6, <3>2 DEF OfferInv, FilesInv
    <3> QED BY <1>2, <1>4, <3>1, <3>3
  <2> QED BY <1>1, <1>5, <1>6, <2>1, <2>2, <2>3 DEF FilesInv
<1> QED BY <1>2, <1>10, <1>11, <1>12, <1>13 DEF OfferInv

LEMMA StreamStepIs ==
    ASSUME TypeOK, NEW p \in Process, OfferInv(p), NEW f \in Files(p), NEW s, SetStream(p, f, s),
           UNCHANGED <<reviewVars, phase, created, prepared, boundVars>>,
           phase[p] = "receiving" \/ stream[p][f] # "none",
           \A t \in staging'[destination[p]]: t \in staging[destination[p]] \/ t.offer = offer[p]
    PROVE  StreamStep(p, f, s)
<1>1. stream'[p] = [stream[p] EXCEPT ![f] = s]
  BY FunctionsOfProcesses DEF SetStream
<1>2. phase[p] = "receiving"
  BY DEF OfferInv, PhaseInv
<1> QED BY <1>1, <1>2 DEF StreamStep, reviewVars, boundVars

LEMMA FileStepKeeps ==
    ASSUME TypeOK, TreeInv, NEW p \in Process, OfferInv(p), NEW f \in Files(p), FileStep(p, f)
    PROVE  OfferInv(p)' /\ TreeStep(p)
<1> DEFINE MineOnly == \A t \in staging'[destination[p]]: t \in staging[destination[p]] \/ t.offer = offer[p]
           Rest == UNCHANGED <<reviewVars, phase, created, prepared, boundVars>>
<1>1. destination[p] \in Destination
  BY DEF TypeOK
<1>2. staging \in [Destination -> SUBSET [by: Process, offer: Nat, path: UNION {Files(r): r \in Process}]]
  BY DEF TypeOK
<1>3. UNCHANGED staging => MineOnly
  OBVIOUS
<1>4. ASSUME NEW gone, RemoveTemps(destination[p], gone) PROVE MineOnly
  BY <1>1, <1>4, RemoveTempsIs
<1>5. Rest
  BY DEF FileStep, startReceivingFile, CreateTemp, failIncomingFile, Link, Unlink, Move, ApplyMetadata
<1> HIDE DEF MineOnly
<1>6. ASSUME NEW s, SetStream(p, f, s), MineOnly, phase[p] = "receiving" \/ stream[p][f] # "none"
      PROVE  StreamStep(p, f, s)
  BY <1>5, <1>6, StreamStepIs DEF MineOnly
<1>7. ASSUME NEW s, StreamStep(p, f, s), tree' = tree, s \in Landed <=> stream[p][f] \in Landed
      PROVE  OfferInv(p)' /\ TreeStep(p)
  BY <1>7, StreamKeeps
<1>8. CASE startReceivingFile(p, f)
  <2>1. PICK s \in {"opening", "broken"}: SetStream(p, f, s)
    BY <1>8 DEF startReceivingFile
  <2>2. StreamStep(p, f, s) /\ tree' = tree /\ stream[p][f] = "none"
    BY <1>3, <1>6, <1>8, <2>1 DEF startReceivingFile
  <2> QED BY <1>7, <2>2 DEF Landed
<1>9. CASE CreateTemp(p, f)
  <2>1. PICK s \in {"open", "broken"}: SetStream(p, f, s)
    BY <1>9 DEF CreateTemp
  <2>2. MineOnly
    <3>1. Temp(p, f).offer = offer[p]
      BY DEF Temp
    <3> QED BY <1>1, <1>2, <1>3, <1>9, <3>1 DEF CreateTemp, MineOnly
  <2>3. StreamStep(p, f, s) /\ tree' = tree /\ stream[p][f] = "opening"
    BY <1>6, <1>9, <2>1, <2>2 DEF CreateTemp
  <2> QED BY <1>7, <2>3 DEF Landed
<1>10. CASE failIncomingFile(p, f)
  <2>1. StreamStep(p, f, "failed") /\ tree' = tree /\ stream[p][f] \in {"open", "broken"}
    BY <1>4, <1>6, <1>10 DEF failIncomingFile
  <2> QED BY <1>7, <2>1 DEF Landed
<1>11. CASE Link(p, f)
  <2>1. /\ StreamStep(p, f, "linked") /\ ~Exists(finalsIn[p], Target(p, f))
        /\ tree' = [tree EXCEPT ![finalsIn[p]][Target(p, f)] = Node(manifestFile, p, offer[p])]
    BY <1>3, <1>6, <1>11 DEF Link
  <2> QED BY <2>1, PublishKeeps DEF Landed
<1>12. CASE Move(p, f)
  <2>1. MineOnly
    BY <1>1, <1>2, <1>12 DEF Move, MineOnly
  <2>2. /\ StreamStep(p, f, "published") /\ ~Exists(finalsIn[p], Target(p, f))
        /\ tree' = [tree EXCEPT ![finalsIn[p]][Target(p, f)] = Node(manifestFile, p, offer[p])]
    BY <1>6, <1>12, <2>1 DEF Move
  <2> QED BY <2>2, PublishKeeps DEF Landed
<1>13. CASE Unlink(p, f)
  <2>1. CASE HasTemp(p, f)
    <3>1. MineOnly
      BY <1>1, <1>2, <1>13, <2>1 DEF Unlink, MineOnly
    <3>2. StreamStep(p, f, "published") /\ tree' = tree /\ stream[p][f] = "linked"
      BY <1>6, <1>13, <2>1, <3>1 DEF Unlink
    <3> QED BY <1>7, <3>2 DEF Landed
  <2>2. CASE ~HasTemp(p, f)
    <3>1. MineOnly
      BY <1>4, <1>13, <2>2 DEF Unlink
    <3>2. /\ StreamStep(p, f, "failed") /\ stream[p][f] = "linked"
          /\ tree' = [tree EXCEPT ![finalsIn[p]][Target(p, f)] = Absent]
      BY <1>6, <1>13, <2>2, <3>1 DEF Unlink
    <3> QED BY <3>2, TakeBackKeeps DEF Landed
  <2> QED BY <2>1, <2>2
<1>14. CASE ApplyMetadata(p, f)
  <2>1. stream[p][f] = "published" /\ MineOnly
    BY <1>3, <1>14 DEF ApplyMetadata
  <2>2. CASE \E s \in {"done", "stuck"}: SetStream(p, f, s) /\ tree' = tree
    <3>1. PICK s \in {"done", "stuck"}: SetStream(p, f, s) /\ tree' = tree
      BY <2>2
    <3>2. StreamStep(p, f, s)
      BY <1>6, <2>1, <3>1
    <3> QED BY <1>7, <2>1, <3>1, <3>2 DEF Landed
  <2>3. CASE SetStream(p, f, "failed") /\ tree' = [tree EXCEPT ![finalsIn[p]][Target(p, f)] = Absent]
    <3>1. StreamStep(p, f, "failed")
      BY <1>6, <2>1, <2>3
    <3> QED BY <2>1, <2>3, <3>1, TakeBackKeeps DEF Landed
  <2> QED BY <1>14, <2>2, <2>3 DEF ApplyMetadata
<1> QED BY <1>8, <1>9, <1>10, <1>11, <1>12, <1>13, <1>14 DEF FileStep

\* removeIncomingFiles, but for the folders.
LEMMA WithdrawKeeps ==
    ASSUME TypeOK, NEW p \in Process, OfferInv(p), removeIncomingFiles(p)
    PROVE  OfferInv(p)'
<1>1. /\ phase[p] \in {"review", "receiving"} /\ phase'[p] = "withdrawing" /\ tree' = tree
      /\ stream'[p] = [f \in Files(p) |-> "none"]
      /\ UNCHANGED <<destination, staleStaging, finals, finalsIn, reviewed, created, prepared, offer, fate>>
  BY FunctionsOfProcesses DEF removeIncomingFiles, reviewVars, boundVars
<1>2. Running(p)
  BY <1>1 DEF Running
<1>3. PhaseInv(p)'
  BY <1>1 DEF OfferInv, PhaseInv, Running
<1>4. PreparedInv(p)'
  BY <1>1 DEF OfferInv, PreparedInv
<1>5. CreatedInv(p)'
  BY <1>1, CreatedKept DEF OfferInv
<1>6. KeptInv(p)'
  BY <1>1, <1>2, KeptKept DEF OfferInv
<1>7. FilesInv(p)'
  BY <1>1 DEF FilesInv, Landed
<1>8. LeftoversInv(p)'
  BY <1>1 DEF LeftoversInv
<1> QED BY <1>3, <1>4, <1>5, <1>6, <1>7, <1>8 DEF OfferInv

LEMMA OfferStepKeeps ==
    ASSUME TypeOK, TreeInv, NEW p \in Process, OfferInv(p), ProcessStep(p)
    PROVE  OfferInv(p)' /\ TreeStep(p)
<1>1. CASE StartReview(p)
  BY <1>1, StartReviewKeeps DEF StartReview, TreeStep
<1>2. CASE ChooseDestination(p) \/ DestinationUnlisted(p) \/ DestinationUninspected(p)
  <2>1. tree' = tree
    BY <1>2 DEF ChooseDestination, DestinationUnlisted, DestinationUninspected, diskVars
  <2> QED BY <1>2, <2>1, DestinationKeeps DEF TreeStep
<1>3. CASE CleanupStaging(p)
  BY <1>3, CleanupKeeps DEF CleanupStaging, TreeStep
<1>4. CASE Reject(p) \/ clearIncoming(p) \/ Crash(p) \/ completeIncomingBatch(p)
  <2>1. tree' = tree /\ Running(p)
    BY <1>4 DEF Reject, clearIncoming, Crash, completeIncomingBatch, diskVars, Running
  <2>2. \E how \in {"closed", "withdrawn", "crashed"}: Forget(p, how) /\ (how = "withdrawn" => created[p] = << >>)
    BY <1>4 DEF Reject, clearIncoming, Crash, completeIncomingBatch
  <2> QED BY <2>1, <2>2, ForgetKeeps DEF TreeStep
<1>5. CASE Accept(p) \/ PrepareFails(p) \/ ResumeReview(p) \/ FinishPreparing(p)
  <2>1. tree' = tree
    BY <1>5 DEF Accept, PrepareFails, ResumeReview, FinishPreparing, diskVars
  <2> QED BY <1>5, <2>1, AcceptKeeps DEF TreeStep
<1>6. CASE PrepareEntry(p)
  BY <1>6, PrepareKeeps
<1>7. CASE removeCreatedDirectories(p)
  BY <1>7, RemoveFolderKeeps
<1>8. ASSUME NEW f \in Files(p), FileStep(p, f) PROVE OfferInv(p)' /\ TreeStep(p)
  BY <1>8, FileStepKeeps
<1>9. CASE removeIncomingFiles(p)
  BY <1>9, WithdrawKeeps DEF removeIncomingFiles, TreeStep
<1> QED BY <1>1, <1>2, <1>3, <1>4, <1>5, <1>6, <1>7, <1>8, <1>9 DEF ProcessStep, ReviewStep, EndStep
---------------------------------------------------------------------------
(* Types                                                                   *)

Temps == [by: Process, offer: Nat, path: UNION {Files(p): p \in Process}]
DiskType ==
    /\ folders \subseteq Destination
    /\ staging \in [Destination -> SUBSET Temps]
    /\ \A d \in Destination: \A t \in staging[d]:
        d \in folders /\ t.offer \in 1..offer[t.by] /\ t.path \in Files(t.by)

OfferType(p) ==
    /\ finals[p] \in FinalsOf(p)
    /\ prepared[p] \subseteq DOMAIN Entries[p]
    /\ stream[p] \in [Files(p) -> {"none", "opening", "open", "broken", "linked",
                                   "published", "done", "failed", "stuck"}]
    /\ fate[p] \in [1..MaxOffers[p] -> {"open", "closed", "withdrawn", "crashed"}]
    /\ phase[p] \in {"none", "review", "preparing", "rollback", "receiving", "withdrawing"}
    /\ destination[p] \in Destination /\ finalsIn[p] \in Destination
    /\ staleStaging[p] \in BOOLEAN /\ reviewed[p] \in BOOLEAN
    /\ created[p] \in Seq(Places) /\ offer[p] \in Nat /\ offer[p] <= MaxOffers[p]

IsFunction ==
    /\ phase = [p \in Process |-> phase[p]] /\ destination = [p \in Process |-> destination[p]]
    /\ staleStaging = [p \in Process |-> staleStaging[p]] /\ finalsIn = [p \in Process |-> finalsIn[p]]
    /\ reviewed = [p \in Process |-> reviewed[p]] /\ created = [p \in Process |-> created[p]]
    /\ offer = [p \in Process |-> offer[p]]
    /\ DOMAIN finals = Process /\ DOMAIN prepared = Process /\ DOMAIN stream = Process /\ DOMAIN fate = Process

Types ==
    /\ tree \in [Destination -> [Places -> Nodes]] /\ DiskType /\ IsFunction
    /\ (\A p \in Process: OfferType(p)) /\ crashes \in 0..MaxCrashes

\* TypeOK, by the parts of the state.
LEMMA TypeParts ==
    TypeOK <=> /\ tree \in [Destination -> [Places -> Nodes]] /\ DiskType /\ IsFunction
               /\ (\A p \in Process: OfferType(p)) /\ crashes \in 0..MaxCrashes
<1>1. TypeOK => /\ tree \in [Destination -> [Places -> Nodes]] /\ DiskType /\ IsFunction
                /\ (\A p \in Process: OfferType(p)) /\ crashes \in 0..MaxCrashes
  BY DEF TypeOK, Nodes, DiskType, Temps, IsFunction, OfferType, FinalsOf
<1>2. ASSUME /\ tree \in [Destination -> [Places -> Nodes]] /\ DiskType /\ IsFunction
             /\ (\A p \in Process: OfferType(p)) /\ crashes \in 0..MaxCrashes
      PROVE  TypeOK
  <2>1. /\ phase \in [Process -> {"none", "review", "preparing", "rollback", "receiving", "withdrawing"}]
        /\ destination \in [Process -> Destination]
        /\ finalsIn \in [Process -> Destination]
        /\ staleStaging \in [Process -> BOOLEAN] /\ reviewed \in [Process -> BOOLEAN]
        /\ created \in [Process -> Seq(Places)]
        /\ offer \in [Process -> Nat]
    BY <1>2 DEF IsFunction, OfferType
  <2>2. \A p \in Process:
            /\ finals[p] \in [DOMAIN Roots(p) -> FinalNames \cup {<< >>}]
            /\ prepared[p] \subseteq DOMAIN Entries[p]
            /\ stream[p] \in [Files(p) -> {"none", "opening", "open", "broken", "linked",
                                           "published", "done", "failed", "stuck"}]
            /\ fate[p] \in [1..MaxOffers[p] -> {"open", "closed", "withdrawn", "crashed"}]
            /\ offer[p] <= MaxOffers[p]
    BY <1>2 DEF OfferType, FinalsOf
  <2> QED BY <1>2, <2>1, <2>2 DEF TypeOK, DiskType, Temps, IsFunction, Nodes
<1> QED BY <1>1, <1>2

LEMMA TypesAreTypeOK == TypeOK <=> Types
BY TypeParts DEF Types

LEMMA TreeStepType ==
    ASSUME TypeOK, NEW p \in Process, TreeStep(p)
    PROVE  tree' \in [Destination -> [Places -> Nodes]]
<1>1. tree \in [Destination -> [Places -> Nodes]] /\ offer[p] \in Nat
  BY TreeType
<1>2. ASSUME NEW d \in Destination, NEW x \in Places, Adds(p, d, x) PROVE tree' \in [Destination -> [Places -> Nodes]]
  <2>1. PICK k \in {manifestFile, manifestFolder}: tree' = [tree EXCEPT ![d][x] = Node(k, p, offer[p])]
    BY <1>2 DEF Adds
  <2>2. Node(k, p, offer[p]) \in Nodes
    BY <1>1, NodeIs
  <2> QED BY <1>1, <2>1, <2>2
<1>3. ASSUME NEW d \in Destination, NEW x \in Places, Removes(p, d, x) PROVE tree' \in [Destination -> [Places -> Nodes]]
  <2>1. tree' = [tree EXCEPT ![d][x] = Absent] /\ Absent \in Nodes
    BY <1>3, AbsentIs DEF Removes
  <2> QED BY <1>1, <2>1
<1> QED BY <1>1, <1>2, <1>3 DEF TreeStep

\* Temporary files go and their folder only with the last one.
LEMMA DiskShrinks ==
    ASSUME DiskType, \A q \in Process: offer[q] \in Nat /\ offer'[q] \in Nat /\ offer[q] <= offer'[q],
           folders' \subseteq Destination, staging' \in [Destination -> SUBSET Temps],
           \A d \in Destination: staging'[d] \subseteq staging[d],
           \A d \in folders: staging'[d] # {} => d \in folders'
    PROVE  DiskType'
<1>1. \A t \in Temps: t.by \in Process /\ t.offer \in Nat
  BY DEF Temps
<1> SUFFICES ASSUME NEW d \in Destination, NEW t \in staging'[d]
             PROVE  d \in folders' /\ t.offer \in 1..offer'[t.by] /\ t.path \in Files(t.by)
  BY DEF DiskType, Temps
<1>2. t \in staging[d] /\ t \in Temps
  OBVIOUS
<1>3. d \in folders /\ t.offer \in 1..offer[t.by] /\ t.path \in Files(t.by)
  BY <1>2 DEF DiskType
<1> QED BY <1>1, <1>2, <1>3

LEMMA RemoveTempsType ==
    ASSUME TypeOK, \A q \in Process: offer'[q] \in Nat /\ offer[q] <= offer'[q],
           NEW d \in Destination, NEW gone, RemoveTemps(d, gone)
    PROVE  DiskType'
<1>1. DiskType /\ \A q \in Process: offer[q] \in Nat
  BY TypeParts DEF OfferType
<1>2. /\ staging'[d] = staging[d] \ gone
      /\ \A e \in Destination: staging'[e] \subseteq staging[e]
      /\ folders' \subseteq folders
      /\ \A e \in folders: e # d \/ staging'[d] # {} => e \in folders'
      /\ staging' \in [Destination -> SUBSET Temps]
  BY RemoveTempsIs DEF Temps
<1>3. \A e \in folders: staging'[e] # {} => e \in folders'
  BY <1>2
<1> QED BY <1>1, <1>2, <1>3, DiskShrinks DEF DiskType

LEMMA ForgetType ==
    ASSUME TypeOK, NEW p \in Process, NEW how \in {"closed", "withdrawn", "crashed"}, Forget(p, how)
    PROVE  IsFunction' /\ OfferType(p)'
<1>1. IsFunction /\ OfferType(p)
  BY TypeParts
<1>2. IsFunction'
  BY <1>1 DEF Forget, IsFunction
<1>3. /\ phase'[p] = "none" /\ created'[p] = << >> /\ prepared'[p] = {} /\ destination'[p] = Default(p)
      /\ finals'[p] = NoFinals(p) /\ offer'[p] = offer[p] /\ stream'[p] = [f \in Files(p) |-> "none"]
      /\ staleStaging'[p] = FALSE /\ reviewed'[p] = FALSE /\ finalsIn'[p] = Default(p)
      /\ fate'[p] = [fate[p] EXCEPT ![offer[p]] = how]
  BY <1>1 DEF Forget, IsFunction
<1>4. Default(p) \in Destination /\ NoFinals(p) \in FinalsOf(p)
  BY DestinationAssumption DEF NoFinals, FinalsOf
<1>5. fate'[p] \in [1..MaxOffers[p] -> {"open", "closed", "withdrawn", "crashed"}]
  <2>1. fate[p] \in [1..MaxOffers[p] -> {"open", "closed", "withdrawn", "crashed"}]
    BY <1>1 DEF OfferType
  <2> QED BY <1>3, <2>1
<1>6. stream'[p] \in [Files(p) -> {"none", "opening", "open", "broken", "linked",
                                 "published", "done", "failed", "stuck"}]
  BY <1>3
<1>7. OfferType(p)'
  <2>1. created'[p] \in Seq(Places)
    <3>1. << >> \in Seq(Places)
      OBVIOUS
    <3> QED BY <1>3, <3>1
  <2> QED BY <1>1, <1>3, <1>4, <1>5, <1>6, <2>1 DEF OfferType
<1> QED BY <1>2, <1>7

\* The entries of an offer get final paths that are places.
LEMMA MakeType ==
    ASSUME TypeOK, NEW p \in Process, NEW i \in DOMAIN Entries[p], NEW d, Make(p, d, Entries[p][i])
    PROVE  created' = created \/ (\E x \in Places: created' = [created EXCEPT ![p] = Append(@, x)])
<1>1. Resolved(p, Entries[p][i].path) /\ finals[p] \in FinalsOf(p)
  BY FinalsType DEF Make
<1>2. Target(p, Entries[p][i].path) \in Places
  BY <1>1, TargetIs, ResolvedPlace
<1> QED BY <1>2 DEF Make

LEMMA OfferTypeStep ==
    ASSUME TypeOK, NEW p \in Process, ProcessStep(p)
    PROVE  IsFunction' /\ OfferType(p)' /\ crashes' \in 0..MaxCrashes
           /\ offer[p] <= offer'[p]
<1>1. IsFunction /\ OfferType(p) /\ crashes \in 0..MaxCrashes /\ MaxOffers[p] \in Nat /\ MaxCrashes \in Nat /\ offer[p] \in Nat
  BY TypeParts, ProcessAssumption DEF OfferType
<1>2. Default(p) \in Destination /\ Selectable[p] \subseteq Destination
  BY DestinationAssumption
<1>3. CASE StartReview(p)
  <2>1. /\ destination'[p] \in Destination /\ finalsIn'[p] \in Destination /\ reviewed'[p] \in BOOLEAN
        /\ staleStaging'[p] \in BOOLEAN /\ finals'[p] \in FinalsOf(p)
    <3>1. resolveIncomingPaths(p, Default(p))
      BY <1>3 DEF StartReview
    <3>2. PICK d \in Destination: d = Default(p)
      BY <1>2
    <3>3. resolveIncomingPaths(p, d)
      BY <3>1, <3>2
    <3>4. /\ destination'[p] = d /\ finalsIn'[p] = d /\ reviewed'[p] = TRUE
          /\ staleStaging'[p] = (staging[d] # {}) /\ finals'[p] \in FinalsOf(p)
      BY <3>3, ResolvedPaths
    <3> QED BY <3>4
  <2>2. IsFunction'
    BY <1>1, <1>3 DEF IsFunction, StartReview, resolveIncomingPaths
  <2>3. /\ phase'[p] = "review" /\ offer'[p] = offer[p] + 1 /\ offer[p] < MaxOffers[p]
        /\ created' = created /\ prepared' = prepared /\ stream' = stream /\ fate' = fate /\ crashes' = crashes
    BY <1>1, <1>3 DEF IsFunction, StartReview
  <2> QED BY <1>1, <2>1, <2>2, <2>3 DEF OfferType
<1>4. CASE ChooseDestination(p)
  <2>1. /\ destination'[p] \in Destination /\ finalsIn'[p] \in Destination /\ reviewed'[p] \in BOOLEAN
        /\ staleStaging'[p] \in BOOLEAN /\ finals'[p] \in FinalsOf(p)
    <3>1. PICK d \in Selectable[p]: resolveIncomingPaths(p, d)
      BY <1>4 DEF ChooseDestination
    <3>2. d \in Destination
      BY <1>2
    <3>3. /\ destination'[p] = d /\ finalsIn'[p] = d /\ reviewed'[p] = TRUE
          /\ staleStaging'[p] = (staging[d] # {}) /\ finals'[p] \in FinalsOf(p)
      BY <3>1, <3>2, ResolvedPaths
    <3> QED BY <3>2, <3>3
  <2>2. IsFunction'
    BY <1>1, <1>4 DEF IsFunction, ChooseDestination, resolveIncomingPaths, boundVars
  <2>3. UNCHANGED <<phase, created, prepared, stream, offer, fate, crashes>>
    BY <1>4 DEF ChooseDestination, boundVars
  <2> QED BY <1>1, <2>1, <2>2, <2>3 DEF OfferType
<1>5. CASE DestinationUnlisted(p) \/ DestinationUninspected(p)
  <2>1. /\ destination'[p] \in Destination /\ reviewed'[p] \in BOOLEAN /\ staleStaging'[p] \in BOOLEAN
        /\ UNCHANGED <<phase, finals, finalsIn, created, prepared, stream, offer, fate, crashes>>
    BY <1>1, <1>2, <1>5 DEF IsFunction, OfferType, DestinationUnlisted, DestinationUninspected, boundVars
  <2>2. IsFunction'
    BY <1>1, <1>5 DEF IsFunction, DestinationUnlisted, DestinationUninspected, boundVars
  <2> QED BY <1>1, <2>1, <2>2 DEF OfferType
<1>6. CASE CleanupStaging(p)
  <2>1. /\ staleStaging' = staleStaging \/ staleStaging' = [staleStaging EXCEPT ![p] = FALSE]
        /\ UNCHANGED <<phase, destination, finals, finalsIn, reviewed, created, prepared, stream, offer, fate, crashes>>
    BY <1>6 DEF CleanupStaging, boundVars
  <2>2. IsFunction' /\ staleStaging'[p] \in BOOLEAN
    BY <1>1, <2>1 DEF IsFunction, OfferType
  <2> QED BY <1>1, <2>1, <2>2 DEF OfferType
<1>7. CASE Reject(p) \/ clearIncoming(p) \/ completeIncomingBatch(p) \/ Crash(p)
  <2>1. \E how \in {"closed", "withdrawn", "crashed"}: Forget(p, how)
    BY <1>7 DEF Reject, clearIncoming, completeIncomingBatch, Crash
  <2>2. crashes' = crashes \/ (crashes < MaxCrashes /\ crashes' = crashes + 1)
    BY <1>7 DEF Reject, clearIncoming, completeIncomingBatch, Crash
  <2>3. offer' = offer
    BY <2>1 DEF Forget
  <2> QED BY <1>1, <2>1, <2>2, <2>3, ForgetType
<1>8. CASE Accept(p) \/ PrepareFails(p) \/ ResumeReview(p) \/ FinishPreparing(p)
  <2>1. UNCHANGED <<destination, staleStaging, finals, finalsIn, reviewed, stream, offer, fate, crashes>>
    BY <1>8 DEF Accept, PrepareFails, ResumeReview, FinishPreparing, reviewVars, boundVars
  <2>2. /\ \E ph \in {"review", "preparing", "rollback", "receiving"}: phase' = [phase EXCEPT ![p] = ph]
        /\ prepared' = prepared \/ prepared' = [prepared EXCEPT ![p] = {}]
        /\ created' = created \/ created' = [created EXCEPT ![p] = << >>]
    BY <1>8 DEF Accept, PrepareFails, ResumeReview, FinishPreparing
  <2>3. IsFunction'
    BY <1>1, <2>1, <2>2 DEF IsFunction
  <2>4. /\ phase'[p] \in {"review", "preparing", "rollback", "receiving"}
        /\ prepared'[p] \subseteq DOMAIN Entries[p]
    BY <1>1, <2>2 DEF IsFunction, OfferType
  <2>5. created'[p] \in Seq(Places)
    <3>1. << >> \in Seq(Places) /\ created[p] \in Seq(Places)
      BY <1>1 DEF OfferType
    <3>2. created'[p] = created[p] \/ created'[p] = << >>
      BY <1>1, <2>2 DEF IsFunction
    <3> QED BY <3>1, <3>2
  <2> QED BY <1>1, <2>1, <2>3, <2>4, <2>5 DEF OfferType
<1>9. CASE PrepareEntry(p)
  <2>1. PICK i \in NextToPrepare(Entries[p], prepared[p]):
            Make(p, destination[p], Entries[p][i]) /\ prepared' = [prepared EXCEPT ![p] = @ \cup {i}]
    BY <1>9 DEF PrepareEntry
  <2>2. i \in DOMAIN Entries[p]
    BY DEF NextToPrepare, Unprepared
  <2>3. created' = created \/ (\E x \in Places: created' = [created EXCEPT ![p] = Append(@, x)])
    BY <2>1, <2>2, MakeType
  <2>4. UNCHANGED <<phase, destination, staleStaging, finals, finalsIn, reviewed, stream, offer, fate, crashes>>
    BY <1>9 DEF PrepareEntry, reviewVars, boundVars
  <2>5. created'[p] \in Seq(Places) /\ created' = [q \in Process |-> created'[q]]
    <3>1. created[p] \in Seq(Places) /\ created = [q \in Process |-> created[q]]
      BY <1>1 DEF IsFunction, OfferType
    <3>2. CASE created' = created
      BY <3>1, <3>2
    <3>3. ASSUME NEW x \in Places, created' = [created EXCEPT ![p] = Append(@, x)]
          PROVE  created'[p] \in Seq(Places) /\ created' = [q \in Process |-> created'[q]]
      <4>1. Append(created[p], x) \in Seq(Places)
        BY <3>1
      <4> QED BY <3>1, <3>3, <4>1
    <3> QED BY <2>3, <3>2, <3>3
  <2>6. prepared'[p] \subseteq DOMAIN Entries[p] /\ DOMAIN prepared' = Process
    BY <1>1, <2>1, <2>2 DEF IsFunction, OfferType
  <2> QED BY <1>1, <2>4, <2>5, <2>6 DEF IsFunction, OfferType
<1>10. CASE removeCreatedDirectories(p)
  <2>1. /\ created[p] # << >> /\ created' = [created EXCEPT ![p] = Front(@)]
        /\ UNCHANGED <<phase, destination, staleStaging, finals, finalsIn, reviewed, prepared, stream, offer, fate, crashes>>
    BY <1>10 DEF removeCreatedDirectories, reviewVars, boundVars
  <2>2. Front(created[p]) \in Seq(Places)
    BY <1>1, <2>1 DEF OfferType, Front
  <2>3. created'[p] \in Seq(Places) /\ created' = [q \in Process |-> created'[q]]
    BY <1>1, <2>1, <2>2 DEF IsFunction
  <2> QED BY <1>1, <2>1, <2>3 DEF IsFunction, OfferType
<1>11. ASSUME NEW f \in Files(p), FileStep(p, f)
       PROVE  IsFunction' /\ OfferType(p)' /\ crashes' \in 0..MaxCrashes /\ offer[p] <= offer'[p]
  <2>1. PICK s \in {"opening", "open", "broken", "linked", "published", "done", "failed", "stuck"}: SetStream(p, f, s)
    BY <1>11 DEF FileStep, startReceivingFile, CreateTemp, failIncomingFile, Link, Unlink, Move, ApplyMetadata
  <2>2. UNCHANGED <<phase, destination, staleStaging, finals, finalsIn, reviewed, created, prepared, offer, fate, crashes>>
    BY <1>11 DEF FileStep, startReceivingFile, CreateTemp, failIncomingFile, Link, Unlink, Move, ApplyMetadata,
                 reviewVars, boundVars
  <2>3. DOMAIN stream' = Process /\ stream'[p] = [stream[p] EXCEPT ![f] = s]
    BY <1>1, <2>1 DEF SetStream, IsFunction
  <2>4. IsFunction'
    BY <1>1, <2>2, <2>3 DEF IsFunction
  <2>5. stream'[p] \in [Files(p) -> {"none", "opening", "open", "broken", "linked",
                                    "published", "done", "failed", "stuck"}]
    BY <1>1, <2>3 DEF OfferType
  <2> QED BY <1>1, <2>2, <2>4, <2>5 DEF OfferType
<1>12. CASE removeIncomingFiles(p)
  <2>1. /\ phase' = [phase EXCEPT ![p] = "withdrawing"]
        /\ stream' = [stream EXCEPT ![p] = [f \in Files(p) |-> "none"]]
        /\ UNCHANGED <<destination, staleStaging, finals, finalsIn, reviewed, created, prepared, offer, fate, crashes>>
    BY <1>12 DEF removeIncomingFiles, reviewVars, boundVars
  <2>2. stream'[p] = [f \in Files(p) |-> "none"] /\ DOMAIN stream' = Process
    BY <1>1, <2>1 DEF IsFunction
  <2>3. IsFunction'
    BY <1>1, <2>1, <2>2 DEF IsFunction
  <2>4. phase'[p] = "withdrawing"
    BY <1>1, <2>1 DEF IsFunction
  <2>5. stream'[p] \in [Files(p) -> {"none", "opening", "open", "broken", "linked",
                                    "published", "done", "failed", "stuck"}]
    BY <2>2
  <2> QED BY <1>1, <2>1, <2>3, <2>4, <2>5 DEF OfferType
<1> QED BY <1>3, <1>4, <1>5, <1>6, <1>7, <1>8, <1>9, <1>10, <1>11, <1>12 DEF ProcessStep, ReviewStep, EndStep

LEMMA DiskTypeStep ==
    ASSUME TypeOK, NEW p \in Process, OfferInv(p), ProcessStep(p)
    PROVE  DiskType'
<1>1. DiskType /\ \A q \in Process: offer[q] \in Nat
  BY TypeParts DEF OfferType
<1>2. \A q \in Process: offer'[q] \in Nat /\ offer[q] <= offer'[q]
  <2>1. offer'[p] \in Nat /\ offer[p] <= offer'[p]
    BY OfferTypeStep DEF OfferType
  <2>2. \A q \in Process: q # p => offer'[q] = offer[q]
    BY OnlyMine DEF Others, Same
  <2> QED BY <1>1, <2>1, <2>2
<1>3. destination[p] \in Destination /\ Default(p) \in Destination /\ Selectable[p] \subseteq Destination
  BY DestinationAssumption DEF TypeOK
<1>4. ASSUME NEW d \in Destination, NEW gone, RemoveTemps(d, gone) PROVE DiskType'
  BY <1>2, <1>4, RemoveTempsType
<1>5. ASSUME UNCHANGED staging, folders' = folders \/ folders' = folders \cup {destination[p]} PROVE DiskType'
  <2>1. /\ folders' \subseteq Destination /\ staging' \in [Destination -> SUBSET Temps]
        /\ \A d \in Destination: staging'[d] \subseteq staging[d]
        /\ \A d \in folders: staging'[d] # {} => d \in folders'
    BY <1>1, <1>3, <1>5 DEF DiskType
  <2> QED BY <1>1, <1>2, <2>1, DiskShrinks
<1>6. ASSUME UNCHANGED folders, NEW left \in SUBSET staging[destination[p]],
             staging' = [staging EXCEPT ![destination[p]] = left]
      PROVE  DiskType'
  <2>1. staging \in [Destination -> SUBSET Temps] /\ folders \subseteq Destination
    BY <1>1 DEF DiskType
  <2>2. staging' \in [Destination -> SUBSET Temps] /\ \A d \in Destination: staging'[d] \subseteq staging[d]
    BY <1>3, <1>6, <2>1
  <2>3. folders' \subseteq Destination /\ \A d \in folders: staging'[d] # {} => d \in folders'
    BY <1>6, <2>1
  <2> QED BY <1>1, <1>2, <2>2, <2>3, DiskShrinks
<1>7. CASE StartReview(p)
  BY <1>3, <1>4, <1>7 DEF StartReview, resolveIncomingPaths
<1>8. CASE ChooseDestination(p)
  BY <1>3, <1>4, <1>8 DEF ChooseDestination, resolveIncomingPaths
<1>9. CASE CleanupStaging(p)
  <2>1. CASE RemoveTemps(destination[p], staging[destination[p]])
    BY <1>3, <1>4, <2>1
  <2>2. CASE (\E left \in SUBSET staging[destination[p]]: staging' = [staging EXCEPT ![destination[p]] = left]) /\ UNCHANGED folders
    BY <1>6, <2>2
  <2> QED BY <1>9, <2>1, <2>2 DEF CleanupStaging
<1>10. CASE \/ DestinationUnlisted(p) \/ DestinationUninspected(p) \/ Reject(p) \/ clearIncoming(p) \/ Crash(p)
            \/ Accept(p) \/ PrepareFails(p) \/ ResumeReview(p) \/ PrepareEntry(p) \/ removeCreatedDirectories(p)
            \/ FinishPreparing(p)
  <2>1. UNCHANGED staging /\ (folders' = folders \/ folders' = folders \cup {destination[p]})
    BY <1>10 DEF DestinationUnlisted, DestinationUninspected, Reject, clearIncoming, Crash, Accept, PrepareFails,
                 ResumeReview, PrepareEntry, removeCreatedDirectories, FinishPreparing, diskVars
  <2> QED BY <1>5, <2>1
<1>11. ASSUME NEW f \in Files(p), FileStep(p, f) PROVE DiskType'
  <2>1. CASE startReceivingFile(p, f) \/ Link(p, f) \/ ApplyMetadata(p, f)
    <3>1. UNCHANGED staging /\ (folders' = folders \/ folders' = folders \cup {destination[p]})
      BY <2>1 DEF startReceivingFile, Link, ApplyMetadata
    <3> QED BY <1>5, <3>1
  <2>2. CASE CreateTemp(p, f)
    <3>1. CASE UNCHANGED staging
      BY <1>5, <2>2, <3>1 DEF CreateTemp
    <3>2. CASE destination[p] \in folders /\ staging' = [staging EXCEPT ![destination[p]] = @ \cup {Temp(p, f)}]
      <4>1. /\ Temp(p, f) \in Temps /\ Temp(p, f).by = p /\ Temp(p, f).offer = offer[p] /\ Temp(p, f).path = f
        BY <1>1 DEF Temp, Temps
      <4>2. offer[p] \in 1..offer'[p] /\ folders' = folders
        <5>1. offer[p] >= 1 /\ offer' = offer
          <6>1. stream[p][f] = "opening" /\ offer' = offer
            BY <2>2 DEF CreateTemp, boundVars
          <6>2. Running(p)
            BY <6>1 DEF OfferInv, PhaseInv, Running
          <6> QED BY <6>1, <6>2 DEF OfferInv, PhaseInv
        <5> QED BY <1>1, <2>2, <5>1 DEF CreateTemp
      <4>3. staging \in [Destination -> SUBSET Temps] /\ folders \subseteq Destination
        BY <1>1 DEF DiskType
      <4>4. staging' \in [Destination -> SUBSET Temps]
        BY <1>3, <3>2, <4>1, <4>3
      <4>5. ASSUME NEW d \in Destination, NEW t \in staging'[d]
            PROVE  d \in folders' /\ t.offer \in 1..offer'[t.by] /\ t.path \in Files(t.by)
        <5>1. CASE t \in staging[d]
          <6>1. t.by \in Process
            BY <4>3, <5>1 DEF Temps
          <6>2. d \in folders /\ t.offer \in 1..offer[t.by] /\ t.path \in Files(t.by)
            BY <1>1, <5>1 DEF DiskType
          <6> QED BY <1>1, <1>2, <4>2, <6>1, <6>2
        <5>2. CASE d = destination[p] /\ t = Temp(p, f)
          BY <3>2, <4>1, <4>2, <5>2
        <5> QED BY <1>3, <3>2, <4>3, <4>5, <5>1, <5>2
      <4> QED BY <4>2, <4>3, <4>4, <4>5 DEF DiskType, Temps
    <3> QED BY <2>2, <3>1, <3>2 DEF CreateTemp
  <2>3. CASE failIncomingFile(p, f)
    BY <1>3, <1>4, <2>3 DEF failIncomingFile
  <2>4. CASE Unlink(p, f)
    <3>1. CASE HasTemp(p, f)
      BY <1>6, <2>4, <3>1 DEF Unlink
    <3>2. CASE ~HasTemp(p, f)
      BY <1>3, <1>4, <2>4, <3>2 DEF Unlink
    <3> QED BY <3>1, <3>2
  <2>5. CASE Move(p, f)
    BY <1>6, <2>5 DEF Move
  <2> QED BY <1>11, <2>1, <2>2, <2>3, <2>4, <2>5 DEF FileStep
<1>12. CASE completeIncomingBatch(p)
  BY <1>3, <1>4, <1>12 DEF completeIncomingBatch
<1>13. CASE removeIncomingFiles(p)
  BY <1>3, <1>4, <1>13 DEF removeIncomingFiles
<1> QED BY <1>7, <1>8, <1>9, <1>10, <1>11, <1>12, <1>13 DEF ProcessStep, ReviewStep, EndStep

LEMMA TypeStep ==
    ASSUME TypeOK, TreeInv, NEW p \in Process, OfferInv(p), ProcessStep(p)
    PROVE  TypeOK'
<1>1. TreeStep(p)
  BY OfferStepKeeps
<1>2. tree' \in [Destination -> [Places -> Nodes]]
  BY <1>1, TreeStepType
<1>3. DiskType'
  BY DiskTypeStep
<1>4. IsFunction' /\ OfferType(p)' /\ crashes' \in 0..MaxCrashes
  BY OfferTypeStep
<1>5. ASSUME NEW q \in Process, q # p PROVE OfferType(q)'
  <2>1. Same(q) /\ OfferType(q)
    BY <1>5, OnlyMine, TypeParts DEF Others
  <2> QED BY <2>1 DEF Same, OfferType
<1>6. \A q \in Process: OfferType(q)'
  BY <1>4, <1>5
<1>7. Types'
  BY <1>2, <1>3, <1>4, <1>6 DEF Types
<1> QED BY <1>7, TypesAreTypeOK, PTL
---------------------------------------------------------------------------
(* The temporary files                                                     *)

LEMMA CrashedStays ==
    ASSUME TypeOK, NEW p \in Process, OfferInv(p), ProcessStep(p), NEW n, fate[p][n] = "crashed"
    PROVE  fate'[p][n] = "crashed"
<1>1. CASE fate' = fate
  BY <1>1
<1>2. ASSUME NEW how, Forget(p, how), Running(p) PROVE fate'[p][n] = "crashed"
  <2>1. fate'[p] = [fate[p] EXCEPT ![offer[p]] = how]
    BY <1>2, FunctionsOfProcesses DEF Forget
  <2>2. n # offer[p]
    BY <1>2 DEF OfferInv, PhaseInv
  <2>3. fate[p] = [m \in DOMAIN fate[p] |-> fate[p][m]]
    BY DEF TypeOK
  <2> QED BY <2>1, <2>2, <2>3
<1>3. \/ fate' = fate
      \/ Running(p) /\ \E how \in {"closed", "withdrawn", "crashed"}: Forget(p, how)
  <2>1. CASE ReviewStep(p)
    BY <2>1 DEF ReviewStep, StartReview, ChooseDestination, DestinationUnlisted, DestinationUninspected, CleanupStaging,
                Reject, Accept, PrepareEntry, PrepareFails, removeCreatedDirectories, ResumeReview, FinishPreparing,
                boundVars, Running
  <2>2. CASE \E f \in Files(p): FileStep(p, f)
    BY <2>2 DEF FileStep, startReceivingFile, CreateTemp, failIncomingFile, Link, Unlink, Move, ApplyMetadata, boundVars
  <2>3. CASE EndStep(p)
    BY <2>3 DEF EndStep, completeIncomingBatch, removeIncomingFiles, clearIncoming, Crash, boundVars, Running
  <2> QED BY <2>1, <2>2, <2>3 DEF ProcessStep
<1> QED BY <1>1, <1>2, <1>3

\* A temporary file is determined by its process, its offer and its path.
LEMMA TempIs ==
    ASSUME NEW p \in Process, NEW f, NEW t \in Temps, t.by = p, t.offer = offer[p], t.path = f
    PROVE  t = Temp(p, f)
BY DEF Temp, Temps

LEMMA FileStepTemps ==
    ASSUME TypeOK, NEW p \in Process, OfferInv(p), NEW f \in Files(p), FileStep(p, f),
           NEW d \in Destination, NEW t \in staging'[d], t.by = p, t \in staging[d] => Owned(d, t), fate' = fate
    PROVE  Owned(d, t)'
<1>1. /\ staging \in [Destination -> SUBSET Temps] /\ destination[p] \in Destination /\ offer[p] \in Nat
      /\ stream[p] = [g \in Files(p) |-> stream[p][g]]
  BY DEF TypeOK, Temps
<1>2. UNCHANGED <<phase, destination, offer>>
  BY DEF FileStep, startReceivingFile, CreateTemp, failIncomingFile, Link, Unlink, Move, ApplyMetadata, reviewVars, boundVars
<1>3. PICK s: SetStream(p, f, s)
  BY DEF FileStep, startReceivingFile, CreateTemp, failIncomingFile, Link, Unlink, Move, ApplyMetadata
<1>4. stream'[p][f] = s /\ \A g: g # f => stream'[p][g] = stream[p][g]
  BY <1>1, <1>3, FunctionsOfProcesses DEF SetStream
<1>5. CASE t \in staging[d]
  <2>1. CASE fate[p][t.offer] = "crashed"
    BY <2>1 DEF Owned
  <2>2. CASE fate[p][t.offer] # "crashed"
    <3>1. /\ t.offer = offer[p] /\ phase[p] = "receiving" /\ destination[p] = d
          /\ stream[p][t.path] \in {"open", "linked"}
      BY <1>5, <2>2 DEF Owned
    <3>2. CASE t.path # f
      BY <1>2, <1>4, <3>1, <3>2 DEF Owned
    <3>3. CASE t.path = f
      <4>1. t = Temp(p, f)
        BY <1>1, <1>5, <3>1, <3>3, TempIs
      <4>2. ~startReceivingFile(p, f) /\ ~CreateTemp(p, f) /\ ~ApplyMetadata(p, f)
        BY <3>1, <3>3 DEF startReceivingFile, CreateTemp, ApplyMetadata
      <4>3. ~failIncomingFile(p, f)
        <5>1. RemoveTemps(destination[p], {Temp(p, f)}) => t \notin staging'[d]
          BY <1>1, <3>1, <4>1, RemoveTempsIs
        <5> QED BY <5>1 DEF failIncomingFile
      <4>4. ~Move(p, f) /\ ~Unlink(p, f)
        <5>1. staging' = [staging EXCEPT ![destination[p]] = @ \ {Temp(p, f)}] => t \notin staging'[d]
          BY <1>1, <3>1, <4>1
        <5>2. HasTemp(p, f)
          BY <1>5, <3>1, <4>1 DEF HasTemp
        <5> QED BY <5>1, <5>2 DEF Move, Unlink
      <4>5. Link(p, f)
        BY <4>2, <4>3, <4>4 DEF FileStep
      <4>6. stream'[p][f] = "linked"
        BY <1>1, <4>5, FunctionsOfProcesses DEF Link, SetStream
      <4> QED BY <1>2, <3>1, <3>3, <4>6 DEF Owned
    <3> QED BY <3>2, <3>3
  <2> QED BY <2>1, <2>2
<1>6. CASE t \notin staging[d]
  <2>1. /\ CreateTemp(p, f) /\ staging' = [staging EXCEPT ![destination[p]] = @ \cup {Temp(p, f)}]
        /\ SetStream(p, f, "open")
    <3>1. staging' # staging
      BY <1>6
    <3>2. \A gone: ~RemoveTemps(destination[p], gone)
      BY <1>1, <1>6, RemoveTempsIs
    <3>3. staging' # [staging EXCEPT ![destination[p]] = @ \ {Temp(p, f)}]
      BY <1>1, <1>6
    <3> QED BY <3>1, <3>2, <3>3
            DEF FileStep, startReceivingFile, CreateTemp, failIncomingFile, Link, Unlink, Move, ApplyMetadata
  <2>2. t = Temp(p, f) /\ d = destination[p]
    BY <1>1, <1>6, <2>1
  <2>3. t.offer = offer[p] /\ t.path = f
    BY <2>2 DEF Temp
  <2>4. phase[p] = "receiving" /\ stream'[p][f] = "open"
    <3>1. stream[p][f] = "opening"
      BY <2>1 DEF CreateTemp
    <3>2. phase[p] = "receiving"
      BY <3>1 DEF OfferInv, PhaseInv
    <3>3. stream'[p][f] = "open"
      BY <1>1, <2>1, FunctionsOfProcesses DEF SetStream
    <3> QED BY <3>2, <3>3
  <2> QED BY <1>2, <2>2, <2>3, <2>4 DEF Owned
<1> QED BY <1>5, <1>6

LEMMA TempsOwned ==
    ASSUME TypeOK, TypeOK', TempsInv, NEW p \in Process, OfferInv(p), ProcessStep(p),
           NEW d \in Destination, NEW t \in staging'[d]
    PROVE  Owned(d, t)' /\ t.by \in Process
<1>1. t \in Temps /\ t.by \in Process
  BY DEF TypeOK, Temps
<1>2. CASE t.by # p
  <2>1. Same(t.by) /\ t \in staging[d]
    BY <1>1, <1>2, OnlyMine DEF Others, LeavesTemps
  <2>2. Owned(d, t)
    BY <2>1 DEF TempsInv
  <2> QED BY <1>1, <2>1, <2>2 DEF Owned, Same
<1>3. CASE t.by = p
  <2> SUFFICES Owned(d, t)'
    BY <1>1
  <2>1. t \in staging[d] => Owned(d, t)
    BY DEF TempsInv
  <2>2. t \in staging[d] /\ phase[p] # "receiving" => Owned(d, t)'
    BY <1>3, <2>1, CrashedStays DEF Owned
  <2>3. ASSUME NEW f \in Files(p), FileStep(p, f) PROVE Owned(d, t)'
    <3>1. fate' = fate
      BY <2>3 DEF FileStep, startReceivingFile, CreateTemp, failIncomingFile, Link, Unlink, Move, ApplyMetadata, boundVars
    <3> QED BY <1>3, <2>1, <2>3, <3>1, FileStepTemps
  <2>4. destination[p] \in Destination /\ Default(p) \in Destination /\ Selectable[p] \subseteq Destination
    BY DestinationAssumption DEF TypeOK
  <2>5. ASSUME NEW e \in Destination, NEW gone, RemoveTemps(e, gone) PROVE t \in staging[d]
    BY <2>5, RemoveTempsIs
  <2>6. CASE ReviewStep(p)
    <3>1. phase[p] # "receiving"
      BY <2>6 DEF ReviewStep, StartReview, ChooseDestination, DestinationUnlisted, DestinationUninspected, CleanupStaging,
                  Reject, Accept, PrepareEntry, PrepareFails, removeCreatedDirectories, ResumeReview, FinishPreparing
    <3>2. CASE StartReview(p) \/ ChooseDestination(p)
      BY <2>2, <2>4, <2>5, <3>1, <3>2 DEF StartReview, ChooseDestination, resolveIncomingPaths
    <3>3. CASE CleanupStaging(p)
      <4>1. CASE RemoveTemps(destination[p], staging[destination[p]])
        BY <2>2, <2>4, <2>5, <3>1, <4>1
      <4>2. CASE \E left \in SUBSET staging[destination[p]]: staging' = [staging EXCEPT ![destination[p]] = left]
        <5>1. staging \in [Destination -> SUBSET Temps]
          BY DEF TypeOK, Temps
        <5>2. t \in staging[d]
          BY <2>4, <4>2, <5>1
        <5> QED BY <2>2, <3>1, <5>2
      <4> QED BY <3>3, <4>1, <4>2 DEF CleanupStaging
    <3>4. CASE UNCHANGED staging
      BY <2>2, <3>1, <3>4
    <3>5. StartReview(p) \/ ChooseDestination(p) \/ CleanupStaging(p) \/ UNCHANGED staging
      BY <2>6 DEF ReviewStep, DestinationUnlisted, DestinationUninspected, Reject, Accept, PrepareEntry, PrepareFails,
                  removeCreatedDirectories, ResumeReview, FinishPreparing, diskVars
    <3> QED BY <3>2, <3>3, <3>4, <3>5
  <2>7. ASSUME t \in staging[d], fate[p][t.offer] # "crashed"
        PROVE  t.offer = offer[p] /\ phase[p] = "receiving" /\ destination[p] = d /\ stream[p][t.path] \in {"open", "linked"}
    BY <1>3, <2>1, <2>7 DEF Owned
  <2>8. ASSUME fate[p][t.offer] = "crashed" PROVE Owned(d, t)'
    BY <1>3, <2>8, CrashedStays DEF Owned
  <2>9. t \in staging[d] => t.path \in Files(p)
    BY <1>3 DEF TypeOK
  <2>10. CASE completeIncomingBatch(p)
    <3>1. t \in staging[d]
      BY <2>4, <2>5, <2>10 DEF completeIncomingBatch
    <3>2. stream[p][t.path] \notin {"open", "linked"}
      BY <2>9, <2>10, <3>1 DEF completeIncomingBatch
    <3> QED BY <2>7, <2>8, <3>1, <3>2
  <2>11. CASE removeIncomingFiles(p)
    <3> DEFINE gone == {Temp(p, f): f \in {g \in Files(p): stream[p][g] = "open"}}
    <3>1. RemoveTemps(destination[p], gone) /\ ~Handling(p)
      BY <2>11 DEF removeIncomingFiles
    <3>2. t \in staging[d] /\ (d = destination[p] => t \notin gone)
      <4> HIDE DEF gone
      <4> QED BY <2>4, <3>1, RemoveTempsIs
    <3>3. ASSUME fate[p][t.offer] # "crashed" PROVE FALSE
      <4>1. stream[p][t.path] # "linked"
        BY <2>9, <3>1, <3>2 DEF Handling
      <4>2. stream[p][t.path] = "open" /\ t = Temp(p, t.path)
        BY <1>1, <1>3, <2>7, <3>2, <3>3, <4>1, TempIs
      <4> QED BY <2>7, <2>9, <3>2, <3>3, <4>2
    <3> QED BY <2>8, <3>3
  <2>12. CASE clearIncoming(p)
    BY <2>2, <2>12 DEF clearIncoming, diskVars
  <2>13. CASE Crash(p)
    <3>1. t \in staging[d] /\ fate' = [fate EXCEPT ![p][offer[p]] = "crashed"]
      BY <2>13 DEF Crash, diskVars, Forget
    <3>2. CASE t.offer = offer[p]
      <4>1. fate[p] \in [1..MaxOffers[p] -> {"open", "closed", "withdrawn", "crashed"}] /\ offer[p] \in 1..MaxOffers[p]
        BY <2>13, ProcessAssumption DEF TypeOK, OfferInv, PhaseInv, Running, Crash
      <4>2. fate'[p][t.offer] = "crashed"
        BY <3>1, <3>2, <4>1, FunctionsOfProcesses
      <4> QED BY <1>3, <4>2 DEF Owned
    <3>3. CASE t.offer # offer[p]
      BY <2>7, <2>8, <3>1, <3>3
    <3> QED BY <3>2, <3>3
  <2> QED BY <2>3, <2>6, <2>10, <2>11, <2>12, <2>13 DEF ProcessStep, EndStep
<1> QED BY <1>1, <1>2, <1>3

\* A process that receives goes on, or it ends its offer.
LEMMA ReceivingGoesOn ==
    ASSUME TypeOK, NEW p \in Process, OfferInv(p), ProcessStep(p), ~Crash(p)
    PROVE  /\ \/ phase[p] # "receiving"
              \/ phase'[p] = "receiving" /\ destination'[p] = destination[p]
              \/ \E gone: RemoveTemps(destination[p], gone)
           /\ \/ folders' \subseteq folders
              \/ phase'[p] = "receiving" /\ destination'[p] = destination[p] /\ folders' \subseteq folders \cup {destination[p]}
           /\ crashes' = crashes
           /\ \/ fate' = fate
              \/ \E how \in {"closed", "withdrawn"}: fate' = [fate EXCEPT ![p][offer[p]] = how]
<1>1. CASE ReviewStep(p)
  <2>1. phase[p] # "receiving" /\ crashes' = crashes
    BY <1>1 DEF ReviewStep, StartReview, ChooseDestination, DestinationUnlisted, DestinationUninspected, CleanupStaging,
                Reject, Accept, PrepareEntry, PrepareFails, removeCreatedDirectories, ResumeReview, FinishPreparing, boundVars
  <2>2. \/ fate' = fate
        \/ \E how \in {"closed", "withdrawn"}: fate' = [fate EXCEPT ![p][offer[p]] = how]
    BY <1>1 DEF ReviewStep, StartReview, ChooseDestination, DestinationUnlisted, DestinationUninspected, CleanupStaging,
                Reject, Accept, PrepareEntry, PrepareFails, removeCreatedDirectories, ResumeReview, FinishPreparing, boundVars, Forget
  <2>3. ASSUME NEW d, NEW gone, RemoveTemps(d, gone) PROVE folders' \subseteq folders
    BY <2>3 DEF RemoveTemps
  <2>4. CASE FinishPreparing(p)
    BY <2>1, <2>2, <2>4, FunctionsOfProcesses DEF FinishPreparing, reviewVars
  <2>5. CASE ~FinishPreparing(p)
    <3>1. folders' \subseteq folders
      BY <1>1, <2>3, <2>5
         DEF ReviewStep, StartReview, ChooseDestination, DestinationUnlisted, DestinationUninspected, CleanupStaging,
             Reject, Accept, PrepareEntry, PrepareFails, removeCreatedDirectories, ResumeReview, diskVars, resolveIncomingPaths
    <3> QED BY <2>1, <2>2, <3>1
  <2> QED BY <2>4, <2>5
<1>2. ASSUME NEW f \in Files(p), FileStep(p, f)
      PROVE  /\ phase[p] = "receiving" /\ UNCHANGED <<phase, destination, crashes, fate>>
             /\ folders' \subseteq folders \cup {destination[p]}
  <2>1. UNCHANGED <<phase, destination, crashes, fate>>
    BY <1>2 DEF FileStep, startReceivingFile, CreateTemp, failIncomingFile, Link, Unlink, Move, ApplyMetadata, reviewVars, boundVars
  <2>2. folders' \subseteq folders \cup {destination[p]}
    BY <1>2 DEF FileStep, startReceivingFile, CreateTemp, failIncomingFile, Link, Unlink, Move, ApplyMetadata, RemoveTemps
  <2>3. phase[p] = "receiving" \/ stream[p][f] # "none"
    BY <1>2 DEF FileStep, startReceivingFile, CreateTemp, failIncomingFile, Link, Unlink, Move, ApplyMetadata
  <2>4. phase[p] = "receiving"
    BY <2>3 DEF OfferInv, PhaseInv
  <2> QED BY <2>1, <2>2, <2>4
<1>3. CASE EndStep(p)
  <2>1. CASE completeIncomingBatch(p)
    <3>1. RemoveTemps(destination[p], {}) /\ folders' \subseteq folders /\ crashes' = crashes
      BY <2>1 DEF completeIncomingBatch, RemoveTemps
    <3>2. fate' = [fate EXCEPT ![p][offer[p]] = "closed"]
      BY <2>1 DEF completeIncomingBatch, Forget
    <3> QED BY <3>1, <3>2
  <2>2. CASE removeIncomingFiles(p)
    <3>1. \E gone: RemoveTemps(destination[p], gone)
      BY <2>2 DEF removeIncomingFiles
    <3>2. folders' \subseteq folders
      BY <3>1 DEF RemoveTemps
    <3>3. crashes' = crashes /\ fate' = fate
      BY <2>2 DEF removeIncomingFiles, boundVars
    <3> QED BY <3>1, <3>2, <3>3
  <2>3. CASE clearIncoming(p)
    BY <2>3 DEF clearIncoming, Forget, diskVars
  <2> QED BY <1>3, <2>1, <2>2, <2>3 DEF EndStep
<1> QED BY <1>1, <1>2, <1>3 DEF ProcessStep

LEMMA TempsStep ==
    ASSUME TypeOK, TypeOK', TempsInv, NEW p \in Process, OfferInv(p), ProcessStep(p)
    PROVE  TempsInv'
<1>1. \A d \in Destination: \A t \in staging'[d]: Owned(d, t)'
  BY TempsOwned
<1>2. ASSUME crashes' = 0
      PROVE  /\ \A q \in Process: \A n \in 1..MaxOffers[q]: fate'[q][n] # "crashed"
             /\ \A d \in folders': \E q \in Process: phase'[q] = "receiving" /\ destination'[q] = d
  <2>1. ~Crash(p) /\ crashes \in Nat
    <3>1. crashes \in Nat
      BY ProcessAssumption DEF TypeOK
    <3> QED BY <1>2, <3>1 DEF Crash
  <2>2. crashes = 0 /\ folders \subseteq Destination /\ folders' \subseteq Destination /\ destination[p] \in Destination
    BY <1>2, <2>1, ReceivingGoesOn DEF TypeOK
  <2>3. /\ \A q \in Process: \A n \in 1..MaxOffers[q]: fate[q][n] # "crashed"
        /\ \A d \in folders: \E q \in Process: phase[q] = "receiving" /\ destination[q] = d
    BY <2>2 DEF TempsInv
  <2>4. ASSUME NEW q \in Process, NEW n \in 1..MaxOffers[q] PROVE fate'[q][n] # "crashed"
    <3>1. CASE fate' = fate
      BY <2>3, <3>1
    <3>2. ASSUME NEW how \in {"closed", "withdrawn"}, fate' = [fate EXCEPT ![p][offer[p]] = how] PROVE fate'[q][n] # "crashed"
      <4>1. DOMAIN fate = Process /\ \A r \in Process: fate[r] \in [1..MaxOffers[r] -> {"open", "closed", "withdrawn", "crashed"}]
        BY DEF TypeOK
      <4> QED BY <2>3, <3>2, <4>1
    <3> QED BY <2>1, <3>1, <3>2, ReceivingGoesOn
  <2>5. ASSUME NEW d \in Destination, staging'[d] # {} PROVE \E q \in Process: phase'[q] = "receiving" /\ destination'[q] = d
    <3>1. PICK t \in staging'[d]: TRUE
      BY <2>5
    <3>2. Owned(d, t)' /\ t.by \in Process
      BY TempsOwned
    <3>3. t.offer \in 1..MaxOffers[t.by]
      <4>1. t.offer \in 1..offer'[t.by] /\ offer'[t.by] \in Nat /\ offer'[t.by] <= MaxOffers[t.by] /\ MaxOffers[t.by] \in Nat
        BY <3>2, ProcessAssumption DEF TypeOK
      <4> QED BY <4>1
    <3> QED BY <2>4, <3>2, <3>3 DEF Owned
  <2>6. ASSUME NEW d \in folders' PROVE \E q \in Process: phase'[q] = "receiving" /\ destination'[q] = d
    <3>1. CASE d \notin folders
      <4>1. phase'[p] = "receiving" /\ destination'[p] = destination[p] /\ d = destination[p]
        BY <2>1, <2>6, <3>1, ReceivingGoesOn
      <4> QED BY <4>1
    <3>2. CASE d \in folders
      <4>1. PICK q \in Process: phase[q] = "receiving" /\ destination[q] = d
        BY <2>3, <3>2
      <4>2. CASE q # p
        BY <4>1, <4>2, OnlyMine DEF Others, Same
      <4>3. CASE q = p /\ phase'[p] = "receiving" /\ destination'[p] = destination[p]
        BY <4>1, <4>3
      <4>4. ASSUME q = p, NEW gone, RemoveTemps(destination[p], gone)
            PROVE  \E r \in Process: phase'[r] = "receiving" /\ destination'[r] = d
        <5>1. staging'[d] # {}
          BY <2>2, <2>6, <4>1, <4>4, RemoveTempsIs
        <5> QED BY <2>2, <2>5, <2>6, <5>1
      <4> QED BY <2>1, <4>1, <4>2, <4>3, <4>4, ReceivingGoesOn
    <3> QED BY <3>1, <3>2
  <2> QED BY <2>4, <2>6
<1> QED BY <1>1, <1>2 DEF TempsInv
---------------------------------------------------------------------------
(* The theorems                                                            *)

LEMMA ProcessStepKeeps ==
    ASSUME TypeOK, Inv, NEW p \in Process, ProcessStep(p)
    PROVE  TypeOK' /\ Inv'
<1>1. TreeInv /\ TempsInv /\ \A q \in Process: OfferInv(q)
  BY DEF Inv
<1>2. OfferInv(p)' /\ TreeStep(p)
  BY <1>1, OfferStepKeeps
<1>3. TypeOK'
  BY <1>1, TypeStep
<1>4. TempsInv'
  BY <1>1, <1>3, TempsStep
<1>5. TreeInv'
  <2>1. CASE StartReview(p)
    <3>1. tree' = tree
      BY <2>1 DEF StartReview
    <3>2. \A q \in Process: offer'[q] \in Nat /\ offer[q] <= offer'[q]
      <4>1. offer[p] <= offer'[p] /\ \A q \in Process: offer[q] \in Nat /\ offer'[q] \in Nat
        BY <1>3, OfferTypeStep DEF TypeOK
      <4>2. \A q \in Process: q # p => offer'[q] = offer[q]
        BY OnlyMine DEF Others, Same
      <4> QED BY <4>1, <4>2
    <3> QED BY <1>1, <3>1, <3>2, TreeSame
  <2>2. CASE ~StartReview(p)
    <3>1. offer' = offer
      BY <2>2 DEF ProcessStep, ReviewStep, EndStep, FileStep, ChooseDestination, DestinationUnlisted, DestinationUninspected,
                  CleanupStaging, Reject, Accept, PrepareEntry, PrepareFails, removeCreatedDirectories, ResumeReview,
                  FinishPreparing, startReceivingFile, CreateTemp, failIncomingFile, Link, Unlink, Move, ApplyMetadata,
                  completeIncomingBatch, removeIncomingFiles, clearIncoming, Crash, Forget, boundVars
    <3>2. CASE tree' = tree
      <4>1. \A q \in Process: offer'[q] \in Nat /\ offer[q] <= offer'[q]
        BY <3>1, TreeType
      <4> QED BY <1>1, <3>2, <4>1, TreeSame
    <3>3. CASE tree' # tree
      <4>1. Running(p)
        <5>1. phase[p] # "none" \/ \E f \in Files(p): stream[p][f] # "none"
          BY <2>2, <3>3
             DEF ProcessStep, ReviewStep, EndStep, FileStep, ChooseDestination, DestinationUnlisted, DestinationUninspected,
                 CleanupStaging, Reject, Accept, PrepareEntry, PrepareFails, removeCreatedDirectories, ResumeReview,
                 FinishPreparing, startReceivingFile, CreateTemp, failIncomingFile, Link, Unlink, Move, ApplyMetadata,
                 completeIncomingBatch, removeIncomingFiles, clearIncoming, Crash, diskVars
        <5> QED BY <1>1, <5>1 DEF OfferInv, PhaseInv, Running
      <4>2. offer[p] >= 1
        BY <1>1, <4>1 DEF OfferInv, PhaseInv
      <4> QED BY <1>1, <1>2, <3>1, <4>2, TreeStepKeeps
    <3> QED BY <3>2, <3>3
  <2> QED BY <2>1, <2>2
<1>6. ASSUME NEW q \in Process, q # p PROVE OfferInv(q)'
  <2>1. Same(q) /\ LeavesTemps(q)
    BY <1>6, OnlyMine DEF Others
  <2>2. LeavesTree(q)
    BY <1>1, <1>2, <1>6, TreeStepLeaves
  <2> QED BY <1>1, <2>1, <2>2, OthersKept
<1>7. \A q \in Process: OfferInv(q)'
  BY <1>2, <1>6
<1> QED BY <1>3, <1>4, <1>5, <1>7 DEF Inv

LEMMA UserStepKeeps ==
    ASSUME TypeOK, Inv, NEW d \in Destination, NEW x \in UserPaths[d], UserCreates(d, x)
    PROVE  TypeOK' /\ Inv'
<1>1. TreeInv /\ TempsInv /\ \A q \in Process: OfferInv(q)
  BY DEF Inv
<1>2. /\ x \in Places /\ UserAdds(d, x)
      /\ UNCHANGED <<folders, staging, destination, staleStaging, finals, finalsIn, reviewed, phase, created, prepared,
                     stream, offer, fate, crashes>>
  BY UserAssumption DEF UserCreates, UserAdds, reviewVars, boundVars
<1>3. TreeInv'
  BY <1>1, <1>2, UserAddsKeeps
<1>4. TempsInv'
  BY <1>1, <1>2 DEF TempsInv, Owned
<1>5. TypeOK'
  <2>1. Node(manifestFile, "user", 0) \in Nodes
    BY NodeIs
  <2>2. tree' \in [Destination -> [Places -> Nodes]]
    BY <1>2, <2>1, TreeType DEF UserAdds
  <2>3. DiskType /\ IsFunction /\ (\A p \in Process: OfferType(p)) /\ crashes \in 0..MaxCrashes
    BY TypeParts
  <2>4. Types'
    BY <1>2, <2>2, <2>3 DEF Types, DiskType, IsFunction, OfferType
  <2> QED BY <2>4, TypesAreTypeOK, PTL
<1>6. ASSUME NEW q \in Process PROVE OfferInv(q)'
  <2>1. Same(q) /\ LeavesTemps(q)
    BY <1>2 DEF Same, LeavesTemps
  <2>2. LeavesTree(q)
    BY <1>2, UserAddsLeaves
  <2> QED BY <1>1, <2>1, <2>2, OthersKept
<1> QED BY <1>3, <1>4, <1>5, <1>6 DEF Inv

LEMMA InitHolds ==
    ASSUME Init
    PROVE  TypeOK /\ Inv
<1>1. tree \in [Destination -> [Places -> Nodes]] /\ \A d \in Destination: \A x \in Places: tree[d][x] = Absent
  BY AbsentIs DEF Init
<1>2. DiskType
  BY DEF Init, DiskType
<1>3. IsFunction
  BY DEF Init, IsFunction
<1>4. ASSUME NEW p \in Process PROVE OfferType(p)
  <2>1. Default(p) \in Destination /\ MaxOffers[p] \in Nat
    BY DestinationAssumption, ProcessAssumption
  <2>2. << >> \in Seq(Places) /\ NoFinals(p) \in FinalsOf(p)
    BY DEF NoFinals, FinalsOf
  <2> QED BY <2>1, <2>2 DEF Init, OfferType
<1>5. crashes \in 0..MaxCrashes
  BY ProcessAssumption DEF Init
<1>6. TypeOK
  BY <1>1, <1>2, <1>3, <1>4, <1>5, TypeParts
<1>7. TreeInv
  BY <1>1 DEF TreeInv, Exists
<1>8. TempsInv
  BY DEF Init, TempsInv
<1>9. ASSUME NEW p \in Process PROVE OfferInv(p)
  <2>1. /\ phase[p] = "none" /\ created[p] = << >> /\ offer[p] = 0 /\ finals[p] = NoFinals(p)
        /\ stream[p] = [f \in Files(p) |-> "none"] /\ fate[p] = [n \in 1..MaxOffers[p] |-> "open"]
        /\ prepared[p] = {} /\ staging = [d \in Destination |-> {}] /\ destination[p] \in Destination
    BY DestinationAssumption DEF Init
  <2>2. PhaseInv(p)
    BY <2>1 DEF PhaseInv, Running
  <2>3. PreparedInv(p)
    BY <2>1 DEF PreparedInv, NoFinals
  <2>4. CreatedInv(p)
    BY <2>1 DEF CreatedInv
  <2>5. KeptInv(p)
    BY <1>1, AbsentIs DEF KeptInv, manifestFolder
  <2>6. FilesInv(p)
    BY <2>1 DEF FilesInv, Landed
  <2>7. LeftoversInv(p)
    BY <2>1 DEF LeftoversInv
  <2> QED BY <2>2, <2>3, <2>4, <2>5, <2>6, <2>7 DEF OfferInv
<1> QED BY <1>6, <1>7, <1>8, <1>9 DEF Inv

LEMMA NextKeeps ==
    ASSUME TypeOK, Inv, [Next]_vars
    PROVE  TypeOK' /\ Inv'
<1>1. ASSUME NEW p \in Process, ProcessStep(p) PROVE TypeOK' /\ Inv'
  BY <1>1, ProcessStepKeeps
<1>2. ASSUME NEW d \in Destination, NEW x \in UserPaths[d], UserCreates(d, x) PROVE TypeOK' /\ Inv'
  BY <1>2, UserStepKeeps
<1>3. CASE UNCHANGED vars
  <2>1. UNCHANGED <<tree, folders, staging, destination, staleStaging, finals, finalsIn, reviewed, phase, created, prepared,
                    stream, offer, fate, crashes>>
    BY <1>3 DEF vars, diskVars, reviewVars, boundVars
  <2>2. TreeInv /\ TempsInv /\ \A q \in Process: OfferInv(q)
    BY DEF Inv
  <2>3. TypeOK'
    BY <2>1 DEF TypeOK
  <2>4. TreeInv'
    BY <2>1, <2>2, TreeSame, TreeType
  <2>5. TempsInv'
    BY <2>1, <2>2 DEF TempsInv, Owned
  <2>6. \A q \in Process: OfferInv(q)'
    BY <2>1, <2>2, OthersKept DEF Same, LeavesTree, LeavesTemps, Exists
  <2> QED BY <2>3, <2>4, <2>5, <2>6 DEF Inv
<1> QED BY <1>1, <1>2, <1>3 DEF Next, ProcessStep, EndStep

\* The inductive invariant: what is on the disks is whose the processes take it
\* to be, whatever the others, the user and crashes do.
THEOREM StagingCorrect == Spec => [](TypeOK /\ Inv)
<1>1. Init => TypeOK /\ Inv
  BY InitHolds
<1>2. (TypeOK /\ Inv) /\ [Next]_vars => (TypeOK /\ Inv)'
  BY NextKeeps
<1> QED BY <1>1, <1>2, PTL DEF Spec

\* The disks, the folders and the temporary files of every offer have their types.
THEOREM StagingTypesHold == Spec => []TypeOK
BY StagingCorrect, PTL

\* A file reported as received is at its final path, put there by this offer, and
\* one reported as failed is not (receive.go), whatever other processes and the
\* user did in the same destination.
THEOREM ReportsAreTrueHolds == Spec => []ReportsAreTrue
<1>1. TypeOK /\ Inv => ReportsAreTrue
  <2> SUFFICES ASSUME TypeOK, Inv, NEW p \in Process, phase[p] = "receiving", NEW f \in Files(p)
               PROVE  /\ stream[p][f] = "done" => tree[finalsIn[p]][Target(p, f)] = Node(manifestFile, p, offer[p])
                      /\ stream[p][f] = "failed" => tree[finalsIn[p]][Target(p, f)] # Node(manifestFile, p, offer[p])
    BY DEF ReportsAreTrue
  <2>1. OfferInv(p) /\ finalsIn[p] \in Destination
    BY DEF Inv, TypeOK
  <2>2. PhaseInv(p) /\ PreparedInv(p) /\ FilesInv(p)
    BY <2>1 DEF OfferInv
  <2>3. Target(p, f) \in Places /\ \A g \in Files(p): Target(p, g) = Target(p, f) => g = f
    BY <2>2, TargetsArePlaces
  <2>4. stream[p][f] = "done" => tree[finalsIn[p]][Target(p, f)] = Node(manifestFile, p, offer[p])
    BY <2>2 DEF FilesInv, Landed
  <2>5. ASSUME stream[p][f] = "failed", tree[finalsIn[p]][Target(p, f)] = Node(manifestFile, p, offer[p]) PROVE FALSE
    <3>1. PICK g \in Files(p): Target(p, g) = Target(p, f) /\ stream[p][g] \in Landed
      BY <2>1, <2>2, <2>3, <2>5 DEF FilesInv
    <3> QED BY <2>3, <2>5, <3>1 DEF Landed
  <2> QED BY <2>4, <2>5
<1> QED BY <1>1, StagingCorrect, PTL

\* Every temporary file belongs to a stream that is being received or to a process
\* that has died; while none has died and none receives, no staging folder is left
\* (cleanup.go, receive.go).
THEOREM TempsAreAccountedForHolds == Spec => []TempsAreAccountedFor
<1>1. TypeOK /\ Inv => TempsAreAccountedFor
  <2> SUFFICES ASSUME TypeOK, Inv PROVE TempsAreAccountedFor
    OBVIOUS
  <2>1. TempsInv
    BY DEF Inv
  <2>2. \A d \in Destination: \A t \in staging[d]: Owned(d, t)
    BY <2>1 DEF TempsInv
  <2>3. (crashes = 0 /\ \A p \in Process: phase[p] # "receiving") => folders = {}
    BY <2>1 DEF TempsInv
  <2> QED BY <2>2, <2>3 DEF TempsAreAccountedFor, Owned
<1> QED BY <1>1, StagingCorrect, PTL

\* A process that has restarted accepts nothing while its own old temporary files
\* are in the destination it has reviewed (offer_intake.go, staging.go).
THEOREM OwnLeftoversGoneHolds == Spec => []OwnLeftoversGone
<1>1. TypeOK /\ Inv => OwnLeftoversGone
  <2> SUFFICES ASSUME TypeOK, Inv, NEW p \in Process, phase[p] \in {"preparing", "receiving"}, reviewed[p],
                      NEW t \in staging[destination[p]], t.by = p
               PROVE  t.offer = offer[p]
    BY DEF OwnLeftoversGone
  <2>1. LeftoversInv(p) /\ PhaseInv(p)
    BY DEF Inv, OfferInv
  <2>2. ~staleStaging[p]
    BY <2>1 DEF PhaseInv
  <2> QED BY <2>1, <2>2 DEF LeftoversInv
<1> QED BY <1>1, StagingCorrect, PTL

\* An accepted offer goes into the destination that its final paths were shown
\* for, also after destination commands that failed.
THEOREM AcceptedWhereShownHolds == Spec => []AcceptedWhereShown
<1>1. TypeOK /\ Inv => AcceptedWhereShown
  BY AllResolved DEF AcceptedWhereShown, Inv, OfferInv
<1> QED BY <1>1, StagingCorrect, PTL

\* A refused accept and a withdrawn offer leave no empty folder behind
\* (removeCreatedDirectories).
THEOREM NoEmptyFolderLeftHolds == Spec => []NoEmptyFolderLeft
<1>1. TypeOK /\ Inv => NoEmptyFolderLeft
  <2> SUFFICES ASSUME TypeOK, Inv, NEW d \in Destination, NEW x \in Places, tree[d][x].kind = manifestFolder,
                      \/ phase[tree[d][x].by] = "review" /\ tree[d][x].offer = offer[tree[d][x].by]
                      \/ fate[tree[d][x].by][tree[d][x].offer] = "withdrawn"
               PROVE  Children(d, x) # {}
    BY DEF NoEmptyFolderLeft
  <2>1. Exists(d, x)
    BY AbsentIs DEF Exists, manifestFolder
  <2>2. tree[d][x].by \in Process
    BY <2>1 DEF Inv, TreeInv
  <2>3. PICK p \in Process: p = tree[d][x].by
    BY <2>2
  <2>4. KeptAt(p, d, x) /\ PhaseInv(p)
    BY <2>3 DEF Inv, OfferInv, KeptInv
  <2>5. CASE phase[p] = "review" /\ tree[d][x].offer = offer[p]
    <3>1. IsCurrent(p, d, x)
      BY <2>3, <2>5 DEF IsCurrent, Running
    <3>2. created[p] = << >>
      BY <2>4, <2>5 DEF PhaseInv
    <3>3. ~Made(p, d, x)
      BY <3>2 DEF Made
    <3> QED BY <2>4, <3>1, <3>3 DEF KeptAt
  <2>6. CASE fate[p][tree[d][x].offer] = "withdrawn"
    BY <2>4, <2>6 DEF KeptAt
  <2> QED BY <2>3, <2>5, <2>6
<1> QED BY <1>1, StagingCorrect, PTL

\* A step that changes what is in a tree.
LEMMA TakenBack ==
    ASSUME TypeOK, Inv, NEW p \in Process, ProcessStep(p),
           NEW d \in Destination, NEW x \in Places, Exists(d, x), tree'[d][x] # tree[d][x]
    PROVE  /\ tree'[d][x] = Absent
           /\ tree[d][x].by = p /\ tree[d][x].offer = offer[p] /\ phase[p] # "none"
           /\ tree[d][x].kind = manifestFile =>
                \E f \in Files(p): Target(p, f) = x /\ stream[p][f] \in {"linked", "published"}
           /\ \A y \in Places: x \in Ancestors(y) => tree'[d][y] = Absent
<1>1. TreeInv /\ OfferInv(p) /\ offer[p] \in Nat
  BY TreeType DEF Inv
<1>2. TreeStep(p) /\ tree' # tree
  BY <1>1, OfferStepKeeps
<1>3. ASSUME NEW e \in Destination, NEW z \in Places, Adds(p, e, z) PROVE FALSE
  <2>1. PICK k \in {manifestFile, manifestFolder}: tree' = [tree EXCEPT ![e][z] = Node(k, p, offer[p])]
    BY <1>3 DEF Adds
  <2>2. Node(k, p, offer[p]) \in Nodes
    BY <1>1, NodeIs
  <2>3. d = e /\ x = z
    BY <2>1, <2>2, TreeType
  <2> QED BY <1>3, <2>3 DEF Adds
<1>4. PICK e \in Destination, z \in Places: Removes(p, e, z)
  BY <1>2, <1>3 DEF TreeStep
<1>5. d = e /\ x = z
  BY <1>4, AbsentIs, TreeType DEF Removes
<1>6. /\ tree'[d][x] = Absent /\ tree[d][x].by = p /\ tree[d][x].offer = offer[p] /\ Children(d, x) = {}
      /\ \A y \in Places: y # x => tree'[d][y] = tree[d][y]
  BY <1>4, <1>5, AbsentIs, TreeType DEF Removes
<1>7. \A y \in Places: x \in Ancestors(y) => tree'[d][y] = Absent
  BY <1>6 DEF Children, Exists
<1>8. \/ PrepareEntry(p) \/ removeCreatedDirectories(p)
      \/ \E f \in Files(p): Link(p, f) \/ Unlink(p, f) \/ Move(p, f) \/ ApplyMetadata(p, f)
  BY <1>2 DEF ProcessStep, ReviewStep, EndStep, FileStep, StartReview, ChooseDestination, DestinationUnlisted,
              DestinationUninspected, CleanupStaging, Reject, Accept, PrepareFails, ResumeReview, FinishPreparing,
              startReceivingFile, CreateTemp, failIncomingFile, completeIncomingBatch, removeIncomingFiles,
              clearIncoming, Crash, diskVars
<1>9. CASE PrepareEntry(p)
  <2>1. phase[p] # "none" /\ \E i \in NextToPrepare(Entries[p], prepared[p]): Make(p, destination[p], Entries[p][i])
    BY <1>9 DEF PrepareEntry
  <2>2. PICK i \in NextToPrepare(Entries[p], prepared[p]): Make(p, destination[p], Entries[p][i])
    BY <2>1
  <2>3. PICK z2: z2 = Target(p, Entries[p][i].path)
    OBVIOUS
  <2>4. ~Exists(destination[p], z2) /\ tree' = [tree EXCEPT ![destination[p]][z2] = Node(manifestFolder, p, offer[p])]
    BY <1>2, <2>2, <2>3 DEF Make
  <2>5. d = destination[p] /\ x = z2
    BY <1>6, <2>4, TreeType
  <2> QED BY <2>4, <2>5
<1>10. CASE removeCreatedDirectories(p)
  <2>1. /\ phase[p] # "none" /\ created[p] # << >> /\ created[p] \in Seq(Places) /\ finalsIn[p] \in Destination
        /\ RemoveFolder(finalsIn[p], Last(created[p]))
    BY <1>10 DEF removeCreatedDirectories, TypeOK
  <2>2. Last(created[p]) \in Places /\ Made(p, finalsIn[p], Last(created[p]))
    BY <2>1 DEF Last, Made
  <2>3. tree[finalsIn[p]][Last(created[p])] = Node(manifestFolder, p, offer[p])
    BY <1>1, <2>2, MadeIs DEF OfferInv
  <2>4. tree' = [tree EXCEPT ![finalsIn[p]][Last(created[p])] = Absent]
    BY <1>2, <2>1 DEF RemoveFolder
  <2>5. d = finalsIn[p] /\ x = Last(created[p])
    BY <2>1, <2>2, <2>4, TreeType
  <2>6. tree[d][x].kind # manifestFile
    <3>1. Node(manifestFolder, p, offer[p]).kind = manifestFolder
      BY <1>1, NodeIs
    <3> QED BY <2>3, <2>5, <3>1 DEF manifestFile, manifestFolder
  <2> QED BY <1>6, <1>7, <2>1, <2>6
<1>11. ASSUME NEW f \in Files(p), Link(p, f) \/ Move(p, f) PROVE FALSE
  <2>1. /\ ~Exists(finalsIn[p], Target(p, f))
        /\ tree' = [tree EXCEPT ![finalsIn[p]][Target(p, f)] = Node(manifestFile, p, offer[p])]
    BY <1>11 DEF Link, Move
  <2>2. d = finalsIn[p] /\ x = Target(p, f)
    BY <1>6, <2>1, TreeType
  <2> QED BY <2>1, <2>2
<1>12. ASSUME NEW f \in Files(p), Unlink(p, f) \/ ApplyMetadata(p, f)
       PROVE  phase[p] # "none" /\ Target(p, f) = x /\ stream[p][f] \in {"linked", "published"}
  <2>1. /\ stream[p][f] \in {"linked", "published"}
        /\ tree' = [tree EXCEPT ![finalsIn[p]][Target(p, f)] = Absent]
    BY <1>2, <1>12 DEF Unlink, ApplyMetadata
  <2>2. x = Target(p, f)
    BY <1>6, <2>1, TreeType
  <2>3. phase[p] # "none"
    BY <1>1, <2>1 DEF OfferInv, PhaseInv
  <2> QED BY <2>1, <2>2, <2>3
<1> QED BY <1>6, <1>7, <1>8, <1>9, <1>10, <1>11, <1>12

\* Whatever is in a destination stays as it is, except that a process takes back
\* what its own running offer has put there: an empty folder, or a file it has not
\* reported as received (publishWithoutOverwrite, removeCreatedDirectories).
THEOREM NothingOverwrittenHolds == Spec => NothingOverwritten
<1> DEFINE Taken(d, x) ==
               LET n == tree[d][x] IN
               Exists(d, x) /\ tree'[d][x] # n =>
                   /\ tree'[d][x] = Absent
                   /\ n.by \in Process /\ n.offer = offer[n.by] /\ phase[n.by] # "none"
                   /\ n.kind = manifestFile =>
                        \E f \in Files(n.by): Target(n.by, f) = x /\ stream[n.by][f] \in {"linked", "published"}
                   /\ \A y \in Places: x \in Ancestors(y) => tree'[d][y] = Absent
<1>1. TypeOK /\ Inv /\ [Next]_vars => \A d \in Destination, x \in Places: Taken(d, x)
  <2> SUFFICES ASSUME TypeOK, Inv, [Next]_vars, NEW d \in Destination, NEW x \in Places, Exists(d, x), tree'[d][x] # tree[d][x]
               PROVE  Taken(d, x)
    OBVIOUS
  <2>1. ASSUME NEW p \in Process, ProcessStep(p) PROVE Taken(d, x)
    BY <2>1, TakenBack
  <2>2. ASSUME NEW e \in Destination, NEW z \in UserPaths[e], UserCreates(e, z) PROVE FALSE
    <3>1. z \in Places /\ ~Exists(e, z) /\ tree' = [tree EXCEPT ![e][z] = Node(manifestFile, "user", 0)]
      BY <2>2, UserAssumption DEF UserCreates
    <3>2. d = e /\ x = z
      BY <3>1, TreeType
    <3> QED BY <3>1, <3>2
  <2>3. CASE UNCHANGED vars
    BY <2>3 DEF vars, diskVars
  <2> QED BY <2>1, <2>2, <2>3 DEF Next, ProcessStep, EndStep
<1>2. TypeOK /\ Inv /\ [Next]_vars => [\A d \in Destination, x \in Places: Taken(d, x)]_vars
  BY <1>1
<1> QED BY <1>2, StagingCorrect, PTL DEF Spec, NothingOverwritten
=============================================================================
