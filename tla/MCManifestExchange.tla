------------------------- MODULE MCManifestExchange -------------------------
EXTENDS ManifestExchange

\* Bases: 1 is "a" and 2 is "A", 3 is "b" and 4 is "B", 5 is a long name, 6 a
\* name that JSON makes longer, 7 a name that is refused.
FoldBase == [b \in 1..7 |-> CASE b = 2 -> 1 [] b = 4 -> 3 [] OTHER -> b]
BytesOf == [b \in 1..7 |-> IF b = 5 THEN 4 ELSE 1]
EncodedOf == [b \in 1..7 |-> CASE b = 5 -> 4 [] b = 6 -> 6 [] OTHER -> 1]
SizeOf == [b \in 1..7 |-> CASE b \in {1, 2} -> 3 [] b = 4 -> 7 [] OTHER -> 1]

a == <<1>>
A == <<2>>
b == <<3>>
B == <<4>>
long == <<5>>
expanding == <<6>>
refused == <<7>>
a1 == <<1, 1>>

\* "a" and "a (1)", in both orders; "a" and "A"; a refused name.
ArgumentLists == {<<a, a1>>, <<a1, a>>, <<a, A>>, <<refused, a>>}

Present == Kinds \ {"absent"}
Leaf == {"file", "unreadable", "locked", "link"}
first == <<1>>
second == <<2>>
Below(kinds) == [x \in {<<first>>, <<second>>} \cup DOMAIN kinds |->
                    CASE x = <<first>> -> "folder" [] x = <<second>> -> "file" [] OTHER -> kinds[x]]
SourceTrees ==
    [{<<first>>, <<second>>} -> Kinds]
    \cup {Below(k): k \in [{<<first, A>>, <<first, b>>} -> Present]}
    \cup {Below(k): k \in [{<<first, a>>, <<first, A>>} -> {"file", "folder", "link"}]}
    \cup UNION {{Below(k): k \in [{<<first, n>>} -> {"file", "link"}]}: n \in {long, expanding, refused}}
    \cup UNION {{Below(k): k \in {f \in [{<<first, b>>, <<first, b, n>>} -> Leaf \cup {"folder"}]: f[<<first, b>>] = "folder"}}:
                  n \in {a, B, long, expanding}}
    \cup {Below([x \in {<<first, b>>, <<first, b, a>>, <<first, b, b>>} |-> IF x = <<first, b>> THEN "folder" ELSE kind]):
             kind \in {"file", "link"}}

\* Manifests of another implementation: up to three of these entries.
OtherEntries ==
    {Entry(<<a>>, "folder", 0), Entry(<<A>>, "file", 7), Entry(<<a1>>, "file", 7),
     Entry(<<A, b>>, "folder", 0), Entry(<<a, b>>, "file", 7), Entry(<<a, b>>, "folder", 0),
     Entry(<<a, B, a>>, "folder", 0), Entry(<<b>>, "file", 2), Entry(<<b>>, "folder", 1),
     Entry(<<refused>>, "file", 0), Entry(<<b>>, "other", 0)}
EntryLists == UNION {[1..n -> OtherEntries]: n \in 1..3}
Announced(es, bytes) ==
    OfferFrame(Cardinality({i \in DOMAIN es: IsTopLevel(es[i].path)}),
               Count(es, "file"), Count(es, "folder"), bytes)
Frames(es) == [i \in DOMAIN es |-> EntryFrame(es[i])]
Omission == OmissionFrame([path |-> <<b>>])
OtherSequences ==
    {<<Announced(es, bytes)>> \o Frames(es) \o <<CompleteFrame>>:
        es \in EntryLists, bytes \in {0, 2, 7}}
    \cup {<<CompleteFrame>>, <<OfferFrame(0, 1, 0, 0)>>, <<OfferFrame(1, 0, 0, 0)>>,
          <<OfferFrame(1, 1, 0, 0), OfferFrame(1, 1, 0, 0)>>,
          <<OfferFrame(1, 1, 0, 0), Omission, Omission, Omission>>,
          <<OfferFrame(1, 0, 1, 0), EntryFrame(Entry(<<b>>, "folder", 0)), Omission, CompleteFrame>>,
          <<OfferFrame(1, 5, 0, 0)>>,
          <<OfferFrame(1, 4, 0, 0)>> \o Frames([i \in 1..5 |-> Entry(<<a>>, "file", 0)])}

DestinationListings == {{}, {A}, {A, a1}}
=============================================================================
