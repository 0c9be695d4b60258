------------------------- MODULE MCIncomingStaging -------------------------
EXTENDS IncomingStaging

\* Names are not folded here: <<1>> is "a", <<1, 1>> is "a (1)".
Bases == [b \in 1..3 |-> b]
OneByte == [b \in 1..3 |-> 1]

\* A folder a with a folder inside and a file in that, and a file whose name is
\* the first one that a taken "a" is resolved to.
FolderAndFile ==
    << [path |-> << <<1>> >>, kind |-> "folder"],
       [path |-> << <<1>>, <<2>> >>, kind |-> "folder"],
       [path |-> << <<1>>, <<2>>, <<3>> >>, kind |-> "file"],
       [path |-> << <<1, 1>> >>, kind |-> "file"] >>
\* A single file "a (1)".
SingleFile == << [path |-> << <<1, 1>> >>, kind |-> "file"] >>

Offers == [p \in Process |-> IF p \in Windows THEN SingleFile ELSE FolderAndFile]
FirstDestination(p) == "d1"
Selections == [p \in Process |-> IF p \in Windows THEN {"d1"} ELSE Destination]
\* The first process restarts, or goes on, with a second offer.
OffersTo == [p \in Process |-> IF p \in Windows THEN 1 ELSE 2]
\* The user takes "a" in the first destination, or puts a file into the inner
\* folder of an "a" that an offer made there.
Taken == [d \in Destination |-> IF d = "d1" THEN {<< <<1>> >>, << <<1>>, <<2>>, <<3>> >>} ELSE {}]
=============================================================================
