-------------------------- MODULE TransferOutcome --------------------------
(***************************************************************************)
(* What one Transfer Offer promises its two users, without frames, chunks, *)
(* workers or disks (README, "Transfer files and folders"): every file is  *)
(* published or fails on its own and an outcome is never revised; the      *)
(* receiving Peer settles the offer; and what the sending Peer reports is  *)
(* the receiving Peer's account of it, never an earlier or different one.  *)
(***************************************************************************)
EXTENDS Naturals, FiniteSets

CONSTANT Files

VARIABLES
    file,      \* file[f]: "pending", "published" or "failed"
    receiver,  \* how the offer ended at the receiving Peer, or "open"
    sender     \* [report, ok, bad]: what the sending Peer reported, with counts

vars == <<file, receiver, sender>>

Having(outcome) == {f \in Files: file[f] = outcome}
Unreported == [report |-> "none", ok |-> 0, bad |-> 0]

Init ==
    /\ file = [f \in Files |-> "pending"]
    /\ receiver = "open"
    /\ sender = Unreported

\* Independently of every other file, while the offer is open.
Settle(f) ==
    /\ receiver = "open" /\ file[f] = "pending"
    /\ \E outcome \in {"published", "failed"}: file' = [file EXCEPT ![f] = outcome]
    /\ UNCHANGED <<receiver, sender>>

\* The receiver completes an offer only when every file has an outcome; a
\* rejected offer has published nothing.
Close(how) ==
    /\ receiver = "open"
    /\ how = "completed" => Having("pending") = {}
    /\ how = "rejected" => Having("pending") = Files
    /\ receiver' = how
    /\ UNCHANGED <<file, sender>>

\* A summary counts every file, exactly as the receiver settled it; the other
\* two reports follow a rejection, or a cancellation the receiver carried out.
Report(how) ==
    /\ sender.report = "none"
    /\ \/ how = "rejected" /\ Having("pending") = Files
       \/ how = "canceled" /\ receiver # "open"
       \/ how = "summary" /\ receiver # "open" /\ Having("pending") = {}
    /\ sender' = IF how = "summary"
                 THEN [report |-> how, ok |-> Cardinality(Having("published")),
                       bad |-> Cardinality(Having("failed"))]
                 ELSE [Unreported EXCEPT !.report = how]
    /\ UNCHANGED <<file, receiver>>

Next ==
    \/ \E f \in Files: Settle(f)
    \/ \E how \in {"completed", "canceled", "rejected", "ended"}: Close(how)
    \/ \E how \in {"summary", "canceled", "rejected"}: Report(how)

Spec == Init /\ [][Next]_vars
=============================================================================
