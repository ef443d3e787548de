----------------------------- MODULE ResultLog -----------------------------
(***************************************************************************)
(* What the writer of crawlforge-core promises to the crawl loop: what is  *)
(* in the file is at every moment a prefix of what was handed over, in     *)
(* that order, and only a session whose every result is in the file is     *)
(* told that it was saved.                                                 *)
(***************************************************************************)
EXTENDS Naturals, Sequences

CONSTANT Result      \* what the crawl loop hands over

VARIABLES
    sent,            \* everything handed over, in order
    saved,           \* what is in the file
    outcome          \* "open", "ok" or "error"

vars == <<sent, saved, outcome>>

Init == sent = <<>> /\ saved = <<>> /\ outcome = "open"

Put ==
    /\ outcome = "open"
    /\ \E r \in Result : sent' = Append(sent, r)
    /\ UNCHANGED <<saved, outcome>>

(* A batch: the next results, all of them or none. *)
Save ==
    /\ outcome # "ok"
    /\ \E n \in Len(saved) + 1 .. Len(sent) : saved' = SubSeq(sent, 1, n)
    /\ UNCHANGED <<sent, outcome>>

Acknowledge ==
    /\ outcome = "open"  /\ saved = sent
    /\ outcome' = "ok"
    /\ UNCHANGED <<sent, saved>>

GiveUp ==
    /\ outcome = "open"
    /\ outcome' = "error"
    /\ UNCHANGED <<sent, saved>>

Next == Put \/ Save \/ Acknowledge \/ GiveUp

Spec == Init /\ [][Next]_vars

=============================================================================
