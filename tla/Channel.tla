------------------------------ MODULE Channel ------------------------------
(***************************************************************************)
(* What both directions of the control connection promise: messages come   *)
(* out in the order in which they went in, none twice and none invented.   *)
(* A channel may stop delivering (the connection is lost, the process      *)
(* ends), but it never skips a message and goes on with a later one.       *)
(***************************************************************************)
EXTENDS Naturals, Sequences

VARIABLES sent,       \* every message put in, in order
          delivered   \* every message taken out, in order

chanVars == <<sent, delivered>>

Init == sent = <<>> /\ delivered = <<>>

Send ==
    /\ Len(sent') = Len(sent) + 1
    /\ \A i \in 1..Len(sent) : sent'[i] = sent[i]
    /\ UNCHANGED delivered

Deliver ==
    /\ Len(delivered) < Len(sent)
    /\ delivered' = Append(delivered, sent[Len(delivered) + 1])
    /\ UNCHANGED sent

Next == Send \/ Deliver

Spec == Init /\ [][Next]_chanVars
=============================================================================
