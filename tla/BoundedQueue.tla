---------------------------- MODULE BoundedQueue ----------------------------
(***************************************************************************)
(* What a fifo promises its users: a sequence of at most Capacity          *)
(* messages, added at the end and removed from the front.                  *)
(***************************************************************************)
EXTENDS Naturals, Sequences

CONSTANTS Msgs, Capacity

VARIABLE contents

Init == contents = <<>>

Add ==
    \E m \in Msgs :
        Len(contents) < Capacity /\ contents' = Append(contents, m)

Remove == contents # <<>> /\ contents' = Tail(contents)

Spec == Init /\ [][Add \/ Remove]_contents
=============================================================================
