------------------------------- MODULE Stream -------------------------------
(***************************************************************************)
(* What a relay promises of one direction: it passes on what it took, in   *)
(* order, each piece once and nothing else; what it loses is a tail, when  *)
(* it ends.                                                                *)
(***************************************************************************)
EXTENDS Naturals, Sequences

VARIABLES
    taken,     \* how many pieces were taken from the sender
    given,     \* the pieces handed to the receiver: the numbers 1, 2, ...
    open

vars == <<taken, given, open>>

Init == taken = 0 /\ given = <<>> /\ open = TRUE

Take == open /\ taken' = taken + 1 /\ UNCHANGED <<given, open>>

Give ==
    /\ open /\ Len(given) < taken
    /\ given' = Append(given, Len(given) + 1)
    /\ UNCHANGED <<taken, open>>

Close == open' = FALSE /\ UNCHANGED <<taken, given>>

Next == Take \/ Give \/ Close

Spec == Init /\ [][Next]_vars

-----------------------------------------------------------------------------
(***************************************************************************)
(* What the receiver has got is what was taken first, piece for piece.     *)
(***************************************************************************)
OnlyATailIsMissing ==
    Len(given) <= taken /\ \A i \in 1 .. Len(given) : given[i] = i
=============================================================================
