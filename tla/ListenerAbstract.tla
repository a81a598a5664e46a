--------------------------- MODULE ListenerAbstract ---------------------------
(***************************************************************************)
(* What a chain listener promises its ChainRuntime (spec sections 4.1 and *)
(* 5): it sends on blockInfoChan the heights Start, Start+1, ... in order, *)
(* each once, without gaps, and a height only once the block after it     *)
(* exists on the chain (the one-block confirmation lag).  A step may send  *)
(* several consecutive heights at once.                                    *)
(***************************************************************************)
EXTENDS Naturals, Sequences

CONSTANTS Start, InitHead, MaxHeight

VARIABLES head, out

\* The heights a listener that has sent `sent` heights may send next.
Confirmed(sent) == {h \in Start + Len(sent) .. MaxHeight : h + 1 <= head}

Init ==
    /\ head = InitHead
    /\ out = <<>>

ChainAdvance ==
    /\ head < MaxHeight
    /\ head' = head + 1
    /\ UNCHANGED out

Emit ==
    \E last \in Confirmed(out) :
        /\ out' = out \o [i \in 1 .. last - (Start + Len(out)) + 1 |->
                              Start + Len(out) + i - 1]
        /\ UNCHANGED head

Next == ChainAdvance \/ Emit

Spec == Init /\ [][Next]_<<head, out>> /\ WF_<<head, out>>(Emit)

=============================================================================
