------------------------------- MODULE MCRelay -------------------------------
(* Two configured chains A and B; two messages from A to B in consecutive  *)
(* blocks, so a checkpoint can move past an undelivered message.           *)
EXTENDS Relay

CONSTANTS A, B, C, M1, M2, M3

MCChains == {A, B}
MCMsgs == {M1, M2}
MCSrc == [m \in MCMsgs |-> A]
MCDst == [m \in MCMsgs |-> B]
\* M3, in M2's block, is addressed to C, a chain with no configured runtime.
MCMsgs3 == {M1, M2, M3}
MCSrc3 == [m \in MCMsgs3 |-> A]
MCDst3 == (M1 :> B) @@ (M2 :> B) @@ (M3 :> C)
MCHeight3 == (M1 :> 2) @@ (M2 :> 3) @@ (M3 :> 3)
MCHeight == (M1 :> 2) @@ (M2 :> 3)
MCInitHead == [c \in MCChains |-> 2]
MCStartZero == [c \in MCChains |-> 0]
=============================================================================
