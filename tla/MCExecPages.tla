---------------------------- MODULE MCExecPages ----------------------------
(* Two address spaces of three two-byte pages; accesses that stay in a page,*)
(* straddle two or three, and run past the last address.                    *)
EXTENDS ExecPages

MCAccesses ==
  {[space |-> 0, address |-> a, data |-> <<1, 2>>] : a \in {1, 5}}
    \cup {[space |-> 0, address |-> 2, data |-> <<3, 3, 3, 3>>]}
    \cup {[space |-> s, address |-> 5, data |-> <<7>>] : s \in {0, 1}}
    \cup {[space |-> 1, address |-> 4, data |-> d] : d \in {<<>>, <<4, 5>>}}
=============================================================================
