----------------------------- MODULE MCXairExec -----------------------------
(* The executor on the families of XairPrograms: loops for the control      *)
(* flow, stores and loads around a page boundary for the memory.            *)
EXTENDS XairExec, XairPrograms

MCPrograms == Loops \cup Flags \cup Stops \cup Memories
MCInputs == [type : {i1}, lo : 0 .. 1] \cup [type : {a32}, lo : {3, 65535}]
            \cup {[type |-> i8, lo |-> 129], [type |-> i16, lo |-> 770], [type |-> mem32, lo |-> 0]}
MCSeeds == {[space |-> 0, address |-> 3, data |-> <<17, 34>>],
            [space |-> 0, address |-> 65535, data |-> <<1, 2>>]}
=============================================================================
