------------------------ MODULE MCXairMemoryVersions ------------------------
(* A store, then a load through the token from before it and one through    *)
(* the token it produced.                                                   *)
EXTENDS XairMemoryVersions, XairPrograms

MCInputs == {[type |-> mem32, lo |-> 0], [type |-> a32, lo |-> 3], [type |-> i16, lo |-> 770]}
MCSeeds == {[space |-> 0, address |-> 3, data |-> <<17, 34>>]}
=============================================================================
