--------------------------- MODULE MCXairBuilder ---------------------------
(* XairBuilder on two small instances in one run.  A client of the first   *)
(* kind builds operations and parameters, the constants of the .cfg being  *)
(* its choices: two blocks, a few values, one operand type.  One of the    *)
(* second kind builds terminators of up to three blocks, their arguments   *)
(* in the pool, around parameters and accesses that fail.                  *)
EXTENDS XairBuilder

VARIABLE client
mcVars == <<vars, client>>

MCTypes == {xair_type_i(1)}

Terminators == INSTANCE XairBuilder WITH
  MaxId <- 2, BlockIds <- {1, 2}, ValueIds <- {1}, Targets <- {1},
  ClientTypes <- {xair_type_mem(0, 32), xair_type_void},
  UnaryOpcodes <- {}, BinaryOpcodes <- {}, Imms <- {}, Names <- {0}, Codes <- {7},
  ClientEndians <- {"LE"}, MaxBlocks <- 3, MaxArgs <- 1, MaxPool <- 3

MCInit == Init /\ client \in {"operations", "terminators"}

MCNext ==
  /\ \/ client = "operations" /\ Next
     \/ client = "terminators" /\ Terminators!Next
  /\ UNCHANGED client

MCSpec == MCInit /\ [][MCNext]_mcVars
=============================================================================
