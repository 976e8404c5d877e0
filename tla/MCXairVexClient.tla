-------------------------- MODULE MCXairVexClient --------------------------
(* XairVexClient on small instances.                                       *)
EXTENDS XairVexClient

i1 == xair_type_i(1)
a32 == xair_type_addr(32)

Irop(name) == [name |-> name, bits |-> 8]
Conversion(name, from, to) == [name |-> name, bits |-> from, to |-> to]

Binops_All == {Irop(n) : n \in DOMAIN MappedOpcode} \cup {Irop("?"), [name |-> "Add", bits |-> 32],
               [name |-> "CmpEQ", bits |-> 32]}
Unops_All == {Conversion("Uto", 1, 8), Conversion("Sto", 1, 8), Conversion("to", 8, 1),
              Conversion("Sto", 8, 16), Conversion("Uto", 8, 24), Conversion("to", 8, 16),
              Conversion("?", 8, 8)}

(* Two exits, with one direct and one sparse register.                     *)
Exits ==
  [tmps |-> {0}, regs |-> {0, 4}, regTypes |-> {i8}, constTypes |-> {i1}, imms |-> {1},
   binops |-> {}, unops |-> {}, targets |-> {2}, memoryGiven |-> {TRUE}, faulty |-> {"none"},
   maxValues |-> 6, maxBlocks |-> 4, maxOrphans |-> 0]

(* Failures of each allocation of an exit.                                 *)
Failures ==
  [Exits EXCEPT !.faulty = {"none", "blocks", "next", "values", "cont_args", "false_args"},
                !.maxValues = 5, !.maxOrphans = 1]

(* Failures of the caches, and the temporary they refuse.                  *)
Caches ==
  [Exits EXCEPT !.tmps = {0, 9}, !.faulty = {"none", "tmps", "sparse", "args"},
                !.memoryGiven = {TRUE, FALSE}, !.maxValues = 5]

(* Every operation, on operands of any kind.                               *)
Operations ==
  [Exits EXCEPT !.tmps = {0, 1}, !.regs = {0}, !.constTypes = {i8, a32}, !.imms = {3},
                !.binops = Binops_All, !.unops = Unops_All, !.targets = {2, 9},
                !.faulty = {"none", "kind"}, !.maxValues = 4, !.maxBlocks = 2]

MCSessions == {Exits, Failures, Caches, Operations}
=============================================================================
