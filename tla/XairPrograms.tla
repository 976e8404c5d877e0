---------------------------- MODULE XairPrograms ----------------------------
(***************************************************************************)
(* Families of small programs for model checking, each built through the   *)
(* construction interface of XairModule.                                   *)
(***************************************************************************)
EXTENDS XairModule

i1 == xair_type_i(1)
i8 == xair_type_i(8)
i16 == xair_type_i(16)
a32 == xair_type_addr(32)
mem32 == xair_type_mem(0, 32)

Block(mod) == xair_block_create(mod, "none").m
Param(mod, b, t) == xair_block_add_param(mod, b, t, 0, "none").m
Const(mod, b, t, x) == xair_build_const_u64(mod, b, t, x, 0, "none").m
Unary(mod, b, opcode, t, x) == xair_build_unary(mod, b, opcode, t, x, 0, "none").m
Binary(mod, b, opcode, t, x, y) == xair_build_binary(mod, b, opcode, t, x, y, 0, "none").m
Load(mod, b, t, x, y, e) == xair_build_load(mod, b, t, x, y, e, 0, "none").m
Store(mod, b, x, y, z, e) == xair_build_store(mod, b, x, y, z, e, 0, "none").m
Jump(mod, b, t, args) == xair_set_jump(mod, b, t, args, "none").m
Cbranch(mod, b, c, t, ta, f, fa) == xair_set_cbranch(mod, b, c, t, ta, f, fa, "none").m
Return(mod, b, args) == xair_set_return(mod, b, args, "none").m

OneBlock == Block(xair_module_create)
TwoBlocks == Block(OneBlock)

(* A loop on two bits: block 1 branches to itself or leaves to block 2.    *)
(* Some choices of x, y, c, out name values of the wrong block.            *)
LoopBody == Const(Param(Binary(Param(Param(TwoBlocks, 1, i1), 1, i1), 1, "XOR", i1, 1, 2), 2, i1), 2, i1, 1)
Loops == {Return(Cbranch(LoopBody, 1, c, 1, <<x, y>>, 2, <<out>>), 2, <<4, ret>>) :
            c \in {1, 3}, x \in {1, 2, 5}, y \in {1, 2}, out \in {3, 5}, ret \in {3, 5}}

(* A store and two loads around it, in both byte orders.                   *)
MemBody(e) == Store(Param(Param(Param(OneBlock, 1, mem32), 1, a32), 1, i16), 1, 1, 2, 3, e)
Memories == {Return(Load(Load(MemBody(e), 1, t, 4, 2, f), 1, i8, first, 2, "LE"), 1, <<5, 6>>) :
               e \in Endians, f \in Endians, t \in {i16, i1}, first \in {1, 4}}

(* Flags, shifts past the width, traps, faults and too many results.       *)
FlagBody(s) == Unary(Binary(Const(Param(OneBlock, 1, i8), 1, i8, s), 1, "FLAGS_SHL",
                            xair_type_flags(6), 1, 2), 1, "FLAG_CF", i1, 3)
Flags == {Return(FlagBody(s), 1, <<4>>) : s \in {0, 1, 7, 8}}
Stops == {xair_set_trap(OneBlock, 1, 7).m, xair_set_fault(OneBlock, 1, 9).m,
          Jump(xair_set_trap(TwoBlocks, 2, 7).m, 1, 2, <<>>), OneBlock,
          Return(FlagBody(1), 1, <<1, 1, 1>>)}


-----------------------------------------------------------------------------
(* Programs with something to canonicalize.                                *)

(* Arithmetic on a parameter and constants, in both operand orders, read   *)
(* through a comparison; the sum is dead when it is not returned.          *)
Sum(x, y) == Binary(Const(Const(Param(OneBlock, 1, i8), 1, i8, 3), 1, i8, 253), 1, "ADD", i8, x, y)
Compare(x, y, z, flag) ==
  Unary(Binary(Sum(x, y), 1, "FLAGS_SUB", xair_type_flags(6), 4, z), 1, flag, i1, 5)
Arithmetic == {Return(Compare(x, y, z, flag), 1, ret) :
                 x \in 1 .. 3, y \in 1 .. 3, z \in {1, 3},
                 flag \in {"FLAG_CF", "FLAG_OF"}, ret \in {<<6>>, <<4, 6>>, <<4>>}}

(* The same store and loads, now with a dead store and with tokens that    *)
(* are threaded or not.                                                    *)
TokenBody(tok, e) ==
  Store(Load(Store(Param(Param(Param(OneBlock, 1, mem32), 1, a32), 1, i8), 1, 1, 2, 3, "LE"),
             1, i8, 4, 2, "LE"), 1, tok, 2, 5, e)
Tokens == {Return(TokenBody(tok, "LE"), 1, ret) :
             tok \in {1, 4}, ret \in {<<5>>, <<6, 5>>, <<4>>, <<3>>}}

(* A loop whose body was built out of order: the constant it uses belongs  *)
(* to the later block, one parameter comes after an operation, and one     *)
(* operation is dead, so that everything is renumbered.                    *)
Renumbered(dead) ==
  LET base == Param(Const(Param(TwoBlocks, 1, i1), 2, i1, 1), 1, i1)
      used == Binary(base, 1, "XOR", i1, 1, 2)
  IN  Param(IF dead THEN Binary(used, 1, "AND", i1, 1, 3) ELSE used, 2, i1)
Loops2 == {LET p == Renumbered(dead)
               out == Len(p.values)
           IN  Return(Cbranch(p, 1, c, 1, <<4, x>>, 2, <<y>>), 2, <<out, 2>>) :
             dead \in BOOLEAN, c \in {1, 3}, x \in {1, 2, 4}, y \in {2, 4}}
=============================================================================
