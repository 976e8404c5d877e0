--------------------------- MODULE MCXairPipeline ---------------------------
(* Programs with something to canonicalize, one operation on constants at  *)
(* the boundaries of its width, and loops whose client keeps one state.    *)
EXTENDS XairPipeline, XairPrograms

(* All one-bit operands; at eight bits and at the sixteen of the word, the *)
(* boundaries of the nibble, of the byte, of the sign and of the width.    *)
Operands(bits) ==
  CASE bits = 1 -> 0 .. 1
    [] bits = 8 -> {0, 1, 7, 8, 15, 16, 127, 128, 255}
    [] OTHER -> {0, 1, 15, 255, 256, 32767, 32768, 65535}

Boundary(bits) == {<<bits, x, y>> : x \in Operands(bits), y \in Operands(bits)}
Boundaries == UNION {Boundary(bits) : bits \in {1, 8, 16}}
Diagonal == {at \in Boundaries : at[2] = at[3]}

(* Bound: the exact product of the two largest exceeds TLC's integers.     *)
Multiplied == Boundaries \ {<<16, 65535, 65535>>}

(* op(x, y), flag(op(x, y)) or op(x), returned.                            *)
OnPair(opcode, at) ==
  LET t == xair_type_i(at[1])
      p == Const(Const(OneBlock, 1, t, at[2]), 1, t, at[3])
  IN  Binary(p, 1, opcode,
             CASE opcode \in FlagPairs -> xair_type_flags(6)
               [] opcode \in UnsignedCompares \cup SignedCompares -> i1
               [] OTHER -> t,
             1, Len(p.values))
OnOne(opcode, t, at) == Unary(Const(OneBlock, 1, xair_type_i(at[1]), at[2]), 1, opcode, t, 1)
Flag(mod, flag) == Unary(mod, 1, flag, i1, Len(mod.values))
ReturnLast(mod) == Return(mod, 1, <<Len(mod.values)>>)

Computations ==
  {ReturnLast(OnPair(opcode, at)) :
     opcode \in (ArithOps \ {"MUL"}) \cup ShiftOps \cup UnsignedCompares \cup SignedCompares,
     at \in Boundaries}
    \cup {ReturnLast(OnPair("MUL", at)) : at \in Multiplied}
FlagTests ==
  {ReturnLast(Flag(OnPair(opcode, at), flag)) :
     opcode \in FlagPairs, flag \in FlagReads, at \in Boundaries}
    \cup {ReturnLast(Flag(OnOne("FLAGS_LOGIC", xair_type_flags(6), at), flag)) :
            flag \in FlagReads, at \in Diagonal}
Resized ==
  {ReturnLast(OnOne(opcode, xair_type_i(out), at)) :
     opcode \in {"ZEXT", "SEXT", "TRUNC"}, out \in {1, 8, 16}, at \in Diagonal}
(* Two bytes fill the word; addresses are as wide as it.                   *)
Joined ==
  {ReturnLast(Binary(Const(Const(OneBlock, 1, i8, at[2]), 1, i8, at[3]), 1, "CONCAT", i16, 1, 2)) :
     at \in Boundary(8)}
i32 == xair_type_i(32)
Addresses32 ==
  {ReturnLast(Binary(Const(Const(OneBlock, 1, a32, at[2]), 1, i32, at[3]), 1, opcode, a32, 1, 2)) :
     opcode \in AddrOps, at \in Boundary(16)}
    \cup {ReturnLast(Unary(Const(OneBlock, 1, i32, x), 1, "INT_TO_ADDR", a32, 1)) :
            x \in Operands(16)}
    \cup {ReturnLast(Unary(Const(OneBlock, 1, a32, x), 1, "ADDR_TO_INT", i32, 1)) :
            x \in Operands(16)}
Singles == Computations \cup FlagTests \cup Resized \cup Joined \cup Addresses32

LiveLoop(dead) ==
  LET p == Renumbered(dead)
  IN  Return(Cbranch(p, 1, 1, 1, <<4, 1>>, 2, <<4>>), 2, <<Len(p.values), 2>>)
MCLive == {LiveLoop(dead) : dead \in BOOLEAN}

MCArguments == {[type |-> i1, lo |-> 1]}

MCPrograms == Arithmetic \cup Tokens \cup Loops2 \cup Stops \cup Flags \cup Singles \cup MCLive

MCInputs == [type : {i1}, lo : 0 .. 1] \cup [type : {i8}, lo : {0, 4, 129}]
            \cup {[type |-> mem32, lo |-> 0], [type |-> a32, lo |-> 3]}
=============================================================================
