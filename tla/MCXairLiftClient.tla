-------------------------- MODULE MCXairLiftClient --------------------------
(* XairLiftClient on small instances.                                      *)
EXTENDS XairLiftClient

RAX == 0
RCX == 1
R(reg) == [kind |-> "REG", reg |-> reg]
I(imm) == [kind |-> "IMM", imm |-> imm]
M(base, index, scale, disp) ==
  [kind |-> "MEM", mem |-> [kind |-> "BASE_INDEX", base |-> base, index |-> index,
                            scale |-> scale, disp |-> disp]]
Rip(disp) == [kind |-> "MEM", mem |-> [kind |-> "RIP_REL", base |-> NoReg, index |-> NoReg,
                                       scale |-> 1, disp |-> disp]]
NoMem == [kind |-> "MEM", mem |-> [kind |-> "NONE", base |-> NoReg, index |-> NoReg,
                                   scale |-> 1, disp |-> 0]]
Op(mnemonic, operands) == [mnemonic |-> mnemonic, operands |-> operands, length |-> 2]

Moves ==
  {Op("MOV", <<R(RAX), I(Word - 1)>>), Op("MOV", <<R(RCX), R(RAX)>>),
   Op("MOV", <<R(RAX), M(RAX, RCX, 2, Word - 4)>>), Op("MOV", <<M(RAX, NoReg, 1, 0), R(RCX)>>),
   Op("LEA", <<R(RCX), M(NoReg, RCX, 4, 0)>>), Op("LEA", <<R(RAX), Rip(5)>>),
   Op("MOV", <<R(RAX), M(NoReg, NoReg, 1, 8)>>),
   Op("PUSH", <<R(RAX)>>), Op("PUSH", <<R(RSP)>>), Op("POP", <<R(RCX)>>), Op("POP", <<R(RSP)>>)}
Sums ==
  {Op("ADD", <<R(RAX), I(Word - 260)>>), Op("SUB", <<R(RCX), R(RAX)>>), Op("AND", <<R(RAX), I(3)>>),
   Op("OR", <<R(RCX), R(RCX)>>), Op("XOR", <<R(RCX), R(RCX)>>), Op("CMP", <<R(RCX), R(RAX)>>),
   Op("TEST", <<R(RAX), I(1)>>)}
Ends ==
  {Op("JMP", <<I(Word - 2)>>), Op("JZ", <<I(4)>>), Op("JNZ", <<I(4)>>), Op("RET", <<>>)}
(* Shapes the lifter turns down, some of them after it has added values.   *)
Odd ==
  {Op("MOV", <<R(RAX), NoMem>>), Op("ADD", <<R(RAX), M(RCX, NoReg, 1, 0)>>),
   Op("ADD", <<M(RCX, NoReg, 1, 0), R(RAX)>>), Op("LEA", <<R(RAX), R(RCX)>>),
   Op("JMP", <<R(RAX)>>), Op("PUSH", <<I(1)>>), Op("?", <<>>)}

Insts_All == Moves \cup Sums \cup Ends \cup Odd \cup {Op("NOP", <<>>)}
Insts_Few ==
  {Op("MOV", <<R(RAX), I(1)>>), Op("PUSH", <<R(RAX)>>), Op("SUB", <<R(RCX), I(1)>>),
   Op("MOV", <<M(RAX, RCX, 2, 1), R(RCX)>>), Op("JNZ", <<I(4)>>), Op("RET", <<>>)}

(* Every instruction, in every order; and a few of them with an image that *)
(* ends early, a start outside of it and failing allocations.              *)
Instructions == [insts |-> Insts_All, archs |-> {32, 64}, size |-> 6, starts |-> {Base},
                 limits |-> {0}, fuels |-> {99}, maxLifts |-> 1]
Faults == [insts |-> Insts_Few, archs |-> {64}, size |-> 5, starts |-> {Base - 1, Base},
           limits |-> {2}, fuels |-> (0 .. 8) \cup {99}, maxLifts |-> 2]
MCSessions == {Instructions, Faults}
=============================================================================
