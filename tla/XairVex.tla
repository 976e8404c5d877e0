------------------------------ MODULE XairVex ------------------------------
(***************************************************************************)
(* The VEX-shaped adapter of src/src/xair_vex.c.  A client translates the  *)
(* statements of one VEX superblock through it; the adapter remembers      *)
(* which IR value each temporary, each register and the memory currently   *)
(* stand for, and splits the block at every side exit.                     *)
(*                                                                         *)
(* Each function is an operator from the module and the adapter to what    *)
(* the call leaves of them.  An irop is a record instead of a string, so   *)
(* scanning its text is left out; malformed text is the name "?".  Maps    *)
(* are partial functions: the first capacity and the doubling of the dense *)
(* map only decide when an allocation may fail, and here any of them may.  *)
(***************************************************************************)
EXTENDS XairVerify, XairArith, SequencesExt

CONSTANTS
  DirectSlots,    \* XAIR_VEX_REG_DIRECT_SLOTS
  TmpLimit        \* UINT32_MAX, the one temporary the dense map refuses

ASSUME VexAssumption == DirectSlots \in Nat /\ TmpLimit \in Nat

(* The names the adapter and its client give to parameters.                *)
MemName == 1
TmpName(t) == 1000 + t
RegName(r) == 2000 + r

(* has_memory is memory # INVALID: nothing ever takes the memory away.     *)
NewAdapter(entry, memory) ==
  [current |-> entry, memory |-> memory, tmps |-> [t \in {} |-> INVALID],
   regs |-> [r \in {} |-> INVALID], sparse_regs |-> <<>>]

VexRet(mod, ad, st, out) == [m |-> mod, a |-> ad, status |-> st, out |-> out]
VexReject(mod, ad, st) == VexRet(mod, ad, st, INVALID)

Update(f, k, v) == [x \in DOMAIN f \cup {k} |-> IF x = k THEN v ELSE f[x]]

vex_valid_value(mod, v) == valid_value(mod, v) /\ xair_type_is_valid(TypeOf(mod, v))

-----------------------------------------------------------------------------
(* The caches.                                                             *)

vex_dense_set(f, key, v, fault) ==
  IF key = TmpLimit THEN [status |-> "BAD_ARG", map |-> f]
  ELSE IF key \notin DOMAIN f /\ fault = "tmps" THEN [status |-> "OOM", map |-> f]
  ELSE [status |-> "OK", map |-> Update(f, key, v)]

vex_find_entry(entries, key) == {i \in 1 .. Len(entries) : entries[i].key = key}

vex_set_entry(entries, key, v, fault) ==
  LET found == vex_find_entry(entries, key)
  IN  IF found # {}
      THEN [status |-> "OK",
            map |-> [entries EXCEPT ![CHOOSE i \in found : TRUE].value = v]]
      ELSE IF fault = "sparse" THEN [status |-> "OOM", map |-> entries]
      ELSE [status |-> "OK", map |-> Append(entries, [key |-> key, value |-> v])]

xair_vex_adapter_create(mod, entry, memory) ==
  IF \/ ~valid_block(mod, entry)
     \/ memory # INVALID /\ ~(valid_value(mod, memory) /\ is_mem(TypeOf(mod, memory)))
  THEN VexReject(mod, NewAdapter(INVALID, INVALID), "BAD_ARG")
  ELSE VexRet(mod, NewAdapter(entry, memory), "OK", INVALID)

xair_vex_set_tmp(mod, ad, tmp, v, fault) ==
  LET set == vex_dense_set(ad.tmps, tmp, v, fault)
  IN  IF ~vex_valid_value(mod, v) THEN VexReject(mod, ad, "BAD_ARG")
      ELSE VexRet(mod, [ad EXCEPT !.tmps = set.map], set.status, INVALID)

xair_vex_get_tmp(ad, tmp) == IF tmp \in DOMAIN ad.tmps THEN {ad.tmps[tmp]} ELSE {}

xair_vex_peek_reg(ad, offset) ==
  IF offset < DirectSlots
  THEN IF offset \in DOMAIN ad.regs THEN {ad.regs[offset]} ELSE {}
  ELSE {ad.sparse_regs[i].value : i \in vex_find_entry(ad.sparse_regs, offset)}

xair_vex_put_reg(mod, ad, offset, v, fault) ==
  LET set == vex_set_entry(ad.sparse_regs, offset, v, fault)
  IN  IF ~vex_valid_value(mod, v) THEN VexReject(mod, ad, "BAD_ARG")
      ELSE IF offset < DirectSlots
           THEN VexRet(mod, [ad EXCEPT !.regs = Update(@, offset, v)], "OK", INVALID)
      ELSE VexRet(mod, [ad EXCEPT !.sparse_regs = set.map], set.status, INVALID)

(* A register that is not cached becomes a parameter of the current block. *)
(* When the sparse list cannot grow, the parameter stays behind.           *)
xair_vex_get_reg(mod, ad, offset, type, name, fault) ==
  LET cached == xair_vex_peek_reg(ad, offset)
      added == xair_block_add_param(mod, ad.current, type, name, fault)
      put == xair_vex_put_reg(added.m, ad, offset, added.out, fault)
  IN  IF ~xair_type_is_valid(type) THEN VexReject(mod, ad, "BAD_ARG")
      ELSE IF cached # {}
           THEN IF \E v \in cached : TypeOf(mod, v) # type THEN VexReject(mod, ad, "BAD_ARG")
                ELSE VexRet(mod, ad, "OK", CHOOSE v \in cached : TRUE)
      ELSE IF added.status # "OK" THEN VexReject(added.m, ad, added.status)
      ELSE VexRet(added.m, put.a, put.status, added.out)

xair_vex_set_memory(mod, ad, memory) ==
  IF ~vex_valid_value(mod, memory) THEN VexReject(mod, ad, "BAD_ARG")
  ELSE IF ~is_mem(TypeOf(mod, memory)) THEN VexReject(mod, ad, "BAD_ARG")
  ELSE VexRet(mod, [ad EXCEPT !.memory = memory], "OK", INVALID)

-----------------------------------------------------------------------------
(* Operations.  The widths in the irop's name must be the operand's.       *)

MappedOpcode ==
  [Add |-> "ADD", Sub |-> "SUB", Mul |-> "MUL", And |-> "AND", Or |-> "OR", Xor |-> "XOR",
   Shl |-> "SHL", Shr |-> "LSHR", Sar |-> "ASHR", CmpEQ |-> "EQ", CmpNE |-> "NE",
   CmpLTU |-> "ULT", CmpLTS |-> "SLT", CmpLEU |-> "ULE", CmpLES |-> "SLE"]

Compares == {"CmpEQ", "CmpNE", "CmpLTU", "CmpLTS", "CmpLEU", "CmpLES"}

(* Mutant: a comparison has the type of its operands.                      *)
WideCompare(irop, lhs) ==
  IF irop.name \notin DOMAIN MappedOpcode \/ lhs.bits # irop.bits
  THEN [status |-> "UNSUPPORTED"]
  ELSE [status |-> "OK", opcode |-> MappedOpcode[irop.name], type |-> lhs]

vex_map_binop(irop, lhs) ==
  IF irop.name \notin DOMAIN MappedOpcode \/ lhs.bits # irop.bits
  THEN [status |-> "UNSUPPORTED"]
  ELSE [status |-> "OK", opcode |-> MappedOpcode[irop.name],
        type |-> IF irop.name \in Compares THEN xair_type_i(1) ELSE lhs]

(* Iop_<from>Uto<to>, Iop_<from>Sto<to> and Iop_<from>to<to>.              *)
vex_map_unop(irop, src) ==
  IF irop.name = "?" THEN [status |-> "UNSUPPORTED"]
  ELSE IF src.bits # irop.bits \/ ~is_int(src) THEN [status |-> "UNSUPPORTED"]
  ELSE IF irop.name \in {"Uto", "Sto"} /\ irop.to > irop.bits
       THEN [status |-> "OK", opcode |-> IF irop.name = "Uto" THEN "ZEXT" ELSE "SEXT",
             type |-> xair_type_i(irop.to)]
  ELSE IF irop.name = "to" /\ irop.to < irop.bits
       THEN [status |-> "OK", opcode |-> "TRUNC", type |-> xair_type_i(irop.to)]
  ELSE [status |-> "UNSUPPORTED"]

(* The end of every emit: the operation was built, or was not; its result  *)
(* goes to the temporary.                                                  *)
Emitted(ad, tmp, built, fault) ==
  IF built.status # "OK" THEN VexReject(built.m, ad, built.status)
  ELSE xair_vex_set_tmp(built.m, ad, tmp, built.out, fault)

xair_vex_emit_const(mod, ad, tmp, type, imm, name, fault) ==
  Emitted(ad, tmp, xair_build_const_u64(mod, ad.current, type, imm, name, fault), fault)

xair_vex_emit_unop(mod, ad, tmp, irop, src, name, fault) ==
  LET map == vex_map_unop(irop, TypeOf(mod, src))
  IN  IF ~vex_valid_value(mod, src) THEN VexReject(mod, ad, "BAD_ARG")
      ELSE IF map.status # "OK" THEN VexReject(mod, ad, map.status)
      ELSE Emitted(ad, tmp, xair_build_unary(mod, ad.current, map.opcode, map.type, src,
                                             name, fault), fault)

xair_vex_emit_binop(mod, ad, tmp, irop, lhs, rhs, name, fault) ==
  LET map == vex_map_binop(irop, TypeOf(mod, lhs))
  IN  IF ~vex_valid_value(mod, lhs) \/ ~vex_valid_value(mod, rhs)
      THEN VexReject(mod, ad, "BAD_ARG")
      ELSE IF TypeOf(mod, lhs) # TypeOf(mod, rhs) /\ irop.name \notin {"Shl", "Shr", "Sar"}
           THEN VexReject(mod, ad, "BAD_ARG")
      ELSE IF map.status # "OK" THEN VexReject(mod, ad, map.status)
      ELSE Emitted(ad, tmp, xair_build_binary(mod, ad.current, map.opcode, map.type, lhs, rhs,
                                              name, fault), fault)

xair_vex_emit_load(mod, ad, tmp, type, address, endian, name, fault) ==
  IF ad.memory = INVALID \/ ~vex_valid_value(mod, address) THEN VexReject(mod, ad, "BAD_ARG")
  ELSE Emitted(ad, tmp, xair_build_load(mod, ad.current, type, ad.memory, address, endian,
                                        name, fault), fault)

xair_vex_emit_store(mod, ad, address, data, endian, name, fault) ==
  LET built == xair_build_store(mod, ad.current, ad.memory, address, data, endian, name, fault)
  IN  IF \/ ad.memory = INVALID
         \/ ~vex_valid_value(mod, address) \/ ~vex_valid_value(mod, data)
      THEN VexReject(mod, ad, "BAD_ARG")
      ELSE IF built.status # "OK" THEN VexReject(built.m, ad, built.status)
      ELSE VexRet(built.m, [ad EXCEPT !.memory = built.out], "OK", INVALID)

-----------------------------------------------------------------------------
(* A side exit.  Everything the adapter remembers is passed to a new block *)
(* as an argument: the memory, then the temporaries, then the direct and   *)
(* the sparse registers.                                                   *)

(* The members of a set of numbers, the smallest first.                    *)
Ascending(S) ==
  [i \in 1 .. Cardinality(S) |-> CHOOSE x \in S : Cardinality({y \in S : y < x}) = i - 1]

(* The slots in the order they are transferred.                            *)
Slots(ad) ==
  (IF ad.memory = INVALID THEN <<>> ELSE <<<<"mem", 0>>>>)
    \o [i \in 1 .. Cardinality(DOMAIN ad.tmps) |-> <<"tmp", Ascending(DOMAIN ad.tmps)[i]>>]
    \o [i \in 1 .. Cardinality(DOMAIN ad.regs) |-> <<"reg", Ascending(DOMAIN ad.regs)[i]>>]
    \o [i \in 1 .. Len(ad.sparse_regs) |-> <<"sparse", i>>]

InSlot(ad, slot) ==
  CASE slot[1] = "mem" -> ad.memory
    [] slot[1] = "tmp" -> ad.tmps[slot[2]]
    [] slot[1] = "reg" -> ad.regs[slot[2]]
    [] slot[1] = "sparse" -> ad.sparse_regs[slot[2]].value

SlotName(ad, slot) ==
  CASE slot[1] = "mem" -> MemName
    [] slot[1] = "tmp" -> TmpName(slot[2])
    [] slot[1] = "reg" -> RegName(slot[2])
    [] slot[1] = "sparse" -> RegName(ad.sparse_regs[slot[2]].key)

(* vex_transfer_value_to_continuation for the first n slots: n parameters, *)
(* one after the other, of the types of the old values.                    *)
vex_transfer_value_to_continuation(mod, ad, cont, n) ==
  [mod EXCEPT
     !.values = @ \o [i \in 1 .. n |->
                        [type |-> TypeOf(mod, InSlot(ad, Slots(ad)[i])), block |-> cont,
                         op |-> INVALID, name |-> SlotName(ad, Slots(ad)[i])]],
     !.blocks[cont].params = [i \in 1 .. n |-> Len(mod.values) + i]]

(* Mutant: the memory is passed on but the old token is kept.              *)
KeepOldMemory(ad, cont, first) ==
  LET next(slot) == first + (CHOOSE i \in 1 .. Len(Slots(ad)) : Slots(ad)[i] = slot)
  IN  [ad EXCEPT !.current = cont,
         !.tmps = [t \in DOMAIN @ |-> next(<<"tmp", t>>)],
         !.regs = [r \in DOMAIN @ |-> next(<<"reg", r>>)],
         !.sparse_regs = [i \in DOMAIN @ |-> [@[i] EXCEPT !.value = next(<<"sparse", i>>)]]]

(* Mutant: the new identifiers are dealt out in the order direct registers,*)
(* temporaries, instead of the order of the arguments.                     *)
RegsFirst(ad, cont, first) ==
  LET next(slot) == first + (CHOOSE i \in 1 .. Len(Slots(ad)) : Slots(ad)[i] = slot)
      nt == Cardinality(DOMAIN ad.tmps)
      nr == Cardinality(DOMAIN ad.regs)
  IN  [ad EXCEPT !.current = cont,
         !.memory = IF @ = INVALID THEN @ ELSE next(<<"mem", 0>>),
         !.tmps = [t \in DOMAIN @ |-> next(<<"tmp", t>>) + nr],
         !.regs = [r \in DOMAIN @ |-> next(<<"reg", r>>) - nt],
         !.sparse_regs = [i \in DOMAIN @ |-> [@[i] EXCEPT !.value = next(<<"sparse", i>>)]]]

(* The adapter moves to the continuation and refers to its parameters.     *)
MovedTo(ad, cont, first) ==
  LET next(slot) == first + (CHOOSE i \in 1 .. Len(Slots(ad)) : Slots(ad)[i] = slot)
  IN  [ad EXCEPT !.current = cont,
         !.memory = IF @ = INVALID THEN @ ELSE next(<<"mem", 0>>),
         !.tmps = [t \in DOMAIN @ |-> next(<<"tmp", t>>)],
         !.regs = [r \in DOMAIN @ |-> next(<<"reg", r>>)],
         !.sparse_regs = [i \in DOMAIN @ |-> [@[i] EXCEPT !.value = next(<<"sparse", i>>)]]]

(* Where an exit may fail: creating the block, allocating the arrays of    *)
(* new identifiers, transferring slot `at` (before its parameter exists,   *)
(* or after, when the argument list cannot grow from a multiple of 8), or  *)
(* copying the arguments of the branch.                                    *)
ExitFaults(ad) ==
  {[what |-> w, at |-> 0] : w \in {"none", "blocks", "args", "false_args"}}
    \cup {[what |-> "next", at |-> 0] : i \in {i \in 1 .. Len(Slots(ad)) :
                                                Slots(ad)[i][1] # "mem"}}
    \cup [what : {"values"}, at : 1 .. Len(Slots(ad))]
    \cup [what : {"cont_args"}, at : {i \in 1 .. Len(Slots(ad)) : i % 8 = 1}]

(* Mutant: when the branch fails, the adapter's list of sparse registers   *)
(* is freed instead of the new one.                                        *)
FreesOldRegs(mod, ad, condition, taken, taken_args, fault) ==
  LET created == xair_block_create(mod, fault.what)
      n == Len(Slots(ad))
      olds == [i \in 1 .. n |-> InSlot(ad, Slots(ad)[i])]
      branch == xair_set_cbranch(vex_transfer_value_to_continuation(created.m, ad, created.out, n),
                                 ad.current, condition, taken, taken_args, created.out, olds,
                                 fault.what)
  IN  IF ~vex_valid_value(mod, condition) \/ ~valid_block(mod, taken)
      THEN VexReject(mod, ad, "BAD_ARG")
      ELSE IF created.status # "OK" THEN VexReject(created.m, ad, created.status)
      ELSE IF fault.what \in {"next", "values", "cont_args"} THEN VexReject(created.m, ad, "OOM")
      ELSE IF branch.status # "OK"
           THEN VexReject(branch.m, [ad EXCEPT !.sparse_regs = <<>>], branch.status)
      ELSE VexRet(branch.m, MovedTo(ad, created.out, Len(mod.values)), "OK", INVALID)

xair_vex_emit_exit(mod, ad, condition, taken, taken_args, fault) ==
  LET created == xair_block_create(mod, fault.what)
      cont == created.out
      n == Len(Slots(ad))
      passed(k) == vex_transfer_value_to_continuation(created.m, ad, cont, k)
      room == MaxId - Len(mod.values)
      olds == [i \in 1 .. n |-> InSlot(ad, Slots(ad)[i])]
      branch == xair_set_cbranch(passed(n), ad.current, condition, taken, taken_args,
                                 cont, olds, fault.what)
  IN  IF ~vex_valid_value(mod, condition) \/ ~valid_block(mod, taken)
      THEN VexReject(mod, ad, "BAD_ARG")
      ELSE IF created.status # "OK" THEN VexReject(created.m, ad, created.status)
      ELSE IF fault.what = "next" THEN VexReject(created.m, ad, "OOM")
      ELSE IF fault.what = "values" /\ fault.at <= room
           THEN VexReject(passed(fault.at - 1), ad, "OOM")
      ELSE IF fault.what = "cont_args" /\ fault.at <= room
           THEN VexReject(passed(fault.at), ad, "OOM")
      ELSE IF n > room THEN VexReject(passed(room), ad, "RANGE")
      ELSE IF branch.status # "OK" THEN VexReject(branch.m, ad, branch.status)
      ELSE VexRet(branch.m, MovedTo(ad, cont, Len(mod.values)), "OK", INVALID)

xair_vex_finish_jump(mod, ad, target, args, fault) ==
  LET set == xair_set_jump(mod, ad.current, target, args, fault)
  IN  VexRet(set.m, ad, set.status, INVALID)

xair_vex_finish_return(mod, ad, args, fault) ==
  LET set == xair_set_return(mod, ad.current, args, fault)
  IN  VexRet(set.m, ad, set.status, INVALID)
=============================================================================
