--------------------------- MODULE XairVexClient ---------------------------
(***************************************************************************)
(* A client of the VEX adapter translating one superblock: any sequence of *)
(* VEX statements, with any allocation failing, into a module that already *)
(* holds the entry block (1) and the target of the side exits (2).         *)
(*                                                                         *)
(* As in VEX, operands are temporaries.  ref is what the statements mean   *)
(* on numbers: temporaries, registers and memory after them, on the path   *)
(* that takes no side exit.  flaws records what the client or an error did *)
(* that the adapter lets pass.                                             *)
(***************************************************************************)
EXTENDS XairVex, XairMeaning

CONSTANT Sessions   \* what clients may do, one record per kind of client

(* Fields of a session: tmps and regs, temporaries and register offsets of *)
(* the statements; regTypes, types registers are read with; constTypes and *)
(* imms, constants; binops and unops; targets, blocks exits and jumps lead *)
(* to; memoryGiven, whether xair_vex_adapter_create gets the memory;       *)
(* faulty, the allocations that fail ("kind": operands may be of a wrong   *)
(* kind).  Bounds: maxValues and maxBlocks, value_count and block_count;   *)
(* maxOrphans, blocks that failed exits leave behind.                      *)
ASSUME SessionAssumption ==
  \A s \in Sessions :
    /\ s.tmps \cup s.regs \cup s.imms \cup s.targets \subseteq Nat
    /\ s.regTypes \cup s.constTypes \subseteq Types
    /\ s.memoryGiven \subseteq BOOLEAN
    /\ {s.maxValues, s.maxBlocks, s.maxOrphans} \subseteq Nat

VARIABLES
  m, a,       \* the module and the adapter
  status,     \* what the last call returned
  ref,        \* the meaning of the statements so far
  flaws,      \* subset of {"late", "abandoned", "kind"}
  finished,   \* finish_jump or finish_return has succeeded
  session     \* the kind of client, fixed

vars == <<m, a, status, ref, flaws, finished, session>>

Tmps == session.tmps
Regs == session.regs
Faulty == session.faulty

mem32 == xair_type_mem(0, 32)
i8 == xair_type_i(8)

(* The module the client starts from: value 1 is the memory of the entry.  *)
EntryModule ==
  LET two == xair_block_create(xair_block_create(xair_module_create, "none").m, "none").m
      memory == xair_block_add_param(two, 1, mem32, MemName, "none").m
  IN  xair_set_trap(memory, 2, 0).m

InitialReg(r) == (37 * r + 200) % 256  \* what a register holds on entry
Kept(x, type) == IF x = Undefined THEN x ELSE truncate_to_type(x, type)

Init ==
  /\ session \in Sessions
  /\ m = EntryModule
  /\ a = NewAdapter(INVALID, INVALID)
  /\ status = "OK"
  /\ ref = [tmps |-> [t \in {} |-> 0], regs |-> [r \in Regs |-> InitialReg(r)],
            mem |-> NoWrites]
  /\ flaws = {} /\ finished = FALSE

-----------------------------------------------------------------------------
(* What an IR value denotes when no side exit is taken: a parameter of a   *)
(* continuation is the argument passed to it, any other parameter is what  *)
(* its name says.                                                          *)

Passed(mod, v) ==
  LET b == mod.values[v].block
  IN  {FalseArgs(mod, p[1])[p[2]] : p \in
         {q \in (1 .. Len(mod.blocks)) \X (1 .. Len(mod.blocks[b].params)) :
            /\ mod.blocks[q[1]].term.kind = "CBRANCH" /\ mod.blocks[q[1]].term.false_target = b
            /\ q[2] <= mod.blocks[q[1]].term.false_arg_count
            /\ mod.blocks[b].params[q[2]] = v}}

Denotes(mod) ==
  Meaning(mod,
          LAMBDA v : truncate_to_type(InitialReg(mod.values[v].name - RegName(0)), TypeOf(mod, v)),
          LAMBDA v : Passed(mod, v))

(* The irops on numbers, as VEX describes them.                            *)
Signed(x, bits) == IF x >= 2^(bits - 1) THEN x - 2^bits ELSE x
VexBinop(irop, x, y) ==
  LET n == Used(irop.bits)
      pow == 2^n
  IN  IF irop.name \in {"Shl", "Shr", "Sar"} /\ y >= n THEN Undefined
      ELSE CASE irop.name = "Add" -> (x + y) % pow
             [] irop.name = "Sub" -> (x - y) % pow
             [] irop.name = "Mul" -> (x * y) % pow
             [] irop.name = "And" -> BitAnd(x, y)
             [] irop.name = "Or" -> BitOr(x, y)
             [] irop.name = "Xor" -> BitXor(x, y)
             [] irop.name = "Shl" -> (x * 2^y) % pow
             [] irop.name = "Shr" -> x \div 2^y
             [] irop.name = "Sar" -> (Signed(x, n) \div 2^y) % pow
             [] irop.name = "CmpEQ" -> bool_u64(x = y)
             [] irop.name = "CmpNE" -> bool_u64(x # y)
             [] irop.name = "CmpLTU" -> bool_u64(x < y)
             [] irop.name = "CmpLTS" -> bool_u64(Signed(x, n) < Signed(y, n))
             [] irop.name = "CmpLEU" -> bool_u64(x <= y)
             [] irop.name = "CmpLES" -> bool_u64(Signed(x, n) <= Signed(y, n))
VexUnop(irop, x) ==
  CASE irop.name = "Uto" -> x
    [] irop.name = "Sto" -> Signed(x, irop.bits) % 2^irop.to
    [] irop.name = "to" -> x % 2^irop.to

-----------------------------------------------------------------------------
(* The statements.                                                         *)

Returns(r) == m' = r.m /\ a' = r.a /\ status' = r.status
Sets(tmp, x) == ref' = IF status' = "OK" THEN [ref EXCEPT !.tmps = Update(@, tmp, x)] ELSE ref
Flaw(kind, p) == flaws' = IF p THEN flaws \cup {kind} ELSE flaws
Open == a.current # INVALID /\ Len(m.values) < session.maxValues
Going == Open /\ ~finished
Known == DOMAIN a.tmps

AdapterCreate ==
  /\ a.current = INVALID
  /\ \E entry \in {1, 3}, given \in session.memoryGiven, memory \in {1, 2} :
       Returns(xair_vex_adapter_create(m, entry, IF given THEN memory ELSE INVALID))
  /\ UNCHANGED <<ref, flaws, finished>>

(* xair_vex_current_memory read at the entry, given back later, or a first *)
(* memory.                                                                 *)
SetMemory ==
  /\ Going
  /\ \E v \in 1 .. Len(m.values) :
       /\ m.values[v].block = a.current
       /\ Returns(xair_vex_set_memory(m, a, v))
       /\ ref' = IF status' = "OK" THEN [ref EXCEPT !.mem = Denotes(m)[v]] ELSE ref
  /\ UNCHANGED <<flaws, finished>>

IsContinuation(b) ==
  \E p \in 1 .. Len(m.blocks) :
    m.blocks[p].term.kind = "CBRANCH" /\ m.blocks[p].term.false_target = b

GetReg ==
  /\ Open
  /\ \E r \in Regs, type \in session.regTypes, fault \in {"none", "values", "sparse"} \cap Faulty :
       /\ Returns(xair_vex_get_reg(m, a, r, type, RegName(r), fault))
       /\ Flaw("late", Len(m'.values) > Len(m.values) /\ IsContinuation(a.current))
  /\ UNCHANGED <<ref, finished>>

(* t = GET(r), once the register is cached.                                *)
SetTmp ==
  /\ Going
  /\ \E t \in Tmps, r \in Regs, fault \in {"none", "tmps"} \cap Faulty :
       \E v \in xair_vex_peek_reg(a, r) :
         /\ Returns(xair_vex_set_tmp(m, a, t, v, fault))
         /\ Sets(t, Kept(ref.regs[r], TypeOf(m, v)))
  /\ UNCHANGED <<flaws, finished>>

(* PUT(r) = t.                                                             *)
PutReg ==
  /\ Going
  /\ \E t \in Known, r \in Regs, fault \in {"none", "sparse"} \cap Faulty :
       \E v \in xair_vex_get_tmp(a, t) :
         /\ Returns(xair_vex_put_reg(m, a, r, v, fault))
         /\ ref' = IF status' = "OK" THEN [ref EXCEPT !.regs[r] = ref.tmps[t]] ELSE ref
  /\ UNCHANGED <<flaws, finished>>

OpFaults == {"none", "vn", "values", "ops", "block_ops", "tmps"} \cap Faulty

EmitConst ==
  /\ Open
  /\ \E t \in Tmps, type \in session.constTypes, imm \in session.imms, fault \in OpFaults :
       /\ Returns(xair_vex_emit_const(m, a, t, type, imm, 0, fault))
       /\ Sets(t, truncate_to_type(imm, type))
  /\ UNCHANGED <<flaws, finished>>

EmitUnop ==
  /\ Open
  /\ \E t \in Tmps, irop \in session.unops, s \in Known, fault \in OpFaults :
       /\ Returns(xair_vex_emit_unop(m, a, t, irop, a.tmps[s], 0, fault))
       /\ Sets(t, IF ref.tmps[s] = Undefined THEN Undefined ELSE VexUnop(irop, ref.tmps[s]))
  /\ UNCHANGED <<flaws, finished>>

EmitBinop ==
  /\ Open
  /\ \E t \in Tmps, irop \in session.binops, x \in Known, y \in Known, fault \in OpFaults :
       LET l == TypeOf(m, a.tmps[x])
           r == TypeOf(m, a.tmps[y])
       IN  /\ Returns(xair_vex_emit_binop(m, a, t, irop, a.tmps[x], a.tmps[y], 0, fault))
           /\ Sets(t, IF Undefined \in {ref.tmps[x], ref.tmps[y]} \/ irop.name = "?"
                      THEN Undefined ELSE VexBinop(irop, ref.tmps[x], ref.tmps[y]))
           /\ Flaw("kind", /\ Len(m'.ops) > Len(m.ops)
                           /\ irop.name \notin {"CmpEQ", "CmpNE", "CmpLTU", "CmpLEU"}
                           /\ ~is_int(l) \/ ~is_int(r))
  /\ UNCHANGED finished

EmitLoad ==
  /\ Open
  /\ \E t \in Tmps, s \in Known, fault \in OpFaults :
       /\ Returns(xair_vex_emit_load(m, a, t, i8, a.tmps[s], "LE", 0, fault))
       /\ Sets(t, IF ref.tmps[s] = Undefined THEN Undefined ELSE LoadBytes(ref.mem, ref.tmps[s], 1))
       /\ Flaw("kind", Len(m'.ops) > Len(m.ops) /\ ~is_addr(TypeOf(m, a.tmps[s])))
  /\ UNCHANGED finished

EmitStore ==
  /\ Open
  /\ \E s \in Known, d \in Known, fault \in OpFaults \ {"tmps"} :
       /\ TypeOf(m, a.tmps[d]) = i8
       /\ Returns(xair_vex_emit_store(m, a, a.tmps[s], a.tmps[d], "LE", 0, fault))
       /\ ref' = IF status' = "OK" /\ Undefined \notin {ref.tmps[s], ref.tmps[d]}
                 THEN [ref EXCEPT !.mem = StoreBytes(@, ref.tmps[s], ref.tmps[d], 1)] ELSE ref
       /\ Flaw("kind", Len(m'.ops) > Len(m.ops) /\ ~is_addr(TypeOf(m, a.tmps[s])))
  /\ UNCHANGED finished

Fits(target, args) ==
  /\ valid_block(m, target)
  /\ Len(args) = Len(m.blocks[target].params)
  /\ \A i \in 1 .. Len(args) : TypeOf(m, args[i]) = TypeOf(m, m.blocks[target].params[i])

(* A continuation that a failed exit left behind.                          *)
Orphan(b) == b > 2 /\ b # a.current /\ m.blocks[b].term.kind = "NONE"

ArgLists == {<<>>} \cup {<<a.tmps[t]>> : t \in Known}

EmitExit ==
  /\ Open /\ Len(m.blocks) < session.maxBlocks
  /\ \E c \in Known, target \in session.targets, args \in ArgLists, fault \in ExitFaults(a) :
       /\ fault.what \in Faulty
       /\ fault.what # "none" => /\ ~finished
                                 /\ Cardinality({b \in 1 .. Len(m.blocks) : Orphan(b)})
                                      < session.maxOrphans
       /\ (Fits(target, args) /\ is_i1(TypeOf(m, a.tmps[c]))) \/ "kind" \in Faulty
       /\ Returns(xair_vex_emit_exit(m, a, a.tmps[c], target, args, fault))
       /\ flaws' = flaws
            \cup (IF status' # "OK" /\ Len(m'.blocks) > Len(m.blocks) THEN {"abandoned"} ELSE {})
            \cup (IF status' = "OK" /\ ~(Fits(target, args) /\ is_i1(TypeOf(m, a.tmps[c])))
                  THEN {"kind"} ELSE {})
  /\ UNCHANGED <<ref, finished>>

Finish ==
  /\ Open
  /\ \E args \in ArgLists, fault \in {"none", "args"} \cap Faulty :
       \/ \E target \in session.targets :
            /\ Fits(target, args) \/ "kind" \in Faulty
            /\ Returns(xair_vex_finish_jump(m, a, target, args, fault))
            /\ Flaw("kind", status' = "OK" /\ ~Fits(target, args))
       \/ /\ Returns(xair_vex_finish_return(m, a, args, fault))
          /\ flaws' = flaws
  /\ finished' = (finished \/ status' = "OK")
  /\ UNCHANGED ref

Statement ==
  \/ AdapterCreate \/ SetMemory \/ GetReg \/ SetTmp \/ PutReg
  \/ EmitConst \/ EmitUnop \/ EmitBinop \/ EmitLoad \/ EmitStore
  \/ EmitExit \/ Finish

Next == Statement /\ UNCHANGED session

Spec == Init /\ [][Next]_vars

-----------------------------------------------------------------------------
(* Properties.                                                             *)

Cached(ad) ==
  {ad.tmps[t] : t \in DOMAIN ad.tmps} \cup {ad.regs[r] : r \in DOMAIN ad.regs}
    \cup {ad.sparse_regs[i].value : i \in 1 .. Len(ad.sparse_regs)}
    \cup (IF ad.memory = INVALID THEN {} ELSE {ad.memory})

(* An exit carries the machine state: after any statements, exits and      *)
(* failures, every temporary, register and the memory denote, in the IR,   *)
(* what the statements gave them.                                          *)
CarriesState ==
  a.current # INVALID =>
    LET d == Denotes(m)
    IN  /\ DOMAIN a.tmps = DOMAIN ref.tmps
        /\ \A t \in DOMAIN a.tmps : d[a.tmps[t]] = ref.tmps[t]
        /\ \A r \in Regs : \A v \in xair_vex_peek_reg(a, r) :
             d[v] = Kept(ref.regs[r], TypeOf(m, v))
        /\ a.memory # INVALID => d[a.memory] = ref.mem

(* The adapter is always in one place: the block it builds in is open      *)
(* until the translation is finished, also after an exit that failed (the  *)
(* client may go on or retry), and whatever it remembers belongs to that   *)
(* block or is a constant, so it never hands out a value of a block it has *)
(* left.                                                                   *)
CachedHere ==
  a.current # INVALID =>
    /\ (m.blocks[a.current].term.kind = "NONE") = ~finished
    /\ \A v \in Cached(a) :
         valid_value(m, v) /\ (m.values[v].block = a.current \/ value_is_global_const(m, v))

(* When a finished translation verifies.  The adapter checks neither the   *)
(* kinds of operands nor whether its branches still fit: a register read   *)
(* for the first time after an exit adds a parameter to a continuation     *)
(* whose arguments are fixed, and a failed exit leaves a block that nobody *)
(* terminates.  These are the only ways to an invalid module.              *)
VerifiesUnlessFlawed == finished => (xair_verify_module(m) <=> flaws = {})

(* A call that fails leaves everything the adapter remembers in place; it  *)
(* may leave a new block, or a parameter or an operation at the end of the *)
(* current one, and never touches another block.                           *)
FailureKeepsState ==
  [][status' # "OK" /\ a.current # INVALID =>
       /\ a' = a
       /\ \A b \in 1 .. Len(m.blocks) :
            \/ m'.blocks[b] = m.blocks[b]
            \/ /\ b = a.current /\ m'.blocks[b].term = m.blocks[b].term
               /\ IsPrefix(m.blocks[b].params, m'.blocks[b].params)
               /\ IsPrefix(m.blocks[b].ops, m'.blocks[b].ops)]_vars
=============================================================================
