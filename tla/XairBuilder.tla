---------------------------- MODULE XairBuilder ----------------------------
(***************************************************************************)
(* The construction interface of XAIR as a state machine: a client calls   *)
(* the building functions of src/src/xair.c in any order, with any         *)
(* arguments it can form, and any allocation inside a call may fail.       *)
(***************************************************************************)
EXTENDS XairVerify

CONSTANTS
  BlockIds, ValueIds,         \* identifiers a client passes; some are dangling
  Targets,                    \* block identifiers it branches to
  ClientTypes,                \* types it asks for
  UnaryOpcodes, BinaryOpcodes,\* opcodes it passes to xair_build_unary / _binary
  Imms, Names, Codes,         \* constants, names (0 is NULL) and trap codes
  ClientEndians,              \* byte orders of the loads and stores it builds
  MaxBlocks,                  \* bound: block_count
  MaxArgs,                    \* bound: length of a terminator argument list
  MaxPool                     \* bound: term_arg_count

ASSUME ClientAssumption ==
  /\ BlockIds \subseteq Nat /\ ValueIds \subseteq Nat /\ Targets \subseteq Nat
  /\ ClientTypes \subseteq Types
  /\ UnaryOpcodes \subseteq Opcodes /\ BinaryOpcodes \subseteq Opcodes
  /\ Imms \subseteq Nat /\ Names \subseteq Nat /\ Codes \subseteq Nat
  /\ ClientEndians \subseteq Endians
  /\ MaxBlocks \in Nat /\ MaxArgs \in Nat /\ MaxPool \in Nat

VARIABLES
  m,       \* the module under construction
  held,    \* the builder still holds the module (builder->module # NULL)
  status   \* what the last call returned

vars == <<m, held, status>>

ArgLists == UNION {[1 .. n -> ValueIds] : n \in 0 .. MaxArgs}

Init ==
  /\ m = xair_module_create
  /\ held = TRUE
  /\ status = "OK"

(* The call returned r: its module and its status are what remains.        *)
Returns(r) == m' = r.m /\ status' = r.status /\ held' = held

BlockCreate ==
  /\ Len(m.blocks) < MaxBlocks
  /\ \E fault \in {"none", "blocks"} : Returns(xair_block_create(m, fault))

BlockAddParam ==
  \E b \in BlockIds, type \in ClientTypes, name \in Names,
     fault \in {"none", "values", "params"} :
    Returns(xair_block_add_param(m, b, type, name, fault))

OpFaults == {"none", "vn", "values", "ops", "block_ops"}

BuildConst ==
  \E b \in BlockIds, type \in ClientTypes, imm \in Imms, name \in Names, fault \in OpFaults :
    Returns(xair_build_const_u64(m, b, type, imm, name, fault))

BuildUnary ==
  \E b \in BlockIds, opcode \in UnaryOpcodes, type \in ClientTypes, src \in ValueIds,
     name \in Names, fault \in OpFaults :
    Returns(xair_build_unary(m, b, opcode, type, src, name, fault))

BuildBinary ==
  \E b \in BlockIds, opcode \in BinaryOpcodes, type \in ClientTypes,
     lhs \in ValueIds, rhs \in ValueIds, name \in Names, fault \in OpFaults :
    Returns(xair_build_binary(m, b, opcode, type, lhs, rhs, name, fault))

BuildLoad ==
  \E b \in BlockIds, type \in ClientTypes, memory \in ValueIds, address \in ValueIds,
     endian \in ClientEndians, name \in Names, fault \in OpFaults :
    Returns(xair_build_load(m, b, type, memory, address, endian, name, fault))

BuildStore ==
  \E b \in BlockIds, memory \in ValueIds, address \in ValueIds, data \in ValueIds,
     endian \in ClientEndians, name \in Names, fault \in OpFaults :
    Returns(xair_build_store(m, b, memory, address, data, endian, name, fault))

SetJump ==
  \E b \in BlockIds, target \in Targets, args \in ArgLists,
     fault \in {"none", "args", "null_args"} :
    /\ Len(m.term_args) + Len(args) <= MaxPool
    /\ Returns(xair_set_jump(m, b, target, args, fault))

SetCbranch ==
  \E b \in BlockIds, condition \in ValueIds, true_target \in Targets, true_args \in ArgLists,
     false_target \in Targets, false_args \in ArgLists,
     fault \in {"none", "args", "null_args", "false_args", "null_false_args"} :
    /\ Len(m.term_args) + Len(true_args) + Len(false_args) <= MaxPool
    /\ Returns(xair_set_cbranch(m, b, condition, true_target, true_args,
                                false_target, false_args, fault))

SetReturn ==
  \E b \in BlockIds, args \in ArgLists, fault \in {"none", "args", "null_args"} :
    /\ Len(m.term_args) + Len(args) <= MaxPool
    /\ Returns(xair_set_return(m, b, args, fault))

SetTrap == \E b \in BlockIds, code \in Codes : Returns(xair_set_trap(m, b, code))
SetFault == \E b \in BlockIds, code \in Codes : Returns(xair_set_fault(m, b, code))

ModuleFreeze == \E fault \in {"none", "shrink"} : Returns(xair_module_freeze(m, fault))

(* Mutant: the builder lets go of the module even when freezing fails.     *)
ReleaseAlways ==
  \E fault \in {"none", "shrink"} :
    LET r == xair_module_freeze(m, fault)
    IN  /\ m' = IF held THEN r.m ELSE m
        /\ status' = IF held THEN r.status ELSE "BAD_ARG"
        /\ held' = FALSE

(* xair_builder_freeze also hands the module over to the caller.           *)
BuilderFreeze ==
  \E fault \in {"none", "shrink"} :
    LET r == xair_module_freeze(m, fault)
    IN  /\ m' = IF held THEN r.m ELSE m
        /\ status' = IF held THEN r.status ELSE "BAD_ARG"
        /\ held' = (held /\ r.status # "OK")

Next ==
  \/ BlockCreate \/ BlockAddParam
  \/ BuildConst \/ BuildUnary \/ BuildBinary \/ BuildLoad \/ BuildStore
  \/ SetJump \/ SetCbranch \/ SetReturn \/ SetTrap \/ SetFault
  \/ ModuleFreeze \/ BuilderFreeze

Spec == Init /\ [][Next]_vars

-----------------------------------------------------------------------------
(* Properties.                                                             *)

(* Every field of the module keeps its shape.                              *)
TypeOK == m \in Modules /\ held \in BOOLEAN /\ status \in Statuses

(* An operation and its destination name each other, whatever allocation   *)
(* failed on the way: add_op cuts the back link it made when it rolls back.*)
OpsLinked ==
  \A o \in 1 .. Len(m.ops) :
    valid_value(m, m.ops[o].dst) /\ m.values[m.ops[o].dst].op = o

(* Every value lies in a block, has a storable type, and is either a       *)
(* parameter or the destination of the operation it names.                 *)
ValuesLinked ==
  \A v \in 1 .. Len(m.values) :
    /\ valid_block(m, m.values[v].block)
    /\ is_value_type(m.values[v].type)
    /\ m.values[v].op # INVALID => /\ valid_op(m, m.values[v].op)
                                   /\ m.ops[m.values[v].op].dst = v

(* SSA by construction: operands exist before the operation that uses      *)
(* them, and later operations have later destinations.                     *)
DefinedBeforeUse ==
  \A o \in 1 .. Len(m.ops) :
    /\ \A v \in ElemsOf(m.ops[o].src) : v \in 1 .. (m.ops[o].dst - 1)
    /\ \A p \in 1 .. Len(m.ops) : p < o => m.ops[p].dst < m.ops[o].dst

(* Values and operations are linked, in whatever order calls came and      *)
(* whichever allocation failed: each names the other, lies in a block, and *)
(* comes after what it uses.                                               *)
WellLinked == OpsLinked /\ ValuesLinked /\ DefinedBeforeUse

(* A block lists its own parameters and operations, in creation order.     *)
ListsOwned == \A b \in 1 .. Len(m.blocks) : OwnsLists(m, b)

IsListed(mod, v) ==
  IF mod.values[v].op = INVALID THEN v \in ElemsOf(mod.blocks[mod.values[v].block].params)
  ELSE mod.values[v].op \in ElemsOf(mod.blocks[mod.values[v].block].ops)

(* Nothing is lost: a failed append never leaves a value or an operation   *)
(* that no block lists.                                                    *)
ListsComplete == \A v \in 1 .. Len(m.values) : IsListed(m, v)

(* The numbering table holds exactly the results of the operations until   *)
(* the freeze empties it.                                                  *)
NumberingExact == m.vn = IF m.frozen THEN {} ELSE {m.ops[o].dst : o \in 1 .. Len(m.ops)}

SameExpression(o, p) ==
  /\ m.ops[o].opcode = m.ops[p].opcode
  /\ m.ops[o].src = m.ops[p].src
  /\ m.ops[o].imm = m.ops[p].imm
  /\ m.ops[o].endian = m.ops[p].endian
  /\ m.values[m.ops[o].dst].type = m.values[m.ops[p].dst].type
  /\ \/ value_number_is_global(m.ops[o].opcode)
     \/ m.values[m.ops[o].dst].block = m.values[m.ops[p].dst].block

(* Structural value numbering: no block builds the same expression twice   *)
(* and no two constants of the module are equal (README: "Constants are    *)
(* pooled globally across blocks.  Non-constant expressions remain         *)
(* block-local").                                                          *)
NoDuplicateExpression ==
  \A o, p \in 1 .. Len(m.ops) : SameExpression(o, p) => o = p

(* Value numbering neither forgets nor invents: the table is exact, and no *)
(* expression exists twice, also after operations were rolled back.        *)
PooledExactly == NumberingExact /\ NoDuplicateExpression

TrueRange(b) == (m.blocks[b].term.true_arg_offset + 1)
                  .. (m.blocks[b].term.true_arg_offset + m.blocks[b].term.true_arg_count)
FalseRange(b) == (m.blocks[b].term.false_arg_offset + 1)
                  .. (m.blocks[b].term.false_arg_offset + m.blocks[b].term.false_arg_count)

(* Terminators own disjoint stretches of the argument pool, also after a   *)
(* conditional branch failed between its two argument lists.  The          *)
(* compaction pass remaps each stretch in place, so a shared one would be  *)
(* remapped twice.                                                         *)
TermArgsDisjoint ==
  \A b \in 1 .. Len(m.blocks) :
    /\ TrueRange(b) \cup FalseRange(b) \subseteq 1 .. Len(m.term_args)
    /\ TrueRange(b) \cap FalseRange(b) = {}
    /\ \A c \in 1 .. Len(m.blocks) : b # c =>
         (TrueRange(b) \cup FalseRange(b)) \cap (TrueRange(c) \cup FalseRange(c)) = {}

(* The verifier scans each block and records what is available so far.     *)
(* For a module that was only built, that scan accepts an operand exactly  *)
(* when it belongs to the same block or is a constant: nothing is ever     *)
(* used before its definition, and the checks "block parameter is          *)
(* invalid", "block operation id is invalid" and "operation destination is *)
(* inconsistent" cannot fire.                                              *)
ScanIsLocality ==
  \A b \in 1 .. Len(m.blocks) :
    /\ VerifyParams(m, b)
    /\ \A i \in 1 .. Len(m.blocks[b].ops) :
         /\ VerifyDestination(m, b, m.blocks[b].ops[i])
         /\ \A v \in ElemsOf(m.ops[m.blocks[b].ops[i]].src) :
              value_is_available(m, Available(m, b, i), v)
                <=> m.values[v].block = b \/ value_is_global_const(m, v)

(* Blocks list what is theirs: nothing foreign, nothing lost, in the order *)
(* that makes the verifier's scan a test of locality.                      *)
ListsExact == ListsOwned /\ ListsComplete /\ ScanIsLocality

(* The builder gives up the module only when it is frozen, so two owners   *)
(* never build into it.                                                    *)
HandedOverFrozen == ~held => m.frozen

IRPart(mod) == <<mod.values, mod.ops, mod.blocks, mod.frozen>>

(* A call that reports an error leaves no trace in the IR: every partial   *)
(* step of add_op, of a new parameter or of a terminator is undone or      *)
(* invisible (argument lists copied to the pool stay there, unowned).      *)
FailedCallLeavesNoTrace == [][status' # "OK" => IRPart(m') = IRPart(m)]_vars

(* README: "Frozen modules reject mutation".                               *)
FrozenForever == [][m.frozen => m' = m]_vars

(* Two owners never build into one module: it changes hands frozen, and a  *)
(* frozen module never changes.                                            *)
HandedOverForGood == [][(~held' => m'.frozen) /\ (m.frozen => m' = m)]_vars

Prefix(s, t) == Len(s) <= Len(t) /\ SubSeq(t, 1, Len(s)) = s

(* What has been built never changes: no call rewrites or removes an       *)
(* existing value, operation, pool entry or terminator, and a block that   *)
(* has its terminator takes no further parameter or operation              *)
(* (canonicalization alone does such things).  A failed conditional branch *)
(* may lengthen the pool, never shorten it under an earlier terminator.    *)
AppendOnly ==
  [][/\ Prefix(m.values, m'.values) /\ Prefix(m.ops, m'.ops)
     /\ Prefix(m.term_args, m'.term_args)
     /\ Len(m.blocks) <= Len(m'.blocks)
     /\ \A b \in 1 .. Len(m.blocks) :
          m.blocks[b].term.kind # "NONE" => m'.blocks[b] = m.blocks[b]]_vars
=============================================================================
