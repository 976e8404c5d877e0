---------------------------- MODULE XairPipeline ----------------------------
(***************************************************************************)
(* Canonicalization judged by execution.  A verified module is run, then   *)
(* canonicalized (possibly failing half way), then run again on the same   *)
(* arguments with a new state; or a client keeps one state and builds,     *)
(* canonicalizes and freezes under it (XairLive).  The executor's steps    *)
(* are those of XairExec.                                                  *)
(***************************************************************************)
EXTENDS XairLive

CONSTANT LiveModules   \* the programs whose client keeps one state

(* Values, operations and blocks name each other.                          *)
Linked(mod) ==
  /\ \A v \in 1 .. Len(mod.values) :
       LET o == mod.values[v].op
           block == mod.blocks[mod.values[v].block]
       IN  /\ valid_block(mod, mod.values[v].block)
           /\ IF o = INVALID THEN v \in ElemsOf(block.params)
              ELSE valid_op(mod, o) /\ mod.ops[o].dst = v /\ o \in ElemsOf(block.ops)
  /\ \A o \in 1 .. Len(mod.ops) : mod.values[mod.ops[o].dst].op = o

(* Modules come from the building functions, which link every value to the *)
(* block that lists it (XairBuilder: WellLinked, ListsExact) and empty the *)
(* value-number table when they freeze (NumberingExact).                   *)
ASSUME LinkedAssumption ==
  \A mod \in Programs : Linked(mod) /\ (mod.frozen => mod.vn = {})

VARIABLES
  stage,      \* "live", "refused", or "built", "first", "canonicalized", "second"
  original,   \* the module before canonicalization
  given,      \* the arguments of both runs, by position
  outcome,    \* what the first run returned
  canon       \* the status of xair_canonicalize_module

history == <<original, given, outcome, canon>>
pvars == <<liveVars, stage, history>>

Entry == 1

PInit ==
  /\ LiveInit
  /\ stage = CASE m \in LiveModules -> "live"
               [] xair_verify_module(m) -> "built"
               [] OTHER -> "refused"
  /\ original = m /\ given = <<>> /\ outcome = NoResult /\ canon = "OK"

(* A new state for module mod, its entry parameters set, and the call.     *)
StartRun(mod, args, n) ==
  LET params == mod.blocks[Entry].params
  IN  /\ created' = TRUE /\ running' = TRUE /\ entering' = TRUE
      /\ current' = Entry /\ idx' = 0 /\ steps' = 0 /\ limit' = n /\ runs' = runs + 1
      /\ defined' = ElemsOf(params)
      /\ val' = [v \in ElemsOf(params) |->
                   args[CHOOSE i \in 1 .. Len(params) : params[i] = v]]
      /\ mem' = [k \in {} |-> 0] /\ gen' = 0
      /\ why' = "ok" /\ result' = NoResult
      /\ assigned' = {} /\ fresh' = ElemsOf(params) /\ carried' = {}
      /\ stale' = FALSE /\ ready' = TRUE
      /\ made' = mod /\ canonicalized' = FALSE /\ rogue' = FALSE

FirstRun ==
  /\ stage = "built"
  /\ \E n \in Limits :
       \E args \in [1 .. Len(m.blocks[Entry].params) -> Inputs] :
         /\ \A i \in DOMAIN args : args[i].type = TypeOf(m, m.blocks[Entry].params[i])
         /\ given' = args
         /\ StartRun(m, args, n)
  /\ stage' = "first"
  /\ UNCHANGED <<m, original, outcome, canon>>

CanonicalizeBetween ==
  /\ stage = "first" /\ ~running
  /\ \E fault \in CanonFaults :
       LET r == xair_canonicalize_module(m, fault)
       IN  m' = r.m /\ canon' = r.status
  /\ stage' = "canonicalized" /\ canonicalized' = TRUE
  /\ outcome' = [result EXCEPT !.kind = IF why = "ok" THEN @ ELSE "NONE"]
  /\ UNCHANGED <<execVars, made, rogue, original, given>>

SecondRun ==
  /\ stage = "canonicalized"
  /\ StartRun(m, given, limit)
  /\ stage' = "second"
  /\ UNCHANGED <<m, original, given, outcome, canon>>

Interpret == stage # "live" /\ LiveStep /\ UNCHANGED <<stage, history>>

KeepOneState == stage = "live" /\ LiveNext /\ UNCHANGED <<stage, history>>

PNext == FirstRun \/ CanonicalizeBetween \/ SecondRun \/ Interpret \/ KeepOneState

PSpec == PInit /\ [][PNext]_pvars

-----------------------------------------------------------------------------
(* Memory tokens are threaded when every use names the latest one of its   *)
(* block, as the lifter and the VEX adapter do.  The executor keeps one    *)
(* memory whatever token an access names, so only then do tokens describe  *)
(* what it does.                                                           *)

LatestToken(mod, b, i) ==
  LET stores == {j \in 1 .. (i - 1) : mod.ops[mod.blocks[b].ops[j]].opcode = "STORE"}
      tokens == {v \in ElemsOf(mod.blocks[b].params) : is_mem(TypeOf(mod, v))}
  IN  IF stores = {} THEN tokens
      ELSE {mod.ops[mod.blocks[b].ops[CHOOSE j \in stores : \A k \in stores : k <= j]].dst}

Threaded(mod) ==
  \A b \in 1 .. Len(mod.blocks) :
    LET ops == mod.blocks[b].ops
        last == LatestToken(mod, b, Len(ops) + 1)
    IN  /\ Cardinality(LatestToken(mod, b, 1)) <= 1
        /\ \A i \in 1 .. Len(ops) : \A v \in ElemsOf(mod.ops[ops[i]].src) :
             is_mem(TypeOf(mod, v)) => v \in LatestToken(mod, b, i)
        /\ \A v \in ElemsOf(TrueArgs(mod, b)) \cup ElemsOf(FalseArgs(mod, b)) :
             is_mem(TypeOf(mod, v)) => v \in last

(* A returned memory token is compared by type only: its value counts the  *)
(* stores executed, and dead stores are not.                               *)
Observable(x) == IF is_mem(x.type) THEN [x EXCEPT !.lo = 0] ELSE x
SameReturns(r, s) ==
  Len(r) = Len(s) /\ \A i \in 1 .. Len(r) : Observable(r[i]) = Observable(s[i])

Completed == {"RETURN", "TRAP", "FAULT", "STEP_LIMIT"}

(* Both runs ended, neither for lack of memory.                            *)
Comparable ==
  /\ stage = "second" /\ ~running /\ why # "oom"
  /\ Threaded(original) /\ outcome.kind \in Completed

(* Canonicalization preserves what a program returns, and where it traps,  *)
(* faults or runs out of steps, for every program with threaded memory:    *)
(* folding, reordering, dead-code removal and renumbering of values,       *)
(* operations, parameters and pooled arguments, complete or cut short by a *)
(* failed allocation.                                                      *)
CanonicalizePreserves ==
  Comparable =>
    /\ why = "ok" /\ result.kind = outcome.kind
    /\ result.block = outcome.block /\ result.code = outcome.code
    /\ SameReturns(result.returns, outcome.returns)

(* A verified module never fails the second verification, after which the  *)
(* code would leave it rewritten and rejected; values, operations and      *)
(* blocks name each other again, and the value-number table holds none of  *)
(* the old identifiers.  A failed allocation leaves it verified too.       *)
CanonicalizeVerifies ==
  stage = "canonicalized" =>
    /\ canon # "VERIFY" /\ xair_verify_module(m) /\ Linked(m)
    /\ m.vn = {} \/ canon = "OOM"

DistinctNames(mod) ==
  \A v, w \in 1 .. Len(mod.values) : mod.values[v].name = mod.values[w].name => v = w

(* Canonicalization is idempotent: a second pass finds nothing to fold, to *)
(* reorder, to remove or to renumber.  Operand order falls back on the     *)
(* identifier when two names are equal, and renumbering changes            *)
(* identifiers, hence the condition on names.                              *)
Idempotent ==
  stage = "canonicalized" /\ canon = "OK" /\ DistinctNames(original) =>
    xair_canonicalize_module(m, "none") = Ret(m, "OK", INVALID)

-----------------------------------------------------------------------------
(* What the operations mean on integers, as opposed to what either copy of *)
(* the arithmetic computes.                                                *)

Signed(x, bits) == IF x >= 2^(bits - 1) THEN x - 2^bits ELSE x
InSignedRange(z, bits) == -(2^(bits - 1)) <= z /\ z < 2^(bits - 1)
OnesIn(x) == Cardinality({i \in 0 .. 7 : Bit(x, i) = 1})

(* Flags are what x86 defines them to be: carry is unsigned overflow, or   *)
(* the last bit shifted out; overflow is signed overflow; parity counts the*)
(* ones of the low byte; adjust is the carry out of bit 3.                 *)
FlagMeaning(flag, summary, bits, lhs, rhs) ==
  LET exact == CASE summary = "FLAGS_ADD" -> lhs + rhs
                 [] summary = "FLAGS_SUB" -> lhs - rhs
                 [] summary = "FLAGS_SHL" -> lhs * 2^rhs
                 [] OTHER -> lhs
      signed == CASE summary = "FLAGS_ADD" -> Signed(lhs, bits) + Signed(rhs, bits)
                  [] summary = "FLAGS_SUB" -> Signed(lhs, bits) - Signed(rhs, bits)
                  [] summary = "FLAGS_SHL" -> Signed(lhs, bits) * 2^rhs
                  [] OTHER -> Signed(lhs, bits)
      nibble == CASE summary = "FLAGS_ADD" -> (lhs % 16) + (rhs % 16)
                  [] summary = "FLAGS_SUB" -> (lhs % 16) - (rhs % 16)
                  [] OTHER -> 0
  IN  CASE flag = "FLAG_ZF" -> exact % 2^bits = 0
        [] flag = "FLAG_CF" -> IF summary = "FLAGS_SHL" THEN Bit(exact, bits) = 1
                               ELSE exact \notin 0 .. 2^bits - 1
        [] flag = "FLAG_OF" -> ~InSignedRange(signed, bits)
        [] flag = "FLAG_SF" -> Signed(exact % 2^bits, bits) < 0
        [] flag = "FLAG_PF" -> OnesIn(exact % 2^bits) % 2 = 0
        [] flag = "FLAG_AF" -> nibble \notin 0 .. 15

(* x86 leaves the adjust flag of a shift undefined, and the overflow flag  *)
(* of a shift by more than one.  The adjust flag needs five bits: a        *)
(* narrower operand has no bit 4.                                          *)
UndefinedFlag(flag, summary, bits, rhs) ==
  \/ flag = "FLAG_AF" /\ (summary = "FLAGS_SHL" \/ bits <= 4)
  \/ flag = "FLAG_OF" /\ summary = "FLAGS_SHL" /\ rhs # 1

(* The number whose bits, among the lowest, are those for which On holds.  *)
BitsWhere(bits, On(_)) == MapThenSumSet(LAMBDA i : 2^i, {i \in 0 .. bits - 1 : On(i)})

(* Two's-complement arithmetic at every width; addresses are integers.     *)
IntegerMeaning(opcode, bits, rbits, out, lhs, rhs) ==
  CASE opcode \in {"ADD", "ADDR_ADD"} -> (lhs + rhs) % 2^bits
    [] opcode \in {"SUB", "ADDR_SUB"} -> (lhs - rhs) % 2^bits
    [] opcode = "MUL" -> (lhs * rhs) % 2^bits
    [] opcode = "AND" -> BitsWhere(bits, LAMBDA i : Bit(lhs, i) = 1 /\ Bit(rhs, i) = 1)
    [] opcode = "OR" -> BitsWhere(bits, LAMBDA i : Bit(lhs, i) = 1 \/ Bit(rhs, i) = 1)
    [] opcode = "XOR" -> BitsWhere(bits, LAMBDA i : Bit(lhs, i) # Bit(rhs, i))
    [] opcode = "SHL" -> (lhs * 2^rhs) % 2^bits
    [] opcode = "LSHR" -> lhs \div 2^rhs
    [] opcode = "ASHR" -> (Signed(lhs, bits) \div 2^rhs) % 2^bits
    [] opcode = "EQ" -> bool_u64(lhs = rhs)
    [] opcode = "NE" -> bool_u64(lhs # rhs)
    [] opcode = "ULT" -> bool_u64(lhs < rhs)
    [] opcode = "ULE" -> bool_u64(lhs <= rhs)
    [] opcode = "SLT" -> bool_u64(Signed(lhs, bits) < Signed(rhs, bits))
    [] opcode = "SLE" -> bool_u64(Signed(lhs, bits) <= Signed(rhs, bits))
    [] opcode = "CONCAT" -> lhs * 2^rbits + rhs
    [] opcode \in {"ZEXT", "INT_TO_ADDR", "ADDR_TO_INT"} -> lhs
    [] opcode = "SEXT" -> Signed(lhs, bits) % 2^out
    [] opcode = "TRUNC" -> lhs % 2^out

IntegerOps == (UnaryOps \cup BinaryOps) \ (FlagReads \cup FlagPairs \cup {"FLAGS_LOGIC"})

MeansWhatItSays(op) ==
  LET producer == m.ops[m.values[op.src[1]].op]
      from == IF op.opcode \in FlagReads THEN producer ELSE op
      bits(v) == Used(TypeOf(m, v).bits)
      binary == Len(from.src) = 2
      rhs == IF binary THEN exec_read_value(from.src[2]).lo ELSE 0
      lhs == exec_read_value(from.src[1]).lo
      computed == exec_read_value(op.dst).lo
  IN  IF op.opcode \in FlagReads
      THEN \/ UndefinedFlag(op.opcode, from.opcode, bits(from.src[1]), rhs)
           \/ computed
                = bool_u64(FlagMeaning(op.opcode, from.opcode, bits(from.src[1]), lhs, rhs))
      ELSE op.opcode \in IntegerOps =>
             computed = IntegerMeaning(op.opcode, bits(op.src[1]),
                                       IF binary THEN bits(op.src[2]) ELSE 0,
                                       bits(op.dst), lhs, rhs)

(* What a run has computed in the block it is in is what the operations    *)
(* mean: two's-complement results of every integer and address operation,  *)
(* at the width of the word and below it, and every flag that x86 defines, *)
(* whichever way the executor packs and reads it.                          *)
ComputesMeaning ==
  running => \A v \in fresh :
    m.values[v].op # INVALID /\ m.ops[m.values[v].op].src # <<>> =>
      MeansWhatItSays(m.ops[m.values[v].op])

(* An operation whose operands, or whose summary's operands, are constants.*)
OnConstants(op) ==
  /\ op.src # <<>>
  /\ LET producer == m.ops[m.values[op.src[1]].op]
         srcs == IF op.opcode \in FlagReads THEN producer.src ELSE op.src
     IN  /\ m.values[op.src[1]].op # INVALID
         /\ \A v \in ElemsOf(srcs) : value_is_global_const(m, v)

Executes(op) ==
  LET type(v) == TypeOf(m, v)
      imm(v) == exec_value_make(type(v), m.ops[m.values[v].op].imm).lo
      unary(o, x) == exec_unary_op(o.opcode, type(o.dst), type(o.src[1]), x)
      binary(o) == exec_binary_op(o.opcode, type(o.dst), type(o.src[1]), type(o.src[2]),
                                  imm(o.src[1]), imm(o.src[2]))
      value(o) == IF Len(o.src) = 1 THEN unary(o, imm(o.src[1])) ELSE binary(o)
  IN  IF op.opcode \in FlagReads
      THEN UNION {unary(op, x) : x \in value(m.ops[m.values[op.src[1]].op])}
      ELSE value(op)

(* After canonicalization no operation on constants with an integer or an  *)
(* address result is left that the executor could compute: the folder      *)
(* declines only what the executor does not support either, with one       *)
(* exception, the overflow flag of a shift by more than one, which the     *)
(* executor fixes at 0.                                                    *)
NothingLeftToFold ==
  stage = "canonicalized" /\ canon = "OK" =>
    \A o \in 1 .. Len(m.ops) :
      LET op == m.ops[o]
      IN  (is_int(TypeOf(m, op.dst)) \/ is_addr(TypeOf(m, op.dst))) /\ OnConstants(op) =>
            \/ Executes(op) = {}
            \/ op.opcode = "FLAG_OF" /\ Executes(op) = {0}
=============================================================================
