------------------------------ MODULE XairLive ------------------------------
(***************************************************************************)
(* The executor on a module that is not frozen: an execution state is made *)
(* for the module, verified at that moment, and the client goes on         *)
(* building in it, canonicalizes or freezes it between runs.  The state    *)
(* recognizes a changed module only by its number of values.               *)
(*                                                                         *)
(* made is the module at the time the state was made; canonicalized and    *)
(* rogue record whether canonicalizing has changed the module since, and   *)
(* whether a run entered a block that was added since.                     *)
(***************************************************************************)
EXTENDS XairExec, XairCanonicalize

CONSTANTS
  Imms,        \* constants the client builds
  Arguments,   \* bound: those of Inputs the client of an unfrozen module passes
  MaxBlocks,   \* bound: block_count
  MaxGrowth    \* bound: values beyond those the state was made with

ASSUME LiveAssumption ==
  Imms \subseteq Nat /\ Arguments \subseteq Inputs /\ MaxBlocks \in Nat /\ MaxGrowth \in Nat

VARIABLES made, canonicalized, rogue

liveVars == <<vars, made, canonicalized, rogue>>
execVars == <<created, val, defined, mem, gen, control, why, result,
              assigned, fresh, carried, stale, ready>>

LiveInit == Init /\ made = m /\ canonicalized = FALSE /\ rogue = FALSE

-----------------------------------------------------------------------------
(* The executor's interface, with what depends on the state's own count.   *)

(* Mutant: the slot is looked up in the module.                            *)
SlotOfModule(v) == v \in 1 .. Len(m.values)

exec_check_value_slot(v) == v \in 1 .. Len(made.values) /\ v \in 1 .. Len(m.values)

LiveCreate ==
  /\ StateCreate
  /\ made' = m
  /\ UNCHANGED <<canonicalized, rogue>>

LiveSetParam ==
  /\ created /\ ~running /\ runs < MaxRuns
  /\ \E v \in 1 .. Len(m.values), x \in Arguments :
       IF exec_check_value_slot(v) /\ m.values[v].op = INVALID /\ TypeOf(m, v) = x.type
       THEN /\ val' = Define(v, x) /\ defined' = defined \cup {v} /\ why' = "ok"
            /\ assigned' = assigned \cup {v}
       ELSE why' = "bad_call" /\ UNCHANGED <<val, defined, assigned>>
  /\ UNCHANGED <<m, created, mem, gen, control, result, fresh, carried, stale, ready>>
  /\ UNCHANGED <<made, canonicalized, rogue>>

LiveRun ==
  /\ \/ Len(m.values) = Len(made.values) /\ Run
     \/ /\ Len(m.values) # Len(made.values)
        /\ created /\ ~running /\ why' = "bad_call"
        /\ UNCHANGED <<m, created, val, defined, mem, gen, control, result,
                       assigned, fresh, carried, stale, ready>>
  /\ rogue' = (rogue \/ (running' /\ current' > Len(made.blocks)))
  /\ UNCHANGED <<made, canonicalized>>

LiveStep == Step /\ UNCHANGED <<made, canonicalized, rogue>>

-----------------------------------------------------------------------------
(* The client's changes, between runs.                                     *)

Building == created /\ ~running /\ runs < MaxRuns /\ UNCHANGED <<execVars, made, rogue>>

AddBlock ==
  /\ Building /\ Len(m.blocks) < MaxBlocks
  /\ m' = xair_block_create(m, "none").m
  /\ UNCHANGED canonicalized

(* A constant the module has already is not made again.                    *)
AddValue ==
  /\ Building /\ Len(m.values) < Len(made.values) + MaxGrowth
  /\ \E b \in 1 .. Len(m.blocks) :
       \/ \E imm \in Imms : m' = xair_build_const_u64(m, b, xair_type_i(1), imm, 0, "none").m
       \/ m' = xair_block_add_param(m, b, xair_type_i(1), 0, "none").m
  /\ UNCHANGED canonicalized

(* It returns the newest value, of this block or another, or jumps without *)
(* arguments, to itself or to a block that was there before.               *)
EndBlock ==
  /\ Building
  /\ \E b \in 1 .. Len(m.blocks) :
       \/ m' = xair_set_return(m, b, <<Len(m.values)>>, "none").m
       \/ \E t \in {2, b} : m' = xair_set_jump(m, b, t, <<>>, "none").m
  /\ UNCHANGED canonicalized

(* Any other failure leaves the module as one of these does.               *)
Canonicalize ==
  /\ Building
  /\ \E fault \in {"none", "live"} : m' = xair_canonicalize_module(m, fault).m
  /\ canonicalized' = (canonicalized \/ m'.values # m.values \/ m'.ops # m.ops
                         \/ m'.blocks # m.blocks)

Freeze ==
  /\ Building
  /\ m' = xair_module_freeze(m, "none").m
  /\ UNCHANGED canonicalized

LiveNext ==
  \/ LiveCreate \/ LiveSetParam \/ LiveRun \/ LiveStep
  \/ AddBlock \/ AddValue \/ EndBlock \/ Canonicalize \/ Freeze

LiveSpec == LiveInit /\ [][LiveNext]_liveVars

-----------------------------------------------------------------------------
(* Properties.                                                             *)

(* A state can be used while building goes on: without a canonicalization  *)
(* that changed something, what was verified is still there, and a run     *)
(* that enters there stays there, fails no check and reads nothing stale,  *)
(* whatever unverified blocks the client has added and left open.          *)
SafeWhileBuilding ==
  created /\ ~canonicalized =>
    /\ IsPrefix(made.values, m.values) /\ IsPrefix(made.ops, m.ops)
    /\ \A b \in 1 .. Len(made.blocks) : m.blocks[b] = made.blocks[b]
    /\ ~rogue => /\ NeverStale /\ VerifiedNeverFails /\ StoredTypesAgree
                 /\ running => current \in 1 .. Len(made.blocks)

(* Also on a module that was renumbered under it, with the same number of  *)
(* values or a different one, the executor stays within the arrays the     *)
(* state was made with, and within the module's.                           *)
StateInBounds ==
  created =>
    /\ defined \subseteq 1 .. Len(made.values)
    /\ running => /\ valid_block(m, current)
                  /\ \A b \in {current} : \A i \in 1 .. Len(m.blocks[b].ops) :
                       m.ops[m.blocks[b].ops[i]].dst \in 1 .. Len(made.values)
=============================================================================
