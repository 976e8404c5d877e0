--------------------------- MODULE ValueNumberSet ---------------------------
(***************************************************************************)
(* What value numbering promises: the set of expressions built since the   *)
(* last clear.  An expression in the set is reused, one outside it is      *)
(* created or the call fails and the set is unchanged.                     *)
(***************************************************************************)
CONSTANTS Keys, NoKey
VARIABLES numbered, hit

Init == numbered = {} /\ hit = <<"cleared", NoKey>>

Reuse(k) == k \in numbered /\ hit' = <<"reused", k>> /\ UNCHANGED numbered
Create(k) == k \notin numbered /\ hit' = <<"created", k>> /\ numbered' = numbered \cup {k}
Fail(k) == k \notin numbered /\ hit' = <<"failed", k>> /\ UNCHANGED numbered
Clear == numbered' = {} /\ hit' = <<"cleared", NoKey>>

Next == (\E k \in Keys : Reuse(k) \/ Create(k) \/ Fail(k)) \/ Clear
Spec == Init /\ [][Next]_<<numbered, hit>>
=============================================================================
