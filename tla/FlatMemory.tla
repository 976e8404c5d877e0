----------------------------- MODULE FlatMemory -----------------------------
(***************************************************************************)
(* What the executor's memory promises: bytes addressed by <<space,        *)
(* address>>, undefined until stored.  A store writes its bytes in address *)
(* order, all of them or, out of memory, a prefix.                         *)
(***************************************************************************)
EXTENDS Naturals, Sequences

CONSTANTS Accesses,     \* [space, address, data] a client stores or reads back
          LastAddress   \* the last address, UINT64_MAX

VARIABLES mem, out

Init ==
  /\ mem = [k \in {} |-> 0]
  /\ out = [call |-> "none", of |-> <<>>, status |-> "OK", data |-> <<>>]

Wraps(a) == a.data # <<>> /\ a.address + Len(a.data) - 1 > LastAddress
Cells(a, n) == {<<a.space, a.address + i>> : i \in 0 .. (n - 1)}
Written(a, n) == [k \in DOMAIN mem \cup Cells(a, n) |->
                    IF k \in Cells(a, n) THEN a.data[k[2] - a.address + 1] ELSE mem[k]]

Returned(call, a, status, data) ==
  out' = [call |-> call, of |-> a, status |-> status, data |-> data]

Store(a) == ~Wraps(a) /\ mem' = Written(a, Len(a.data)) /\ Returned("store", a, "OK", <<>>)
StoreFails(a) ==
  /\ ~Wraps(a)
  /\ \E n \in 0 .. (Len(a.data) - 1) : mem' = Written(a, n)
  /\ Returned("store", a, "OOM", <<>>)
Load(a) ==
  /\ ~Wraps(a) /\ Cells(a, Len(a.data)) \subseteq DOMAIN mem
  /\ Returned("load", a, "OK", [i \in 1 .. Len(a.data) |-> mem[<<a.space, a.address + i - 1>>]])
  /\ UNCHANGED mem
LoadUndefined(a) ==
  /\ ~Wraps(a) /\ ~(Cells(a, Len(a.data)) \subseteq DOMAIN mem)
  /\ Returned("load", a, "RANGE", <<>>) /\ UNCHANGED mem
Refuse(a) ==
  /\ Wraps(a) /\ \E call \in {"store", "load"} : Returned(call, a, "BAD_ARG", <<>>)
  /\ UNCHANGED mem

Next == \E a \in Accesses :
          Store(a) \/ StoreFails(a) \/ Load(a) \/ LoadUndefined(a) \/ Refuse(a)
Spec == Init /\ [][Next]_<<mem, out>>
=============================================================================
