------------------------- MODULE MCXairDecodeClient -------------------------
(* XairDecodeClient on small instances.                                    *)
EXTENDS XairDecodeClient

Repeat(b, n) == [i \in 1 .. n |-> b]

(* No prefix, REX, REX.W, all four bits, two prefixes, and enough of them  *)
(* for the length to reach its limit.                                      *)
Prefixings_Few ==
  {<<>>, <<72>>, <<79>>, <<77, 72>>, Repeat(65, LengthLimit - 2)}
Bytes_All == 0 .. 255
=============================================================================
