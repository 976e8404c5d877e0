---------------------------- MODULE MCGrowArray ----------------------------
(* A 6-bit size_t and two-byte elements: the limit, 31, is a few doublings  *)
(* away and is no power of two times the first capacity.                    *)
EXTENDS GrowArray
=============================================================================
