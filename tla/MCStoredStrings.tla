-------------------------- MODULE MCStoredStrings ---------------------------
(***************************************************************************)
(* Instance of StoredStrings: bytes of four values, of which 2 and 3 start *)
(* the high and the low surrogates; every string of up to MaxUnits units.  *)
(***************************************************************************)
EXTENDS StoredStrings

CONSTANT MaxUnits       \* bound on the length of a string

MCStrings == UNION {[1..n -> 0..BYTE * BYTE - 1] : n \in 0..MaxUnits}
=============================================================================
