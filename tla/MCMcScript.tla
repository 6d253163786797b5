----------------------------- MODULE MCMcScript -----------------------------
(***************************************************************************)
(* Chunks small enough for both arrays to grow twice, pieces that fill a   *)
(* chunk, cross it and leave it as it is.                                  *)
(***************************************************************************)
EXTENDS McScript

CONSTANTS x, y

MCByte == {Zero, x, y}
MCPiece == {<<>>, <<x>>, <<y, x, y>>}

=============================================================================
