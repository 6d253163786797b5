------------------------- MODULE MCAssetQuantities -------------------------
EXTENDS AssetQuantities

CONSTANTS A, B

Items == [asset : {A, B}, quantity : {-1, 1, 2, 3}]

Lists == {<<>>} \cup {<<i>> : i \in Items} \cup {<<i, j>> : i, j \in Items}

(* Lists of quantities of both kinds, one whose size does not fit, and an   *)
(* element of another kind.                                                 *)
Elements ==
  [kind : Kinds, fits : {TRUE}, items : Lists]
  \cup [kind : {"followon"}, fits : {FALSE}, items : {<<[asset |-> A, quantity |-> 1]>>}]
  \cup [kind : {"other"}, fits : {TRUE}, items : {<<>>}]

(* Outputs of up to two elements.                                           *)
MCOutput == {<<>>} \cup {<<e>> : e \in Elements} \cup {<<e, f>> : e, f \in Elements}

MCWanted == {{"followon"}, {"transfer", "followon"}}
=============================================================================
