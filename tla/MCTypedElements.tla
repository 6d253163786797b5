-------------------------- MODULE MCTypedElements --------------------------
(* Four byte values: 0 is the only varint of one byte, two bytes reach 14   *)
(* and four bytes 254.  3 is the lower case of 2; parameter 2 has the code  *)
(* of a letter and is a multiple, 1 is the name of an entity.  The values   *)
(* hold zeros, so a wrong offset finds names; one has a star and one byte   *)
(* more, and those of four bytes are a positive and a negative number.      *)
EXTENDS TypedElements

MCName == {<<2>>, <<3>>, <<3, 1>>}
MCNameField == <<3, 1>>
MCSpecial == {1, 2}
MCUpper(b) == b - 1
MCLower == {3}
MCValue ==
  {<<>>, <<1, 0>>, <<0, 1, 0, 0>>, <<0, 0, 0, 3>>}
  \cup {[i \in 1 .. n |-> IF i % 2 = 0 THEN 1 ELSE 0] : n \in {1, 15, 254, 255}}

Zeros(n) == [i \in 1 .. n |-> 0]
Ones(n) == [i \in 1 .. n |-> 1]
Bodies == {<<>>, <<0>>, <<1, 0>>, <<0, 0, 1>>, Ones(4), Ones(15), Ones(20), Ones(21)}

(* Bodies of 5, 8 and 16 bytes make kinds with the same size of element.    *)
MCArgument(call) ==
  CASE call = "Permission"     -> {0, 1} \X {0, 255} \X {3, 4} \X {0, 64}
    [] call = "BlockSignature" -> {Zeros(n) : n \in 0 .. 4} \X {0, 3} \X {Ones(n) : n \in 0 .. 4}
    [] call = "AssetGenesis"   -> {<<q>> : q \in {-1, 0, 1, 255, 32767}}
    [] call = "GeneralDetails" -> {<<b>> : b \in Bodies}
    [] call = "AssetDetails"   -> {Ones(n) : n \in 0 .. 3} \X {-1, 1, 100} \X Bodies
    [] call = "FollowOns"      -> {<<>>, <<<<1, 1>>>>, <<<<1, 1>>, <<1, 1>>>>, <<<<1, 1>>, <<1, 2>>>>} \X {1}
    [] call = "Approval"       -> {0, 1} \X {0, 255}
    [] call = "NewEntityType"  -> {1, 2} \X {0, 1}
    [] call = "TypeAlone"      -> {<<1>>, <<2>>}
    [] call = "ItemKey"        -> {<<b>> : b \in Bodies}
    [] call = "Entity"         -> {<<Ones(2)>>, <<Zeros(2)>>}
    [] call = "CachedScript"   -> {0, 127} \X {<<>>, <<0>>, Ones(14), Ones(15)}
=============================================================================
