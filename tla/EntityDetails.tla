--------------------------- MODULE EntityDetails ---------------------------
(***************************************************************************)
(* A row of entity details: what mc_EntityDetails reads out of the details *)
(* script that was stored with the entity (entities/src/asset.cpp).        *)
(***************************************************************************)
EXTENDS DetailsScript

CONSTANTS
  NameCode,     (* MC_ENT_SPRM_NAME                                         *)
  NameField,    (* the custom field that also holds a name, "\xffname"      *)
  Star,         (* the character '*'                                        *)
  MultipleCode  (* MC_ENT_SPRM_ASSET_MULTIPLE                               *)

ASSUME EntityDetailsAssumption ==
  {NameCode, MultipleCode} \subseteq Byte /\ NameField \in Seq(Byte) /\ Star \in Byte

-----------------------------------------------------------------------------
(* A field is at a place of the script, or absent (a null pointer).  A      *)
(* finder that found nothing and one that found an empty value at the very  *)
(* end of the script return the same offset.                                *)
Absent == [start |-> 0, size |-> -1]

Field(found, total) == IF found.start = total THEN Absent ELSE found

GetSpecialParam(bytes, code) == Field(FindSpecial(bytes, Len(bytes), code), Len(bytes))

GetNamedParam(bytes, name) == Field(FindNamed(bytes, Len(bytes), name), Len(bytes))

(* A number of one to four bytes, otherwise 0, as an unsigned int.          *)
UpgradeStartBlock(bytes, code) ==
  LET field == GetSpecialParam(bytes, code)
  IN  IF field.size \in 1 .. 4 THEN GetLE(bytes, field.start, field.size) ELSE 0

(* A number of so many bytes narrowed to a signed integer of that width.    *)
Signed(number, size) ==
  IF number >= Power[size] \div 2 THEN number - Power[size] ELSE number

(* AllowedFollowOns, AnyoneCanWrite and UpgradeProtocolVersion: the same    *)
(* number as an int, so that one with the top bit of four bytes is negative.*)
NumberParam(bytes, code) == Signed(UpgradeStartBlock(bytes, code), 4)

GetAssetMultiple(bytes) ==
  LET field == GetSpecialParam(bytes, MultipleCode)
      multiple == IF field.size = 4 THEN Signed(GetLE(bytes, field.start, 4), 4) ELSE 1
  IN  IF multiple <= 0 THEN 1 ELSE multiple

(* The field the name is read from, or Absent for the name of the row.  A   *)
(* value of two bytes that begins with a star stands for no name.           *)
GetName(bytes) ==
  LET special == GetSpecialParam(bytes, NameCode)
      field == IF special = Absent THEN GetNamedParam(bytes, NameField) ELSE special
  IN  IF field.size = 2 /\ bytes[field.start + 1] = Star THEN Absent ELSE field

(* NextParam: the offset of the next parameter, or -1 with the last one.    *)
NextParam(bytes, offset) ==
  LET next == GetParam(bytes, Len(bytes), offset).next
  IN  IF next = Len(bytes) THEN -1 ELSE next

-----------------------------------------------------------------------------
(* Properties.                                                              *)

(* The first value written under a key, as a set; an empty one that ends    *)
(* the script cannot be told from none.                                     *)
FirstValue(Matches(_)) ==
  LET found == {i \in 1 .. Len(params) : Matches(params[i].key)}
      first == CHOOSE i \in found : \A j \in found : i <= j
  IN  IF found = {} \/ (first = Len(params) /\ params[first].value = <<>>)
      THEN {} ELSE {params[first].value}

ValueAt(field) ==
  IF field = Absent THEN {} ELSE {SubSeq(script, field.start + 1, field.start + field.size)}

HasCode(key, code) == key = <<"special", code>>

(* The names are the same but for the case of letters.                      *)
HasName(key, name) ==
  /\ key[1] = "named" /\ Len(key[2]) = Len(name)
  /\ \A i \in 1 .. Len(name) : SameLetter(key[2][i], name[i])

(* A caller of NextParam that starts at 0 and goes on until -1.              *)
Steps ==
  LET steps[offset \in Int] ==
        IF offset < 0 THEN 0 ELSE 1 + steps[NextParam(script, offset)]
  IN  steps[0]

(* The numbers an int of four bytes holds.                                  *)
AnInt == Power[4] \div 2 - Power[4] .. Power[4] \div 2 - 1

(* Every accessor of a row answers from the first parameter written with    *)
(* its code or name, however often it is repeated and whatever the values   *)
(* before it hold, and a parameter of one kind never answers for the other. *)
(* A start block is the number written; the other numbers are that number   *)
(* or, when no int holds it, the negative one that differs by 2^32.  A      *)
(* multiple is positive, a name of a star is no name, and NextParam         *)
(* passes every parameter once (asset.cpp:23-60, 92-186, 199-232).          *)
FieldsAreFirstValues ==
  LET First(code) == FirstValue(LAMBDA key : HasCode(key, code))
      Named(name) == FirstValue(LAMBDA key : HasName(key, name))
      Names == IF First(NameCode) = {} THEN Named(NameField) ELSE First(NameCode)
      Number(value) == IF Len(value) \in 1 .. 4 THEN GetLE(value, 0, Len(value)) ELSE 0
  IN  /\ \A code \in Special :
           /\ ValueAt(GetSpecialParam(script, code)) = First(code)
           /\ \A value \in First(code) :
                /\ UpgradeStartBlock(script, code) = Number(value)
                /\ NumberParam(script, code) \in AnInt \cap {Number(value), Number(value) - Power[4]}
      /\ \A name \in Name : ValueAt(GetNamedParam(script, name)) = Named(name)
      /\ GetAssetMultiple(script) > 0
      /\ ValueAt(GetName(script)) = {v \in Names : ~(Len(v) = 2 /\ v[1] = Star)}
      /\ params # <<>> => Steps = Len(params)
=============================================================================
