--------------------------- MODULE TypedElements ---------------------------
(***************************************************************************)
(* The typed elements of mc_Script (script/src/hdacscript.cpp): an element *)
(* is an identifier, the letter of its kind and a body, and each kind has  *)
(* a setter that appends one and a getter that recognises and reads it.    *)
(*                                                                         *)
(* A setter gives the set of elements it appends, empty when it refuses.   *)
(* A getter is a function of the current element (the container itself is  *)
(* McScript).  The details of an entity are what DetailsScript has written *)
(* into the first element of another mc_Script.                            *)
(***************************************************************************)
EXTENDS EntityDetails

CONSTANTS
  MaxName,      (* MC_ENT_MAX_NAME_SIZE                                     *)
  MaxScript,    (* MC_ENT_MAX_SCRIPT_SIZE                                   *)
  MaxKey,       (* MC_ENT_MAX_ITEM_KEY_SIZE                                 *)
  ShortTxId,    (* MC_AST_SHORT_TXID_SIZE                                   *)
  AssetRef,     (* m_AssetRefSize                                           *)
  Room,         (* the size of the buffers GetBlockSignature is given       *)
  MaxCached,    (* bound on the scripts of a cached script element          *)
  Argument(_)   (* the arguments a setter is called with                    *)

Setter == {"Permission", "BlockSignature", "AssetGenesis", "GeneralDetails", "AssetDetails",
           "FollowOns", "Approval", "TypeAlone", "ItemKey", "Entity"}

Getter == Setter \cup {"NewEntityType"}

(* The C types of the arguments: a type, an approval and a hash type are    *)
(* constants of one byte, a name is a string, the vin of a cached script is *)
(* an index.  A new entity also gets the details that were written.         *)
Bytes == Seq(Byte)
Unsigned(size) == 0 .. Power[size] - 1
Integer(size) == -(Power[size] \div 2) .. Power[size] \div 2 - 1
Alone(type) == [1 .. 1 -> type]

Types(call) ==
  CASE call = "Permission"     -> Unsigned(4) \X Unsigned(4) \X Unsigned(4) \X Unsigned(4)
    [] call = "BlockSignature" -> Bytes \X Byte \X Bytes
    [] call = "AssetGenesis"   -> Alone(Integer(8))
    [] call = "AssetDetails"   -> Seq(Byte \ {0}) \X Integer(4) \X Bytes
    [] call = "FollowOns"      -> Seq([1 .. AssetRef -> Byte]) \X Integer(8)
    [] call = "Approval"       -> Byte \X Unsigned(4)
    [] call = "NewEntityType"  -> Byte \X {0, 1}
    [] call = "TypeAlone"      -> Alone(Byte)
    [] call = "Entity"         -> Alone([1 .. ShortTxId -> Byte])
    [] call = "CachedScript"   -> (Integer(4) \cap Nat) \X {bytes \in Bytes : Len(bytes) < Power[8]}
    [] OTHER                   -> Alone(Bytes)

ASSUME TypedElementsAssumption ==
  /\ {MaxName, MaxScript, MaxKey, ShortTxId, AssetRef, Room, MaxCached} \subseteq Nat
  /\ \A call \in Getter \cup {"CachedScript"} : Argument(call) \subseteq Types(call)

VARIABLES
  element,      (* the current element                                      *)
  written       (* history: the call that wrote it and its arguments        *)

typed == <<element, written>>

Hdac == "spk"   (* MC_DCT_SCRIPT_HDAC_IDENTIFIER                            *)
Free == "SPK"   (* MC_DCT_SCRIPT_FREE_DATA_IDENTIFIER                       *)
Prefix == 4     (* the bytes of an identifier and a letter                  *)

Element(id, letter, body) == [id |-> id, letter |-> letter, body |-> body]
Is(e, id, letter) == e.id = id /\ e.letter = letter

Accept(args) == [err |-> "none", args |-> args]
Refuse(err) == [err |-> err, args |-> <<>>]

Drop(bytes, n) == SubSeq(bytes, n + 1, Len(bytes))

-----------------------------------------------------------------------------
(* Permissions.                                                             *)
GetPermission(e) ==
  IF ~Is(e, Hdac, "p") \/ Len(e.body) # 16 THEN Refuse("wrong")
  ELSE Accept([i \in 1 .. 4 |-> GetLE(e.body, 4 * (i - 1), 4)])

SetPermission(type, from, to, timestamp) ==
  {Element(Hdac, "p", PutLE(type, 4) \o PutLE(from, 4) \o PutLE(to, 4) \o PutLE(timestamp, 4))}

(* The signature of a block: two strings with their sizes in one byte each. *)
(* Variant: bytes after the key are ignored.                                *)
GetBlockSignature_Loose(e) ==
  LET sig == e.body[1]
      key == e.body[sig + 3]
  IN  IF ~Is(e, Free, "b") \/ Len(e.body) < 3 THEN Refuse("wrong")
      ELSE IF sig > Room \/ Len(e.body) < 3 + sig THEN Refuse("wrong")
      ELSE IF key > Room \/ Len(e.body) < 3 + sig + key THEN Refuse("wrong")
      ELSE Accept(<<SubSeq(e.body, 2, sig + 1), e.body[sig + 2], SubSeq(e.body, sig + 4, sig + 3 + key)>>)

GetBlockSignature(e) ==
  LET sig == e.body[1]
      key == e.body[sig + 3]
  IN  IF ~Is(e, Free, "b") \/ Len(e.body) < 3 THEN Refuse("wrong")
      ELSE IF sig > Room \/ Len(e.body) < 3 + sig THEN Refuse("wrong")
      ELSE IF key > Room \/ Len(e.body) # 3 + sig + key THEN Refuse("wrong")
      ELSE Accept(<<SubSeq(e.body, 2, sig + 1), e.body[sig + 2], Drop(e.body, sig + 3)>>)

SetBlockSignature(sig, hash_type, key) ==
  IF Len(sig) > Radix - 1 \/ Len(key) > Radix - 1 THEN {}
  ELSE {Element(Free, "b", <<Len(sig)>> \o sig \o <<hash_type % Radix>> \o <<Len(key)>> \o key)}

-----------------------------------------------------------------------------
(* Assets: the quantity issued, the details of old, and the details of any  *)
(* entity.                                                                  *)
GetAssetGenesis(e) ==
  LET quantity == Signed(GetLE(e.body, 0, 8), 8)
  IN  IF ~Is(e, Hdac, "g") \/ Len(e.body) # 8 THEN Refuse("wrong")
      ELSE IF quantity < 0 THEN Refuse("not allowed")
      ELSE Accept(<<quantity>>)

SetAssetGenesis(quantity) ==
  IF quantity < 0 THEN {} ELSE {Element(Hdac, "g", PutLE(quantity, 8))}

GetGeneralDetails(e) ==
  IF ~Is(e, Free, "c") \/ Len(e.body) > MaxScript THEN Refuse("wrong")
  ELSE Accept(<<e.body>>)

SetGeneralDetails(bytes) ==
  IF Len(bytes) > MaxScript THEN {} ELSE {Element(Free, "c", bytes)}

(* The name ends with a zero, which has to come before the end.             *)
(* Variant: a name of the largest size is refused.                          *)
GetAssetDetails_OffByOne(e) ==
  LET general == GetGeneralDetails(e)
      name == StrLen(e.body, Len(e.body), 4)
  IN  IF general.err = "none" THEN Accept(<<<<>>, 1, general.args[1]>>)
      ELSE IF ~Is(e, Free, "a") \/ Len(e.body) \notin 5 .. MaxScript + 4 + MaxName + 1
      THEN Refuse("wrong")
      ELSE IF name >= MaxName \/ 4 + name = Len(e.body) THEN Refuse("wrong")
      ELSE Accept(<<SubSeq(e.body, 5, 4 + name), Signed(GetLE(e.body, 0, 4), 4), Drop(e.body, 5 + name)>>)

GetAssetDetails(e) ==
  LET general == GetGeneralDetails(e)
      name == StrLen(e.body, Len(e.body), 4)
  IN  IF general.err = "none" THEN Accept(<<<<>>, 1, general.args[1]>>)
      ELSE IF ~Is(e, Free, "a") \/ Len(e.body) \notin 5 .. MaxScript + 4 + MaxName + 1
      THEN Refuse("wrong")
      ELSE IF name > MaxName \/ 4 + name = Len(e.body) THEN Refuse("wrong")
      ELSE Accept(<<SubSeq(e.body, 5, 4 + name), Signed(GetLE(e.body, 0, 4), 4), Drop(e.body, 5 + name)>>)

SetAssetDetails(name, multiple, bytes) ==
  IF Len(bytes) > MaxScript THEN {}
  ELSE {Element(Free, "a", PutLE(multiple, 4) \o name \o <<0>> \o bytes)}

(* Rows of a reference and a quantity (SetAssetQuantities), which GetFullRef *)
(* reads as the one asset they are about.  It accepts an element without    *)
(* rows and returns zeros.                                                  *)
RowSize == AssetRef + 8

GetFullRef(e) ==
  LET Ref(i) == SubSeq(e.body, (i - 1) * RowSize + 1, (i - 1) * RowSize + AssetRef)
      items == Len(e.body) \div RowSize
  IN  IF ~Is(e, Hdac, "o") \/ Len(e.body) # items * RowSize THEN Refuse("wrong")
      ELSE IF \E i \in 2 .. items : Ref(i) # Ref(1) THEN Refuse("wrong")
      ELSE Accept(<<IF items = 0 THEN [i \in 1 .. AssetRef |-> 0] ELSE Ref(1)>>)

SetFollowOns(refs, quantity) ==
  LET rows[i \in 0 .. Len(refs)] ==
        IF i = 0 THEN <<>> ELSE rows[i - 1] \o refs[i] \o PutLE(quantity, 8)
  IN  {Element(Hdac, "o", rows[Len(refs)])}

-----------------------------------------------------------------------------
(* Streams and entities: approval, a new or updated entity, its type alone, *)
(* the key of an item, and the entity an operation is about.                *)
GetApproval(e) ==
  IF ~Is(e, Hdac, "a") \/ Len(e.body) # 5 THEN Refuse("wrong")
  ELSE Accept(<<e.body[1], GetLE(e.body, 1, 4)>>)

SetApproval(approval, timestamp) ==
  {Element(Hdac, "a", PutLE(approval, 1) \o PutLE(timestamp, 4))}

GetNewEntityType(e) ==
  LET bytes == Tail(e.body)
  IN  IF e.id # Hdac \/ e.letter \notin {"n", "u"} \/ Len(e.body) \notin 1 .. 1 + MaxScript
      THEN Refuse("wrong")
      ELSE IF ~Verify(bytes, Len(bytes)) THEN Refuse("error")
      ELSE Accept(<<e.body[1], IF e.letter = "u" THEN 1 ELSE 0, bytes>>)

SetNewEntityType(type, update, bytes) ==
  IF Len(bytes) > MaxScript \/ ~Verify(bytes, Len(bytes)) THEN {}
  ELSE {Element(Hdac, IF update = 0 THEN "n" ELSE "u", <<type % Radix>> \o bytes)}

GetTypeAlone(e) ==
  IF ~Is(e, Hdac, "n") \/ Len(e.body) < 1 THEN Refuse("wrong") ELSE Accept(<<e.body[1]>>)

SetTypeAlone(type) == {Element(Hdac, "n", <<type % Radix>>)}

GetItemKey(e) ==
  IF ~Is(e, Hdac, "k") \/ Len(e.body) > MaxKey THEN Refuse("wrong") ELSE Accept(<<e.body>>)

SetItemKey(key) == IF Len(key) > MaxKey THEN {} ELSE {Element(Hdac, "k", key)}

GetEntity(e) ==
  IF ~Is(e, Hdac, "e") \/ Len(e.body) # ShortTxId THEN Refuse("wrong") ELSE Accept(<<e.body>>)

SetEntity(short_txid) == {Element(Hdac, "e", short_txid)}

-----------------------------------------------------------------------------
(* The scripts of spent outputs, one after the other in one element.  Both  *)
(* calls take the offset the call before returned, 0 the first time.        *)
Cached(next, vin, bytes) == [err |-> "none", next |-> next, vin |-> vin, script |-> bytes]
NotCached(err) == [err |-> err, next |-> 0, vin |-> -1, script |-> <<>>]

(* Variant: the size of the script's length is not counted.                 *)
GetCachedScript_NoShift(e, offset) ==
  LET vin == Signed(GetLE(e.body, offset - Prefix, 4), 4)
      size == GetVarInt(e.body, offset - Prefix + 4, Prefix + Len(e.body) - offset - 4)
      start == offset - Prefix + 4 + size.shift
  IN  IF ~Is(e, Hdac, "i") THEN NotCached("wrong")
      ELSE IF offset = 0 THEN Cached(Prefix, -1, <<>>)
      ELSE IF Prefix + Len(e.body) = offset THEN NotCached("wrong")
      ELSE IF Prefix + Len(e.body) < offset + 4 \/ vin < 0 THEN NotCached("error")
      ELSE IF size.value < 0 \/ start + size.value > Len(e.body) THEN NotCached("error")
      ELSE Cached(offset + 5 + size.value, vin, SubSeq(e.body, start + 1, start + size.value))

GetCachedScript(e, offset) ==
  LET vin == Signed(GetLE(e.body, offset - Prefix, 4), 4)
      size == GetVarInt(e.body, offset - Prefix + 4, Prefix + Len(e.body) - offset - 4)
      start == offset - Prefix + 4 + size.shift
  IN  IF ~Is(e, Hdac, "i") THEN NotCached("wrong")
      ELSE IF offset = 0 THEN Cached(Prefix, -1, <<>>)
      ELSE IF Prefix + Len(e.body) = offset THEN NotCached("wrong")
      ELSE IF Prefix + Len(e.body) < offset + 4 \/ vin < 0 THEN NotCached("error")
      ELSE IF size.value < 0 \/ start + size.value > Len(e.body) THEN NotCached("error")
      ELSE Cached(Prefix + start + size.value, vin, SubSeq(e.body, start + 1, start + size.value))

-----------------------------------------------------------------------------
Elements(call, a) ==
  CASE call = "Permission"     -> SetPermission(a[1], a[2], a[3], a[4])
    [] call = "BlockSignature" -> SetBlockSignature(a[1], a[2], a[3])
    [] call = "AssetGenesis"   -> SetAssetGenesis(a[1])
    [] call = "GeneralDetails" -> SetGeneralDetails(a[1])
    [] call = "AssetDetails"   -> SetAssetDetails(a[1], a[2], a[3])
    [] call = "FollowOns"      -> SetFollowOns(a[1], a[2])
    [] call = "Approval"       -> SetApproval(a[1], a[2])
    [] call = "NewEntityType"  -> SetNewEntityType(a[1], a[2], a[3])
    [] call = "TypeAlone"      -> SetTypeAlone(a[1])
    [] call = "ItemKey"        -> SetItemKey(a[1])
    [] call = "Entity"         -> SetEntity(a[1])

Got(getter, e) ==
  CASE getter = "Permission"     -> GetPermission(e)
    [] getter = "BlockSignature" -> GetBlockSignature(e)
    [] getter = "AssetGenesis"   -> GetAssetGenesis(e)
    [] getter = "GeneralDetails" -> GetGeneralDetails(e)
    [] getter = "AssetDetails"   -> GetAssetDetails(e)
    [] getter = "FollowOns"      -> GetFullRef(e)
    [] getter = "Approval"       -> GetApproval(e)
    [] getter = "NewEntityType"  -> GetNewEntityType(e)
    [] getter = "TypeAlone"      -> GetTypeAlone(e)
    [] getter = "ItemKey"        -> GetItemKey(e)
    [] getter = "Entity"         -> GetEntity(e)

TypedInit ==
  /\ Init
  /\ element = Element("", "", <<>>)
  /\ written = [call |-> "none", args |-> <<>>]

(* The first mc_Script: parameters are written until its element is used.   *)
WriteDetails == written.call = "none" /\ Next /\ UNCHANGED typed

(* A setter that accepts its arguments; one that refuses changes nothing.   *)
(* Setters that do not use the details are taken with an empty script.      *)
Set(call, args) ==
  /\ element' \in Elements(call, args)
  /\ written' = [call |-> call, args |-> args]
  /\ UNCHANGED vars

SetTyped ==
  script = <<>> /\ written.call = "none" /\
  \E call \in Setter : \E args \in Argument(call) : Set(call, args)

SetEntityDetails ==
  written.call = "none" /\
  \E args \in Argument("NewEntityType") : Set("NewEntityType", Append(args, script))

(* SetCachedScript with the offset 0, and with the one it returned.         *)
OpenCached ==
  /\ script = <<>> /\ written.call = "none"
  /\ element' = Element(Hdac, "i", <<>>)
  /\ written' = [call |-> "CachedScript", args |-> <<>>]
  /\ UNCHANGED vars

AppendCached ==
  /\ written.call = "CachedScript" /\ Len(written.args) < MaxCached
  /\ \E args \in Argument("CachedScript") :
       /\ element' = [element EXCEPT !.body =
                        @ \o PutLE(args[1], 4) \o PutVarInt(Len(args[2])) \o args[2]]
       /\ written' = [written EXCEPT !.args = Append(@, args)]
  /\ UNCHANGED vars

TypedNext == WriteDetails \/ SetTyped \/ SetEntityDetails \/ OpenCached \/ AppendCached

TypedSpec == TypedInit /\ [][TypedNext]_<<vars, typed>>

-----------------------------------------------------------------------------
(* Properties.                                                              *)

(* What a getter makes of the element a call has written.  An element of    *)
(* details is also one of asset details without a name, a new entity has a  *)
(* type, and a type alone is an entity without details.  SetAssetDetails    *)
(* does not bound the name: a longer one is not read back.                  *)
ReadAs(call, a, getter) ==
  CASE call = "AssetDetails" /\ getter = call ->
         IF Len(a[1]) > MaxName THEN Refuse("wrong") ELSE Accept(a)
    [] call = "BlockSignature" /\ getter = call ->
         IF Len(a[1]) > Room \/ Len(a[3]) > Room THEN Refuse("wrong") ELSE Accept(a)
    [] call = "FollowOns" /\ getter = call ->
         IF \E i, j \in DOMAIN a[1] : a[1][i] # a[1][j] THEN Refuse("wrong")
         ELSE Accept(<<IF a[1] = <<>> THEN [i \in 1 .. AssetRef |-> 0] ELSE a[1][1]>>)
    [] call = "GeneralDetails" /\ getter = "AssetDetails" -> Accept(<<<<>>, 1, a[1]>>)
    [] call = "NewEntityType" /\ getter = "TypeAlone" ->
         IF a[2] = 0 THEN Accept(<<a[1]>>) ELSE Refuse("wrong")
    [] call = "TypeAlone" /\ getter = "NewEntityType" -> Accept(<<a[1], 0, <<>>>>)
    [] OTHER -> IF getter = call THEN Accept(a) ELSE Refuse("wrong")

(* An element is read by the getter of its kind as it was written, and by   *)
(* no getter of another kind: kinds that share a letter, or whose bodies    *)
(* have the same size, are kept apart (hdacscript.cpp:534-1057, 1137-1524). *)
EachReadsItsOwn ==
  written.call # "none" =>
    /\ \A getter \in Getter : Got(getter, element) = ReadAs(written.call, written.args, getter)
    /\ GetCachedScript(element, 0).err = "none" <=> written.call = "CachedScript"

(* Elements that come from elsewhere: cut, with a byte more, or under the   *)
(* identifier and letter of another kind.                                   *)
Tag == {Hdac, Free} \X {"a", "b", "c", "e", "g", "i", "k", "n", "o", "p", "u"}

Received(e) ==
  {Element(e.id, e.letter, SubSeq(e.body, 1, n)) : n \in 0 .. Len(e.body)}
    \cup {Element(e.id, e.letter, Append(e.body, b)) : b \in Byte}
    \cup {Element(tag[1], tag[2], e.body) : tag \in Tag}

Rebuilt(getter, a) ==
  Elements(getter, a) \cup
    IF getter = "AssetDetails" /\ a[1] = <<>> /\ a[2] = 1 THEN SetGeneralDetails(a[3]) ELSE {}

(* A getter accepts nothing its setter would not write from the very values *)
(* it returns: no byte is left over, none is read twice, and no limit of    *)
(* the setter is passed by.  GetFullRef and the type alone do not return    *)
(* all they accept, and GetAssetDetails bounds the element and not the      *)
(* script in it (hdacscript.cpp:534-1057, 1137-1384).                       *)
AcceptedIsWritable ==
  \A e \in Received(element), getter \in Getter \ {"FollowOns", "TypeAlone"} :
    LET got == Got(getter, e)
    IN  got.err = "none" =>
          \/ e \in Rebuilt(getter, got.args)
          \/ getter = "AssetDetails" /\ Len(got.args[3]) > MaxScript

(* The loop of a reader: from the offset 0 until an error.                  *)
CachedFrom(e) ==
  LET walk[offset \in Nat] ==
        LET got == GetCachedScript(e, offset)
        IN  IF got.err # "none" THEN [scripts |-> <<>>, err |-> got.err]
            ELSE LET rest == walk[got.next]
                 IN  [rest EXCEPT !.scripts = <<<<got.vin, got.script>>>> \o @]
  IN  walk[Prefix]

(* A reader of the cached scripts gets those written, in order, and then    *)
(* the end; of an element that is cut it gets the scripts that are whole,   *)
(* and an error unless the cut is between two (hdacscript.cpp:1697-1816).   *)
CachedScriptsInOrder ==
  written.call = "CachedScript" =>
    LET size(i) == 4 + Len(PutVarInt(Len(written.args[i][2]))) + Len(written.args[i][2])
        end[i \in 0 .. Len(written.args)] == IF i = 0 THEN 0 ELSE end[i - 1] + size(i)
    IN  \A total \in 0 .. Len(element.body) :
          LET whole == {i \in 1 .. Len(written.args) : end[i] <= total}
              read == CachedFrom(Element(Hdac, "i", SubSeq(element.body, 1, total)))
          IN  /\ read.scripts = [i \in whole |-> written.args[i]]
              /\ read.err = IF \E i \in DOMAIN end : end[i] = total THEN "wrong" ELSE "error"
=============================================================================
