--------------------------- MODULE DetailsScript ---------------------------
(***************************************************************************)
(* The details script of an entity: named and special parameters written   *)
(* one after the other into an element of an mc_Script, and read back by   *)
(* walking over the bytes (script/src/hdacscript.cpp, utils/src/utility.cpp).*)
(*                                                                         *)
(*     named:   name, 0, varint(size), value                               *)
(*     special: 0, parameter, varint(size), value                          *)
(*                                                                         *)
(* A byte is a number below Radix, which is 256 in the code; its three     *)
(* largest values mark the varints of 2, 4 and 8 bytes.  Sizes stay below  *)
(* 2^31, so the conversions to int change nothing.                         *)
(***************************************************************************)
EXTENDS Integers, Sequences

CONSTANTS
  Radix,        (* number of byte values                                    *)
  Name,         (* names of custom fields: not empty, without a zero byte   *)
  Special,      (* codes MC_ENT_SPRM_...                                    *)
  Value,        (* values                                                   *)
  Lower,        (* the lower case letters                                   *)
  Upper(_),     (* the upper case letter of a lower case one                *)
  MaxParams,    (* bound on the parameters of a script                      *)
  MaxSize       (* bound on its bytes                                       *)

Byte == 0 .. Radix - 1

(* Powers of Radix; ^ has no axioms in the proof system.                    *)
Power[n \in Nat] == IF n = 0 THEN 1 ELSE Radix * Power[n - 1]

ASSUME DetailsAssumption ==
  /\ Radix \in Nat /\ Radix > 3
  /\ Name \subseteq Seq(Byte \ {0}) \ {<<>>}
  /\ Special \subseteq Byte
  /\ Value \subseteq Seq(Byte)
  /\ Lower \subseteq Byte /\ \A b \in Lower : Upper(b) \in Byte \ Lower
  /\ MaxParams \in Nat /\ MaxSize \in Nat /\ MaxSize < Power[8]

VARIABLES
  script,       (* the bytes of the element                                 *)
  params        (* history: the parameters written, in order                *)

vars == <<script, params>>

NamedParam(name, value) == [key |-> <<"named", name>>, value |-> value]
SpecialParam(code, value) == [key |-> <<"special", code>>, value |-> value]

-----------------------------------------------------------------------------
(* Variable length integers.  A size is the number of bytes after the first.*)
Marker2 == Radix - 3
Marker4 == Radix - 2
Marker8 == Radix - 1

PutLE(value, size) == [i \in 1 .. size |-> (value \div Power[i - 1]) % Radix]

GetLE(bytes, offset, size) ==
  LET sum[i \in 0 .. size] ==
        IF i = 0 THEN 0 ELSE sum[i - 1] + bytes[offset + i] * Power[i - 1]
  IN  sum[size]

PutVarInt(value) ==
  CASE value < Marker2        -> <<value>>
    [] value >= Marker2 /\ value < Power[2] - 1      -> <<Marker2>> \o PutLE(value, 2)
    [] value >= Power[2] - 1 /\ value < Power[4] - 1 -> <<Marker4>> \o PutLE(value, 4)
    [] value >= Power[4] - 1 -> <<Marker8>> \o PutLE(value, 8)

VarIntSize(byte) ==
  CASE byte < Marker2 -> 0
    [] byte = Marker2 -> 2
    [] byte = Marker4 -> 4
    [] byte = Marker8 -> 8

(* The value and the bytes it takes, or -1 when max bytes are too few.      *)
GetVarInt(bytes, offset, max) ==
  IF max <= 0 \/ max < VarIntSize(bytes[offset + 1]) + 1
  THEN [value |-> -1, shift |-> 0]
  ELSE LET size == VarIntSize(bytes[offset + 1])
       IN  [shift |-> size + 1,
            value |-> IF size = 0 THEN bytes[offset + 1] ELSE GetLE(bytes, offset + 1, size)]

-----------------------------------------------------------------------------
(* Reading.  Offsets count from 0, total is the number of bytes to read.    *)

(* strlen: without a terminator it runs into what follows the script, and   *)
(* finds at least as many bytes as are left.                                *)
StrLen(bytes, total, offset) ==
  CHOOSE n \in 0 .. total - offset :
    /\ n = total - offset \/ bytes[offset + n + 1] = 0
    /\ \A i \in 1 .. n : bytes[offset + i] # 0

(* What mc_GetParamFromDetailsScript returns: the offset after the          *)
(* parameter, the start of its value (0: none), its size, and the error.    *)
NoParam(total, err) == [next |-> total, start |-> 0, size |-> 0, err |-> err]

(* Variant: the value may reach past the end.                               *)
GetParam_Unbounded(bytes, total, offset) ==
  LET name_size == IF bytes[offset + 1] = 0 THEN 2 ELSE StrLen(bytes, total, offset) + 1
      int == GetVarInt(bytes, offset + name_size, total - offset - name_size)
      start == offset + name_size + int.shift
  IN  IF offset >= total THEN NoParam(total, offset > total)
      ELSE IF offset + name_size >= total \/ int.value < 0 THEN NoParam(total, TRUE)
      ELSE [next |-> start + int.value, start |-> start, size |-> int.value, err |-> FALSE]

GetParam(bytes, total, offset) ==
  LET name_size == IF bytes[offset + 1] = 0 THEN 2 ELSE StrLen(bytes, total, offset) + 1
      int == GetVarInt(bytes, offset + name_size, total - offset - name_size)
      start == offset + name_size + int.shift
  IN  IF offset >= total THEN NoParam(total, offset > total)
      ELSE IF offset + name_size >= total THEN NoParam(total, TRUE)
      ELSE IF int.value < 0 \/ start + int.value > total THEN NoParam(total, TRUE)
      ELSE [next |-> start + int.value, start |-> start, size |-> int.value, err |-> FALSE]

(* mc_VerifyDetailsScript of the first total bytes: no error on the way.    *)
Verify(bytes, total) ==
  LET verify[offset \in Nat] ==
        \/ offset >= total
        \/ LET p == GetParam(bytes, total, offset) IN ~p.err /\ verify[p.next]
  IN  verify[0]

(* The walk all finders do: the first parameter that matches, or nothing.   *)
NotFound(total) == [start |-> total, size |-> -1]

Find(bytes, total, Matches(_)) ==
  LET find[offset \in Nat] ==
        IF offset >= total THEN NotFound(total)
        ELSE LET p == GetParam(bytes, total, offset)
             IN  IF p.start > 0 /\ Matches(offset)
                 THEN [start |-> p.start, size |-> p.size]
                 ELSE find[p.next]
  IN  find[0]

(* Variant: the leading zero is not looked at.                              *)
FindSpecial_AnyKind(bytes, total, code) ==
  LET Matches(offset) == bytes[offset + 2] = code
  IN  Find(bytes, total, Matches)

FindSpecial(bytes, total, code) ==
  LET Matches(offset) == bytes[offset + 1] = 0 /\ bytes[offset + 2] = code
  IN  Find(bytes, total, Matches)

(* mc_StringCompareCaseInsensitive.                                         *)
SameLetter(a, b) == a = b \/ (a \in Lower /\ Upper(a) = b) \/ (b \in Lower /\ Upper(b) = a)

FindNamed(bytes, total, name) ==
  LET Matches(offset) ==
        /\ bytes[offset + 1] # 0
        /\ Len(name) = StrLen(bytes, total, offset)
        /\ \A i \in 1 .. Len(name) : SameLetter(name[i], bytes[offset + i])
  IN  Find(bytes, total, Matches)

-----------------------------------------------------------------------------
(* Writing.                                                                 *)
Init == script = <<>> /\ params = <<>>

Put(bytes, param) ==
  /\ Len(params) < MaxParams /\ Len(script) + Len(bytes) <= MaxSize
  /\ script' = script \o bytes
  /\ params' = Append(params, param)

SetSpecialParamValue(code, value) ==
  Put(<<0, code>> \o PutVarInt(Len(value)) \o value, SpecialParam(code, value))

SetParamValue(name, value) ==
  Put(name \o <<0>> \o PutVarInt(Len(value)) \o value, NamedParam(name, value))

Next ==
  \E value \in Value :
    \/ \E code \in Special : SetSpecialParamValue(code, value)
    \/ \E name \in Name : SetParamValue(name, value)

Spec == Init /\ [][Next]_vars

-----------------------------------------------------------------------------
(* Properties.                                                              *)

(* Walking over a script yields the parameters written, in their order, and *)
(* ends at its end: no value is taken for a name, whatever bytes it holds   *)
(* and whichever form its size has (hdacscript.cpp:213, 244, 1059).         *)
KeyAt(offset) ==
  IF script[offset + 1] = 0
  THEN <<"special", script[offset + 2]>>
  ELSE <<"named", SubSeq(script, offset + 1, offset + StrLen(script, Len(script), offset))>>

Walk ==
  LET walk[offset \in Nat] ==
        IF offset >= Len(script) THEN <<>>
        ELSE LET p == GetParam(script, Len(script), offset)
             IN  IF p.err THEN <<>>
                 ELSE <<[key   |-> KeyAt(offset),
                         value |-> SubSeq(script, p.start + 1, p.start + p.size)]>>
                      \o walk[p.next]
  IN  walk[0]

ReadsWhatWasWritten == Walk = params /\ Verify(script, Len(script))

(* The ends of the parameters, from what was written.                       *)
Encoded(param) ==
  (IF param.key[1] = "special" THEN 2 ELSE Len(param.key[2]) + 1)
  + Len(PutVarInt(Len(param.value))) + Len(param.value)

Ends ==
  LET end[i \in 0 .. Len(params)] == IF i = 0 THEN 0 ELSE end[i - 1] + Encoded(params[i])
  IN  {end[i] : i \in 0 .. Len(params)}

(* A script cut anywhere but between two parameters is refused, so a        *)
(* parameter is never read from half of its bytes (hdacscript.cpp:1081-1103).*)
CutIsRefused ==
  \A total \in 0 .. Len(script) : Verify(script, total) <=> total \in Ends

(* The parameters of a script are read as they were written, all of them or *)
(* not at all (hdacscript.cpp:1059-1135).                                   *)
ReadWholeOrRefused == ReadsWhatWasWritten /\ CutIsRefused

=============================================================================
