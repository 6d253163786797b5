---------------------------- MODULE ScriptBytes ----------------------------
(***************************************************************************)
(* The bytes of a CScript: what its operators << append, what GetOp reads, *)
(* and the numbers pushed on it (script/include/script/script.h).          *)
(*                                                                         *)
(* A byte is a number below Radix, which is 256 in the code; the numbers   *)
(* of the operations keep their order.                                     *)
(***************************************************************************)
EXTENDS Integers, Sequences

CONSTANTS
  Radix,          (* number of byte values                                  *)
  OP_PUSHDATA1,   (* the first size that is not an operation of its own;    *)
                  (* OP_PUSHDATA2 and OP_PUSHDATA4 follow it                *)
  OP_1, OP_16,    (* the operations of the numbers from 1; OP_1NEGATE and   *)
                  (* OP_RESERVED are before them                            *)
  MaxNumSize,     (* nMaxNumSize                                            *)
  Data,           (* byte strings that are pushed                           *)
  Number,         (* numbers that are pushed                                *)
  Opcode,         (* operations that are appended                           *)
  MaxOps          (* bound on the operations of a script                    *)

Byte == 0 .. Radix - 1
OP_PUSHDATA2 == OP_PUSHDATA1 + 1
OP_PUSHDATA4 == OP_PUSHDATA1 + 2

Power[n \in Nat] == IF n = 0 THEN 1 ELSE Radix * Power[n - 1]

(* The size of a string fits in 32 bits, a number in the 64 of an int64_t.  *)
ASSUME ScriptBytesAssumption ==
  /\ Radix \in Nat /\ Radix > 2 /\ Radix % 2 = 0
  /\ OP_PUSHDATA1 \in Byte \ {0} /\ OP_PUSHDATA4 < OP_1 - 2
  /\ OP_1 \in Byte /\ OP_16 \in Byte /\ OP_1 <= OP_16
  /\ MaxNumSize \in Nat /\ MaxOps \in Nat
  /\ Data \subseteq Seq(Byte) /\ \A d \in Data : Len(d) < Power[4]
  /\ Number \subseteq Int
  /\ \A n \in Number : \E size \in 0 .. 8 : -Power[size] < n /\ n < Power[size]
  /\ Opcode \subseteq Byte \ 0 .. OP_PUSHDATA4

VARIABLES
  code,   (* the bytes of the script                                        *)
  ops     (* history: what was appended, in order                           *)

scriptVars == <<code, ops>>

-----------------------------------------------------------------------------
(* Numbers: little endian, the highest bit of the last byte is the sign.    *)
Half == Radix \div 2

LittleEndian(value, size) == [i \in 1 .. size |-> (value \div Power[i - 1]) % Radix]

FromLittleEndian(bytes) ==
  LET sum[i \in 0 .. Len(bytes)] ==
        IF i = 0 THEN 0 ELSE sum[i - 1] + bytes[i] * Power[i - 1]
  IN  sum[Len(bytes)]

Serialize(value) ==
  LET abs == IF value < 0 THEN -value ELSE value
      size == CHOOSE n \in 0 .. abs : Power[n] > abs /\ \A m \in 0 .. n - 1 : Power[m] <= abs
      bytes == LittleEndian(abs, size)
      sign == IF value < 0 THEN Half ELSE 0
  IN  IF value = 0 THEN <<>>
      ELSE IF bytes[size] >= Half THEN Append(bytes, sign)
      ELSE [i \in 1 .. size |-> bytes[i] + IF i = size THEN sign ELSE 0]

(* set_vch, for strings of at most MaxNumSize bytes.                        *)
ScriptNum(bytes) ==
  LET size == Len(bytes)
  IN  IF size = 0 THEN 0
      ELSE IF bytes[size] >= Half
      THEN -FromLittleEndian([bytes EXCEPT ![size] = @ - Half])
      ELSE FromLittleEndian(bytes)

-----------------------------------------------------------------------------
(* Writing.  A push is a size and the data; a small number an operation.    *)
(* Variant: a size of OP_PUSHDATA1 is written as an operation of its own.   *)
Push_OffByOne(bytes) ==
  LET n == Len(bytes)
  IN  CASE n <= OP_PUSHDATA1     -> <<n>> \o bytes
        [] n > OP_PUSHDATA1 /\ n < Radix -> <<OP_PUSHDATA1, n>> \o bytes
        [] n >= Radix /\ n < Power[2]   -> <<OP_PUSHDATA2>> \o LittleEndian(n, 2) \o bytes
        [] n >= Power[2]        -> <<OP_PUSHDATA4>> \o LittleEndian(n, 4) \o bytes

Push(bytes) ==
  LET n == Len(bytes)
  IN  CASE n < OP_PUSHDATA1      -> <<n>> \o bytes
        [] n >= OP_PUSHDATA1 /\ n < Radix -> <<OP_PUSHDATA1, n>> \o bytes
        [] n >= Radix /\ n < Power[2]    -> <<OP_PUSHDATA2>> \o LittleEndian(n, 2) \o bytes
        [] n >= Power[2]        -> <<OP_PUSHDATA4>> \o LittleEndian(n, 4) \o bytes

IsSmall(n) == n = -1 \/ n \in 1 .. OP_16 - OP_1 + 1

PushNumber(n) ==
  IF IsSmall(n) THEN <<n + OP_1 - 1>> ELSE IF n = 0 THEN <<0>> ELSE Push(Serialize(n))

ScriptInit == code = <<>> /\ ops = <<>>

AppendOp(bytes, entry) ==
  /\ Len(ops) < MaxOps
  /\ code' = code \o bytes
  /\ ops' = Append(ops, entry)

Entry(kind, data, value) == [kind |-> kind, data |-> data, value |-> value]

PushData == \E d \in Data : AppendOp(Push(d), Entry("data", d, 0))
PushInt64 == \E n \in Number : AppendOp(PushNumber(n), Entry("number", <<>>, n))
PushOperation == \E o \in Opcode : AppendOp(<<o>>, Entry("op", <<>>, o))

ScriptNext == PushData \/ PushInt64 \/ PushOperation

-----------------------------------------------------------------------------
(* Reading.  GetOp2: whether there is an operation at an offset, which one, *)
(* its data, and where the reader stands afterwards.                        *)
GetOp(bytes, pc) ==
  LET op == bytes[pc + 1]
      width == CASE op < OP_PUSHDATA1 -> 0
                 [] op = OP_PUSHDATA1 -> 1
                 [] op = OP_PUSHDATA2 -> 2
                 [] op = OP_PUSHDATA4 -> 4
      start == pc + 1 + width
      size == IF width = 0 THEN op ELSE FromLittleEndian(SubSeq(bytes, pc + 2, start))
      None(next) == [ok |-> FALSE, opcode |-> Radix - 1, data |-> <<>>, next |-> next]
  IN  IF pc >= Len(bytes) THEN None(pc)
      ELSE IF op > OP_PUSHDATA4
      THEN [ok |-> TRUE, opcode |-> op, data |-> <<>>, next |-> pc + 1]
      ELSE IF start > Len(bytes) THEN None(pc + 1)
      ELSE IF start + size > Len(bytes) THEN None(start)
      ELSE [ok |-> TRUE, opcode |-> op, data |-> SubSeq(bytes, start + 1, start + size),
            next |-> start + size]

(* The operations of a script up to its end or to one that cannot be read,  *)
(* and where the reader stands then.                                        *)
Walk(bytes) ==
  LET walk[pc \in Nat] ==
        LET op == GetOp(bytes, pc)
        IN  IF op.ok
            THEN [walk[op.next] EXCEPT !.ops = <<op>> \o @]
            ELSE [ops |-> <<>>, whole |-> pc >= Len(bytes), pc |-> op.next]
  IN  walk[0]

-----------------------------------------------------------------------------
(* Properties.                                                              *)
ReadsAs(op, entry) ==
  CASE entry.kind = "data" -> op.opcode <= OP_PUSHDATA4 /\ op.data = entry.data
    [] entry.kind = "op"   -> op.opcode = entry.value
    [] entry.kind = "number" ->
         IF IsSmall(entry.value) THEN op.opcode - OP_1 + 1 = entry.value
         ELSE /\ op.opcode <= OP_PUSHDATA4
              /\ Len(op.data) <= MaxNumSize => ScriptNum(op.data) = entry.value

(* What << appends, GetOp reads: each string with its bytes whichever form  *)
(* its size has, each number with its value and sign.  A script that is cut *)
(* reads as the operations that are whole, and fails unless the cut is      *)
(* between two (script.h:257-330, 346-408, 437-497).                        *)
PushedIsRead ==
  LET all == Walk(code)
      Ends == {0} \cup {all.ops[i].next : i \in DOMAIN all.ops}
  IN  /\ all.whole /\ Len(all.ops) = Len(ops)
      /\ \A i \in DOMAIN ops : ReadsAs(all.ops[i], ops[i])
      /\ \A n \in 0 .. Len(code) :
           LET cut == Walk(SubSeq(code, 1, n))
           IN  /\ cut.whole <=> n \in Ends
               /\ cut.ops = [i \in {j \in DOMAIN all.ops : all.ops[j].next <= n} |-> all.ops[i]]
=============================================================================
