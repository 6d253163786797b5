-------------------------- MODULE TransactionBytes --------------------------
(***************************************************************************)
(* Transactions as bytes (primitives/src/transaction.cpp, transaction.h,   *)
(* interpreter.cpp, analyzetx.cpp over utils serialize.h and streams.h):   *)
(* a CMutableTransaction is built, converted to a CTransaction that keeps  *)
(* its hash, encoded, received by somebody, decoded and listed; and what   *)
(* a signature is made of, for every type of hash.                         *)
(*                                                                         *)
(* The stream is a sequence of bytes.  The fields of fixed width have one   *)
(* byte here, the field of a size behind each marker has a width of its     *)
(* own.  A hash is what was hashed, and the hash 0 the empty sequence.      *)
(***************************************************************************)
EXTENDS ScriptBytes, SequencesExt

CONSTANTS
  Width2, Width4, Width8,  (* the bytes of a size behind each marker        *)
  MAX_SIZE,                (* the largest size that is read                 *)
  Input, Output,           (* inputs and outputs that are added             *)
  MaxIn, MaxOut,           (* bounds on their numbers                       *)
  Sequence,                (* values of nSequence                           *)
  ScriptCode,              (* scripts that are signed for                   *)
  OP_CODESEPARATOR,
  AddressSize,             (* the size of a push that is shown as address   *)
  Meta,                    (* the identifier "spk"                          *)
  Expected(_)              (* the kind of item for each string of Data      *)

Marker2 == Radix - 3     (* 253                                             *)
Marker4 == Radix - 2
Marker8 == Radix - 1
Limit2 == Power[Width2] (* the sizes that no longer fit in a field         *)
Limit4 == Power[Width4]
AllBits == Radix - 1     (* -1, and numeric_limits<uint32_t>::max()         *)
CURRENT_VERSION == 1

ASSUME TransactionBytesAssumption ==
  /\ {Width2, Width4, Width8, MAX_SIZE, MaxIn, MaxOut, AddressSize} \subseteq Nat
  /\ 3 < Radix /\ 0 < Width2 /\ Width2 < Width4 /\ Width4 < Width8 /\ MAX_SIZE < Limit4
  /\ OP_CODESEPARATOR \in Byte \ 0 .. OP_PUSHDATA4
  /\ Input \subseteq [prevout : Byte, scriptSig : Seq(Byte), nSequence : Byte]
  /\ Output \subseteq [nValue : Byte, scriptPubKey : Seq(Byte)]
  /\ Meta \in Seq(Byte) /\ ScriptCode \subseteq Seq(Byte)

VARIABLES
  mtx,     (* the CMutableTransaction                                       *)
  wire,    (* what EncodeHexTx returned, and what became of it              *)
  tx,      (* the CTransaction that is decoded into                         *)
  decoded  (* what the last DecodeHexTx returned, "none" before             *)

txVars == <<mtx, wire, tx, decoded>>

In(prevout, scriptSig, sequence) ==
  [prevout |-> prevout, scriptSig |-> scriptSig, nSequence |-> sequence]
Out(value, script) == [nValue |-> value, scriptPubKey |-> script]
NullIn == In(0, <<>>, AllBits)
NullOut == Out(AllBits, <<>>)

Tx(version, vin, vout, lockTime) ==
  [nVersion |-> version, vin |-> vin, vout |-> vout, nLockTime |-> lockTime]

-----------------------------------------------------------------------------
(* Writing to a stream.                                                     *)
(* Variant: the first size that needs a marker is written without one.      *)
WriteCompactSize_OffByOne(n) ==
  CASE n <= Marker2              -> <<n>>
    [] n > Marker2 /\ n < Limit2 -> <<Marker2>> \o LittleEndian(n, Width2)
    [] n >= Limit2 /\ n < Limit4 -> <<Marker4>> \o LittleEndian(n, Width4)
    [] n >= Limit4               -> <<Marker8>> \o LittleEndian(n, Width8)

WriteCompactSize(n) ==
  CASE n < Marker2                -> <<n>>
    [] n >= Marker2 /\ n < Limit2 -> <<Marker2>> \o LittleEndian(n, Width2)
    [] n >= Limit2 /\ n < Limit4  -> <<Marker4>> \o LittleEndian(n, Width4)
    [] n >= Limit4                -> <<Marker8>> \o LittleEndian(n, Width8)

WriteScript(script) == WriteCompactSize(Len(script)) \o script

(* Of inputs or outputs that are written.                                   *)
WriteVector(written) == WriteCompactSize(Len(written)) \o FlattenSeq(written)

WriteIn(in) == <<in.prevout>> \o WriteScript(in.scriptSig) \o <<in.nSequence>>
WriteOut(out) == <<out.nValue>> \o WriteScript(out.scriptPubKey)

WriteTx(t) ==
  <<t.nVersion>>
  \o WriteVector([i \in DOMAIN t.vin |-> WriteIn(t.vin[i])])
  \o WriteVector([i \in DOMAIN t.vout |-> WriteOut(t.vout[i])])
  \o <<t.nLockTime>>

-----------------------------------------------------------------------------
(* Reading from a stream.  A read past the end throws; the object keeps     *)
(* what was read until then, and the stream its place.                      *)
Read(value, pos, ok) == [value |-> value, pos |-> pos, ok |-> ok]

ReadField(bytes, pos, old) ==
  IF pos < Len(bytes) THEN Read(bytes[pos + 1], pos + 1, TRUE) ELSE Read(old, pos, FALSE)

ReadBytes(bytes, pos, size) ==
  IF pos + size <= Len(bytes)
  THEN Read(SubSeq(bytes, pos + 1, pos + size), pos + size, TRUE)
  ELSE Read([i \in 1 .. size |-> 0], pos, FALSE)

(* The size behind a marker, which is at least what needs the marker.       *)
Least(field, size, least) ==
  Read(size, field.pos, field.ok /\ size >= least /\ size <= MAX_SIZE)

SizeIn(field, least) == Least(field, FromLittleEndian(field.value), least)

ReadSize(bytes, pos, width, least) == SizeIn(ReadBytes(bytes, pos, width), least)

(* Variant: a size may have a longer form than it needs.                    *)
CompactSize_AnyForm(first, bytes) ==
  CASE ~first.ok \/ first.value < Marker2 -> first
    [] first.ok /\ first.value = Marker2  -> ReadSize(bytes, first.pos, Width2, 0)
    [] first.ok /\ first.value = Marker4  -> ReadSize(bytes, first.pos, Width4, 0)
    [] first.ok /\ first.value = Marker8  -> ReadSize(bytes, first.pos, Width8, 0)

CompactSize(first, bytes) ==
  CASE ~first.ok -> first
    [] first.ok /\ first.value < Marker2 -> [first EXCEPT !.ok = first.value <= MAX_SIZE]
    [] first.ok /\ first.value = Marker2 -> ReadSize(bytes, first.pos, Width2, Marker2)
    [] first.ok /\ first.value = Marker4 -> ReadSize(bytes, first.pos, Width4, Limit2)
    [] first.ok /\ first.value = Marker8 -> ReadSize(bytes, first.pos, Width8, Limit4)

ReadCompactSize(bytes, pos) == CompactSize(ReadField(bytes, pos, 0), bytes)

(* The string is resized before it is read.                                 *)
ScriptOf(n, bytes) == IF n.ok THEN ReadBytes(bytes, n.pos, n.value) ELSE Read(<<>>, n.pos, FALSE)
ReadScript(bytes, pos) == ScriptOf(ReadCompactSize(bytes, pos), bytes)

(* An object, one part after the other: a part that was read goes into it   *)
(* and the next one is read, and one that was not ends the object.          *)
Into(object, read) == [read EXCEPT !.value = object]

InSequence(in, read) == Into([in EXCEPT !.nSequence = read.value], read)
InScript(in, read, bytes) ==
  IF read.ok THEN InSequence([in EXCEPT !.scriptSig = read.value],
                             ReadField(bytes, read.pos, in.nSequence))
  ELSE Into([in EXCEPT !.scriptSig = read.value], read)
InPrevout(in, read, bytes) ==
  IF read.ok THEN InScript([in EXCEPT !.prevout = read.value], ReadScript(bytes, read.pos), bytes)
  ELSE Into(in, read)

ReadIn(bytes, pos) == InPrevout(NullIn, ReadField(bytes, pos, NullIn.prevout), bytes)

OutScript(out, read) == Into([out EXCEPT !.scriptPubKey = read.value], read)
OutAmount(out, read, bytes) ==
  IF read.ok THEN OutScript([out EXCEPT !.nValue = read.value], ReadScript(bytes, read.pos))
  ELSE Into(out, read)

ReadOut(bytes, pos) == OutAmount(NullOut, ReadField(bytes, pos, NullOut.nValue), bytes)

(* The vector is cleared, resized to the size that is read and filled.      *)
AppendTo(vector, read) == Into(Append(vector, read.value), read)

FillOne(of, bytes, before) ==
  IF ~before.ok
  THEN Into(Append(before.value, IF of = "vin" THEN NullIn ELSE NullOut), before)
  ELSE AppendTo(before.value, IF of = "vin" THEN ReadIn(bytes, before.pos)
                                            ELSE ReadOut(bytes, before.pos))

Fill(of, bytes, n) ==
  LET fill[i \in Nat] == IF i = 0 THEN Read(<<>>, n.pos, TRUE) ELSE FillOne(of, bytes, fill[i - 1])
  IN  IF n.ok THEN fill[n.value] ELSE Read(<<>>, n.pos, FALSE)

ReadVector(of, bytes, pos) == Fill(of, bytes, ReadCompactSize(bytes, pos))

(* Into the fields of the old transaction.                                  *)
TxLockTime(t, read) == Into([t EXCEPT !.nLockTime = read.value], read)
TxOutputs(t, read, bytes) ==
  IF read.ok THEN TxLockTime([t EXCEPT !.vout = read.value], ReadField(bytes, read.pos, t.nLockTime))
  ELSE Into([t EXCEPT !.vout = read.value], read)
TxInputs(t, read, bytes) ==
  IF read.ok THEN TxOutputs([t EXCEPT !.vin = read.value], ReadVector("vout", bytes, read.pos), bytes)
  ELSE Into([t EXCEPT !.vin = read.value], read)
TxVersion(t, read, bytes) ==
  IF read.ok THEN TxInputs([t EXCEPT !.nVersion = read.value], ReadVector("vin", bytes, read.pos), bytes)
  ELSE Into(t, read)

ReadTx(bytes, old) == TxVersion(old, ReadField(bytes, 0, old.nVersion), bytes)

-----------------------------------------------------------------------------
(* What is signed.  Inputs and outputs count from 1 here.                   *)
SIGHASH_ALL == 1
SIGHASH_NONE == 2
SIGHASH_SINGLE == 3
SIGHASH_ANYONECANPAY == 128
HashType == {b + a : b \in {SIGHASH_ALL, SIGHASH_NONE, SIGHASH_SINGLE}, a \in {0, SIGHASH_ANYONECANPAY}}

Base(type) == type % 32
AnyoneCanPay(type) == type >= SIGHASH_ANYONECANPAY

(* The script without its code separators.  Of a script that cannot be read *)
(* to its end the size is that of the whole, and what follows the place     *)
(* where reading stopped is left out.                                       *)
SerializeScriptCode(script) ==
  LET walk == Walk(script)
      separators == {walk.ops[i].next :
                       i \in {j \in DOMAIN walk.ops : walk.ops[j].opcode = OP_CODESEPARATOR}}
  IN  WriteCompactSize(Len(script) - Len(SelectSeq(walk.ops, LAMBDA op : op.opcode = OP_CODESEPARATOR)))
      \o FlattenSeq([i \in 1 .. walk.pc |-> IF i \in separators THEN <<>> ELSE <<script[i]>>])

(* Variant: with SIGHASH_SINGLE the sequences of the other inputs stay.     *)
SerializeInput_KeepsSequence(t, i, nIn, type, script) ==
  LET n == IF AnyoneCanPay(type) THEN nIn ELSE i
  IN  <<t.vin[n].prevout>>
      \o (IF n = nIn THEN SerializeScriptCode(script) ELSE WriteScript(<<>>))
      \o <<IF n # nIn /\ Base(type) = SIGHASH_NONE THEN 0 ELSE t.vin[n].nSequence>>

SerializeInput(t, i, nIn, type, script) ==
  LET n == IF AnyoneCanPay(type) THEN nIn ELSE i
  IN  <<t.vin[n].prevout>>
      \o (IF n = nIn THEN SerializeScriptCode(script) ELSE WriteScript(<<>>))
      \o <<IF n # nIn /\ Base(type) # SIGHASH_ALL THEN 0 ELSE t.vin[n].nSequence>>

SerializeOutput(t, i, nIn, type) ==
  WriteOut(IF Base(type) = SIGHASH_SINGLE /\ i # nIn THEN NullOut ELSE t.vout[i])

SerializeForSignature(t, nIn, type, script) ==
  LET nInputs == IF AnyoneCanPay(type) THEN 1 ELSE Len(t.vin)
      nOutputs == CASE Base(type) = SIGHASH_NONE   -> 0
                    [] Base(type) = SIGHASH_SINGLE -> nIn
                    [] OTHER -> Len(t.vout)
  IN  <<t.nVersion>>
      \o WriteCompactSize(nInputs)
      \o FlattenSeq([i \in 1 .. nInputs |-> SerializeInput(t, i, nIn, type, script)])
      \o WriteCompactSize(nOutputs)
      \o FlattenSeq([i \in 1 .. nOutputs |-> SerializeOutput(t, i, nIn, type)])
      \o <<t.nLockTime>>

(* The hash 1 stands for an input, or with SIGHASH_SINGLE an output, that   *)
(* is not there.                                                            *)
One == <<>>

SignatureHash(script, t, nIn, type) ==
  IF nIn > Len(t.vin) \/ (Base(type) = SIGHASH_SINGLE /\ nIn > Len(t.vout)) THEN One
  ELSE Append(SerializeForSignature(t, nIn, type, script), type)

-----------------------------------------------------------------------------
(* analyzeScript: an item for every operation, until one cannot be read.    *)
(* For a push of one byte or none it looks at bytes behind the data; beyond *)
(* stands for what is there.                                                *)
Item(kind, data) == [kind |-> kind, data |-> data]

(* Variant: only the first byte is looked at.                               *)
LooksLikeScript_FirstByte(data, beyond) ==
  (IF Len(data) > 0 THEN data[1] ELSE beyond) >= OP_1

LooksLikeScript(data, beyond) ==
  /\ (IF Len(data) > 0 THEN data[1] ELSE beyond) >= OP_1
  /\ (IF Len(data) > 1 THEN data[2] ELSE beyond) <= OP_16

(* ValueString: a number, the detail of a metadata element, or hex digits.  *)
ValueKind(data) ==
  IF Len(data) <= MaxNumSize THEN "number"
  ELSE IF SubSeq(data, 1, Len(Meta)) = Meta THEN "detail" ELSE "hex"

(* A hash of a key or a script is shown as an address if there is a function*)
(* for it, convertAddr.                                                     *)
Shown(op, beyond, convertAddr) ==
  CASE op.opcode > OP_PUSHDATA4 -> Item("op", <<op.opcode>>)
    [] op.opcode <= OP_PUSHDATA4 /\ Len(op.data) = AddressSize ->
         Item(IF convertAddr THEN "address" ELSE ValueKind(op.data), op.data)
    [] op.opcode = 0 -> Item("op", <<0>>)
    [] op.opcode \in 1 .. OP_PUSHDATA4 /\ Len(op.data) # AddressSize ->
         Item(IF LooksLikeScript(op.data, beyond) THEN "script" ELSE ValueKind(op.data), op.data)

(* A push that looks like a script is analysed in its turn, without the     *)
(* function.                                                                *)
AnalyzeScript(script, beyond, convertAddr) ==
  LET analysis[s \in Seq(Byte), converts \in BOOLEAN] ==
        LET walk == Walk(s)
            Part(op) ==
              LET item == Shown(op, beyond, converts)
              IN  IF item.kind = "script"
                  THEN <<Item("script", <<>>)>> \o analysis[item.data, FALSE]
                  ELSE <<item>>
        IN  FlattenSeq([i \in DOMAIN walk.ops |-> Part(walk.ops[i])])
            \o (IF walk.whole THEN <<>> ELSE <<Item("error", <<>>)>>)
  IN  analysis[script, convertAddr]

-----------------------------------------------------------------------------
NewTx == Tx(CURRENT_VERSION, <<>>, <<>>, 0)
NewObject == [contents |-> NewTx, hash |-> <<>>]

TxInit ==
  /\ mtx = NewTx
  /\ wire = <<>>
  /\ tx = NewObject
  /\ decoded = "none"

AddInput ==
  /\ wire = <<>> /\ Len(mtx.vin) < MaxIn
  /\ \E in \in Input : mtx' = [mtx EXCEPT !.vin = Append(@, in)]
  /\ UNCHANGED <<wire, tx, decoded>>

AddOutput ==
  /\ wire = <<>> /\ Len(mtx.vout) < MaxOut
  /\ \E out \in Output : mtx' = [mtx EXCEPT !.vout = Append(@, out)]
  /\ UNCHANGED <<wire, tx, decoded>>

Encode ==
  /\ wire = <<>>
  /\ wire' = WriteTx(mtx)
  /\ UNCHANGED <<mtx, tx, decoded>>

(* The text is cut, goes on behind the transaction, or has a marker more,   *)
(* which gives the forms of a size that its writer does not choose.         *)
Damage ==
  /\ wire # <<>> /\ wire = WriteTx(mtx) /\ tx = NewObject /\ decoded = "none"
  /\ \/ \E n \in 0 .. Len(wire) - 1 : wire' = SubSeq(wire, 1, n)
     \/ wire' = Append(wire, 0)
     \/ \E i \in DOMAIN wire, marker \in {Marker2, Marker4, Marker8} :
          wire' = InsertAt(wire, i, marker)
  /\ UNCHANGED <<mtx, tx, decoded>>

(* DecodeHexTx: a transaction that is read to its end gets its hash, and    *)
(* what follows it is not looked at; one that is not keeps the fields that  *)
(* were read and the hash it had.                                           *)
Decoded(read) ==
  /\ tx' = [contents |-> read.value, hash |-> IF read.ok THEN WriteTx(read.value) ELSE tx.hash]
  /\ decoded' = IF read.ok THEN "accepted" ELSE "refused"

DecodeHexTx ==
  /\ wire # <<>> /\ decoded = "none"
  /\ Decoded(ReadTx(wire, tx.contents))
  /\ UNCHANGED <<mtx, wire>>

(* After a damaged text the transaction comes again, for the same object.   *)
ReceiveAgain ==
  /\ decoded # "none" /\ wire # WriteTx(mtx)
  /\ wire' = WriteTx(mtx) /\ decoded' = "none"
  /\ UNCHANGED <<mtx, tx>>

BytesInit == ScriptInit /\ TxInit

BytesNext ==
  \/ mtx = NewTx /\ wire = <<>> /\ ScriptNext /\ UNCHANGED txVars
  \/ /\ code = <<>>
     /\ AddInput \/ AddOutput \/ Encode \/ Damage \/ DecodeHexTx \/ ReceiveAgain
     /\ UNCHANGED scriptVars

BytesSpec == BytesInit /\ [][BytesNext]_<<scriptVars, txVars>>

-----------------------------------------------------------------------------
(* Properties.                                                              *)
Fits(t) ==
  /\ Len(t.vin) <= MAX_SIZE /\ Len(t.vout) <= MAX_SIZE
  /\ \A i \in DOMAIN t.vin : Len(t.vin[i].scriptSig) <= MAX_SIZE
  /\ \A i \in DOMAIN t.vout : Len(t.vout[i].scriptPubKey) <= MAX_SIZE

(* A transaction is decoded as it was encoded, unless a part of it is too  *)
(* large to be read, whatever an earlier text left in the object; and none  *)
(* that was cut is taken for the whole (transaction.h:218-226,              *)
(* serialize.h:194-263, 406-438).                                           *)
DecodesWhatWasEncoded ==
  decoded # "none" =>
    /\ wire = WriteTx(mtx) =>
         IF Fits(mtx) THEN decoded = "accepted" /\ tx.contents = mtx ELSE decoded = "refused"
    /\ IsStrictPrefix(wire, WriteTx(mtx)) => decoded = "refused"

(* A transaction has one encoding: what is accepted is, as far as it was    *)
(* read, the encoding of the result, so that its hash is that of the bytes  *)
(* that came (transaction.h:218-226, serialize.h:226-263).                  *)
AcceptedIsEncoded ==
  decoded = "accepted" =>
    /\ tx.hash = WriteTx(tx.contents)
    /\ IsPrefix(tx.hash, wire)

(* The parts of a transaction that a signature of a type is about.          *)
Exists(t, nIn, type) == nIn <= Len(t.vin) /\ (Base(type) = SIGHASH_SINGLE => nIn <= Len(t.vout))

Covered(t, nIn, type) ==
  LET Spends(i, n) == [at |-> n, prevout |-> t.vin[i].prevout,
                       sequence |-> IF i = nIn \/ Base(type) = SIGHASH_ALL THEN t.vin[i].nSequence ELSE 0]
      Pays(i) == [at |-> i, out |-> t.vout[i]]
  IN  [version |-> t.nVersion, lockTime |-> t.nLockTime,
       mine |-> IF AnyoneCanPay(type) THEN 0 ELSE nIn,
       spends |-> IF AnyoneCanPay(type) THEN {Spends(nIn, 0)} ELSE {Spends(i, i) : i \in DOMAIN t.vin},
       pays |-> CASE Base(type) = SIGHASH_ALL    -> {Pays(i) : i \in DOMAIN t.vout}
                  [] Base(type) = SIGHASH_NONE   -> {}
                  [] Base(type) = SIGHASH_SINGLE -> {Pays(nIn)}]

WithoutSeparators(script) ==
  SelectSeq(Walk(script).ops, LAMBDA op : op.opcode # OP_CODESEPARATOR)

OperationsOf(script) ==
  [i \in DOMAIN WithoutSeparators(script) |->
     <<WithoutSeparators(script)[i].opcode, WithoutSeparators(script)[i].data>>]

(* One change to a transaction.                                             *)
Changed(t) ==
  {[t EXCEPT !.nVersion = @ + 1], [t EXCEPT !.nLockTime = @ + 1]}
  \cup {[t EXCEPT !.vin = Append(@, in)] : in \in Input}
  \cup {[t EXCEPT !.vin[i] = in] : i \in DOMAIN t.vin, in \in Input}
  \cup {[t EXCEPT !.vin[i].nSequence = s] : i \in DOMAIN t.vin, s \in Sequence}
  \cup {[t EXCEPT !.vin[i].scriptSig = s] : i \in DOMAIN t.vin, s \in ScriptCode}
  \cup {[t EXCEPT !.vout = Append(@, out)] : out \in Output}
  \cup {[t EXCEPT !.vout[i] = out] : i \in DOMAIN t.vout, out \in Output}

(* A signature is good for another transaction, input or script exactly if  *)
(* they agree on what its type covers: no part is forgotten, and none of    *)
(* those left to others is fixed, above all not the scripts that hold the   *)
(* signatures.  For an input or output that does not exist the hash is one  *)
(* constant (interpreter.cpp:29-126).                                       *)
SignatureFixes ==
  wire = <<>> /\ code = <<>> =>
    \A type \in HashType, m, n \in 1 .. MaxIn, a \in ScriptCode :
      \A other \in (Changed(mtx) \X {a}) \cup ({mtx} \X ScriptCode) :
        LET t == other[1]
            b == other[2]
        IN  SignatureHash(a, mtx, m, type) = SignatureHash(b, t, n, type) <=>
              IF Exists(mtx, m, type) /\ Exists(t, n, type)
              THEN Covered(mtx, m, type) = Covered(t, n, type) /\ OperationsOf(a) = OperationsOf(b)
              ELSE ~Exists(mtx, m, type) /\ ~Exists(t, n, type)

(* An analysis lists every operation of a script of addresses, keys,        *)
(* signatures, metadata and small numbers: the redeem script that is pushed *)
(* to spend an output is opened, and nothing else is taken for a script,    *)
(* whatever is behind the data.  Addresses are shown as such in an output,  *)
(* in an input or an opened script as bytes (analyzetx.cpp:40-128).         *)
AnalysisShowsElements ==
  LET all == Walk(code).ops
      KindOf(data, convertAddr) ==
        IF Expected(data) = "address" /\ ~convertAddr THEN "hex" ELSE Expected(data)
      isPlain(op, convertAddr) ==
        op.kind = "data" /\ KindOf(op.data, convertAddr) \in {"detail", "address"}
  IN  (\A i \in DOMAIN ops : ops[i].kind = "number" => IsSmall(ops[i].value)) =>
        \A beyond \in Byte, convertAddr \in BOOLEAN :
          LET opened == AnalyzeScript(code, beyond, convertAddr)
          IN  /\ \A i \in DOMAIN ops : ops[i].kind = "data" =>
                   Shown(all[i], beyond, convertAddr).kind = KindOf(ops[i].data, convertAddr)
              /\ \A i \in DOMAIN opened : opened[i].kind # "error"
              /\ Len(SelectSeq(opened, LAMBDA item : item.kind \in {"detail", "address"}))
                   = Len(SelectSeq(ops, LAMBDA op : isPlain(op, convertAddr)))
=============================================================================
