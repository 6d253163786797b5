-------------------------- MODULE TypedElementsProofs --------------------------
(***************************************************************************)
(* Proofs about DetailsScript and the modules over it, for every radix,    *)
(* names, codes and values and elements of any length:                     *)
(*   - parameters are read as they were written, and a script that is cut  *)
(*     inside a parameter is refused;                                      *)
(*   - the fields of an entity are the first values written for them;      *)
(*   - an element is read by the getter of its kind and by no other, and   *)
(*     what a getter accepts its setter would write;                       *)
(*   - the scripts cached in an element are read in the order they were    *)
(*     written, and those that are whole when the element is cut.          *)
(***************************************************************************)
EXTENDS TypedElements, BasicLemmas, SequenceTheorems, TLAPS

-----------------------------------------------------------------------------
(* Numbers and their bytes.                                                 *)
LEMMA RadixIs == Radix \in Nat /\ Radix > 3 /\ Byte = 0 .. Radix - 1
BY DetailsAssumption DEF Byte

LEMMA PowerIs ==
  /\ Power[0] = 1
  /\ \A n \in Nat : Power[n] \in Nat \ {0} /\ Power[n + 1] = Radix * Power[n]
<1> DEFINE H == [p \in Nat \X Nat |-> Radix * p[2]]
<1>1. H \in [Nat \X Nat -> Nat] /\ \A n, x \in Nat : H[<<n, x>>] = Radix * x
  <2>1. \A p \in Nat \X Nat : Radix * p[2] \in Nat
    <3>1. \A p \in Nat \X Nat : p[2] \in Nat
      OBVIOUS
    <3> QED
      BY <3>1, RadixIs
  <2>2. \A n, x \in Nat : H[<<n, x>>] = Radix * x
    OBVIOUS
  <2> QED
    BY <2>1, <2>2
<1> HIDE DEF H
<1>2. PICK f : Upward(Nat, 1, H, f)
  BY <1>1, UpwardExists
<1>3. /\ f \in [Nat -> Nat] /\ f[0] = 1
      /\ \A n \in Nat : f[n + 1] = Radix * f[n]
  BY <1>1, <1>2 DEF Upward
<1>4. \A n \in Nat : f[n] = IF n = 0 THEN 1 ELSE Radix * f[n - 1]
  <2> SUFFICES ASSUME NEW n \in Nat, n # 0 PROVE f[n] = Radix * f[n - 1]
    BY <1>3
  <2>1. n - 1 \in Nat /\ (n - 1) + 1 = n
    OBVIOUS
  <2> QED
    BY <1>3, <2>1
<1>5. f = [n \in Nat |-> IF n = 0 THEN 1 ELSE Radix * f[n - 1]]
  <2>1. f = [n \in Nat |-> f[n]]
    BY <1>3
  <2> QED
    BY <1>4, <2>1
<1>6. Power = [n \in Nat |-> IF n = 0 THEN 1 ELSE Radix * Power[n - 1]]
  BY <1>5 DEF Power
<1>7. Power[0] = 1 /\ \A n \in Nat : Power[n + 1] = Radix * Power[n]
  <2>1. \A n \in Nat : Power[n] = IF n = 0 THEN 1 ELSE Radix * Power[n - 1]
    BY <1>6
  <2>2. ASSUME NEW n \in Nat PROVE Power[n + 1] = Radix * Power[n]
    <3>1. n + 1 \in Nat /\ n + 1 # 0 /\ (n + 1) - 1 = n
      OBVIOUS
    <3> QED
      BY <2>1, <3>1
  <2> QED
    BY <2>1, <2>2
<1> DEFINE T == {n \in Nat : Power[n] \in Nat \ {0}}
<1>8. 0 \in T
  BY <1>7
<1>9. \A n \in Nat : n \in T => n + 1 \in T
  <2>1. \A r, p \in Nat \ {0} : r * p \in Nat \ {0}
    OBVIOUS
  <2>2. Radix \in Nat \ {0}
    BY RadixIs
  <2> HIDE DEF T
  <2>3. \A n \in Nat : Power[n] \in Nat \ {0} => Power[n + 1] \in Nat \ {0}
    BY <1>7, <2>1, <2>2
  <2> QED
    BY <2>3 DEF T
<1>10. Nat \subseteq T
  <2> HIDE DEF T
  <2> QED
    BY <1>8, <1>9, AllNaturals
<1> QED
  BY <1>7, <1>10

-----------------------------------------------------------------------------
(* GetLE: its recursive function, its type, and that it undoes PutLE.       *)
AreBytes(bytes, offset, size) == \A i \in 1 .. size : bytes[offset + i] \in Nat

IsSum(bytes, offset, size, sum) ==
  /\ sum \in [0 .. size -> Nat] /\ sum[0] = 0
  /\ \A i \in Nat : i < size => sum[i + 1] = sum[i] + bytes[offset + i + 1] * Power[i]

LEMMA GetLEIs ==
  ASSUME NEW bytes, NEW offset \in Nat, NEW size \in Nat, AreBytes(bytes, offset, size)
  PROVE  \E sum : IsSum(bytes, offset, size, sum) /\ GetLE(bytes, offset, size) = sum[size]
<1> DEFINE H == [p \in Nat \X Nat |-> IF p[1] < size THEN p[2] + bytes[offset + p[1] + 1] * Power[p[1]] ELSE 0]
<1>1. ASSUME NEW i \in Nat, NEW x \in Nat
      PROVE  /\ H[<<i, x>>] \in Nat
             /\ i < size => H[<<i, x>>] = x + bytes[offset + i + 1] * Power[i]
  <2>1. H[<<i, x>>] = IF i < size THEN x + bytes[offset + i + 1] * Power[i] ELSE 0
    OBVIOUS
  <2>2. i < size => bytes[offset + i + 1] \in Nat
    <3>1. i < size => i + 1 \in 1 .. size /\ offset + (i + 1) = offset + i + 1
      OBVIOUS
    <3> QED
      BY <3>1 DEF AreBytes
  <2>3. Power[i] \in Nat
    BY PowerIs
  <2> HIDE DEF H
  <2> QED
    BY <2>1, <2>2, <2>3
<1>2. H \in [Nat \X Nat -> Nat]
  <2>1. \A p \in Nat \X Nat : p[1] \in Nat /\ p[2] \in Nat /\ p = <<p[1], p[2]>>
    OBVIOUS
  <2>2. \A p \in Nat \X Nat : H[p] \in Nat
    BY <1>1, <2>1
  <2>3. H = [p \in Nat \X Nat |-> H[p]]
    OBVIOUS
  <2> HIDE DEF H
  <2> QED
    BY <2>2, <2>3
<1> HIDE DEF H
<1>3. PICK f : UpTo(Nat, 0, H, size, f)
  BY <1>2, UpToExists
<1>4. /\ f \in [0 .. size -> Nat] /\ f[0] = 0
      /\ \A i \in Nat : i < size => f[i + 1] = f[i] + bytes[offset + i + 1] * Power[i]
  <2>1. f \in [0 .. size -> Nat] /\ f[0] = 0 /\ \A i \in Nat : i < size => f[i + 1] = H[<<i, f[i]>>]
    BY <1>3 DEF UpTo
  <2>2. \A i \in Nat : i < size => f[i] \in Nat
    BY <2>1
  <2> QED
    BY <1>1, <2>1, <2>2
<1>5. f = [i \in 0 .. size |-> IF i = 0 THEN 0 ELSE f[i - 1] + bytes[offset + i] * Power[i - 1]]
  <2>1. ASSUME NEW i \in 0 .. size, i # 0 PROVE f[i] = f[i - 1] + bytes[offset + i] * Power[i - 1]
    <3>1. i - 1 \in Nat /\ i - 1 < size /\ (i - 1) + 1 = i /\ offset + (i - 1) + 1 = offset + i
      BY <2>1
    <3> QED
      BY <1>4, <3>1
  <2>2. f = [i \in 0 .. size |-> f[i]]
    BY <1>4
  <2>3. \A i \in 0 .. size : f[i] = IF i = 0 THEN 0 ELSE f[i - 1] + bytes[offset + i] * Power[i - 1]
    BY <1>4, <2>1
  <2> QED
    BY <2>2, <2>3
<1> DEFINE sum[i \in 0 .. size] ==
             IF i = 0 THEN 0 ELSE sum[i - 1] + bytes[offset + i] * Power[i - 1]
<1>6. sum = [i \in 0 .. size |-> IF i = 0 THEN 0 ELSE sum[i - 1] + bytes[offset + i] * Power[i - 1]]
  BY <1>5
<1>7. GetLE(bytes, offset, size) = sum[size]
  BY DEF GetLE
<1> HIDE DEF sum
<1>8. sum[0] = 0
  BY <1>6
<1>9. ASSUME NEW i \in Nat, i < size PROVE sum[i + 1] = sum[i] + bytes[offset + i + 1] * Power[i]
  <2>1. i + 1 \in 0 .. size /\ i + 1 # 0 /\ (i + 1) - 1 = i /\ offset + (i + 1) = offset + i + 1
    BY <1>9
  <2> QED
    BY <1>6, <2>1
<1> DEFINE T == {i \in Nat : i <= size => sum[i] \in Nat}
<1>10. 0 \in T
  BY <1>8
<1>11. ASSUME NEW i \in Nat, i \in T PROVE i + 1 \in T
  <2> SUFFICES ASSUME i + 1 <= size PROVE sum[i + 1] \in Nat
    OBVIOUS
  <2>1. i < size /\ i + 1 \in 1 .. size /\ offset + (i + 1) = offset + i + 1 /\ sum[i] \in Nat
    BY <1>11
  <2>2. bytes[offset + i + 1] \in Nat /\ Power[i] \in Nat
    BY <2>1, PowerIs DEF AreBytes
  <2>3. sum[i + 1] = sum[i] + bytes[offset + i + 1] * Power[i]
    BY <1>9, <2>1
  <2> QED
    BY <2>1, <2>2, <2>3
<1>12. \A i \in 0 .. size : sum[i] \in Nat
  <2> HIDE DEF T
  <2>1. Nat \subseteq T
    BY <1>10, <1>11, AllNaturals
  <2> QED
    BY <2>1 DEF T
<1>13. sum \in [0 .. size -> Nat]
  BY <1>6, <1>12
<1> QED
  BY <1>7, <1>8, <1>9, <1>13 DEF IsSum

LEMMA GetLEType ==
  ASSUME NEW bytes, NEW offset \in Nat, NEW size \in Nat, AreBytes(bytes, offset, size)
  PROVE  GetLE(bytes, offset, size) \in Nat
<1>1. PICK sum : IsSum(bytes, offset, size, sum) /\ GetLE(bytes, offset, size) = sum[size]
  BY GetLEIs
<1> QED
  BY <1>1 DEF IsSum

LEMMA PutLEIs ==
  ASSUME NEW v \in Int, NEW size \in Nat
  PROVE  PutLE(v, size) \in Seq(Byte) /\ Len(PutLE(v, size)) = size
<1>1. ASSUME NEW i \in 1 .. size PROVE (v \div Power[i - 1]) % Radix \in Byte
  <2>1. i - 1 \in Nat
    OBVIOUS
  <2>2. Power[i - 1] \in Nat \ {0}
    BY <2>1, PowerIs
  <2>3. v \div Power[i - 1] \in Int
    BY <2>2
  <2> QED
    BY <2>3, RadixIs
<1> QED
  BY <1>1 DEF PutLE

(* Written and read, a number comes back modulo what its bytes can hold.    *)
LEMMA LittleEndian ==
  ASSUME NEW v \in Int, NEW size \in Nat, NEW bytes, NEW offset \in Nat,
         \A i \in 1 .. size : bytes[offset + i] = PutLE(v, size)[i]
  PROVE  GetLE(bytes, offset, size) = v % Power[size]
<1>1. \A i \in 1 .. size : bytes[offset + i] = (v \div Power[i - 1]) % Radix
  BY DEF PutLE
<1>2. AreBytes(bytes, offset, size)
  <2>1. \A i \in 1 .. size : PutLE(v, size)[i] \in Byte
    BY PutLEIs, ElementOfSeq
  <2> QED
    BY <2>1, RadixIs DEF AreBytes
<1>3. PICK sum : IsSum(bytes, offset, size, sum) /\ GetLE(bytes, offset, size) = sum[size]
  BY <1>2, GetLEIs
<1> DEFINE T == {i \in Nat : i <= size => sum[i] = v % Power[i]}
<1>4. 0 \in T
  <2>1. v % 1 = 0
    OBVIOUS
  <2> QED
    BY <1>3, <2>1, PowerIs DEF IsSum
<1>5. ASSUME NEW i \in Nat, i \in T PROVE i + 1 \in T
  <2> SUFFICES ASSUME i + 1 <= size PROVE sum[i + 1] = v % Power[i + 1]
    OBVIOUS
  <2>1. i < size /\ i + 1 \in 1 .. size /\ offset + (i + 1) = offset + i + 1 /\ (i + 1) - 1 = i
        /\ sum[i] = v % Power[i]
    BY <1>5
  <2>2. bytes[offset + i + 1] = (v \div Power[i]) % Radix
    BY <1>1, <2>1
  <2>3. Power[i] \in Nat \ {0} /\ Power[i + 1] = Radix * Power[i]
    BY PowerIs
  <2>4. v % (Radix * Power[i]) = (v % Power[i]) + ((v \div Power[i]) % Radix) * Power[i]
    <3>1. Radix \in Nat \ {0} /\ Power[i] \in Nat \ {0}
      BY <2>3, RadixIs
    <3> QED
      BY ONLY <3>1, NextDigit, v \in Int
  <2> QED
    BY <1>3, <2>1, <2>2, <2>3, <2>4 DEF IsSum
<1>6. size \in T
  <2> HIDE DEF T
  <2>1. Nat \subseteq T
    BY <1>4, <1>5, AllNaturals
  <2> QED
    BY <2>1
<1> QED
  BY <1>3, <1>6

-----------------------------------------------------------------------------
(* Bytes at a place of a script.                                            *)
At(bytes, offset, part) == \A i \in 1 .. Len(part) : bytes[offset + i] = part[i]

LEMMA AtConcat ==
  ASSUME NEW bytes, NEW offset \in Nat, NEW s \in Seq(Byte), NEW t \in Seq(Byte),
         At(bytes, offset, s \o t)
  PROVE  At(bytes, offset, s) /\ At(bytes, offset + Len(s), t)
<1>1. /\ Len(s) \in Nat /\ Len(t) \in Nat /\ Len(s \o t) = Len(s) + Len(t)
      /\ \A i \in 1 .. Len(s) + Len(t) : (s \o t)[i] = IF i <= Len(s) THEN s[i] ELSE t[i - Len(s)]
  BY ConcatProperties
<1>2. \A i \in 1 .. Len(s) + Len(t) : bytes[offset + i] = (s \o t)[i]
  BY <1>1 DEF At
<1>3. ASSUME NEW i \in 1 .. Len(s) PROVE bytes[offset + i] = s[i]
  BY <1>1, <1>2
<1>4. ASSUME NEW i \in 1 .. Len(t) PROVE bytes[offset + Len(s) + i] = t[i]
  <2>1. Len(s) + i \in 1 .. Len(s) + Len(t) /\ ~(Len(s) + i <= Len(s)) /\ (Len(s) + i) - Len(s) = i
        /\ offset + (Len(s) + i) = offset + Len(s) + i
    BY <1>1
  <2> QED
    BY <1>1, <1>2, <2>1
<1> QED
  BY <1>3, <1>4 DEF At

-----------------------------------------------------------------------------
(* Variable length integers.                                                *)
LEMMA VarIntSizeIs ==
  ASSUME NEW b \in Byte
  PROVE  VarIntSize(b) \in {0, 2, 4, 8} /\ (b < Marker2 <=> VarIntSize(b) = 0)
BY RadixIs DEF VarIntSize, Marker2, Marker4, Marker8

LEMMA VarIntShape ==
  ASSUME NEW v \in Nat
  PROVE  \/ v < Marker2 /\ v \in Byte /\ PutVarInt(v) = <<v>>
         \/ \E size \in {2, 4, 8}, marker \in Byte :
              /\ VarIntSize(marker) = size /\ (v < Power[8] => v < Power[size])
              /\ PutVarInt(v) = <<marker>> \o PutLE(v, size)
<1>1. Power[2] \in Nat /\ Power[4] \in Nat /\ Power[2] >= Marker2 + 2 /\ Power[4] >= Power[2]
  <2>1. Power[0] = 1 /\ Power[1] = Radix * Power[0] /\ Power[2] = Radix * Power[1]
        /\ Power[3] = Radix * Power[2] /\ Power[4] = Radix * Power[3]
    <3>1. \A n \in Nat : Power[n + 1] = Radix * Power[n]
      BY PowerIs
    <3>2. Power[0 + 1] = Radix * Power[0] /\ Power[1 + 1] = Radix * Power[1]
          /\ Power[2 + 1] = Radix * Power[2] /\ Power[3 + 1] = Radix * Power[3]
      BY <3>1
    <3> QED
      BY <3>2, PowerIs
  <2>2. \A r, p \in Nat : r > 3 => r * p \in Nat /\ r * p >= p
    OBVIOUS
  <2>3. Radix \in Nat /\ Radix > 3
    BY RadixIs
  <2>4. Power[1] = Radix
    BY <2>1, <2>3
  <2>5. Power[2] \in Nat /\ Power[2] >= Radix
    BY <2>1, <2>2, <2>3, <2>4
  <2>6. Power[3] \in Nat /\ Power[3] >= Power[2]
    BY <2>1, <2>2, <2>3, <2>5
  <2>7. Power[4] \in Nat /\ Power[4] >= Power[3]
    BY <2>1, <2>2, <2>3, <2>6
  <2> QED
    BY <2>3, <2>5, <2>6, <2>7 DEF Marker2
<1>2. Marker2 \in Byte /\ Marker4 \in Byte /\ Marker8 \in Byte /\ Marker2 \in Nat
      /\ VarIntSize(Marker2) = 2 /\ VarIntSize(Marker4) = 4 /\ VarIntSize(Marker8) = 8
  BY RadixIs DEF VarIntSize, Marker2, Marker4, Marker8
<1>3. CASE v < Marker2
  <2>1. PutVarInt(v) = <<v>>
    BY <1>1, <1>2, <1>3 DEF PutVarInt
  <2> QED
    BY <1>2, <1>3, <2>1, RadixIs
<1>4. CASE v >= Marker2 /\ v < Power[2] - 1
  <2>1. PutVarInt(v) = <<Marker2>> \o PutLE(v, 2)
    BY SMTT(30), <1>1, <1>2, <1>4 DEF PutVarInt
  <2>2. v < Power[2]
    BY <1>1, <1>4
  <2> QED
    BY <1>2, <2>1, <2>2
<1>5. CASE v >= Power[2] - 1 /\ v < Power[4] - 1
  <2>1. PutVarInt(v) = <<Marker4>> \o PutLE(v, 4)
    BY <1>1, <1>2, <1>5 DEF PutVarInt
  <2>2. v < Power[4]
    BY <1>1, <1>5
  <2> QED
    BY <1>2, <2>1, <2>2
<1>6. CASE v >= Power[4] - 1
  <2>1. PutVarInt(v) = <<Marker8>> \o PutLE(v, 8)
    BY <1>1, <1>2, <1>6 DEF PutVarInt
  <2> QED
    BY <1>2, <2>1
<1>7. \/ v < Marker2
      \/ v >= Marker2 /\ v < Power[2] - 1
      \/ v >= Power[2] - 1 /\ v < Power[4] - 1
      \/ v >= Power[4] - 1
  BY <1>1, <1>2
<1> QED
  BY <1>3, <1>4, <1>5, <1>6, <1>7

LEMMA PutVarIntIs ==
  ASSUME NEW v \in Nat
  PROVE  PutVarInt(v) \in Seq(Byte) /\ Len(PutVarInt(v)) \in 1 .. 9
<1>1. CASE v \in Byte /\ PutVarInt(v) = <<v>>
  BY <1>1
<1>2. ASSUME NEW size \in {2, 4, 8}, NEW marker \in Byte, PutVarInt(v) = <<marker>> \o PutLE(v, size)
      PROVE  PutVarInt(v) \in Seq(Byte) /\ Len(PutVarInt(v)) \in 1 .. 9
  <2>1. size \in Nat /\ <<marker>> \in Seq(Byte) /\ Len(<<marker>>) = 1
    OBVIOUS
  <2>2. PutLE(v, size) \in Seq(Byte) /\ Len(PutLE(v, size)) = size
    BY <2>1, PutLEIs
  <2>3. <<marker>> \o PutLE(v, size) \in Seq(Byte) /\ Len(<<marker>> \o PutLE(v, size)) = 1 + size
    BY <2>1, <2>2, ConcatProperties
  <2> QED
    BY <1>2, <2>3
<1> QED
  BY <1>1, <1>2, VarIntShape

(* An integer that was put is read, with room for all of its bytes, and     *)
(* refused with less.                                                       *)
LEMMA VarIntIsRead ==
  ASSUME NEW v \in Nat, v < Power[8], NEW bytes, NEW offset \in Nat, NEW max \in Int,
         At(bytes, offset, PutVarInt(v))
  PROVE  IF max >= Len(PutVarInt(v))
         THEN GetVarInt(bytes, offset, max) = [value |-> v, shift |-> Len(PutVarInt(v))]
         ELSE GetVarInt(bytes, offset, max) = [value |-> -1, shift |-> 0]
<1>1. CASE v < Marker2 /\ v \in Byte /\ PutVarInt(v) = <<v>>
  <2>1. Len(PutVarInt(v)) = 1 /\ bytes[offset + 1] = v
    BY <1>1 DEF At
  <2>2. VarIntSize(v) = 0
    BY <1>1, VarIntSizeIs
  <2> QED
    BY <2>1, <2>2 DEF GetVarInt
<1>2. ASSUME NEW size \in {2, 4, 8}, NEW marker \in Byte,
             VarIntSize(marker) = size, v < Power[8] => v < Power[size],
             PutVarInt(v) = <<marker>> \o PutLE(v, size)
      PROVE  IF max >= Len(PutVarInt(v))
             THEN GetVarInt(bytes, offset, max) = [value |-> v, shift |-> Len(PutVarInt(v))]
             ELSE GetVarInt(bytes, offset, max) = [value |-> -1, shift |-> 0]
  <2>1. size \in Nat /\ <<marker>> \in Seq(Byte) /\ Len(<<marker>>) = 1 /\ <<marker>>[1] = marker
    OBVIOUS
  <2>2. PutLE(v, size) \in Seq(Byte) /\ Len(PutLE(v, size)) = size
    BY <2>1, PutLEIs
  <2>3. Len(PutVarInt(v)) = 1 + size
    BY <1>2, <2>1, <2>2, ConcatProperties
  <2>4. At(bytes, offset, <<marker>>) /\ At(bytes, offset + Len(<<marker>>), PutLE(v, size))
    <3>1. At(bytes, offset, <<marker>> \o PutLE(v, size))
      BY <1>2
    <3> QED
      BY <2>1, <2>2, <3>1, AtConcat
  <2>5. bytes[offset + 1] = marker
    BY <2>1, <2>4 DEF At
  <2>6. \A i \in 1 .. size : bytes[offset + 1 + i] = PutLE(v, size)[i]
    BY <2>1, <2>2, <2>4 DEF At
  <2>7. GetLE(bytes, offset + 1, size) = v % Power[size]
    <3>1. offset + 1 \in Nat
      OBVIOUS
    <3> QED
      BY <2>1, <2>6, <3>1, LittleEndian
  <2>8. v % Power[size] = v
    <3>1. Power[size] \in Nat \ {0}
      BY <2>1, PowerIs
    <3>2. \A p \in Nat \ {0} : v < p => v % p = v
      OBVIOUS
    <3> QED
      BY <1>2, <3>1, <3>2
  <2>9. size # 0 /\ size > 0
    OBVIOUS
  <2> HIDE DEF At
  <2> QED
    BY <1>2, <2>3, <2>5, <2>7, <2>8, <2>9 DEF GetVarInt
<1> QED
  BY <1>1, <1>2, VarIntShape

LEMMA GetVarIntType ==
  ASSUME NEW bytes \in Seq(Byte), NEW offset \in Nat, NEW max \in Int, offset + max <= Len(bytes)
  PROVE  GetVarInt(bytes, offset, max).value \in Int /\ GetVarInt(bytes, offset, max).shift \in Nat
<1> DEFINE size == VarIntSize(bytes[offset + 1])
<1>1. CASE max <= 0 \/ max < size + 1
  BY <1>1 DEF GetVarInt
<1>2. CASE max > 0 /\ ~(max < size + 1)
  <2>1. bytes[offset + 1] \in Byte
    <3>1. offset + 1 \in 1 .. Len(bytes)
      BY <1>2
    <3> QED
      BY <3>1, ElementOfSeq
  <2>2. size \in Nat
    BY <2>1, VarIntSizeIs
  <2>3. AreBytes(bytes, offset + 1, size)
    <3>1. ASSUME NEW i \in 1 .. size PROVE bytes[offset + 1 + i] \in Byte
      <4>1. offset + 1 + i \in 1 .. Len(bytes)
        BY <1>2, <2>2
      <4> QED
        BY <4>1, ElementOfSeq
    <3> QED
      BY <3>1, RadixIs DEF AreBytes
  <2>4. GetLE(bytes, offset + 1, size) \in Nat
    <3>1. offset + 1 \in Nat
      OBVIOUS
    <3> QED
      BY <2>2, <2>3, <3>1, GetLEType
  <2>5. GetVarInt(bytes, offset, max) =
          [shift |-> size + 1,
           value |-> IF size = 0 THEN bytes[offset + 1] ELSE GetLE(bytes, offset + 1, size)]
    BY <1>2, <2>2 DEF GetVarInt
  <2> HIDE DEF size
  <2> QED
    BY <2>1, <2>2, <2>4, <2>5, RadixIs
<1> QED
  BY <1>1, <1>2

-----------------------------------------------------------------------------
(* Names.                                                                   *)
IsStrLen(bytes, total, offset, n) ==
  /\ n \in 0 .. total - offset
  /\ n = total - offset \/ bytes[offset + n + 1] = 0
  /\ \A i \in 1 .. n : bytes[offset + i] # 0

LEMMA StrLenIs ==
  ASSUME NEW bytes, NEW total \in Nat, NEW offset \in Nat, NEW n, IsStrLen(bytes, total, offset, n)
  PROVE  StrLen(bytes, total, offset) = n
<1>1. ASSUME NEW m, NEW k, IsStrLen(bytes, total, offset, m), IsStrLen(bytes, total, offset, k), m < k
      PROVE  FALSE
  <2>1. m \in Nat /\ k \in Nat /\ m + 1 \in 1 .. k /\ m # total - offset /\ offset + (m + 1) = offset + m + 1
    BY <1>1 DEF IsStrLen
  <2>2. bytes[offset + m + 1] = 0
    BY <1>1, <2>1 DEF IsStrLen
  <2>3. bytes[offset + (m + 1)] # 0
    BY <1>1, <2>1 DEF IsStrLen
  <2> QED
    BY <2>1, <2>2, <2>3
<1>2. \A m, k : IsStrLen(bytes, total, offset, m) /\ IsStrLen(bytes, total, offset, k) => m = k
  <2> SUFFICES ASSUME NEW m, NEW k, IsStrLen(bytes, total, offset, m), IsStrLen(bytes, total, offset, k)
               PROVE  m = k
    OBVIOUS
  <2>1. ~(m < k) /\ ~(k < m)
    BY <1>1
  <2>2. m \in Int /\ k \in Int
    BY DEF IsStrLen
  <2> QED
    BY <2>1, <2>2
<1>3. StrLen(bytes, total, offset) = CHOOSE m \in 0 .. total - offset : IsStrLen(bytes, total, offset, m)
  BY DEF StrLen, IsStrLen
<1>4. n \in 0 .. total - offset
  BY DEF IsStrLen
<1> QED
  BY <1>2, <1>3, <1>4

LEMMA StrLenIsOne ==
  ASSUME NEW bytes, NEW total \in Nat, NEW offset \in Nat, offset <= total
  PROVE  IsStrLen(bytes, total, offset, StrLen(bytes, total, offset))
<1> DEFINE T == {n \in 0 .. total - offset : n = total - offset \/ bytes[offset + n + 1] = 0}
<1>1. T \in SUBSET Nat /\ total - offset \in T
  OBVIOUS
<1>2. PICK n \in T : \A k \in T : n <= k
  <2> HIDE DEF T
  <2> QED
    BY <1>1, LeastNatural
<1>3. n \in 0 .. total - offset /\ (n = total - offset \/ bytes[offset + n + 1] = 0)
  OBVIOUS
<1>4. ASSUME NEW i \in 1 .. n, bytes[offset + i] = 0 PROVE FALSE
  <2>1. i - 1 \in 0 .. total - offset /\ offset + (i - 1) + 1 = offset + i /\ ~(n <= i - 1)
    BY <1>3
  <2>2. i - 1 \in T
    BY <1>4, <2>1
  <2> QED
    BY <1>2, <2>1, <2>2
<1>5. IsStrLen(bytes, total, offset, n)
  BY <1>3, <1>4 DEF IsStrLen
<1>6. StrLen(bytes, total, offset) = n
  BY <1>5, StrLenIs
<1> QED
  BY <1>5, <1>6

LEMMA StrLenType ==
  ASSUME NEW bytes, NEW total \in Nat, NEW offset \in Nat, offset <= total
  PROVE  StrLen(bytes, total, offset) \in 0 .. total - offset
BY StrLenIsOne DEF IsStrLen

-----------------------------------------------------------------------------
(* Parameters.                                                              *)
Param ==
  {SpecialParam(code, value) : code \in Special, value \in Value}
    \cup {NamedParam(name, value) : name \in Name, value \in Value}

KeyBytes(param) ==
  IF param.key[1] = "special" THEN <<0, param.key[2]>> ELSE param.key[2] \o <<0>>

Code(param) == KeyBytes(param) \o PutVarInt(Len(param.value)) \o param.value

(* Its size fits in an integer.                                             *)
Fits(param) == param \in Param /\ Len(param.value) < Power[8]

LEMMA ParamIs ==
  ASSUME NEW param \in Param
  PROVE  /\ param.value \in Seq(Byte) /\ Len(param.value) \in Nat
         /\ param = [key |-> param.key, value |-> param.value]
         /\ KeyBytes(param) \in Seq(Byte)
         /\ \/ /\ param.key[1] = "special" /\ param.key = <<"special", param.key[2]>>
               /\ param.key[2] \in Byte /\ KeyBytes(param) = <<0, param.key[2]>> /\ Len(KeyBytes(param)) = 2
            \/ /\ param.key[1] # "special" /\ param.key = <<"named", param.key[2]>>
               /\ param.key[2] \in Seq(Byte \ {0}) \ {<<>>} /\ param.key[2] \in Seq(Byte)
               /\ Len(param.key[2]) \in Nat \ {0}
               /\ KeyBytes(param) = param.key[2] \o <<0>> /\ Len(KeyBytes(param)) = Len(param.key[2]) + 1
<1>1. 0 \in Byte
  BY RadixIs
<1>2. ASSUME NEW code \in Special, NEW value \in Value, param = SpecialParam(code, value)
      PROVE  /\ param.value \in Seq(Byte) /\ Len(param.value) \in Nat
             /\ param = [key |-> param.key, value |-> param.value]
             /\ KeyBytes(param) \in Seq(Byte)
             /\ param.key[1] = "special" /\ param.key = <<"special", param.key[2]>>
             /\ param.key[2] \in Byte /\ KeyBytes(param) = <<0, param.key[2]>> /\ Len(KeyBytes(param)) = 2
  <2>1. param.key = <<"special", code>> /\ param.value = value
        /\ param = [key |-> <<"special", code>>, value |-> value]
    BY <1>2 DEF SpecialParam
  <2>2. code \in Byte /\ value \in Seq(Byte)
    BY DetailsAssumption
  <2>3. KeyBytes(param) = <<0, code>>
    BY <2>1 DEF KeyBytes
  <2>4. <<0, code>> \in Seq(Byte) /\ Len(<<0, code>>) = 2 /\ Len(value) \in Nat
    BY <1>1, <2>2
  <2>5. param.key[1] = "special" /\ param.key[2] = code
    BY <2>1
  <2> QED
    BY <2>1, <2>2, <2>3, <2>4, <2>5
<1>3. ASSUME NEW name \in Name, NEW value \in Value, param = NamedParam(name, value)
      PROVE  /\ param.value \in Seq(Byte) /\ Len(param.value) \in Nat
             /\ param = [key |-> param.key, value |-> param.value]
             /\ KeyBytes(param) \in Seq(Byte)
             /\ param.key[1] # "special" /\ param.key = <<"named", param.key[2]>>
             /\ param.key[2] \in Seq(Byte \ {0}) \ {<<>>} /\ param.key[2] \in Seq(Byte)
             /\ Len(param.key[2]) \in Nat \ {0}
             /\ KeyBytes(param) = param.key[2] \o <<0>> /\ Len(KeyBytes(param)) = Len(param.key[2]) + 1
  <2>1. param.key = <<"named", name>> /\ param.value = value
        /\ param = [key |-> <<"named", name>>, value |-> value]
    BY <1>3 DEF NamedParam
  <2>2. name \in Seq(Byte \ {0}) \ {<<>>} /\ value \in Seq(Byte)
    BY DetailsAssumption
  <2>3. KeyBytes(param) = name \o <<0>>
    BY <2>1 DEF KeyBytes
  <2>4. name \in Seq(Byte)
    BY <2>2, SeqMonotonic
  <2>5. Len(name) \in Nat \ {0}
    BY <2>2, EmptySeq
  <2>6. <<0>> \in Seq(Byte) /\ Len(<<0>>) = 1
    BY <1>1
  <2>7. name \o <<0>> \in Seq(Byte) /\ Len(name \o <<0>>) = Len(name) + 1
    BY <2>4, <2>6, ConcatProperties
  <2>8. Len(value) \in Nat
    BY <2>2
  <2>9. param.key[1] = "named" /\ param.key[2] = name
    BY <2>1
  <2> QED
    BY <2>1, <2>2, <2>3, <2>4, <2>5, <2>7, <2>8, <2>9
<1> QED
  BY <1>2, <1>3 DEF Param

LEMMA CodeIs ==
  ASSUME NEW param \in Param
  PROVE  LET int == PutVarInt(Len(param.value))
         IN  /\ Code(param) \in Seq(Byte)
             /\ int \in Seq(Byte) /\ Len(int) \in 1 .. 9
             /\ Len(Code(param)) = Len(KeyBytes(param)) + Len(int) + Len(param.value)
             /\ Len(Code(param)) \in Nat \ {0}
<1> DEFINE int == PutVarInt(Len(param.value))
<1>1. /\ param.value \in Seq(Byte) /\ Len(param.value) \in Nat /\ KeyBytes(param) \in Seq(Byte)
      /\ Len(KeyBytes(param)) \in Nat
  BY ParamIs
<1>2. int \in Seq(Byte) /\ Len(int) \in 1 .. 9
  BY <1>1, PutVarIntIs
<1> HIDE DEF int
<1>3. KeyBytes(param) \o int \in Seq(Byte) /\ Len(KeyBytes(param) \o int) = Len(KeyBytes(param)) + Len(int)
  BY <1>1, <1>2, ConcatProperties
<1>4. /\ (KeyBytes(param) \o int) \o param.value \in Seq(Byte)
      /\ Len((KeyBytes(param) \o int) \o param.value) = Len(KeyBytes(param)) + Len(int) + Len(param.value)
  BY <1>1, <1>3, ConcatProperties
<1>5. Code(param) = (KeyBytes(param) \o int) \o param.value
  BY DEF Code, int
<1>6. Code(param) \in Seq(Byte) /\ Len(Code(param)) = Len(KeyBytes(param)) + Len(int) + Len(param.value)
  BY <1>4, <1>5
<1>7. \A a, c \in Nat, b \in 1 .. 9 : a + b + c \in Nat \ {0}
  OBVIOUS
<1>8. Len(Code(param)) \in Nat \ {0}
  BY <1>1, <1>2, <1>6, <1>7
<1> QED
  BY <1>2, <1>6, <1>8 DEF int

LEMMA PartsOfCode ==
  ASSUME NEW param, Fits(param), NEW bytes, NEW offset \in Nat, At(bytes, offset, Code(param))
  PROVE  LET int == PutVarInt(Len(param.value))
         IN  /\ At(bytes, offset, KeyBytes(param))
             /\ At(bytes, offset + Len(KeyBytes(param)), int)
             /\ At(bytes, offset + Len(KeyBytes(param)) + Len(int), param.value)
<1> DEFINE int == PutVarInt(Len(param.value))
<1>1. param.value \in Seq(Byte) /\ KeyBytes(param) \in Seq(Byte) /\ Len(KeyBytes(param)) \in Nat
  BY ParamIs DEF Fits
<1>2. int \in Seq(Byte) /\ Len(int) \in Nat
  <2>1. int \in Seq(Byte) /\ Len(int) \in 1 .. 9
    BY CodeIs DEF Fits
  <2> HIDE DEF int
  <2> QED
    BY <2>1
<1>3. At(bytes, offset, (KeyBytes(param) \o int) \o param.value)
  BY DEF Code
<1> HIDE DEF int
<1>4. KeyBytes(param) \o int \in Seq(Byte) /\ Len(KeyBytes(param) \o int) = Len(KeyBytes(param)) + Len(int)
  BY <1>1, <1>2, ConcatProperties
<1>5. At(bytes, offset, KeyBytes(param) \o int) /\ At(bytes, offset + Len(KeyBytes(param) \o int), param.value)
  BY <1>1, <1>3, <1>4, AtConcat
<1>6. At(bytes, offset, KeyBytes(param)) /\ At(bytes, offset + Len(KeyBytes(param)), int)
  BY <1>1, <1>2, <1>5, AtConcat
<1>7. offset + Len(KeyBytes(param) \o int) = offset + Len(KeyBytes(param)) + Len(int)
  BY <1>1, <1>2, <1>4
<1> QED
  BY <1>5, <1>6, <1>7 DEF int

(* The size of a name and its terminator, or of a code.                     *)
NameSize(bytes, total, offset) ==
  IF bytes[offset + 1] = 0 THEN 2 ELSE StrLen(bytes, total, offset) + 1

LEMMA KeyIsRead ==
  ASSUME NEW param, Fits(param), NEW bytes, NEW offset \in Nat, NEW total \in Nat, offset < total,
         At(bytes, offset, KeyBytes(param))
  PROVE  /\ bytes[offset + 1] = 0 <=> param.key[1] = "special"
         /\ param.key[1] = "special" => bytes[offset + 2] = param.key[2]
         /\ IF total >= offset + Len(KeyBytes(param))
            THEN /\ NameSize(bytes, total, offset) = Len(KeyBytes(param))
                 /\ param.key[1] # "special" =>
                      /\ StrLen(bytes, total, offset) = Len(param.key[2])
                      /\ \A i \in 1 .. Len(param.key[2]) : bytes[offset + i] = param.key[2][i]
            ELSE /\ NameSize(bytes, total, offset) \in Nat
                 /\ offset + NameSize(bytes, total, offset) >= total
<1>1. CASE /\ param.key[1] = "special" /\ KeyBytes(param) = <<0, param.key[2]>>
           /\ Len(KeyBytes(param)) = 2
  <2>1. bytes[offset + 1] = 0 /\ bytes[offset + 2] = param.key[2]
    BY <1>1 DEF At
  <2> QED
    BY <1>1, <2>1 DEF NameSize
<1>2. CASE /\ param.key[1] # "special"
           /\ param.key[2] \in Seq(Byte \ {0}) \ {<<>>} /\ param.key[2] \in Seq(Byte)
           /\ Len(param.key[2]) \in Nat \ {0}
           /\ KeyBytes(param) = param.key[2] \o <<0>> /\ Len(KeyBytes(param)) = Len(param.key[2]) + 1
  <2> DEFINE name == param.key[2]
  <2>1. 0 \in Byte /\ <<0>> \in Seq(Byte) /\ Len(<<0>>) = 1 /\ <<0>>[1] = 0
    BY RadixIs
  <2>2. At(bytes, offset, name) /\ At(bytes, offset + Len(name), <<0>>)
    BY ZenonT(30), <1>2, <2>1, AtConcat
  <2>3. bytes[offset + Len(name) + 1] = 0
    BY <2>1, <2>2 DEF At
  <2>4. \A i \in 1 .. Len(name) : bytes[offset + i] = name[i]
    BY <2>2 DEF At
  <2>5. \A i \in 1 .. Len(name) : name[i] # 0
    <3>1. \A i \in 1 .. Len(name) : name[i] \in Byte \ {0}
      BY <1>2, ElementOfSeq
    <3> QED
      BY <3>1
  <2> HIDE DEF name
  <2>6. Len(name) \in Nat \ {0}
    BY <1>2 DEF name
  <2>7. bytes[offset + 1] # 0
    <3>1. 1 \in 1 .. Len(name)
      BY <2>6
    <3> QED
      BY <2>4, <2>5, <3>1
  <2>8. total >= offset + (Len(name) + 1) => StrLen(bytes, total, offset) = Len(name)
    <3> SUFFICES ASSUME total >= offset + (Len(name) + 1) PROVE IsStrLen(bytes, total, offset, Len(name))
      BY StrLenIs
    <3>1. Len(name) \in 0 .. total - offset
      BY <2>6
    <3> QED
      BY <2>3, <2>4, <2>5, <3>1 DEF IsStrLen
  <2>9. ~(total >= offset + (Len(name) + 1)) => StrLen(bytes, total, offset) = total - offset
    <3> SUFFICES ASSUME ~(total >= offset + (Len(name) + 1))
                 PROVE  IsStrLen(bytes, total, offset, total - offset)
      BY StrLenIs
    <3>1. total - offset \in 0 .. total - offset /\ total - offset <= Len(name)
      BY <2>6
    <3>2. \A i \in 1 .. total - offset : i \in 1 .. Len(name)
      BY <2>6, <3>1
    <3> QED
      BY <2>4, <2>5, <3>1, <3>2 DEF IsStrLen
  <2>10. NameSize(bytes, total, offset) = StrLen(bytes, total, offset) + 1
    BY <2>7 DEF NameSize
  <2>11. total - offset \in Nat
    OBVIOUS
  <2> QED
    BY SMTT(30), <1>2, <2>4, <2>6, <2>7, <2>8, <2>9, <2>10, <2>11 DEF name
<1> QED
  BY <1>1, <1>2, ParamIs DEF Fits

(* A parameter is read when all of it is there, and refused otherwise.      *)
LEMMA ParamIsRead ==
  ASSUME NEW param, Fits(param), NEW bytes, NEW offset \in Nat, NEW total \in Nat, offset < total,
         At(bytes, offset, Code(param))
  PROVE  IF total >= offset + Len(Code(param))
         THEN GetParam(bytes, total, offset) =
                [next |-> offset + Len(Code(param)),
                 start |-> offset + Len(Code(param)) - Len(param.value),
                 size |-> Len(param.value), err |-> FALSE]
         ELSE GetParam(bytes, total, offset) = NoParam(total, TRUE)
<1> DEFINE int == PutVarInt(Len(param.value))
           K == Len(KeyBytes(param))
           I == Len(int)
           V == Len(param.value)
           name_size == NameSize(bytes, total, offset)
           got == GetVarInt(bytes, offset + name_size, total - offset - name_size)
           start == offset + name_size + got.shift
<1>1. K \in Nat /\ V \in Nat /\ V < Power[8] /\ I \in 1 .. 9 /\ Len(Code(param)) = K + I + V
  <2>1. K \in Nat /\ V \in Nat
    BY ParamIs DEF Fits
  <2> QED
    BY <2>1, CodeIs DEF Fits
<1>2. At(bytes, offset, KeyBytes(param)) /\ At(bytes, offset + K, int)
  BY PartsOfCode
<1>3. IF total >= offset + K THEN name_size = K
      ELSE name_size \in Nat /\ offset + name_size >= total
  BY <1>2, KeyIsRead
<1>4. GetParam(bytes, total, offset) =
        IF offset >= total THEN NoParam(total, offset > total)
        ELSE IF offset + name_size >= total THEN NoParam(total, TRUE)
        ELSE IF got.value < 0 \/ start + got.value > total THEN NoParam(total, TRUE)
        ELSE [next |-> start + got.value, start |-> start, size |-> got.value, err |-> FALSE]
  BY DEF GetParam, NameSize
<1>5. total >= offset + K =>
        IF total - offset - K >= I THEN got = [value |-> V, shift |-> I] ELSE got = [value |-> -1, shift |-> 0]
  <2> SUFFICES ASSUME total >= offset + K
               PROVE  IF total - offset - K >= I THEN got = [value |-> V, shift |-> I]
                      ELSE got = [value |-> -1, shift |-> 0]
    OBVIOUS
  <2>1. name_size = K
    BY <1>3
  <2>2. offset + K \in Nat /\ total - offset - K \in Int
    BY <1>1
  <2>3. IF total - offset - K >= I
        THEN GetVarInt(bytes, offset + K, total - offset - K) = [value |-> V, shift |-> I]
        ELSE GetVarInt(bytes, offset + K, total - offset - K) = [value |-> -1, shift |-> 0]
    BY <1>1, <1>2, <2>2, VarIntIsRead
  <2> QED
    BY <2>1, <2>3
<1> HIDE DEF int, K, I, V, name_size, got
<1>6. CASE total < offset + K
  <2>1. offset + name_size >= total /\ ~(offset >= total) /\ ~(total >= offset + Len(Code(param)))
    BY <1>1, <1>3, <1>6
  <2> QED
    BY <1>4, <2>1
<1>7. CASE total >= offset + K /\ total - offset - K < I
  <2>1. name_size = K /\ got.value = -1 /\ ~(offset >= total) /\ ~(total >= offset + Len(Code(param)))
    BY <1>1, <1>3, <1>5, <1>7
  <2> QED
    BY <1>4, <2>1
<1>8. CASE total >= offset + K /\ total - offset - K >= I
  <2>1. name_size = K /\ got.value = V /\ got.shift = I /\ ~(offset >= total) /\ ~(offset + name_size >= total)
    BY <1>1, <1>3, <1>5, <1>8
  <2>2. start = offset + K + I /\ start + got.value = offset + Len(Code(param))
        /\ start = offset + Len(Code(param)) - V
    BY <1>1, <2>1
  <2>3. ~(got.value < 0)
    BY <1>1, <2>1
  <2> HIDE DEF start
  <2>4. start + got.value > total <=> ~(total >= offset + Len(Code(param)))
    BY <1>1, <2>2
  <2> QED
    BY <1>4, <2>1, <2>2, <2>3, <2>4 DEF V
<1>9. \/ total < offset + K
      \/ total >= offset + K /\ total - offset - K < I
      \/ total >= offset + K /\ total - offset - K >= I
  BY <1>1
<1> QED
  BY <1>6, <1>7, <1>8, <1>9

(* Whatever the bytes are, a step goes forward.                             *)
LEMMA GetParamMoves ==
  ASSUME NEW bytes \in Seq(Byte), NEW total \in 0 .. Len(bytes), NEW offset \in Nat
  PROVE  /\ GetParam(bytes, total, offset).next \in Nat
         /\ GetParam(bytes, total, offset).err \in BOOLEAN
         /\ offset < total => GetParam(bytes, total, offset).next > offset
<1> DEFINE name_size == NameSize(bytes, total, offset)
           got == GetVarInt(bytes, offset + name_size, total - offset - name_size)
           start == offset + name_size + got.shift
<1>1. GetParam(bytes, total, offset) =
        IF offset >= total THEN NoParam(total, offset > total)
        ELSE IF offset + name_size >= total THEN NoParam(total, TRUE)
        ELSE IF got.value < 0 \/ start + got.value > total THEN NoParam(total, TRUE)
        ELSE [next |-> start + got.value, start |-> start, size |-> got.value, err |-> FALSE]
  BY DEF GetParam, NameSize
<1>2. total \in Nat
  OBVIOUS
<1>3. CASE offset >= total
  <2> HIDE DEF name_size, got, start
  <2> QED
    BY <1>1, <1>2, <1>3 DEF NoParam
<1>4. CASE ~(offset >= total)
  <2>1. name_size \in Nat /\ name_size >= 1
    <3>1. StrLen(bytes, total, offset) \in Nat
      BY <1>2, <1>4, StrLenType
    <3> QED
      BY <3>1 DEF NameSize
  <2>2. got.value \in Int /\ got.shift \in Nat
    <3>1. offset + name_size \in Nat /\ total - offset - name_size \in Int
          /\ (offset + name_size) + (total - offset - name_size) <= Len(bytes)
      BY <1>2, <2>1
    <3> QED
      BY <3>1, GetVarIntType
  <2>3. start \in Nat /\ start > offset
    BY <2>1, <2>2
  <2> HIDE DEF name_size, got, start
  <2>4. ~(got.value < 0) => start + got.value \in Nat /\ start + got.value > offset
    BY <2>2, <2>3
  <2> QED
    BY <1>1, <1>2, <1>4, <2>4 DEF NoParam
<1> QED
  BY <1>3, <1>4

-----------------------------------------------------------------------------
(* The walks, as recursive functions that exist.                            *)
LEMMA VerifyIs ==
  ASSUME NEW bytes \in Seq(Byte), NEW total \in 0 .. Len(bytes)
  PROVE  \E verify : /\ Verify(bytes, total) = verify[0]
                     /\ \A offset \in Nat :
                          verify[offset] = (\/ offset >= total
                                            \/ /\ ~GetParam(bytes, total, offset).err
                                               /\ verify[GetParam(bytes, total, offset).next])
<1> DEFINE next == [o \in Nat |-> GetParam(bytes, total, o).next]
           H == [p \in Nat \X BOOLEAN |-> ~GetParam(bytes, total, p[1]).err /\ p[2]]
<1>1. /\ next \in [Nat -> Nat] /\ \A o \in Nat : o < total => next[o] > o
      /\ \A o \in Nat : next[o] = GetParam(bytes, total, o).next
  BY GetParamMoves
<1>2. /\ H \in [Nat \X BOOLEAN -> BOOLEAN]
      /\ \A o \in Nat, b \in BOOLEAN : H[<<o, b>>] = (~GetParam(bytes, total, o).err /\ b)
  OBVIOUS
<1> HIDE DEF next, H
<1>3. PICK f : Downward(BOOLEAN, total, TRUE, next, H, f)
  <2>1. total \in Nat
    OBVIOUS
  <2> QED
    BY <1>1, <1>2, <2>1, DownwardExists
<1>4. f \in [Nat -> BOOLEAN] /\ f = [o \in Nat |-> IF o >= total THEN TRUE ELSE H[<<o, f[next[o]]>>]]
  BY <1>3 DEF Downward
<1>5. ASSUME NEW o \in Nat
      PROVE  (IF o >= total THEN TRUE ELSE H[<<o, f[next[o]]>>])
               = (\/ o >= total
                  \/ LET p == GetParam(bytes, total, o) IN ~p.err /\ f[p.next])
  <2>1. f[next[o]] \in BOOLEAN /\ next[o] = GetParam(bytes, total, o).next
    BY <1>1, <1>4
  <2>2. H[<<o, f[next[o]]>>] = (~GetParam(bytes, total, o).err /\ f[next[o]])
    BY <1>2, <2>1
  <2> QED
    BY <2>1, <2>2
<1>6. f = [offset \in Nat |-> \/ offset >= total
                              \/ LET p == GetParam(bytes, total, offset) IN ~p.err /\ f[p.next]]
  BY <1>4, <1>5
<1> DEFINE verify[offset \in Nat] ==
             \/ offset >= total
             \/ LET p == GetParam(bytes, total, offset) IN ~p.err /\ verify[p.next]
<1>7. verify = [offset \in Nat |-> \/ offset >= total
                                   \/ LET p == GetParam(bytes, total, offset) IN ~p.err /\ verify[p.next]]
  BY <1>6
<1>8. Verify(bytes, total) = verify[0]
  BY DEF Verify
<1> HIDE DEF verify
<1>9. \A offset \in Nat :
        verify[offset] = (\/ offset >= total
                          \/ /\ ~GetParam(bytes, total, offset).err
                             /\ verify[GetParam(bytes, total, offset).next])
  BY <1>7
<1> QED
  BY <1>8, <1>9

(* What the walk takes from a place.                                        *)
Item(offset) ==
  LET p == GetParam(script, Len(script), offset)
  IN  [key |-> KeyAt(offset), value |-> SubSeq(script, p.start + 1, p.start + p.size)]

LEMMA WalkIs ==
  ASSUME script \in Seq(Byte)
  PROVE  \E walk : /\ Walk = walk[0]
                   /\ \A offset \in Nat :
                        walk[offset] =
                          IF offset >= Len(script) THEN <<>>
                          ELSE IF GetParam(script, Len(script), offset).err THEN <<>>
                          ELSE <<Item(offset)>> \o walk[GetParam(script, Len(script), offset).next]
<1> DEFINE total == Len(script)
           U == {Item(o) : o \in Nat}
           next == [o \in Nat |-> GetParam(script, total, o).next]
           H == [p \in Nat \X Seq(U) |->
                   IF GetParam(script, total, p[1]).err THEN <<>> ELSE <<Item(p[1])>> \o p[2]]
<1>1. total \in 0 .. Len(script) /\ total \in Nat
  OBVIOUS
<1>2. /\ next \in [Nat -> Nat] /\ \A o \in Nat : o < total => next[o] > o
      /\ \A o \in Nat : next[o] = GetParam(script, total, o).next
  <2> HIDE DEF total
  <2> QED
    BY <1>1, GetParamMoves
<1>3. /\ \A o \in Nat, s \in Seq(U) :
           H[<<o, s>>] = IF GetParam(script, total, o).err THEN <<>> ELSE <<Item(o)>> \o s
      /\ H \in [Nat \X Seq(U) -> Seq(U)]
  <2> DEFINE h(o, s) == IF GetParam(script, total, o).err THEN <<>> ELSE <<Item(o)>> \o s
  <2>1. \A o \in Nat : Item(o) \in U
    OBVIOUS
  <2> HIDE DEF U
  <2>2. \A o \in Nat, s \in Seq(U) : h(o, s) \in Seq(U)
    <3> SUFFICES ASSUME NEW o \in Nat, NEW s \in Seq(U) PROVE <<Item(o)>> \o s \in Seq(U) /\ <<>> \in Seq(U)
      OBVIOUS
    <3>1. <<Item(o)>> \in Seq(U)
      BY <2>1
    <3> QED
      BY <3>1, ConcatProperties
  <2>3. \A o \in Nat, s \in Seq(U) : H[<<o, s>>] = h(o, s)
    OBVIOUS
  <2>4. \A p \in Nat \X Seq(U) : p[1] \in Nat /\ p[2] \in Seq(U) /\ H[p] = h(p[1], p[2])
    OBVIOUS
  <2>5. H = [p \in Nat \X Seq(U) |-> H[p]]
    OBVIOUS
  <2> HIDE DEF H, h
  <2>6. \A p \in Nat \X Seq(U) : H[p] \in Seq(U)
    BY <2>2, <2>4
  <2>7. H \in [Nat \X Seq(U) -> Seq(U)]
    BY <2>5, <2>6
  <2> QED
    BY <2>3, <2>7 DEF h
<1>4. <<>> \in Seq(U)
  OBVIOUS
<1> HIDE DEF next, H, U
<1>5. PICK f : Downward(Seq(U), total, <<>>, next, H, f)
  <2> HIDE DEF total
  <2> QED
    BY <1>1, <1>2, <1>3, <1>4, DownwardExists
<1>6. f \in [Nat -> Seq(U)] /\ f = [o \in Nat |-> IF o >= total THEN <<>> ELSE H[<<o, f[next[o]]>>]]
  BY <1>5 DEF Downward
<1>7. ASSUME NEW o \in Nat
      PROVE  (IF o >= total THEN <<>> ELSE H[<<o, f[next[o]]>>])
               = IF o >= Len(script) THEN <<>>
                 ELSE LET p == GetParam(script, Len(script), o)
                      IN  IF p.err THEN <<>>
                          ELSE <<[key |-> KeyAt(o), value |-> SubSeq(script, p.start + 1, p.start + p.size)]>>
                               \o f[p.next]
  <2>1. f[next[o]] \in Seq(U) /\ next[o] = GetParam(script, total, o).next
    BY <1>2, <1>6
  <2>2. H[<<o, f[next[o]]>>] = IF GetParam(script, total, o).err THEN <<>> ELSE <<Item(o)>> \o f[next[o]]
    BY <1>3, <2>1
  <2> QED
    BY <2>1, <2>2 DEF Item
<1>8. f = [offset \in Nat |->
             IF offset >= Len(script) THEN <<>>
             ELSE LET p == GetParam(script, Len(script), offset)
                  IN  IF p.err THEN <<>>
                      ELSE <<[key   |-> KeyAt(offset),
                              value |-> SubSeq(script, p.start + 1, p.start + p.size)]>>
                           \o f[p.next]]
  BY <1>6, <1>7
<1> DEFINE walk[offset \in Nat] ==
             IF offset >= Len(script) THEN <<>>
             ELSE LET p == GetParam(script, Len(script), offset)
                  IN  IF p.err THEN <<>>
                      ELSE <<[key   |-> KeyAt(offset),
                              value |-> SubSeq(script, p.start + 1, p.start + p.size)]>>
                           \o walk[p.next]
<1>9. walk = [offset \in Nat |->
                IF offset >= Len(script) THEN <<>>
                ELSE LET p == GetParam(script, Len(script), offset)
                     IN  IF p.err THEN <<>>
                         ELSE <<[key   |-> KeyAt(offset),
                                 value |-> SubSeq(script, p.start + 1, p.start + p.size)]>>
                              \o walk[p.next]]
  BY <1>8
<1>10. Walk = walk[0]
  BY DEF Walk
<1> HIDE DEF walk
<1>11. \A offset \in Nat :
         walk[offset] = IF offset >= Len(script) THEN <<>>
                        ELSE IF GetParam(script, Len(script), offset).err THEN <<>>
                        ELSE <<Item(offset)>> \o walk[GetParam(script, Len(script), offset).next]
  BY <1>9 DEF Item
<1> QED
  BY <1>10, <1>11

-----------------------------------------------------------------------------
(* The invariant: where the parameters of the script begin and end.         *)
Places(e) ==
  /\ e \in [0 .. Len(params) -> Nat]
  /\ e[0] = 0 /\ e[Len(params)] = Len(script)
  /\ \A i \in 1 .. Len(params) :
       /\ e[i] = e[i - 1] + Len(Code(params[i]))
       /\ At(script, e[i - 1], Code(params[i]))

IInv ==
  /\ script \in Seq(Byte) /\ Len(script) <= MaxSize
  /\ params \in Seq(Param) /\ \A i \in 1 .. Len(params) : Fits(params[i])
  /\ \E e : Places(e)

LEMMA InitIInv == Init => IInv
<1> SUFFICES ASSUME Init PROVE IInv
  OBVIOUS
<1>1. script = <<>> /\ params = <<>> /\ Len(script) = 0 /\ Len(params) = 0
  BY DEF Init
<1>2. Places([i \in 0 .. 0 |-> 0])
  BY <1>1 DEF Places
<1>3. MaxSize \in Nat /\ script \in Seq(Byte) /\ params \in Seq(Param)
  BY <1>1, DetailsAssumption
<1> QED
  BY <1>1, <1>2, <1>3 DEF IInv

(* A parameter takes at least a byte.                                       *)
LEMMA PlacesGrow ==
  ASSUME IInv, NEW e, Places(e)
  PROVE  /\ \A i \in 1 .. Len(params) : e[i - 1] < e[i]
         /\ \A i, j \in 0 .. Len(params) : i < j => e[i] < e[j]
         /\ \A i \in 0 .. Len(params) : e[i] \in Nat /\ e[i] <= Len(script)
<1>1. Len(params) \in Nat /\ Len(script) \in Nat /\ \A i \in 0 .. Len(params) : e[i] \in Nat
  <2>1. script \in Seq(Byte) /\ params \in Seq(Param)
    BY DEF IInv
  <2>2. e \in [0 .. Len(params) -> Nat]
    BY DEF Places
  <2> QED
    BY <2>1, <2>2
<1>2. ASSUME NEW i \in 1 .. Len(params) PROVE e[i - 1] < e[i]
  <2>1. params[i] \in Param
    BY ElementOfSeq DEF IInv
  <2>2. Len(Code(params[i])) \in Nat \ {0}
    BY <2>1, CodeIs
  <2>3. i - 1 \in 0 .. Len(params) /\ e[i] = e[i - 1] + Len(Code(params[i]))
    BY <1>1 DEF Places
  <2> QED
    BY <1>1, <2>2, <2>3
<1>3. ASSUME NEW i \in 0 .. Len(params) PROVE \A j \in 0 .. Len(params) : i < j => e[i] < e[j]
  <2> DEFINE T == {k \in Nat : i + k + 1 <= Len(params) => e[i] < e[i + k + 1]}
  <2>1. 0 \in T
    <3> SUFFICES ASSUME i + 0 + 1 <= Len(params) PROVE e[i] < e[i + 0 + 1]
      OBVIOUS
    <3>1. i + 1 \in 1 .. Len(params) /\ (i + 1) - 1 = i /\ i + 0 + 1 = i + 1
      BY <1>1
    <3> QED
      BY <1>2, <3>1
  <2>2. ASSUME NEW k \in Nat, k \in T PROVE k + 1 \in T
    <3> SUFFICES ASSUME i + (k + 1) + 1 <= Len(params) PROVE e[i] < e[i + (k + 1) + 1]
      OBVIOUS
    <3>1. /\ i + k + 1 <= Len(params) /\ i + k + 1 \in 0 .. Len(params)
          /\ i + (k + 1) + 1 \in 1 .. Len(params) /\ i + (k + 1) + 1 \in 0 .. Len(params)
          /\ (i + (k + 1) + 1) - 1 = i + k + 1
      BY <1>1
    <3>2. e[i] < e[i + k + 1]
      BY <2>2, <3>1
    <3>3. e[i + k + 1] < e[i + (k + 1) + 1]
      BY <1>2, <3>1
    <3> QED
      BY <1>1, <3>1, <3>2, <3>3
  <2>3. Nat \subseteq T
    <3> HIDE DEF T
    <3> QED
      BY <2>1, <2>2, AllNaturals
  <2> SUFFICES ASSUME NEW j \in 0 .. Len(params), i < j PROVE e[i] < e[j]
    OBVIOUS
  <2>4. j - i - 1 \in Nat /\ i + (j - i - 1) + 1 = j
    BY <1>1
  <2>5. i + (j - i - 1) + 1 <= Len(params) => e[i] < e[i + (j - i - 1) + 1]
    BY <2>3, <2>4
  <2> QED
    BY <1>1, <2>4, <2>5
<1>4. ASSUME NEW i \in 0 .. Len(params) PROVE e[i] <= Len(script)
  <2>1. e[Len(params)] = Len(script) /\ Len(params) \in 0 .. Len(params)
    BY <1>1 DEF Places
  <2>2. i < Len(params) \/ i = Len(params)
    BY <1>1
  <2> QED
    BY <1>1, <1>3, <2>1, <2>2
<1> QED
  BY <1>1, <1>2, <1>3, <1>4

LEMMA PutIInv ==
  ASSUME IInv, NEW param \in Param, Put(Code(param), param)
  PROVE  IInv'
<1>1. /\ Len(script) + Len(Code(param)) <= MaxSize
      /\ script' = script \o Code(param) /\ params' = Append(params, param)
      /\ script \in Seq(Byte) /\ params \in Seq(Param)
  BY DEF Put, IInv
<1>2. /\ Len(Code(param)) \in Nat /\ Code(param) \in Seq(Byte) /\ Fits(param)
  <2> DEFINE K == Len(KeyBytes(param))
             I == Len(PutVarInt(Len(param.value)))
             V == Len(param.value)
  <2>1. K \in Nat /\ V \in Nat
    BY ParamIs
  <2>2. Code(param) \in Seq(Byte) /\ I \in 1 .. 9 /\ Len(Code(param)) = K + I + V
    BY CodeIs
  <2>3. MaxSize \in Nat /\ MaxSize < Power[8] /\ Len(script) \in Nat /\ Power[8] \in Nat
    <3>1. 8 \in Nat
      OBVIOUS
    <3>2. Power[8] \in Nat
      BY <3>1, PowerIs
    <3> QED
      BY <1>1, <3>2, DetailsAssumption
  <2> HIDE DEF K, I, V
  <2>4. Len(Code(param)) \in Nat /\ V < Power[8]
    BY <1>1, <2>1, <2>2, <2>3
  <2> QED
    BY <2>2, <2>4 DEF Fits, V
<1>3. /\ script' \in Seq(Byte) /\ Len(script') = Len(script) + Len(Code(param))
      /\ \A i \in 1 .. Len(script) + Len(Code(param)) :
           script'[i] = IF i <= Len(script) THEN script[i] ELSE Code(param)[i - Len(script)]
  BY <1>1, <1>2, ConcatProperties
<1>4. /\ params' \in Seq(Param) /\ Len(params') = Len(params) + 1 /\ Len(params) \in Nat
      /\ Len(script) \in Nat /\ params'[Len(params) + 1] = param
      /\ \A i \in 1 .. Len(params) : params'[i] = params[i]
  BY <1>1
<1>5. \A i \in 1 .. Len(params') : Fits(params'[i])
  <2>1. \A i \in 1 .. Len(params) : Fits(params[i])
    BY DEF IInv
  <2> QED
    BY <1>2, <1>4, <2>1
<1>6. PICK e : Places(e)
  BY DEF IInv
<1> DEFINE n == Len(params)
           f == [i \in 0 .. n + 1 |-> IF i = n + 1 THEN Len(script) + Len(Code(param)) ELSE e[i]]
<1>7. /\ \A i \in 0 .. n : e[i] \in Nat
      /\ e[0] = 0 /\ e[n] = Len(script)
      /\ \A i \in 1 .. n : e[i] = e[i - 1] + Len(Code(params[i])) /\ At(script, e[i - 1], Code(params[i]))
  BY <1>6 DEF Places
<1>8. /\ f \in [0 .. n + 1 -> Nat] /\ f[n + 1] = Len(script) + Len(Code(param))
      /\ \A i \in 0 .. n : f[i] = e[i]
  BY <1>2, <1>4, <1>7
<1> HIDE DEF f
<1>9. ASSUME NEW i \in 1 .. n
      PROVE  f[i] = f[i - 1] + Len(Code(params'[i])) /\ At(script', f[i - 1], Code(params'[i]))
  <2>1. i \in 0 .. n /\ i - 1 \in 0 .. n /\ f[i] = e[i] /\ f[i - 1] = e[i - 1] /\ params'[i] = params[i]
    BY <1>4, <1>8
  <2>2. f[i] <= Len(script)
    BY <1>4, <1>6, <2>1, PlacesGrow
  <2>3. Len(Code(params[i])) \in Nat
    <3>1. params[i] \in Param
      BY <1>1, ElementOfSeq
    <3> QED
      BY <3>1, CodeIs
  <2>4. ASSUME NEW j \in 1 .. Len(Code(params[i])) PROVE script'[e[i - 1] + j] = Code(params[i])[j]
    <3>1. e[i - 1] + j \in 1 .. Len(script)
      <4>1. e[i - 1] \in Nat /\ e[i] = e[i - 1] + Len(Code(params[i])) /\ e[i] <= Len(script)
        BY <1>7, <2>1, <2>2
      <4> QED
        BY <1>4, <2>3, <4>1
    <3>2. script'[e[i - 1] + j] = script[e[i - 1] + j]
      BY <1>2, <1>3, <1>4, <3>1
    <3> QED
      BY <1>7, <3>2 DEF At
  <2> QED
    BY <1>7, <2>1, <2>4 DEF At
<1>10. f[n + 1] = f[n] + Len(Code(params'[n + 1])) /\ At(script', f[n], Code(params'[n + 1]))
  <2>1. f[n] = Len(script) /\ params'[n + 1] = param
    BY <1>4, <1>7, <1>8
  <2>2. ASSUME NEW j \in 1 .. Len(Code(param)) PROVE script'[Len(script) + j] = Code(param)[j]
    <3>1. /\ Len(script) + j \in 1 .. Len(script) + Len(Code(param)) /\ ~(Len(script) + j <= Len(script))
          /\ (Len(script) + j) - Len(script) = j
      BY <1>2, <1>4
    <3> QED
      BY <1>3, <3>1
  <2> QED
    BY <1>8, <2>1, <2>2 DEF At
<1>11. \E g : Places(g)'
  <2>1. ASSUME NEW i \in 1 .. n + 1
        PROVE  f[i] = f[i - 1] + Len(Code(params'[i])) /\ At(script', f[i - 1], Code(params'[i]))
    <3>1. i \in 1 .. n \/ (i = n + 1 /\ i - 1 = n)
      BY <1>4
    <3> QED
      BY <1>9, <1>10, <3>1
  <2>2. f[0] = 0 /\ f[n + 1] = Len(script')
    BY <1>3, <1>4, <1>7, <1>8
  <2> HIDE DEF n
  <2>3. Len(params') = n + 1
    BY <1>4 DEF n
  <2>4. /\ f \in [0 .. Len(params') -> Nat] /\ f[0] = 0 /\ f[Len(params')] = Len(script')
        /\ \A i \in 1 .. Len(params') :
             f[i] = f[i - 1] + Len(Code(params'[i])) /\ At(script', f[i - 1], Code(params'[i]))
    BY <1>8, <2>1, <2>2, <2>3
  <2>5. \A g : g = f => Places(g)'
    BY <2>4 DEF Places
  <2> QED
    BY <2>5
<1> QED
  BY <1>1, <1>3, <1>5, <1>4, <1>11 DEF IInv

LEMMA NextIInv == IInv /\ [Next]_vars => IInv'
<1> SUFFICES ASSUME IInv, [Next]_vars PROVE IInv'
  OBVIOUS
<1>1. ASSUME NEW value \in Value, NEW code \in Special, SetSpecialParamValue(code, value) PROVE IInv'
  <2> DEFINE param == SpecialParam(code, value)
  <2>1. param \in Param
    BY DEF Param
  <2>2. param.key[1] = "special" /\ param.key[2] = code /\ param.value = value
    BY DEF SpecialParam
  <2>3. Code(param) = <<0, code>> \o PutVarInt(Len(value)) \o value
    BY <2>2 DEF Code, KeyBytes
  <2>4. Put(Code(param), param)
    BY <1>1, <2>3 DEF SetSpecialParamValue
  <2> HIDE DEF param
  <2> QED
    BY <2>1, <2>4, PutIInv
<1>2. ASSUME NEW value \in Value, NEW name \in Name, SetParamValue(name, value) PROVE IInv'
  <2> DEFINE param == NamedParam(name, value)
  <2>1. param \in Param
    BY DEF Param
  <2>2. param.key[1] = "named" /\ param.key[2] = name /\ param.value = value
    BY DEF NamedParam
  <2>3. Code(param) = name \o <<0>> \o PutVarInt(Len(value)) \o value
    BY <2>2 DEF Code, KeyBytes
  <2>4. Put(Code(param), param)
    BY <1>2, <2>3 DEF SetParamValue
  <2> HIDE DEF param
  <2> QED
    BY <2>1, <2>4, PutIInv
<1>3. CASE UNCHANGED vars
  <2>1. script' = script /\ params' = params
    BY <1>3 DEF vars
  <2>2. (\E e : Places(e)) => \E e : Places(e)'
    BY <2>1 DEF Places
  <2> QED
    BY <2>1, <2>2 DEF IInv
<1> QED
  BY <1>1, <1>2, <1>3 DEF Next

-----------------------------------------------------------------------------
(* What the walk finds at the place of a parameter.                         *)
LEMMA AtPlace ==
  ASSUME IInv, NEW e, Places(e), NEW i \in 1 .. Len(params), NEW total \in 0 .. Len(script)
  PROVE  /\ e[i] <= total =>
              /\ GetParam(script, total, e[i - 1]).next = e[i]
              /\ GetParam(script, total, e[i - 1]).start = e[i] - Len(params[i].value)
              /\ GetParam(script, total, e[i - 1]).size = Len(params[i].value)
              /\ GetParam(script, total, e[i - 1]).err = FALSE
         /\ e[i - 1] < total /\ total < e[i] => GetParam(script, total, e[i - 1]).err
<1>1. Fits(params[i]) /\ e[i] = e[i - 1] + Len(Code(params[i])) /\ At(script, e[i - 1], Code(params[i]))
  BY DEF IInv, Places
<1>2. i \in 0 .. Len(params) /\ i - 1 \in 0 .. Len(params) /\ total \in Nat
  OBVIOUS
<1>3. e[i - 1] \in Nat /\ e[i] \in Nat /\ e[i - 1] < e[i]
  BY <1>2, PlacesGrow
<1>4. ASSUME e[i] <= total
      PROVE  /\ GetParam(script, total, e[i - 1]).next = e[i]
             /\ GetParam(script, total, e[i - 1]).start = e[i] - Len(params[i].value)
             /\ GetParam(script, total, e[i - 1]).size = Len(params[i].value)
             /\ GetParam(script, total, e[i - 1]).err = FALSE
  <2>1. e[i - 1] < total /\ total >= e[i - 1] + Len(Code(params[i]))
    BY <1>1, <1>2, <1>3, <1>4
  <2>2. GetParam(script, total, e[i - 1]) =
          [next |-> e[i - 1] + Len(Code(params[i])),
           start |-> e[i - 1] + Len(Code(params[i])) - Len(params[i].value),
           size |-> Len(params[i].value), err |-> FALSE]
    BY <1>1, <1>2, <1>3, <2>1, ParamIsRead
  <2>3. /\ GetParam(script, total, e[i - 1]).next = e[i - 1] + Len(Code(params[i]))
        /\ GetParam(script, total, e[i - 1]).start = e[i - 1] + Len(Code(params[i])) - Len(params[i].value)
        /\ GetParam(script, total, e[i - 1]).size = Len(params[i].value)
        /\ GetParam(script, total, e[i - 1]).err = FALSE
    BY <2>2
  <2>4. GetParam(script, total, e[i - 1]).next = e[i]
    BY <1>1, <2>3, Zenon
  <2>5. GetParam(script, total, e[i - 1]).start = e[i] - Len(params[i].value)
    <3>1. Len(Code(params[i])) \in Nat /\ Len(params[i].value) \in Nat
      BY <1>1, CodeIs, ParamIs DEF Fits
    <3>2. \A a, b, c \in Nat : a + (b - c) = (a + b) - c
      OBVIOUS
    <3>3. e[i - 1] + (Len(Code(params[i])) - Len(params[i].value))
            = (e[i - 1] + Len(Code(params[i]))) - Len(params[i].value)
      BY <1>3, <3>1, <3>2, Zenon
    <3> QED
      BY <1>1, <2>3, <3>3, Zenon
  <2> QED
    BY <2>3, <2>4, <2>5
<1>5. e[i - 1] < total /\ total < e[i] => GetParam(script, total, e[i - 1]).err
  <2> SUFFICES ASSUME e[i - 1] < total, total < e[i] PROVE GetParam(script, total, e[i - 1]).err
    OBVIOUS
  <2>1. ~(total >= e[i - 1] + Len(Code(params[i])))
    BY <1>1, <1>2, <1>3
  <2>2. GetParam(script, total, e[i - 1]) = NoParam(total, TRUE)
    BY <1>1, <1>2, <1>3, <2>1, ParamIsRead
  <2> QED
    BY <2>2 DEF NoParam
<1> QED
  BY <1>4, <1>5

(* The ends as the property defines them.                                   *)
LEMMA EndsAre ==
  ASSUME IInv, NEW e, Places(e)
  PROVE  Ends = {e[i] : i \in 0 .. Len(params)}
<1> DEFINE n == Len(params)
<1>1. n \in Nat /\ e \in [0 .. n -> Nat] /\ e[0] = 0
  BY DEF IInv, Places
<1>2. ASSUME NEW i \in 1 .. n
      PROVE  e[i] = e[i - 1] + Encoded(params[i]) /\ Encoded(params[i]) \in Nat
  <2>1. params[i] \in Param /\ e[i] = e[i - 1] + Len(Code(params[i]))
    BY DEF IInv, Places, Fits
  <2> DEFINE p == params[i]
             K == Len(KeyBytes(p))
             I == Len(PutVarInt(Len(p.value)))
  <2>2. /\ Len(p.value) \in Nat /\ K \in Nat
        /\ p.key[1] = "special" => K = 2
        /\ p.key[1] # "special" => K = Len(p.key[2]) + 1
    BY <2>1, ParamIs
  <2>3. I \in 1 .. 9 /\ Len(Code(p)) = K + I + Len(p.value)
    BY <2>1, CodeIs
  <2>4. Encoded(p) = K + I + Len(p.value)
    BY <2>2 DEF Encoded
  <2> HIDE DEF K, I
  <2>5. K + I + Len(p.value) \in Nat
    <3>1. \A a, c \in Nat, b \in 1 .. 9 : a + b + c \in Nat
      OBVIOUS
    <3> QED
      BY <2>2, <2>3, <3>1
  <2> QED
    BY <2>1, <2>3, <2>4, <2>5
<1>3. e = [i \in 0 .. n |-> IF i = 0 THEN 0 ELSE e[i - 1] + Encoded(params[i])]
  <2>1. \A i \in 0 .. n : e[i] = IF i = 0 THEN 0 ELSE e[i - 1] + Encoded(params[i])
    BY <1>1, <1>2
  <2>2. e = [i \in 0 .. n |-> e[i]]
    BY <1>1
  <2> QED
    BY <2>1, <2>2
<1> DEFINE end[i \in 0 .. Len(params)] == IF i = 0 THEN 0 ELSE end[i - 1] + Encoded(params[i])
<1>4. end = [i \in 0 .. n |-> IF i = 0 THEN 0 ELSE end[i - 1] + Encoded(params[i])]
  BY <1>3
<1>5. Ends = {end[i] : i \in 0 .. n}
  BY DEF Ends
<1> HIDE DEF end
<1> DEFINE T == {i \in Nat : i <= n => end[i] = e[i]}
<1>6. 0 \in T
  BY <1>1, <1>4
<1>7. ASSUME NEW i \in Nat, i \in T PROVE i + 1 \in T
  <2> SUFFICES ASSUME i + 1 <= n PROVE end[i + 1] = e[i + 1]
    OBVIOUS
  <2>1. i + 1 \in 0 .. n /\ i + 1 # 0 /\ (i + 1) - 1 = i /\ i + 1 \in 1 .. n /\ end[i] = e[i]
    BY <1>1, <1>7
  <2> QED
    BY <1>2, <1>4, <2>1
<1>8. \A i \in 0 .. n : end[i] = e[i]
  <2> HIDE DEF T
  <2>1. Nat \subseteq T
    BY <1>6, <1>7, AllNaturals
  <2> QED
    BY <2>1 DEF T
<1> QED
  BY <1>5, <1>8

-----------------------------------------------------------------------------
(* Verification: the walk goes from place to place, and where the script is *)
(* cut the last place decides.                                              *)
LEMMA VerifiedUpTo ==
  ASSUME IInv, NEW e, Places(e), NEW k \in 0 .. Len(params), NEW total \in 0 .. Len(script),
         total <= e[k], k = 0 \/ e[k - 1] < total
  PROVE  Verify(script, total) <=> total = e[k]
<1>1. PICK verify : /\ Verify(script, total) = verify[0]
                    /\ \A offset \in Nat :
                         verify[offset] = (\/ offset >= total
                                           \/ /\ ~GetParam(script, total, offset).err
                                              /\ verify[GetParam(script, total, offset).next])
  BY VerifyIs DEF IInv
<1>2. Len(params) \in Nat /\ k \in Nat /\ total \in Nat /\ e[0] = 0
      /\ \A i \in 0 .. Len(params) : e[i] \in Nat
  <2>1. params \in Seq(Param)
    BY DEF IInv
  <2>2. e[0] = 0 /\ e \in [0 .. Len(params) -> Nat]
    BY DEF Places
  <2> QED
    BY <2>1, <2>2
<1>3. total = e[k] => verify[e[k]] = TRUE
  <2> SUFFICES ASSUME total = e[k] PROVE verify[e[k]] = TRUE
    OBVIOUS
  <2>1. e[k] \in Nat /\ e[k] >= total
    BY <1>2
  <2> QED
    BY <1>1, <2>1
<1>4. total < e[k] /\ k # 0 => verify[e[k - 1]] = FALSE
  <2> SUFFICES ASSUME total < e[k], k # 0 PROVE verify[e[k - 1]] = FALSE
    OBVIOUS
  <2>1. k \in 1 .. Len(params) /\ k - 1 \in 0 .. Len(params) /\ e[k - 1] \in Nat /\ e[k - 1] < total
    BY <1>2
  <2>2. GetParam(script, total, e[k - 1]).err
    BY <2>1, AtPlace
  <2>3. ~(e[k - 1] >= total)
    BY <1>2, <2>1
  <2> QED
    BY <1>1, <2>1, <2>2, <2>3
<1>5. ASSUME NEW i \in 1 .. Len(params), e[i] <= total PROVE verify[e[i - 1]] = verify[e[i]]
  <2>1. /\ GetParam(script, total, e[i - 1]).next = e[i]
        /\ GetParam(script, total, e[i - 1]).err = FALSE
    BY <1>5, AtPlace
  <2>2. i - 1 \in 0 .. Len(params) /\ e[i - 1] < e[i]
    BY PlacesGrow
  <2>3. e[i - 1] \in Nat /\ e[i] \in Nat /\ ~(e[i - 1] >= total) /\ (e[i] >= total => e[i] = total)
    BY <1>2, <1>5, <2>2
  <2>4. e[i] >= total => verify[e[i]] = TRUE
    BY <1>1, <2>3
  <2>5. verify[e[i - 1]] = (FALSE \/ (TRUE /\ verify[e[i]]))
    BY <1>1, <2>1, <2>3
  <2>6. verify[e[i]] \in BOOLEAN
    BY <1>1, <2>3
  <2> QED
    BY <2>5, <2>6
<1>6. ASSUME NEW j \in 0 .. Len(params), e[j] <= total PROVE verify[e[0]] = verify[e[j]]
  <2> DEFINE T == {i \in Nat : i <= j => verify[e[0]] = verify[e[i]]}
  <2>1. 0 \in T
    OBVIOUS
  <2>2. ASSUME NEW i \in Nat, i \in T PROVE i + 1 \in T
    <3> SUFFICES ASSUME i + 1 <= j PROVE verify[e[0]] = verify[e[i + 1]]
      OBVIOUS
    <3>1. i + 1 \in 1 .. Len(params) /\ (i + 1) - 1 = i /\ verify[e[0]] = verify[e[i]]
          /\ i + 1 \in 0 .. Len(params)
      BY <1>2, <2>2
    <3>2. e[i + 1] <= total
      <4>1. i + 1 = j \/ i + 1 < j
        OBVIOUS
      <4>2. i + 1 < j => e[i + 1] < e[j]
        BY <3>1, PlacesGrow
      <4> QED
        BY <1>2, <1>6, <3>1, <4>1, <4>2
    <3> QED
      BY <1>5, <3>1, <3>2
  <2>3. j \in Nat /\ Nat \subseteq T
    <3> HIDE DEF T
    <3> QED
      BY <1>2, <2>1, <2>2, AllNaturals
  <2> QED
    BY <2>3
<1>7. CASE total = e[k]
  <2>1. verify[e[0]] = verify[e[k]]
    BY <1>2, <1>6, <1>7
  <2> QED
    BY <1>1, <1>2, <1>3, <1>7, <2>1
<1>8. CASE total < e[k]
  <2>1. k # 0 /\ k - 1 \in 0 .. Len(params) /\ e[k - 1] <= total
    BY <1>2, <1>8
  <2>2. verify[e[0]] = verify[e[k - 1]]
    BY <1>6, <2>1
  <2>3. total # e[k]
    BY <1>2, <1>8
  <2> QED
    BY <1>1, <1>2, <1>4, <1>8, <2>1, <2>2, <2>3
<1>9. total = e[k] \/ total < e[k]
  BY <1>2
<1> QED
  BY <1>7, <1>8, <1>9

LEMMA VerifiedAtEnds ==
  ASSUME IInv, NEW e, Places(e), NEW total \in 0 .. Len(script)
  PROVE  Verify(script, total) <=> \E i \in 0 .. Len(params) : total = e[i]
<1>1. Len(params) \in Nat /\ total \in Nat /\ e[0] = 0 /\ e[Len(params)] = Len(script)
      /\ \A i \in 0 .. Len(params) : e[i] \in Nat
  <2>1. params \in Seq(Param)
    BY DEF IInv
  <2>2. e[0] = 0 /\ e[Len(params)] = Len(script) /\ e \in [0 .. Len(params) -> Nat]
    BY DEF Places
  <2> QED
    BY <2>1, <2>2
<1> DEFINE T == {i \in 0 .. Len(params) : total <= e[i]}
<1>2. T \in SUBSET Nat /\ Len(params) \in T
  BY <1>1
<1>3. PICK k \in T : \A j \in T : k <= j
  <2> HIDE DEF T
  <2> QED
    BY <1>2, LeastNatural
<1>4. k \in 0 .. Len(params) /\ total <= e[k] /\ (k = 0 \/ e[k - 1] < total)
  <2>1. k \in 0 .. Len(params) /\ total <= e[k]
    OBVIOUS
  <2>2. ASSUME k # 0 PROVE e[k - 1] < total
    <3>1. k - 1 \in 0 .. Len(params) /\ ~(k <= k - 1)
      BY <1>1, <2>1, <2>2
    <3>2. k - 1 \notin T
      BY <1>3, <3>1
    <3>3. e[k - 1] \in Nat /\ ~(total <= e[k - 1])
      BY <1>1, <3>1, <3>2
    <3> QED
      BY <1>1, <3>3
  <2> QED
    BY <2>1, <2>2
<1>5. Verify(script, total) <=> total = e[k]
  BY <1>4, VerifiedUpTo
<1>6. ASSUME NEW i \in 0 .. Len(params), total = e[i] PROVE total = e[k]
  <2>1. i \in T
    BY <1>1, <1>6
  <2>2. k <= i
    BY <1>3, <2>1
  <2>3. k < i => e[k] < e[i]
    BY <1>4, PlacesGrow
  <2>4. k = i \/ k < i
    BY <1>1, <1>4, <2>2
  <2> QED
    BY <1>1, <1>4, <1>6, <2>3, <2>4
<1> QED
  BY <1>4, <1>5, <1>6

-----------------------------------------------------------------------------
(* The walk takes the parameters in their order.                            *)
LEMMA ItemIsParam ==
  ASSUME IInv, NEW e, Places(e), NEW i \in 1 .. Len(params)
  PROVE  Item(e[i - 1]) = params[i]
<1> DEFINE p == params[i]
           total == Len(script)
           offset == e[i - 1]
<1>1. script \in Seq(Byte) /\ total \in Nat /\ total \in 0 .. Len(script)
  BY DEF IInv
<1>2. Fits(p) /\ p \in Param /\ At(script, offset, Code(p)) /\ e[i] = offset + Len(Code(p))
  BY DEF IInv, Places, Fits
<1>3. offset \in Nat /\ e[i] \in Nat /\ offset < e[i] /\ e[i] <= total
  <2>1. i \in 0 .. Len(params) /\ i - 1 \in 0 .. Len(params)
    OBVIOUS
  <2> QED
    BY <2>1, PlacesGrow
<1>4. /\ GetParam(script, total, offset).start = e[i] - Len(p.value)
      /\ GetParam(script, total, offset).size = Len(p.value)
  BY <1>1, <1>3, AtPlace
<1> DEFINE K == Len(KeyBytes(p))
           I == Len(PutVarInt(Len(p.value)))
           V == Len(p.value)
<1>5. K \in Nat /\ V \in Nat /\ I \in 1 .. 9 /\ Len(Code(p)) = K + I + V /\ p.value \in Seq(Byte)
      /\ KeyBytes(p) \in Seq(Byte)
  <2>1. K \in Nat /\ V \in Nat /\ p.value \in Seq(Byte) /\ KeyBytes(p) \in Seq(Byte)
    BY <1>2, ParamIs
  <2>2. I \in 1 .. 9 /\ Len(Code(p)) = K + I + V
    BY <1>2, CodeIs
  <2> QED
    BY <2>1, <2>2
<1>6. /\ At(script, offset, KeyBytes(p))
      /\ At(script, offset + K + I, p.value)
  BY <1>2, <1>3, PartsOfCode
<1>7. SubSeq(script, e[i] - V + 1, e[i] - V + V) = p.value
  <2>1. e[i] - V = offset + K + I /\ e[i] - V + V = offset + K + I + V /\ offset + K + I \in Nat
    <3> HIDE DEF offset, p, K, I, V
    <3> QED
      BY <1>2, <1>3, <1>5
  <2> DEFINE at == offset + K + I
  <2>2. ASSUME NEW j \in 1 .. V PROVE script[at + j] = p.value[j]
    BY <1>6, <2>2 DEF At
  <2>3. at + V <= total /\ at \in Nat
    BY <1>3, <2>1
  <2>4. \A j \in at + 1 .. at + V : script[j] \in Byte
    <3> SUFFICES ASSUME NEW j \in at + 1 .. at + V PROVE script[j] \in Byte
      OBVIOUS
    <3>1. j \in 1 .. Len(script)
      BY <1>1, <1>5, <2>3
    <3> QED
      BY <1>1, <3>1, ElementOfSeq
  <2>5. e[i] - V + 1 = at + 1 /\ e[i] - V + V = at + V
    BY <2>1
  <2> HIDE DEF at, V, p
  <2>6. /\ SubSeq(script, at + 1, at + V) \in Seq(Byte)
        /\ Len(SubSeq(script, at + 1, at + V)) = V
        /\ \A j \in 1 .. V : SubSeq(script, at + 1, at + V)[j] = script[at + j]
    <3>1. at + 1 \in Int /\ at + V \in Int /\ V \in Nat /\ at \in Nat
      BY <1>5, <2>3
    <3>2. /\ SubSeq(script, at + 1, at + V) \in Seq(Byte)
          /\ Len(SubSeq(script, at + 1, at + V)) = IF at + 1 <= at + V THEN at + V - (at + 1) + 1 ELSE 0
          /\ \A j \in 1 .. at + V - (at + 1) + 1 : SubSeq(script, at + 1, at + V)[j] = script[at + 1 + j - 1]
      BY <2>4, <3>1, SubSeqProperties
    <3>3. at + V - (at + 1) + 1 = V /\ (at + 1 <= at + V <=> V >= 1) /\ \A j \in 1 .. V : at + 1 + j - 1 = at + j
      BY <3>1
    <3>4. V >= 1 \/ V = 0
      BY <3>1
    <3> QED
      BY <3>2, <3>3, <3>4
  <2>7. \A j \in 1 .. V : SubSeq(script, at + 1, at + V)[j] = p.value[j]
    BY <2>2, <2>6
  <2>8. SubSeq(script, at + 1, at + V) = p.value
    BY <1>5, <2>6, <2>7, SeqEqual DEF V
  <2> QED
    BY <2>5, <2>8
<1>8. KeyAt(offset) = p.key
  <2>1. total >= offset + K /\ offset < total
    <3> HIDE DEF offset, p, K, I, V, total
    <3>1. offset + K <= e[i]
      BY <1>2, <1>3, <1>5
    <3> QED
      BY <1>1, <1>3, <1>5, <3>1
  <2>2. /\ script[offset + 1] = 0 <=> p.key[1] = "special"
        /\ p.key[1] = "special" => script[offset + 2] = p.key[2]
        /\ p.key[1] # "special" =>
             /\ StrLen(script, total, offset) = Len(p.key[2])
             /\ \A j \in 1 .. Len(p.key[2]) : script[offset + j] = p.key[2][j]
    BY <1>1, <1>2, <1>3, <1>6, <2>1, KeyIsRead
  <2>3. CASE p.key[1] = "special"
    <3>1. p.key = <<"special", p.key[2]>>
      BY <1>2, <2>3, ParamIs
    <3> QED
      BY <2>2, <2>3, <3>1 DEF KeyAt
  <2>4. CASE p.key[1] # "special"
    <3>1. /\ p.key = <<"named", p.key[2]>> /\ p.key[2] \in Seq(Byte) /\ Len(p.key[2]) \in Nat \ {0}
          /\ K = Len(p.key[2]) + 1
      BY <1>2, <2>4, ParamIs
    <3> DEFINE L == Len(p.key[2])
    <3>2. \A j \in offset + 1 .. offset + L : script[j] \in Byte
      <4> SUFFICES ASSUME NEW j \in offset + 1 .. offset + L PROVE script[j] \in Byte
        OBVIOUS
      <4>1. j \in 1 .. Len(script)
        <5> HIDE DEF offset, K, L
        <5> QED
          BY <1>3, <2>1, <3>1 DEF L
      <4> QED
        BY <1>1, <4>1, ElementOfSeq
    <3> HIDE DEF L, offset, p, K
    <3>3. /\ SubSeq(script, offset + 1, offset + L) \in Seq(Byte)
          /\ Len(SubSeq(script, offset + 1, offset + L)) = L
          /\ \A j \in 1 .. L : SubSeq(script, offset + 1, offset + L)[j] = script[offset + j]
      <4>1. offset + 1 \in Int /\ offset + L \in Int /\ L \in Nat /\ L >= 1 /\ offset \in Nat
        BY <1>3, <3>1 DEF L
      <4>2. /\ SubSeq(script, offset + 1, offset + L) \in Seq(Byte)
            /\ Len(SubSeq(script, offset + 1, offset + L)) =
                 IF offset + 1 <= offset + L THEN offset + L - (offset + 1) + 1 ELSE 0
            /\ \A j \in 1 .. offset + L - (offset + 1) + 1 :
                 SubSeq(script, offset + 1, offset + L)[j] = script[offset + 1 + j - 1]
        BY <3>2, <4>1, SubSeqProperties
      <4>3. /\ offset + L - (offset + 1) + 1 = L /\ offset + 1 <= offset + L
            /\ \A j \in 1 .. L : offset + 1 + j - 1 = offset + j
        BY <1>3, <4>1
      <4> QED
        BY <4>2, <4>3
    <3>4. SubSeq(script, offset + 1, offset + L) = p.key[2]
      <4>1. \A j \in 1 .. L : SubSeq(script, offset + 1, offset + L)[j] = p.key[2][j]
        BY <2>2, <2>4, <3>3 DEF L
      <4> QED
        BY <3>1, <3>3, <4>1, SeqEqual DEF L
    <3>5. script[offset + 1] # 0 /\ StrLen(script, total, offset) = L
      BY <2>2, <2>4 DEF L
    <3>6. KeyAt(offset) = <<"named", p.key[2]>>
      BY <3>4, <3>5 DEF KeyAt
    <3> QED
      BY <3>1, <3>6
  <2> QED
    BY <2>3, <2>4
<1>9. p = [key |-> p.key, value |-> p.value]
  BY <1>2, ParamIs
<1> HIDE DEF p, total, offset, K, I
<1>10. Item(offset) = [key |-> KeyAt(offset), value |-> SubSeq(script, e[i] - V + 1, e[i] - V + V)]
  BY <1>4 DEF Item, total, V
<1>11. Item(offset) = p
  BY <1>7, <1>8, <1>9, <1>10
<1> QED
  BY <1>11 DEF offset, p

LEMMA WalkIsParams ==
  ASSUME IInv
  PROVE  Walk = params
<1>1. PICK e : Places(e)
  BY DEF IInv
<1> DEFINE n == Len(params)
<1>2. script \in Seq(Byte) /\ params \in Seq(Param) /\ n \in Nat /\ Len(script) \in 0 .. Len(script)
  BY DEF IInv
<1>3. e[0] = 0 /\ e[n] = Len(script) /\ \A i \in 0 .. n : e[i] \in Nat
  BY <1>1 DEF Places
<1>4. PICK walk : /\ Walk = walk[0]
                  /\ \A offset \in Nat :
                       walk[offset] =
                         IF offset >= Len(script) THEN <<>>
                         ELSE IF GetParam(script, Len(script), offset).err THEN <<>>
                         ELSE <<Item(offset)>> \o walk[GetParam(script, Len(script), offset).next]
  BY <1>2, WalkIs
<1> DEFINE T == {j \in Nat : j <= n => walk[e[n - j]] = SubSeq(params, n - j + 1, n)}
<1>5. 0 \in T
  <2>1. n - 0 = n /\ n \in 0 .. n /\ Len(script) >= Len(script) /\ n - 0 + 1 = n + 1 /\ n < n + 1
    BY <1>2
  <2>2. walk[e[n]] = <<>>
    BY <1>3, <1>4, <2>1
  <2>3. SubSeq(params, n + 1, n) = <<>>
    BY <1>2, <2>1, SubSeqEmpty
  <2> QED
    BY <2>1, <2>2, <2>3
<1>6. ASSUME NEW j \in Nat, j \in T PROVE j + 1 \in T
  <2> SUFFICES ASSUME j + 1 <= n PROVE walk[e[n - (j + 1)]] = SubSeq(params, n - (j + 1) + 1, n)
    OBVIOUS
  <2> DEFINE i == n - j
  <2>1. /\ i \in 1 .. n /\ i - 1 \in 0 .. n /\ i \in 0 .. n /\ n \in i .. n
        /\ n - (j + 1) = i - 1 /\ n - (j + 1) + 1 = i /\ j <= n
    BY <1>2
  <2>2. walk[e[i]] = SubSeq(params, i + 1, n)
    BY <1>6, <2>1
  <2> HIDE DEF i
  <2>3. e[i - 1] \in Nat /\ e[i - 1] < e[i] /\ e[i] <= Len(script)
    BY <1>1, <2>1, PlacesGrow
  <2>4. /\ GetParam(script, Len(script), e[i - 1]).next = e[i]
        /\ ~GetParam(script, Len(script), e[i - 1]).err
    BY <1>1, <1>2, <2>1, <2>3, AtPlace
  <2>5. Item(e[i - 1]) = params[i]
    BY <1>1, <2>1, ItemIsParam
  <2>6. ~(e[i - 1] >= Len(script))
    BY <1>2, <1>3, <2>1, <2>3
  <2>7. walk[e[i - 1]] = <<params[i]>> \o SubSeq(params, i + 1, n)
    BY <1>4, <2>2, <2>3, <2>4, <2>5, <2>6
  <2>8. SubSeq(params, i, n) = <<params[i]>> \o SubSeq(params, i + 1, n)
    BY <1>2, <2>1, SubSeqRecursiveFirst
  <2> QED
    BY <2>1, <2>7, <2>8
<1>7. n \in T
  <2> HIDE DEF T
  <2>1. Nat \subseteq T
    BY <1>5, <1>6, AllNaturals
  <2> QED
    BY <1>2, <2>1
<1>8. walk[e[0]] = SubSeq(params, 1, n)
  <2>1. n <= n /\ n - n = 0 /\ n - n + 1 = 1
    BY <1>2
  <2> QED
    BY <1>7, <2>1
<1>9. SubSeq(params, 1, n) = params
  BY <1>2, SubSeqFull
<1> QED
  BY <1>3, <1>4, <1>8, <1>9

LEMMA ReadWhole == IInv => ReadWholeOrRefused
<1> SUFFICES ASSUME IInv PROVE ReadWholeOrRefused
  OBVIOUS
<1>1. PICK e : Places(e)
  BY DEF IInv
<1>2. Ends = {e[i] : i \in 0 .. Len(params)}
  BY <1>1, EndsAre
<1>3. \A total \in 0 .. Len(script) : Verify(script, total) <=> total \in Ends
  <2> SUFFICES ASSUME NEW total \in 0 .. Len(script) PROVE Verify(script, total) <=> total \in Ends
    OBVIOUS
  <2>1. Verify(script, total) <=> \E i \in 0 .. Len(params) : total = e[i]
    BY <1>1, VerifiedAtEnds
  <2> QED
    BY <1>2, <2>1
<1>4. Len(script) \in 0 .. Len(script) /\ Len(script) \in Ends
  <2>1. script \in Seq(Byte) /\ params \in Seq(Param) /\ e[Len(params)] = Len(script)
    BY <1>1 DEF IInv, Places
  <2>2. Len(params) \in 0 .. Len(params) /\ Len(script) \in 0 .. Len(script)
    BY <2>1
  <2> QED
    BY <1>2, <2>1, <2>2
<1>5. Verify(script, Len(script))
  BY <1>3, <1>4
<1> QED
  BY <1>3, <1>5, WalkIsParams DEF ReadWholeOrRefused, ReadsWhatWasWritten, CutIsRefused

-----------------------------------------------------------------------------
(* The finders (hdacscript.cpp:1963-2019).                                  *)

(* What a finder that looks for the places in M does.                       *)
Finds(M, f) ==
  f = [o \in Nat |->
        IF o >= Len(script) THEN NotFound(Len(script))
        ELSE IF GetParam(script, Len(script), o).start > 0 /\ o \in M
             THEN [start |-> GetParam(script, Len(script), o).start,
                   size |-> GetParam(script, Len(script), o).size]
             ELSE f[GetParam(script, Len(script), o).next]]

LEMMA FinderExists ==
  ASSUME IInv, NEW M
  PROVE  \E f : Finds(M, f)
<1> DEFINE total == Len(script)
           Found(o) == [start |-> GetParam(script, total, o).start, size |-> GetParam(script, total, o).size]
           hit(o) == GetParam(script, total, o).start > 0 /\ o \in M
           S == {NotFound(total)} \cup {Found(o) : o \in Nat}
           next == [o \in Nat |-> GetParam(script, total, o).next]
           H == [p \in Nat \X S |-> IF hit(p[1]) THEN Found(p[1]) ELSE p[2]]
<1>1. total \in Nat /\ total \in 0 .. Len(script) /\ script \in Seq(Byte)
  BY DEF IInv
<1>2. /\ next \in [Nat -> Nat] /\ \A o \in Nat : o < total => next[o] > o
      /\ \A o \in Nat : next[o] = GetParam(script, total, o).next
  BY <1>1, GetParamMoves
<1>3. NotFound(total) \in S /\ \A o \in Nat : Found(o) \in S
  OBVIOUS
<1> HIDE DEF S, Found, hit
<1>4. /\ H \in [Nat \X S -> S]
      /\ \A o \in Nat, x \in S : H[<<o, x>>] = IF hit(o) THEN Found(o) ELSE x
  BY <1>3
<1> HIDE DEF total, next, H
<1>5. PICK f : Downward(S, total, NotFound(total), next, H, f)
  BY <1>1, <1>2, <1>3, <1>4, DownwardExists
<1>6. /\ f \in [Nat -> S]
      /\ f = [o \in Nat |-> IF o >= total THEN NotFound(total) ELSE H[<<o, f[next[o]]>>]]
  BY <1>5 DEF Downward
<1>7. ASSUME NEW o \in Nat
      PROVE  H[<<o, f[next[o]]>>] = IF hit(o) THEN Found(o) ELSE f[GetParam(script, total, o).next]
  <2>1. next[o] \in Nat /\ next[o] = GetParam(script, total, o).next
    BY <1>2
  <2>2. f[next[o]] \in S
    BY <1>6, <2>1
  <2> QED
    BY <1>4, <2>1, <2>2
<1>8. f = [o \in Nat |-> IF o >= total THEN NotFound(total)
                         ELSE IF hit(o) THEN Found(o) ELSE f[GetParam(script, total, o).next]]
  BY <1>6, <1>7
<1> QED
  BY <1>8 DEF Finds, hit, Found, total

(* The places where a special parameter of this code, or a parameter of     *)
(* this name, seems to be.                                                  *)
CodePlaces(code) == {o \in Nat : script[o + 1] = 0 /\ script[o + 2] = code}

NamePlaces(name) ==
  {o \in Nat : /\ script[o + 1] # 0 /\ Len(name) = StrLen(script, Len(script), o)
               /\ \A i \in 1 .. Len(name) : SameLetter(name[i], script[o + i])}

LEMMA FindSpecialIs ==
  ASSUME IInv, NEW code
  PROVE  \E f : Finds(CodePlaces(code), f) /\ FindSpecial(script, Len(script), code) = f[0]
<1>1. PICK f : Finds(CodePlaces(code), f)
  BY FinderExists
<1> DEFINE find[offset \in Nat] ==
        IF offset >= Len(script) THEN NotFound(Len(script))
        ELSE LET p == GetParam(script, Len(script), offset)
             IN  IF p.start > 0 /\ (script[offset + 1] = 0 /\ script[offset + 2] = code)
                 THEN [start |-> p.start, size |-> p.size]
                 ELSE find[p.next]
<1>2. \A o \in Nat : o \in CodePlaces(code) <=> script[o + 1] = 0 /\ script[o + 2] = code
  BY DEF CodePlaces
<1>3. f = [offset \in Nat |->
            IF offset >= Len(script) THEN NotFound(Len(script))
            ELSE LET p == GetParam(script, Len(script), offset)
                 IN  IF p.start > 0 /\ (script[offset + 1] = 0 /\ script[offset + 2] = code)
                     THEN [start |-> p.start, size |-> p.size]
                     ELSE f[p.next]]
  BY <1>1, <1>2 DEF Finds
<1>4. find = [offset \in Nat |->
               IF offset >= Len(script) THEN NotFound(Len(script))
               ELSE LET p == GetParam(script, Len(script), offset)
                    IN  IF p.start > 0 /\ (script[offset + 1] = 0 /\ script[offset + 2] = code)
                        THEN [start |-> p.start, size |-> p.size]
                        ELSE find[p.next]]
  BY <1>3
<1>5. FindSpecial(script, Len(script), code) = find[0]
  BY DEF FindSpecial, Find
<1> HIDE DEF find
<1>6. Finds(CodePlaces(code), find)
  BY <1>2, <1>4 DEF Finds
<1> QED
  BY <1>5, <1>6

LEMMA FindNamedIs ==
  ASSUME IInv, NEW name
  PROVE  \E f : Finds(NamePlaces(name), f) /\ FindNamed(script, Len(script), name) = f[0]
<1>1. PICK f : Finds(NamePlaces(name), f)
  BY FinderExists
<1> DEFINE here(o) == /\ script[o + 1] # 0
                      /\ Len(name) = StrLen(script, Len(script), o)
                      /\ \A i \in 1 .. Len(name) : SameLetter(name[i], script[o + i])
           find[offset \in Nat] ==
        IF offset >= Len(script) THEN NotFound(Len(script))
        ELSE LET p == GetParam(script, Len(script), offset)
             IN  IF p.start > 0 /\ here(offset)
                 THEN [start |-> p.start, size |-> p.size]
                 ELSE find[p.next]
<1>2. FindNamed(script, Len(script), name) = find[0]
  BY DEF FindNamed, Find
<1>3. \A o \in Nat : o \in NamePlaces(name) <=> here(o)
  BY DEF NamePlaces
<1> HIDE DEF here
<1>4. f = [offset \in Nat |->
            IF offset >= Len(script) THEN NotFound(Len(script))
            ELSE LET p == GetParam(script, Len(script), offset)
                 IN  IF p.start > 0 /\ here(offset)
                     THEN [start |-> p.start, size |-> p.size]
                     ELSE f[p.next]]
  BY <1>1, <1>3 DEF Finds
<1>5. find = [offset \in Nat |->
               IF offset >= Len(script) THEN NotFound(Len(script))
               ELSE LET p == GetParam(script, Len(script), offset)
                    IN  IF p.start > 0 /\ here(offset)
                        THEN [start |-> p.start, size |-> p.size]
                        ELSE find[p.next]]
  BY <1>4
<1> HIDE DEF find
<1>6. Finds(NamePlaces(name), find)
  BY <1>3, <1>5 DEF Finds
<1> QED
  BY <1>2, <1>6

(* A special parameter is where its code says, a named one where its name   *)
(* does, but for the case of letters; neither is ever taken for the other.  *)
LEMMA KeyIsAt ==
  ASSUME IInv, NEW e, Places(e), NEW i \in 1 .. Len(params)
  PROVE  LET o == e[i - 1]
             key == params[i].key
         IN  /\ o \in Nat /\ o < Len(script)
             /\ script[o + 1] = 0 <=> key[1] = "special"
             /\ key[1] = "special" => key = <<"special", key[2]>> /\ script[o + 2] = key[2]
             /\ key[1] # "special" =>
                  /\ key = <<"named", key[2]>> /\ Len(key[2]) \in Nat
                  /\ StrLen(script, Len(script), o) = Len(key[2])
                  /\ \A j \in 1 .. Len(key[2]) : script[o + j] = key[2][j]
<1> DEFINE p == params[i]
           o == e[i - 1]
           total == Len(script)
<1>1. script \in Seq(Byte) /\ total \in Nat
  BY DEF IInv
<1>2. Fits(p) /\ p \in Param /\ At(script, o, Code(p)) /\ e[i] = o + Len(Code(p))
  BY DEF IInv, Places, Fits
<1>3. o \in Nat /\ e[i] \in Nat /\ o < e[i] /\ e[i] <= total
  <2>1. i \in 0 .. Len(params) /\ i - 1 \in 0 .. Len(params)
    OBVIOUS
  <2> QED
    BY <2>1, PlacesGrow
<1> HIDE DEF p, o, total
<1>4. At(script, o, KeyBytes(p))
  BY <1>2, <1>3, PartsOfCode
<1>5. o < total /\ total >= o + Len(KeyBytes(p))
  <2> DEFINE K == Len(KeyBytes(p))
             I == Len(PutVarInt(Len(p.value)))
             V == Len(p.value)
             end == e[i]
  <2>1. Len(Code(p)) = K + I + V /\ I \in 1 .. 9
    BY <1>2, CodeIs
  <2>2. V \in Nat /\ K \in Nat
    BY <1>2, ParamIs
  <2>3. end = o + (K + I + V) /\ o \in Nat /\ end \in Nat /\ o < end /\ end <= total
    BY <1>2, <1>3, <2>1
  <2>4. total \in Nat
    BY <1>1 DEF total
  <2> HIDE DEF K, I, V, end
  <2>5. o < total /\ total >= o + K
    BY <2>1, <2>2, <2>3, <2>4
  <2> QED
    BY <2>5 DEF K
<1>6. /\ script[o + 1] = 0 <=> p.key[1] = "special"
      /\ p.key[1] = "special" => script[o + 2] = p.key[2]
      /\ p.key[1] # "special" =>
           /\ StrLen(script, total, o) = Len(p.key[2])
           /\ \A j \in 1 .. Len(p.key[2]) : script[o + j] = p.key[2][j]
  BY <1>1, <1>2, <1>3, <1>4, <1>5, KeyIsRead
<1>7. /\ p.key[1] = "special" => p.key = <<"special", p.key[2]>>
      /\ p.key[1] # "special" => p.key = <<"named", p.key[2]>> /\ Len(p.key[2]) \in Nat
  BY <1>2, ParamIs
<1> QED
  BY <1>3, <1>5, <1>6, <1>7 DEF p, o, total

LEMMA CodeIsThere ==
  ASSUME IInv, NEW e, Places(e), NEW i \in 1 .. Len(params), NEW code
  PROVE  e[i - 1] \in CodePlaces(code) <=> HasCode(params[i].key, code)
<1> DEFINE o == e[i - 1]
           key == params[i].key
<1>1. /\ o \in Nat
      /\ script[o + 1] = 0 <=> key[1] = "special"
      /\ key[1] = "special" => key = <<"special", key[2]>> /\ script[o + 2] = key[2]
      /\ key[1] # "special" => key = <<"named", key[2]>>
  BY KeyIsAt
<1> HIDE DEF o, key
<1>2. o \in CodePlaces(code) <=> script[o + 1] = 0 /\ script[o + 2] = code
  BY <1>1 DEF CodePlaces
<1>3. HasCode(key, code) <=> key[1] = "special" /\ key[2] = code
  <2>1. HasCode(key, code) => key[1] = "special" /\ key[2] = code
    BY DEF HasCode
  <2>2. key[1] = "special" /\ key[2] = code => HasCode(key, code)
    BY <1>1 DEF HasCode
  <2> QED
    BY <2>1, <2>2
<1> QED
  BY <1>1, <1>2, <1>3 DEF o, key

LEMMA NameIsThere ==
  ASSUME IInv, NEW e, Places(e), NEW i \in 1 .. Len(params), NEW name
  PROVE  e[i - 1] \in NamePlaces(name) <=> HasName(params[i].key, name)
<1> DEFINE o == e[i - 1]
           key == params[i].key
<1>1. /\ o \in Nat
      /\ script[o + 1] = 0 <=> key[1] = "special"
      /\ key[1] # "special" =>
           /\ key = <<"named", key[2]>>
           /\ StrLen(script, Len(script), o) = Len(key[2])
           /\ \A j \in 1 .. Len(key[2]) : script[o + j] = key[2][j]
  BY SMTT(30), KeyIsAt
<1> HIDE DEF o, key
<1>2. \A a, b : SameLetter(a, b) <=> SameLetter(b, a)
  BY Zenon DEF SameLetter
<1>3. CASE key[1] = "special"
  <2>1. o \notin NamePlaces(name)
    BY <1>1, <1>3 DEF NamePlaces
  <2>2. ~HasName(key, name)
    BY <1>3 DEF HasName
  <2> QED
    BY <2>1, <2>2 DEF o, key
<1>4. CASE key[1] # "special"
  <2>1. key[1] = "named"
    BY <1>1, <1>4
  <2>2. o \in NamePlaces(name) <=>
          /\ Len(name) = Len(key[2])
          /\ \A j \in 1 .. Len(name) : SameLetter(name[j], script[o + j])
    BY <1>1, <1>4 DEF NamePlaces
  <2>3. HasName(key, name) <=>
          /\ Len(name) = Len(key[2])
          /\ \A j \in 1 .. Len(name) : SameLetter(key[2][j], name[j])
    BY <2>1 DEF HasName
  <2>4. ASSUME Len(name) = Len(key[2]), NEW j \in 1 .. Len(name)
        PROVE  SameLetter(name[j], script[o + j]) <=> SameLetter(key[2][j], name[j])
    <3>1. script[o + j] = key[2][j]
      BY <1>1, <1>4, <2>4
    <3> QED
      BY <1>2, <3>1
  <2> QED
    BY <2>2, <2>3, <2>4 DEF o, key
<1> QED
  BY <1>3, <1>4

(* The first parameter at a place in M is the one that is found.            *)
Matched(e, M) == {i \in 1 .. Len(params) : e[i - 1] \in M}

LEMMA WalksOn ==
  ASSUME IInv, NEW e, Places(e), NEW M, NEW f, Finds(M, f),
         NEW k \in 0 .. Len(params), \A i \in 1 .. k : i \notin Matched(e, M)
  PROVE  f[0] = f[e[k]]
<1> DEFINE n == Len(params)
           total == Len(script)
           T == {j \in Nat : j <= k => f[0] = f[e[j]]}
<1>1. n \in Nat /\ total \in Nat /\ e[0] = 0 /\ total \in 0 .. Len(script)
  BY DEF IInv, Places
<1>2. 0 \in T
  BY <1>1
<1>3. ASSUME NEW j \in Nat, j \in T PROVE j + 1 \in T
  <2> SUFFICES ASSUME j + 1 <= k PROVE f[0] = f[e[j + 1]]
    OBVIOUS
  <2> DEFINE i == j + 1
  <2>1. i \in 1 .. k /\ i \in 1 .. n /\ i - 1 = j /\ i - 1 \in 0 .. n /\ i \in 0 .. n /\ j <= k
    BY <1>1
  <2> HIDE DEF i, T
  <2>2. f[0] = f[e[j]]
    BY <1>3, <2>1 DEF T
  <2>3. e[j] \in Nat /\ e[i] \in Nat /\ e[j] < e[i] /\ e[i] <= total
    BY <2>1, PlacesGrow
  <2>4. GetParam(script, total, e[j]).next = e[i]
    BY <1>1, <2>1, <2>3, AtPlace
  <2>5. e[j] \notin M
    BY <2>1 DEF Matched
  <2>6. ~(e[j] >= total)
    BY <1>1, <2>3
  <2> HIDE DEF total
  <2>7. f[e[j]] = f[e[i]]
    BY <2>3, <2>4, <2>5, <2>6 DEF Finds, total
  <2> QED
    BY <2>2, <2>7 DEF i
<1>4. k \in T
  <2> HIDE DEF T
  <2>1. Nat \subseteq T
    BY <1>2, <1>3, AllNaturals
  <2> QED
    BY <2>1
<1> QED
  BY <1>4

LEMMA FirstIsFound ==
  ASSUME IInv, NEW e, Places(e), NEW M, NEW f, Finds(M, f)
  PROVE  /\ Matched(e, M) = {} => f[0] = NotFound(Len(script))
         /\ \A k \in Matched(e, M) :
              (\A j \in Matched(e, M) : k <= j) =>
                f[0] = [start |-> e[k] - Len(params[k].value), size |-> Len(params[k].value)]
<1> DEFINE n == Len(params)
           total == Len(script)
<1>1. n \in Nat /\ total \in Nat /\ e[n] = total /\ total \in 0 .. Len(script) /\ n \in 0 .. n
  BY DEF IInv, Places
<1>2. ASSUME Matched(e, M) = {} PROVE f[0] = NotFound(total)
  <2>1. f[0] = f[e[n]]
    BY <1>1, <1>2, WalksOn
  <2>2. f[total] = NotFound(total)
    BY <1>1 DEF Finds
  <2> QED
    BY <1>1, <2>1, <2>2
<1>3. ASSUME NEW k \in Matched(e, M), \A j \in Matched(e, M) : k <= j
      PROVE  f[0] = [start |-> e[k] - Len(params[k].value), size |-> Len(params[k].value)]
  <2>1. k \in 1 .. n /\ k - 1 \in 0 .. n /\ k \in 0 .. n /\ e[k - 1] \in M
    BY <1>1 DEF Matched
  <2>2. \A i \in 1 .. k - 1 : i \notin Matched(e, M)
    BY <1>3, <2>1
  <2>3. f[0] = f[e[k - 1]]
    BY <2>1, <2>2, WalksOn
  <2>4. e[k - 1] \in Nat /\ e[k] \in Nat /\ e[k - 1] < e[k] /\ e[k] <= total
    BY <2>1, PlacesGrow
  <2> DEFINE V == Len(params[k].value)
             end == e[k]
             o == e[k - 1]
  <2>5. /\ GetParam(script, total, o).start = end - V
        /\ GetParam(script, total, o).size = V
    BY <1>1, <2>1, <2>4, AtPlace
  <2>6. o < end - V
    <3>1. Fits(params[k]) /\ params[k] \in Param /\ end = o + Len(Code(params[k]))
      BY <2>1 DEF IInv, Places, Fits
    <3> DEFINE K == Len(KeyBytes(params[k]))
               I == Len(PutVarInt(V))
    <3>2. Len(Code(params[k])) = K + I + V /\ I \in 1 .. 9
      BY <3>1, CodeIs
    <3>3. V \in Nat /\ K \in Nat
      BY <3>1, ParamIs
    <3>4. end = o + (K + I + V) /\ o \in Nat
      BY <2>4, <3>1, <3>2
    <3> HIDE DEF V, end, o, K, I
    <3> QED
      BY <3>2, <3>3, <3>4
  <2>7. o \in Nat /\ ~(o >= total) /\ o \in M
    BY <1>1, <2>1, <2>4
  <2>8. end - V \in Int /\ end - V > 0
    <3>1. V \in Nat /\ end \in Nat
      <4>1. params[k] \in Param
        BY <2>1 DEF IInv, Fits
      <4> QED
        BY <2>4, <4>1, ParamIs
    <3> HIDE DEF V, end, o
    <3> QED
      BY <2>6, <2>7, <3>1
  <2> HIDE DEF V, end, o
  <2>9. f[o] = [start |-> end - V, size |-> V]
    BY <2>5, <2>7, <2>8 DEF Finds
  <2> QED
    BY <2>3, <2>9 DEF V, end, o
<1> QED
  BY <1>2, <1>3

(* The value of the first parameter of a set, as FirstValue has it.         *)
FirstIn(S) ==
  LET first == CHOOSE i \in S : \A j \in S : i <= j
  IN  IF S = {} \/ (first = Len(params) /\ params[first].value = <<>>)
      THEN {} ELSE {params[first].value}

LEMMA FirstInIs ==
  ASSUME IInv, NEW S \in SUBSET (1 .. Len(params)), S # {}
  PROVE  \E k \in S : /\ \A j \in S : k <= j
                      /\ FirstIn(S) = IF k = Len(params) /\ params[k].value = <<>>
                                      THEN {} ELSE {params[k].value}
<1>1. Len(params) \in Nat
  BY DEF IInv
<1>2. S \in SUBSET Nat
  BY <1>1
<1>3. PICK k \in S : \A j \in S : k <= j
  BY <1>2, LeastNatural
<1>4. \A m \in S : (\A j \in S : m <= j) => m = k
  BY <1>2, <1>3
<1>5. (CHOOSE i \in S : \A j \in S : i <= j) = k
  BY <1>3, <1>4
<1>6. FirstIn(S) = IF k = Len(params) /\ params[k].value = <<>> THEN {} ELSE {params[k].value}
  BY <1>5 DEF FirstIn
<1> QED
  BY <1>3, <1>6

(* A field that is there is a value in the script.                          *)
IsAt(field, v) ==
  /\ v \in Seq(Byte) /\ field.size = Len(v) /\ field.start \in Nat /\ field # Absent
  /\ field.start + Len(v) <= Len(script)
  /\ \A j \in 1 .. Len(v) : script[field.start + j] = v[j]

IsField(field, first) ==
  \/ field = Absent /\ first = {}
  \/ \E v : first = {v} /\ IsAt(field, v)

LEMMA FieldIs ==
  ASSUME IInv, NEW e, Places(e), NEW M, NEW f, Finds(M, f)
  PROVE  IsField(Field(f[0], Len(script)), FirstIn(Matched(e, M)))
<1> DEFINE n == Len(params)
           total == Len(script)
           S == Matched(e, M)
<1>1. n \in Nat /\ total \in Nat /\ e[n] = total /\ S \in SUBSET (1 .. n) /\ n \in 0 .. n
  BY DEF IInv, Places, Matched
<1>2. CASE S = {}
  <2>1. f[0] = NotFound(total)
    BY <1>2, FirstIsFound
  <2>2. Field(f[0], total) = Absent
    BY <2>1 DEF Field, NotFound
  <2>3. FirstIn(S) = {}
    BY <1>2 DEF FirstIn
  <2> QED
    BY <2>2, <2>3 DEF IsField
<1>3. CASE S # {}
  <2>1. PICK k \in S : /\ \A j \in S : k <= j
                       /\ FirstIn(S) = IF k = n /\ params[k].value = <<>>
                                       THEN {} ELSE {params[k].value}
    BY <1>1, <1>3, FirstInIs
  <2> DEFINE v == params[k].value
             V == Len(v)
             end == e[k]
             o == e[k - 1]
             p == params[k]
             K == Len(KeyBytes(p))
             I == Len(PutVarInt(V))
  <2>2. f[0] = [start |-> end - V, size |-> V]
    BY <2>1, FirstIsFound
  <2>3. k \in 1 .. n /\ k - 1 \in 0 .. n /\ k \in 0 .. n
    BY <1>1, <2>1
  <2>4. Fits(p) /\ p \in Param /\ end = o + Len(Code(p)) /\ At(script, o, Code(p))
    BY <2>3 DEF IInv, Places, Fits
  <2>5. o \in Nat /\ end \in Nat /\ end <= total
    BY <2>3, PlacesGrow
  <2>6. k < n => end < total
    BY <1>1, <2>3, PlacesGrow
  <2>7. /\ Len(Code(p)) = K + I + V /\ I \in 1 .. 9 /\ K \in Nat /\ V \in Nat
        /\ v \in Seq(Byte)
    <3>1. K \in Nat /\ V \in Nat /\ v \in Seq(Byte)
      BY <2>4, ParamIs
    <3>2. Len(Code(p)) = K + I + V /\ I \in 1 .. 9
      BY <2>4, CodeIs
    <3> QED
      BY <3>1, <3>2
  <2>8. At(script, o + K + I, v)
    BY <2>4, <2>5, PartsOfCode
  <2>9. V = 0 <=> v = <<>>
    BY <2>7
  <2> DEFINE start == end - V
  <2>10. /\ start = o + K + I /\ start \in Nat /\ start > 0 /\ start + V = end
         /\ start = total <=> V = 0 /\ end = total
    <3>1. end = o + (K + I + V)
      BY <2>4, <2>7
    <3> HIDE DEF V, end, o, K, I, total
    <3> QED
      BY <1>1, <2>5, <2>7, <3>1
  <2>11. end = total <=> k = n
    <3> HIDE DEF end, total
    <3>1. k = n => end = total
      BY <1>1 DEF end
    <3>2. k # n => end < total
      <4>1. k # n => k < n
        BY <1>1, <2>3
      <4> QED
        BY <2>6, <4>1
    <3> QED
      BY <1>1, <2>5, <3>1, <3>2
  <2> HIDE DEF start, end, o, K, I, V
  <2>12. CASE V = 0 /\ k = n
    <3>1. Field(f[0], total) = Absent
      BY <2>2, <2>10, <2>11, <2>12 DEF Field, start
    <3>2. FirstIn(S) = {}
      BY <2>1, <2>9, <2>12
    <3> QED
      BY <3>1, <3>2 DEF IsField
  <2>13. CASE ~(V = 0 /\ k = n)
    <3> DEFINE field == Field(f[0], total)
    <3>1. f[0] = [start |-> start, size |-> V]
      BY <2>2 DEF start
    <3>2. field = [start |-> start, size |-> V]
      BY <2>10, <2>11, <2>13, <3>1 DEF Field
    <3>3. FirstIn(S) = {v}
      BY <2>1, <2>9, <2>13
    <3>4. \A j \in 1 .. V : script[start + j] = v[j]
      BY <2>8, <2>10 DEF At, V
    <3>5. IsAt(field, v)
      <4>1. field.start = start /\ field.size = V
        BY <3>2
      <4>2. field # Absent
        BY <2>10, <4>1 DEF Absent
      <4> HIDE DEF field, v
      <4> QED
        BY <2>5, <2>7, <2>10, <3>4, <4>1, <4>2 DEF IsAt, V
    <3> QED
      BY <3>3, <3>5 DEF IsField
  <2> QED
    BY <2>12, <2>13
<1> QED
  BY <1>2, <1>3

(* What such a field reads as.                                              *)
LEMMA ValueIs ==
  ASSUME IInv, NEW field, NEW first, IsField(field, first)
  PROVE  ValueAt(field) = first
<1>1. CASE field = Absent /\ first = {}
  BY <1>1 DEF ValueAt
<1>2. ASSUME NEW v, first = {v}, IsAt(field, v) PROVE ValueAt(field) = first
  <2> DEFINE start == field.start
             V == Len(v)
             s == SubSeq(script, start + 1, start + V)
  <2>1. /\ v \in Seq(Byte) /\ field.size = V /\ start \in Nat /\ field # Absent /\ V \in Nat
        /\ start + V <= Len(script) /\ \A j \in 1 .. V : script[start + j] = v[j]
    BY <1>2 DEF IsAt
  <2>2. script \in Seq(Byte) /\ Len(script) \in Nat
    BY DEF IInv
  <2>3. \A j \in start + 1 .. start + V : script[j] \in Byte
    <3> SUFFICES ASSUME NEW j \in start + 1 .. start + V PROVE script[j] \in Byte
      OBVIOUS
    <3>1. j \in 1 .. Len(script)
      BY <2>1, <2>2
    <3> QED
      BY <2>2, <3>1, ElementOfSeq
  <2> HIDE DEF start, V
  <2>4. start + 1 \in Int /\ start + V \in Int /\ V \in Nat /\ start \in Nat
    BY <2>1
  <2>5. /\ s \in Seq(Byte)
        /\ Len(s) = IF start + 1 <= start + V THEN start + V - (start + 1) + 1 ELSE 0
        /\ \A j \in 1 .. start + V - (start + 1) + 1 : s[j] = script[start + 1 + j - 1]
    BY <2>3, <2>4, SubSeqProperties
  <2>6. /\ start + V - (start + 1) + 1 = V /\ (start + 1 <= start + V <=> V >= 1)
        /\ \A j \in 1 .. V : start + 1 + j - 1 = start + j
    BY <2>4
  <2>7. Len(s) = V /\ \A j \in 1 .. V : s[j] = v[j]
    <3>1. V >= 1 \/ V = 0
      BY <2>4
    <3> HIDE DEF s
    <3> QED
      BY <2>1, <2>5, <2>6, <3>1
  <2> HIDE DEF s
  <2>8. s = v
    BY <2>1, <2>5, <2>7, SeqEqual DEF V
  <2> QED
    BY <1>2, <2>1, <2>8 DEF ValueAt, s, start
<1> QED
  BY <1>1, <1>2 DEF IsField

(* Every field is the first value of its key.                               *)
FirstOf(code) == FirstValue(LAMBDA key : HasCode(key, code))
FirstNamed(name) == FirstValue(LAMBDA key : HasName(key, name))

LEMMA FieldOfCode ==
  ASSUME IInv, NEW code
  PROVE  IsField(GetSpecialParam(script, code), FirstOf(code))
<1>1. PICK e : Places(e)
  BY DEF IInv
<1>2. PICK f : Finds(CodePlaces(code), f) /\ FindSpecial(script, Len(script), code) = f[0]
  BY FindSpecialIs
<1> DEFINE S == {i \in 1 .. Len(params) : HasCode(params[i].key, code)}
<1>3. Matched(e, CodePlaces(code)) = S
  BY <1>1, CodeIsThere DEF Matched
<1>4. FirstOf(code) = FirstIn(S)
  BY DEF FirstOf, FirstValue, FirstIn
<1>5. IsField(Field(f[0], Len(script)), FirstIn(Matched(e, CodePlaces(code))))
  BY <1>1, <1>2, FieldIs
<1>6. GetSpecialParam(script, code) = Field(f[0], Len(script))
  BY <1>2 DEF GetSpecialParam
<1> HIDE DEF S
<1> QED
  BY <1>3, <1>4, <1>5, <1>6

LEMMA FieldOfName ==
  ASSUME IInv, NEW name
  PROVE  IsField(GetNamedParam(script, name), FirstNamed(name))
<1>1. PICK e : Places(e)
  BY DEF IInv
<1>2. PICK f : Finds(NamePlaces(name), f) /\ FindNamed(script, Len(script), name) = f[0]
  BY FindNamedIs
<1> DEFINE S == {i \in 1 .. Len(params) : HasName(params[i].key, name)}
<1>3. Matched(e, NamePlaces(name)) = S
  BY <1>1, NameIsThere DEF Matched
<1>4. FirstNamed(name) = FirstIn(S)
  BY DEF FirstNamed, FirstValue, FirstIn
<1>5. IsField(Field(f[0], Len(script)), FirstIn(Matched(e, NamePlaces(name))))
  BY <1>1, <1>2, FieldIs
<1>6. GetNamedParam(script, name) = Field(f[0], Len(script))
  BY <1>2 DEF GetNamedParam
<1> HIDE DEF S
<1> QED
  BY <1>3, <1>4, <1>5, <1>6

(* A number depends on its bytes alone.                                     *)
SameBytes(a, x, b, y, size) == \A i \in 1 .. size : b[y + i] \in Nat /\ a[x + i] = b[y + i]

LEMMA SameNumber ==
  ASSUME NEW a, NEW x \in Nat, NEW b, NEW y \in Nat, NEW size \in Nat,
         SameBytes(a, x, b, y, size)
  PROVE  GetLE(a, x, size) = GetLE(b, y, size)
<1>1. AreBytes(a, x, size) /\ AreBytes(b, y, size)
  BY DEF AreBytes, SameBytes
<1>2. PICK sum : IsSum(a, x, size, sum) /\ GetLE(a, x, size) = sum[size]
  BY <1>1, GetLEIs
<1>3. PICK sum2 : IsSum(b, y, size, sum2) /\ GetLE(b, y, size) = sum2[size]
  BY <1>1, GetLEIs
<1> DEFINE T == {i \in Nat : i <= size => sum[i] = sum2[i]}
<1>4. 0 \in T
  BY <1>2, <1>3 DEF IsSum
<1>5. ASSUME NEW i \in Nat, i \in T PROVE i + 1 \in T
  <2> SUFFICES ASSUME i + 1 <= size PROVE sum[i + 1] = sum2[i + 1]
    OBVIOUS
  <2>1. i + 1 \in 1 .. size /\ i < size
    OBVIOUS
  <2>2. sum[i] = sum2[i]
    BY <1>5, <2>1
  <2>3. x + (i + 1) = x + i + 1 /\ y + (i + 1) = y + i + 1
    OBVIOUS
  <2>4. a[x + i + 1] = b[y + i + 1]
    BY <2>1, <2>3 DEF SameBytes
  <2>5. sum[i + 1] = sum[i] + a[x + i + 1] * Power[i] /\ sum2[i + 1] = sum2[i] + b[y + i + 1] * Power[i]
    BY <1>2, <1>3, <2>1 DEF IsSum
  <2> QED
    BY <2>2, <2>4, <2>5, Zenon
<1>6. size \in T
  <2> HIDE DEF T
  <2>1. Nat \subseteq T
    BY <1>4, <1>5, AllNaturals
  <2> QED
    BY <2>1
<1> QED
  BY <1>2, <1>3, <1>6

LEMMA NumberIsRead ==
  ASSUME IInv, NEW field, NEW v, IsAt(field, v)
  PROVE  GetLE(script, field.start, Len(v)) = GetLE(v, 0, Len(v)) /\ GetLE(script, field.start, Len(v)) \in Nat
<1> DEFINE start == field.start
           V == Len(v)
<1>1. v \in Seq(Byte) /\ start \in Nat /\ V \in Nat /\ \A j \in 1 .. V : script[start + j] = v[j]
  BY DEF IsAt
<1> DEFINE zero == 0
<1>2. ASSUME NEW j \in 1 .. V PROVE v[zero + j] \in Nat /\ script[start + j] = v[zero + j]
  <2>1. v[j] \in Byte /\ zero + j = j
    BY <1>1, ElementOfSeq
  <2> QED
    BY <1>1, <2>1, RadixIs
<1>3. zero \in Nat
  OBVIOUS
<1> HIDE DEF start, V, zero
<1>4. GetLE(script, start, V) = GetLE(v, zero, V)
  <2>1. SameBytes(script, start, v, zero, V)
    BY <1>2 DEF SameBytes
  <2>2. start \in Nat /\ V \in Nat
    BY <1>1
  <2> QED
    BY <1>3, <2>1, <2>2, SameNumber
<1>5. AreBytes(v, zero, V)
  BY <1>2 DEF AreBytes
<1>6. GetLE(v, zero, V) \in Nat
  BY <1>1, <1>3, <1>5, GetLEType
<1> QED
  BY <1>4, <1>6 DEF start, V, zero

(* The accessors that make something of a field.                            *)
LEMMA MultipleIsPositive == IInv => GetAssetMultiple(script) > 0
<1> SUFFICES ASSUME IInv PROVE GetAssetMultiple(script) > 0
  OBVIOUS
<1> DEFINE field == GetSpecialParam(script, MultipleCode)
           first == FirstOf(MultipleCode)
           number == GetLE(script, field.start, 4)
           multiple == IF field.size = 4 THEN Signed(number, 4) ELSE 1
<1>1. IsField(field, first)
  BY FieldOfCode
<1> HIDE DEF field, first
<1>2. ASSUME field.size = 4 PROVE number \in Nat
  <2>1. field # Absent
    BY <1>2 DEF Absent
  <2>2. PICK v : IsAt(field, v)
    BY <1>1, <2>1 DEF IsField
  <2>3. Len(v) = 4
    BY <1>2, <2>2 DEF IsAt
  <2> QED
    BY <2>2, <2>3, NumberIsRead
<1>3. Power[4] \in Nat
  BY PowerIs
<1> HIDE DEF number
<1>4. field.size = 4 => Signed(number, 4) \in Int
  BY <1>2, <1>3 DEF Signed
<1>5. multiple \in Int
  BY <1>4
<1>6. GetAssetMultiple(script) = IF multiple <= 0 THEN 1 ELSE multiple
  BY DEF GetAssetMultiple, field, number
<1> HIDE DEF multiple
<1> QED
  BY <1>5, <1>6

LEMMA NameIsRead ==
  ASSUME IInv
  PROVE  LET First == FirstOf(NameCode)
             Named == FirstNamed(NameField)
             Names == IF First = {} THEN Named ELSE First
         IN  ValueAt(GetName(script)) = {v \in Names : ~(Len(v) = 2 /\ v[1] = Star)}
<1> DEFINE special == GetSpecialParam(script, NameCode)
           named == GetNamedParam(script, NameField)
           First == FirstOf(NameCode)
           Named == FirstNamed(NameField)
           Names == IF First = {} THEN Named ELSE First
           field == IF special = Absent THEN named ELSE special
<1>1. IsField(special, First) /\ IsField(named, Named)
  BY FieldOfCode, FieldOfName
<1>2. GetName(script) = IF field.size = 2 /\ script[field.start + 1] = Star THEN Absent ELSE field
  BY DEF GetName
<1> HIDE DEF special, named, First, Named
<1>3. special = Absent <=> First = {}
  BY <1>1 DEF IsField, IsAt
<1>4. IsField(field, Names)
  BY <1>1, <1>3
<1> HIDE DEF field, Names
<1>5. CASE field = Absent /\ Names = {}
  <2>1. GetName(script) = Absent
    BY <1>2, <1>5
  <2>2. ValueAt(Absent) = {}
    BY DEF ValueAt
  <2> QED
    BY <1>5, <2>1, <2>2 DEF Names, First, Named
<1>6. ASSUME NEW v, Names = {v}, IsAt(field, v)
      PROVE  ValueAt(GetName(script)) = {w \in Names : ~(Len(w) = 2 /\ w[1] = Star)}
  <2>1. field.size = Len(v) /\ \A j \in 1 .. Len(v) : script[field.start + j] = v[j]
    BY <1>6 DEF IsAt
  <2>2. Len(v) = 2 => script[field.start + 1] = v[1]
    BY <2>1
  <2>3. ValueAt(field) = {v}
    BY <1>6, ValueIs DEF IsField
  <2>4. ValueAt(Absent) = {}
    BY DEF ValueAt
  <2> QED
    BY <1>2, <1>6, <2>1, <2>2, <2>3, <2>4
<1>7. ValueAt(GetName(script)) = {w \in Names : ~(Len(w) = 2 /\ w[1] = Star)}
  BY <1>4, <1>5, <1>6 DEF IsField, Names, First, Named
<1> QED
  BY <1>7 DEF Names, First, Named

(* A caller of NextParam, as a function that exists.                        *)
LEMMA StepsIs ==
  ASSUME IInv
  PROVE  \E f : /\ Steps = f[0] /\ f[-1] = 0
                /\ \A o \in Nat : f[o] = 1 + f[NextParam(script, o)]
<1> DEFINE total == Len(script)
           next == [o \in Nat |-> GetParam(script, total, o).next]
           H == [p \in Nat \X Nat |-> IF next[p[1]] = total THEN 1 ELSE 1 + p[2]]
<1>1. total \in Nat /\ total \in 0 .. Len(script) /\ script \in Seq(Byte)
  BY DEF IInv
<1>2. /\ next \in [Nat -> Nat] /\ \A o \in Nat : o < total => next[o] > o
      /\ \A o \in Nat : next[o] = GetParam(script, total, o).next
  BY <1>1, GetParamMoves
<1>3. \A o \in Nat : o >= total => next[o] = total
  BY <1>2 DEF GetParam, NoParam
<1> HIDE DEF next, total
<1>4. /\ H \in [Nat \X Nat -> Nat]
      /\ \A o, x \in Nat : H[<<o, x>>] = IF next[o] = total THEN 1 ELSE 1 + x
  OBVIOUS
<1> HIDE DEF H
<1>5. PICK g : Downward(Nat, total, 1, next, H, g)
  <2>1. 1 \in Nat
    OBVIOUS
  <2> QED
    BY <1>1, <1>2, <1>4, <2>1, DownwardExists
<1>6. g \in [Nat -> Nat] /\ g = [o \in Nat |-> IF o >= total THEN 1 ELSE H[<<o, g[next[o]]>>]]
  BY <1>5 DEF Downward
<1> DEFINE f == [o \in Int |-> IF o < 0 THEN 0 ELSE g[o]]
           nextParam(o) == IF next[o] = total THEN -1 ELSE next[o]
<1>7. \A o \in Nat : NextParam(script, o) = nextParam(o) /\ nextParam(o) \in Int
  BY SMTT(30), <1>1, <1>2 DEF NextParam, total
<1>8. ASSUME NEW o \in Nat PROVE g[o] = 1 + f[nextParam(o)]
  <2>1. next[o] \in Nat /\ g[next[o]] \in Nat
    BY <1>2, <1>6
  <2>2. g[o] = IF next[o] = total THEN 1 ELSE 1 + g[next[o]]
    <3>1. CASE o >= total
      BY <1>3, <1>6, <3>1
    <3>2. CASE ~(o >= total)
      <4>1. g[o] = H[<<o, g[next[o]]>>]
        BY <1>6, <3>2
      <4> QED
        BY <1>4, <2>1, <4>1
    <3> QED
      BY <3>1, <3>2
  <2>3. f[-1] = 0 /\ f[next[o]] = g[next[o]]
    BY <2>1
  <2> HIDE DEF f
  <2> QED
    BY <2>1, <2>2, <2>3
<1>9. ASSUME NEW o \in Int
      PROVE  f[o] = IF o < 0 THEN 0 ELSE 1 + f[NextParam(script, o)]
  <2>1. CASE o < 0
    BY <2>1
  <2>2. CASE ~(o < 0)
    <3>1. o \in Nat /\ f[o] = g[o]
      BY <2>2
    <3> HIDE DEF f
    <3> QED
      BY <1>7, <1>8, <2>2, <3>1
  <2> QED
    BY <2>1, <2>2
<1>10. f = [offset \in Int |-> IF offset < 0 THEN 0 ELSE 1 + f[NextParam(script, offset)]]
  <2>1. f = [offset \in Int |-> f[offset]]
    OBVIOUS
  <2> HIDE DEF f
  <2> QED
    BY <1>9, <2>1
<1> HIDE DEF f
<1> DEFINE steps[offset \in Int] == IF offset < 0 THEN 0 ELSE 1 + steps[NextParam(script, offset)]
<1>11. steps = [offset \in Int |-> IF offset < 0 THEN 0 ELSE 1 + steps[NextParam(script, offset)]]
  BY <1>10
<1>12. Steps = steps[0]
  BY DEF Steps
<1> HIDE DEF steps
<1>13. steps[-1] = 0 /\ \A o \in Nat : steps[o] = 1 + steps[NextParam(script, o)]
  <2>1. \A o \in Int : steps[o] = IF o < 0 THEN 0 ELSE 1 + steps[NextParam(script, o)]
    BY <1>11
  <2>2. -1 \in Int /\ -1 < 0 /\ \A o \in Nat : o \in Int /\ ~(o < 0)
    OBVIOUS
  <2> QED
    BY <2>1, <2>2
<1> QED
  BY <1>12, <1>13

(* It passes every parameter once.                                          *)
LEMMA EveryParamOnce == IInv /\ params # <<>> => Steps = Len(params)
<1> SUFFICES ASSUME IInv, params # <<>> PROVE Steps = Len(params)
  OBVIOUS
<1>1. PICK e : Places(e)
  BY DEF IInv
<1>2. PICK f : /\ Steps = f[0] /\ f[-1] = 0
               /\ \A o \in Nat : f[o] = 1 + f[NextParam(script, o)]
  BY StepsIs
<1> DEFINE n == Len(params)
           total == Len(script)
           T == {j \in Nat : j < n => f[e[n - 1 - j]] = j + 1}
<1>3. n \in Nat \ {0} /\ total \in Nat /\ total \in 0 .. Len(script) /\ e[0] = 0 /\ e[n] = total
  <2>1. params \in Seq(Param) /\ script \in Seq(Byte)
    BY DEF IInv
  <2> QED
    BY <1>1, <2>1, EmptySeq DEF Places
<1>4. ASSUME NEW i \in 1 .. n
      PROVE  e[i - 1] \in Nat /\ NextParam(script, e[i - 1]) = IF i = n THEN -1 ELSE e[i]
  <2>1. i \in 0 .. n /\ i - 1 \in 0 .. n /\ n \in 0 .. n
    BY <1>3
  <2>2. e[i - 1] \in Nat /\ e[i] <= total
    BY <1>1, <2>1, PlacesGrow
  <2>3. GetParam(script, total, e[i - 1]).next = e[i]
    BY <1>1, <1>3, <2>2, AtPlace
  <2>4. i # n => e[i] # total
    <3>1. i # n => i < n
      BY <1>3
    <3>2. i # n => e[i] < e[n]
      BY <1>1, <2>1, <3>1, PlacesGrow
    <3>3. e[i] \in Nat
      BY <1>1, <2>1, PlacesGrow
    <3> QED
      BY <1>3, <3>2, <3>3
  <2> QED
    BY <1>3, <2>2, <2>3, <2>4 DEF NextParam
<1> HIDE DEF total
<1>5. 0 \in T
  <2>1. n \in 1 .. n /\ n - 1 - 0 = n - 1
    BY <1>3
  <2>2. f[e[n - 1]] = 1 + f[-1]
    BY <1>2, <1>4, <2>1
  <2> QED
    BY <1>2, <2>1, <2>2
<1>6. ASSUME NEW j \in Nat, j \in T PROVE j + 1 \in T
  <2> SUFFICES ASSUME j + 1 < n PROVE f[e[n - 1 - (j + 1)]] = j + 1 + 1
    OBVIOUS
  <2> DEFINE i == n - 1 - j
  <2>1. i \in 1 .. n /\ i # n /\ n - 1 - (j + 1) = i - 1 /\ j < n
    BY <1>3
  <2>2. f[e[i]] = j + 1
    BY <1>6, <2>1
  <2> HIDE DEF i
  <2>3. f[e[i - 1]] = 1 + f[e[i]]
    BY <1>2, <1>4, <2>1
  <2> QED
    BY <2>1, <2>2, <2>3
<1>7. n - 1 \in T
  <2> HIDE DEF T
  <2>1. Nat \subseteq T
    BY <1>5, <1>6, AllNaturals
  <2> QED
    BY <1>3, <2>1
<1>8. n - 1 < n /\ n - 1 - (n - 1) = 0 /\ n - 1 + 1 = n
  BY <1>3
<1> QED
  BY <1>2, <1>3, <1>7, <1>8

-----------------------------------------------------------------------------
(* The calls on the other elements leave the details alone, so what holds   *)
(* of the details holds in the whole module.                                *)
LEMMA TypedNextIsNext == [TypedNext]_<<vars, typed>> => [Next]_vars
BY DEF TypedNext, WriteDetails, SetTyped, SetEntityDetails, Set, OpenCached, AppendCached

LEMMA Invariance == Spec => []IInv
<1> QED
  BY InitIInv, NextIInv, PTL DEF Spec

LEMMA TypedIsDetails == TypedSpec => Spec
<1>1. TypedInit => Init
  BY DEF TypedInit
<1> QED
  BY <1>1, TypedNextIsNext, PTL DEF TypedSpec, Spec

(* The parameters of a script are read as they were written, all of them,   *)
(* and a script that is cut anywhere but between two is refused: for every  *)
(* radix, names without zeros, codes and values, scripts of any length, and *)
(* integers in all their forms (hdacscript.cpp:213-278, 1059-1135,          *)
(* utility.cpp:48-152).                                                     *)
THEOREM ParametersAreReadWhole == Spec => []ReadWholeOrRefused
<1> QED
  BY Invariance, ReadWhole, PTL

(* The same while elements of any kind are written (hdacscript.cpp:534-1820).*)
THEOREM ParametersStayWhole == TypedSpec => []ReadWholeOrRefused
<1> QED
  BY TypedIsDetails, ParametersAreReadWhole, PTL

-----------------------------------------------------------------------------
(* Bytes in the body of an element.                                         *)
LEMMA AtOwn == ASSUME NEW s PROVE At(s, 0, s)
<1>1. \A i \in 1 .. Len(s) : 0 + i = i
  OBVIOUS
<1> QED
  BY <1>1 DEF At

(* Part(s, o, part): the bytes of s after o are those of part.              *)
Part(s, o, part) == part \in Bytes /\ o \in Nat /\ o + Len(part) <= Len(s) /\ At(s, o, part)

LEMMA LengthIs == ASSUME NEW s \in Bytes PROVE s \in Seq(Byte) /\ Len(s) \in Nat
BY DEF Bytes

LEMMA WholePart == ASSUME NEW s \in Bytes PROVE Part(s, 0, s)
<1>1. Len(s) \in Nat /\ 0 + Len(s) <= Len(s)
  BY DEF Bytes
<1> QED
  BY <1>1, AtOwn DEF Part

LEMMA Joined ==
  ASSUME NEW s \in Bytes, NEW t \in Bytes
  PROVE  /\ s \o t \in Bytes /\ Len(s \o t) = Len(s) + Len(t)
         /\ \A o, part : Part(s, o, part) => Part(s \o t, o, part)
         /\ Part(s \o t, Len(s), t)
<1>1. /\ s \o t \in Seq(Byte) /\ Len(s \o t) = Len(s) + Len(t) /\ Len(s) \in Nat /\ Len(t) \in Nat
      /\ \A i \in 1 .. Len(s) + Len(t) : (s \o t)[i] = IF i <= Len(s) THEN s[i] ELSE t[i - Len(s)]
  BY ConcatProperties DEF Bytes
<1>2. ASSUME NEW o, NEW part, Part(s, o, part) PROVE Part(s \o t, o, part)
  <2>1. /\ part \in Bytes /\ o \in Nat /\ Len(part) \in Nat /\ o + Len(part) <= Len(s)
        /\ At(s, o, part)
    BY <1>2, LengthIs DEF Part
  <2>2. ASSUME NEW i \in 1 .. Len(part) PROVE (s \o t)[o + i] = part[i]
    <3>1. o + i \in 1 .. Len(s) + Len(t) /\ o + i <= Len(s)
      BY <1>1, <2>1
    <3> QED
      BY <1>1, <2>1, <3>1 DEF At
  <2>3. o + Len(part) <= Len(s \o t)
    BY <1>1, <2>1
  <2> QED
    BY <2>1, <2>2, <2>3 DEF Part, At
<1>3. Part(s \o t, Len(s), t)
  <2>1. ASSUME NEW i \in 1 .. Len(t) PROVE (s \o t)[Len(s) + i] = t[i]
    <3>1. Len(s) + i \in 1 .. Len(s) + Len(t) /\ ~(Len(s) + i <= Len(s)) /\ Len(s) + i - Len(s) = i
      BY <1>1
    <3> QED
      BY <1>1, <3>1
  <2> QED
    BY <1>1, <2>1 DEF Part, At
<1> QED
  BY <1>1, <1>2, <1>3 DEF Bytes

LEMMA FourParts ==
  ASSUME NEW a \in Bytes, NEW b \in Bytes, NEW c \in Bytes, NEW d \in Bytes
  PROVE  LET s == a \o b \o c \o d
         IN  /\ s \in Bytes /\ Len(s) = Len(a) + Len(b) + Len(c) + Len(d)
             /\ Part(s, 0, a) /\ Part(s, Len(a), b) /\ Part(s, Len(a) + Len(b), c)
             /\ Part(s, Len(a) + Len(b) + Len(c), d)
<1> DEFINE ab == a \o b
           abc == ab \o c
           s == abc \o d
<1>1. /\ ab \in Bytes /\ Len(ab) = Len(a) + Len(b) /\ Part(ab, Len(a), b) /\ Part(ab, 0, a)
  BY Joined, WholePart
<1> HIDE DEF ab
<1>2. /\ abc \in Bytes /\ Len(abc) = Len(ab) + Len(c)
      /\ Part(abc, Len(a), b) /\ Part(abc, 0, a) /\ Part(abc, Len(ab), c)
  BY <1>1, Joined
<1> HIDE DEF abc
<1>3. /\ s \in Bytes /\ Len(s) = Len(abc) + Len(d)
      /\ Part(s, Len(a), b) /\ Part(s, 0, a) /\ Part(s, Len(ab), c) /\ Part(s, Len(abc), d)
  BY <1>2, Joined
<1> HIDE DEF s
<1>4. /\ s \in Bytes /\ Len(s) = Len(a) + Len(b) + Len(c) + Len(d)
      /\ Part(s, 0, a) /\ Part(s, Len(a), b) /\ Part(s, Len(a) + Len(b), c)
      /\ Part(s, Len(a) + Len(b) + Len(c), d)
  BY <1>1, <1>2, <1>3
<1> QED
  BY <1>4 DEF ab, abc, s

(* Numbers of a width are read as they were written.                        *)
LEMMA UnsignedIsRead ==
  ASSUME NEW size \in Nat, NEW v \in Unsigned(size), NEW bytes, NEW offset \in Nat,
         Part(bytes, offset, PutLE(v, size))
  PROVE  GetLE(bytes, offset, size) = v
<1>1. Power[size] \in Nat \ {0} /\ v \in Int /\ v \in Nat /\ v < Power[size]
  BY PowerIs DEF Unsigned
<1>2. \A i \in 1 .. size : bytes[offset + i] = PutLE(v, size)[i]
  BY <1>1, PutLEIs DEF Part, At
<1>3. GetLE(bytes, offset, size) = v % Power[size]
  BY <1>1, <1>2, LittleEndian
<1>4. \A x, n \in Nat : x < n => x % n = x
  OBVIOUS
<1> QED
  BY <1>1, <1>3, <1>4

LEMMA IntegerIsRead ==
  ASSUME NEW size \in Nat, NEW v \in Integer(size), NEW bytes, NEW offset \in Nat,
         Part(bytes, offset, PutLE(v, size))
  PROVE  Signed(GetLE(bytes, offset, size), size) = v
<1> DEFINE P == Power[size]
           half == P \div 2
<1>1. P \in Nat \ {0} /\ half \in Nat /\ half + half <= P
  BY PowerIs
<1>2. v \in Int /\ -half <= v /\ v <= half - 1
  BY <1>1 DEF Integer
<1>3. \A i \in 1 .. size : bytes[offset + i] = PutLE(v, size)[i]
  BY <1>2, PutLEIs DEF Part, At
<1>4. GetLE(bytes, offset, size) = v % P
  BY <1>2, <1>3, LittleEndian
<1>5. v % P = IF v < 0 THEN v + P ELSE v
  <2> HIDE DEF half, P
  <2>1. CASE v < 0
    <3>1. v + P \in 0 .. P - 1 /\ v = P * (-1) + (v + P) /\ -1 \in Int
      BY <1>1, <1>2, <2>1
    <3> QED
      BY <1>1, <1>2, <2>1, <3>1, ModUnique
  <2>2. CASE v >= 0
    <3>1. v \in 0 .. P - 1 /\ v = P * 0 + v /\ 0 \in Int
      BY <1>1, <1>2, <2>2
    <3> QED
      BY <1>1, <1>2, <2>2, <3>1, ModUnique
  <2> QED
    BY <1>2, <2>1, <2>2
<1>6. Signed(GetLE(bytes, offset, size), size) = IF v % P >= half THEN (v % P) - P ELSE v % P
  BY <1>4 DEF Signed
<1> HIDE DEF P, half
<1> QED
  BY <1>1, <1>2, <1>5, <1>6

LEMMA WidthsAre == 1 \in Nat /\ 4 \in Nat /\ 8 \in Nat
OBVIOUS

LEMMA NumberBytes ==
  ASSUME NEW v \in Int
  PROVE  /\ PutLE(v, 1) \in Bytes /\ Len(PutLE(v, 1)) = 1
         /\ PutLE(v, 4) \in Bytes /\ Len(PutLE(v, 4)) = 4
         /\ PutLE(v, 8) \in Bytes /\ Len(PutLE(v, 8)) = 8
BY PutLEIs, WidthsAre DEF Bytes

-----------------------------------------------------------------------------
(* Which kinds of element a getter looks into.                              *)
Kind(getter) ==
  CASE getter = "Permission"     -> {<<Hdac, "p">>}
    [] getter = "BlockSignature" -> {<<Free, "b">>}
    [] getter = "AssetGenesis"   -> {<<Hdac, "g">>}
    [] getter = "GeneralDetails" -> {<<Free, "c">>}
    [] getter = "AssetDetails"   -> {<<Free, "a">>, <<Free, "c">>}
    [] getter = "FollowOns"      -> {<<Hdac, "o">>}
    [] getter = "Approval"       -> {<<Hdac, "a">>}
    [] getter = "NewEntityType"  -> {<<Hdac, "n">>, <<Hdac, "u">>}
    [] getter = "TypeAlone"      -> {<<Hdac, "n">>}
    [] getter = "ItemKey"        -> {<<Hdac, "k">>}
    [] getter = "Entity"         -> {<<Hdac, "e">>}

LEMMA OtherKind ==
  ASSUME NEW getter \in Getter, NEW e, <<e.id, e.letter>> \notin Kind(getter)
  PROVE  Got(getter, e) = Refuse("wrong")
<1>1. CASE getter = "Permission"
  BY <1>1 DEF Got, Kind, Is, GetPermission
<1>2. CASE getter = "BlockSignature"
  BY <1>2 DEF Got, Kind, Is, GetBlockSignature
<1>3. CASE getter = "AssetGenesis"
  BY <1>3 DEF Got, Kind, Is, GetAssetGenesis
<1>4. CASE getter = "GeneralDetails"
  BY <1>4 DEF Got, Kind, Is, GetGeneralDetails
<1>5. CASE getter = "AssetDetails"
  <2>1. ~Is(e, Free, "c") /\ ~Is(e, Free, "a")
    BY <1>5 DEF Kind, Is
  <2>2. GetGeneralDetails(e).err # "none"
    BY <2>1 DEF GetGeneralDetails, Refuse
  <2>3. GetAssetDetails(e) = Refuse("wrong")
    BY <2>1, <2>2 DEF GetAssetDetails
  <2> QED
    BY <1>5, <2>3 DEF Got
<1>6. CASE getter = "FollowOns"
  BY <1>6 DEF Got, Kind, Is, GetFullRef
<1>7. CASE getter = "Approval"
  BY <1>7 DEF Got, Kind, Is, GetApproval
<1>8. CASE getter = "NewEntityType"
  BY <1>8 DEF Got, Kind, GetNewEntityType
<1>9. CASE getter = "TypeAlone"
  BY <1>9 DEF Got, Kind, Is, GetTypeAlone
<1>10. CASE getter = "ItemKey"
  BY <1>10 DEF Got, Kind, Is, GetItemKey
<1>11. CASE getter = "Entity"
  BY <1>11 DEF Got, Kind, Is, GetEntity
<1> QED
  BY <1>1, <1>2, <1>3, <1>4, <1>5, <1>6, <1>7, <1>8, <1>9, <1>10, <1>11 DEF Getter, Setter

IsElement(e) == e = Element(e.id, e.letter, e.body) /\ e.body \in Bytes

LEMMA FormIs ==
  ASSUME NEW id, NEW letter, NEW body
  PROVE  LET e == Element(id, letter, body)
         IN  /\ e.id = id /\ e.letter = letter /\ e.body = body
             /\ body \in Bytes => IsElement(e)
BY DEF Element, IsElement

(* Every kind of element, read by its own getter.                           *)
LEMMA PermissionIsRead ==
  ASSUME NEW a \in Types("Permission"), NEW e \in Elements("Permission", a)
  PROVE  IsElement(e) /\ e.id = Hdac /\ e.letter = "p" /\ GetPermission(e) = Accept(a)
<1> DEFINE A == PutLE(a[1], 4)
           B == PutLE(a[2], 4)
           C == PutLE(a[3], 4)
           D == PutLE(a[4], 4)
           body == A \o B \o C \o D
<1>1. a = <<a[1], a[2], a[3], a[4]>> /\ \A i \in 1 .. 4 : a[i] \in Unsigned(4)
  BY DEF Types
<1>2. \A i \in 1 .. 4 : a[i] \in Int
  BY <1>1, PowerIs DEF Unsigned
<1>3. /\ A \in Bytes /\ Len(A) = 4 /\ B \in Bytes /\ Len(B) = 4
      /\ C \in Bytes /\ Len(C) = 4 /\ D \in Bytes /\ Len(D) = 4
  BY <1>2, NumberBytes
<1>4. e = Element(Hdac, "p", body)
  BY DEF Elements, SetPermission
<1> HIDE DEF A, B, C, D
<1>5. /\ body \in Bytes /\ Len(body) = Len(A) + Len(B) + Len(C) + Len(D)
      /\ Part(body, 0, A) /\ Part(body, Len(A), B) /\ Part(body, Len(A) + Len(B), C)
      /\ Part(body, Len(A) + Len(B) + Len(C), D)
  BY <1>3, FourParts
<1> HIDE DEF body
<1>6. 4 + 4 = 8 /\ 8 + 4 = 12 /\ 12 + 4 = 16
  OBVIOUS
<1>7. Len(body) = 16
  BY <1>3, <1>5
<1>8. Part(body, 0, A) /\ Part(body, 4, B) /\ Part(body, 8, C) /\ Part(body, 12, D)
  BY <1>3, <1>5, <1>6
<1>9. /\ GetLE(body, 0, 4) = a[1] /\ GetLE(body, 4, 4) = a[2]
      /\ GetLE(body, 8, 4) = a[3] /\ GetLE(body, 12, 4) = a[4]
  BY <1>1, <1>8, UnsignedIsRead, WidthsAre DEF A, B, C, D
<1>10. [i \in 1 .. 4 |-> GetLE(body, 4 * (i - 1), 4)] = a
  <2>1. \A i \in 1 .. 4 : GetLE(body, 4 * (i - 1), 4) = a[i]
    <3> SUFFICES ASSUME NEW i \in 1 .. 4 PROVE GetLE(body, 4 * (i - 1), 4) = a[i]
      OBVIOUS
    <3>1. i = 1 \/ i = 2 \/ i = 3 \/ i = 4
      OBVIOUS
    <3>2. 4 * (1 - 1) = 0 /\ 4 * (2 - 1) = 4 /\ 4 * (3 - 1) = 8 /\ 4 * (4 - 1) = 12
      OBVIOUS
    <3> QED
      BY <1>9, <3>1, <3>2
  <2> DEFINE f == [i \in 1 .. 4 |-> GetLE(body, 4 * (i - 1), 4)]
  <2>2. f = [i \in 1 .. 4 |-> a[i]]
    BY <2>1
  <2> HIDE DEF f
  <2>3. [i \in 1 .. 4 |-> a[i]] = <<a[1], a[2], a[3], a[4]>>
    OBVIOUS
  <2> QED
    BY <1>1, <2>2, <2>3 DEF f
<1>11. IsElement(e) /\ e.id = Hdac /\ e.letter = "p" /\ e.body = body
  BY <1>4, <1>5, FormIs
<1> QED
  BY <1>7, <1>10, <1>11 DEF GetPermission, Is

LEMMA OneByte ==
  ASSUME NEW b \in Byte
  PROVE  <<b>> \in Bytes /\ Len(<<b>>) = 1
BY DEF Bytes

LEMMA ByteIsRead ==
  ASSUME NEW s, NEW o, NEW b, Part(s, o, <<b>>)
  PROVE  s[o + 1] = b
<1>1. 1 \in 1 .. Len(<<b>>) /\ <<b>>[1] = b
  OBVIOUS
<1> QED
  BY <1>1 DEF Part, At

LEMMA PartIsRead ==
  ASSUME NEW s \in Bytes, NEW o, NEW part, Part(s, o, part)
  PROVE  SubSeq(s, o + 1, o + Len(part)) = part
<1> DEFINE sub == SubSeq(s, o + 1, o + Len(part))
<1>1. /\ part \in Seq(Byte) /\ o \in Nat /\ Len(part) \in Nat /\ o + Len(part) <= Len(s)
      /\ At(s, o, part) /\ s \in Seq(Byte)
  BY LengthIs DEF Part
<1>2. \A i \in o + 1 .. o + Len(part) : i \in 1 .. Len(s) /\ s[i] \in Byte
  BY <1>1
<1>3. /\ sub \in Seq(Byte)
      /\ Len(sub) = IF o + 1 <= o + Len(part) THEN (o + Len(part)) - (o + 1) + 1 ELSE 0
      /\ \A i \in 1 .. (o + Len(part)) - (o + 1) + 1 : sub[i] = s[o + 1 + i - 1]
  <2>1. o + 1 \in Int /\ o + Len(part) \in Int
    BY <1>1
  <2> QED
    BY <1>2, <2>1, SubSeqProperties
<1> HIDE DEF sub
<1>4. Len(sub) = Len(part)
  BY <1>1, <1>3
<1>5. ASSUME NEW i \in 1 .. Len(part) PROVE sub[i] = part[i]
  <2>1. i \in 1 .. (o + Len(part)) - (o + 1) + 1 /\ o + 1 + i - 1 = o + i
    BY <1>1
  <2> QED
    BY <1>1, <1>3, <2>1 DEF At
<1>6. sub = part
  BY <1>1, <1>3, <1>4, <1>5, SeqEqual
<1> QED
  BY <1>6 DEF sub

LEMMA ByteIsItself == ASSUME NEW b \in Byte PROVE b % Radix = b
<1>1. \A x, n \in Nat : x < n => x % n = x
  OBVIOUS
<1> QED
  BY <1>1, RadixIs

LEMMA BlockSignatureIsRead ==
  ASSUME NEW a \in Types("BlockSignature"), NEW e \in Elements("BlockSignature", a)
  PROVE  /\ IsElement(e) /\ e.id = Free /\ e.letter = "b"
         /\ GetBlockSignature(e) = IF Len(a[1]) > Room \/ Len(a[3]) > Room THEN Refuse("wrong") ELSE Accept(a)
<1> DEFINE sig == a[1]
           type == a[2]
           key == a[3]
           m == Len(sig)
           n == Len(key)
           S == <<m>>
           H == <<type % Radix>>
           K == <<n>>
           front == S \o sig \o H \o K
           body == front \o key
<1>1. a = <<sig, type, key>> /\ sig \in Bytes /\ type \in Byte /\ key \in Bytes
  BY DEF Types
<1>2. ~(m > Radix - 1) /\ ~(n > Radix - 1) /\ e = Element(Free, "b", body)
  BY DEF Elements, SetBlockSignature
<1>3. m \in Nat /\ n \in Nat /\ m \in Byte /\ n \in Byte
  BY <1>1, <1>2, LengthIs, RadixIs
<1>4. H = <<type>>
  BY <1>1, ByteIsItself
<1> HIDE DEF sig, type, key
<1>5. S \in Bytes /\ Len(S) = 1 /\ H \in Bytes /\ Len(H) = 1 /\ K \in Bytes /\ Len(K) = 1
  <2> HIDE DEF m, n, H
  <2>1. <<type>> \in Bytes /\ Len(<<type>>) = 1
    BY <1>1, OneByte
  <2> QED
    BY <1>3, <1>4, <2>1, OneByte
<1> HIDE DEF S, H, K
<1>6. /\ front \in Bytes /\ Len(front) = Len(S) + m + Len(H) + Len(K)
      /\ Part(front, 0, S) /\ Part(front, Len(S), sig) /\ Part(front, Len(S) + m, H)
      /\ Part(front, Len(S) + m + Len(H), K)
  BY <1>1, <1>5, FourParts
<1> HIDE DEF front
<1>7. /\ body \in Bytes /\ Len(body) = Len(front) + n
      /\ Part(body, 0, S) /\ Part(body, Len(S), sig) /\ Part(body, Len(S) + m, H)
      /\ Part(body, Len(S) + m + Len(H), K) /\ Part(body, Len(front), key)
  BY <1>1, <1>6, Joined
<1> HIDE DEF body
<1>8. IsElement(e) /\ e.id = Free /\ e.letter = "b" /\ e.body = body
  BY <1>2, <1>7, FormIs
<1> HIDE DEF m, n
<1>9. Len(S) + m = m + 1 /\ Len(S) + m + Len(H) = m + 2 /\ Len(front) = m + 3 /\ Len(front) + n = 3 + m + n
  BY <1>3, <1>5, <1>6
<1>10. /\ Len(body) = 3 + m + n /\ Part(body, 0, S) /\ Part(body, 1, sig)
       /\ Part(body, m + 1, H) /\ Part(body, m + 2, K) /\ Part(body, m + 3, key)
  BY <1>5, <1>7, <1>9
<1>11. body[1] = m /\ body[m + 2] = type /\ body[m + 3] = n
  <2>1. body[0 + 1] = m
    BY <1>10, ByteIsRead DEF S
  <2>2. body[m + 1 + 1] = type
    BY <1>4, <1>10, ByteIsRead
  <2>3. body[m + 2 + 1] = n
    BY <1>10, ByteIsRead DEF K
  <2>4. 0 + 1 = 1 /\ m + 1 + 1 = m + 2 /\ m + 2 + 1 = m + 3
    BY <1>3
  <2> QED
    BY <2>1, <2>2, <2>3, <2>4
<1>12. SubSeq(body, 2, m + 1) = sig
  <2>1. SubSeq(body, 1 + 1, 1 + Len(sig)) = sig
    BY <1>7, <1>10, PartIsRead
  <2>2. 1 + 1 = 2 /\ 1 + m = m + 1
    BY <1>3
  <2> QED
    BY <2>1, <2>2 DEF m
<1>13. Drop(body, m + 3) = key
  <2>1. SubSeq(body, (m + 3) + 1, (m + 3) + Len(key)) = key
    BY <1>7, <1>10, PartIsRead
  <2>2. (m + 3) + n = Len(body)
    BY <1>3, <1>10
  <2> QED
    BY <2>1, <2>2 DEF Drop, n
<1>14. ~(Len(body) < 3) /\ ~(Len(body) < 3 + m) /\ ~(Len(body) # 3 + m + n)
  BY <1>3, <1>10
<1>15. GetBlockSignature(e) = IF m > Room \/ n > Room THEN Refuse("wrong")
                              ELSE Accept(<<sig, type, key>>)
  BY <1>8, <1>11, <1>12, <1>13, <1>14 DEF GetBlockSignature, Is
<1> QED
  BY <1>1, <1>8, <1>15 DEF m, n, sig, key

LEMMA AloneIs == ASSUME NEW type, NEW a \in Alone(type) PROVE a = <<a[1]>> /\ a[1] \in type
BY DEF Alone

LEMMA AssetGenesisIsRead ==
  ASSUME NEW a \in Types("AssetGenesis"), NEW e \in Elements("AssetGenesis", a)
  PROVE  IsElement(e) /\ e.id = Hdac /\ e.letter = "g" /\ GetAssetGenesis(e) = Accept(a)
<1> DEFINE body == PutLE(a[1], 8)
<1>1. a \in Alone(Integer(8))
  BY DEF Types
<1>2. a = <<a[1]>> /\ a[1] \in Integer(8)
  BY <1>1, AloneIs
<1>3. a[1] \in Int
  BY <1>2, PowerIs DEF Integer
<1>4. ~(a[1] < 0) /\ e = Element(Hdac, "g", body)
  BY DEF Elements, SetAssetGenesis
<1>5. body \in Bytes /\ Len(body) = 8 /\ Part(body, 0, body)
  BY <1>3, NumberBytes, WholePart
<1>6. Signed(GetLE(body, 0, 8), 8) = a[1]
  BY <1>2, <1>5, IntegerIsRead, WidthsAre
<1>7. IsElement(e) /\ e.id = Hdac /\ e.letter = "g" /\ e.body = body
  BY <1>4, <1>5, FormIs
<1> HIDE DEF body
<1> QED
  BY <1>2, <1>4, <1>5, <1>6, <1>7 DEF GetAssetGenesis, Is

LEMMA GeneralDetailsAreRead ==
  ASSUME NEW a \in Types("GeneralDetails"), NEW e \in Elements("GeneralDetails", a)
  PROVE  /\ IsElement(e) /\ e.id = Free /\ e.letter = "c" /\ GetGeneralDetails(e) = Accept(a)
         /\ GetAssetDetails(e) = Accept(<<<<>>, 1, a[1]>>)
<1>1. a \in Alone(Bytes)
  BY DEF Types
<1>2. a = <<a[1]>> /\ a[1] \in Bytes
  BY <1>1, AloneIs
<1>3. ~(Len(a[1]) > MaxScript) /\ e = Element(Free, "c", a[1])
  BY DEF Elements, SetGeneralDetails
<1>4. IsElement(e) /\ e.id = Free /\ e.letter = "c" /\ e.body = a[1]
  BY <1>2, <1>3, FormIs
<1>5. GetGeneralDetails(e) = Accept(<<a[1]>>)
  BY <1>3, <1>4 DEF GetGeneralDetails, Is
<1>6. Accept(<<a[1]>>).err = "none" /\ Accept(<<a[1]>>).args[1] = a[1]
  BY DEF Accept
<1>7. GetAssetDetails(e) = Accept(<<<<>>, 1, a[1]>>)
  BY <1>5, <1>6 DEF GetAssetDetails
<1> QED
  BY <1>2, <1>4, <1>5, <1>7

LEMMA ItemKeyIsRead ==
  ASSUME NEW a \in Types("ItemKey"), NEW e \in Elements("ItemKey", a)
  PROVE  IsElement(e) /\ e.id = Hdac /\ e.letter = "k" /\ GetItemKey(e) = Accept(a)
<1>1. a \in Alone(Bytes)
  BY DEF Types
<1>2. a = <<a[1]>> /\ a[1] \in Bytes
  BY <1>1, AloneIs
<1>3. ~(Len(a[1]) > MaxKey) /\ e = Element(Hdac, "k", a[1])
  BY DEF Elements, SetItemKey
<1>4. IsElement(e) /\ e.id = Hdac /\ e.letter = "k" /\ e.body = a[1]
  BY <1>2, <1>3, FormIs
<1> QED
  BY <1>2, <1>3, <1>4 DEF GetItemKey, Is

LEMMA EntityIsRead ==
  ASSUME NEW a \in Types("Entity"), NEW e \in Elements("Entity", a)
  PROVE  IsElement(e) /\ e.id = Hdac /\ e.letter = "e" /\ GetEntity(e) = Accept(a)
<1>1. a \in Alone([1 .. ShortTxId -> Byte])
  BY DEF Types
<1>2. a = <<a[1]>> /\ a[1] \in [1 .. ShortTxId -> Byte]
  BY <1>1, AloneIs
<1>3. Len(a[1]) = ShortTxId /\ a[1] \in Bytes
  <2>1. ShortTxId \in Nat
    BY TypedElementsAssumption
  <2> QED
    BY <1>2, <2>1, LenProperties DEF Bytes
<1>4. e = Element(Hdac, "e", a[1])
  BY DEF Elements, SetEntity
<1>5. IsElement(e) /\ e.id = Hdac /\ e.letter = "e" /\ e.body = a[1]
  BY <1>3, <1>4, FormIs
<1> QED
  BY <1>2, <1>3, <1>5 DEF GetEntity, Is

LEMMA AssetDetailsAreRead ==
  ASSUME NEW a \in Types("AssetDetails"), NEW e \in Elements("AssetDetails", a)
  PROVE  /\ IsElement(e) /\ e.id = Free /\ e.letter = "a"
         /\ GetAssetDetails(e) = IF Len(a[1]) > MaxName THEN Refuse("wrong") ELSE Accept(a)
<1> DEFINE name == a[1]
           multiple == a[2]
           bytes == a[3]
           M == PutLE(multiple, 4)
           Z == <<0>>
           m == Len(name)
           n == Len(bytes)
           body == M \o name \o Z \o bytes
<1>1. /\ a = <<name, multiple, bytes>>
      /\ name \in Seq(Byte \ {0}) /\ multiple \in Integer(4) /\ bytes \in Bytes
  BY DEF Types
<1> HIDE DEF body
<1>2. ~(n > MaxScript) /\ e = Element(Free, "a", body)
  BY DEF Elements, SetAssetDetails, body
<1>3. e.id = Free /\ e.letter = "a" /\ e.body = body
  BY <1>2, FormIs
<1> HIDE DEF name, multiple, bytes
<1>4. /\ name \in Bytes /\ m \in Nat /\ n \in Nat /\ n <= MaxScript /\ MaxName \in Nat /\ MaxScript \in Nat
      /\ \A i \in 1 .. m : name[i] # 0
  <2>1. name \in Bytes
    <3>1. Byte \ {0} \subseteq Byte
      OBVIOUS
    <3> QED
      BY <1>1, <3>1, SeqMonotonic DEF Bytes
  <2>2. \A i \in 1 .. m : name[i] \in Byte \ {0}
    BY <1>1, ElementOfSeq
  <2>3. m \in Nat /\ n \in Nat
    BY <1>1, <2>1, LengthIs
  <2> QED
    BY <1>2, <2>1, <2>2, <2>3, TypedElementsAssumption
<1>5. M \in Bytes /\ Len(M) = 4 /\ Z \in Bytes /\ Len(Z) = 1
  <2>1. multiple \in Int
    BY <1>1, PowerIs DEF Integer
  <2>2. 0 \in Byte
    BY RadixIs
  <2> HIDE DEF M
  <2> QED
    BY <2>1, <2>2, NumberBytes, OneByte DEF M
<1> HIDE DEF M, Z
<1>6. /\ body \in Bytes /\ Len(body) = Len(M) + m + Len(Z) + n
      /\ Part(body, 0, M) /\ Part(body, Len(M), name) /\ Part(body, Len(M) + m, Z)
      /\ Part(body, Len(M) + m + Len(Z), bytes)
  BY <1>1, <1>4, <1>5, FourParts DEF body
<1>7. /\ Len(body) = 5 + m + n /\ Part(body, 0, M) /\ Part(body, 4, name)
      /\ Part(body, m + 4, Z) /\ Part(body, m + 5, bytes)
  <2> HIDE DEF m, n
  <2>1. 4 + m = m + 4 /\ 4 + m + 1 = m + 5 /\ (m + 5) + n = 5 + m + n
    BY <1>4
  <2> QED
    BY <1>5, <1>6, <2>1
<1>8. StrLen(body, Len(body), 4) = m
  <2>1. \A i \in 1 .. m : body[4 + i] # 0
    BY <1>4, <1>7 DEF Part, At
  <2>2. body[m + 4 + 1] = 0
    BY <1>7, ByteIsRead DEF Z
  <2> HIDE DEF m, n
  <2>3. 4 + m + 1 = m + 4 + 1 /\ m \in 0 .. Len(body) - 4 /\ Len(body) \in Nat /\ 4 \in Nat
    BY <1>4, <1>7
  <2>4. IsStrLen(body, Len(body), 4, m)
    BY <2>1, <2>2, <2>3 DEF IsStrLen
  <2> QED
    BY <2>3, <2>4, StrLenIs
<1>9. Signed(GetLE(body, 0, 4), 4) = multiple
  BY <1>1, <1>7, IntegerIsRead, WidthsAre DEF M
<1>10. SubSeq(body, 5, m + 4) = name
  <2>1. SubSeq(body, 4 + 1, 4 + Len(name)) = name
    BY <1>6, <1>7, PartIsRead
  <2> HIDE DEF m
  <2>2. 4 + 1 = 5 /\ 4 + m = m + 4
    BY <1>4
  <2> QED
    BY <2>1, <2>2 DEF m
<1>11. Drop(body, m + 5) = bytes
  <2>1. SubSeq(body, (m + 5) + 1, (m + 5) + Len(bytes)) = bytes
    BY <1>6, <1>7, PartIsRead
  <2> HIDE DEF m, n
  <2>2. (m + 5) + n = Len(body)
    BY <1>4, <1>7
  <2> QED
    BY <2>1, <2>2 DEF Drop, n
<1>12. GetGeneralDetails(e).err # "none"
  BY <1>3 DEF GetGeneralDetails, Refuse, Is
<1> HIDE DEF m, n
<1>13. /\ 4 + m = m + 4 /\ 5 + m = m + 5 /\ ~(m + 4 = Len(body))
       /\ ~(m > MaxName) => Len(body) \in 5 .. MaxScript + 4 + MaxName + 1
  BY <1>4, <1>7
<1>14. Is(e, Free, "a")
  BY <1>3 DEF Is
<1>15. GetAssetDetails(e) = IF m > MaxName THEN Refuse("wrong") ELSE Accept(<<name, multiple, bytes>>)
  BY <1>3, <1>8, <1>9, <1>10, <1>11, <1>12, <1>13, <1>14 DEF GetAssetDetails
<1>16. IsElement(e)
  BY <1>2, <1>6, FormIs
<1> QED
  BY <1>1, <1>3, <1>15, <1>16 DEF m, name

LEMMA ApprovalIsRead ==
  ASSUME NEW a \in Types("Approval"), NEW e \in Elements("Approval", a)
  PROVE  IsElement(e) /\ e.id = Hdac /\ e.letter = "a" /\ GetApproval(e) = Accept(a)
<1> DEFINE A == PutLE(a[1], 1)
           B == PutLE(a[2], 4)
           body == A \o B
<1>1. a = <<a[1], a[2]>> /\ a[1] \in Byte /\ a[2] \in Unsigned(4)
  BY DEF Types
<1>2. a[1] \in Int /\ a[2] \in Int
  BY <1>1, RadixIs, PowerIs DEF Unsigned
<1>3. A \in Bytes /\ Len(A) = 1 /\ B \in Bytes /\ Len(B) = 4
  BY <1>2, NumberBytes
<1>4. A[1] = a[1]
  <2>1. A[1] = (a[1] \div Power[1 - 1]) % Radix
    BY DEF PutLE
  <2>2. 1 - 1 = 0 /\ \A x \in Int : x \div 1 = x
    OBVIOUS
  <2> HIDE DEF A
  <2> QED
    BY <1>1, <1>2, <2>1, <2>2, PowerIs, ByteIsItself
<1> HIDE DEF body
<1>5. e = Element(Hdac, "a", body)
  BY DEF Elements, SetApproval, body
<1>6. e.id = Hdac /\ e.letter = "a" /\ e.body = body
  BY <1>5, FormIs
<1> HIDE DEF A, B
<1>7. body \in Bytes /\ Len(body) = 5 /\ Part(body, 0, A) /\ Part(body, 1, B)
  <2>1. body \in Bytes /\ Len(body) = Len(A) + Len(B) /\ Part(body, 0, A) /\ Part(body, Len(A), B)
    BY <1>3, Joined, WholePart DEF body
  <2> QED
    BY <1>3, <2>1
<1>8. body[1] = a[1]
  <2>1. 1 \in 1 .. Len(A) /\ 0 + 1 = 1
    BY <1>3
  <2> QED
    BY <1>4, <1>7, <2>1 DEF Part, At
<1>9. GetLE(body, 1, 4) = a[2]
  BY <1>1, <1>7, UnsignedIsRead, WidthsAre DEF B
<1>10. IsElement(e)
  BY <1>5, <1>7, FormIs
<1> QED
  BY <1>1, <1>6, <1>7, <1>8, <1>9, <1>10 DEF GetApproval, Is

(* The details of an entity after its type.                                 *)
LEMMA TypeBody ==
  ASSUME NEW type \in Byte, NEW bytes \in Bytes
  PROVE  LET body == <<type % Radix>> \o bytes
         IN  body \in Bytes /\ Len(body) = 1 + Len(bytes) /\ body[1] = type /\ Tail(body) = bytes
<1> DEFINE T == <<type % Radix>>
           body == T \o bytes
<1>1. T = <<type>>
  BY ByteIsItself
<1> HIDE DEF T
<1>2. T \in Seq(Byte) /\ Len(T) = 1 /\ T[1] = type
  <2>1. <<type>> \in Seq(Byte) /\ Len(<<type>>) = 1 /\ <<type>>[1] = type
    OBVIOUS
  <2> QED
    BY <1>1, <2>1
<1>3. bytes \in Seq(Byte) /\ Len(bytes) \in Nat
  BY LengthIs
<1>4. /\ body \in Seq(Byte) /\ Len(body) = Len(T) + Len(bytes)
      /\ \A i \in 1 .. Len(T) + Len(bytes) : body[i] = IF i <= Len(T) THEN T[i] ELSE bytes[i - Len(T)]
  BY <1>2, <1>3, ConcatProperties
<1> HIDE DEF body
<1>5. body[1] = type /\ Len(body) = 1 + Len(bytes) /\ body # <<>>
  <2>1. 1 \in 1 .. 1 + Len(bytes) /\ 1 + Len(bytes) # 0
    BY <1>3
  <2> QED
    BY <1>2, <1>4, <2>1
<1>6. /\ Tail(body) \in Seq(Byte) /\ Len(Tail(body)) = Len(body) - 1
      /\ \A i \in 1 .. Len(Tail(body)) : Tail(body)[i] = body[i + 1]
  BY <1>4, <1>5, HeadTailProperties
<1>7. Len(Tail(body)) = Len(bytes)
  BY <1>3, <1>5, <1>6
<1>8. ASSUME NEW i \in 1 .. Len(bytes) PROVE Tail(body)[i] = bytes[i]
  <2>1. i + 1 \in 1 .. 1 + Len(bytes) /\ ~(i + 1 <= 1) /\ (i + 1) - 1 = i
    BY <1>3
  <2> QED
    BY <1>2, <1>4, <1>6, <1>7, <2>1
<1>9. Tail(body) = bytes
  BY <1>3, <1>6, <1>7, <1>8, SeqEqual
<1> QED
  BY <1>4, <1>5, <1>9 DEF body, T, Bytes

LEMMA NewEntityIsRead ==
  ASSUME NEW type \in Byte, NEW update \in {0, 1}, NEW bytes \in Bytes,
         NEW e \in SetNewEntityType(type, update, bytes)
  PROVE  /\ IsElement(e) /\ e.id = Hdac /\ e.letter = IF update = 0 THEN "n" ELSE "u"
         /\ GetNewEntityType(e) = Accept(<<type, update, bytes>>)
         /\ GetTypeAlone(e) = IF update = 0 THEN Accept(<<type>>) ELSE Refuse("wrong")
<1> DEFINE body == <<type % Radix>> \o bytes
           letter == IF update = 0 THEN "n" ELSE "u"
<1>1. body \in Bytes /\ Len(body) = 1 + Len(bytes) /\ body[1] = type /\ Tail(body) = bytes
  BY TypeBody
<1> HIDE DEF body, letter
<1>2. ~(Len(bytes) > MaxScript) /\ Verify(bytes, Len(bytes)) /\ e = Element(Hdac, letter, body)
  BY DEF SetNewEntityType, body, letter
<1>3. IsElement(e) /\ e.id = Hdac /\ e.letter = letter /\ e.body = body
  BY <1>1, <1>2, FormIs
<1>4. Len(body) \in 1 .. 1 + MaxScript /\ ~(Len(body) < 1)
  BY <1>1, <1>2, LengthIs, TypedElementsAssumption
<1>5. letter \in {"n", "u"} /\ (IF letter = "u" THEN 1 ELSE 0) = update /\ (letter = "n" <=> update = 0)
  BY DEF letter
<1>6. GetNewEntityType(e) = Accept(<<type, update, bytes>>)
  BY <1>1, <1>2, <1>3, <1>4, <1>5 DEF GetNewEntityType
<1>7. GetTypeAlone(e) = IF update = 0 THEN Accept(<<type>>) ELSE Refuse("wrong")
  BY <1>1, <1>3, <1>4, <1>5 DEF GetTypeAlone, Is
<1> QED
  BY <1>3, <1>6, <1>7 DEF letter

LEMMA TypeAloneIsRead ==
  ASSUME NEW a \in Types("TypeAlone"), NEW e \in Elements("TypeAlone", a)
  PROVE  /\ IsElement(e) /\ e.id = Hdac /\ e.letter = "n" /\ GetTypeAlone(e) = Accept(a)
         /\ GetNewEntityType(e) = Accept(<<a[1], 0, <<>>>>)
<1> DEFINE body == <<a[1] % Radix>>
<1>1. a \in Alone(Byte)
  BY DEF Types
<1>2. a = <<a[1]>> /\ a[1] \in Byte
  BY <1>1, AloneIs
<1>3. body = <<a[1] % Radix>> \o <<>> /\ <<>> \in Bytes /\ Len(<<>>) = 0
  BY DEF Bytes
<1>4. e = Element(Hdac, "n", body)
  BY DEF Elements, SetTypeAlone
<1> HIDE DEF body
<1>5. body \in Bytes /\ Len(body) = 1 + 0 /\ body[1] = a[1] /\ Tail(body) = <<>>
  BY <1>2, <1>3, TypeBody
<1>6. IsElement(e) /\ e.id = Hdac /\ e.letter = "n" /\ e.body = body
  BY <1>4, <1>5, FormIs
<1>7. Verify(<<>>, 0)
  <2>1. <<>> \in Seq(Byte) /\ 0 \in 0 .. Len(<<>>) /\ 0 \in Nat /\ 0 >= 0
    OBVIOUS
  <2>2. PICK verify : /\ Verify(<<>>, 0) = verify[0]
                      /\ \A offset \in Nat :
                           verify[offset] = (\/ offset >= 0
                                             \/ /\ ~GetParam(<<>>, 0, offset).err
                                                /\ verify[GetParam(<<>>, 0, offset).next])
    BY <2>1, VerifyIs
  <2> QED
    BY <2>1, <2>2, Zenon
<1>8. Len(body) \in 1 .. 1 + MaxScript /\ ~(Len(body) < 1) /\ "n" # "u"
  BY <1>5, TypedElementsAssumption
<1>9. GetNewEntityType(e) = Accept(<<a[1], 0, <<>>>>)
  BY <1>3, <1>5, <1>6, <1>7, <1>8 DEF GetNewEntityType
<1>10. GetTypeAlone(e) = Accept(<<a[1]>>)
  BY <1>5, <1>6, <1>8 DEF GetTypeAlone, Is
<1> QED
  BY <1>2, <1>6, <1>9, <1>10

(* Rows of a reference and a quantity: the element as a function that       *)
(* exists, and where each reference is.                                     *)
Rows(refs, quantity, rows) ==
  /\ rows[0] = <<>>
  /\ \A i \in Nat : i < Len(refs) => rows[i + 1] = rows[i] \o refs[i + 1] \o PutLE(quantity, 8)

LEMMA RowsAre ==
  ASSUME NEW refs \in Seq([1 .. AssetRef -> Byte]), NEW quantity \in Int
  PROVE  \E rows : /\ Rows(refs, quantity, rows)
                   /\ SetFollowOns(refs, quantity) = {Element(Hdac, "o", rows[Len(refs)])}
<1> DEFINE n == Len(refs)
           Q == PutLE(quantity, 8)
           h(i, s) == IF i < n THEN s \o refs[i + 1] \o Q ELSE <<>>
           H == [p \in Nat \X Seq(Byte) |-> h(p[1], p[2])]
<1>1. n \in Nat /\ \A i \in 1 .. n : refs[i] \in Seq(Byte)
  <2>1. AssetRef \in Nat
    BY TypedElementsAssumption
  <2>2. \A i \in 1 .. n : refs[i] \in [1 .. AssetRef -> Byte]
    BY ElementOfSeq
  <2> QED
    BY <2>1, <2>2
<1>2. Q \in Seq(Byte)
  BY NumberBytes DEF Bytes
<1> HIDE DEF Q, n
<1>3. \A i \in Nat, s \in Seq(Byte) : h(i, s) \in Seq(Byte)
  <2> SUFFICES ASSUME NEW i \in Nat, NEW s \in Seq(Byte), i < n PROVE s \o refs[i + 1] \o Q \in Seq(Byte)
    OBVIOUS
  <2>1. i + 1 \in 1 .. n
    BY <1>1
  <2>2. refs[i + 1] \in Seq(Byte)
    BY <1>1, <2>1
  <2>3. s \o refs[i + 1] \in Seq(Byte)
    BY <2>2, ConcatProperties
  <2> QED
    BY <1>2, <2>3, ConcatProperties
<1>4. /\ \A i \in Nat, s \in Seq(Byte) : H[<<i, s>>] = h(i, s)
      /\ H \in [Nat \X Seq(Byte) -> Seq(Byte)]
  <2>1. \A i \in Nat, s \in Seq(Byte) : H[<<i, s>>] = h(i, s)
    OBVIOUS
  <2>2. \A p \in Nat \X Seq(Byte) : p[1] \in Nat /\ p[2] \in Seq(Byte) /\ H[p] = h(p[1], p[2])
    OBVIOUS
  <2>3. H = [p \in Nat \X Seq(Byte) |-> H[p]]
    OBVIOUS
  <2> HIDE DEF H, h
  <2>4. \A p \in Nat \X Seq(Byte) : H[p] \in Seq(Byte)
    BY <1>3, <2>2
  <2> QED
    BY <2>1, <2>3, <2>4
<1> HIDE DEF H
<1>5. PICK f : UpTo(Seq(Byte), <<>>, H, n, f)
  <2>1. <<>> \in Seq(Byte)
    OBVIOUS
  <2> QED
    BY <1>1, <1>4, <2>1, UpToExists
<1>6. /\ f \in [0 .. n -> Seq(Byte)] /\ f[0] = <<>>
      /\ \A i \in Nat : i < n => f[i + 1] = f[i] \o refs[i + 1] \o Q
  <2>1. f \in [0 .. n -> Seq(Byte)] /\ f[0] = <<>> /\ \A i \in Nat : i < n => f[i + 1] = H[<<i, f[i]>>]
    BY <1>5 DEF UpTo
  <2>2. \A i \in Nat : i < n => f[i] \in Seq(Byte)
    BY <1>1, <2>1
  <2> QED
    BY <1>4, <2>1, <2>2
<1>7. f = [i \in 0 .. n |-> IF i = 0 THEN <<>> ELSE f[i - 1] \o refs[i] \o Q]
  <2>1. ASSUME NEW i \in 0 .. n, i # 0 PROVE f[i] = f[i - 1] \o refs[i] \o Q
    <3>1. i - 1 \in Nat /\ i - 1 < n /\ (i - 1) + 1 = i
      BY <1>1, <2>1
    <3> QED
      BY <1>6, <3>1
  <2>2. f = [i \in 0 .. n |-> f[i]]
    BY <1>6
  <2>3. \A i \in 0 .. n : f[i] = IF i = 0 THEN <<>> ELSE f[i - 1] \o refs[i] \o Q
    BY <1>6, <2>1
  <2> QED
    BY <2>2, <2>3
<1> DEFINE rows[i \in 0 .. Len(refs)] ==
             IF i = 0 THEN <<>> ELSE rows[i - 1] \o refs[i] \o PutLE(quantity, 8)
<1>8. rows = [i \in 0 .. n |-> IF i = 0 THEN <<>> ELSE rows[i - 1] \o refs[i] \o Q]
  BY <1>7 DEF n, Q
<1>9. SetFollowOns(refs, quantity) = {Element(Hdac, "o", rows[Len(refs)])}
  BY DEF SetFollowOns
<1> HIDE DEF rows
<1>10. rows[0] = <<>>
  BY <1>1, <1>8
<1>11. ASSUME NEW i \in Nat, i < n PROVE rows[i + 1] = rows[i] \o refs[i + 1] \o Q
  <2>1. i + 1 \in 0 .. n /\ i + 1 # 0 /\ (i + 1) - 1 = i
    BY <1>1, <1>11
  <2> QED
    BY <1>8, <2>1
<1> QED
  BY <1>9, <1>10, <1>11 DEF Rows, n, Q

LEMMA RowsHold ==
  ASSUME NEW refs \in Seq([1 .. AssetRef -> Byte]), NEW quantity \in Int, NEW rows,
         Rows(refs, quantity, rows)
  PROVE  /\ rows[Len(refs)] \in Bytes /\ Len(rows[Len(refs)]) = Len(refs) * RowSize
         /\ \A j \in 1 .. Len(refs) : Part(rows[Len(refs)], (j - 1) * RowSize, refs[j])
<1> DEFINE n == Len(refs)
           Q == PutLE(quantity, 8)
           R == RowSize
           Filled(i) == /\ rows[i] \in Bytes /\ Len(rows[i]) = i * R
                        /\ \A j \in 1 .. i : Part(rows[i], (j - 1) * R, refs[j])
           T == {i \in Nat : i <= n => Filled(i)}
<1>1. AssetRef \in Nat /\ R = AssetRef + 8 /\ R \in Nat
  BY TypedElementsAssumption DEF RowSize
<1>2. /\ n \in Nat
      /\ \A i \in 1 .. n : refs[i] \in Bytes /\ Len(refs[i]) = AssetRef
  <2>1. \A i \in 1 .. n : refs[i] \in [1 .. AssetRef -> Byte]
    BY ElementOfSeq
  <2> QED
    BY <1>1, <2>1, LenProperties DEF Bytes
<1>3. Q \in Bytes /\ Len(Q) = 8
  BY NumberBytes
<1> HIDE DEF Q, R
<1>4. Filled(0)
  <2>1. rows[0] = <<>> /\ <<>> \in Bytes /\ Len(<<>>) = 0 /\ 0 * R = 0
    BY <1>1 DEF Rows, Bytes
  <2> QED
    BY <2>1
<1>5. ASSUME NEW i \in Nat, i < n, Filled(i) PROVE Filled(i + 1)
  <2> DEFINE s == rows[i]
             t == s \o refs[i + 1]
             u == t \o Q
  <2>1. rows[i + 1] = u
    BY <1>5 DEF Rows, Q
  <2>2. i + 1 \in 1 .. n /\ refs[i + 1] \in Bytes /\ Len(refs[i + 1]) = AssetRef
    BY <1>2, <1>5
  <2>3. s \in Bytes /\ Len(s) = i * R /\ \A j \in 1 .. i : Part(s, (j - 1) * R, refs[j])
    BY <1>5
  <2> HIDE DEF s
  <2>4. /\ t \in Bytes /\ Len(t) = Len(s) + AssetRef /\ Part(t, Len(s), refs[i + 1])
        /\ \A j \in 1 .. i : Part(t, (j - 1) * R, refs[j])
    BY <2>2, <2>3, Joined
  <2> HIDE DEF t
  <2>5. /\ u \in Bytes /\ Len(u) = Len(t) + 8 /\ Part(u, Len(s), refs[i + 1])
        /\ \A j \in 1 .. i : Part(u, (j - 1) * R, refs[j])
    BY <1>3, <2>4, Joined
  <2> HIDE DEF u
  <2>6. Len(u) = (i + 1) * R
    <3>1. (i + 1) * R = i * R + R /\ i * R \in Nat
      BY <1>1
    <3> HIDE DEF R
    <3> QED
      BY <1>1, <2>3, <2>4, <2>5, <3>1
  <2>7. ASSUME NEW j \in 1 .. i + 1 PROVE Part(u, (j - 1) * R, refs[j])
    <3>1. CASE j = i + 1
      <4>1. j - 1 = i
        BY <3>1
      <4> QED
        BY <2>3, <2>5, <3>1, <4>1
    <3>2. CASE j # i + 1
      <4>1. j \in 1 .. i
        BY <3>2
      <4> QED
        BY <2>5, <4>1
    <3> QED
      BY <3>1, <3>2
  <2> QED
    BY <2>1, <2>5, <2>6, <2>7
<1>6. 0 \in T
  BY <1>4
<1>7. ASSUME NEW i \in Nat, i \in T PROVE i + 1 \in T
  <2> SUFFICES ASSUME i + 1 <= n PROVE Filled(i + 1)
    OBVIOUS
  <2>1. i < n /\ i <= n
    BY <1>2
  <2>2. Filled(i)
    BY <1>7, <2>1
  <2> HIDE DEF Filled
  <2> QED
    BY <1>5, <2>1, <2>2
<1>8. n \in T
  <2> HIDE DEF T
  <2>1. Nat \subseteq T
    BY <1>6, <1>7, AllNaturals
  <2> QED
    BY <1>2, <2>1
<1>9. Filled(n)
  <2> HIDE DEF Filled
  <2>1. n <= n
    BY <1>2
  <2> QED
    BY <1>8, <2>1
<1> QED
  BY <1>9 DEF R

LEMMA FollowOnsAreRead ==
  ASSUME NEW a \in Types("FollowOns"), NEW e \in Elements("FollowOns", a)
  PROVE  /\ IsElement(e) /\ e.id = Hdac /\ e.letter = "o"
         /\ GetFullRef(e) = ReadAs("FollowOns", a, "FollowOns")
<1> DEFINE refs == a[1]
           quantity == a[2]
           n == Len(refs)
           R == RowSize
<1>1. refs \in Seq([1 .. AssetRef -> Byte]) /\ quantity \in Integer(8) /\ n \in Nat
  BY DEF Types
<1>2. quantity \in Int
  BY <1>1, PowerIs DEF Integer
<1>3. AssetRef \in Nat /\ R = AssetRef + 8 /\ R \in Nat \ {0}
  BY TypedElementsAssumption DEF RowSize
<1>4. PICK rows : /\ Rows(refs, quantity, rows)
                  /\ SetFollowOns(refs, quantity) = {Element(Hdac, "o", rows[Len(refs)])}
  <2> HIDE DEF refs, quantity
  <2> QED
    BY <1>1, <1>2, RowsAre
<1> DEFINE body == rows[n]
<1>5. /\ body \in Bytes /\ Len(body) = n * R
      /\ \A j \in 1 .. n : Part(body, (j - 1) * R, refs[j])
  <2> HIDE DEF refs, quantity
  <2> QED
    BY <1>1, <1>2, <1>4, RowsHold
<1>6. e = Element(Hdac, "o", body)
  BY <1>4 DEF Elements
<1> HIDE DEF body
<1>7. IsElement(e) /\ e.id = Hdac /\ e.letter = "o" /\ e.body = body
  BY <1>5, <1>6, FormIs
<1> DEFINE Ref(i) == SubSeq(body, (i - 1) * R + 1, (i - 1) * R + AssetRef)
           items == Len(body) \div R
<1> HIDE DEF refs, n, R
<1>8. items = n /\ Len(body) = items * R
  <2>1. (n * R) \div R = n
    BY <1>1, <1>3
  <2> QED
    BY <1>5, <2>1
<1>9. \A i \in 1 .. n : Ref(i) = refs[i]
  <2> SUFFICES ASSUME NEW i \in 1 .. n PROVE Ref(i) = refs[i]
    OBVIOUS
  <2>1. refs[i] \in [1 .. AssetRef -> Byte]
    BY <1>1, ElementOfSeq DEF n
  <2>2. Len(refs[i]) = AssetRef
    BY <1>3, <2>1, LenProperties
  <2>3. SubSeq(body, (i - 1) * R + 1, (i - 1) * R + Len(refs[i])) = refs[i]
    BY <1>5, PartIsRead
  <2> QED
    BY <2>2, <2>3
<1> HIDE DEF Ref, items
<1>10. GetFullRef(e) = IF \E i \in 2 .. items : Ref(i) # Ref(1) THEN Refuse("wrong")
                       ELSE Accept(<<IF items = 0 THEN [i \in 1 .. AssetRef |-> 0] ELSE Ref(1)>>)
  BY <1>7, <1>8 DEF GetFullRef, Is, items, Ref, R
<1>11. (\E i \in 2 .. n : Ref(i) # Ref(1)) <=> \E i, j \in 1 .. n : refs[i] # refs[j]
  <2>1. ASSUME NEW i \in 2 .. n, Ref(i) # Ref(1) PROVE \E k, j \in 1 .. n : refs[k] # refs[j]
    <3>1. i \in 1 .. n /\ 1 \in 1 .. n
      BY <1>1
    <3>2. Ref(i) = refs[i] /\ Ref(1) = refs[1]
      BY <1>9, <3>1
    <3> QED
      BY <2>1, <3>1, <3>2
  <2>2. ASSUME NEW k \in 1 .. n, NEW j \in 1 .. n, refs[k] # refs[j], ~\E i \in 2 .. n : Ref(i) # Ref(1)
        PROVE  FALSE
    <3>1. 1 \in 1 .. n /\ (k = 1 \/ k \in 2 .. n) /\ (j = 1 \/ j \in 2 .. n)
      BY <1>1
    <3>2. Ref(k) = Ref(1) /\ Ref(j) = Ref(1)
      BY <2>2, <3>1
    <3> QED
      BY <1>9, <2>2, <3>2
  <2> QED
    BY <2>1, <2>2
<1>12. n = 0 <=> refs = <<>>
  BY <1>1 DEF n
<1>13. n # 0 => Ref(1) = refs[1]
  <2>1. n # 0 => 1 \in 1 .. n
    BY <1>1
  <2> QED
    BY <1>9, <2>1
<1>14. DOMAIN refs = 1 .. n
  BY <1>1 DEF n
<1>15. ReadAs("FollowOns", a, "FollowOns") =
         IF \E i, j \in DOMAIN refs : refs[i] # refs[j] THEN Refuse("wrong")
         ELSE Accept(<<IF refs = <<>> THEN [i \in 1 .. AssetRef |-> 0] ELSE refs[1]>>)
  BY DEF ReadAs, refs
<1>16. (\E i \in 2 .. items : Ref(i) # Ref(1)) <=> \E i, j \in DOMAIN refs : refs[i] # refs[j]
  BY <1>8, <1>11, <1>14
<1>17. (IF items = 0 THEN [i \in 1 .. AssetRef |-> 0] ELSE Ref(1))
         = IF refs = <<>> THEN [i \in 1 .. AssetRef |-> 0] ELSE refs[1]
  BY <1>8, <1>12, <1>13
<1>18. GetFullRef(e) = ReadAs("FollowOns", a, "FollowOns")
  <2> DEFINE differs == \E i \in 2 .. items : Ref(i) # Ref(1)
             differ == \E i, j \in DOMAIN refs : refs[i] # refs[j]
             first == IF items = 0 THEN [i \in 1 .. AssetRef |-> 0] ELSE Ref(1)
             ref == IF refs = <<>> THEN [i \in 1 .. AssetRef |-> 0] ELSE refs[1]
  <2>1. /\ (differs <=> differ) /\ first = ref
        /\ GetFullRef(e) = IF differs THEN Refuse("wrong") ELSE Accept(<<first>>)
        /\ ReadAs("FollowOns", a, "FollowOns") = IF differ THEN Refuse("wrong") ELSE Accept(<<ref>>)
    BY <1>10, <1>15, <1>16, <1>17
  <2> HIDE DEF differs, differ, first, ref
  <2> QED
    BY <2>1
<1> QED
  BY <1>7, <1>18

-----------------------------------------------------------------------------
(* What every getter makes of every kind of element.                        *)
LEMMA CachedIsApart ==
  ASSUME NEW e
  PROVE  GetCachedScript(e, 0).err = "none" <=> Is(e, Hdac, "i")
BY DEF GetCachedScript, Cached, NotCached

NewEntity(a) == \E type \in Byte, update \in {0, 1}, bytes \in Bytes : a = <<type, update, bytes>>

Arguments(call, a) == IF call = "NewEntityType" THEN NewEntity(a) ELSE a \in Types(call)

LEMMA EveryGetterReads ==
  ASSUME NEW call \in Getter, NEW a, Arguments(call, a), NEW e \in Elements(call, a),
         NEW getter \in Getter
  PROVE  Got(getter, e) = ReadAs(call, a, getter) /\ ~Is(e, Hdac, "i") /\ IsElement(e)
<1>1. CASE call = "Permission"
  <2>1. IsElement(e) /\ e.id = Hdac /\ e.letter = "p" /\ GetPermission(e) = Accept(a)
    BY <1>1, PermissionIsRead DEF Arguments
  <2>2. getter = call => Got(getter, e) = ReadAs(call, a, getter)
    BY <1>1, <2>1 DEF Got, ReadAs
  <2>3. getter # call => <<e.id, e.letter>> \notin Kind(getter)
    BY <1>1, <2>1 DEF Kind, Getter, Setter, Hdac, Free
  <2>4. getter # call => ReadAs(call, a, getter) = Refuse("wrong")
    BY <1>1 DEF ReadAs
  <2> QED
    BY <2>1, <2>2, <2>3, <2>4, OtherKind DEF Is
<1>2. CASE call = "BlockSignature"
  <2>1. /\ IsElement(e) /\ e.id = Free /\ e.letter = "b"
        /\ GetBlockSignature(e) = IF Len(a[1]) > Room \/ Len(a[3]) > Room THEN Refuse("wrong") ELSE Accept(a)
    BY <1>2, BlockSignatureIsRead DEF Arguments
  <2>2. getter = call => Got(getter, e) = ReadAs(call, a, getter)
    BY <1>2, <2>1 DEF Got, ReadAs
  <2>3. getter # call => <<e.id, e.letter>> \notin Kind(getter)
    BY <1>2, <2>1 DEF Kind, Getter, Setter, Hdac, Free
  <2>4. getter # call => ReadAs(call, a, getter) = Refuse("wrong")
    BY <1>2 DEF ReadAs
  <2> QED
    BY <2>1, <2>2, <2>3, <2>4, OtherKind DEF Is
<1>3. CASE call = "AssetGenesis"
  <2>1. IsElement(e) /\ e.id = Hdac /\ e.letter = "g" /\ GetAssetGenesis(e) = Accept(a)
    BY <1>3, AssetGenesisIsRead DEF Arguments
  <2>2. getter = call => Got(getter, e) = ReadAs(call, a, getter)
    BY <1>3, <2>1 DEF Got, ReadAs
  <2>3. getter # call => <<e.id, e.letter>> \notin Kind(getter)
    BY <1>3, <2>1 DEF Kind, Getter, Setter, Hdac, Free
  <2>4. getter # call => ReadAs(call, a, getter) = Refuse("wrong")
    BY <1>3 DEF ReadAs
  <2> QED
    BY <2>1, <2>2, <2>3, <2>4, OtherKind DEF Is
<1>4. CASE call = "GeneralDetails"
  <2>1. /\ IsElement(e) /\ e.id = Free /\ e.letter = "c" /\ GetGeneralDetails(e) = Accept(a)
        /\ GetAssetDetails(e) = Accept(<<<<>>, 1, a[1]>>)
    BY <1>4, GeneralDetailsAreRead DEF Arguments
  <2>2. getter \in {call, "AssetDetails"} => Got(getter, e) = ReadAs(call, a, getter)
    BY <1>4, <2>1 DEF Got, ReadAs
  <2>3. getter \notin {call, "AssetDetails"} => <<e.id, e.letter>> \notin Kind(getter)
    BY <1>4, <2>1 DEF Kind, Getter, Setter, Hdac, Free
  <2>4. getter \notin {call, "AssetDetails"} => ReadAs(call, a, getter) = Refuse("wrong")
    BY <1>4 DEF ReadAs
  <2> QED
    BY <2>1, <2>2, <2>3, <2>4, OtherKind DEF Is
<1>5. CASE call = "AssetDetails"
  <2>1. /\ IsElement(e) /\ e.id = Free /\ e.letter = "a"
        /\ GetAssetDetails(e) = IF Len(a[1]) > MaxName THEN Refuse("wrong") ELSE Accept(a)
    BY <1>5, AssetDetailsAreRead DEF Arguments
  <2>2. getter = call => Got(getter, e) = ReadAs(call, a, getter)
    BY <1>5, <2>1 DEF Got, ReadAs
  <2>3. getter # call => <<e.id, e.letter>> \notin Kind(getter)
    BY <1>5, <2>1 DEF Kind, Getter, Setter, Hdac, Free
  <2>4. getter # call => ReadAs(call, a, getter) = Refuse("wrong")
    BY <1>5 DEF ReadAs
  <2> QED
    BY <2>1, <2>2, <2>3, <2>4, OtherKind DEF Is, Hdac, Free
<1>6. CASE call = "FollowOns"
  <2>1. /\ IsElement(e) /\ e.id = Hdac /\ e.letter = "o"
        /\ GetFullRef(e) = ReadAs(call, a, call)
    BY <1>6, FollowOnsAreRead DEF Arguments
  <2>2. getter = call => Got(getter, e) = ReadAs(call, a, getter)
    BY <1>6, <2>1 DEF Got
  <2>3. getter # call => <<e.id, e.letter>> \notin Kind(getter)
    BY <1>6, <2>1 DEF Kind, Getter, Setter, Hdac, Free
  <2>4. getter # call => ReadAs(call, a, getter) = Refuse("wrong")
    BY <1>6 DEF ReadAs
  <2> QED
    BY <2>1, <2>2, <2>3, <2>4, OtherKind DEF Is
<1>7. CASE call = "Approval"
  <2>1. IsElement(e) /\ e.id = Hdac /\ e.letter = "a" /\ GetApproval(e) = Accept(a)
    BY <1>7, ApprovalIsRead DEF Arguments
  <2>2. getter = call => Got(getter, e) = ReadAs(call, a, getter)
    BY <1>7, <2>1 DEF Got, ReadAs
  <2>3. getter # call => <<e.id, e.letter>> \notin Kind(getter)
    BY <1>7, <2>1 DEF Kind, Getter, Setter, Hdac, Free
  <2>4. getter # call => ReadAs(call, a, getter) = Refuse("wrong")
    BY <1>7 DEF ReadAs
  <2> QED
    BY <2>1, <2>2, <2>3, <2>4, OtherKind DEF Is
<1>8. CASE call = "NewEntityType"
  <2>1. PICK type \in Byte, update \in {0, 1}, bytes \in Bytes : a = <<type, update, bytes>>
    BY <1>8 DEF Arguments, NewEntity
  <2>2. a[1] = type /\ a[2] = update /\ a[3] = bytes
    BY <2>1
  <2>3. e \in SetNewEntityType(type, update, bytes)
    BY <1>8, <2>2 DEF Elements
  <2>4. /\ IsElement(e) /\ e.id = Hdac /\ e.letter = IF update = 0 THEN "n" ELSE "u"
        /\ GetNewEntityType(e) = Accept(a)
        /\ GetTypeAlone(e) = IF update = 0 THEN Accept(<<type>>) ELSE Refuse("wrong")
    BY <2>1, <2>3, NewEntityIsRead
  <2>5. e.letter \in {"n", "u"}
    BY <2>4
  <2>6. getter \in {call, "TypeAlone"} => Got(getter, e) = ReadAs(call, a, getter)
    BY <1>8, <2>2, <2>4 DEF Got, ReadAs
  <2>7. getter \notin {call, "TypeAlone"} => <<e.id, e.letter>> \notin Kind(getter)
    BY <1>8, <2>4, <2>5 DEF Kind, Getter, Setter, Hdac, Free
  <2>8. getter \notin {call, "TypeAlone"} => ReadAs(call, a, getter) = Refuse("wrong")
    BY <1>8 DEF ReadAs
  <2> QED
    BY <2>4, <2>5, <2>6, <2>7, <2>8, OtherKind DEF Is
<1>9. CASE call = "TypeAlone"
  <2>1. /\ IsElement(e) /\ e.id = Hdac /\ e.letter = "n" /\ GetTypeAlone(e) = Accept(a)
        /\ GetNewEntityType(e) = Accept(<<a[1], 0, <<>>>>)
    BY <1>9, TypeAloneIsRead DEF Arguments
  <2>2. getter \in {call, "NewEntityType"} => Got(getter, e) = ReadAs(call, a, getter)
    BY <1>9, <2>1 DEF Got, ReadAs
  <2>3. getter \notin {call, "NewEntityType"} => <<e.id, e.letter>> \notin Kind(getter)
    BY <1>9, <2>1 DEF Kind, Getter, Setter, Hdac, Free
  <2>4. getter \notin {call, "NewEntityType"} => ReadAs(call, a, getter) = Refuse("wrong")
    BY <1>9 DEF ReadAs
  <2> QED
    BY <2>1, <2>2, <2>3, <2>4, OtherKind DEF Is
<1>10. CASE call = "ItemKey"
  <2>1. IsElement(e) /\ e.id = Hdac /\ e.letter = "k" /\ GetItemKey(e) = Accept(a)
    BY <1>10, ItemKeyIsRead DEF Arguments
  <2>2. getter = call => Got(getter, e) = ReadAs(call, a, getter)
    BY <1>10, <2>1 DEF Got, ReadAs
  <2>3. getter # call => <<e.id, e.letter>> \notin Kind(getter)
    BY <1>10, <2>1 DEF Kind, Getter, Setter, Hdac, Free
  <2>4. getter # call => ReadAs(call, a, getter) = Refuse("wrong")
    BY <1>10 DEF ReadAs
  <2> QED
    BY <2>1, <2>2, <2>3, <2>4, OtherKind DEF Is
<1>11. CASE call = "Entity"
  <2>1. IsElement(e) /\ e.id = Hdac /\ e.letter = "e" /\ GetEntity(e) = Accept(a)
    BY <1>11, EntityIsRead DEF Arguments
  <2>2. getter = call => Got(getter, e) = ReadAs(call, a, getter)
    BY <1>11, <2>1 DEF Got, ReadAs
  <2>3. getter # call => <<e.id, e.letter>> \notin Kind(getter)
    BY <1>11, <2>1 DEF Kind, Getter, Setter, Hdac, Free
  <2>4. getter # call => ReadAs(call, a, getter) = Refuse("wrong")
    BY <1>11 DEF ReadAs
  <2> QED
    BY <2>1, <2>2, <2>3, <2>4, OtherKind DEF Is
<1> QED
  BY <1>1, <1>2, <1>3, <1>4, <1>5, <1>6, <1>7, <1>8, <1>9, <1>10, <1>11 DEF Getter, Setter

LEMMA CachedByNone ==
  ASSUME NEW getter \in Getter, NEW e, e.id = Hdac, e.letter = "i", NEW a
  PROVE  Got(getter, e) = ReadAs("CachedScript", a, getter)
<1>1. <<e.id, e.letter>> \notin Kind(getter)
  BY DEF Kind, Getter, Setter, Hdac, Free
<1>2. ReadAs("CachedScript", a, getter) = Refuse("wrong")
  BY DEF ReadAs, Getter, Setter
<1> QED
  BY <1>1, <1>2, OtherKind

-----------------------------------------------------------------------------
(* The invariant of the element: which call has written it, from arguments  *)
(* of its types, and where the cached scripts in it begin and end.          *)
LEMMA PartOfPart ==
  ASSUME NEW s, NEW t, Part(s, 0, t), NEW o, NEW part, Part(t, o, part)
  PROVE  Part(s, o, part)
<1>1. /\ t \in Bytes /\ Len(t) \in Nat /\ 0 + Len(t) <= Len(s) /\ At(s, 0, t)
      /\ part \in Bytes /\ Len(part) \in Nat /\ o \in Nat /\ o + Len(part) <= Len(t) /\ At(t, o, part)
  BY LengthIs DEF Part
<1>2. ASSUME NEW i \in 1 .. Len(part) PROVE s[o + i] = part[i]
  <2>1. o + i \in 1 .. Len(t) /\ 0 + (o + i) = o + i
    BY <1>1
  <2> QED
    BY <1>1, <2>1 DEF At
<1>3. s \in Bytes => Len(s) \in Nat
  BY LengthIs
<1>4. o + Len(part) <= Len(s)
  BY <1>1
<1> QED
  BY <1>1, <1>2, <1>4 DEF Part, At

SizeBytes(bytes) == PutVarInt(Len(bytes))

Piece(body, o, args, next) ==
  /\ Part(body, o, PutLE(args[1], 4))
  /\ Part(body, o + 4, SizeBytes(args[2]))
  /\ Part(body, o + 4 + Len(SizeBytes(args[2])), args[2])
  /\ next = o + 4 + Len(SizeBytes(args[2])) + Len(args[2])

IsCached(body, args, e) ==
  /\ e \in [0 .. Len(args) -> Nat] /\ e[0] = 0 /\ e[Len(args)] = Len(body)
  /\ \A i \in 1 .. Len(args) : Piece(body, e[i - 1], args[i], e[i])

CachedArgs == Types("CachedScript")

WrittenBy(w, e) ==
  /\ w = [call |-> w.call, args |-> w.args] /\ IsElement(e)
  /\ w.call \in Getter \cup {"none", "CachedScript"}
  /\ w.call \in Getter => Arguments(w.call, w.args) /\ e \in Elements(w.call, w.args)
  /\ w.call = "CachedScript" =>
       /\ e = Element(Hdac, "i", e.body) /\ e.body \in Bytes /\ w.args \in Seq(CachedArgs)
       /\ \E ends : IsCached(e.body, w.args, ends)

WrittenInv == WrittenBy(written, element)

LEMMA InitWritten == TypedInit => WrittenInv
<1> SUFFICES ASSUME TypedInit PROVE WrittenInv
  OBVIOUS
<1>1. written = [call |-> "none", args |-> <<>>] /\ written.call = "none" /\ written.args = <<>>
  BY DEF TypedInit
<1>2. "none" \notin Getter
  BY DEF Getter, Setter
<1> QED
  <2>1. <<>> \in Bytes
    BY DEF Bytes
  <2>2. element = Element("", "", <<>>)
    BY DEF TypedInit
  <2>3. IsElement(element)
    BY <2>1, <2>2, FormIs
  <2> QED
    BY <1>1, <1>2, <2>3 DEF WrittenInv, WrittenBy

LEMMA SizeBytesAre ==
  ASSUME NEW a \in CachedArgs
  PROVE  /\ a[1] \in Integer(4) /\ a[1] \in Nat /\ a[2] \in Bytes
         /\ Len(a[2]) \in Nat /\ Len(a[2]) < Power[8] /\ a = <<a[1], a[2]>>
         /\ SizeBytes(a[2]) \in Bytes /\ Len(SizeBytes(a[2])) \in 1 .. 9
<1>1. /\ a[1] \in Integer(4) /\ a[1] \in Nat /\ a[2] \in Bytes /\ Len(a[2]) < Power[8]
      /\ a = <<a[1], a[2]>>
  BY DEF CachedArgs, Types
<1>2. Len(a[2]) \in Nat
  BY <1>1, LengthIs
<1>3. SizeBytes(a[2]) \in Bytes /\ Len(SizeBytes(a[2])) \in 1 .. 9
  BY <1>2, PutVarIntIs DEF SizeBytes, Bytes
<1> QED
  BY <1>1, <1>2, <1>3

LEMMA AppendWritten == WrittenInv /\ AppendCached => WrittenInv'
<1> SUFFICES ASSUME WrittenInv, AppendCached PROVE WrittenInv'
  OBVIOUS
<1>1. PICK a \in Argument("CachedScript") :
        /\ element' = [element EXCEPT !.body =
                         @ \o PutLE(a[1], 4) \o PutVarInt(Len(a[2])) \o a[2]]
        /\ written' = [written EXCEPT !.args = Append(@, a)]
  BY DEF AppendCached
<1> DEFINE body == element.body
           args == written.args
           n == Len(args)
           vin == PutLE(a[1], 4)
           data == a[2]
           size == SizeBytes(data)
           after == body \o vin \o size \o data
<1>2. /\ written.call = "CachedScript" /\ element = Element(Hdac, "i", body) /\ body \in Bytes
      /\ args \in Seq(CachedArgs)
  BY DEF AppendCached, WrittenInv, WrittenBy
<1>3. PICK e : IsCached(body, args, e)
  BY DEF AppendCached, WrittenInv, WrittenBy
<1>4. a \in CachedArgs
  BY TypedElementsAssumption DEF CachedArgs
<1>5. a[1] \in Int /\ data \in Bytes /\ size \in Bytes /\ Len(size) \in Nat /\ Len(data) \in Nat
  BY <1>4, SizeBytesAre
<1>6. vin \in Bytes /\ Len(vin) = 4
  BY <1>5, NumberBytes
<1> HIDE DEF vin, size, data
<1>7. /\ after \in Bytes /\ Len(after) = Len(body) + 4 + Len(size) + Len(data)
      /\ Part(after, 0, body) /\ Part(after, Len(body), vin)
      /\ Part(after, Len(body) + 4, size) /\ Part(after, Len(body) + 4 + Len(size), data)
  <2>0. body \in Bytes /\ vin \in Bytes /\ size \in Bytes /\ data \in Bytes
    BY <1>2, <1>5, <1>6
  <2> HIDE DEF body
  <2>1. /\ after \in Bytes /\ Len(after) = Len(body) + Len(vin) + Len(size) + Len(data)
        /\ Part(after, 0, body) /\ Part(after, Len(body), vin)
        /\ Part(after, Len(body) + Len(vin), size)
        /\ Part(after, Len(body) + Len(vin) + Len(size), data)
    BY <2>0, FourParts
  <2> QED
    BY <1>6, <2>1
<1>8. element' = Element(Hdac, "i", after)
  <2>1. element' = [element EXCEPT !.body = after]
    BY <1>1 DEF SizeBytes, size, vin, data
  <2> HIDE DEF after, body
  <2>2. element = [id |-> Hdac, letter |-> "i", body |-> body]
    BY <1>2 DEF Element
  <2> QED
    BY <2>1, <2>2 DEF Element
<1> HIDE DEF after
<1>9. element'.body = after
  BY <1>8, FormIs
<1>10. written' = [call |-> "CachedScript", args |-> Append(args, a)]
  <2> HIDE DEF args
  <2>1. written = [call |-> "CachedScript", args |-> args]
    BY <1>2 DEF WrittenInv, WrittenBy, args
  <2> QED
    BY <1>1, <2>1
<1>11. written'.args = Append(args, a) /\ written'.call = "CachedScript"
  <2> HIDE DEF args
  <2> QED
    BY <1>10
<1> HIDE DEF body, args, n
<1>12. /\ n \in Nat /\ Append(args, a) \in Seq(CachedArgs) /\ Len(Append(args, a)) = n + 1
       /\ \A i \in 1 .. n : Append(args, a)[i] = args[i]
       /\ Append(args, a)[n + 1] = a
  BY <1>2, <1>4, AppendProperties DEF n
<1> DEFINE g == [i \in 0 .. n + 1 |-> IF i = n + 1 THEN Len(after) ELSE e[i]]
<1>13. Len(body) \in Nat /\ Len(after) \in Nat
  BY <1>2, <1>7, LengthIs
<1>14. e \in [0 .. n -> Nat] /\ e[0] = 0 /\ e[n] = Len(body)
       /\ \A i \in 1 .. n : Piece(body, e[i - 1], args[i], e[i])
  BY <1>3 DEF IsCached, n
<1>15. g \in [0 .. n + 1 -> Nat] /\ g[n + 1] = Len(after) /\ \A i \in 0 .. n : g[i] = e[i]
  BY <1>12, <1>13, <1>14
<1> HIDE DEF g
<1>16. ASSUME NEW i \in 1 .. n + 1 PROVE Piece(after, g[i - 1], Append(args, a)[i], g[i])
  <2>1. CASE i = n + 1
    <3>1. i - 1 = n /\ n \in 0 .. n
      BY <1>12, <2>1
    <3>2. g[i - 1] = Len(body) /\ g[i] = Len(after) /\ Append(args, a)[i] = a
      BY <1>12, <1>14, <1>15, <2>1, <3>1
    <3> QED
      BY <1>7, <3>2 DEF Piece, vin, size, data
  <2>2. CASE i # n + 1
    <3>1. i \in 1 .. n /\ i - 1 \in 0 .. n /\ i \in 0 .. n
      BY <1>12, <2>2
    <3>2. Piece(body, e[i - 1], args[i], e[i]) /\ g[i - 1] = e[i - 1] /\ g[i] = e[i]
          /\ Append(args, a)[i] = args[i]
      BY <1>12, <1>14, <1>15, <3>1
    <3>3. \A o, part : Part(body, o, part) => Part(after, o, part)
      BY <1>7, PartOfPart
    <3> QED
      BY <3>2, <3>3 DEF Piece
  <2> QED
    BY <2>1, <2>2
<1>17. IsCached(after, Append(args, a), g)
  <2>1. g[0] = 0
    <3>1. 0 \in 0 .. n
      BY <1>12
    <3> QED
      BY <1>14, <1>15, <3>1
  <2> QED
    BY <1>12, <1>15, <1>16, <2>1 DEF IsCached
<1>18. "CachedScript" \notin Getter
  BY DEF Getter, Setter
<1>19. WrittenBy(written', element')
  <2> DEFINE w == written'
             el == element'
  <2>1. /\ w = [call |-> w.call, args |-> w.args] /\ w.call = "CachedScript" /\ w.args = Append(args, a)
        /\ el = Element(Hdac, "i", el.body) /\ el.body = after
    BY <1>8, <1>9, <1>10, <1>11
  <2> HIDE DEF w, el
  <2>2. IsElement(el)
    BY <1>7, <2>1 DEF IsElement, Element
  <2>3. WrittenBy(w, el)
    BY <1>7, <1>12, <1>17, <1>18, <2>1, <2>2 DEF WrittenBy
  <2> QED
    BY <2>3 DEF w, el
<1> QED
  BY <1>19 DEF WrittenInv

LEMMA SetWritten ==
  ASSUME NEW call \in Getter, NEW args, Arguments(call, args), Set(call, args)
  PROVE  WrittenInv'
<1> DEFINE w == written'
           el == element'
<1>1. w = [call |-> call, args |-> args] /\ el \in Elements(call, args)
  BY DEF Set
<1>2. call # "CachedScript"
  BY DEF Getter, Setter
<1> HIDE DEF w, el
<1>3. w.call = call /\ w.args = args
  BY <1>1
<1>4. IsElement(el)
  <2>1. "ItemKey" \in Getter
    BY DEF Getter, Setter
  <2> QED
    BY <1>1, <2>1, EveryGetterReads
<1>5. WrittenBy(w, el)
  BY <1>1, <1>2, <1>3, <1>4 DEF WrittenBy
<1> QED
  BY <1>5 DEF WrittenInv, w, el

LEMMA AppendedThird ==
  ASSUME NEW x, NEW y, NEW z
  PROVE  Append(<<x, y>>, z) = <<x, y, z>>
<1> DEFINE S == {x, y, z}
           s == <<x, y>>
           t == <<x, y, z>>
<1>1. /\ s \in Seq(S) /\ z \in S /\ Len(s) = 2 /\ s[1] = x /\ s[2] = y
      /\ t \in Seq(S) /\ Len(t) = 3 /\ t[1] = x /\ t[2] = y /\ t[3] = z
  OBVIOUS
<1> HIDE DEF s, t, S
<1>2. /\ Append(s, z) \in Seq(S) /\ Len(Append(s, z)) = 3
      /\ \A i \in 1 .. 2 : Append(s, z)[i] = s[i]
      /\ Append(s, z)[3] = z
  <2>1. 2 + 1 = 3
    OBVIOUS
  <2> QED
    BY <1>1, <2>1, AppendProperties
<1>3. \A i \in 1 .. 3 : Append(s, z)[i] = t[i]
  <2>1. \A i \in 1 .. 3 : i = 1 \/ i = 2 \/ i = 3
    OBVIOUS
  <2>2. 1 \in 1 .. 2 /\ 2 \in 1 .. 2
    OBVIOUS
  <2> QED
    BY <1>1, <1>2, <2>1, <2>2
<1>4. Append(s, z) = t
  BY <1>1, <1>2, <1>3, SeqEqual
<1> QED
  BY <1>4 DEF s, t

LEMMA NextWritten == IInv /\ WrittenInv /\ [TypedNext]_<<vars, typed>> => WrittenInv'
<1> SUFFICES ASSUME IInv, WrittenInv, [TypedNext]_<<vars, typed>> PROVE WrittenInv'
  OBVIOUS
<1>1. CASE UNCHANGED typed
  BY <1>1 DEF typed, WrittenInv
<1>2. CASE SetTyped
  <2>1. PICK call \in Setter : \E args \in Argument(call) : Set(call, args)
    BY <1>2 DEF SetTyped
  <2>2. PICK args \in Argument(call) : Set(call, args)
    BY <2>1
  <2>3. call \in Getter /\ call # "NewEntityType"
    BY DEF Getter, Setter
  <2>4. args \in Types(call)
    BY <2>3, TypedElementsAssumption
  <2> QED
    BY <2>2, <2>3, <2>4, SetWritten DEF Arguments
<1>3. CASE SetEntityDetails
  <2>1. PICK args \in Argument("NewEntityType") : Set("NewEntityType", Append(args, script))
    BY <1>3 DEF SetEntityDetails
  <2>2. "NewEntityType" \in Getter
    BY DEF Getter
  <2>3. args \in Byte \X {0, 1}
    BY <2>2, TypedElementsAssumption DEF Types
  <2>4. script \in Bytes
    BY DEF IInv, Bytes
  <2>5. Append(args, script) = <<args[1], args[2], script>>
    <3>1. args = <<args[1], args[2]>>
      BY <2>3
    <3>2. \A x, y, z : Append(<<x, y>>, z) = <<x, y, z>>
      BY AppendedThird
    <3> QED
      BY <3>1, <3>2
  <2>6. NewEntity(Append(args, script))
    BY <2>3, <2>4, <2>5 DEF NewEntity
  <2> QED
    BY <2>1, <2>2, <2>6, SetWritten DEF Arguments
<1>4. CASE OpenCached
  <2> DEFINE w == written'
             el == element'
  <2>1. w = [call |-> "CachedScript", args |-> <<>>] /\ el = Element(Hdac, "i", <<>>)
    BY <1>4 DEF OpenCached
  <2> HIDE DEF w, el
  <2>2. el.body = <<>> /\ w.call = "CachedScript" /\ w.args = <<>>
    BY <2>1, FormIs
  <2>3. <<>> \in Bytes /\ <<>> \in Seq(CachedArgs) /\ "CachedScript" \notin Getter /\ Len(<<>>) = 0
    BY DEF Bytes, Getter, Setter
  <2>4. IsCached(<<>>, <<>>, [i \in 0 .. 0 |-> 0])
    BY <2>3 DEF IsCached
  <2>5. IsElement(el)
    BY <2>1, <2>3, FormIs
  <2>6. WrittenBy(w, el)
    BY <2>1, <2>2, <2>3, <2>4, <2>5 DEF WrittenBy
  <2> QED
    BY <2>6 DEF WrittenInv, w, el
<1>5. CASE AppendCached
  BY <1>5, AppendWritten
<1> QED
  BY <1>1, <1>2, <1>3, <1>4, <1>5 DEF TypedNext, WriteDetails, typed

LEMMA ReadByItsOwn == WrittenInv => EachReadsItsOwn
<1> SUFFICES ASSUME WrittenInv, written.call # "none"
             PROVE  /\ \A getter \in Getter : Got(getter, element) = ReadAs(written.call, written.args, getter)
                    /\ GetCachedScript(element, 0).err = "none" <=> written.call = "CachedScript"
  BY DEF EachReadsItsOwn
<1>1. CASE written.call \in Getter
  <2>1. Arguments(written.call, written.args) /\ element \in Elements(written.call, written.args)
        /\ written.call # "CachedScript"
    BY <1>1 DEF WrittenInv, WrittenBy, Getter, Setter
  <2>2. ASSUME NEW getter \in Getter
        PROVE  Got(getter, element) = ReadAs(written.call, written.args, getter) /\ ~Is(element, Hdac, "i")
    BY <1>1, <2>1, EveryGetterReads
  <2>3. "ItemKey" \in Getter
    BY DEF Getter, Setter
  <2> QED
    BY <2>1, <2>2, <2>3, CachedIsApart
<1>2. CASE written.call = "CachedScript"
  <2>1. element.id = Hdac /\ element.letter = "i"
    BY <1>2, FormIs DEF WrittenInv, WrittenBy
  <2> QED
    BY <1>2, <2>1, CachedByNone, CachedIsApart DEF Is
<1> QED
  BY <1>1, <1>2 DEF WrittenInv, WrittenBy

LEMMA WrittenInvariance == TypedSpec => [](IInv /\ WrittenInv)
<1>1. TypedInit => IInv /\ WrittenInv
  BY InitIInv, InitWritten DEF TypedInit
<1>2. IInv /\ WrittenInv /\ [TypedNext]_<<vars, typed>> => IInv' /\ WrittenInv'
  BY NextIInv, NextWritten, TypedNextIsNext
<1> QED
  BY <1>1, <1>2, PTL DEF TypedSpec

(* An element is read by the getter of its kind as it was written, and by   *)
(* no getter of another kind, cached scripts included: for every radix,     *)
(* limits of the setters, and arguments of the types of the calls           *)
(* (hdacscript.cpp:534-1057, 1137-1524).                                    *)
THEOREM ElementsAreReadByTheirOwn == TypedSpec => []EachReadsItsOwn
<1> QED
  BY WrittenInvariance, ReadByItsOwn, PTL

-----------------------------------------------------------------------------
(* Cached scripts.  A call without an error goes on to a later offset, so   *)
(* the loop of a reader is a function that exists.                          *)
LEMMA CachedMoves ==
  ASSUME NEW body \in Bytes, NEW o \in Nat
  PROVE  LET e == Element(Hdac, "i", body)
             got == GetCachedScript(e, o)
         IN  /\ got.err \in {"none", "wrong", "error"}
             /\ got.err = "none" => got.next \in Nat /\ got.next > o
             /\ o > Prefix + Len(body) => got.err = "error"
<1> DEFINE e == Element(Hdac, "i", body)
           got == GetCachedScript(e, o)
           size == GetVarInt(e.body, o - Prefix + 4, Prefix + Len(e.body) - o - 4)
           vin == Signed(GetLE(e.body, o - Prefix, 4), 4)
           start == o - Prefix + 4 + size.shift
<1>1. e.body = body /\ Is(e, Hdac, "i") /\ body \in Seq(Byte) /\ Len(body) \in Nat
  BY FormIs, LengthIs DEF Is
<1>2. size.value \in Int /\ size.shift \in Nat
  <2>1. /\ o - Prefix + 4 = o /\ (Prefix + Len(body) - o) - 4 = Len(body) - o
        /\ Prefix + Len(body) - o - 4 = Len(body) - o
        /\ Len(body) - o \in Int /\ o + (Len(body) - o) <= Len(body)
    BY <1>1 DEF Prefix
  <2>2. /\ GetVarInt(body, o, Len(body) - o).value \in Int
        /\ GetVarInt(body, o, Len(body) - o).shift \in Nat
    BY <1>1, <2>1, GetVarIntType
  <2> HIDE DEF e
  <2> QED
    BY <1>1, <2>1, <2>2
<1> HIDE DEF e, size, vin
<1>3. got = IF o = 0 THEN Cached(Prefix, -1, <<>>)
            ELSE IF Prefix + Len(body) = o THEN NotCached("wrong")
            ELSE IF Prefix + Len(body) < o + 4 \/ vin < 0 THEN NotCached("error")
            ELSE IF size.value < 0 \/ start + size.value > Len(body) THEN NotCached("error")
            ELSE Cached(Prefix + start + size.value, vin, SubSeq(body, start + 1, start + size.value))
  BY <1>1 DEF GetCachedScript, size, vin
<1> HIDE DEF got
<1>4. CASE o = 0
  <2>1. got.err = "none" /\ got.next = 4
    BY <1>3, <1>4 DEF Cached, Prefix
  <2> QED
    BY <1>1, <1>4, <2>1 DEF Prefix, got, e
<1>5. CASE got = NotCached("wrong") /\ Prefix + Len(body) = o
  <2>1. got.err = "wrong"
    BY <1>5 DEF NotCached
  <2> QED
    BY <1>1, <1>5, <2>1 DEF Prefix, got, e
<1>6. CASE got = NotCached("error")
  <2>1. got.err = "error"
    BY <1>6 DEF NotCached
  <2> QED
    BY <2>1 DEF got, e
<1>7. CASE /\ got = Cached(Prefix + start + size.value, vin, SubSeq(body, start + 1, start + size.value))
           /\ ~(Prefix + Len(body) < o + 4) /\ ~(size.value < 0)
  <2>1. got.err = "none" /\ got.next = Prefix + start + size.value
    BY <1>7 DEF Cached
  <2>2. size.value \in Nat /\ size.shift \in Nat
    BY <1>2, <1>7
  <2>3. start = o + size.shift /\ Prefix = 4
    BY <2>2 DEF Prefix
  <2> HIDE DEF start
  <2>4. got.next = 4 + (o + size.shift) + size.value
    BY <2>1, <2>3
  <2>5. got.next \in Nat /\ got.next > o
    BY <2>2, <2>4
  <2>6. ~(o > Prefix + Len(body))
    BY <1>1, <1>7, <2>3
  <2> QED
    BY <2>1, <2>5, <2>6 DEF got, e
<1> QED
  BY <1>3, <1>4, <1>5, <1>6, <1>7

(* One round of the loop.                                                   *)
MoreScripts(script1, rest) == [rest EXCEPT !.scripts = <<script1>> \o @]

Round(e, o, rest) ==
  LET got == GetCachedScript(e, o)
  IN  IF got.err # "none" THEN [scripts |-> <<>>, err |-> got.err]
      ELSE MoreScripts(<<got.vin, got.script>>, rest)

LEMMA MoreScriptsAre ==
  ASSUME NEW x, NEW y, NEW z
  PROVE  MoreScripts(x, [scripts |-> y, err |-> z]) = [scripts |-> <<x>> \o y, err |-> z]
<1> DEFINE r == [scripts |-> y, err |-> z]
           xy == <<x>> \o y
<1>1. r.scripts = y
  OBVIOUS
<1> HIDE DEF r
<1>2. MoreScripts(x, r) = [r EXCEPT !.scripts = xy]
  BY <1>1 DEF MoreScripts
<1> HIDE DEF xy
<1>3. [r EXCEPT !.scripts = xy] = [scripts |-> xy, err |-> z]
  BY DEF r
<1> QED
  BY <1>2, <1>3 DEF r, xy

LEMMA CachedFromIs ==
  ASSUME NEW body \in Bytes
  PROVE  LET e == Element(Hdac, "i", body)
         IN  \E walk : /\ CachedFrom(e) = walk[Prefix]
                       /\ \A o \in Nat : walk[o] = Round(e, o, walk[GetCachedScript(e, o).next])
<1> DEFINE e == Element(Hdac, "i", body)
           got(o) == GetCachedScript(e, o)
           total == Prefix + Len(body) + 1
           U == {<<got(o).vin, got(o).script>> : o \in Nat}
           S == [scripts : Seq(U), err : {"none", "wrong", "error"}]
           base == [scripts |-> <<>>, err |-> "error"]
           next == [o \in Nat |-> IF got(o).err = "none" THEN got(o).next ELSE o + 1]
           H == [p \in Nat \X S |-> Round(e, p[1], p[2])]
<1> HIDE DEF e
<1>1. ASSUME NEW o \in Nat
      PROVE  /\ got(o).err \in {"none", "wrong", "error"}
             /\ got(o).err = "none" => got(o).next \in Nat /\ got(o).next > o
             /\ o >= total => got(o).err = "error"
  <2>1. Len(body) \in Nat /\ Prefix = 4
    BY LengthIs DEF Prefix
  <2>2. o >= total => o > Prefix + Len(body)
    BY <2>1
  <2> QED
    BY <2>2, CachedMoves DEF e
<1>2. total \in Nat
  BY LengthIs DEF Prefix
<1> HIDE DEF got, total
<1>3. /\ next \in [Nat -> Nat] /\ \A o \in Nat : next[o] > o
      /\ \A o \in Nat : got(o).err = "none" => next[o] = got(o).next
  <2>1. \A o \in Nat : next[o] = IF got(o).err = "none" THEN got(o).next ELSE o + 1
    OBVIOUS
  <2>2. next = [o \in Nat |-> next[o]]
    OBVIOUS
  <2> HIDE DEF next
  <2> QED
    BY <1>1, <2>1, <2>2
<1>4. base \in S
  OBVIOUS
<1>5. \A o \in Nat, r \in S : Round(e, o, r) \in S
  <2> SUFFICES ASSUME NEW o \in Nat, NEW r \in S PROVE Round(e, o, r) \in S
    OBVIOUS
  <2>1. <<got(o).vin, got(o).script>> \in U
    OBVIOUS
  <2> HIDE DEF U
  <2>2. r.scripts \in Seq(U) /\ r.err \in {"none", "wrong", "error"}
    OBVIOUS
  <2>3. <<<<got(o).vin, got(o).script>>>> \in Seq(U)
    BY <2>1
  <2>4. <<<<got(o).vin, got(o).script>>>> \o r.scripts \in Seq(U)
    BY <2>2, <2>3, ConcatProperties
  <2> DEFINE x == <<got(o).vin, got(o).script>>
             y == r.scripts
             z == r.err
  <2>5. Round(e, o, r) = IF got(o).err # "none" THEN [scripts |-> <<>>, err |-> got(o).err]
                         ELSE MoreScripts(x, r)
    BY DEF Round, got
  <2>6. r = [scripts |-> y, err |-> z]
    OBVIOUS
  <2>7. <<x>> \o y \in Seq(U) /\ z \in {"none", "wrong", "error"}
    BY <2>2, <2>4
  <2> HIDE DEF x, y, z
  <2>8. MoreScripts(x, r) = [scripts |-> <<x>> \o y, err |-> z]
    BY <2>6, MoreScriptsAre
  <2>9. [scripts |-> <<x>> \o y, err |-> z] \in S /\ base \in S
    BY <2>7
  <2>10. got(o).err # "none" => [scripts |-> <<>>, err |-> got(o).err] \in S
    <3>1. \A err \in {"wrong", "error"} : [scripts |-> <<>>, err |-> err] \in S
      OBVIOUS
    <3>2. got(o).err # "none" => got(o).err \in {"wrong", "error"}
      BY <1>1
    <3> HIDE DEF S
    <3> QED
      BY <3>1, <3>2
  <2> HIDE DEF S
  <2> QED
    BY <2>5, <2>8, <2>9, <2>10
<1> HIDE DEF S
<1>6. H \in [Nat \X S -> S] /\ \A o \in Nat, r \in S : H[<<o, r>>] = Round(e, o, r)
  <2>1. \A o \in Nat, r \in S : H[<<o, r>>] = Round(e, o, r)
    OBVIOUS
  <2>2. \A p \in Nat \X S : p[1] \in Nat /\ p[2] \in S /\ H[p] = Round(e, p[1], p[2])
    OBVIOUS
  <2>3. H = [p \in Nat \X S |-> H[p]]
    OBVIOUS
  <2> HIDE DEF H
  <2>4. \A p \in Nat \X S : H[p] \in S
    BY <1>5, <2>2
  <2> QED
    BY <2>1, <2>3, <2>4
<1> HIDE DEF H, next
<1>7. PICK f : Downward(S, total, base, next, H, f)
  <2> HIDE DEF base
  <2> QED
    BY <1>2, <1>3, <1>4, <1>6, DownwardExists
<1>8. f \in [Nat -> S] /\ \A o \in Nat : f[o] = IF o >= total THEN base ELSE H[<<o, f[next[o]]>>]
  BY <1>7 DEF Downward
<1>9. ASSUME NEW o \in Nat PROVE f[o] = Round(e, o, f[got(o).next])
  <2>1. CASE o >= total
    <3>1. got(o).err = "error"
      BY <1>1, <2>1
    <3>2. Round(e, o, f[got(o).next]) = base
      BY <3>1 DEF Round, got
    <3> QED
      BY <1>8, <2>1, <3>2
  <2>2. CASE ~(o >= total)
    <3>1. next[o] \in Nat /\ f[next[o]] \in S
      BY <1>3, <1>8
    <3>2. f[o] = Round(e, o, f[next[o]])
      BY <1>6, <1>8, <2>2, <3>1
    <3>3. CASE got(o).err = "none"
      BY <1>3, <3>2, <3>3
    <3>4. CASE got(o).err # "none"
      BY <3>2, <3>4 DEF Round, got
    <3> QED
      BY <3>3, <3>4
  <2> QED
    BY <2>1, <2>2
<1>10. f = [o \in Nat |->
              LET g == GetCachedScript(e, o)
              IN  IF g.err # "none" THEN [scripts |-> <<>>, err |-> g.err]
                  ELSE LET rest == f[g.next]
                       IN  [rest EXCEPT !.scripts = <<<<g.vin, g.script>>>> \o @]]
  <2>1. ASSUME NEW o \in Nat
        PROVE  f[o] = LET g == GetCachedScript(e, o)
                      IN  IF g.err # "none" THEN [scripts |-> <<>>, err |-> g.err]
                          ELSE LET rest == f[g.next]
                               IN  [rest EXCEPT !.scripts = <<<<g.vin, g.script>>>> \o @]
    BY <1>9 DEF Round, MoreScripts, got
  <2>2. f = [o \in Nat |-> f[o]]
    BY <1>8
  <2> QED
    BY <2>1, <2>2
<1> DEFINE walk[offset \in Nat] ==
             LET g == GetCachedScript(e, offset)
             IN  IF g.err # "none" THEN [scripts |-> <<>>, err |-> g.err]
                 ELSE LET rest == walk[g.next]
                      IN  [rest EXCEPT !.scripts = <<<<g.vin, g.script>>>> \o @]
<1>11. walk = [offset \in Nat |->
                 LET g == GetCachedScript(e, offset)
                 IN  IF g.err # "none" THEN [scripts |-> <<>>, err |-> g.err]
                     ELSE LET rest == walk[g.next]
                          IN  [rest EXCEPT !.scripts = <<<<g.vin, g.script>>>> \o @]]
  BY <1>10
<1>12. CachedFrom(e) = walk[Prefix]
  BY DEF CachedFrom
<1> HIDE DEF walk
<1>13. \A o \in Nat : walk[o] = Round(e, o, walk[GetCachedScript(e, o).next])
  BY <1>11 DEF Round, MoreScripts
<1> QED
  BY <1>12, <1>13 DEF e

(* The first bytes of an element.                                           *)
LEMMA CutIs ==
  ASSUME NEW body \in Bytes, NEW total \in 0 .. Len(body)
  PROVE  LET cut == SubSeq(body, 1, total)
         IN  /\ cut \in Bytes /\ Len(cut) = total
             /\ \A i \in 1 .. total : cut[i] = body[i] /\ body[i] \in Byte
<1> DEFINE cut == SubSeq(body, 1, total)
<1>1. body \in Seq(Byte) /\ Len(body) \in Nat /\ total \in Nat /\ total <= Len(body) /\ 1 \in Int /\ total \in Int
  BY LengthIs
<1>2. \A i \in 1 .. total : body[i] \in Byte
  BY <1>1
<1>3. /\ cut \in Seq(Byte) /\ Len(cut) = IF 1 <= total THEN total - 1 + 1 ELSE 0
      /\ \A i \in 1 .. total - 1 + 1 : cut[i] = body[1 + i - 1]
  BY <1>1, <1>2, SubSeqProperties
<1> HIDE DEF cut
<1>4. Len(cut) = total /\ \A i \in 1 .. total : i \in 1 .. total - 1 + 1 /\ 1 + i - 1 = i
  BY <1>1, <1>3
<1> QED
  BY <1>2, <1>3, <1>4 DEF Bytes, cut

LEMMA PartOfCut ==
  ASSUME NEW body \in Bytes, NEW total \in 0 .. Len(body), NEW o, NEW part,
         Part(body, o, part), o + Len(part) <= total
  PROVE  Part(SubSeq(body, 1, total), o, part)
<1> DEFINE cut == SubSeq(body, 1, total)
<1>1. /\ Len(cut) = total /\ total \in Nat
      /\ \A i \in 1 .. total : cut[i] = body[i] /\ body[i] \in Byte
  BY CutIs
<1> HIDE DEF cut
<1>2. part \in Bytes /\ o \in Nat /\ Len(part) \in Nat /\ At(body, o, part)
  BY LengthIs DEF Part
<1>3. ASSUME NEW i \in 1 .. Len(part) PROVE cut[o + i] = part[i]
  <2>1. o + i \in 1 .. total
    BY <1>1, <1>2
  <2> QED
    BY <1>1, <1>2, <2>1 DEF At
<1>4. Part(cut, o, part)
  BY <1>1, <1>2, <1>3 DEF Part, At
<1> QED
  BY <1>4 DEF cut

(* An integer needs all of its bytes.                                       *)
LEMMA VarIntOfCut ==
  ASSUME NEW body \in Bytes, NEW total \in 0 .. Len(body), NEW o \in Nat,
         NEW v \in Nat, v < Power[8], Part(body, o, PutVarInt(v))
  PROVE  LET L == Len(PutVarInt(v))
         IN  GetVarInt(SubSeq(body, 1, total), o, total - o) =
               IF total - o >= L THEN [value |-> v, shift |-> L] ELSE [value |-> -1, shift |-> 0]
<1> DEFINE L == Len(PutVarInt(v))
           cut == SubSeq(body, 1, total)
           max == total - o
<1>1. total \in Nat /\ max \in Int /\ L \in 1 .. 9 /\ o + max = total
  BY PutVarIntIs
<1>2. CASE max >= L
  <2>1. o + L <= total
    BY <1>1, <1>2
  <2>2. Part(cut, o, PutVarInt(v))
    BY <2>1, PartOfCut
  <2>3. At(cut, o, PutVarInt(v))
    BY <2>2 DEF Part
  <2> HIDE DEF cut, max, L
  <2>4. IF max >= Len(PutVarInt(v))
        THEN GetVarInt(cut, o, max) = [value |-> v, shift |-> Len(PutVarInt(v))]
        ELSE GetVarInt(cut, o, max) = [value |-> -1, shift |-> 0]
    BY <1>1, <2>3, VarIntIsRead
  <2> QED
    BY <1>2, <2>4 DEF cut, max, L
<1>3. CASE max < L /\ max <= 0
  <2> HIDE DEF cut, L
  <2>1. GetVarInt(cut, o, max) = [value |-> -1, shift |-> 0] /\ ~(max >= L)
    BY <1>1, <1>3 DEF GetVarInt
  <2> QED
    BY <2>1 DEF cut, L
<1>4. CASE max < L /\ max > 0
  <2>1. o + 1 \in 1 .. total
    BY <1>1, <1>4
  <2>2. cut[o + 1] = body[o + 1]
    BY <2>1, CutIs
  <2>3. At(body, o, PutVarInt(v))
    BY DEF Part
  <2> HIDE DEF cut, max, L
  <2>4. GetVarInt(body, o, max) = [value |-> -1, shift |-> 0]
    BY <1>1, <1>4, <2>3, VarIntIsRead DEF L
  <2>5. max < VarIntSize(body[o + 1]) + 1
    <3>1. SUFFICES ASSUME ~(max < VarIntSize(body[o + 1]) + 1) PROVE FALSE
      OBVIOUS
    <3> DEFINE size == VarIntSize(body[o + 1])
    <3>2. GetVarInt(body, o, max).shift = size + 1
      BY <1>1, <1>4, <3>1 DEF GetVarInt
    <3>3. body[o + 1] \in Byte
      BY <2>1, CutIs
    <3>4. size \in Nat
      BY <3>3, VarIntSizeIs
    <3> HIDE DEF size
    <3> QED
      BY <2>4, <3>2, <3>4
  <2>6. GetVarInt(cut, o, max) = [value |-> -1, shift |-> 0]
    BY <2>2, <2>5 DEF GetVarInt
  <2>7. ~(max >= L)
    BY <1>1, <1>4
  <2> QED
    BY <2>6, <2>7 DEF cut, max, L
<1> QED
  BY <1>1, <1>2, <1>3, <1>4

(* A call with the offset of a script, in an element that may be cut.       *)
LEMMA ScriptIsRead ==
  ASSUME NEW body \in Bytes, NEW total \in 0 .. Len(body), NEW o \in 0 .. total,
         NEW a \in CachedArgs, NEW next, Piece(body, o, a, next)
  PROVE  LET e == Element(Hdac, "i", SubSeq(body, 1, total))
         IN  GetCachedScript(e, Prefix + o) =
               IF o = total THEN NotCached("wrong")
               ELSE IF next <= total THEN Cached(Prefix + next, a[1], a[2])
               ELSE NotCached("error")
<1> DEFINE cut == SubSeq(body, 1, total)
           e == Element(Hdac, "i", cut)
           L == Len(SizeBytes(a[2]))
           v == Len(a[2])
           vin == Signed(GetLE(cut, o, 4), 4)
           size == GetVarInt(cut, o + 4, total - (o + 4))
           start == o + 4 + size.shift
<1>1. /\ a[1] \in Integer(4) /\ a[1] \in Nat /\ a[2] \in Bytes /\ v \in Nat /\ v < Power[8]
      /\ L \in 1 .. 9
  BY SizeBytesAre
<1>2. /\ Part(body, o, PutLE(a[1], 4)) /\ Part(body, o + 4, PutVarInt(v))
      /\ Part(body, o + 4 + L, a[2]) /\ next = o + 4 + L + v
  BY DEF Piece, SizeBytes
<1>3. total \in Nat /\ o \in Nat /\ o + 4 \in Nat /\ total <= Len(body) /\ Len(body) \in Nat
  BY LengthIs
<1>4. cut \in Bytes /\ Len(cut) = total
  BY CutIs
<1>5. size = IF total - (o + 4) >= L THEN [value |-> v, shift |-> L] ELSE [value |-> -1, shift |-> 0]
  <2> HIDE DEF v
  <2> QED
    BY <1>1, <1>2, <1>3, VarIntOfCut DEF SizeBytes, v
<1>6. total >= o + 4 => vin = a[1]
  <2> SUFFICES ASSUME total >= o + 4 PROVE vin = a[1]
    OBVIOUS
  <2>1. Len(PutLE(a[1], 4)) = 4
    BY <1>1, NumberBytes
  <2>2. Part(cut, o, PutLE(a[1], 4))
    BY <1>2, <1>3, <2>1, PartOfCut
  <2> HIDE DEF cut
  <2> QED
    BY <1>1, <1>3, <2>2, IntegerIsRead, WidthsAre
<1> HIDE DEF cut
<1>7. e.body = cut /\ Is(e, Hdac, "i")
  BY FormIs DEF Is
<1> HIDE DEF e, size, vin
<1> DEFINE at == Prefix + o
<1>8. /\ at # 0 /\ (Prefix + total = at <=> o = total)
      /\ at - Prefix = o /\ at - Prefix + 4 = o + 4
      /\ Prefix + total - at - 4 = total - (o + 4)
      /\ (Prefix + total < at + 4 <=> total < o + 4)
  BY <1>3 DEF Prefix
<1> HIDE DEF at
<1>9. GetCachedScript(e, at) =
        IF o = total THEN NotCached("wrong")
        ELSE IF total < o + 4 \/ vin < 0 THEN NotCached("error")
        ELSE IF size.value < 0 \/ start + size.value > total THEN NotCached("error")
        ELSE Cached(Prefix + start + size.value, vin, SubSeq(cut, start + 1, start + size.value))
  BY <1>4, <1>7, <1>8 DEF GetCachedScript, size, vin
<1>10. CASE o = total
  BY <1>9, <1>10 DEF at, e, cut
<1>11. CASE o # total /\ total < next
  <2>1. total < o + 4 \/ size.value < 0 \/ start + size.value > total
    <3>1. CASE total - (o + 4) >= L
      <4>1. size.value = v /\ size.shift = L
        BY <1>5, <3>1
      <4> HIDE DEF v, L
      <4> QED
        BY <1>1, <1>2, <1>3, <1>11, <4>1
    <3>2. CASE ~(total - (o + 4) >= L)
      <4>1. size.value = -1
        BY <1>5, <3>2
      <4> QED
        BY <4>1
    <3> QED
      BY <3>1, <3>2
  <2>2. GetCachedScript(e, at) = NotCached("error")
    BY <1>9, <1>11, <2>1
  <2>3. ~(next <= total)
    <3> HIDE DEF L, v
    <3> QED
      BY <1>1, <1>2, <1>3, <1>11
  <2> QED
    BY <1>11, <2>2, <2>3 DEF at, e, cut
<1>12. CASE next <= total
  <2> HIDE DEF L, v
  <2>1. total - (o + 4) >= L /\ ~(total < o + 4) /\ o # total
    BY <1>1, <1>2, <1>3, <1>12
  <2>2. size.value = v /\ size.shift = L
    BY <1>5, <2>1
  <2>3. /\ start = o + 4 + L /\ start + size.value = next /\ ~(size.value < 0)
        /\ ~(start + size.value > total) /\ Prefix + start + size.value = Prefix + next
    BY <1>1, <1>2, <1>3, <1>12, <2>2 DEF Prefix
  <2>4. vin = a[1] /\ ~(vin < 0)
    BY <1>1, <1>3, <1>6, <2>1
  <2>5. SubSeq(cut, start + 1, start + size.value) = a[2]
    <3>1. Part(cut, o + 4 + L, a[2])
      BY <1>2, <1>12, PartOfCut DEF cut, v
    <3>2. SubSeq(cut, (o + 4 + L) + 1, (o + 4 + L) + Len(a[2])) = a[2]
      BY <1>4, <3>1, PartIsRead
    <3>3. (o + 4 + L) + v = start + size.value
      BY <2>2, <2>3
    <3> QED
      BY <2>3, <3>2, <3>3 DEF v
  <2>6. GetCachedScript(e, at) = Cached(Prefix + next, a[1], a[2])
    BY <1>9, <2>1, <2>3, <2>4, <2>5
  <2> QED
    BY <1>12, <2>1, <2>6 DEF at, e, cut
<1>13. o = total \/ (o # total /\ total < next) \/ next <= total
  <2> HIDE DEF L, v
  <2> QED
    BY <1>1, <1>2, <1>3
<1> QED
  BY <1>10, <1>11, <1>12, <1>13

(* A function that grows at every step.                                     *)
LEMMA GrowsOn ==
  ASSUME NEW n \in Nat, NEW e \in [0 .. n -> Nat], \A i \in 1 .. n : e[i - 1] < e[i]
  PROVE  \A i, j \in 0 .. n : i < j => e[i] < e[j]
<1> SUFFICES ASSUME NEW i \in 0 .. n PROVE \A j \in 0 .. n : i < j => e[i] < e[j]
  OBVIOUS
<1> DEFINE T == {k \in Nat : i + k + 1 <= n => e[i] < e[i + k + 1]}
<1>1. 0 \in T
  <2> SUFFICES ASSUME i + 0 + 1 <= n PROVE e[i] < e[i + 0 + 1]
    OBVIOUS
  <2>1. i + 1 \in 1 .. n /\ (i + 1) - 1 = i /\ i + 0 + 1 = i + 1
    OBVIOUS
  <2> QED
    BY <2>1
<1>2. ASSUME NEW k \in Nat, k \in T PROVE k + 1 \in T
  <2> SUFFICES ASSUME i + (k + 1) + 1 <= n PROVE e[i] < e[i + (k + 1) + 1]
    OBVIOUS
  <2>1. /\ i + k + 1 <= n /\ i + k + 1 \in 0 .. n
        /\ i + (k + 1) + 1 \in 1 .. n /\ i + (k + 1) + 1 \in 0 .. n
        /\ (i + (k + 1) + 1) - 1 = i + k + 1
    OBVIOUS
  <2>2. e[i] < e[i + k + 1]
    BY <1>2, <2>1
  <2>3. e[i + k + 1] < e[i + (k + 1) + 1]
    BY <2>1
  <2> QED
    BY <2>1, <2>2, <2>3
<1>3. Nat \subseteq T
  <2> HIDE DEF T
  <2> QED
    BY <1>1, <1>2, AllNaturals
<1> SUFFICES ASSUME NEW j \in 0 .. n, i < j PROVE e[i] < e[j]
  OBVIOUS
<1>4. j - i - 1 \in Nat /\ i + (j - i - 1) + 1 = j
  OBVIOUS
<1>5. i + (j - i - 1) + 1 <= n => e[i] < e[i + (j - i - 1) + 1]
  BY <1>3, <1>4
<1> QED
  BY <1>4, <1>5

LEMMA CachedGrow ==
  ASSUME NEW body \in Bytes, NEW args \in Seq(CachedArgs), NEW e, IsCached(body, args, e)
  PROVE  /\ e \in [0 .. Len(args) -> Nat] /\ Len(args) \in Nat
         /\ \A i, j \in 0 .. Len(args) : i < j => e[i] < e[j]
         /\ \A i \in 1 .. Len(args) :
              e[i] = e[i - 1] + (4 + Len(PutVarInt(Len(args[i][2]))) + Len(args[i][2]))
<1> DEFINE n == Len(args)
           size(i) == 4 + Len(PutVarInt(Len(args[i][2]))) + Len(args[i][2])
<1>1. n \in Nat /\ e \in [0 .. n -> Nat]
  BY DEF IsCached
<1>2. ASSUME NEW i \in 1 .. n PROVE e[i] = e[i - 1] + size(i) /\ e[i - 1] < e[i]
  <2> DEFINE L == Len(PutVarInt(Len(args[i][2])))
             v == Len(args[i][2])
  <2>1. args[i] \in CachedArgs /\ i - 1 \in 0 .. n
    BY <1>1, ElementOfSeq
  <2>2. L \in 1 .. 9 /\ v \in Nat
    BY <2>1, SizeBytesAre DEF SizeBytes
  <2>3. e[i] = e[i - 1] + 4 + L + v
    BY DEF IsCached, Piece, SizeBytes
  <2> HIDE DEF L, v
  <2>4. e[i] = e[i - 1] + (4 + L + v) /\ e[i - 1] < e[i]
    <3>1. e[i - 1] \in Nat
      BY <1>1, <2>1
    <3>2. \A p, y \in Nat, x \in 1 .. 9 :
            p + 4 + x + y = p + (4 + x + y) /\ p < p + 4 + x + y
      OBVIOUS
    <3> QED
      BY <2>2, <2>3, <3>1, <3>2
  <2> QED
    BY <2>4 DEF L, v
<1>3. \A i, j \in 0 .. n : i < j => e[i] < e[j]
  <2>1. \A i \in 1 .. n : e[i - 1] < e[i]
    BY <1>2
  <2> HIDE DEF n
  <2> QED
    BY <1>1, <2>1, GrowsOn
<1> QED
  BY <1>1, <1>2, <1>3

(* The scripts that are whole are the first of them.                        *)
LEMMA WholeOnes ==
  ASSUME NEW n \in Nat, NEW e \in [0 .. n -> Nat], \A i, j \in 0 .. n : i < j => e[i] < e[j],
         e[0] = 0, NEW total \in 0 .. e[n]
  PROVE  \E k \in 0 .. n : /\ {i \in 1 .. n : e[i] <= total} = 1 .. k
                           /\ e[k] <= total /\ (k < n => total < e[k + 1])
                           /\ (\E i \in 0 .. n : e[i] = total) <=> e[k] = total
<1> DEFINE T == {j \in 0 .. n : j = n \/ total < e[j + 1]}
<1>1. T \in SUBSET Nat /\ n \in T
  OBVIOUS
<1>2. PICK k \in T : \A j \in T : k <= j
  <2> HIDE DEF T
  <2> QED
    BY <1>1, LeastNatural
<1>3. k \in 0 .. n /\ (k < n => total < e[k + 1])
  OBVIOUS
<1>4. e[k] <= total
  <2>1. CASE k = 0
    BY <2>1
  <2>2. CASE k # 0
    <3>1. k - 1 \in 0 .. n /\ k - 1 # n /\ (k - 1) + 1 = k /\ ~(k <= k - 1)
      BY <1>3, <2>2
    <3>2. k - 1 \notin T
      BY <1>2, <3>1
    <3>3. ~(total < e[k])
      BY <3>1, <3>2
    <3>4. e[k] \in Nat /\ total \in Nat
      BY <1>3
    <3> QED
      BY <3>3, <3>4
  <2> QED
    BY <2>1, <2>2
<1> HIDE DEF T
<1>5. ASSUME NEW i \in 0 .. n PROVE e[i] <= total <=> i <= k
  <2>1. CASE i <= k
    <3>1. i = k \/ i < k
      BY <1>3, <2>1
    <3>2. e[i] <= e[k]
      BY <1>3, <3>1
    <3> QED
      BY <1>3, <1>4, <2>1, <3>2
  <2>2. CASE ~(i <= k)
    <3>1. k + 1 \in 0 .. n /\ k < n /\ (i = k + 1 \/ k + 1 < i)
      BY <1>3, <2>2
    <3>2. e[k + 1] <= e[i]
      BY <3>1
    <3> QED
      BY <1>3, <2>2, <3>1, <3>2
  <2> QED
    BY <2>1, <2>2
<1>6. {i \in 1 .. n : e[i] <= total} = 1 .. k
  BY <1>3, <1>5
<1>7. ASSUME NEW i \in 0 .. n, e[i] = total PROVE e[k] = total
  <2>1. i <= k
    BY <1>5, <1>7
  <2>2. i = k \/ i < k
    BY <1>3, <2>1
  <2>3. e[i] <= e[k]
    BY <1>3, <2>2
  <2> QED
    BY <1>3, <1>4, <1>7, <2>3
<1> QED
  BY <1>3, <1>4, <1>6, <1>7

LEMMA WalkedInOrder ==
  ASSUME NEW body \in Bytes, NEW args \in Seq(CachedArgs), NEW e, IsCached(body, args, e),
         NEW total \in 0 .. Len(body), NEW k \in 0 .. Len(args), e[k] <= total,
         k < Len(args) => total < e[k + 1]
  PROVE  CachedFrom(Element(Hdac, "i", SubSeq(body, 1, total))) =
           [scripts |-> [i \in 1 .. k |-> args[i]],
            err     |-> IF e[k] = total THEN "wrong" ELSE "error"]
<1> DEFINE cut == SubSeq(body, 1, total)
           el == Element(Hdac, "i", cut)
           n == Len(args)
           end == IF e[k] = total THEN "wrong" ELSE "error"
           From1(j) == [i \in 1 .. j |-> args[k - j + i]]
<1>1. /\ n \in Nat /\ e \in [0 .. n -> Nat] /\ \A i, j \in 0 .. n : i < j => e[i] < e[j]
      /\ e[0] = 0 /\ e[n] = Len(body) /\ \A i \in 1 .. n : Piece(body, e[i - 1], args[i], e[i])
  BY CachedGrow DEF IsCached
<1> HIDE DEF n
<1>2. PICK walk : /\ CachedFrom(el) = walk[Prefix]
                  /\ \A o \in Nat : walk[o] = Round(el, o, walk[GetCachedScript(el, o).next])
  <2>1. cut \in Bytes
    BY CutIs
  <2> HIDE DEF cut
  <2> QED
    BY <2>1, CachedFromIs
<1>3. /\ total \in Nat /\ Len(body) \in Nat /\ total <= Len(body) /\ k \in Nat /\ k <= n
      /\ \A i \in 1 .. k : e[i] <= total /\ e[i - 1] < total /\ i \in 1 .. n
  <2>1. total \in Nat /\ Len(body) \in Nat /\ total <= Len(body) /\ k \in Nat /\ k <= n /\ k \in 0 .. n
    BY <1>1, LengthIs DEF n
  <2>2. ASSUME NEW i \in 1 .. k PROVE e[i] <= total /\ e[i - 1] < total /\ i \in 1 .. n
    <3>1. i \in 1 .. n /\ i \in 0 .. n /\ i - 1 \in 0 .. n /\ i - 1 < i /\ (i = k \/ i < k)
      BY <1>1, <2>1
    <3>2. e[i - 1] \in Nat /\ e[i] \in Nat /\ e[k] \in Nat
      BY <1>1, <2>1, <3>1
    <3>3. e[i - 1] < e[i]
      BY <1>1, <3>1
    <3>4. i < k => e[i] < e[k]
      BY <1>1, <2>1, <3>1
    <3> QED
      BY <2>1, <3>1, <3>2, <3>3, <3>4
  <2> QED
    BY <2>1, <2>2
<1>4. walk[Prefix + e[k]] = [scripts |-> <<>>, err |-> end]
  <2> DEFINE o == e[k]
  <2>1. o \in 0 .. total
    BY <1>1, <1>3 DEF n
  <2>2. Prefix + o \in Nat
    BY <2>1 DEF Prefix
  <2>3. GetCachedScript(el, Prefix + o) = NotCached(end)
    <3>1. CASE k = n
      <4>1. total = Len(body) /\ o = total
        BY <1>1, <1>3, <2>1, <3>1
      <4>2. Len(cut) = total
        BY CutIs
      <4> HIDE DEF cut, o
      <4>3. /\ el.body = cut /\ Is(el, Hdac, "i") /\ Prefix + o # 0 /\ Prefix + Len(cut) = Prefix + o
        BY <2>1, <4>1, <4>2, FormIs DEF Is, Prefix
      <4>4. GetCachedScript(el, Prefix + o) = NotCached("wrong")
        BY <4>3 DEF GetCachedScript
      <4>5. end = "wrong"
        BY <4>1 DEF o
      <4> QED
        BY <4>4, <4>5
    <3>2. CASE k # n
      <4>1. k + 1 \in 1 .. n /\ (k + 1) - 1 = k /\ k < n
        BY <1>1, <1>3, <3>2
      <4>2. Piece(body, o, args[k + 1], e[k + 1]) /\ args[k + 1] \in CachedArgs /\ total < e[k + 1]
        BY <1>1, <4>1, ElementOfSeq DEF n
      <4>3. GetCachedScript(el, Prefix + o) =
              IF o = total THEN NotCached("wrong")
              ELSE IF e[k + 1] <= total THEN Cached(Prefix + e[k + 1], args[k + 1][1], args[k + 1][2])
              ELSE NotCached("error")
        BY <2>1, <4>2, ScriptIsRead
      <4>4. ~(e[k + 1] <= total)
        BY <1>1, <1>3, <4>1, <4>2
      <4> QED
        BY <4>3, <4>4
    <3> QED
      BY <3>1, <3>2
  <2> HIDE DEF el, o
  <2>4. NotCached(end).err = end /\ end # "none"
    BY DEF NotCached
  <2> HIDE DEF end
  <2>5. Round(el, Prefix + o, walk[GetCachedScript(el, Prefix + o).next]) = [scripts |-> <<>>, err |-> end]
    BY <2>3, <2>4 DEF Round
  <2> QED
    BY <1>2, <2>2, <2>5 DEF o
<1> HIDE DEF end
<1>5. ASSUME NEW i \in 1 .. k, NEW y, walk[Prefix + e[i]] = [scripts |-> y, err |-> end]
      PROVE  walk[Prefix + e[i - 1]] = [scripts |-> <<args[i]>> \o y, err |-> end]
  <2> DEFINE o == e[i - 1]
             a == args[i]
  <2>1. /\ i \in 1 .. n /\ i - 1 \in 0 .. n /\ o \in 0 .. total /\ o # total /\ e[i] <= total
        /\ Piece(body, o, a, e[i]) /\ a \in CachedArgs
    <3>1. i \in 1 .. n /\ i - 1 \in 0 .. n
      BY <1>1, <1>3
    <3>2. a \in CachedArgs
      BY <3>1, ElementOfSeq DEF n
    <3>3. e[i - 1] \in Nat /\ e[i - 1] < total /\ e[i] <= total
      BY <1>1, <1>3, <3>1
    <3>4. Piece(body, o, a, e[i])
      BY <1>1, <3>1
    <3> HIDE DEF a
    <3> QED
      BY <1>3, <3>1, <3>2, <3>3, <3>4
  <2> HIDE DEF o, a
  <2>2. GetCachedScript(el, Prefix + o) = Cached(Prefix + e[i], a[1], a[2])
    <3>1. GetCachedScript(el, Prefix + o) =
            IF o = total THEN NotCached("wrong")
            ELSE IF e[i] <= total THEN Cached(Prefix + e[i], a[1], a[2])
            ELSE NotCached("error")
      BY <2>1, ScriptIsRead
    <3> QED
      BY <2>1, <3>1
  <2>3. Prefix + o \in Nat
    BY <2>1 DEF Prefix
  <2>4. a = <<a[1], a[2]>>
    BY <2>1, SizeBytesAre
  <2> HIDE DEF el
  <2>5. walk[Prefix + o] = MoreScripts(a, walk[Prefix + e[i]])
    <3> DEFINE got == GetCachedScript(el, Prefix + o)
    <3>1. got.err = "none" /\ got.next = Prefix + e[i] /\ got.vin = a[1] /\ got.script = a[2]
      BY <2>2 DEF Cached
    <3>2. walk[Prefix + o] = Round(el, Prefix + o, walk[got.next])
      BY <1>2, <2>3
    <3>3. Round(el, Prefix + o, walk[got.next]) = MoreScripts(<<got.vin, got.script>>, walk[got.next])
      BY <3>1 DEF Round
    <3> HIDE DEF got
    <3>4. <<got.vin, got.script>> = a
      BY <2>4, <3>1
    <3> QED
      BY <3>1, <3>2, <3>3, <3>4
  <2>6. walk[Prefix + o] = [scripts |-> <<a>> \o y, err |-> end]
    <3> DEFINE w == walk[Prefix + e[i]]
    <3>1. w = [scripts |-> y, err |-> end] /\ walk[Prefix + o] = MoreScripts(a, w)
      BY <1>5, <2>5
    <3> HIDE DEF w
    <3> QED
      BY SMTT(30), <3>1, MoreScriptsAre
  <2> QED
    BY <2>6 DEF o, a
<1> DEFINE T == {j \in Nat : j <= k => walk[Prefix + e[k - j]] = [scripts |-> From1(j), err |-> end]}
<1>6. 0 \in T
  <2>1. From1(0) = <<>> /\ k - 0 = k
    BY <1>3
  <2> QED
    BY <1>4, <2>1
<1>7. ASSUME NEW j \in Nat, j \in T PROVE j + 1 \in T
  <2> SUFFICES ASSUME j + 1 <= k
               PROVE  walk[Prefix + e[k - (j + 1)]] = [scripts |-> From1(j + 1), err |-> end]
    OBVIOUS
  <2>1. /\ j <= k /\ k - j \in 1 .. k /\ (k - j) - 1 = k - (j + 1)
    BY <1>3
  <2>2. walk[Prefix + e[k - j]] = [scripts |-> From1(j), err |-> end]
    BY <1>7, <2>1
  <2> HIDE DEF From1
  <2>3. walk[Prefix + e[k - (j + 1)]] = [scripts |-> <<args[k - j]>> \o From1(j), err |-> end]
    BY <1>5, <2>1, <2>2
  <2>4. <<args[k - j]>> \o From1(j) = From1(j + 1)
    <3> DEFINE s == <<args[k - j]>>
               t == From1(j)
               u == From1(j + 1)
    <3>1. \A i \in 1 .. k : args[i] \in CachedArgs
      BY <1>3, ElementOfSeq DEF n
    <3>2. \A i \in 1 .. j : k - j + i \in 1 .. k
      BY <1>3, <2>1
    <3>3. \A i \in 1 .. j + 1 : k - (j + 1) + i \in 1 .. k
      BY <1>3, <2>1
    <3>4. s \in Seq(CachedArgs) /\ Len(s) = 1 /\ s[1] = args[k - j]
      BY <2>1, <3>1
    <3>5. t \in Seq(CachedArgs) /\ Len(t) = j /\ \A i \in 1 .. j : t[i] = args[k - j + i]
      BY <3>1, <3>2 DEF From1
    <3>6. u \in Seq(CachedArgs) /\ Len(u) = j + 1 /\ \A i \in 1 .. j + 1 : u[i] = args[k - (j + 1) + i]
      BY <3>1, <3>3 DEF From1
    <3> HIDE DEF s, t, u
    <3>7. /\ s \o t \in Seq(CachedArgs) /\ Len(s \o t) = Len(s) + Len(t)
          /\ \A i \in 1 .. Len(s) + Len(t) : (s \o t)[i] = IF i <= Len(s) THEN s[i] ELSE t[i - Len(s)]
      BY ZenonT(30), <3>4, <3>5, ConcatProperties
    <3>8. Len(s \o t) = j + 1
      BY <3>4, <3>5, <3>7
    <3>9. ASSUME NEW i \in 1 .. j + 1 PROVE (s \o t)[i] = u[i]
      <4>1. CASE i = 1
        <5>1. k - (j + 1) + i = k - j /\ i <= 1 /\ i \in 1 .. 1 + j
          BY <1>3, <4>1
        <5> QED
          BY <3>4, <3>5, <3>6, <3>7, <4>1, <5>1
      <4>2. CASE i # 1
        <5>1. /\ i - 1 \in 1 .. j /\ ~(i <= 1) /\ i \in 1 .. 1 + j
              /\ k - j + (i - 1) = k - (j + 1) + i
          BY <1>3, <3>9, <4>2
        <5>2. (s \o t)[i] = t[i - 1]
          BY <3>4, <3>5, <3>7, <5>1
        <5> QED
          BY <3>5, <3>6, <5>1, <5>2
      <4> QED
        BY <4>1, <4>2
    <3> QED
      BY <3>6, <3>7, <3>8, <3>9, SeqEqual DEF s, t, u
  <2> QED
    BY <2>3, <2>4
<1>8. k \in T
  <2> HIDE DEF T
  <2>1. Nat \subseteq T
    BY <1>6, <1>7, AllNaturals
  <2> QED
    BY <1>3, <2>1
<1>9. walk[Prefix + e[0]] = [scripts |-> From1(k), err |-> end]
  <2>1. k <= k /\ k - k = 0
    BY <1>3
  <2> HIDE DEF From1
  <2> QED
    BY <1>8, <2>1
<1>10. From1(k) = [i \in 1 .. k |-> args[i]]
  <2>1. \A i \in 1 .. k : k - k + i = i
    BY <1>3
  <2> QED
    BY <2>1
<1>11. Prefix + e[0] = Prefix
  BY <1>1 DEF Prefix
<1> QED
  BY <1>2, <1>9, <1>10, <1>11 DEF end

LEMMA CachedInOrder == WrittenInv => CachedScriptsInOrder
<1> SUFFICES ASSUME WrittenInv, written.call = "CachedScript" PROVE CachedScriptsInOrder
  BY DEF CachedScriptsInOrder
<1> DEFINE body == element.body
           args == written.args
           n == Len(args)
           size(i) == 4 + Len(PutVarInt(Len(args[i][2]))) + Len(args[i][2])
<1>1. body \in Bytes /\ args \in Seq(CachedArgs) /\ \E ends : IsCached(body, args, ends)
  BY DEF WrittenInv, WrittenBy
<1>2. PICK e : IsCached(body, args, e)
  BY <1>1
<1> HIDE DEF body, args
<1>3. /\ n \in Nat /\ e \in [0 .. n -> Nat] /\ \A i, j \in 0 .. n : i < j => e[i] < e[j]
      /\ \A i \in 1 .. n : e[i] = e[i - 1] + size(i)
  BY ZenonT(30), <1>1, <1>2, CachedGrow
<1>4. e[0] = 0 /\ e[n] = Len(body) /\ Len(body) \in Nat
  BY <1>1, <1>2, LengthIs DEF IsCached
<1> HIDE DEF n, size
<1>5. e = [i \in 0 .. n |-> IF i = 0 THEN 0 ELSE e[i - 1] + size(i)]
  <2>1. \A i \in 0 .. n : e[i] = IF i = 0 THEN 0 ELSE e[i - 1] + size(i)
    BY <1>3, <1>4
  <2>2. e = [i \in 0 .. n |-> e[i]]
    BY <1>3
  <2> QED
    BY <2>1, <2>2
<1> DEFINE end[i \in 0 .. Len(args)] == IF i = 0 THEN 0 ELSE end[i - 1] + size(i)
<1>6. end = [i \in 0 .. n |-> IF i = 0 THEN 0 ELSE end[i - 1] + size(i)]
  BY <1>5 DEF n
<1> HIDE DEF end
<1> DEFINE T == {i \in Nat : i <= n => end[i] = e[i]}
<1>7. 0 \in T
  BY <1>3, <1>4, <1>6
<1>8. ASSUME NEW i \in Nat, i \in T PROVE i + 1 \in T
  <2> SUFFICES ASSUME i + 1 <= n PROVE end[i + 1] = e[i + 1]
    OBVIOUS
  <2>1. i + 1 \in 0 .. n /\ i + 1 # 0 /\ (i + 1) - 1 = i /\ i + 1 \in 1 .. n /\ end[i] = e[i]
    BY <1>3, <1>8
  <2> QED
    BY <1>3, <1>6, <2>1
<1>9. \A i \in 0 .. n : end[i] = e[i]
  <2> HIDE DEF T
  <2>1. Nat \subseteq T
    BY <1>7, <1>8, AllNaturals
  <2> QED
    BY <2>1 DEF T
<1>10. DOMAIN end = 0 .. n
  BY <1>6
<1>11. ASSUME NEW total \in 0 .. Len(body)
       PROVE  LET whole == {i \in 1 .. Len(args) : end[i] <= total}
                  read == CachedFrom(Element(Hdac, "i", SubSeq(body, 1, total)))
              IN  /\ read.scripts = [i \in whole |-> args[i]]
                  /\ read.err = IF \E i \in DOMAIN end : end[i] = total THEN "wrong" ELSE "error"
  <2> DEFINE read == CachedFrom(Element(Hdac, "i", SubSeq(body, 1, total)))
             whole == {i \in 1 .. n : end[i] <= total}
             at == \E i \in DOMAIN end : end[i] = total
  <2>1. PICK k \in 0 .. n : /\ {i \in 1 .. n : e[i] <= total} = 1 .. k
                            /\ e[k] <= total /\ (k < n => total < e[k + 1])
                            /\ (\E i \in 0 .. n : e[i] = total) <=> e[k] = total
    <3>1. total \in 0 .. e[n]
      BY <1>4
    <3> QED
      BY <1>3, <1>4, <3>1, WholeOnes
  <2>2. whole = 1 .. k /\ (at <=> e[k] = total)
    <3>1. whole = {i \in 1 .. n : e[i] <= total}
      BY <1>3, <1>9
    <3>2. at <=> \E i \in 0 .. n : e[i] = total
      BY <1>9, <1>10
    <3> HIDE DEF whole, at
    <3> QED
      BY <2>1, <3>1, <3>2
  <2> HIDE DEF at, whole
  <2>3. read = [scripts |-> [i \in 1 .. k |-> args[i]],
                err     |-> IF e[k] = total THEN "wrong" ELSE "error"]
    BY <1>1, <1>2, <2>1, WalkedInOrder DEF n
  <2> HIDE DEF read
  <2>4. read.scripts = [i \in 1 .. k |-> args[i]] /\ read.err = IF e[k] = total THEN "wrong" ELSE "error"
    BY <2>3
  <2>5. read.scripts = [i \in whole |-> args[i]]
    BY <2>2, <2>4
  <2>6. read.err = IF at THEN "wrong" ELSE "error"
    BY <2>2, <2>4
  <2> QED
    BY <2>5, <2>6 DEF read, whole, at, n
<1> QED
  BY <1>11 DEF CachedScriptsInOrder, end, size, body, args

(* A reader of the cached scripts gets those that were appended, in order,  *)
(* with their inputs, and then the end; of an element that is cut it gets   *)
(* those that are whole, and an error unless the cut is between two: for    *)
(* any number of scripts, of any size an int of eight bytes can hold        *)
(* (hdacscript.cpp:1697-1816).                                              *)
THEOREM CachedScriptsAreReadInOrder == TypedSpec => []CachedScriptsInOrder
<1> QED
  BY WrittenInvariance, CachedInOrder, PTL

-----------------------------------------------------------------------------
(* What is read can be written again: numbers, and bytes next to each other.*)
(* A number that is, modulo its width, the one read has the bytes read.     *)
LEMMA WrittenAgain ==
  ASSUME NEW s \in Bytes, NEW o \in Nat, NEW size \in Nat, o + size <= Len(s)
  PROVE  /\ GetLE(s, o, size) \in Unsigned(size)
         /\ \A v \in Int : v % Power[size] = GetLE(s, o, size) => Part(s, o, PutLE(v, size))
<1>1. \A i \in 1 .. size : s[o + i] \in Byte /\ s[o + i] \in Nat /\ s[o + i] <= Radix - 1
  <2>1. s \in Seq(Byte) /\ Len(s) \in Nat
    BY LengthIs
  <2>2. \A i \in 1 .. size : o + i \in 1 .. Len(s)
    BY <2>1
  <2>3. \A i \in 1 .. size : s[o + i] \in Byte
    BY <2>1, <2>2, ElementOfSeq
  <2> QED
    BY SMTT(30), <2>3, RadixIs
<1>2. AreBytes(s, o, size)
  BY <1>1 DEF AreBytes
<1>3. PICK sum : IsSum(s, o, size, sum) /\ GetLE(s, o, size) = sum[size]
  BY <1>2, GetLEIs
<1>4. ASSUME NEW i \in Nat, i < size
      PROVE  /\ sum[i] \in Nat /\ sum[i + 1] = sum[i] + s[o + i + 1] * Power[i]
             /\ s[o + i + 1] \in Nat /\ s[o + i + 1] <= Radix - 1
             /\ Power[i] \in Nat \ {0} /\ Power[i + 1] = Radix * Power[i]
  <2>1. i \in 0 .. size /\ i + 1 \in 1 .. size /\ o + (i + 1) = o + i + 1
    BY <1>4
  <2> QED
    BY <1>1, <1>3, <1>4, <2>1, PowerIs DEF IsSum
<1> DEFINE T == {i \in Nat : i <= size => sum[i] \in 0 .. Power[i] - 1}
<1>5. 0 \in T
  <2>1. sum[0] = 0 /\ Power[0] = 1 /\ 0 \in 0 .. 1 - 1
    BY <1>3, PowerIs DEF IsSum
  <2>2. sum[0] \in 0 .. Power[0] - 1
    BY <2>1
  <2> QED
    BY <2>2
<1>6. ASSUME NEW i \in Nat, i \in T PROVE i + 1 \in T
  <2> SUFFICES ASSUME i + 1 <= size PROVE sum[i + 1] \in 0 .. Power[i + 1] - 1
    OBVIOUS
  <2>1. i < size /\ sum[i] \in 0 .. Power[i] - 1
    BY <1>6
  <2> DEFINE P == Power[i]
             b == s[o + i + 1]
  <2>2. /\ sum[i + 1] = sum[i] + b * P /\ b \in Nat /\ b <= Radix - 1 /\ P \in Nat \ {0}
        /\ Power[i + 1] = Radix * P /\ sum[i] \in 0 .. P - 1 /\ Radix \in Nat
    BY <1>4, <2>1, RadixIs
  <2> HIDE DEF P, b
  <2>3. b * P \in Nat /\ b * P <= (Radix - 1) * P /\ (Radix - 1) * P = Radix * P - P /\ Radix * P \in Nat
    <3>1. (Radix - 1) - b \in Nat /\ Radix - 1 = b + ((Radix - 1) - b)
      BY <2>2
    <3>2. ((Radix - 1) - b) * P \in Nat /\ b * P \in Nat /\ Radix * P \in Nat
      BY <2>2, <3>1
    <3>3. (Radix - 1) * P = b * P + ((Radix - 1) - b) * P /\ (Radix - 1) * P = Radix * P - P
      BY <2>2, <3>1
    <3> QED
      BY <3>2, <3>3
  <2>4. sum[i] \in Nat /\ sum[i] <= P - 1 /\ P \in Nat
    BY ONLY <2>2
  <2>5. sum[i] + b * P \in Nat /\ sum[i] + b * P <= Radix * P - 1
    BY ONLY <2>3, <2>4
  <2> QED
    BY ONLY <2>2, <2>3, <2>5
<1>7. \A i \in 0 .. size : sum[i] \in 0 .. Power[i] - 1
  <2> HIDE DEF T
  <2>1. Nat \subseteq T
    BY <1>5, <1>6, AllNaturals
  <2> QED
    BY <2>1 DEF T
<1>8. GetLE(s, o, size) \in Unsigned(size)
  BY <1>3, <1>7 DEF Unsigned
<1>9. ASSUME NEW v \in Int, v % Power[size] = GetLE(s, o, size) PROVE Part(s, o, PutLE(v, size))
  <2>1. ASSUME NEW i \in Nat, i < size, v % Power[i + 1] = sum[i + 1]
        PROVE  v % Power[i] = sum[i] /\ (v \div Power[i]) % Radix = s[o + i + 1]
    <3> DEFINE P == Power[i]
               b == s[o + i + 1]
               d == (v \div P) % Radix
               r == v % P
    <3>1. /\ sum[i + 1] = sum[i] + b * P /\ b \in Nat /\ P \in Nat \ {0} /\ Power[i + 1] = Radix * P
          /\ sum[i] \in 0 .. P - 1
      BY <1>4, <1>7, <2>1
    <3>2. v % (Radix * P) = r + d * P
      <4>1. Radix \in Nat \ {0} /\ P \in Nat \ {0}
        BY <3>1, RadixIs
      <4> HIDE DEF P
      <4> QED
        BY ONLY <4>1, NextDigit, v \in Int
    <3>3. r \in 0 .. P - 1 /\ d \in Int
      <4> HIDE DEF P
      <4>1. v \div P \in Int /\ v % P \in 0 .. P - 1
        BY <3>1
      <4> QED
        BY <4>1, RadixIs
    <3> HIDE DEF P, b, d, r
    <3>4. WithDigit(r, d, P) = WithDigit(sum[i], b, P)
      BY <2>1, <3>1, <3>2 DEF WithDigit
    <3>5. r = sum[i] /\ d = b
      <4>1. b \in Int
        BY <3>1
      <4> QED
        BY <3>1, <3>3, <3>4, <4>1, SameDigit
    <3> QED
      BY <3>5 DEF P, b, d, r
  <2> DEFINE U == {j \in Nat : j <= size => v % Power[size - j] = sum[size - j]}
  <2>2. 0 \in U
    BY <1>3, <1>9
  <2>3. ASSUME NEW j \in Nat, j \in U PROVE j + 1 \in U
    <3> SUFFICES ASSUME j + 1 <= size PROVE v % Power[size - (j + 1)] = sum[size - (j + 1)]
      OBVIOUS
    <3>1. size - (j + 1) \in Nat /\ size - (j + 1) < size /\ size - (j + 1) + 1 = size - j
      OBVIOUS
    <3>2. v % Power[size - j] = sum[size - j]
      BY <2>3
    <3> QED
      BY <2>1, <3>1, <3>2
  <2>4. \A i \in 0 .. size : v % Power[i] = sum[i]
    <3> HIDE DEF U
    <3>1. Nat \subseteq U
      BY <2>2, <2>3, AllNaturals
    <3>2. \A i \in 0 .. size : size - i \in Nat /\ size - i <= size /\ size - (size - i) = i
      OBVIOUS
    <3> QED
      BY <3>1, <3>2 DEF U
  <2>5. ASSUME NEW i \in 1 .. size PROVE s[o + i] = PutLE(v, size)[i]
    <3>1. i - 1 \in Nat /\ i - 1 < size /\ (i - 1) + 1 = i /\ o + (i - 1) + 1 = o + i
      OBVIOUS
    <3>2. (v \div Power[i - 1]) % Radix = s[o + i]
      BY <2>1, <2>4, <3>1
    <3> QED
      BY <3>2 DEF PutLE
  <2>6. PutLE(v, size) \in Bytes /\ Len(PutLE(v, size)) = size
    BY PutLEIs DEF Bytes
  <2> QED
    BY <2>5, <2>6 DEF Part, At
<1> QED
  BY <1>8, <1>9

LEMMA UnsignedAgain ==
  ASSUME NEW s \in Bytes, NEW o \in Nat, NEW size \in Nat, o + size <= Len(s)
  PROVE  /\ GetLE(s, o, size) \in Unsigned(size) /\ GetLE(s, o, size) \in Int
         /\ Part(s, o, PutLE(GetLE(s, o, size), size))
<1> DEFINE v == GetLE(s, o, size)
<1>1. v \in Unsigned(size)
  BY WrittenAgain
<1> HIDE DEF v
<1>2. v \in Nat /\ v < Power[size] /\ Power[size] \in Nat
  <2>1. Power[size] \in Nat
    BY PowerIs
  <2>2. v \in 0 .. Power[size] - 1
    BY <1>1 DEF Unsigned
  <2> QED
    BY <2>1, <2>2
<1>3. v % Power[size] = v
  <2>1. \A x, n \in Nat : x < n => x % n = x
    OBVIOUS
  <2> QED
    BY <1>2, <2>1
<1> QED
  BY <1>1, <1>2, <1>3, WrittenAgain DEF v

LEMMA SignedAgain ==
  ASSUME NEW s \in Bytes, NEW o \in Nat, NEW size \in Nat, o + size <= Len(s)
  PROVE  /\ Signed(GetLE(s, o, size), size) \in Int
         /\ Part(s, o, PutLE(Signed(GetLE(s, o, size), size), size))
<1> DEFINE v == GetLE(s, o, size)
           w == Signed(v, size)
           P == Power[size]
<1>1. v \in Unsigned(size)
  BY WrittenAgain
<1>2. P \in Nat \ {0}
  BY PowerIs
<1>3. v \in 0 .. P - 1 /\ (w = v - P \/ w = v)
  BY <1>1 DEF Unsigned, Signed
<1> HIDE DEF v, w, P
<1>4. w \in Int /\ (w = P * (-1) + v \/ w = P * 0 + v)
  <2>1. P \in Int /\ v \in Int
    BY <1>2, <1>3
  <2> QED
    BY <1>3, <2>1
<1>5. w % P = v
  <2>1. -1 \in Int /\ 0 \in Int
    OBVIOUS
  <2> QED
    BY <1>2, <1>3, <1>4, <2>1, ModUnique
<1> QED
  BY <1>4, <1>5, WrittenAgain DEF v, w, P

LEMMA ByteAgain ==
  ASSUME NEW s \in Bytes, NEW o \in Nat, o < Len(s)
  PROVE  s[o + 1] \in Byte /\ s[o + 1] % Radix = s[o + 1] /\ Part(s, o, <<s[o + 1]>>)
<1> DEFINE b == s[o + 1]
<1>1. b \in Byte
  <2>1. o + 1 \in 1 .. Len(s)
    BY LengthIs
  <2> QED
    BY <2>1, LengthIs, ElementOfSeq
<1>2. b % Radix = b
  BY <1>1, ByteIsItself
<1>3. <<b>> \in Bytes /\ Len(<<b>>) = 1
  BY <1>1, OneByte
<1>4. \A i \in 1 .. 1 : s[o + i] = <<b>>[i]
  OBVIOUS
<1>5. o + 1 <= Len(s)
  BY LengthIs
<1> HIDE DEF b
<1>6. Part(s, o, <<b>>)
  BY <1>3, <1>4, <1>5 DEF Part, At
<1> QED
  BY <1>1, <1>2, <1>6 DEF b

LEMMA CutAgain ==
  ASSUME NEW s \in Bytes, NEW o \in Nat, NEW k \in Nat, o <= k, k <= Len(s)
  PROVE  /\ SubSeq(s, o + 1, k) \in Bytes /\ Len(SubSeq(s, o + 1, k)) = k - o
         /\ Part(s, o, SubSeq(s, o + 1, k))
<1> DEFINE sub == SubSeq(s, o + 1, k)
<1>1. s \in Seq(Byte) /\ Len(s) \in Nat
  BY LengthIs
<1>2. \A i \in o + 1 .. k : i \in 1 .. Len(s) /\ s[i] \in Byte
  <2>1. \A i \in o + 1 .. k : i \in 1 .. Len(s)
    BY <1>1
  <2> QED
    BY <1>1, <2>1, ElementOfSeq
<1>3. /\ sub \in Seq(Byte) /\ Len(sub) = IF o + 1 <= k THEN k - (o + 1) + 1 ELSE 0
      /\ \A i \in 1 .. k - (o + 1) + 1 : sub[i] = s[o + 1 + i - 1]
  <2>1. o + 1 \in Int /\ k \in Int
    OBVIOUS
  <2> QED
    BY <1>2, <2>1, SubSeqProperties
<1> HIDE DEF sub
<1>4. Len(sub) = k - o /\ o + (k - o) <= Len(s)
  BY <1>3
<1>5. \A i \in 1 .. k - o : s[o + i] = sub[i]
  <2>1. \A i \in 1 .. k - o : i \in 1 .. k - (o + 1) + 1 /\ o + 1 + i - 1 = o + i
    OBVIOUS
  <2> QED
    BY <1>3, <2>1
<1> QED
  BY <1>3, <1>4, <1>5 DEF Bytes, Part, At, sub

LEMMA JoinedParts ==
  ASSUME NEW s \in Bytes, NEW o \in Nat, NEW a, NEW b, NEW k, Part(s, o, a), k = o + Len(a), Part(s, k, b)
  PROVE  /\ a \o b \in Bytes /\ Len(a \o b) = Len(a) + Len(b)
         /\ Part(s, o, a \o b) /\ o + Len(a \o b) = k + Len(b)
<1> DEFINE c == a \o b
<1>1. a \in Bytes /\ b \in Bytes /\ Len(a) \in Nat /\ Len(b) \in Nat /\ Len(s) \in Nat
      /\ k + Len(b) <= Len(s)
  BY LengthIs DEF Part
<1>2. /\ c \in Bytes /\ Len(c) = Len(a) + Len(b)
      /\ \A i \in 1 .. Len(a) + Len(b) : c[i] = IF i <= Len(a) THEN a[i] ELSE b[i - Len(a)]
  BY <1>1, ConcatProperties DEF Bytes
<1> HIDE DEF c
<1>3. ASSUME NEW i \in 1 .. Len(c) PROVE s[o + i] = c[i]
  <2>1. CASE i <= Len(a)
    <3>1. i \in 1 .. Len(a) /\ i \in 1 .. Len(a) + Len(b)
      BY <1>1, <1>2, <2>1
    <3> QED
      BY <1>2, <2>1, <3>1 DEF Part, At
  <2>2. CASE ~(i <= Len(a))
    <3>1. i - Len(a) \in 1 .. Len(b) /\ i \in 1 .. Len(a) + Len(b) /\ k + (i - Len(a)) = o + i
      BY <1>1, <1>2, <2>2
    <3> QED
      BY <1>2, <2>2, <3>1 DEF Part, At
  <2> QED
    BY <2>1, <2>2
<1>4. o + Len(c) <= Len(s) /\ o + Len(c) = k + Len(b)
  BY <1>1, <1>2
<1> QED
  BY <1>2, <1>3, <1>4 DEF Part, At, c

LEMMA AllOfIt ==
  ASSUME NEW s \in Bytes, NEW a, Part(s, 0, a), Len(a) = Len(s)
  PROVE  s = a
<1>1. s \in Seq(Byte) /\ a \in Seq(Byte) /\ Len(s) \in Nat
  BY LengthIs DEF Part
<1>2. \A i \in 1 .. Len(s) : s[i] = a[i]
  <2>1. \A i \in 1 .. Len(a) : 0 + i = i
    OBVIOUS
  <2> QED
    BY <2>1 DEF Part, At
<1> QED
  BY <1>1, <1>2, SeqEqual

LEMMA TwoTogether ==
  ASSUME NEW s \in Bytes, NEW a, NEW b, Part(s, 0, a), Part(s, Len(a), b), Len(s) = Len(a) + Len(b)
  PROVE  s = a \o b
<1>1. Len(a) \in Nat /\ 0 \in Nat /\ Len(a) = 0 + Len(a)
  BY LengthIs DEF Part
<1>2. Part(s, 0, a \o b) /\ Len(a \o b) = Len(a) + Len(b)
  BY <1>1, JoinedParts
<1> QED
  BY <1>2, AllOfIt

LEMMA FourJoined ==
  ASSUME NEW s \in Bytes, NEW a, NEW b, NEW c, NEW d, Part(s, 0, a), Part(s, Len(a), b),
         Part(s, Len(a) + Len(b), c), Part(s, Len(a) + Len(b) + Len(c), d)
  PROVE  LET t == a \o b \o c \o d
         IN  Part(s, 0, t) /\ Len(t) = Len(a) + Len(b) + Len(c) + Len(d)
<1> DEFINE ab == a \o b
           abc == ab \o c
           t == abc \o d
<1>1. Len(a) \in Nat /\ Len(b) \in Nat /\ Len(c) \in Nat /\ Len(d) \in Nat /\ 0 \in Nat
  BY LengthIs DEF Part
<1>2. Part(s, 0, ab) /\ Len(ab) = Len(a) + Len(b)
  <2>1. Len(a) = 0 + Len(a)
    BY <1>1
  <2> QED
    BY <1>1, <2>1, JoinedParts
<1> HIDE DEF ab
<1>3. Part(s, 0, abc) /\ Len(abc) = Len(a) + Len(b) + Len(c)
  <2> DEFINE k == Len(a) + Len(b)
  <2>1. k = 0 + Len(ab) /\ k = Len(ab) /\ Part(s, k, c)
    BY <1>1, <1>2
  <2> HIDE DEF k
  <2>2. Part(s, 0, abc) /\ Len(abc) = Len(ab) + Len(c)
    BY <1>1, <1>2, <2>1, JoinedParts
  <2> QED
    BY <1>2, <2>2
<1> HIDE DEF abc
<1>4. Part(s, 0, t) /\ Len(t) = Len(a) + Len(b) + Len(c) + Len(d)
  <2> DEFINE k == Len(a) + Len(b) + Len(c)
  <2>1. k = 0 + Len(abc) /\ k = Len(abc) /\ Part(s, k, d)
    BY <1>1, <1>3
  <2> HIDE DEF k
  <2>2. Part(s, 0, t) /\ Len(t) = Len(abc) + Len(d)
    BY <1>1, <1>3, <2>1, JoinedParts
  <2> QED
    BY <1>3, <2>2
<1> QED
  BY <1>4 DEF ab, abc, t

-----------------------------------------------------------------------------
(* A getter that accepts has read all its setter would write.               *)
LEMMA PermissionAgain ==
  ASSUME NEW e, IsElement(e), GetPermission(e).err = "none"
  PROVE  e \in Elements("Permission", GetPermission(e).args)
<1> DEFINE body == e.body
           args == [i \in 1 .. 4 |-> GetLE(body, 4 * (i - 1), 4)]
<1>1. /\ body \in Bytes /\ Len(body) = 16 /\ e = Element(Hdac, "p", body)
      /\ GetPermission(e) = Accept(args)
  BY DEF GetPermission, Is, Refuse, IsElement
<1>2. GetPermission(e).args = args
  BY <1>1 DEF Accept
<1> HIDE DEF body
<1>3. args[1] = GetLE(body, 0, 4) /\ args[2] = GetLE(body, 4, 4) /\ args[3] = GetLE(body, 8, 4)
      /\ args[4] = GetLE(body, 12, 4)
  <2>1. 4 * (1 - 1) = 0 /\ 4 * (2 - 1) = 4 /\ 4 * (3 - 1) = 8 /\ 4 * (4 - 1) = 12
    OBVIOUS
  <2> QED
    BY <2>1
<1> HIDE DEF args
<1>4. /\ args[1] \in Int /\ Part(body, 0, PutLE(args[1], 4))
      /\ args[2] \in Int /\ Part(body, 4, PutLE(args[2], 4))
      /\ args[3] \in Int /\ Part(body, 8, PutLE(args[3], 4))
      /\ args[4] \in Int /\ Part(body, 12, PutLE(args[4], 4))
  <2>1. \A o \in {0, 4, 8, 12} : o \in Nat /\ o + 4 <= Len(body)
    BY <1>1
  <2> QED
    BY <1>1, <1>3, <2>1, UnsignedAgain, WidthsAre
<1> DEFINE A == PutLE(args[1], 4)
           B == PutLE(args[2], 4)
           C == PutLE(args[3], 4)
           D == PutLE(args[4], 4)
           t == A \o B \o C \o D
<1>5. Len(A) = 4 /\ Len(B) = 4 /\ Len(C) = 4 /\ Len(D) = 4
  BY <1>4, NumberBytes
<1>6. SetPermission(args[1], args[2], args[3], args[4]) = {Element(Hdac, "p", t)}
  BY DEF SetPermission
<1>7. body = t
  <2> HIDE DEF A, B, C, D
  <2>1. Len(A) + Len(B) = 8 /\ Len(A) + Len(B) + Len(C) = 12 /\ Len(A) + Len(B) + Len(C) + Len(D) = 16
    BY <1>5
  <2>2. Part(body, 0, A) /\ Part(body, Len(A), B) /\ Part(body, Len(A) + Len(B), C)
        /\ Part(body, Len(A) + Len(B) + Len(C), D)
    BY <1>4, <1>5, <2>1 DEF A, B, C, D
  <2>3. Part(body, 0, t) /\ Len(t) = 16
    BY <1>1, <2>1, <2>2, FourJoined
  <2> HIDE DEF t
  <2> QED
    BY <1>1, <2>3, AllOfIt
<1> QED
  BY <1>1, <1>2, <1>6, <1>7 DEF Elements

LEMMA BlockSignatureAgain ==
  ASSUME NEW e, IsElement(e), GetBlockSignature(e).err = "none"
  PROVE  e \in Elements("BlockSignature", GetBlockSignature(e).args)
<1> DEFINE body == e.body
           m == body[1]
           n == body[m + 3]
           type == body[m + 2]
           sig == SubSeq(body, 2, m + 1)
           key == Drop(body, m + 3)
<1>1. /\ body \in Bytes /\ e = Element(Free, "b", body) /\ ~(Len(body) < 3) /\ ~(Len(body) < 3 + m)
      /\ Len(body) = 3 + m + n /\ GetBlockSignature(e) = Accept(<<sig, type, key>>)
  BY DEF GetBlockSignature, Is, Refuse, IsElement
<1>2. GetBlockSignature(e).args = <<sig, type, key>>
  BY <1>1 DEF Accept
<1> HIDE DEF body
<1>3. Len(body) \in Nat
  BY <1>1, LengthIs
<1>4. m \in Byte /\ Part(body, 0, <<m>>)
  <2>1. 0 < Len(body) /\ 0 \in Nat /\ 0 + 1 = 1
    BY <1>1, <1>3
  <2> QED
    BY <1>1, <2>1, ByteAgain
<1>5. m \in Nat /\ m <= Radix - 1 /\ Radix \in Nat
  BY <1>4, RadixIs
<1> HIDE DEF m
<1>6. /\ type \in Byte /\ type % Radix = type /\ Part(body, m + 1, <<type>>)
      /\ n \in Byte /\ Part(body, m + 2, <<n>>)
  <2>1. m + 1 \in Nat /\ m + 1 < Len(body) /\ m + 1 + 1 = m + 2
        /\ m + 2 \in Nat /\ m + 2 < Len(body) /\ m + 2 + 1 = m + 3
    BY <1>1, <1>3, <1>5
  <2> QED
    BY <1>1, <2>1, ByteAgain
<1>7. n \in Nat /\ n <= Radix - 1
  BY <1>6, RadixIs
<1> HIDE DEF n, type
<1>8. sig \in Bytes /\ Len(sig) = m /\ Part(body, 1, sig)
  <2> DEFINE o == 1
             k == m + 1
  <2>1. o \in Nat /\ k \in Nat /\ o <= k /\ k <= Len(body) /\ o + 1 = 2 /\ k - o = m
    BY <1>1, <1>3, <1>5
  <2> HIDE DEF o, k
  <2>2. LET cut == SubSeq(body, o + 1, k)
        IN  cut \in Bytes /\ Len(cut) = k - o /\ Part(body, o, cut)
    BY <1>1, <2>1, CutAgain
  <2> QED
    BY <2>1, <2>2 DEF o, k, sig
<1>9. key \in Bytes /\ Len(key) = n /\ Part(body, m + 3, key)
  <2>1. m + 3 \in Nat /\ m + 3 <= Len(body) /\ Len(body) - (m + 3) = n
    BY <1>1, <1>3, <1>5, <1>7
  <2> QED
    BY <1>1, <1>3, <2>1, CutAgain DEF Drop
<1> HIDE DEF sig, key
<1> DEFINE S == <<Len(sig)>>
           H == <<type % Radix>>
           K == <<Len(key)>>
           front == S \o sig \o H \o K
<1>10. SetBlockSignature(sig, type, key) = {Element(Free, "b", front \o key)}
  <2>1. ~(Len(sig) > Radix - 1) /\ ~(Len(key) > Radix - 1)
    BY <1>5, <1>7, <1>8, <1>9
  <2> QED
    BY <2>1 DEF SetBlockSignature
<1>11. /\ Part(body, 0, S) /\ Part(body, 1, sig) /\ Part(body, m + 1, H) /\ Part(body, m + 2, K)
       /\ Len(S) = 1 /\ Len(H) = 1 /\ Len(K) = 1
  BY <1>4, <1>6, <1>8, <1>9
<1> HIDE DEF S, H, K
<1>12. body = front \o key
  <2>1. Len(S) + Len(sig) = m + 1 /\ Len(S) + Len(sig) + Len(H) = m + 2
        /\ Len(S) + Len(sig) + Len(H) + Len(K) = m + 3
    BY <1>5, <1>8, <1>11
  <2>2. Part(body, Len(S), sig) /\ Part(body, Len(S) + Len(sig), H)
        /\ Part(body, Len(S) + Len(sig) + Len(H), K)
    BY <1>8, <1>11, <2>1
  <2>3. Part(body, 0, front) /\ Len(front) = m + 3
    <3>1. body \in Bytes /\ Part(body, 0, S)
      BY <1>1, <1>11
    <3>2. Part(body, 0, front) /\ Len(front) = Len(S) + Len(sig) + Len(H) + Len(K)
      BY <2>2, <3>1, FourJoined
    <3> QED
      BY <2>1, <3>2
  <2> HIDE DEF front
  <2>4. Len(body) = Len(front) + Len(key)
    BY <1>1, <1>5, <1>7, <1>9, <2>3
  <2> QED
    BY <1>1, <1>9, <2>3, <2>4, TwoTogether
<1> QED
  BY <1>1, <1>2, <1>10, <1>12 DEF Elements

LEMMA AssetGenesisAgain ==
  ASSUME NEW e, IsElement(e), GetAssetGenesis(e).err = "none"
  PROVE  e \in Elements("AssetGenesis", GetAssetGenesis(e).args)
<1> DEFINE body == e.body
           quantity == Signed(GetLE(body, 0, 8), 8)
<1>1. /\ body \in Bytes /\ Len(body) = 8 /\ e = Element(Hdac, "g", body) /\ ~(quantity < 0)
      /\ GetAssetGenesis(e) = Accept(<<quantity>>)
  BY DEF GetAssetGenesis, Is, Refuse, IsElement
<1>2. GetAssetGenesis(e).args = <<quantity>>
  BY <1>1 DEF Accept
<1> HIDE DEF body
<1>3. quantity \in Int /\ Part(body, 0, PutLE(quantity, 8))
  <2>1. 0 \in Nat /\ 8 \in Nat /\ 0 + 8 <= Len(body)
    BY <1>1
  <2> QED
    BY <1>1, <2>1, SignedAgain
<1> HIDE DEF quantity
<1>4. body = PutLE(quantity, 8)
  BY <1>1, <1>3, NumberBytes, AllOfIt
<1> QED
  BY <1>1, <1>2, <1>4 DEF Elements, SetAssetGenesis

LEMMA GeneralDetailsAgain ==
  ASSUME NEW e, IsElement(e), GetGeneralDetails(e).err = "none"
  PROVE  /\ e \in SetGeneralDetails(e.body) /\ e \in Elements("GeneralDetails", GetGeneralDetails(e).args)
         /\ GetGeneralDetails(e).args[1] = e.body
<1>1. /\ ~(Len(e.body) > MaxScript) /\ e = Element(Free, "c", e.body)
      /\ GetGeneralDetails(e) = Accept(<<e.body>>)
  BY DEF GetGeneralDetails, Is, Refuse, IsElement
<1>2. GetGeneralDetails(e).args = <<e.body>>
  BY <1>1 DEF Accept
<1>3. e \in SetGeneralDetails(e.body)
  BY <1>1 DEF SetGeneralDetails
<1> QED
  BY <1>2, <1>3 DEF Elements

LEMMA AssetDetailsAgain ==
  ASSUME NEW e, IsElement(e), GetAssetDetails(e).err = "none"
  PROVE  \/ e \in Rebuilt("AssetDetails", GetAssetDetails(e).args)
         \/ Len(GetAssetDetails(e).args[3]) > MaxScript
<1>1. CASE GetGeneralDetails(e).err = "none"
  <2>1. e \in SetGeneralDetails(e.body) /\ GetAssetDetails(e) = Accept(<<<<>>, 1, e.body>>)
    BY <1>1, GeneralDetailsAgain DEF GetAssetDetails
  <2>2. GetAssetDetails(e).args = <<<<>>, 1, e.body>>
    BY <2>1 DEF Accept
  <2> QED
    BY <2>1, <2>2 DEF Rebuilt
<1>2. CASE GetGeneralDetails(e).err # "none"
  <2> DEFINE body == e.body
             m == StrLen(body, Len(body), 4)
             name == SubSeq(body, 5, 4 + m)
             multiple == Signed(GetLE(body, 0, 4), 4)
             bytes == Drop(body, 5 + m)
  <2>1. /\ body \in Bytes /\ e = Element(Free, "a", body) /\ Len(body) \in 5 .. MaxScript + 4 + MaxName + 1
        /\ ~(4 + m = Len(body)) /\ GetAssetDetails(e) = Accept(<<name, multiple, bytes>>)
    BY <1>2 DEF GetAssetDetails, Is, Refuse, IsElement
  <2>2. GetAssetDetails(e).args = <<name, multiple, bytes>>
    BY <2>1 DEF Accept
  <2> HIDE DEF body
  <2>3. Len(body) \in Nat /\ 5 <= Len(body)
    BY <2>1, LengthIs
  <2>4. m \in Nat /\ 5 + m <= Len(body) /\ body[4 + m + 1] = 0
    <3>1. IsStrLen(body, Len(body), 4, m)
      <4>1. 4 \in Nat /\ 4 <= Len(body)
        BY <2>3
      <4> QED
        BY <2>3, <4>1, StrLenIsOne
    <3> HIDE DEF m
    <3>2. m \in 0 .. Len(body) - 4 /\ m # Len(body) - 4
      BY <2>1, <2>3, <3>1 DEF IsStrLen
    <3> QED
      BY <2>3, <3>1, <3>2 DEF IsStrLen
  <2> HIDE DEF m
  <2>5. multiple \in Int /\ Part(body, 0, PutLE(multiple, 4))
    <3>1. 0 \in Nat /\ 4 \in Nat /\ 0 + 4 <= Len(body)
      BY <2>3
    <3> QED
      BY <2>1, <3>1, SignedAgain
  <2>6. Len(name) = m /\ Part(body, 4, name)
    <3> DEFINE o == 4
               k == 4 + m
    <3>1. o \in Nat /\ k \in Nat /\ o <= k /\ k <= Len(body) /\ o + 1 = 5 /\ k - o = m
      BY <2>3, <2>4
    <3> HIDE DEF o, k
    <3>2. LET cut == SubSeq(body, o + 1, k)
          IN  cut \in Bytes /\ Len(cut) = k - o /\ Part(body, o, cut)
      BY <2>1, <3>1, CutAgain
    <3> QED
      BY <3>1, <3>2 DEF o, k, name
  <2>7. Part(body, 4 + m, <<0>>)
    <3> DEFINE o == 4 + m
    <3>1. o \in Nat /\ o < Len(body) /\ body[o + 1] = 0
      BY <2>3, <2>4
    <3> HIDE DEF o
    <3>2. Part(body, o, <<0>>)
      BY <2>1, <3>1, ByteAgain
    <3> QED
      BY <3>2 DEF o
  <2>8. Len(bytes) = Len(body) - (5 + m) /\ Part(body, 5 + m, bytes)
    <3> DEFINE o == 5 + m
    <3>1. o \in Nat /\ o <= Len(body)
      BY <2>3, <2>4
    <3> HIDE DEF o
    <3>2. Len(Drop(body, o)) = Len(body) - o /\ Part(body, o, Drop(body, o))
      BY <2>1, <2>3, <3>1, CutAgain DEF Drop
    <3> QED
      BY <3>2 DEF o, bytes
  <2> HIDE DEF name, multiple, bytes
  <2> DEFINE M == PutLE(multiple, 4)
             Z == <<0>>
             t == M \o name \o Z \o bytes
  <2>9. Len(M) = 4 /\ Len(Z) = 1
    BY <2>5, NumberBytes
  <2>10. CASE ~(Len(bytes) > MaxScript)
    <3>1. SetAssetDetails(name, multiple, bytes) = {Element(Free, "a", t)}
      BY <2>10 DEF SetAssetDetails
    <3> HIDE DEF M, Z
    <3>2. Len(M) + Len(name) = 4 + m /\ Len(M) + Len(name) + Len(Z) = 5 + m
      BY <2>4, <2>6, <2>9
    <3>3. Part(body, 0, M) /\ Part(body, Len(M), name) /\ Part(body, Len(M) + Len(name), Z)
          /\ Part(body, Len(M) + Len(name) + Len(Z), bytes)
      BY <2>5, <2>6, <2>7, <2>8, <2>9, <3>2 DEF M, Z
    <3>4. Part(body, 0, t) /\ Len(t) = 5 + m + Len(bytes)
      BY <2>1, <3>2, <3>3, FourJoined
    <3> HIDE DEF t
    <3>5. Len(t) = Len(body)
      BY <2>3, <2>4, <2>8, <3>4
    <3>6. e \in SetAssetDetails(name, multiple, bytes)
      BY <2>1, <3>1, <3>4, <3>5, AllOfIt
    <3> QED
      BY <2>2, <3>6 DEF Rebuilt, Elements
  <2> QED
    BY <2>2, <2>10
<1> QED
  BY <1>1, <1>2

LEMMA ApprovalAgain ==
  ASSUME NEW e, IsElement(e), GetApproval(e).err = "none"
  PROVE  e \in Elements("Approval", GetApproval(e).args)
<1> DEFINE body == e.body
           approval == body[1]
           timestamp == GetLE(body, 1, 4)
<1>1. /\ body \in Bytes /\ Len(body) = 5 /\ e = Element(Hdac, "a", body)
      /\ GetApproval(e) = Accept(<<approval, timestamp>>)
  BY DEF GetApproval, Is, Refuse, IsElement
<1>2. GetApproval(e).args = <<approval, timestamp>>
  BY <1>1 DEF Accept
<1> HIDE DEF body
<1>3. approval \in Byte /\ Part(body, 0, <<approval>>)
  <2>1. 0 \in Nat /\ 0 < Len(body) /\ 0 + 1 = 1
    BY <1>1
  <2> QED
    BY <1>1, <2>1, ByteAgain
<1>4. timestamp \in Int /\ Part(body, 1, PutLE(timestamp, 4))
  <2>1. 1 \in Nat /\ 4 \in Nat /\ 1 + 4 <= Len(body)
    BY <1>1
  <2> QED
    BY <1>1, <2>1, UnsignedAgain
<1> HIDE DEF approval, timestamp
<1>5. PutLE(approval, 1) = <<approval>>
  <2> DEFINE A == PutLE(approval, 1)
  <2>1. approval \in Int /\ approval \div 1 = approval /\ approval % Radix = approval
    BY <1>3, RadixIs, ByteIsItself
  <2>2. A \in Seq(Byte) /\ Len(A) = 1
    BY <2>1, PutLEIs, WidthsAre
  <2>3. A[1] = (approval \div Power[1 - 1]) % Radix
    BY DEF PutLE
  <2>4. 1 - 1 = 0
    OBVIOUS
  <2> HIDE DEF A
  <2>5. A[1] = approval
    BY <2>1, <2>3, <2>4, PowerIs
  <2>6. <<approval>> \in Seq(Byte) /\ Len(<<approval>>) = 1 /\ \A i \in 1 .. 1 : A[i] = <<approval>>[i]
    BY <1>3, <2>5
  <2>7. A = <<approval>>
    BY <2>2, <2>6, SeqEqual
  <2> QED
    BY <2>7 DEF A
<1> DEFINE A == PutLE(approval, 1)
           B == PutLE(timestamp, 4)
<1>6. SetApproval(approval, timestamp) = {Element(Hdac, "a", A \o B)}
  BY DEF SetApproval
<1>7. Part(body, 0, A) /\ Part(body, 1, B) /\ Len(A) = 1 /\ Len(B) = 4
  BY <1>3, <1>4, <1>5, NumberBytes
<1> HIDE DEF A, B
<1>8. body = A \o B
  <2>1. Len(body) = Len(A) + Len(B) /\ Part(body, Len(A), B)
    BY <1>1, <1>7
  <2> QED
    BY <1>1, <1>7, <2>1, TwoTogether
<1> QED
  BY <1>1, <1>2, <1>6, <1>8 DEF Elements

LEMMA NewEntityAgain ==
  ASSUME NEW e, IsElement(e), GetNewEntityType(e).err = "none"
  PROVE  e \in Elements("NewEntityType", GetNewEntityType(e).args)
<1> DEFINE body == e.body
           type == body[1]
           update == IF e.letter = "u" THEN 1 ELSE 0
           bytes == Tail(body)
           letter == IF update = 0 THEN "n" ELSE "u"
<1>1. /\ body \in Bytes /\ e = Element(e.id, e.letter, body) /\ e.id = Hdac /\ e.letter \in {"n", "u"}
      /\ Len(body) \in 1 .. 1 + MaxScript
      /\ Verify(bytes, Len(bytes)) /\ GetNewEntityType(e) = Accept(<<type, update, bytes>>)
  BY DEF GetNewEntityType, Refuse, IsElement
<1>2. GetNewEntityType(e).args = <<type, update, bytes>>
  BY <1>1 DEF Accept
<1>3. e.letter = letter
  BY <1>1
<1> HIDE DEF body, update
<1>4. Len(body) \in Nat /\ Len(body) >= 1 /\ Len(body) <= 1 + MaxScript /\ MaxScript \in Nat
  BY <1>1, LengthIs, TypedElementsAssumption
<1>5. type \in Byte /\ type % Radix = type /\ Part(body, 0, <<type>>)
  <2>1. 0 \in Nat /\ 0 < Len(body) /\ 0 + 1 = 1
    BY <1>4
  <2> QED
    BY <1>1, <2>1, ByteAgain
<1> HIDE DEF type
<1>6. bytes \in Bytes /\ Len(bytes) = Len(body) - 1 /\ Part(body, 1, bytes)
  <2>1. body \in Seq(Byte) /\ body # <<>>
    BY <1>1, <1>4, LengthIs, EmptySeq
  <2>2. /\ bytes \in Seq(Byte) /\ Len(bytes) = Len(body) - 1
        /\ \A i \in 1 .. Len(bytes) : bytes[i] = body[i + 1]
    BY <2>1, HeadTailProperties
  <2> HIDE DEF bytes
  <2>3. 1 \in Nat /\ 1 + Len(bytes) <= Len(body) /\ \A i \in 1 .. Len(bytes) : 1 + i = i + 1
    BY <1>4, <2>2
  <2> QED
    BY <2>2, <2>3 DEF Part, At, Bytes
<1> HIDE DEF bytes
<1> DEFINE T == <<type % Radix>>
<1>7. SetNewEntityType(type, update, bytes) = {Element(Hdac, letter, T \o bytes)}
  <2>1. ~(Len(bytes) > MaxScript)
    BY <1>4, <1>6
  <2> QED
    BY <1>1, <2>1 DEF SetNewEntityType
<1>8. Part(body, 0, T) /\ Len(T) = 1
  BY <1>5
<1> HIDE DEF T
<1>9. body = T \o bytes
  <2>1. Len(body) = Len(T) + Len(bytes) /\ Part(body, Len(T), bytes)
    BY <1>4, <1>6, <1>8
  <2> QED
    BY <1>1, <1>6, <1>8, <2>1, TwoTogether
<1>10. e \in SetNewEntityType(type, update, bytes)
  BY <1>1, <1>3, <1>7, <1>9
<1> QED
  BY <1>2, <1>10 DEF Elements

LEMMA ItemKeyAgain ==
  ASSUME NEW e, IsElement(e), GetItemKey(e).err = "none"
  PROVE  e \in Elements("ItemKey", GetItemKey(e).args)
<1>1. /\ ~(Len(e.body) > MaxKey) /\ e = Element(Hdac, "k", e.body) /\ GetItemKey(e) = Accept(<<e.body>>)
  BY DEF GetItemKey, Is, Refuse, IsElement
<1>2. GetItemKey(e).args = <<e.body>>
  BY <1>1 DEF Accept
<1> QED
  BY <1>1, <1>2 DEF Elements, SetItemKey

LEMMA EntityAgain ==
  ASSUME NEW e, IsElement(e), GetEntity(e).err = "none"
  PROVE  e \in Elements("Entity", GetEntity(e).args)
<1>1. e = Element(Hdac, "e", e.body) /\ GetEntity(e) = Accept(<<e.body>>)
  BY DEF GetEntity, Is, Refuse, IsElement
<1>2. GetEntity(e).args = <<e.body>>
  BY <1>1 DEF Accept
<1> QED
  BY <1>1, <1>2 DEF Elements, SetEntity

(* Whatever the element is.                                                 *)
LEMMA AllWritable ==
  ASSUME NEW e, IsElement(e), NEW getter \in Getter \ {"FollowOns", "TypeAlone"}, Got(getter, e).err = "none"
  PROVE  \/ e \in Rebuilt(getter, Got(getter, e).args)
         \/ getter = "AssetDetails" /\ Len(Got(getter, e).args[3]) > MaxScript
<1>1. CASE getter = "Permission"
  BY <1>1, PermissionAgain DEF Got, Rebuilt
<1>2. CASE getter = "BlockSignature"
  BY <1>2, BlockSignatureAgain DEF Got, Rebuilt
<1>3. CASE getter = "AssetGenesis"
  BY <1>3, AssetGenesisAgain DEF Got, Rebuilt
<1>4. CASE getter = "GeneralDetails"
  BY <1>4, GeneralDetailsAgain DEF Got, Rebuilt
<1>5. CASE getter = "AssetDetails"
  BY <1>5, AssetDetailsAgain DEF Got
<1>6. CASE getter = "Approval"
  BY <1>6, ApprovalAgain DEF Got, Rebuilt
<1>7. CASE getter = "NewEntityType"
  BY <1>7, NewEntityAgain DEF Got, Rebuilt
<1>8. CASE getter = "ItemKey"
  BY <1>8, ItemKeyAgain DEF Got, Rebuilt
<1>9. CASE getter = "Entity"
  BY <1>9, EntityAgain DEF Got, Rebuilt
<1> QED
  BY <1>1, <1>2, <1>3, <1>4, <1>5, <1>6, <1>7, <1>8, <1>9 DEF Getter, Setter

LEMMA ReceivedIsElement ==
  ASSUME NEW e, IsElement(e), NEW r \in Received(e)
  PROVE  IsElement(r)
<1>1. e.body \in Bytes /\ e.body \in Seq(Byte)
  BY LengthIs DEF IsElement
<1>2. CASE \E n \in 0 .. Len(e.body) : r = Element(e.id, e.letter, SubSeq(e.body, 1, n))
  <2>1. PICK n \in 0 .. Len(e.body) : r = Element(e.id, e.letter, SubSeq(e.body, 1, n))
    BY <1>2
  <2>2. SubSeq(e.body, 1, n) \in Bytes
    BY <1>1, CutIs
  <2> QED
    BY <2>1, <2>2, FormIs
<1>3. CASE \E b \in Byte : r = Element(e.id, e.letter, Append(e.body, b))
  <2>1. PICK b \in Byte : r = Element(e.id, e.letter, Append(e.body, b))
    BY <1>3
  <2>2. Append(e.body, b) \in Bytes
    BY <1>1, AppendProperties DEF Bytes
  <2> QED
    BY <2>1, <2>2, FormIs
<1>4. CASE \E tag \in Tag : r = Element(tag[1], tag[2], e.body)
  BY <1>1, <1>4, FormIs
<1> QED
  BY <1>2, <1>3, <1>4 DEF Received

LEMMA AllReceived == WrittenInv => AcceptedIsWritable
<1> SUFFICES ASSUME WrittenInv, NEW e \in Received(element),
                    NEW getter \in Getter \ {"FollowOns", "TypeAlone"}, Got(getter, e).err = "none"
             PROVE  \/ e \in Rebuilt(getter, Got(getter, e).args)
                    \/ getter = "AssetDetails" /\ Len(Got(getter, e).args[3]) > MaxScript
  BY DEF AcceptedIsWritable
<1>1. IsElement(e)
  BY ReceivedIsElement DEF WrittenInv, WrittenBy
<1> QED
  BY <1>1, AllWritable

(* A getter accepts, of the elements written and of those that are cut, one *)
(* byte longer or of another kind, only what its setter writes from the     *)
(* values it returns: for every radix and limits of the setters             *)
(* (hdacscript.cpp:534-1057, 1137-1384).                                    *)
THEOREM AcceptedIsAlwaysWritable == TypedSpec => []AcceptedIsWritable
<1> QED
  BY WrittenInvariance, AllReceived, PTL

-----------------------------------------------------------------------------
(* The numbers of a row: what one to four bytes hold, as an unsigned and as *)
(* a signed integer of four bytes.                                          *)
NumberIn(v) == IF Len(v) \in 1 .. 4 THEN GetLE(v, 0, Len(v)) ELSE 0

LEMMA NumberInIs == ASSUME NEW v \in Seq(Byte) PROVE NumberIn(v) \in 0 .. Power[4] - 1
<1>1. Power[4] \in Nat \ {0}
  BY PowerIs
<1>2. CASE Len(v) \notin 1 .. 4
  BY <1>1, <1>2 DEF NumberIn
<1>3. CASE Len(v) \in 1 .. 4
  <2> DEFINE size == Len(v)
             zero == 0
  <2>1. v \in Bytes /\ zero \in Nat /\ size \in Nat /\ zero + size <= Len(v)
    BY LengthIs DEF Bytes
  <2> HIDE DEF zero
  <2>2. GetLE(v, zero, size) \in Unsigned(size)
    BY <2>1, WrittenAgain
  <2>3. Power[size] <= Power[4]
    <3>1. /\ Power[1] \in Nat /\ Power[2] \in Nat /\ Power[3] \in Nat /\ Power[4] \in Nat
          /\ Power[1] <= Power[2] /\ Power[2] <= Power[3] /\ Power[3] <= Power[4]
      <4>1. ASSUME NEW n \in Nat PROVE Power[n] \in Nat /\ Power[n + 1] \in Nat /\ Power[n] <= Power[n + 1]
        <5>1. \A r, x \in Nat : r > 0 => r * x \in Nat /\ x <= r * x
          <6>1. \A r, x \in Nat : r > 0 => r - 1 \in Nat /\ (r - 1) * x \in Nat /\ r * x = (r - 1) * x + x
            OBVIOUS
          <6> QED
            BY <6>1
        <5> DEFINE x == Power[n]
                   y == Power[n + 1]
        <5>2. x \in Nat /\ y = Radix * x
          <6>1. Power[n] \in Nat \ {0} /\ Power[n + 1] = Radix * Power[n]
            BY PowerIs, Zenon
          <6> QED
            BY <6>1, Zenon
        <5>4. Radix \in Nat /\ Radix > 0
          BY RadixIs
        <5> HIDE DEF x, y
        <5>3. x \in Nat /\ y \in Nat /\ x <= y
          BY <5>1, <5>2, <5>4
        <5> QED
          BY <5>3 DEF x, y
      <4>2. Power[1 + 1] = Power[2] /\ Power[2 + 1] = Power[3] /\ Power[3 + 1] = Power[4]
        OBVIOUS
      <4> QED
        BY <4>1, <4>2
    <3>2. Len(v) = 1 \/ Len(v) = 2 \/ Len(v) = 3 \/ Len(v) = 4
      <4>1. \A m \in 1 .. 4 : m = 1 \/ m = 2 \/ m = 3 \/ m = 4
        OBVIOUS
      <4> QED
        BY <1>3, <4>1
    <3>3. Power[1] <= Power[4] /\ Power[2] <= Power[4] /\ Power[3] <= Power[4] /\ Power[4] <= Power[4]
      <4>1. \A a, b, c, d \in Nat : a <= b /\ b <= c /\ c <= d => a <= d /\ b <= d /\ d <= d
        OBVIOUS
      <4> QED
        BY <3>1, <4>1
    <3> QED
      <4>1. size = Len(v)
        OBVIOUS
      <4> HIDE DEF size
      <4>2. size = 1 \/ size = 2 \/ size = 3 \/ size = 4
        BY <3>2, <4>1, Zenon
      <4> QED
        BY <3>3, <4>2, Zenon
  <2>4. Power[size] \in Nat
    BY <2>1, PowerIs
  <2>5. NumberIn(v) = GetLE(v, zero, size)
    BY <1>3 DEF NumberIn, zero
  <2> HIDE DEF size
  <2> QED
    BY <1>1, <2>2, <2>3, <2>4, <2>5 DEF Unsigned
<1> QED
  BY <1>2, <1>3

LEMMA NumberIsNarrowed ==
  ASSUME NEW n \in 0 .. Power[4] - 1
  PROVE  Signed(n, 4) \in AnInt \cap {n, n - Power[4]}
<1> DEFINE P == Power[4]
<1>1. P \in Nat
  BY PowerIs
<1>2. Signed(n, 4) = IF n >= P \div 2 THEN n - P ELSE n
  BY DEF Signed
<1>3. AnInt = P \div 2 - P .. P \div 2 - 1
  BY DEF AnInt
<1>4. n \in 0 .. P - 1
  OBVIOUS
<1> HIDE DEF P
<1>5. Signed(n, 4) \in P \div 2 - P .. P \div 2 - 1 /\ Signed(n, 4) \in {n, n - P}
  BY <1>1, <1>2, <1>4
<1> QED
  BY <1>3, <1>5 DEF P

LEMMA StartBlockIs ==
  ASSUME IInv, NEW code, NEW v \in FirstOf(code)
  PROVE  UpgradeStartBlock(script, code) = NumberIn(v)
<1> DEFINE field == GetSpecialParam(script, code)
           first == FirstOf(code)
<1>1. IsField(field, first)
  BY FieldOfCode
<1>2. v \in first
  OBVIOUS
<1> HIDE DEF field, first
<1>3. IsAt(field, v)
  BY <1>1, <1>2 DEF IsField
<1>4. field.size = Len(v) /\ GetLE(script, field.start, Len(v)) = GetLE(v, 0, Len(v))
  BY <1>3, NumberIsRead DEF IsAt
<1>5. UpgradeStartBlock(script, code) =
        IF field.size \in 1 .. 4 THEN GetLE(script, field.start, field.size) ELSE 0
  BY DEF UpgradeStartBlock, field
<1> QED
  BY <1>4, <1>5 DEF NumberIn

LEMMA FieldsAreFirst == IInv => FieldsAreFirstValues
<1> SUFFICES ASSUME IInv PROVE FieldsAreFirstValues
  OBVIOUS
<1>1. \A code \in Special :
        /\ ValueAt(GetSpecialParam(script, code)) = FirstOf(code)
        /\ \A value \in FirstOf(code) :
             /\ UpgradeStartBlock(script, code) = NumberIn(value)
             /\ NumberParam(script, code) \in AnInt \cap {NumberIn(value), NumberIn(value) - Power[4]}
  <2>1. ASSUME NEW code \in Special PROVE ValueAt(GetSpecialParam(script, code)) = FirstOf(code)
    BY FieldOfCode, ValueIs
  <2>2. ASSUME NEW code \in Special, NEW value \in FirstOf(code)
        PROVE  /\ UpgradeStartBlock(script, code) = NumberIn(value)
               /\ NumberParam(script, code) \in AnInt \cap {NumberIn(value), NumberIn(value) - Power[4]}
    <3>1. UpgradeStartBlock(script, code) = NumberIn(value)
      BY <2>2, StartBlockIs
    <3>2. value \in Seq(Byte)
      BY <2>2, FieldOfCode DEF IsField, IsAt
    <3>3. NumberIn(value) \in 0 .. Power[4] - 1
      BY <3>2, NumberInIs
    <3> QED
      BY <3>1, <3>3, NumberIsNarrowed DEF NumberParam
  <2> QED
    BY <2>1, <2>2
<1>2. \A name \in Name : ValueAt(GetNamedParam(script, name)) = FirstNamed(name)
  BY FieldOfName, ValueIs
<1>3. GetAssetMultiple(script) > 0
  BY MultipleIsPositive
<1>4. ValueAt(GetName(script)) =
        {v \in (IF FirstOf(NameCode) = {} THEN FirstNamed(NameField) ELSE FirstOf(NameCode)) :
           ~(Len(v) = 2 /\ v[1] = Star)}
  BY NameIsRead
<1>5. params # <<>> => Steps = Len(params)
  BY EveryParamOnce
<1> QED
  BY <1>1, <1>2, <1>3, <1>4, <1>5 DEF FieldsAreFirstValues, FirstOf, FirstNamed, NumberIn

(* Every accessor of a row of details answers from the first parameter that *)
(* was written with its code or name, a parameter of one kind never answers *)
(* for the other, numbers are narrowed to an int or kept unsigned as the    *)
(* accessor says, and NextParam passes every parameter once: for repeated   *)
(* names in any case of letters and values that hold any bytes              *)
(* (hdacscript.cpp:1963-2019, asset.cpp:23-60, 92-186, 199-232).            *)
THEOREM FieldsAlwaysFirstValues == TypedSpec => []FieldsAreFirstValues
<1> QED
  BY TypedIsDetails, Invariance, FieldsAreFirst, PTL
=============================================================================
