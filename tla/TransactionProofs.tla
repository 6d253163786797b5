------------------------- MODULE TransactionProofs -------------------------
(***************************************************************************)
(* What SetScript and mc_ParseOpDropOpReturnScript find, for scripts of    *)
(* any length and any operations: the flags recognise the grammar, both    *)
(* parsers find all the data, and the redeem script of a multisignature    *)
(* input is opened.                                                        *)
(*                                                                         *)
(* Then the bytes of transactions, of any length and for any width of the  *)
(* sizes: each reader is shown to follow its writer.  What is read is there *)
(* in the one form in which it is written (Sound), and what is there is    *)
(* read, if it is not too large (Exact).  This is shown for the size of a  *)
(* part, a script, an input or an output, a vector by induction over the   *)
(* turns of its loop, and the transaction; what decoding promises follows. *)
(***************************************************************************)
EXTENDS OpDropScript, TransactionBytes, SequenceTheorems, BasicLemmas, TLAPS

(* Of an output script: the operations taken hold no negative size, and may *)
(* be pairs of data and OP_DROP, the last of which may lack its OP_DROP.    *)
Forward(n) == \A i \in 1 .. Len(source) : i <= n => source[i].op # "back"

Pairs(n) ==
  \A i \in 1 .. n : IF i % 2 = 1 THEN Pushes(source[i]) ELSE source[i].op = "drop"

PairsData(n) == [j \in 1 .. n \div 2 |-> source[2 * j - 1].data]

(* No OP_RETURN was seen: what lies before ptr is the last data.            *)
Searching ==
  /\ ~isOpReturn /\ "return" \notin flags
  /\ Taken \in 0 .. Len(source)
  /\ rest = SubSeq(source, Taken + 1, Len(source))
  /\ \A i \in 1 .. Taken : source[i].op # "return"
  /\ Forward(Taken)
  /\ "dirty" \in flags <=> ~Pairs(Taken)
  /\ last = IF Taken = 0 \/ ~Pushes(source[Taken]) THEN None ELSE Some(source[Taken].data)
  /\ elements = Dropped(SubSeq(source, 1, Taken))
  /\ Pairs(Taken) => elements = PairsData(Taken)

FirstReturnAt(r) ==
  /\ r \in 1 .. Len(source) /\ source[r].op = "return"
  /\ \A i \in 1 .. r - 1 : source[i].op # "return"

CleanUpTo(r) == Pairs(r - 1) /\ r % 2 = 1

(* OP_RETURN was the last operation taken.                                  *)
Returning(r) ==
  /\ FirstReturnAt(r) /\ Forward(r) /\ isOpReturn /\ "return" \in flags
  /\ rest = SubSeq(source, r + 1, Len(source))
  /\ "dirty" \in flags <=> ~CleanUpTo(r)
  /\ elements = Dropped(SubSeq(source, 1, r - 1))
  /\ Pairs(r - 1) => elements = PairsData(r - 1)

(* The data of OP_RETURN, or an empty element in its place.                 *)
DataKind == {"push", "small", "drop", "return"}
CleanAfter(r) == r < Len(source) => source[r + 1].op \in DataKind
ReturnedData(r) == IF r < Len(source) THEN source[r + 1].data ELSE <<>>

Returned(r) ==
  /\ FirstReturnAt(r) /\ Forward(r + 1) /\ ~isOpReturn /\ "return" \in flags
  /\ rest = <<>>
  /\ "dirty" \in flags <=> ~(CleanUpTo(r) /\ CleanAfter(r))
  /\ elements = Append(Dropped(SubSeq(source, 1, r - 1)), ReturnedData(r))
  /\ Pairs(r - 1) => elements = Append(PairsData(r - 1), ReturnedData(r))

(* The end.                                                                 *)
NoReturn ==
  /\ "return" \notin flags
  /\ \A i \in 1 .. Len(source) : source[i].op # "return"
  /\ Forward(Len(source))
  /\ elements = Dropped(source)

EndsAt(r) ==
  /\ FirstReturnAt(r) /\ Forward(r + 1) /\ "return" \in flags
  /\ "dirty" \in flags <=> ~(CleanUpTo(r) /\ CleanAfter(r))
  /\ elements = Append(Dropped(SubSeq(source, 1, r - 1)), ReturnedData(r))
  /\ Pairs(r - 1) => elements = Append(PairsData(r - 1), ReturnedData(r))

(* The parser went back from b, and will come to b again: no OP_RETURN is   *)
(* between, after which it would stop.                                      *)
Circling(k, b) ==
  /\ ~isOpReturn
  /\ rest = SubSeq(source, k + 1, Len(source)) /\ k < b
  /\ source[b].op = "back"
  /\ \A i \in 1 .. b : source[i].op # "return"

Looping == \E k \in 0 .. Len(source), b \in 1 .. Len(source) : Circling(k, b)

PubkeyInv ==
  type = "pubkey" =>
    IF result = "ok" THEN NoReturn \/ \E r \in 1 .. Len(source) : EndsAt(r)
    ELSE Searching \/ Looping \/ \E r \in 1 .. Len(source) : Returning(r) \/ Returned(r)

(* Of an input script of a multisignature address: before its redeem script *)
(* is opened, and after.                                                    *)
Redeem == source[Len(source)].data
Opened == SubSeq(source, 1, Len(source) - 1) \o Redeem
Wanted == [i \in 1 .. Len(Opened) |-> AsElement(Opened[i])]

BeforeRedeem ==
  /\ Len(elements) \in 0 .. Len(source) - 1
  /\ rest = SubSeq(source, Len(elements) + 1, Len(source))

InRedeem ==
  /\ Len(elements) \in Len(source) - 1 .. Len(Opened)
  /\ rest = SubSeq(Opened, Len(elements) + 1, Len(Opened))

SigInv ==
  (type = "sig" /\ IsMultisigInput(source)) =>
    /\ ~isOpReturn
    /\ elements = SubSeq(Wanted, 1, Len(elements))
    /\ IF result = "ok" THEN elements = Wanted ELSE BeforeRedeem \/ InRedeem

TypeInv ==
  /\ source \in Seq(Operation) /\ type \in {"pubkey", "sig"}
  /\ result \in {"running", "ok", "wrong", "astray"}

IInv == TypeInv /\ PubkeyInv /\ SigInv

-----------------------------------------------------------------------------
(* What is left of a sequence after some of it was taken.                   *)
LEMMA TakeOne ==
  ASSUME NEW S, NEW s \in Seq(S), NEW k \in 0 .. Len(s)
  PROVE  LET left == SubSeq(s, k + 1, Len(s))
         IN  /\ Len(left) = Len(s) - k
             /\ left = <<>> <=> k = Len(s)
             /\ k < Len(s) => /\ Head(left) = s[k + 1]
                              /\ Tail(left) = SubSeq(s, k + 2, Len(s))
<1> DEFINE left == SubSeq(s, k + 1, Len(s))
<1>1. left \in Seq(S) /\ Len(left) = Len(s) - k
  OBVIOUS
<1>2. left = <<>> <=> k = Len(s)
  <2>1. left = <<>> <=> Len(left) = 0
    BY <1>1, EmptySeq
  <2> QED
    BY <1>1, <2>1
<1>3. ASSUME k < Len(s)
      PROVE  Head(left) = s[k + 1] /\ Tail(left) = SubSeq(s, k + 2, Len(s))
  <2>1. Head(left) = s[k + 1]
    BY <1>1, <1>3
  <2>2. Tail(left) \in Seq(S) /\ Len(Tail(left)) = Len(s) - k - 1
    <3>1. left # <<>>
      BY <1>2, <1>3
    <3> HIDE DEF left
    <3> QED
      BY <1>1, <3>1, HeadTailProperties
  <2>3. SubSeq(s, k + 2, Len(s)) \in Seq(S) /\ Len(SubSeq(s, k + 2, Len(s))) = Len(s) - k - 1
    BY <1>3
  <2>4. \A i \in 1 .. Len(s) - k - 1 : Tail(left)[i] = SubSeq(s, k + 2, Len(s))[i]
    BY <1>1, <1>3
  <2>5. Tail(left) = SubSeq(s, k + 2, Len(s))
    BY <2>2, <2>3, <2>4, SeqEqual
  <2> QED
    BY <2>1, <2>5
<1> QED
  BY <1>1, <1>2, <1>3

(* The recursive function of Dropped, for a script and the places up to n.  *)
DropStep(s, d, i) ==
  IF i < 2 THEN <<>>
  ELSE IF s[i].op = "drop" /\ Pushes(s[i - 1])
  THEN Append(d[i - 1], s[i - 1].data)
  ELSE d[i - 1]

IsDrops(s, n, d) == d = [i \in 0 .. n |-> DropStep(s, d, i)]

LEMMA DropsAt ==
  ASSUME NEW s, NEW n \in Nat, NEW d, IsDrops(s, n, d), NEW i \in 0 .. n
  PROVE  d[i] = DropStep(s, d, i)
BY DEF IsDrops

LEMMA DropsExist == ASSUME NEW s, NEW n \in Nat PROVE \E d : IsDrops(s, n, d)
<1> DEFINE T == {k \in Nat : ~ \E d : IsDrops(s, k, d)}
<1> SUFFICES ASSUME T # {} PROVE FALSE
  OBVIOUS
<1>1. T \in SUBSET Nat
  OBVIOUS
<1>2. PICK m \in T : \A k \in T : m <= k
  BY <1>1, LeastNatural
<1>3. CASE m = 0
  <2> DEFINE e == [i \in 0 .. 0 |-> <<>>]
  <2>1. /\ \A i \in 0 .. 0 : e[i] = DropStep(s, e, i)
        /\ e = [i \in 0 .. 0 |-> e[i]]
    BY DEF DropStep
  <2> HIDE DEF e
  <2>2. IsDrops(s, 0, e)
    BY <2>1 DEF IsDrops
  <2> QED
    BY <1>3, <2>2
<1>4. CASE m # 0
  <2>1. m \in Nat /\ m - 1 \in Nat /\ m - 1 \notin T
    BY <1>1, <1>2, <1>4
  <2>2. PICK d : IsDrops(s, m - 1, d)
    BY <2>1
  <2> DEFINE e == [i \in 0 .. m |-> IF i < m THEN d[i] ELSE DropStep(s, d, m)]
  <2>3. \A i \in 0 .. m - 1 : e[i] = d[i]
    BY <2>1
  <2>4. e[m] = DropStep(s, d, m) /\ e = [i \in 0 .. m |-> e[i]]
    BY <2>1
  <2>5. \A i \in 0 .. m - 1 : d[i] = DropStep(s, d, i)
    BY <2>1, <2>2, DropsAt
  <2> HIDE DEF e
  <2>6. ASSUME NEW i \in 0 .. m PROVE DropStep(s, d, i) = DropStep(s, e, i)
    <3>1. i >= 2 => d[i - 1] = e[i - 1]
      BY <2>1, <2>3
    <3> QED
      BY <2>1, <3>1 DEF DropStep
  <2>7. ASSUME NEW i \in 0 .. m PROVE e[i] = DropStep(s, e, i)
    <3>1. i \in 0 .. m - 1 \/ i = m
      BY <2>1
    <3>2. e[i] = DropStep(s, d, i)
      BY <2>3, <2>4, <2>5, <3>1
    <3> QED
      BY <2>6, <3>2
  <2>8. IsDrops(s, m, e)
    BY <2>4, <2>7 DEF IsDrops
  <2> QED
    BY <1>2, <2>8
<1> QED
  BY <1>3, <1>4

(* It looks at nothing past the place it is for.                            *)
LEMMA DropsAgree ==
  ASSUME NEW s, NEW t, NEW n \in Nat, NEW m \in Nat, NEW d, NEW e,
         IsDrops(s, n, d), IsDrops(t, m, e), NEW k \in Nat, k <= n, k <= m,
         \A i \in 1 .. k : s[i] = t[i]
  PROVE  d[k] = e[k]
<1> DEFINE T == {i \in 0 .. k : d[i] # e[i]}
<1> SUFFICES ASSUME T # {} PROVE FALSE
  OBVIOUS
<1>1. T \in SUBSET Nat
  OBVIOUS
<1>2. PICK i \in T : \A j \in T : i <= j
  BY <1>1, LeastNatural
<1>3. i \in 0 .. k /\ d[i] # e[i]
  OBVIOUS
<1>4. d[i] = DropStep(s, d, i) /\ e[i] = DropStep(t, e, i)
  BY <1>3, DropsAt
<1>5. i >= 2 => d[i - 1] = e[i - 1] /\ s[i] = t[i] /\ s[i - 1] = t[i - 1]
  <2> SUFFICES ASSUME i >= 2 PROVE d[i - 1] = e[i - 1] /\ s[i] = t[i] /\ s[i - 1] = t[i - 1]
    OBVIOUS
  <2>1. i - 1 \in 0 .. k /\ i - 1 \notin T
    BY <1>2, <1>3
  <2> QED
    BY <1>3, <2>1
<1>6. i \in Nat
  BY <1>3
<1>7. DropStep(s, d, i) = DropStep(t, e, i)
  BY ONLY <1>5, <1>6 DEF DropStep
<1> QED
  BY <1>3, <1>4, <1>7

LEMMA DroppedIs ==
  ASSUME NEW S, NEW s \in Seq(S)
  PROVE  \E d : IsDrops(s, Len(s), d) /\ Dropped(s) = d[Len(s)]
<1> DEFINE drops[i \in 0 .. Len(s)] ==
        IF i < 2 THEN <<>>
        ELSE IF s[i].op = "drop" /\ Pushes(s[i - 1])
        THEN Append(drops[i - 1], s[i - 1].data)
        ELSE drops[i - 1]
<1>1. Dropped(s) = IF s = <<>> THEN <<>> ELSE drops[Len(s)]
  BY DEF Dropped
<1>2. IsDrops(s, Len(s), drops)
  <2>1. \E d : IsDrops(s, Len(s), d)
    BY DropsExist
  <2> QED
    BY <2>1 DEF IsDrops, DropStep
<1> HIDE DEF drops
<1>3. s = <<>> => drops[Len(s)] = <<>>
  <2>1. s = <<>> => Len(s) = 0
    OBVIOUS
  <2>2. drops[Len(s)] = DropStep(s, drops, Len(s))
    BY <1>2, DropsAt
  <2> QED
    BY <2>1, <2>2 DEF DropStep
<1> QED
  BY <1>1, <1>2, <1>3

(* One more operation adds the data before it, if it is OP_DROP.            *)
LEMMA DroppedStep ==
  ASSUME NEW S, NEW s \in Seq(S), NEW k \in 0 .. Len(s) - 1
  PROVE  Dropped(SubSeq(s, 1, k + 1)) =
           IF k >= 1 /\ s[k + 1].op = "drop" /\ Pushes(s[k])
           THEN Append(Dropped(SubSeq(s, 1, k)), s[k].data)
           ELSE Dropped(SubSeq(s, 1, k))
<1> DEFINE t == SubSeq(s, 1, k)
           u == SubSeq(s, 1, k + 1)
<1>1. /\ t \in Seq(S) /\ Len(t) = k /\ \A i \in 1 .. k : t[i] = s[i]
      /\ u \in Seq(S) /\ Len(u) = k + 1 /\ \A i \in 1 .. k + 1 : u[i] = s[i]
  OBVIOUS
<1> HIDE DEF t, u
<1>2. PICK d : IsDrops(t, k, d) /\ Dropped(t) = d[k]
  BY <1>1, DroppedIs
<1>3. PICK e : IsDrops(u, k + 1, e) /\ Dropped(u) = e[k + 1]
  BY <1>1, DroppedIs
<1>4. d[k] = e[k]
  <2>1. k \in Nat /\ k + 1 \in Nat /\ k <= k /\ k <= k + 1
    OBVIOUS
  <2>2. \A i \in 1 .. k : t[i] = u[i]
    BY <1>1
  <2> QED
    BY <1>2, <1>3, <2>1, <2>2, DropsAgree
<1>5. e[k + 1] = DropStep(u, e, k + 1)
  BY <1>3, DropsAt
<1>6. k = 0 => d[k] = <<>>
  <2>1. k \in Nat /\ k \in 0 .. k
    OBVIOUS
  <2>2. d[k] = DropStep(t, d, k)
    BY <1>2, <2>1, DropsAt
  <2> QED
    BY <2>2 DEF DropStep
<1>7. Dropped(u) = IF k >= 1 /\ s[k + 1].op = "drop" /\ Pushes(s[k])
                   THEN Append(Dropped(t), s[k].data) ELSE Dropped(t)
  <2>1. CASE k = 0
    BY <1>2, <1>3, <1>5, <1>6, <2>1 DEF DropStep
  <2>2. CASE k >= 1
    <3>1. u[k + 1] = s[k + 1] /\ u[k] = s[k] /\ ~(k + 1 < 2) /\ k + 1 - 1 = k
      BY <1>1, <2>2
    <3>2. DropStep(u, e, k + 1) =
            IF s[k + 1].op = "drop" /\ Pushes(s[k]) THEN Append(e[k], s[k].data) ELSE e[k]
      BY <3>1 DEF DropStep
    <3> QED
      BY <1>2, <1>3, <1>4, <1>5, <2>2, <3>2
  <2> QED
    BY <2>1, <2>2
<1> QED
  BY <1>7 DEF t, u

LEMMA DroppedNothing == Dropped(<<>>) = <<>>
BY DEF Dropped

-----------------------------------------------------------------------------
(* Output scripts, one turn of the loop at a time.                          *)
LEMMA SourceIs ==
  ASSUME TypeInv
  PROVE  /\ Len(source) \in Nat
         /\ \A i \in 1 .. Len(source) :
              /\ source[i] \in Operation
              /\ source[i].op \in {"push", "small", "drop", "return", "other", "cut", "back"}
              /\ source[i].op = "back" => source[i].number \in Nat
              /\ source[i].op # "push" => source[i].data = <<>>
BY OpDropAssumption DEF TypeInv

(* A turn takes the next operation.                                         *)
LEMMA TurnTakes ==
  ASSUME TypeInv, NEW k \in 0 .. Len(source), rest = SubSeq(source, k + 1, Len(source)), rest # <<>>
  PROVE  /\ k < Len(source) /\ k + 1 \in 1 .. Len(source) /\ Taken = k
         /\ operation = source[k + 1] /\ Tail(rest) = SubSeq(source, k + 2, Len(source))
         /\ Len(source) - Len(Tail(rest)) = k + 1
         /\ Len(source) - Len(rest) = k
<1>1. source \in Seq(Operation)
  BY DEF TypeInv
<1>2. /\ Len(rest) = Len(source) - k /\ k < Len(source)
      /\ Head(rest) = source[k + 1] /\ Tail(rest) = SubSeq(source, k + 2, Len(source))
  BY <1>1, TakeOne
<1>3. Len(SubSeq(source, k + 2, Len(source))) = Len(source) - (k + 1) /\ Len(source) \in Nat
  BY <1>1, <1>2
<1>4. Len(source) - Len(Tail(rest)) = k + 1 /\ Len(source) - Len(rest) = k
  <2>1. Len(Tail(rest)) = Len(source) - (k + 1)
    BY <1>2, <1>3, Zenon
  <2> DEFINE n == Len(source)
             a == Len(Tail(rest))
             b == Len(rest)
  <2>2. n \in Nat /\ k \in Int /\ a = n - (k + 1) /\ b = n - k
    BY <1>2, <1>3, <2>1
  <2> HIDE DEF n, a, b
  <2>3. n - a = k + 1 /\ n - b = k
    BY <2>2
  <2> QED
    BY <2>3 DEF n, a, b
<1>5. operation = source[k + 1]
  BY <1>2 DEF operation
<1> QED
  <2>1. Taken = k
    BY <1>4 DEF Taken
  <2>2. k + 1 \in 1 .. Len(source)
    BY <1>2, <1>3
  <2> QED
    BY <1>2, <1>4, <1>5, <2>1, <2>2, Zenon

(* Pairs grow by data in odd places and OP_DROP in even ones.               *)
LEMMA PairsStep ==
  ASSUME NEW k \in Nat
  PROVE  /\ k % 2 = 0 => (Pairs(k + 1) <=> Pairs(k) /\ Pushes(source[k + 1]))
         /\ k % 2 = 1 => (Pairs(k + 1) <=> Pairs(k) /\ source[k + 1].op = "drop")
<1>1. /\ k % 2 = 0 => (k + 1) % 2 = 1
      /\ k % 2 = 1 => (k + 1) % 2 # 1
  OBVIOUS
<1>2. \A i \in 1 .. k + 1 : i \in 1 .. k \/ i = k + 1
  OBVIOUS
<1>3. 1 .. k \subseteq 1 .. k + 1 /\ k + 1 \in 1 .. k + 1
  OBVIOUS
<1> QED
  BY <1>1, <1>2, <1>3 DEF Pairs

LEMMA PairsDataStep ==
  ASSUME NEW k \in Nat
  PROVE  /\ k % 2 = 0 => PairsData(k + 1) = PairsData(k)
         /\ k % 2 = 1 => PairsData(k + 1) = Append(PairsData(k), source[k].data)
<1>1. CASE k % 2 = 0
  <2>1. (k + 1) \div 2 = k \div 2
    BY <1>1
  <2> QED
    BY <1>1, <2>1 DEF PairsData
<1>2. CASE k % 2 = 1
  <2> DEFINE h == k \div 2
  <2>1. (k + 1) \div 2 = h + 1 /\ h \in Nat /\ 2 * (h + 1) - 1 = k
    BY <1>2
  <2>2. k \div 2 = h
    OBVIOUS
  <2> HIDE DEF h
  <2>3. [j \in 1 .. h + 1 |-> source[2 * j - 1].data] =
        Append([j \in 1 .. h |-> source[2 * j - 1].data], source[2 * (h + 1) - 1].data)
    <3> DEFINE S == {source[2 * j - 1].data : j \in 1 .. h + 1}
               f == [j \in 1 .. h + 1 |-> source[2 * j - 1].data]
               g == [j \in 1 .. h |-> source[2 * j - 1].data]
    <3>1. f \in Seq(S) /\ g \in Seq(S) /\ Len(f) = h + 1 /\ Len(g) = h
      <4>1. f \in [1 .. h + 1 -> S] /\ g \in [1 .. h -> S]
        BY <2>1
      <4>2. h \in Nat /\ h + 1 \in Nat
        BY <2>1
      <4> HIDE DEF S, f, g
      <4> QED
        BY <4>1, <4>2
    <3>2. source[2 * (h + 1) - 1].data \in S /\ f[h + 1] = source[2 * (h + 1) - 1].data
      BY <2>1
    <3>3. \A j \in 1 .. h : f[j] = g[j]
      BY <2>1
    <3> HIDE DEF S, f, g
    <3>4. f = Append(g, source[2 * (h + 1) - 1].data)
      <4> DEFINE x == source[2 * (h + 1) - 1].data
      <4>1. x \in S /\ f[h + 1] = x
        BY <3>2
      <4> HIDE DEF x
      <4>2. Append(g, x) \in Seq(S) /\ Len(Append(g, x)) = h + 1
        BY <3>1, <4>1
      <4>3. \A j \in 1 .. h + 1 : f[j] = Append(g, x)[j]
        BY <2>1, <3>1, <3>3, <4>1
      <4>4. f = Append(g, x)
        BY <3>1, <4>2, <4>3, SeqEqual
      <4> QED
        BY <4>4 DEF x
    <3> QED
      BY <3>4 DEF f, g
  <2> QED
    BY <1>2, <2>1, <2>2, <2>3 DEF PairsData
<1> QED
  BY <1>1, <1>2

(* Pairs and their data determine whether something is still to be dropped. *)
LastIs(k) == last = IF k = 0 \/ ~Pushes(source[k]) THEN None ELSE Some(source[k].data)

LEMMA LastOfPairs ==
  ASSUME NEW k \in Nat, Pairs(k), LastIs(k)
  PROVE  /\ last = None <=> k % 2 = 0
         /\ k % 2 = 1 => last = Some(source[k].data)
<1>1. k >= 1 => IF k % 2 = 1 THEN Pushes(source[k]) ELSE source[k].op = "drop"
  BY DEF Pairs
<1>2. k >= 1 /\ k % 2 = 0 => ~Pushes(source[k])
  BY <1>1 DEF Pushes
<1>3. k % 2 = 1 => k >= 1
  OBVIOUS
<1>4. k % 2 \in {0, 1}
  OBVIOUS
<1>5. \A x : Some(x) # None
  BY DEF Some, None
<1> QED
  BY <1>1, <1>2, <1>3, <1>4, <1>5 DEF LastIs

(* Before OP_RETURN the elements are the dropped data, also when they are   *)
(* one more.                                                                *)
Found(k) == elements = Dropped(SubSeq(source, 1, k)) /\ (Pairs(k) => elements = PairsData(k))

LEMMA SearchingIs ==
  ASSUME NEW k \in 0 .. Len(source), Taken = k
  PROVE  Searching <=>
           /\ ~isOpReturn /\ "return" \notin flags
           /\ rest = SubSeq(source, k + 1, Len(source))
           /\ \A i \in 1 .. k : source[i].op # "return"
           /\ Forward(k)
           /\ "dirty" \in flags <=> ~Pairs(k)
           /\ LastIs(k) /\ Found(k)
BY DEF Searching, LastIs, Found

(* What a turn leaves when it neither drops nor returns.                    *)
LEMMA SameFound ==
  ASSUME TypeInv, NEW k \in 0 .. Len(source) - 1, LastIs(k), Found(k), elements' = elements,
         source' = source, source[k + 1].op # "drop"
  PROVE  Found(k + 1)'
<1>1. source \in Seq(Operation) /\ k \in Nat
  BY DEF TypeInv
<1>2. Dropped(SubSeq(source, 1, k + 1)) = Dropped(SubSeq(source, 1, k))
  BY <1>1, DroppedStep
<1>3. Pairs(k + 1) => Pairs(k) /\ k % 2 = 0
  BY <1>1, PairsStep
<1>4. Pairs(k + 1) => PairsData(k + 1) = PairsData(k)
  BY <1>1, <1>3, PairsDataStep
<1>5. Pairs(k + 1)' = Pairs(k + 1) /\ PairsData(k + 1)' = PairsData(k + 1)
  BY DEF Pairs, PairsData
<1> QED
  BY <1>2, <1>3, <1>4, <1>5 DEF Found

LEMMA DropFound ==
  ASSUME TypeInv, NEW k \in 0 .. Len(source) - 1, LastIs(k), Found(k),
         elements' = IF last # None THEN Append(elements, last[1]) ELSE elements,
         source' = source, source[k + 1].op = "drop"
  PROVE  Found(k + 1)'
<1>1. source \in Seq(Operation) /\ k \in Nat
  BY DEF TypeInv
<1>2. \A x : Some(x) # None /\ Some(x)[1] = x
  BY DEF Some, None
<1>3. elements' = Dropped(SubSeq(source, 1, k + 1))
  <2>1. CASE k = 0 \/ ~Pushes(source[k])
    <3>1. last = None
      BY <2>1 DEF LastIs
    <3>2. Dropped(SubSeq(source, 1, k + 1)) = Dropped(SubSeq(source, 1, k))
      BY <1>1, <2>1, DroppedStep
    <3> QED
      BY <3>1, <3>2 DEF Found
  <2>2. CASE k # 0 /\ Pushes(source[k])
    <3>1. last = Some(source[k].data)
      BY <2>2 DEF LastIs
    <3>2. last # None /\ last[1] = source[k].data
      BY <1>2, <3>1
    <3>3. k >= 1 /\ source[k + 1].op = "drop" /\ Pushes(source[k])
      BY <1>1, <2>2
    <3>4. Dropped(SubSeq(source, 1, k + 1)) = Append(Dropped(SubSeq(source, 1, k)), source[k].data)
      BY <1>1, <3>3, DroppedStep
    <3> QED
      BY <3>2, <3>4 DEF Found
  <2> QED
    BY <2>1, <2>2
<1>4. ASSUME Pairs(k + 1) PROVE elements' = PairsData(k + 1)
  <2>1. Pairs(k) /\ k % 2 = 1
    <3>1. Pairs(k) /\ (k % 2 = 0 => Pushes(source[k + 1]))
      BY <1>1, <1>4, PairsStep
    <3>2. ~Pushes(source[k + 1])
      BY DEF Pushes
    <3> QED
      BY <1>1, <3>1, <3>2
  <2>2. last = Some(source[k].data)
    BY <1>1, <2>1, LastOfPairs
  <2>3. elements' = Append(PairsData(k), source[k].data)
    BY <1>2, <2>1, <2>2 DEF Found
  <2> QED
    BY <1>1, <2>1, <2>3, PairsDataStep
<1>5. Pairs(k + 1)' = Pairs(k + 1) /\ PairsData(k + 1)' = PairsData(k + 1)
  BY DEF Pairs, PairsData
<1> QED
  BY <1>3, <1>4, <1>5 DEF Found

(* One more operation was looked at, and it was not OP_RETURN.              *)
LEMMA ForwardStep ==
  ASSUME NEW k \in Nat, Forward(k), k + 1 \in 1 .. Len(source) => source[k + 1].op # "back"
  PROVE  Forward(k + 1)
<1> SUFFICES ASSUME NEW i \in 1 .. Len(source), i <= k + 1 PROVE source[i].op # "back"
  BY DEF Forward
<1>1. i <= k \/ i = k + 1
  OBVIOUS
<1> QED
  BY <1>1 DEF Forward

LEMMA StillSearching ==
  ASSUME TypeInv, NEW k \in 0 .. Len(source) - 1, Taken = k, Searching,
         source' = source, rest' = SubSeq(source, k + 2, Len(source)), Taken' = k + 1,
         ~isOpReturn', "return" \notin flags', source[k + 1].op \notin {"return", "back"},
         "dirty" \in flags' <=> ~Pairs(k + 1), LastIs(k + 1)', Found(k + 1)'
  PROVE  Searching'
<1>1. Pairs(k + 1)' <=> Pairs(k + 1)
  BY DEF Pairs
<1>2. \A i \in 1 .. k + 1 : source'[i].op # "return"
  <2>1. \A i \in 1 .. k : source[i].op # "return"
    BY DEF Searching
  <2> QED
    BY <2>1
<1>3. rest' = SubSeq(source', (k + 1) + 1, Len(source'))
  <2>1. (k + 1) + 1 = k + 2
    OBVIOUS
  <2> QED
    BY <2>1
<1>4. k + 1 \in 0 .. Len(source') /\ Taken' = k + 1
  BY DEF TypeInv
<1>5. Forward(k + 1)'
  BY ForwardStep DEF Searching, Forward
<1> QED
  BY <1>1, <1>2, <1>3, <1>4, <1>5 DEF Searching, Found, LastIs

LEMMA DropIsGood ==
  ASSUME TypeInv, NEW k \in 0 .. Len(source), Taken = k, Searching, OpDrop
  PROVE  Searching'
<1>1. /\ rest = SubSeq(source, k + 1, Len(source)) /\ rest # <<>> /\ operation.op = "drop"
      /\ source' = source /\ rest' = Tail(rest)
      /\ elements' = IF last # None THEN Append(elements, last[1]) ELSE elements
      /\ EndTurn(TRUE, FALSE, flags \cup {"drop"} \cup (IF last = None THEN {"dirty"} ELSE {}))
  BY DEF OpDrop, Continues, Searching
<1>2. /\ k < Len(source) /\ operation = source[k + 1] /\ rest' = SubSeq(source, k + 2, Len(source))
      /\ Taken' = k + 1
  BY <1>1, TurnTakes DEF Taken
<1>3. ~Pushes(operation)
  BY <1>1 DEF Pushes
<1>4. /\ ~isOpReturn' /\ last' = None
      /\ flags' = flags \cup {"drop"} \cup (IF last = None THEN {"dirty"} ELSE {})
  BY <1>1, <1>3 DEF EndTurn
<1>5. Len(source) \in Nat /\ k \in Nat /\ k \in 0 .. Len(source) - 1 /\ k + 1 \in 0 .. Len(source)
  BY <1>2 DEF TypeInv
<1>6. LastIs(k) /\ Found(k) /\ ("dirty" \in flags <=> ~Pairs(k))
  BY SearchingIs
<1>7. Found(k + 1)'
  BY <1>1, <1>2, <1>5, <1>6, DropFound
<1>8. LastIs(k + 1)'
  BY <1>1, <1>2, <1>3, <1>4 DEF LastIs
<1>9. "dirty" \in flags' <=> ~Pairs(k + 1)
  <2>1. CASE k % 2 = 0
    <3>1. ~Pairs(k + 1)
      BY <1>2, <1>3, <1>5, <2>1, PairsStep
    <3>2. Pairs(k) => last = None
      BY <1>5, <1>6, <2>1, LastOfPairs
    <3> QED
      BY <1>4, <1>6, <3>1, <3>2
  <2>2. CASE k % 2 = 1
    <3>1. Pairs(k + 1) <=> Pairs(k)
      BY <1>1, <1>2, <1>5, <2>2, PairsStep
    <3>2. Pairs(k) => last # None
      BY <1>5, <1>6, <2>2, LastOfPairs
    <3> QED
      BY <1>4, <1>6, <3>1, <3>2
  <2>3. k % 2 = 0 \/ k % 2 = 1
    BY <1>5
  <2> QED
    BY <2>1, <2>2, <2>3
<1>10. "return" \notin flags'
  BY <1>4 DEF Searching
<1> QED
  BY <1>1, <1>2, <1>4, <1>5, <1>7, <1>8, <1>9, <1>10, StillSearching

LEMMA OtherIsGood ==
  ASSUME TypeInv, NEW k \in 0 .. Len(source), Taken = k, Searching, Other
  PROVE  Searching'
<1>1. /\ rest = SubSeq(source, k + 1, Len(source)) /\ rest # <<>>
      /\ operation.op \in {"push", "small", "other"}
      /\ source' = source /\ rest' = Tail(rest) /\ elements' = elements
      /\ EndTurn(operation.data = <<>>, FALSE, flags \cup (IF last # None THEN {"dirty"} ELSE {}))
  BY DEF Other, Continues, Searching
<1>2. /\ k < Len(source) /\ operation = source[k + 1] /\ rest' = SubSeq(source, k + 2, Len(source))
      /\ Taken' = k + 1
  BY <1>1, TurnTakes DEF Taken
<1>3. Len(source) \in Nat /\ k \in Nat /\ k \in 0 .. Len(source) - 1 /\ k + 1 \in 0 .. Len(source)
      /\ k + 1 \in 1 .. Len(source)
  BY <1>2 DEF TypeInv
<1>4. operation.op = "other" => operation.data = <<>>
  BY <1>2, <1>3, SourceIs
<1>5. /\ ~isOpReturn'
      /\ Pushes(operation) => /\ last' = Some(operation.data)
                              /\ flags' = flags \cup (IF last # None THEN {"dirty"} ELSE {})
      /\ ~Pushes(operation) => last' = None /\ "dirty" \in flags' /\ flags' \subseteq flags \cup {"dirty"}
  BY <1>1, <1>4 DEF EndTurn, Pushes
<1>6. LastIs(k) /\ Found(k) /\ ("dirty" \in flags <=> ~Pairs(k))
  BY SearchingIs
<1>7. Found(k + 1)'
  BY <1>1, <1>2, <1>3, <1>6, SameFound
<1>8. LastIs(k + 1)'
  BY <1>1, <1>2, <1>3, <1>5 DEF LastIs
<1>9. "dirty" \in flags' <=> ~Pairs(k + 1)
  <2>1. CASE ~Pushes(operation)
    <3>1. ~Pushes(source[k + 1]) /\ source[k + 1].op # "drop"
      BY <1>1, <1>2, <2>1
    <3>2. ~Pairs(k + 1)
      BY <1>3, <3>1, PairsStep
    <3> QED
      BY <1>5, <2>1, <3>2
  <2>2. CASE Pushes(operation) /\ k % 2 = 0
    <3>1. Pairs(k + 1) <=> Pairs(k)
      BY <1>2, <1>3, <2>2, PairsStep
    <3>2. Pairs(k) => last = None
      BY <1>3, <1>6, <2>2, LastOfPairs
    <3> QED
      BY <1>5, <1>6, <2>2, <3>1, <3>2
  <2>3. CASE Pushes(operation) /\ k % 2 = 1
    <3>1. source[k + 1].op # "drop"
      BY <1>1, <1>2
    <3>2. ~Pairs(k + 1)
      BY <1>3, <2>3, <3>1, PairsStep
    <3>3. Pairs(k) => last # None
      BY <1>3, <1>6, <2>3, LastOfPairs
    <3> QED
      BY <1>5, <1>6, <2>3, <3>2, <3>3
  <2>4. k % 2 = 0 \/ k % 2 = 1
    BY <1>3
  <2> QED
    BY <2>1, <2>2, <2>3, <2>4
<1>10. "return" \notin flags'
  BY <1>5 DEF Searching
<1>11. source[k + 1].op \notin {"return", "back"}
  BY <1>1, <1>2
<1> QED
  BY <1>1, <1>2, <1>3, <1>5, <1>7, <1>8, <1>9, <1>10, <1>11, StillSearching

(* OP_RETURN, and what follows it.                                          *)
LEMMA ReturnIsGood ==
  ASSUME TypeInv, NEW k \in 0 .. Len(source), Taken = k, Searching, OpReturn
  PROVE  k + 1 \in 1 .. Len(source) /\ Returning(k + 1)'
<1>1. /\ rest = SubSeq(source, k + 1, Len(source)) /\ rest # <<>> /\ operation.op = "return"
      /\ source' = source /\ rest' = Tail(rest) /\ elements' = elements
      /\ EndTurn(TRUE, TRUE, flags \cup {"return"} \cup (IF last # None THEN {"dirty"} ELSE {}))
  BY DEF OpReturn, Continues, Searching
<1>2. /\ k < Len(source) /\ operation = source[k + 1] /\ rest' = SubSeq(source, k + 2, Len(source))
  BY <1>1, TurnTakes
<1>3. Len(source) \in Nat /\ k \in Nat /\ k + 1 \in 1 .. Len(source) /\ (k + 1) - 1 = k /\ (k + 1) + 1 = k + 2
  BY <1>2 DEF TypeInv
<1>4. isOpReturn' /\ flags' = flags \cup {"return"} \cup (IF last # None THEN {"dirty"} ELSE {})
  BY <1>1 DEF EndTurn
<1>5. LastIs(k) /\ Found(k) /\ ("dirty" \in flags <=> ~Pairs(k))
  BY SearchingIs
<1>6. FirstReturnAt(k + 1)'
  <2>1. \A i \in 1 .. k : source[i].op # "return"
    BY DEF Searching
  <2> QED
    BY <1>1, <1>2, <1>3, <2>1 DEF FirstReturnAt
<1>7. "dirty" \in flags' <=> ~CleanUpTo(k + 1)
  <2>1. CleanUpTo(k + 1) <=> Pairs(k) /\ k % 2 = 0
    <3>1. (k + 1) % 2 = 1 <=> k % 2 = 0
      BY <1>3
    <3> QED
      BY <1>3, <3>1 DEF CleanUpTo
  <2>2. Pairs(k) => (last = None <=> k % 2 = 0)
    BY <1>3, <1>5, LastOfPairs
  <2> QED
    BY <1>4, <1>5, <2>1, <2>2
<1>8. CleanUpTo(k + 1)' <=> CleanUpTo(k + 1)
  BY <1>1 DEF CleanUpTo, Pairs
<1>9. Found(k)'
  BY <1>1, <1>5 DEF Found, Pairs, PairsData
<1>10. Forward(k + 1)'
  <2>1. Forward(k) /\ source[k + 1].op # "back"
    BY <1>1, <1>2 DEF Searching
  <2>2. Forward(k + 1)
    BY <1>3, <2>1, ForwardStep
  <2> QED
    BY <1>1, <2>2 DEF Forward
<1>11. Returning(k + 1)'
  BY <1>1, <1>2, <1>3, <1>4, <1>6, <1>7, <1>8, <1>9, <1>10 DEF Returning, Found
<1> QED
  BY <1>3, <1>11

LEMMA ReturnDataIsGood ==
  ASSUME TypeInv, NEW r \in 1 .. Len(source), Returning(r), ReturnData
  PROVE  Returned(r)'
<1>1. /\ rest = SubSeq(source, r + 1, Len(source)) /\ rest # <<>>
      /\ operation.op \notin {"cut", "back"}
      /\ source' = source /\ rest' = <<>> /\ elements' = Append(elements, operation.data)
      /\ EndTurn(operation.data = <<>>, FALSE, flags)
  BY DEF ReturnData, Continues, Returning
<1>2. r \in 0 .. Len(source)
  OBVIOUS
<1>3. r < Len(source) /\ r + 1 \in 1 .. Len(source) /\ operation = source[r + 1]
  BY <1>1, <1>2, TurnTakes
<1>4. /\ operation.op \in {"push", "small", "drop", "return", "other"}
      /\ operation.op # "push" => operation.data = <<>>
  BY <1>1, <1>3, SourceIs
<1>5. /\ ~isOpReturn'
      /\ flags' = flags \cup (IF operation.op = "other" THEN {"dirty"} ELSE {})
  BY <1>1, <1>4 DEF EndTurn, Pushes
<1>6. CleanAfter(r) <=> operation.op # "other"
  BY <1>3, <1>4 DEF CleanAfter, DataKind
<1>7. "dirty" \in flags <=> ~CleanUpTo(r)
  BY DEF Returning
<1>8. "dirty" \in flags' <=> ~(CleanUpTo(r) /\ CleanAfter(r))
  BY <1>5, <1>6, <1>7
<1>9. ReturnedData(r) = operation.data
  BY <1>3 DEF ReturnedData
<1>10. /\ FirstReturnAt(r)' <=> FirstReturnAt(r)
       /\ CleanUpTo(r)' <=> CleanUpTo(r)
       /\ CleanAfter(r)' <=> CleanAfter(r)
       /\ ReturnedData(r)' = ReturnedData(r)
       /\ Pairs(r - 1)' <=> Pairs(r - 1)
       /\ PairsData(r - 1)' = PairsData(r - 1)
       /\ Dropped(SubSeq(source, 1, r - 1))' = Dropped(SubSeq(source, 1, r - 1))
  BY <1>1 DEF FirstReturnAt, CleanUpTo, CleanAfter, ReturnedData, Pairs, PairsData
<1>11. FirstReturnAt(r) /\ "return" \in flags'
  BY <1>5 DEF Returning
<1>12. /\ elements' = Append(Dropped(SubSeq(source, 1, r - 1)), ReturnedData(r))
       /\ Pairs(r - 1) => elements' = Append(PairsData(r - 1), ReturnedData(r))
  BY <1>1, <1>9 DEF Returning
<1>13. Forward(r + 1)'
  <2>1. Forward(r) /\ source[r + 1].op # "back" /\ r \in Nat
    BY <1>1, <1>3 DEF Returning
  <2>2. Forward(r + 1)
    BY <2>1, ForwardStep
  <2> QED
    BY <1>1, <2>2 DEF Forward
<1> QED
  BY <1>1, <1>5, <1>8, <1>10, <1>11, <1>12, <1>13 DEF Returned

(* The end of the script, after each of them.                               *)
LEMMA FinishSearching ==
  ASSUME TypeInv, NEW k \in 0 .. Len(source), Taken = k, Searching, Finish
  PROVE  NoReturn'
<1>1. source \in Seq(Operation)
  BY DEF TypeInv
<1>2. /\ rest = SubSeq(source, k + 1, Len(source)) /\ rest = <<>>
      /\ source' = source /\ elements' = elements /\ flags' = flags \ {"dirty"}
  BY DEF Finish, Searching
<1>3. k = Len(source)
  BY <1>1, <1>2, TakeOne
<1>4. SubSeq(source, 1, Len(source)) = source
  BY <1>1, SubSeqFull
<1>5. elements = Dropped(source) /\ \A i \in 1 .. Len(source) : source[i].op # "return"
  BY <1>3, <1>4 DEF Searching
<1>6. "return" \notin flags'
  BY <1>2 DEF Searching
<1>7. Forward(Len(source))'
  BY <1>2, <1>3 DEF Searching, Forward
<1> QED
  BY <1>2, <1>5, <1>6, <1>7 DEF NoReturn

LEMMA FinishReturning ==
  ASSUME TypeInv, NEW r \in 1 .. Len(source), Returning(r), Finish
  PROVE  EndsAt(r)'
<1>1. source \in Seq(Operation)
  BY DEF TypeInv
<1>2. /\ rest = SubSeq(source, r + 1, Len(source)) /\ rest = <<>>
      /\ source' = source /\ elements' = Append(elements, <<>>) /\ flags' = flags
  BY DEF Finish, Returning
<1>3. r \in 0 .. Len(source) /\ r = Len(source)
  BY <1>1, <1>2, TakeOne
<1>4. CleanAfter(r) /\ ReturnedData(r) = <<>>
  BY <1>3 DEF CleanAfter, ReturnedData
<1>5. /\ FirstReturnAt(r)' <=> FirstReturnAt(r)
      /\ CleanUpTo(r)' <=> CleanUpTo(r)
      /\ CleanAfter(r)' <=> CleanAfter(r)
      /\ ReturnedData(r)' = ReturnedData(r)
      /\ Pairs(r - 1)' <=> Pairs(r - 1)
      /\ PairsData(r - 1)' = PairsData(r - 1)
      /\ Dropped(SubSeq(source, 1, r - 1))' = Dropped(SubSeq(source, 1, r - 1))
  BY <1>2 DEF FirstReturnAt, CleanUpTo, CleanAfter, ReturnedData, Pairs, PairsData
<1>6. /\ FirstReturnAt(r) /\ "return" \in flags
      /\ "dirty" \in flags <=> ~CleanUpTo(r)
      /\ elements = Dropped(SubSeq(source, 1, r - 1))
      /\ Pairs(r - 1) => elements = PairsData(r - 1)
  BY DEF Returning
<1>7. Forward(r + 1)'
  BY <1>2, <1>3 DEF Returning, Forward
<1> QED
  BY <1>2, <1>4, <1>5, <1>6, <1>7 DEF EndsAt

LEMMA FinishReturned ==
  ASSUME TypeInv, NEW r \in 1 .. Len(source), Returned(r), Finish
  PROVE  EndsAt(r)'
<1>1. /\ source' = source /\ elements' = elements /\ flags' = flags
  BY DEF Finish, Returned
<1> QED
  BY <1>1 DEF Returned, EndsAt, FirstReturnAt, Forward, CleanUpTo, CleanAfter, ReturnedData, Pairs, PairsData

LEMMA PlaceBefore ==
  ASSUME NEW k \in Nat, NEW l \in Nat, k <= l, NEW b \in Nat, k < b, NEW n \in Nat, n <= k
  PROVE  \E m \in 0 .. l : m < b /\ k + 1 - n = m + 1
<1>1. k - n \in 0 .. l /\ k - n < b /\ k + 1 - n = (k - n) + 1
  OBVIOUS
<1> QED
  BY <1>1

(* A negative size is met again and again.                                  *)
LEMMA BackCircles ==
  ASSUME TypeInv, NEW k \in 0 .. Len(source), NEW b \in 1 .. Len(source), Taken = k,
         rest = SubSeq(source, k + 1, Len(source)), k < b,
         \A i \in 1 .. b : source[i].op # "return", source[b].op = "back", GoBack
  PROVE  Looping'
<1>1. /\ source' = source /\ ~isOpReturn' /\ operation.op = "back"
      /\ rest' = SubSeq(source, Taken + 1 - operation.number, Len(source))
      /\ operation.number <= Taken /\ rest # <<>>
  BY DEF GoBack, Continues
<1>2. k + 1 \in 1 .. Len(source) /\ operation = source[k + 1]
  BY <1>1, TurnTakes
<1>3. operation.number \in Nat /\ Len(source) \in Nat
  BY <1>1, <1>2, SourceIs
<1>4. PICK n \in Nat : n = operation.number
  BY <1>3
<1>5. n <= k /\ rest' = SubSeq(source, k + 1 - n, Len(source))
  BY <1>1, <1>4
<1>6. PICK m \in 0 .. Len(source) : m < b /\ k + 1 - n = m + 1
  <2>1. k \in Nat /\ k <= Len(source) /\ b \in Nat
    BY <1>3
  <2> QED
    <3>1. PICK l \in Nat : l = Len(source)
      BY <1>3
    <3>2. PICK m \in 0 .. l : m < b /\ k + 1 - n = m + 1
      <4>1. n <= k /\ k <= l
        BY <1>5, <2>1, <3>1
      <4> QED
        BY ONLY k \in Nat, l \in Nat, b \in Nat, n \in Nat, <4>1, k < b, PlaceBefore, <2>1
    <3> QED
      BY <3>1, <3>2
<1>7. Circling(m, b)'
  BY <1>1, <1>5, <1>6 DEF Circling
<1> QED
  BY <1>1, <1>6, <1>7 DEF Looping

LEMMA SearchingGoesBack ==
  ASSUME TypeInv, NEW k \in 0 .. Len(source), Taken = k, Searching, GoBack
  PROVE  Looping'
<1>1. rest = SubSeq(source, k + 1, Len(source)) /\ rest # <<>> /\ operation.op = "back"
  BY DEF GoBack, Continues, Searching
<1>2. k + 1 \in 1 .. Len(source) /\ operation = source[k + 1]
  BY <1>1, TurnTakes
<1>3. \A i \in 1 .. k + 1 : source[i].op # "return"
  <2>1. \A i \in 1 .. k : source[i].op # "return"
    BY DEF Searching
  <2> QED
    BY <1>1, <1>2, <2>1
<1> DEFINE b == k + 1
<1>4. b \in 1 .. Len(source) /\ k < b /\ source[b].op = "back" /\ \A i \in 1 .. b : source[i].op # "return"
  BY <1>1, <1>2, <1>3
<1> HIDE DEF b
<1> QED
  BY <1>1, <1>4, BackCircles

(* Whatever it does before the size, it does not pass it.                   *)
LEMMA StillLooping ==
  ASSUME TypeInv, type = "pubkey", Looping, Next
  PROVE  Looping' /\ result' # "ok"
<1>1. PICK k \in 0 .. Len(source), b \in 1 .. Len(source) : Circling(k, b)
  BY DEF Looping
<1>2. /\ ~isOpReturn /\ rest = SubSeq(source, k + 1, Len(source)) /\ k < b
      /\ source[b].op = "back" /\ \A i \in 1 .. b : source[i].op # "return"
  BY <1>1 DEF Circling
<1>3. source \in Seq(Operation) /\ Len(source) \in Nat /\ k < Len(source)
  BY <1>2 DEF TypeInv
<1>4. rest # <<>>
  BY <1>2, <1>3, TakeOne
<1>5. /\ Taken = k /\ k + 1 \in 1 .. Len(source) /\ operation = source[k + 1]
      /\ Tail(rest) = SubSeq(source, k + 2, Len(source))
  BY <1>2, <1>4, TurnTakes
<1>6. operation.op # "return" /\ (operation.op # "back" => k + 1 < b)
  <2>1. k + 1 \in 1 .. b
    BY <1>2, <1>5
  <2>2. k + 1 = b \/ k + 1 < b
    BY <2>1
  <2> QED
    BY <1>2, <1>5, <2>1, <2>2
<1>7. CASE Cut \/ GoAstray
  <2>1. source' = source /\ rest' = rest /\ isOpReturn' = isOpReturn /\ result' # "ok"
    BY <1>7 DEF Cut, GoAstray
  <2>2. Circling(k, b)'
    BY <1>2, <2>1 DEF Circling
  <2> QED
    BY <2>1, <2>2 DEF Looping
<1>8. CASE GoBack
  <2>1. Looping'
    BY <1>2, <1>5, <1>8, BackCircles
  <2>2. result' # "ok"
    BY <1>8 DEF GoBack, Continues
  <2> QED
    BY <2>1, <2>2
<1>9. CASE OpDrop \/ Other
  <2>1. /\ source' = source /\ rest' = Tail(rest) /\ ~isOpReturn' /\ result' # "ok"
        /\ operation.op # "back"
    BY <1>9 DEF OpDrop, Other, EndTurn, Continues
  <2> DEFINE m == k + 1
  <2>2. m \in 0 .. Len(source) /\ m < b /\ rest' = SubSeq(source, m + 1, Len(source))
    <3>1. m + 1 = k + 2 /\ m \in 0 .. Len(source)
      BY <1>5
    <3> QED
      BY <1>5, <1>6, <2>1, <3>1
  <2> HIDE DEF m
  <2>3. Circling(m, b)'
    BY <1>2, <2>1, <2>2 DEF Circling
  <2> QED
    BY <2>1, <2>2, <2>3 DEF Looping
<1>10. CASE OpReturn \/ ReturnData \/ SigData \/ Finish
  BY <1>2, <1>4, <1>6, <1>10 DEF OpReturn, ReturnData, SigData, Finish
<1> QED
  BY <1>7, <1>8, <1>9, <1>10 DEF Next

-----------------------------------------------------------------------------
(* Input scripts of multisignature addresses.                               *)
LEMMA SubSeqGrows ==
  ASSUME NEW S, NEW s \in Seq(S), NEW k \in 0 .. Len(s) - 1
  PROVE  Append(SubSeq(s, 1, k), s[k + 1]) = SubSeq(s, 1, k + 1)
<1> DEFINE t == SubSeq(s, 1, k)
           u == SubSeq(s, 1, k + 1)
<1>1. /\ t \in Seq(S) /\ Len(t) = k /\ \A i \in 1 .. k : t[i] = s[i]
      /\ u \in Seq(S) /\ Len(u) = k + 1 /\ \A i \in 1 .. k + 1 : u[i] = s[i]
      /\ s[k + 1] \in S /\ k \in Nat
  OBVIOUS
<1> HIDE DEF t, u
<1>2. /\ Append(t, s[k + 1]) \in Seq(S) /\ Len(Append(t, s[k + 1])) = k + 1
      /\ \A i \in 1 .. k + 1 : Append(t, s[k + 1])[i] = s[i]
  BY <1>1
<1>3. Append(t, s[k + 1]) = u
  <2>1. \A i \in 1 .. k + 1 : Append(t, s[k + 1])[i] = u[i]
    BY <1>1, <1>2
  <2> QED
    BY <1>1, <1>2, <2>1, SeqEqual
<1> QED
  BY <1>3 DEF t, u

(* What such a script is made of.                                           *)
Operations == Operation \cup Inner

LEMMA MultisigIs ==
  ASSUME TypeInv, IsMultisigInput(source)
  PROVE  LET n == Len(source)
         IN  /\ n \in Nat /\ n > 2 /\ source \in Seq(Operations) /\ Redeem \in Seq(Operations)
             /\ Len(Redeem) \in Nat /\ Len(Redeem) > 1
             /\ Redeem[1].op = "small" /\ Redeem[1].number = n - 2
             /\ \A i \in 1 .. n - 1 : Len(source[i].data) \in Nat /\ Len(source[i].data) <= 1
             /\ \A i \in 1 .. Len(Redeem) : Len(Redeem[i].data) \in Nat /\ Len(Redeem[i].data) <= 1
<1> DEFINE n == Len(source)
<1>1. /\ n \in Nat /\ n > 2 /\ \A i \in 1 .. n : source[i] \in Operation
      /\ source \in Seq(Operations)
  BY DEF TypeInv, IsMultisigInput, Operations
<1>2. Redeem \in Seq(Inner)
  <2>1. source[n] \in Operation
    BY <1>1
  <2> QED
    BY <2>1, OpDropAssumption DEF Redeem
<1>3. Redeem \in Seq(Operations) /\ Len(Redeem) \in Nat /\ \A i \in 1 .. Len(Redeem) : Redeem[i] \in Inner
  BY <1>2 DEF Operations
<1>4. Len(Redeem) > 1 /\ Redeem[1].op = "small" /\ Redeem[1].number = n - 2
  BY DEF IsMultisigInput, Redeem
<1>5. ASSUME NEW i \in 1 .. n - 1
      PROVE  Len(source[i].data) \in Nat /\ Len(source[i].data) <= 1
  <2>1. source[i].data \in Seq(Inner)
    BY <1>1, OpDropAssumption
  <2>2. CASE i = 1
    <3>1. source[1].data = <<>>
      BY DEF IsMultisigInput
    <3> QED
      BY <2>2, <3>1
  <2>3. CASE i # 1
    <3>1. i \in 2 .. n - 1
      BY <2>3
    <3>2. Len(source[i].data) = 1
      BY <3>1 DEF IsMultisigInput
    <3> QED
      BY <3>2
  <2> QED
    BY <2>2, <2>3
<1>6. ASSUME NEW i \in 1 .. Len(Redeem)
      PROVE  Len(Redeem[i].data) \in Nat /\ Len(Redeem[i].data) <= 1
  <2>1. Len(Redeem[i].data) <= 1
    BY DEF IsMultisigInput, Redeem
  <2>2. Redeem[i] \in Inner
    BY <1>3
  <2>3. Len(Redeem[i].data) \in Nat
    BY <2>2, OpDropAssumption
  <2> QED
    BY <2>1, <2>3
<1> QED
  BY <1>1, <1>3, <1>4, <1>5, <1>6

LEMMA OpenedIs ==
  ASSUME TypeInv, IsMultisigInput(source)
  PROVE  LET n == Len(source)
         IN  /\ Opened \in Seq(Operations) /\ Len(Opened) = n - 1 + Len(Redeem)
             /\ \A i \in 1 .. n - 1 : Opened[i] = source[i]
             /\ \A i \in n .. Len(Opened) : Opened[i] = Redeem[i - n + 1]
             /\ Redeem = SubSeq(Opened, n, Len(Opened))
<1> DEFINE n == Len(source)
           front == SubSeq(source, 1, n - 1)
<1>1. /\ n \in Nat /\ n > 2 /\ source \in Seq(Operations) /\ Redeem \in Seq(Operations)
      /\ Len(Redeem) \in Nat
  BY MultisigIs
<1>2. front \in Seq(Operations) /\ Len(front) = n - 1 /\ \A i \in 1 .. n - 1 : front[i] = source[i]
  BY <1>1
<1> HIDE DEF front
<1>3. Opened = front \o Redeem
  BY DEF Opened, front
<1>4. Opened \in Seq(Operations) /\ Len(Opened) = n - 1 + Len(Redeem)
  BY <1>1, <1>2, <1>3, ConcatProperties
<1>5. \A i \in 1 .. n - 1 : Opened[i] = source[i]
  BY <1>1, <1>2, <1>3
<1>6. \A i \in n .. Len(Opened) : Opened[i] = Redeem[i - n + 1]
  <2> TAKE i \in n .. Len(Opened)
  <2>1. i \in 1 .. Len(front) + Len(Redeem) /\ ~(i <= Len(front)) /\ i - Len(front) = i - n + 1
    BY <1>1, <1>2, <1>4
  <2> QED
    BY <1>1, <1>2, <1>3, <2>1, ConcatProperties
<1>7. Redeem = SubSeq(Opened, n, Len(Opened))
  <2> DEFINE t == SubSeq(Opened, n, Len(Opened))
  <2>1. n \in 1 .. Len(Opened) + 1 /\ Len(Opened) \in Nat
    BY <1>1, <1>4
  <2>2. t \in Seq(Operations) /\ Len(t) = Len(Redeem)
    BY <1>1, <1>4, <2>1
  <2>3. \A i \in 1 .. Len(t) : t[i] = Redeem[i]
    <3> TAKE i \in 1 .. Len(t)
    <3>1. t[i] = Opened[n + i - 1]
      BY <1>4, <2>1
    <3>2. n + i - 1 \in n .. Len(Opened) /\ (n + i - 1) - n + 1 = i
      BY <1>1, <1>4, <2>2
    <3> QED
      BY <1>6, <3>1, <3>2
  <2> HIDE DEF t
  <2>4. t = Redeem
    BY <1>1, <2>2, <2>3, SeqEqual
  <2> QED
    BY <2>4 DEF t
<1> QED
  BY <1>4, <1>5, <1>6, <1>7

(* One more element: it is the next of those wanted.                        *)
LEMMA WantedNext ==
  ASSUME TypeInv, IsMultisigInput(source), NEW k \in 0 .. Len(Opened) - 1,
         elements = SubSeq(Wanted, 1, k), elements' = Append(elements, AsElement(Opened[k + 1]))
  PROVE  elements' = SubSeq(Wanted, 1, k + 1) /\ Len(elements') = k + 1
<1> DEFINE T == {AsElement(Opened[i]) : i \in 1 .. Len(Opened)}
<1>1. Len(Opened) \in Nat
  BY OpenedIs, MultisigIs
<1>2. Wanted \in Seq(T) /\ Len(Wanted) = Len(Opened) /\ Wanted[k + 1] = AsElement(Opened[k + 1])
  BY <1>1 DEF Wanted
<1> HIDE DEF T
<1>3. elements' = SubSeq(Wanted, 1, k + 1)
  BY <1>1, <1>2, SubSeqGrows
<1>4. Len(SubSeq(Wanted, 1, k + 1)) = k + 1
  BY <1>1, <1>2
<1> QED
  BY <1>3, <1>4

LEMMA WantedIs ==
  ASSUME TypeInv, IsMultisigInput(source)
  PROVE  /\ SubSeq(Wanted, 1, Len(Opened)) = Wanted /\ Len(Wanted) = Len(Opened)
         /\ SubSeq(Wanted, 1, 0) = <<>>
<1> DEFINE T == {AsElement(Opened[i]) : i \in 1 .. Len(Opened)}
<1>1. Len(Opened) \in Nat
  BY OpenedIs, MultisigIs
<1>2. Wanted \in Seq(T) /\ Len(Wanted) = Len(Opened)
  BY <1>1 DEF Wanted
<1> HIDE DEF T
<1>3. SubSeq(Wanted, 1, Len(Wanted)) = Wanted
  BY <1>2, SubSeqFull
<1> QED
  BY <1>2, <1>3

Multisig ==
  /\ ~isOpReturn /\ elements = SubSeq(Wanted, 1, Len(elements))
  /\ BeforeRedeem \/ InRedeem

(* Before the redeem script every operation is an element.                  *)
LEMMA SignatureIsGood ==
  ASSUME TypeInv, IsMultisigInput(source), Multisig, BeforeRedeem, SigData,
         Len(elements) + 1 < Len(source)
  PROVE  Multisig'
<1> DEFINE k == Len(elements)
           n == Len(source)
<1>1. /\ n \in Nat /\ n > 2 /\ k \in 0 .. n - 2 /\ k \in 0 .. n /\ k + 1 \in 1 .. n - 1
      /\ Len(source[k + 1].data) \in Nat /\ Len(source[k + 1].data) <= 1
  BY MultisigIs DEF BeforeRedeem
<1>2. /\ rest = SubSeq(source, k + 1, n) /\ rest # <<>> /\ source' = source
  BY DEF BeforeRedeem, SigData, Continues
<1>3. operation = source[k + 1] /\ Tail(rest) = SubSeq(source, k + 2, n)
  BY <1>1, <1>2, TurnTakes
<1>4. ~IsRedeemScript
  BY <1>1, <1>3 DEF IsRedeemScript
<1>5. /\ elements' = Append(elements, AsElement(source[k + 1]))
      /\ rest' = Tail(rest) /\ ~isOpReturn'
  BY <1>3, <1>4 DEF SigData, EndTurn, AsElement
<1>6. k \in 0 .. Len(Opened) - 1 /\ Opened[k + 1] = source[k + 1]
  <2>1. Len(Redeem) \in Nat /\ Len(Opened) = n - 1 + Len(Redeem)
    BY MultisigIs, OpenedIs
  <2>2. Opened[k + 1] = source[k + 1]
    BY <1>1, OpenedIs
  <2> QED
    BY <1>1, <2>1, <2>2
<1>7. elements' = SubSeq(Wanted, 1, k + 1) /\ Len(elements') = k + 1
  <2>1. elements = SubSeq(Wanted, 1, k)
    BY DEF Multisig
  <2> HIDE DEF k
  <2> QED
    BY <1>5, <1>6, <2>1, WantedNext
<1>8. Wanted' = Wanted
  BY <1>2 DEF Wanted, Opened, Redeem
<1>9. Len(elements') \in 0 .. n - 1 /\ rest' = SubSeq(source, Len(elements') + 1, n)
  <2>1. (k + 1) + 1 = k + 2
    BY <1>1
  <2> QED
    BY <1>1, <1>3, <1>5, <1>7, <2>1
<1>10. BeforeRedeem'
  BY <1>2, <1>9 DEF BeforeRedeem
<1> QED
  BY <1>5, <1>7, <1>8, <1>10 DEF Multisig

(* The last operation is the redeem script: what is in it comes next.       *)
LEMMA RedeemIsOpened ==
  ASSUME TypeInv, IsMultisigInput(source), Multisig, BeforeRedeem, SigData,
         Len(elements) + 1 = Len(source)
  PROVE  Multisig'
<1> DEFINE k == Len(elements)
           n == Len(source)
<1>1. /\ n \in Nat /\ n > 2 /\ k \in 0 .. n /\ k = n - 1 /\ k + 1 = n
      /\ Redeem \in Seq(Operations) /\ Len(Redeem) > 1 /\ Redeem[1].op = "small" /\ Redeem[1].number = n - 2
  BY MultisigIs DEF BeforeRedeem
<1>2. /\ rest = SubSeq(source, k + 1, n) /\ rest # <<>> /\ source' = source
  BY DEF BeforeRedeem, SigData, Continues
<1>3. operation = source[n] /\ Tail(rest) = SubSeq(source, k + 2, n)
  BY <1>1, <1>2, TurnTakes
<1>4. IsRedeemScript
  BY <1>1, <1>3 DEF IsRedeemScript, Redeem
<1>5. Tail(rest) = <<>>
  BY <1>1, <1>3 DEF TypeInv
<1>6. /\ elements' = elements /\ rest' = Redeem \o Tail(rest) /\ ~isOpReturn'
  BY <1>3, <1>4 DEF SigData, EndTurn, Redeem
<1>7. rest' = Redeem
  BY <1>1, <1>5, <1>6, ConcatEmptySeq
<1>8. /\ Len(Opened) = n - 1 + Len(Redeem) /\ Len(Redeem) \in Nat
      /\ Redeem = SubSeq(Opened, n, Len(Opened))
  BY OpenedIs, MultisigIs
<1>9. /\ Len(elements') \in n - 1 .. Len(Opened)
      /\ rest' = SubSeq(Opened, Len(elements') + 1, Len(Opened))
  <2>1. Len(elements') = n - 1 /\ Len(elements') + 1 = n
    BY <1>1, <1>6
  <2>2. n - 1 \in n - 1 .. Len(Opened)
    BY <1>1, <1>8
  <2> QED
    BY <1>7, <1>8, <2>1, <2>2
<1>10. Opened' = Opened /\ Wanted' = Wanted
  BY <1>2 DEF Wanted, Opened, Redeem
<1>11. InRedeem'
  BY <1>2, <1>9, <1>10 DEF InRedeem
<1> QED
  BY <1>6, <1>10, <1>11 DEF Multisig

(* Inside it every operation is an element again.                           *)
LEMMA InsideIsGood ==
  ASSUME TypeInv, IsMultisigInput(source), Multisig, InRedeem, SigData
  PROVE  Multisig'
<1> DEFINE k == Len(elements)
           n == Len(source)
           m == Len(Opened)
<1>1. /\ n \in Nat /\ n > 2 /\ Opened \in Seq(Operations) /\ Len(Redeem) \in Nat
      /\ m = n - 1 + Len(Redeem) /\ m \in Nat /\ k \in n - 1 .. m /\ k \in 0 .. m
  BY MultisigIs, OpenedIs DEF InRedeem
<1>2. /\ rest = SubSeq(Opened, k + 1, m) /\ rest # <<>> /\ source' = source
  BY DEF InRedeem, SigData, Continues
<1>3. k < m /\ operation = Opened[k + 1] /\ Tail(rest) = SubSeq(Opened, k + 2, m)
  <2> HIDE DEF k
  <2> QED
    BY <1>1, <1>2, TakeOne DEF operation
<1>4. operation = Redeem[k + 1 - n + 1] /\ k + 1 - n + 1 \in 1 .. Len(Redeem)
  <2>1. k + 1 \in n .. m /\ k + 1 - n + 1 \in 1 .. Len(Redeem)
    BY <1>1, <1>3
  <2> QED
    BY <1>3, <2>1, OpenedIs
<1>5. Len(operation.data) \in Nat /\ Len(operation.data) <= 1
  BY <1>4, MultisigIs
<1>6. ~IsRedeemScript
  BY <1>5 DEF IsRedeemScript
<1>7. /\ elements' = Append(elements, AsElement(Opened[k + 1]))
      /\ rest' = Tail(rest) /\ ~isOpReturn'
  BY <1>3, <1>6 DEF SigData, EndTurn, AsElement
<1>8. elements' = SubSeq(Wanted, 1, k + 1) /\ Len(elements') = k + 1
  <2>1. elements = SubSeq(Wanted, 1, k) /\ k \in 0 .. m - 1
    BY <1>1, <1>3 DEF Multisig
  <2> HIDE DEF k
  <2> QED
    BY <1>7, <2>1, WantedNext
<1>9. Opened' = Opened /\ Wanted' = Wanted
  BY <1>2 DEF Wanted, Opened, Redeem
<1>10. Len(elements') \in n - 1 .. m /\ rest' = SubSeq(Opened, Len(elements') + 1, m)
  <2>1. (k + 1) + 1 = k + 2 /\ k + 1 \in n - 1 .. m
    BY <1>1, <1>3
  <2> QED
    BY <1>3, <1>7, <1>8, <2>1
<1>11. InRedeem'
  BY <1>2, <1>9, <1>10 DEF InRedeem
<1> QED
  BY <1>7, <1>8, <1>9, <1>11 DEF Multisig

LEMMA FinishMultisig ==
  ASSUME TypeInv, IsMultisigInput(source), Multisig, Finish
  PROVE  elements = Wanted
<1>1. rest = <<>>
  BY DEF Finish
<1>2. CASE BeforeRedeem
  <2> DEFINE k == Len(elements)
  <2>1. k \in 0 .. Len(source) /\ k # Len(source) /\ rest = SubSeq(source, k + 1, Len(source))
    BY <1>2, MultisigIs DEF BeforeRedeem
  <2> HIDE DEF k
  <2> QED
    BY <1>1, <2>1, TakeOne DEF TypeInv
<1>3. CASE InRedeem
  <2> DEFINE k == Len(elements)
  <2>1. k \in 0 .. Len(Opened) /\ rest = SubSeq(Opened, k + 1, Len(Opened)) /\ Opened \in Seq(Operations)
    <3>1. Len(source) \in Nat /\ Len(source) > 2 /\ Opened \in Seq(Operations)
      BY MultisigIs, OpenedIs
    <3> QED
      BY <1>3, <3>1 DEF InRedeem
  <2>2. elements = SubSeq(Wanted, 1, k)
    BY DEF Multisig
  <2> HIDE DEF k
  <2>3. k = Len(Opened)
    BY <1>1, <2>1, TakeOne
  <2> QED
    BY <2>2, <2>3, WantedIs
<1> QED
  BY <1>2, <1>3 DEF Multisig

-----------------------------------------------------------------------------
(* The invariant: initially, and after every step.                          *)
LEMMA InitGood == Init => IInv
<1> SUFFICES ASSUME Init PROVE IInv
  OBVIOUS
<1>1. source \in Seq(Operation)
  <2>1. PICK n \in 0 .. MaxLength : source \in [1 .. n -> Operation]
    BY DEF Init, Scripts
  <2>2. n \in Nat
    BY OpDropAssumption
  <2> QED
    BY <2>1, <2>2
<1>2. TypeInv
  BY <1>1 DEF TypeInv, Init
<1>3. /\ rest = source /\ ~isOpReturn /\ last = None /\ flags = {} /\ elements = <<>> /\ result = "running"
  BY DEF Init
<1>4. SubSeq(source, 1, Len(source)) = source /\ Len(source) \in Nat
  BY <1>1, SubSeqFull
<1>5. Searching
  <2>1. Len(source) - Len(rest) = 0
    BY <1>3, <1>4
  <2>2. Taken = 0
    BY <2>1 DEF Taken
  <2>3. Pairs(0) /\ LastIs(0)
    BY <1>3 DEF Pairs, LastIs
  <2>4. elements = PairsData(0)
    <3>1. 0 \div 2 = 0
      OBVIOUS
    <3>2. [j \in 1 .. 0 |-> source[2 * j - 1].data] = <<>>
      OBVIOUS
    <3> QED
      BY <1>3, <3>1, <3>2 DEF PairsData
  <2>5. Found(0)
    <3>1. SubSeq(source, 1, 0) = <<>>
      BY <1>1
    <3> QED
      BY <1>3, <2>4, <3>1, DroppedNothing DEF Found
  <2>6. 0 \in 0 .. Len(source) /\ rest = SubSeq(source, 0 + 1, Len(source))
    BY <1>3, <1>4
  <2>7. (\A i \in 1 .. 0 : source[i].op # "return") /\ Forward(0)
    BY DEF Forward
  <2>8. ~isOpReturn /\ "return" \notin flags /\ "dirty" \notin flags
    BY <1>3
  <2> QED
    BY <2>2, <2>3, <2>5, <2>6, <2>7, <2>8, SearchingIs
<1>6. PubkeyInv
  BY <1>3, <1>5 DEF PubkeyInv
<1>7. SigInv
  <2> SUFFICES ASSUME IsMultisigInput(source)
               PROVE  /\ ~isOpReturn /\ elements = SubSeq(Wanted, 1, Len(elements)) /\ BeforeRedeem
    BY <1>3 DEF SigInv
  <2>1. Len(source) > 2
    BY DEF IsMultisigInput
  <2>2. elements = SubSeq(Wanted, 1, Len(elements))
    BY <1>2, <1>3, WantedIs
  <2>3. BeforeRedeem
    BY <1>3, <1>4, <2>1 DEF BeforeRedeem
  <2> QED
    BY <1>3, <2>2, <2>3
<1> QED
  BY <1>2, <1>6, <1>7 DEF IInv

LEMMA NextKeepsType == TypeInv /\ [Next]_vars => TypeInv'
BY DEF TypeInv, Next, vars, Cut, GoBack, GoAstray, OpReturn, OpDrop, Other, ReturnData, SigData, Finish

LEMMA NextKeepsPubkey ==
  ASSUME TypeInv, PubkeyInv, [Next]_vars
  PROVE  PubkeyInv'
<1> SUFFICES ASSUME type' = "pubkey"
             PROVE  IF result' = "ok" THEN NoReturn' \/ \E r \in 1 .. Len(source') : EndsAt(r)'
                    ELSE Searching' \/ Looping' \/ \E r \in 1 .. Len(source') : Returning(r)' \/ Returned(r)'
  BY DEF PubkeyInv
<1>1. type = "pubkey" /\ source' = source
  BY DEF Next, vars, Cut, GoBack, GoAstray, OpReturn, OpDrop, Other, ReturnData, SigData, Finish
<1>2. result = "running" /\ ~Looping => Searching \/ \E r \in 1 .. Len(source) : Returning(r) \/ Returned(r)
  BY <1>1 DEF PubkeyInv
<1>3. Searching => Taken \in 0 .. Len(source)
  BY DEF Searching
<1>4. ASSUME NEW r \in 1 .. Len(source)
      PROVE  /\ Returning(r) => isOpReturn
             /\ Returned(r) => rest = <<>>
  BY DEF Returning, Returned
<1>5. CASE Cut /\ ~Looping
  <2>1. /\ rest' = rest /\ isOpReturn' = isOpReturn /\ last' = last /\ flags' = flags
        /\ elements' = elements /\ result = "running" /\ result' = "wrong"
    BY <1>5 DEF Cut, Continues
  <2>2. Searching => Searching'
    BY <1>1, <2>1 DEF Searching, Taken, Forward, Pairs, PairsData
  <2>3. ASSUME NEW r \in 1 .. Len(source), Returning(r) PROVE Returning(r)'
    BY <1>1, <2>1, <2>3 DEF Returning, FirstReturnAt, Forward, CleanUpTo, Pairs, PairsData
  <2>4. ASSUME NEW r \in 1 .. Len(source), Returned(r) PROVE Returned(r)'
    BY <1>1, <2>1, <2>4
       DEF Returned, FirstReturnAt, Forward, CleanUpTo, CleanAfter, ReturnedData, Pairs, PairsData
  <2> QED
    BY <1>1, <1>2, <1>5, <2>1, <2>2, <2>3, <2>4
<1>13. CASE GoAstray /\ ~Looping
  <2>1. /\ rest' = rest /\ isOpReturn' = isOpReturn /\ last' = last /\ flags' = flags
        /\ elements' = elements /\ result = "running" /\ result' = "astray"
    BY <1>13 DEF GoAstray, Continues
  <2>2. Searching => Searching'
    BY <1>1, <2>1 DEF Searching, Taken, Forward, Pairs, PairsData
  <2>3. ASSUME NEW r \in 1 .. Len(source), Returning(r) PROVE Returning(r)'
    BY <1>1, <2>1, <2>3 DEF Returning, FirstReturnAt, Forward, CleanUpTo, Pairs, PairsData
  <2>4. ASSUME NEW r \in 1 .. Len(source), Returned(r) PROVE Returned(r)'
    BY <1>1, <2>1, <2>4
       DEF Returned, FirstReturnAt, Forward, CleanUpTo, CleanAfter, ReturnedData, Pairs, PairsData
  <2> QED
    BY <1>1, <1>2, <1>13, <2>1, <2>2, <2>3, <2>4
<1>14. CASE GoBack /\ ~Looping
  <2>1. result = "running" /\ result' = "running" /\ ~isOpReturn /\ rest # <<>>
    BY <1>14 DEF GoBack, Continues
  <2>2. Searching
    BY <1>2, <1>4, <1>14, <2>1
  <2>3. Looping'
    BY <1>3, <1>14, <2>2, SearchingGoesBack
  <2> QED
    BY <2>1, <2>3
<1>15. CASE Looping /\ Next
  BY <1>1, <1>15, StillLooping
<1>6. CASE OpReturn /\ ~Looping
  <2>1. result = "running" /\ result' = "running" /\ ~isOpReturn /\ rest # <<>>
    BY <1>6 DEF OpReturn, Continues
  <2>2. Searching
    BY <1>2, <1>4, <1>6, <2>1
  <2>3. PICK k \in 0 .. Len(source) : k = Taken
    BY <1>3, <2>2
  <2>4. k + 1 \in 1 .. Len(source) /\ Returning(k + 1)'
    BY <1>6, <2>2, <2>3, ReturnIsGood
  <2> QED
    BY <1>1, <2>1, <2>4
<1>7. CASE OpDrop /\ ~Looping
  <2>1. result = "running" /\ result' = "running" /\ ~isOpReturn /\ rest # <<>>
    BY <1>7 DEF OpDrop, Continues
  <2>2. Searching
    BY <1>2, <1>4, <1>7, <2>1
  <2>3. Searching'
    BY <1>3, <1>7, <2>2, DropIsGood
  <2> QED
    BY <2>1, <2>3
<1>8. CASE Other /\ ~Looping
  <2>1. result = "running" /\ result' = "running" /\ ~isOpReturn /\ rest # <<>>
    BY <1>8 DEF Other, Continues
  <2>2. Searching
    BY <1>2, <1>4, <1>8, <2>1
  <2>3. Searching'
    BY <1>3, <1>8, <2>2, OtherIsGood
  <2> QED
    BY <2>1, <2>3
<1>9. CASE ReturnData /\ ~Looping
  <2>1. result = "running" /\ result' = "running" /\ isOpReturn /\ rest # <<>>
    BY <1>9 DEF ReturnData, Continues
  <2>2. PICK r \in 1 .. Len(source) : Returning(r)
    BY <1>2, <1>4, <1>9, <2>1 DEF Searching
  <2>3. Returned(r)'
    BY <1>9, <2>2, ReturnDataIsGood
  <2> QED
    BY <1>1, <2>1, <2>3
<1>10. CASE SigData /\ ~Looping
  BY <1>1, <1>10 DEF SigData
<1>11. CASE Finish /\ ~Looping
  <2>1. result = "running" /\ result' = "ok"
    BY <1>11 DEF Finish
  <2>2. CASE Searching
    <3>1. NoReturn'
      BY <1>3, <1>11, <2>2, FinishSearching
    <3> QED
      BY <2>1, <3>1
  <2>3. CASE \E r \in 1 .. Len(source) : Returning(r) \/ Returned(r)
    <3>1. PICK r \in 1 .. Len(source) : Returning(r) \/ Returned(r)
      BY <2>3
    <3>2. EndsAt(r)'
      BY <1>11, <3>1, FinishReturning, FinishReturned
    <3> QED
      BY <1>1, <2>1, <3>2
  <2> QED
    BY <1>2, <1>11, <2>1, <2>2, <2>3
<1>12. CASE UNCHANGED vars
  <2>1. /\ rest' = rest /\ isOpReturn' = isOpReturn /\ last' = last /\ flags' = flags
        /\ elements' = elements /\ result' = result
    BY <1>12 DEF vars
  <2>2. Searching => Searching'
    BY <1>1, <2>1 DEF Searching, Taken, Forward, Pairs, PairsData
  <2>3. ASSUME NEW r \in 1 .. Len(source)
        PROVE  /\ Returning(r) => Returning(r)' 
               /\ Returned(r) => Returned(r)'
               /\ EndsAt(r) => EndsAt(r)'
    BY <1>1, <2>1
       DEF Returning, Returned, EndsAt, FirstReturnAt, Forward, CleanUpTo, CleanAfter, ReturnedData, Pairs, PairsData
  <2>4. NoReturn => NoReturn'
    BY <1>1, <2>1 DEF NoReturn, Forward
  <2>5. Looping => Looping'
    BY <1>1, <2>1 DEF Looping, Circling
  <2> QED
    BY <1>1, <2>1, <2>2, <2>3, <2>4, <2>5 DEF PubkeyInv
<1> QED
  BY <1>5, <1>6, <1>7, <1>8, <1>9, <1>10, <1>11, <1>12, <1>13, <1>14, <1>15 DEF Next

LEMMA NextKeepsSig ==
  ASSUME TypeInv, SigInv, [Next]_vars
  PROVE  SigInv'
<1>1. type' = type /\ source' = source
  BY DEF Next, vars, Cut, GoBack, GoAstray, OpReturn, OpDrop, Other, ReturnData, SigData, Finish
<1>2. Opened' = Opened /\ Wanted' = Wanted
  BY <1>1 DEF Wanted, Opened, Redeem
<1> SUFFICES ASSUME type = "sig", IsMultisigInput(source)
             PROVE  /\ ~isOpReturn'
                    /\ elements' = SubSeq(Wanted, 1, Len(elements'))
                    /\ IF result' = "ok" THEN elements' = Wanted ELSE BeforeRedeem' \/ InRedeem'
  BY <1>1, <1>2 DEF SigInv, IsMultisigInput
<1>3. /\ ~isOpReturn /\ elements = SubSeq(Wanted, 1, Len(elements))
      /\ IF result = "ok" THEN elements = Wanted ELSE BeforeRedeem \/ InRedeem
  BY DEF SigInv
<1>4. CASE SigData
  <2>1. result # "ok" /\ result' = result
    BY <1>4 DEF SigData, Continues
  <2>2. Multisig
    BY <1>3, <2>1 DEF Multisig
  <2>3. Multisig'
    <3>1. CASE InRedeem
      BY <1>4, <2>2, <3>1, InsideIsGood
    <3>2. CASE BeforeRedeem
      <4>1. Len(elements) + 1 < Len(source) \/ Len(elements) + 1 = Len(source)
        BY <3>2, MultisigIs DEF BeforeRedeem
      <4> QED
        BY <1>4, <2>2, <3>2, <4>1, SignatureIsGood, RedeemIsOpened
    <3> QED
      BY <1>3, <2>1, <3>1, <3>2
  <2> QED
    BY <1>2, <2>1, <2>3 DEF Multisig
<1>5. CASE Finish
  <2>1. result # "ok" /\ result' = "ok" /\ elements' = elements /\ ~isOpReturn'
    BY <1>3, <1>5 DEF Finish
  <2>2. Multisig
    BY <1>3, <2>1 DEF Multisig
  <2>3. elements = Wanted
    BY <1>5, <2>2, FinishMultisig
  <2> QED
    BY <1>3, <2>1, <2>3
<1>6. CASE Cut
  <2>1. /\ rest' = rest /\ isOpReturn' = isOpReturn
        /\ elements' = elements /\ result = "running" /\ result' = "wrong"
    BY <1>6 DEF Cut, Continues
  <2> QED
    BY <1>1, <1>2, <1>3, <2>1 DEF BeforeRedeem, InRedeem
<1>7. CASE UNCHANGED vars
  <2>1. /\ rest' = rest /\ isOpReturn' = isOpReturn /\ elements' = elements /\ result' = result
    BY <1>7 DEF vars
  <2> QED
    BY <1>1, <1>2, <1>3, <2>1 DEF BeforeRedeem, InRedeem
<1>8. CASE OpReturn \/ OpDrop \/ Other \/ ReturnData \/ GoBack
  BY <1>8 DEF OpReturn, OpDrop, Other, ReturnData, GoBack
<1>9. CASE GoAstray
  <2>1. /\ rest' = rest /\ isOpReturn' = isOpReturn
        /\ elements' = elements /\ result = "running" /\ result' = "astray"
    BY <1>9 DEF GoAstray, Continues
  <2> QED
    BY <1>1, <1>2, <1>3, <2>1 DEF BeforeRedeem, InRedeem
<1> QED
  BY <1>4, <1>5, <1>6, <1>7, <1>8, <1>9 DEF Next

LEMMA InductiveInvariant == Spec => []IInv
<1>1. IInv /\ [Next]_vars => IInv'
  BY NextKeepsType, NextKeepsPubkey, NextKeepsSig DEF IInv
<1> QED
  BY InitGood, <1>1, PTL DEF Spec

-----------------------------------------------------------------------------
(* What is found in an output script.                                       *)

(* The grammar says of the first OP_RETURN what the invariant does.         *)
LEMMA GrammarOfPairs ==
  ASSUME TypeInv, NEW r \in 1 .. Len(source), FirstReturnAt(r)
  PROVE  IsGrammatical(source) <=> CleanUpTo(r) /\ CleanAfter(r)
<1>1. Len(source) \in Nat /\ source[r].op = "return" /\ \A i \in 1 .. r - 1 : source[i].op # "return"
  BY DEF TypeInv, FirstReturnAt
<1>2. ASSUME IsGrammatical(source)
      PROVE  CleanUpTo(r) /\ CleanAfter(r)
  <2>1. PICK n \in 0 .. Len(source) :
          /\ 2 * n + 1 <= Len(source)
          /\ \A i \in 1 .. n : Pushes(source[2 * i - 1]) /\ source[2 * i].op = "drop"
          /\ source[2 * n + 1].op = "return"
          /\ 2 * n + 2 <= Len(source) => source[2 * n + 2].op \in DataKind
    BY <1>2 DEF IsGrammatical, DataKind
  <2>2. Pairs(2 * n)
    <3> SUFFICES ASSUME NEW i \in 1 .. 2 * n
                 PROVE  IF i % 2 = 1 THEN Pushes(source[i]) ELSE source[i].op = "drop"
      BY DEF Pairs
    <3>1. CASE i % 2 = 1
      <4>1. (i + 1) \div 2 \in 1 .. n /\ 2 * ((i + 1) \div 2) - 1 = i
        BY <3>1
      <4> QED
        BY <2>1, <3>1, <4>1
    <3>2. CASE i % 2 # 1
      <4>1. i \div 2 \in 1 .. n /\ 2 * (i \div 2) = i
        BY <3>2
      <4> QED
        BY <2>1, <3>2, <4>1
    <3> QED
      BY <3>1, <3>2
  <2>3. r = 2 * n + 1
    <3>1. ~(2 * n + 1 < r)
      BY <1>1, <2>1
    <3>2. ~(r < 2 * n + 1)
      <4> SUFFICES ASSUME r \in 1 .. 2 * n PROVE FALSE
        OBVIOUS
      <4>1. Pushes(source[r]) \/ source[r].op = "drop"
        BY <2>2 DEF Pairs
      <4> QED
        BY <1>1, <4>1 DEF Pushes
    <3> QED
      BY <3>1, <3>2
  <2>4. r - 1 = 2 * n /\ r % 2 = 1 /\ r + 1 = 2 * n + 2
    BY <2>3
  <2>5. r < Len(source) => 2 * n + 2 <= Len(source)
    BY <1>1, <2>3
  <2> QED
    BY <2>1, <2>2, <2>4, <2>5 DEF CleanUpTo, CleanAfter
<1>3. ASSUME CleanUpTo(r), CleanAfter(r)
      PROVE  IsGrammatical(source)
  <2>1. PICK n \in 0 .. Len(source) : r = 2 * n + 1
    <3>1. r % 2 = 1
      BY <1>3 DEF CleanUpTo
    <3>2. r \div 2 \in 0 .. Len(source) /\ r = 2 * (r \div 2) + 1
      BY <1>1, <3>1
    <3> QED
      BY <3>2
  <2>2. Pairs(2 * n)
    <3>1. r - 1 = 2 * n
      BY <2>1
    <3> QED
      BY <1>3, <3>1 DEF CleanUpTo
  <2>3. ASSUME NEW i \in 1 .. n
        PROVE  Pushes(source[2 * i - 1]) /\ source[2 * i].op = "drop"
    <3>1. /\ 2 * i - 1 \in 1 .. 2 * n /\ (2 * i - 1) % 2 = 1
          /\ 2 * i \in 1 .. 2 * n /\ (2 * i) % 2 # 1
      OBVIOUS
    <3> QED
      BY <2>2, <3>1 DEF Pairs
  <2>4. 2 * n + 2 <= Len(source) => source[2 * n + 2].op \in DataKind
    <3>1. r + 1 = 2 * n + 2 /\ (2 * n + 2 <= Len(source) => r < Len(source))
      BY <1>1, <2>1
    <3> QED
      BY <1>3, <3>1 DEF CleanAfter
  <2>5. 2 * n + 1 <= Len(source) /\ source[2 * n + 1].op = "return"
    BY <1>1, <2>1
  <2> QED
    BY <2>3, <2>4, <2>5 DEF IsGrammatical, DataKind
<1> QED
  BY <1>2, <1>3

(* A script is clean exactly when it is  (<data> OP_DROP)* OP_RETURN  with  *)
(* at most data after it: the flags that SetScript collects turn by turn    *)
(* recognise this grammar and nothing else (hdacscript.cpp:405-510).        *)
THEOREM CleanScriptsAreGrammatical == Spec => []CleanIsGrammatical
<1>1. IInv => CleanIsGrammatical
  <2> SUFFICES ASSUME IInv, result = "ok", type = "pubkey"
               PROVE  Clean <=> IsGrammatical(source)
    BY DEF CleanIsGrammatical
  <2>1. TypeInv
    BY DEF IInv
  <2>2. CASE NoReturn
    <3>1. ~Clean
      BY <2>2 DEF Clean, NoReturn
    <3>2. ~IsGrammatical(source)
      <4> SUFFICES ASSUME NEW n \in 0 .. Len(source), 2 * n + 1 <= Len(source),
                          source[2 * n + 1].op = "return"
                   PROVE  FALSE
        BY DEF IsGrammatical
      <4>1. 2 * n + 1 \in 1 .. Len(source)
        BY <2>1 DEF TypeInv
      <4> QED
        BY <2>2, <4>1 DEF NoReturn
    <3> QED
      BY <3>1, <3>2
  <2>3. ASSUME NEW r \in 1 .. Len(source), EndsAt(r)
        PROVE  Clean <=> IsGrammatical(source)
    <3>1. /\ FirstReturnAt(r) /\ "return" \in flags
          /\ "dirty" \in flags <=> ~(CleanUpTo(r) /\ CleanAfter(r))
      BY <2>3 DEF EndsAt
    <3>2. IsGrammatical(source) <=> CleanUpTo(r) /\ CleanAfter(r)
      BY <2>1, <3>1, GrammarOfPairs
    <3> QED
      BY <3>1, <3>2 DEF Clean
  <2> QED
    BY <2>2, <2>3 DEF IInv, PubkeyInv
<1> QED
  BY <1>1, InductiveInvariant, PTL

(* A standard input script of a multisignature address becomes OP_0, its    *)
(* signatures, and the operations of the redeem script                      *)
(* (hdacscript.cpp:446-461).                                                *)
THEOREM RedeemScriptsAreOpened == Spec => []RedeemScriptIsOpened
<1>1. IInv => RedeemScriptIsOpened
  <2> SUFFICES ASSUME IInv, result = "ok", type = "sig", IsMultisigInput(source)
               PROVE  elements =
                        [i \in 1 .. Len(source) - 1 + Len(source[Len(source)].data) |->
                           AsElement(IF i < Len(source) THEN source[i]
                                     ELSE source[Len(source)].data[i - Len(source) + 1])]
    BY DEF RedeemScriptIsOpened
  <2> DEFINE n == Len(source)
  <2>1. TypeInv
    BY DEF IInv
  <2>2. elements = Wanted
    BY DEF IInv, SigInv
  <2>3. /\ n \in Nat /\ Len(Redeem) \in Nat /\ Len(Opened) = n - 1 + Len(Redeem)
        /\ \A i \in 1 .. n - 1 : Opened[i] = source[i]
        /\ \A i \in n .. Len(Opened) : Opened[i] = Redeem[i - n + 1]
    BY <2>1, MultisigIs, OpenedIs
  <2>4. ASSUME NEW i \in 1 .. Len(Opened)
        PROVE  Opened[i] = IF i < n THEN source[i] ELSE Redeem[i - n + 1]
    <3>1. i < n => i \in 1 .. n - 1
      BY <2>3
    <3>2. ~(i < n) => i \in n .. Len(Opened)
      BY <2>3
    <3> QED
      BY <2>3, <3>1, <3>2
  <2>5. Wanted = [i \in 1 .. n - 1 + Len(Redeem) |->
                    AsElement(IF i < n THEN source[i] ELSE Redeem[i - n + 1])]
    BY <2>3, <2>4 DEF Wanted
  <2> QED
    BY <2>2, <2>5 DEF Redeem
<1> QED
  BY <1>1, InductiveInvariant, PTL

-----------------------------------------------------------------------------
(* The data of an output script: all of it, by both parsers.                *)
DropData == Seq(Inner)

LEMMA DroppedIsData ==
  ASSUME NEW s \in Seq(Operation)
  PROVE  Dropped(s) \in Seq(DropData)
<1>1. PICK d : IsDrops(s, Len(s), d) /\ Dropped(s) = d[Len(s)]
  BY DroppedIs
<1> DEFINE T == {k \in 0 .. Len(s) : d[k] \notin Seq(DropData)}
<1> SUFFICES ASSUME T # {} PROVE FALSE
  BY <1>1
<1>2. T \in SUBSET Nat
  OBVIOUS
<1>3. PICK k \in T : \A j \in T : k <= j
  BY <1>2, LeastNatural
<1>4. k \in 0 .. Len(s) /\ d[k] \notin Seq(DropData)
  OBVIOUS
<1>5. d[k] = DropStep(s, d, k)
  BY <1>1, <1>4, DropsAt
<1>6. CASE k < 2
  BY <1>4, <1>5, <1>6 DEF DropStep
<1>7. CASE k >= 2
  <2>1. k - 1 \in 0 .. Len(s) /\ k - 1 \notin T /\ k - 1 \in 1 .. Len(s)
    BY <1>3, <1>4, <1>7
  <2>2. d[k - 1] \in Seq(DropData) /\ s[k - 1].data \in DropData
    BY <2>1, OpDropAssumption DEF DropData
  <2>3. Append(d[k - 1], s[k - 1].data) \in Seq(DropData)
    BY <2>2
  <2>4. DropStep(s, d, k) \in {d[k - 1], Append(d[k - 1], s[k - 1].data)}
    BY <1>4, <1>7 DEF DropStep
  <2> QED
    BY <1>4, <1>5, <2>2, <2>3, <2>4
<1> QED
  BY <1>4, <1>6, <1>7

(* The first OP_RETURN is where both parsers say it is.                     *)
LEMMA FirstOfReturns ==
  ASSUME TypeInv, NEW r \in 1 .. Len(source), FirstReturnAt(r), NEW start \in 1 .. r
  PROVE  /\ ReturnsFrom(source, start) # {}
         /\ r = CHOOSE i \in ReturnsFrom(source, start) : \A j \in ReturnsFrom(source, start) : i <= j
<1> DEFINE returns == ReturnsFrom(source, start)
<1>1. Len(source) \in Nat /\ source[r].op = "return" /\ \A i \in 1 .. r - 1 : source[i].op # "return"
  BY DEF TypeInv, FirstReturnAt
<1>2. r \in returns
  BY <1>1 DEF ReturnsFrom
<1>3. \A j \in returns : r <= j /\ j \in Nat
  <2> SUFFICES ASSUME NEW j \in start .. Len(source), source[j].op = "return" PROVE r <= j /\ j \in Nat
    BY DEF ReturnsFrom
  <2>1. ~(j \in 1 .. r - 1)
    BY <1>1
  <2> QED
    BY <1>1, <2>1
<1> HIDE DEF returns
<1>4. \A i \in returns : (\A j \in returns : i <= j) => i = r
  <2> SUFFICES ASSUME NEW i \in returns, \A j \in returns : i <= j PROVE i = r
    OBVIOUS
  <2>1. i <= r /\ r <= i /\ i \in Nat
    BY <1>2, <1>3
  <2> QED
    BY <2>1
<1>5. \A j \in returns : r <= j
  BY <1>3
<1>6. r = CHOOSE i \in returns : \A j \in returns : i <= j
  BY <1>2, <1>4, <1>5
<1> QED
  BY <1>2, <1>6 DEF returns

(* Whether or not it is clean, an output script that was accepted has as    *)
(* elements the data right before an OP_DROP, up to the first OP_RETURN,    *)
(* and then the data of that (hdacscript.cpp:405-485).                      *)
LEMMA AllDataFound == IInv => ElementsAreTheData
<1> SUFFICES ASSUME IInv, result = "ok", type = "pubkey"
             PROVE  LET at == FirstReturn(source)
                    IN  elements = Dropped(SubSeq(source, 1, at - 1)) \o
                          (IF at > Len(source) THEN <<>>
                           ELSE IF at = Len(source) THEN <<<<>>>> ELSE <<source[at + 1].data>>)
  BY DEF ElementsAreTheData
<1>1. TypeInv /\ source \in Seq(Operation) /\ Len(source) \in Nat
  BY DEF IInv, TypeInv
<1>2. CASE NoReturn
  <2>1. ReturnsFrom(source, 1) = {}
    BY <1>2 DEF NoReturn, ReturnsFrom
  <2>2. FirstReturn(source) = Len(source) + 1
    BY <2>1 DEF FirstReturn
  <2>3. SubSeq(source, 1, Len(source) + 1 - 1) = source
    <3>1. Len(source) + 1 - 1 = Len(source)
      BY <1>1
    <3> QED
      BY <1>1, <3>1, SubSeqFull
  <2>4. Dropped(source) \o <<>> = Dropped(source)
    BY <1>1, DroppedIsData, ConcatEmptySeq
  <2>5. Len(source) + 1 > Len(source)
    BY <1>1
  <2>6. elements = Dropped(SubSeq(source, 1, Len(source) + 1 - 1)) \o <<>>
    BY <1>2, <2>3, <2>4 DEF NoReturn
  <2> DEFINE at == FirstReturn(source)
  <2>7. at = Len(source) + 1
    BY <2>2
  <2> HIDE DEF at
  <2>8. elements = Dropped(SubSeq(source, 1, at - 1)) \o
          (IF at > Len(source) THEN <<>>
           ELSE IF at = Len(source) THEN <<<<>>>> ELSE <<source[at + 1].data>>)
    <3>1. at > Len(source) /\ elements = Dropped(SubSeq(source, 1, at - 1)) \o <<>>
      BY <2>5, <2>6, <2>7
    <3> QED
      BY <3>1, Zenon
  <2> QED
    BY <2>8 DEF at
<1>3. ASSUME NEW r \in 1 .. Len(source), EndsAt(r)
      PROVE  LET at == FirstReturn(source)
             IN  elements = Dropped(SubSeq(source, 1, at - 1)) \o
                   (IF at > Len(source) THEN <<>>
                    ELSE IF at = Len(source) THEN <<<<>>>> ELSE <<source[at + 1].data>>)
  <2>1. FirstReturnAt(r) /\ elements = Append(Dropped(SubSeq(source, 1, r - 1)), ReturnedData(r))
    BY <1>3 DEF EndsAt
  <2>2. FirstReturn(source) = r
    <3>1. 1 \in 1 .. r
      BY <1>1
    <3> QED
      BY <1>1, <2>1, <3>1, FirstOfReturns DEF FirstReturn
  <2>3. SubSeq(source, 1, r - 1) \in Seq(Operation)
    BY <1>1
  <2>4. ReturnedData(r) \in DropData
    <3>1. r < Len(source) => r + 1 \in 1 .. Len(source)
      BY <1>1
    <3>2. r < Len(source) => source[r + 1] \in Operation
      BY <1>1, <3>1
    <3> QED
      BY <3>2, OpDropAssumption DEF ReturnedData, DropData
  <2>5. elements = Dropped(SubSeq(source, 1, r - 1)) \o <<ReturnedData(r)>>
    BY <2>1, <2>3, <2>4, DroppedIsData, AppendIsConcat
  <2>6. <<ReturnedData(r)>> = IF r > Len(source) THEN <<>>
                              ELSE IF r = Len(source) THEN <<<<>>>> ELSE <<source[r + 1].data>>
    BY <1>1 DEF ReturnedData
  <2> QED
    BY <2>2, <2>5, <2>6
<1> QED
  BY <1>2, <1>3 DEF IInv, PubkeyInv

(* The turns of the second parser.                                          *)
IsTurns(s, c, n, f) ==
  f = [t \in 0 .. n |-> IF t = 0 THEN [data |-> <<>>, at |-> 1] ELSE DropTurn(s, c, f[t - 1])]

LEMMA TurnsExist == ASSUME NEW s, NEW c, NEW n \in Nat PROVE \E f : IsTurns(s, c, n, f)
<1> DEFINE T == {k \in Nat : ~ \E f : IsTurns(s, c, k, f)}
<1> SUFFICES ASSUME T # {} PROVE FALSE
  OBVIOUS
<1>1. T \in SUBSET Nat
  OBVIOUS
<1>2. PICK m \in T : \A k \in T : m <= k
  BY <1>1, LeastNatural
<1>3. CASE m = 0
  <2> DEFINE e == [t \in 0 .. 0 |-> [data |-> <<>>, at |-> 1]]
  <2>1. e = [t \in 0 .. 0 |-> IF t = 0 THEN [data |-> <<>>, at |-> 1] ELSE DropTurn(s, c, e[t - 1])]
    OBVIOUS
  <2> HIDE DEF e
  <2>2. IsTurns(s, c, 0, e)
    BY <2>1 DEF IsTurns
  <2> QED
    BY <1>3, <2>2
<1>4. CASE m # 0
  <2>1. m \in Nat /\ m - 1 \in Nat /\ m - 1 \notin T
    BY <1>1, <1>2, <1>4
  <2>2. PICK f : IsTurns(s, c, m - 1, f)
    BY <2>1
  <2> DEFINE e == [t \in 0 .. m |-> IF t < m THEN f[t] ELSE DropTurn(s, c, f[m - 1])]
  <2>3. \A t \in 0 .. m - 1 : e[t] = f[t]
    BY <2>1
  <2>4. e[m] = DropTurn(s, c, f[m - 1]) /\ e = [t \in 0 .. m |-> e[t]]
    BY <2>1
  <2>5. \A t \in 0 .. m - 1 : f[t] = IF t = 0 THEN [data |-> <<>>, at |-> 1] ELSE DropTurn(s, c, f[t - 1])
    BY <2>2 DEF IsTurns
  <2> HIDE DEF e
  <2>6. ASSUME NEW t \in 0 .. m
        PROVE  e[t] = IF t = 0 THEN [data |-> <<>>, at |-> 1] ELSE DropTurn(s, c, e[t - 1])
    <3>1. t \in 0 .. m - 1 \/ t = m
      BY <2>1
    <3>2. t # 0 => e[t - 1] = f[t - 1]
      BY <2>1, <2>3
    <3>3. t \in 0 .. m - 1 => e[t] = f[t]
      BY <2>3
    <3>4. m # 0
      BY <1>4
    <3>5. CASE t = m
      BY <2>4, <3>2, <3>4, <3>5
    <3>6. CASE t \in 0 .. m - 1
      BY <2>5, <3>2, <3>3, <3>6
    <3> QED
      BY <3>1, <3>5, <3>6
  <2>7. IsTurns(s, c, m, e)
    BY <2>4, <2>6 DEF IsTurns
  <2> QED
    BY <1>2, <2>7
<1> QED
  BY <1>3, <1>4

LEMMA DropsFromIs ==
  ASSUME NEW s, NEW c, Len(s) \in Nat
  PROVE  \E f : IsTurns(s, c, Len(s), f) /\ DropsFrom(s, c) = f[Len(s)]
<1> DEFINE turns[t \in 0 .. Len(s)] ==
        IF t = 0 THEN [data |-> <<>>, at |-> 1] ELSE DropTurn(s, c, turns[t - 1])
<1>1. DropsFrom(s, c) = turns[Len(s)]
  BY DEF DropsFrom
<1>2. IsTurns(s, c, Len(s), turns)
  <2>1. \E f : IsTurns(s, c, Len(s), f)
    BY TurnsExist
  <2> QED
    BY <2>1 DEF IsTurns
<1> QED
  BY <1>1, <1>2

(* In a clean script each turn takes one pair, until enough are taken or    *)
(* OP_RETURN is there.                                                      *)
Lesser(a, b) == IF a < b THEN a ELSE b
FoundPairs(j) == [data |-> PairsData(2 * j), at |-> 2 * j + 1]

LEMMA OneTurn ==
  ASSUME TypeInv, NEW n \in Nat, 2 * n + 1 \in 1 .. Len(source), FirstReturnAt(2 * n + 1), Pairs(2 * n),
         NEW c \in Nat, NEW j \in 0 .. Lesser(c, n)
  PROVE  DropTurn(source, c, FoundPairs(j)) = FoundPairs(Lesser(j + 1, Lesser(c, n)))
<1>1. Len(source) \in Nat /\ source[2 * n + 1].op = "return" /\ j <= c /\ j <= n /\ j \in Nat
  BY DEF TypeInv, FirstReturnAt, Lesser
<1>2. PairsData(2 * j) = [i \in 1 .. j |-> source[2 * i - 1].data]
  <2>1. (2 * j) \div 2 = j
    BY <1>1
  <2> QED
    BY <2>1 DEF PairsData
<1>3. Len(PairsData(2 * j)) = j
  BY <1>1, <1>2
<1>4. FoundPairs(j).data = PairsData(2 * j) /\ FoundPairs(j).at = 2 * j + 1
  BY DEF FoundPairs
<1>5. CASE j = c \/ j = n
  <2>1. Len(FoundPairs(j).data) = c \/ source[FoundPairs(j).at].op = "return"
    BY <1>1, <1>3, <1>4, <1>5
  <2>2. Lesser(j + 1, Lesser(c, n)) = j
    BY <1>1, <1>5 DEF Lesser
  <2> QED
    BY <2>1, <2>2 DEF DropTurn
<1>6. CASE j < c /\ j < n
  <2>1. /\ 2 * j + 1 \in 1 .. 2 * n /\ (2 * j + 1) % 2 = 1
        /\ 2 * j + 2 \in 1 .. 2 * n /\ (2 * j + 2) % 2 # 1
    BY <1>1, <1>6
  <2>2. Pushes(source[2 * j + 1]) /\ source[2 * j + 2].op = "drop"
    BY <2>1 DEF Pairs
  <2>3. source[2 * j + 1].op # "return"
    BY <2>2 DEF Pushes
  <2>4. /\ Len(FoundPairs(j).data) # c /\ ~(FoundPairs(j).at > Len(source))
        /\ FoundPairs(j).at < Len(source) /\ FoundPairs(j).at + 1 = 2 * j + 2
        /\ FoundPairs(j).at + 2 = 2 * (j + 1) + 1
    BY <1>1, <1>3, <1>4, <1>6
  <2>5. DropTurn(source, c, FoundPairs(j)) =
          [data |-> Append(PairsData(2 * j), source[2 * j + 1].data), at |-> 2 * (j + 1) + 1]
    BY <1>4, <2>2, <2>3, <2>4 DEF DropTurn
  <2>6. Append(PairsData(2 * j), source[2 * j + 1].data) = PairsData(2 * (j + 1))
    <3>1. /\ 2 * j \in Nat /\ 2 * j + 1 \in Nat /\ (2 * j) % 2 = 0 /\ (2 * j + 1) % 2 = 1
          /\ (2 * j + 1) + 1 = 2 * (j + 1)
      BY <1>1
    <3>2. PairsData(2 * j + 1) = PairsData(2 * j)
      BY <3>1, PairsDataStep
    <3>3. PairsData((2 * j + 1) + 1) = Append(PairsData(2 * j + 1), source[2 * j + 1].data)
      BY <3>1, PairsDataStep
    <3> QED
      BY <3>1, <3>2, <3>3
  <2>7. Lesser(j + 1, Lesser(c, n)) = j + 1
    BY <1>1, <1>6 DEF Lesser
  <2> QED
    BY <2>5, <2>6, <2>7 DEF FoundPairs
<1> QED
  BY <1>1, <1>5, <1>6

LEMMA DropsOfClean ==
  ASSUME TypeInv, NEW n \in Nat, 2 * n + 1 \in 1 .. Len(source), FirstReturnAt(2 * n + 1), Pairs(2 * n),
         NEW c \in Nat
  PROVE  DropsFrom(source, c) = FoundPairs(Lesser(c, n))
<1> DEFINE h == Lesser(c, n)
           m == Len(source)
<1>1. m \in Nat /\ h \in Nat /\ h <= m
  BY DEF TypeInv, Lesser
<1>2. PICK f : IsTurns(source, c, m, f) /\ DropsFrom(source, c) = f[m]
  BY <1>1, DropsFromIs
<1> DEFINE T == {t \in 0 .. m : f[t] # FoundPairs(Lesser(t, h))}
<1>3. T = {}
  <2> SUFFICES ASSUME T # {} PROVE FALSE
    OBVIOUS
  <2>1. T \in SUBSET Nat
    OBVIOUS
  <2>2. PICK t \in T : \A u \in T : t <= u
    BY <2>1, LeastNatural
  <2>3. t \in 0 .. m /\ f[t] # FoundPairs(Lesser(t, h))
    OBVIOUS
  <2>4. f[t] = IF t = 0 THEN [data |-> <<>>, at |-> 1] ELSE DropTurn(source, c, f[t - 1])
    BY <1>2, <2>3 DEF IsTurns
  <2>5. CASE t = 0
    <3>1. Lesser(0, h) = 0
      BY <1>1 DEF Lesser
    <3>2. PairsData(2 * 0) = <<>>
      <4>1. (2 * 0) \div 2 = 0
        OBVIOUS
      <4>2. [j \in 1 .. 0 |-> source[2 * j - 1].data] = <<>>
        OBVIOUS
      <4> QED
        BY <4>1, <4>2 DEF PairsData
    <3>3. FoundPairs(0) = [data |-> <<>>, at |-> 1]
      BY <3>2 DEF FoundPairs
    <3> QED
      BY <2>3, <2>4, <2>5, <3>1, <3>3
  <2>6. CASE t # 0
    <3>1. t - 1 \in 0 .. m /\ t - 1 \notin T
      BY <2>2, <2>3, <2>6
    <3>2. f[t - 1] = FoundPairs(Lesser(t - 1, h))
      BY <3>1
    <3>3. Lesser(t - 1, h) \in 0 .. h
      BY <1>1, <3>1 DEF Lesser
    <3>4. DropTurn(source, c, f[t - 1]) = FoundPairs(Lesser(Lesser(t - 1, h) + 1, h))
      BY <3>2, <3>3, OneTurn
    <3>5. Lesser(Lesser(t - 1, h) + 1, h) = Lesser(t, h)
      <4> HIDE DEF h
      <4> QED
        BY <1>1, <2>3 DEF Lesser
    <3> QED
      BY <2>3, <2>4, <2>6, <3>4, <3>5
  <2> QED
    BY <2>5, <2>6
<1>4. m \in 0 .. m /\ Lesser(m, h) = h
  <2> HIDE DEF h, m
  <2> QED
    BY <1>1 DEF Lesser
<1>5. f[m] = FoundPairs(Lesser(m, h))
  <2> HIDE DEF h, m
  <2> QED
    BY <1>3, <1>4
<1> QED
  BY <1>2, <1>4, <1>5

LEMMA BothParsersAgree == IInv => ParsersAgree
<1> SUFFICES ASSUME IInv, Clean, NEW count \in 0 .. 3
             PROVE  LET drops == Len(elements) - 1
                    IN  ParseOpDropOpReturnScript(source, count) =
                          Some([drops  |-> SubSeq(elements, 1, IF count < drops THEN count ELSE drops),
                                return |-> elements[Len(elements)]])
  BY DEF ParsersAgree
<1>1. TypeInv /\ source \in Seq(Operation) /\ Len(source) \in Nat /\ count \in Nat
  BY DEF IInv, TypeInv
<1>2. PICK r \in 1 .. Len(source) : EndsAt(r)
  BY DEF IInv, PubkeyInv, Clean, NoReturn
<1>3. /\ FirstReturnAt(r) /\ Pairs(r - 1) /\ r % 2 = 1 /\ CleanAfter(r)
      /\ elements = Append(PairsData(r - 1), ReturnedData(r))
  BY <1>2 DEF EndsAt, CleanUpTo, Clean
<1>4. PICK n \in Nat : r = 2 * n + 1 /\ r - 1 = 2 * n
  <2>1. r \div 2 \in Nat /\ r = 2 * (r \div 2) + 1
    BY <1>1, <1>3
  <2> QED
    BY <2>1
<1> DEFINE h == Lesser(count, n)
<1>5. h \in 0 .. n /\ h <= count
  BY <1>1, <1>4 DEF Lesser
<1>6. DropsFrom(source, count) = FoundPairs(h)
  <2>1. 2 * n + 1 \in 1 .. Len(source) /\ FirstReturnAt(2 * n + 1) /\ Pairs(2 * n)
    BY <1>3, <1>4
  <2> QED
    BY <1>1, <2>1, DropsOfClean
<1>7. FoundPairs(h).data = PairsData(2 * h) /\ FoundPairs(h).at = 2 * h + 1 /\ 2 * h + 1 \in 1 .. r
  BY <1>4, <1>5 DEF FoundPairs
<1>8. /\ ReturnsFrom(source, 2 * h + 1) # {}
      /\ r = CHOOSE i \in ReturnsFrom(source, 2 * h + 1) : \A j \in ReturnsFrom(source, 2 * h + 1) : i <= j
  <2> DEFINE start == 2 * h + 1
  <2>1. start \in 1 .. r
    BY <1>7
  <2> HIDE DEF start
  <2>2. /\ ReturnsFrom(source, start) # {}
        /\ r = CHOOSE i \in ReturnsFrom(source, start) : \A j \in ReturnsFrom(source, start) : i <= j
    BY <1>1, <1>3, <2>1, FirstOfReturns
  <2> QED
    BY <2>2 DEF start
<1>9. (IF r < Len(source) /\ Pushes(source[r + 1]) THEN source[r + 1].data ELSE <<>>) = ReturnedData(r)
  <2>1. ASSUME r < Len(source), ~Pushes(source[r + 1]) PROVE source[r + 1].data = <<>>
    <3>1. r + 1 \in 1 .. Len(source)
      BY <1>1, <2>1
    <3> QED
      BY <1>1, <2>1, <3>1, SourceIs DEF Pushes
  <2> QED
    BY <2>1 DEF ReturnedData
<1>10. ParseOpDropOpReturnScript(source, count) =
         Some([drops |-> PairsData(2 * h), return |-> ReturnedData(r)])
  <2> HIDE DEF h
  <2> QED
    BY <1>6, <1>7, <1>8, <1>9 DEF ParseOpDropOpReturnScript
<1>11. \A i \in 0 .. n : PairsData(2 * i) = [j \in 1 .. i |-> source[2 * j - 1].data]
  <2> TAKE i \in 0 .. n
  <2>1. (2 * i) \div 2 = i
    OBVIOUS
  <2> QED
    BY <2>1 DEF PairsData
<1>12. \A j \in 1 .. n : source[2 * j - 1].data \in DropData
  <2> TAKE j \in 1 .. n
  <2>1. 2 * j - 1 \in 1 .. Len(source)
    BY <1>4
  <2> QED
    BY <1>1, <2>1, OpDropAssumption DEF DropData
<1> DEFINE all == PairsData(2 * n)
<1>13. /\ all \in Seq(DropData) /\ Len(all) = n
       /\ \A j \in 1 .. n : all[j] = source[2 * j - 1].data
  <2>1. n \in 0 .. n
    OBVIOUS
  <2>2. all = [j \in 1 .. n |-> source[2 * j - 1].data]
    BY <1>11, <2>1
  <2> HIDE DEF all
  <2> QED
    BY <1>12, <2>2
<1>14. PairsData(2 * h) \in Seq(DropData) /\ Len(PairsData(2 * h)) = h
       /\ \A j \in 1 .. h : PairsData(2 * h)[j] = source[2 * j - 1].data
  <2>1. PairsData(2 * h) = [j \in 1 .. h |-> source[2 * j - 1].data]
    BY <1>5, <1>11
  <2>2. \A j \in 1 .. h : source[2 * j - 1].data \in DropData
    BY <1>5, <1>12
  <2>3. h \in Nat
    BY <1>5
  <2> DEFINE some == PairsData(2 * h)
  <2>4. some = [j \in 1 .. h |-> source[2 * j - 1].data]
    BY <2>1
  <2> HIDE DEF h, some
  <2>5. some \in Seq(DropData) /\ Len(some) = h /\ \A j \in 1 .. h : some[j] = source[2 * j - 1].data
    BY <2>2, <2>3, <2>4
  <2> QED
    BY <2>5 DEF some
<1>15. ReturnedData(r) \in DropData
  <2>1. r < Len(source) => r + 1 \in 1 .. Len(source)
    BY <1>1
  <2>2. r < Len(source) => source[r + 1] \in Operation
    BY <1>1, <2>1
  <2> QED
    BY <2>2, OpDropAssumption DEF ReturnedData, DropData
<1>16. /\ elements \in Seq(DropData) /\ Len(elements) = n + 1 /\ elements[n + 1] = ReturnedData(r)
       /\ \A j \in 1 .. n : elements[j] = source[2 * j - 1].data
  <2>1. elements = Append(all, ReturnedData(r))
    BY <1>3, <1>4
  <2> HIDE DEF all
  <2> QED
    BY <1>13, <1>15, <2>1, AppendProperties
<1>17. PairsData(2 * h) = SubSeq(elements, 1, h)
  <2> DEFINE u == SubSeq(elements, 1, h)
  <2>1. u \in Seq(DropData) /\ Len(u) = h /\ \A j \in 1 .. h : u[j] = elements[j]
    BY <1>5, <1>16
  <2>2. \A j \in 1 .. h : u[j] = PairsData(2 * h)[j]
    BY <1>5, <1>14, <1>16, <2>1
  <2> HIDE DEF u, h
  <2>3. PairsData(2 * h) = u
    BY <1>14, <2>1, <2>2, SeqEqual
  <2> QED
    BY <2>3 DEF u
<1>18. (IF count < Len(elements) - 1 THEN count ELSE Len(elements) - 1) = h
  <2>1. Len(elements) - 1 = n
    BY <1>16
  <2> QED
    BY <2>1 DEF Lesser
<1>19. elements[Len(elements)] = ReturnedData(r)
  BY <1>16
<1> QED
  BY <1>10, <1>17, <1>18, <1>19, Zenon

(* What was parsed to its end was walked forward: no negative size up to    *)
(* the data of the first OP_RETURN (hdacscript.cpp:395, 399, 513).          *)
LEMMA AllForward == IInv => NeverWentBack
<1> SUFFICES ASSUME IInv, result = "ok", type = "pubkey", NEW i \in 1 .. Len(source),
                    i <= FirstReturn(source) + 1
             PROVE  source[i].op # "back"
  BY DEF NeverWentBack
<1>1. TypeInv /\ Len(source) \in Nat
  BY DEF IInv, TypeInv
<1>2. CASE NoReturn
  BY <1>2 DEF NoReturn, Forward
<1>3. ASSUME NEW r \in 1 .. Len(source), EndsAt(r) PROVE source[i].op # "back"
  <2>1. FirstReturnAt(r) /\ Forward(r + 1)
    BY <1>3 DEF EndsAt
  <2>2. FirstReturn(source) = r
    <3>1. 1 \in 1 .. r
      BY <1>1
    <3> QED
      BY <1>1, <2>1, <3>1, FirstOfReturns DEF FirstReturn
  <2> QED
    BY <2>1, <2>2 DEF Forward
<1> QED
  BY <1>2, <1>3 DEF IInv, PubkeyInv

(* Both parsers find the data of a script, all of it and nothing else:      *)
(* SetScript in every script it accepts, and in a clean one                 *)
(* mc_ParseOpDropOpReturnScript the same (hdacscript.cpp:336, 1895).        *)
THEOREM AllDataIsRead == Spec => []ElementsAreRead
<1>1. IInv => ElementsAreRead
  BY AllDataFound, BothParsersAgree, AllForward DEF ElementsAreRead
<1> QED
  BY <1>1, InductiveInvariant, PTL

-----------------------------------------------------------------------------
(* Bytes of transactions: numbers.                                          *)
LEMMA RadixOfBytes ==
  /\ Radix \in Nat \ {0} /\ Radix > 3 /\ Byte = 0 .. Radix - 1
  /\ Half \in Nat \ {0} /\ Radix = 2 * Half
BY ScriptBytesAssumption, TransactionBytesAssumption DEF Byte, Half

LEMMA PowersOfBytes == IsPower(Radix, Power)
<1>1. Radix \in Nat \ {0}
  BY RadixOfBytes
<1>2. Power = [n \in Nat |-> IF n = 0 THEN 1 ELSE Radix * Power[n - 1]]
  BY <1>1, PowersExist DEF Power
<1> QED
  BY <1>1, <1>2, PowersAre

LEMMA PowerFacts ==
  /\ \A n \in Nat : Power[n] \in Nat \ {0} /\ n < Power[n]
  /\ \A m, n \in Nat : m < n => Power[m] < Power[n]
  /\ Power[0] = 1 /\ Power[1] = Radix
<1>1. Radix \in Nat /\ Radix > 1
  BY RadixOfBytes
<1>2. /\ \A m, n \in Nat : m < n => Power[m] < Power[n]
      /\ \A n \in Nat : n < Power[n]
  BY ONLY <1>1, PowersOfBytes, PowersGrow
<1>3. Power[0] = 1 /\ Power[0 + 1] = Radix * Power[0] /\ \A n \in Nat : Power[n] \in Nat \ {0}
  BY PowersOfBytes DEF IsPower
<1> QED
  BY <1>1, <1>2, <1>3

LEMMA FromLittleEndianIs ==
  ASSUME NEW s \in Seq(Byte)
  PROVE  \E sum : IsValue(Power, s, Len(s), sum) /\ FromLittleEndian(s) = sum[Len(s)]
<1>1. Power \in [Nat -> Nat \ {0}]
  BY PowersOfBytes DEF IsPower
<1>2. Len(s) \in Nat /\ \A i \in 1 .. Len(s) : s[i] \in Nat
  BY RadixOfBytes, ElementOfSeq
<1>3. PICK f : IsSumOf(Power, s, Len(s), f)
  BY ONLY <1>1, <1>2, ValueExists
<1> DEFINE sum[i \in 0 .. Len(s)] ==
             IF i = 0 THEN 0 ELSE sum[i - 1] + s[i] * Power[i - 1]
<1>4. f = [i \in 0 .. Len(s) |-> IF i = 0 THEN 0 ELSE f[i - 1] + s[i] * Power[i - 1]]
  BY ONLY <1>3 DEF IsSumOf
<1>5. sum = [i \in 0 .. Len(s) |-> IF i = 0 THEN 0 ELSE sum[i - 1] + s[i] * Power[i - 1]]
  BY ONLY <1>4
<1>6. FromLittleEndian(s) = sum[Len(s)]
  BY DEF FromLittleEndian
<1> HIDE DEF sum
<1>7. IsSumOf(Power, s, Len(s), sum)
  BY ONLY <1>5 DEF IsSumOf
<1>8. IsValue(Power, s, Len(s), sum)
  BY ONLY <1>1, <1>2, <1>7, SumIsValue
<1> QED
  BY <1>6, <1>8

LEMMA LittleEndianIs ==
  ASSUME NEW v \in Int, NEW size \in Nat
  PROVE  /\ LittleEndian(v, size) \in Seq(Byte) /\ Len(LittleEndian(v, size)) = size
         /\ \A i \in 1 .. size : LittleEndian(v, size)[i] = (v \div Power[i - 1]) % Radix
<1>1. ASSUME NEW i \in 1 .. size PROVE (v \div Power[i - 1]) % Radix \in Byte
  <2>1. i - 1 \in Nat
    OBVIOUS
  <2>2. Power[i - 1] \in Nat \ {0}
    BY <2>1, PowerFacts
  <2>3. v \div Power[i - 1] \in Int
    BY <2>2
  <2> QED
    BY <2>3, RadixOfBytes
<1> QED
  BY <1>1 DEF LittleEndian

(* Written and read, a number comes back modulo what its bytes can hold.    *)
LEMMA ReadAsWritten ==
  ASSUME NEW v \in Int, NEW size \in Nat
  PROVE  FromLittleEndian(LittleEndian(v, size)) = v % Power[size]
<1> DEFINE s == LittleEndian(v, size)
<1>1. s \in Seq(Byte) /\ Len(s) = size /\ \A i \in 1 .. size : s[i] = (v \div Power[i - 1]) % Radix
  BY LittleEndianIs
<1> HIDE DEF s
<1>2. PICK sum : IsValue(Power, s, size, sum) /\ FromLittleEndian(s) = sum[size]
  BY <1>1, FromLittleEndianIs
<1>3. Radix \in Nat \ {0}
  BY RadixOfBytes
<1>4. \A i \in 0 .. size : sum[i] = v % Power[i]
  BY ONLY <1>1, <1>2, <1>3, PowersOfBytes, ValueOfDigits, v \in Int, size \in Nat
<1> QED
  BY <1>2, <1>4 DEF s

(* Read and written, bytes come back.                                       *)
LEMMA WrittenAsRead ==
  ASSUME NEW s \in Seq(Byte)
  PROVE  /\ FromLittleEndian(s) \in 0 .. Power[Len(s)] - 1
         /\ LittleEndian(FromLittleEndian(s), Len(s)) = s
<1> DEFINE v == FromLittleEndian(s)
           n == Len(s)
<1>1. n \in Nat /\ \A i \in 1 .. n : s[i] \in 0 .. Radix - 1
  BY RadixOfBytes, ElementOfSeq
<1>2. PICK sum : IsValue(Power, s, n, sum) /\ v = sum[n]
  BY FromLittleEndianIs
<1>3. Radix \in Nat \ {0} /\ Power[n] \in Nat \ {0} /\ n \in 0 .. n
  BY <1>1, RadixOfBytes, PowerFacts
<1> HIDE DEF v, n
<1>4. /\ \A i \in 0 .. n : sum[i] \in 0 .. Power[i] - 1
      /\ \A x \in Int : x % Power[n] = sum[n] => \A i \in 1 .. n : s[i] = (x \div Power[i - 1]) % Radix
  BY ONLY <1>1, <1>2, <1>3, PowersOfBytes, DigitsOfValue
<1>5. v \in 0 .. Power[n] - 1
  BY <1>2, <1>3, <1>4
<1>6. v \in Int /\ v % Power[n] = sum[n]
  <2>1. \A P \in Nat \ {0} : \A x \in 0 .. P - 1 : x % P = x
    OBVIOUS
  <2> QED
    BY <1>2, <1>3, <1>5, <2>1
<1>7. \A i \in 1 .. n : s[i] = (v \div Power[i - 1]) % Radix
  BY <1>4, <1>6
<1>8. /\ LittleEndian(v, n) \in Seq(Byte) /\ Len(LittleEndian(v, n)) = n
      /\ \A i \in 1 .. n : LittleEndian(v, n)[i] = (v \div Power[i - 1]) % Radix
  BY <1>1, <1>6, LittleEndianIs
<1>9. LittleEndian(v, n) = s
  BY ONLY <1>7, <1>8, SeqEqual, s \in Seq(Byte), Len(s) = n DEF n
<1> QED
  BY <1>5, <1>9 DEF v, n

-----------------------------------------------------------------------------
(* Bytes at a place of a stream, and what a reader makes of them.           *)
Reading(V) == [value : V, pos : Nat, ok : BOOLEAN]

(* What was read is there, in the form in which it is written.              *)
Sound(read, bytes, pos, written) ==
  read.ok => read.pos = pos + Len(written) /\ Holds(bytes, pos, written)

(* What is there is read, if it fits.                                       *)
Exact(read, pos, value, written, fits) ==
  /\ read.ok <=> fits
  /\ read.ok => read.value = value /\ read.pos = pos + Len(written)

LEMMA HoldsByte ==
  ASSUME NEW bytes \in Seq(Byte), NEW pos \in Nat, NEW b
  PROVE  Holds(bytes, pos, <<b>>) <=> pos < Len(bytes) /\ bytes[pos + 1] = b
<1>1. Len(<<b>>) = 1 /\ <<b>>[1] = b /\ Len(bytes) \in Nat
  OBVIOUS
<1>2. \A i \in 1 .. 1 : i = 1
  OBVIOUS
<1> QED
  BY <1>1, <1>2 DEF Holds

-----------------------------------------------------------------------------
(* Fields and strings.                                                      *)
LEMMA ReadFieldIs ==
  ASSUME NEW bytes \in Seq(Byte), NEW pos \in Nat, NEW old \in Byte
  PROVE  LET read == ReadField(bytes, pos, old)
         IN  /\ read \in Reading(Byte)
             /\ Sound(read, bytes, pos, <<read.value>>)
             /\ \A b \in Byte : Holds(bytes, pos, <<b>>) => Exact(read, pos, b, <<b>>, TRUE)
<1> DEFINE read == ReadField(bytes, pos, old)
<1>1. Len(bytes) \in Nat /\ \A b : Len(<<b>>) = 1
  OBVIOUS
<1>2. pos < Len(bytes) => pos + 1 \in 1 .. Len(bytes) /\ bytes[pos + 1] \in Byte
  <2>1. pos < Len(bytes) => pos + 1 \in 1 .. Len(bytes)
    BY <1>1
  <2> QED
    BY <2>1, ElementOfSeq
<1>3. CASE pos < Len(bytes)
  <2>1. read = Read(bytes[pos + 1], pos + 1, TRUE)
    BY <1>3 DEF ReadField
  <2>2. read.value = bytes[pos + 1] /\ read.pos = pos + 1 /\ read.ok = TRUE /\ read \in Reading(Byte)
    BY <1>2, <1>3, <2>1 DEF Read, Reading
  <2> HIDE DEF read
  <2>3. Holds(bytes, pos, <<read.value>>)
    BY <1>3, <2>2, HoldsByte
  <2>4. \A b \in Byte : Holds(bytes, pos, <<b>>) => b = bytes[pos + 1]
    BY HoldsByte
  <2> QED
    BY <1>1, <2>2, <2>3, <2>4 DEF Sound, Exact, read
<1>4. CASE ~(pos < Len(bytes))
  <2>1. read = Read(old, pos, FALSE)
    BY <1>4 DEF ReadField
  <2>2. read.ok = FALSE /\ read \in Reading(Byte)
    BY <2>1 DEF Read, Reading
  <2> HIDE DEF read
  <2>3. \A b \in Byte : ~Holds(bytes, pos, <<b>>)
    BY <1>4, HoldsByte
  <2> QED
    BY <2>2, <2>3 DEF Sound, read
<1> QED
  BY <1>3, <1>4

LEMMA ReadBytesIs ==
  ASSUME NEW bytes \in Seq(Byte), NEW pos \in Nat, NEW size \in Nat
  PROVE  LET read == ReadBytes(bytes, pos, size)
         IN  /\ read \in Reading(Seq(Byte))
             /\ Sound(read, bytes, pos, read.value) /\ Len(read.value) = size
             /\ \A s \in Seq(Byte) : Len(s) = size /\ Holds(bytes, pos, s) => Exact(read, pos, s, s, TRUE)
<1> DEFINE read == ReadBytes(bytes, pos, size)
           s == SubSeq(bytes, pos + 1, pos + size)
           zero == [i \in 1 .. size |-> 0]
<1>1. Len(bytes) \in Nat
  OBVIOUS
<1>2. CASE pos + size <= Len(bytes)
  <2>1. /\ s \in Seq(Byte) /\ Len(s) = size /\ Holds(bytes, pos, s)
        /\ \A t \in Seq(Byte) : Len(t) = size /\ Holds(bytes, pos, t) => s = t
    BY <1>2, HoldsPart
  <2>2. read = Read(s, pos + size, TRUE)
    BY <1>2 DEF ReadBytes
  <2> HIDE DEF s, read
  <2>3. read.value = s /\ read.pos = pos + size /\ read.ok = TRUE /\ read \in Reading(Seq(Byte))
    BY <2>1, <2>2 DEF Read, Reading
  <2> QED
    BY <2>1, <2>3 DEF Sound, Exact, read
<1>3. CASE ~(pos + size <= Len(bytes))
  <2>1. read = Read(zero, pos, FALSE)
    BY <1>3 DEF ReadBytes
  <2>2. zero \in Seq(Byte) /\ Len(zero) = size
    BY RadixOfBytes
  <2> HIDE DEF zero, read
  <2>3. read.value = zero /\ read.ok = FALSE /\ read \in Reading(Seq(Byte))
    BY <2>1, <2>2 DEF Read, Reading
  <2>4. \A t \in Seq(Byte) : Len(t) = size => ~Holds(bytes, pos, t)
    BY <1>3 DEF Holds
  <2> QED
    BY <2>2, <2>3, <2>4 DEF Sound, read
<1> QED
  BY <1>2, <1>3

-----------------------------------------------------------------------------
(* Sizes.                                                                   *)
LEMMA MarkersAre ==
  /\ Marker2 \in Byte /\ Marker4 \in Byte /\ Marker8 \in Byte
  /\ Marker2 \in Nat /\ Marker2 < Marker4 /\ Marker4 < Marker8 /\ Marker8 = Radix - 1
  /\ Marker4 = Marker2 + 1 /\ Marker8 = Marker2 + 2
  /\ Limit2 \in Nat /\ Limit4 \in Nat /\ Marker2 < Limit2 /\ Limit2 < Limit4
  /\ Width2 \in Nat /\ Width4 \in Nat /\ Width8 \in Nat /\ MAX_SIZE \in Nat /\ MAX_SIZE < Limit4
  /\ AllBits \in Byte /\ 0 \in Byte /\ CURRENT_VERSION \in Byte
<1>1. /\ Width2 \in Nat /\ Width4 \in Nat /\ Width8 \in Nat /\ MAX_SIZE \in Nat
      /\ 0 < Width2 /\ Width2 < Width4 /\ MAX_SIZE < Limit4
  BY TransactionBytesAssumption
<1>2. /\ Power[Width2] \in Nat /\ Power[Width4] \in Nat /\ Power[Width2] < Power[Width4]
      /\ (Width2 = 1 \/ Power[1] < Power[Width2]) /\ Power[1] = Radix
  <2>1. Width2 = 1 \/ 1 < Width2
    BY <1>1
  <2> QED
    BY <1>1, <2>1, PowerFacts
<1>3. Radix <= Power[Width2]
  BY <1>2, RadixOfBytes
<1> QED
  BY <1>1, <1>2, <1>3, RadixOfBytes DEF Marker2, Marker4, Marker8, Limit2, Limit4, AllBits, CURRENT_VERSION

(* The four forms of a size.                                                *)
LEMMA WriteCompactSizeIs ==
  ASSUME NEW n \in Nat
  PROVE  /\ n < Marker2 => n \in Byte /\ WriteCompactSize(n) = <<n>>
         /\ n >= Marker2 /\ n < Limit2 => WriteCompactSize(n) = <<Marker2>> \o LittleEndian(n, Width2)
         /\ n >= Limit2 /\ n < Limit4 => WriteCompactSize(n) = <<Marker4>> \o LittleEndian(n, Width4)
         /\ n >= Limit4 => WriteCompactSize(n) = <<Marker8>> \o LittleEndian(n, Width8)
         /\ WriteCompactSize(n) \in Seq(Byte)
<1>1. n < Marker2 => n \in Byte /\ WriteCompactSize(n) = <<n>>
  <2> SUFFICES ASSUME n < Marker2 PROVE n \in Byte /\ WriteCompactSize(n) = <<n>>
    OBVIOUS
  <2>1. n \in Byte /\ ~(n >= Marker2) /\ ~(n >= Limit2) /\ ~(n >= Limit4)
    BY MarkersAre, RadixOfBytes
  <2> QED
    BY <2>1, Zenon DEF WriteCompactSize
<1>2. n >= Marker2 /\ n < Limit2 => WriteCompactSize(n) = <<Marker2>> \o LittleEndian(n, Width2)
  <2> SUFFICES ASSUME n >= Marker2, n < Limit2 PROVE WriteCompactSize(n) = <<Marker2>> \o LittleEndian(n, Width2)
    OBVIOUS
  <2>1. ~(n < Marker2) /\ ~(n >= Limit2) /\ ~(n >= Limit4)
    BY MarkersAre
  <2> QED
    BY <2>1, Zenon DEF WriteCompactSize
<1>3. n >= Limit2 /\ n < Limit4 => WriteCompactSize(n) = <<Marker4>> \o LittleEndian(n, Width4)
  <2> SUFFICES ASSUME n >= Limit2, n < Limit4 PROVE WriteCompactSize(n) = <<Marker4>> \o LittleEndian(n, Width4)
    OBVIOUS
  <2>1. ~(n < Marker2) /\ ~(n < Limit2) /\ ~(n >= Limit4)
    BY MarkersAre
  <2> QED
    BY <2>1, Zenon DEF WriteCompactSize
<1>4. n >= Limit4 => WriteCompactSize(n) = <<Marker8>> \o LittleEndian(n, Width8)
  <2> SUFFICES ASSUME n >= Limit4 PROVE WriteCompactSize(n) = <<Marker8>> \o LittleEndian(n, Width8)
    OBVIOUS
  <2>1. ~(n < Marker2) /\ ~(n < Limit2) /\ ~(n < Limit4)
    BY MarkersAre
  <2> QED
    BY <2>1, Zenon DEF WriteCompactSize
<1>5. n < Marker2 \/ (n >= Marker2 /\ n < Limit2) \/ (n >= Limit2 /\ n < Limit4) \/ n >= Limit4
  BY MarkersAre
<1>6. \A w \in Nat : LittleEndian(n, w) \in Seq(Byte)
  BY LittleEndianIs
<1>7. \A m \in Byte : \A w \in Nat : <<m>> \o LittleEndian(n, w) \in Seq(Byte)
  BY <1>6, ConcatProperties
<1>8. WriteCompactSize(n) \in Seq(Byte)
  <2>1. n < Marker2 => <<n>> \in Seq(Byte)
    BY <1>1
  <2>2. /\ <<Marker2>> \o LittleEndian(n, Width2) \in Seq(Byte)
        /\ <<Marker4>> \o LittleEndian(n, Width4) \in Seq(Byte)
        /\ <<Marker8>> \o LittleEndian(n, Width8) \in Seq(Byte)
    BY <1>7, MarkersAre
  <2> QED
    BY ONLY <1>1, <1>2, <1>3, <1>4, <1>5, <2>1, <2>2
<1> QED
  BY ONLY <1>1, <1>2, <1>3, <1>4, <1>8

(* The size behind a marker.                                                *)
LEMMA ReadSizeIs ==
  ASSUME NEW bytes \in Seq(Byte), NEW pos \in Nat, NEW width \in Nat, NEW least \in Nat
  PROVE  LET read == ReadSize(bytes, pos, width, least)
         IN  /\ read \in Reading(Nat)
             /\ read.ok => /\ read.value >= least /\ read.value <= MAX_SIZE /\ read.value < Power[width]
             /\ Sound(read, bytes, pos, LittleEndian(read.value, width))
             /\ \A n \in Nat : Holds(bytes, pos, LittleEndian(n, width)) =>
                  LET size == n % Power[width]
                  IN  Exact(read, pos, size, LittleEndian(n, width), size >= least /\ size <= MAX_SIZE)
<1> DEFINE field == ReadBytes(bytes, pos, width)
           read == ReadSize(bytes, pos, width, least)
           size == FromLittleEndian(field.value)
<1>1. /\ field \in Reading(Seq(Byte)) /\ Sound(field, bytes, pos, field.value) /\ Len(field.value) = width
      /\ \A s \in Seq(Byte) : Len(s) = width /\ Holds(bytes, pos, s) => Exact(field, pos, s, s, TRUE)
  BY ReadBytesIs
<1>2. read = Read(size, field.pos, field.ok /\ size >= least /\ size <= MAX_SIZE)
  BY DEF ReadSize, SizeIn, Least
<1> HIDE DEF field, read
<1>3. field.value \in Seq(Byte) /\ field.pos \in Nat /\ field.ok \in BOOLEAN
  BY <1>1 DEF Reading
<1>4. size \in 0 .. Power[width] - 1 /\ LittleEndian(size, width) = field.value
  BY <1>1, <1>3, WrittenAsRead
<1>5. Power[width] \in Nat
  BY PowerFacts
<1>6. \A n \in Nat : Holds(bytes, pos, LittleEndian(n, width)) =>
        /\ field.ok /\ field.pos = pos + width /\ Len(LittleEndian(n, width)) = width
        /\ size = n % Power[width]
  <2> SUFFICES ASSUME NEW n \in Nat, Holds(bytes, pos, LittleEndian(n, width))
               PROVE  /\ field.ok /\ field.pos = pos + width /\ Len(LittleEndian(n, width)) = width
                      /\ size = n % Power[width]
    OBVIOUS
  <2>1. LittleEndian(n, width) \in Seq(Byte) /\ Len(LittleEndian(n, width)) = width
    BY LittleEndianIs
  <2>2. field.ok /\ field.value = LittleEndian(n, width) /\ field.pos = pos + width
    BY <1>1, <2>1 DEF Exact
  <2>3. FromLittleEndian(LittleEndian(n, width)) = n % Power[width]
    BY ReadAsWritten
  <2> QED
    BY <2>1, <2>2, <2>3
<1> HIDE DEF size
<1>7. /\ read.value = size /\ read.pos = field.pos /\ read.ok = (field.ok /\ size >= least /\ size <= MAX_SIZE)
      /\ read \in Reading(Nat)
  BY <1>2, <1>3, <1>4, <1>5 DEF Read, Reading
<1>8. /\ read.ok => read.value >= least /\ read.value <= MAX_SIZE /\ read.value < Power[width]
      /\ Sound(read, bytes, pos, LittleEndian(read.value, width))
  <2>1. size < Power[width]
    BY <1>4, <1>5
  <2>2. read.ok => field.ok
    BY <1>7
  <2> QED
    BY <1>1, <1>4, <1>7, <2>1, <2>2 DEF Sound
<1>9. ASSUME NEW n \in Nat, Holds(bytes, pos, LittleEndian(n, width))
      PROVE  Exact(read, pos, n % Power[width], LittleEndian(n, width),
                   n % Power[width] >= least /\ n % Power[width] <= MAX_SIZE)
  BY <1>6, <1>7, <1>9 DEF Exact
<1> QED
  BY <1>7, <1>8, <1>9 DEF read

LEMMA ReadCompactSizeIs ==
  ASSUME NEW bytes \in Seq(Byte), NEW pos \in Nat
  PROVE  LET read == ReadCompactSize(bytes, pos)
         IN  /\ read \in Reading(Nat)
             /\ read.ok => read.value <= MAX_SIZE
             /\ Sound(read, bytes, pos, WriteCompactSize(read.value))
             /\ \A n \in Nat : Holds(bytes, pos, WriteCompactSize(n)) =>
                  Exact(read, pos, n, WriteCompactSize(n), n <= MAX_SIZE)
<1> DEFINE first == ReadField(bytes, pos, 0)
           read == ReadCompactSize(bytes, pos)
           next == pos + 1
           Behind(width, least) == ReadSize(bytes, next, width, least)
<1>1. /\ first \in Reading(Byte) /\ Sound(first, bytes, pos, <<first.value>>)
      /\ \A b \in Byte : Holds(bytes, pos, <<b>>) => Exact(first, pos, b, <<b>>, TRUE)
  BY ReadFieldIs, MarkersAre
<1>2. read = CompactSize(first, bytes)
  BY DEF ReadCompactSize
<1> HIDE DEF first, read
<1>3. first.value \in Byte /\ first.pos \in Nat /\ first.ok \in BOOLEAN /\ first = Read(first.value, first.pos, first.ok)
      /\ (first.ok => first.pos = next /\ Holds(bytes, pos, <<first.value>>)) /\ Len(<<first.value>>) = 1
  BY <1>1 DEF Reading, Sound, Read
<1>4. \A b \in Byte : b < Marker2 \/ b = Marker2 \/ b = Marker4 \/ b = Marker8
  BY MarkersAre, RadixOfBytes
(* What a marker says.                                                      *)
<1>5. ASSUME NEW m \in Byte, NEW width \in Nat, NEW least \in Nat, NEW limit \in Nat,
             first.ok, first.value = m, read = Behind(width, least),
             \A n \in Nat : n >= least /\ n <= MAX_SIZE /\ n < Power[width] =>
               WriteCompactSize(n) = <<m>> \o LittleEndian(n, width)
      PROVE  /\ read \in Reading(Nat) /\ (read.ok => read.value <= MAX_SIZE)
             /\ Sound(read, bytes, pos, WriteCompactSize(read.value))
             /\ \A n \in Nat : Holds(bytes, next, LittleEndian(n, width)) =>
                  LET size == n % Power[width]
                  IN  Exact(read, next, size, LittleEndian(n, width), size >= least /\ size <= MAX_SIZE)
  <2>1. /\ read \in Reading(Nat)
        /\ read.ok => read.value >= least /\ read.value <= MAX_SIZE /\ read.value < Power[width]
        /\ Sound(read, bytes, next, LittleEndian(read.value, width))
        /\ \A n \in Nat : Holds(bytes, next, LittleEndian(n, width)) =>
             LET size == n % Power[width]
             IN  Exact(read, next, size, LittleEndian(n, width), size >= least /\ size <= MAX_SIZE)
    <3>1. next \in Nat
      OBVIOUS
    <3> QED
      BY <1>5, <3>1, ReadSizeIs
  <2>2. ASSUME read.ok PROVE read.pos = pos + Len(WriteCompactSize(read.value)) /\ Holds(bytes, pos, WriteCompactSize(read.value))
    <3> DEFINE field == LittleEndian(read.value, width)
    <3>1. read.value \in Nat /\ WriteCompactSize(read.value) = <<m>> \o field
      BY <1>5, <2>1, <2>2 DEF Reading
    <3>2. field \in Seq(Byte) /\ <<m>> \in Seq(Byte) /\ Len(<<m>>) = 1 /\ Len(field) \in Nat
      <4>1. read.value \in Int
        BY <3>1
      <4>2. field \in Seq(Byte) /\ Len(field) = width
        BY ONLY <4>1, LittleEndianIs, width \in Nat
      <4>3. <<m>> \in Seq(Byte) /\ Len(<<m>>) = 1
        OBVIOUS
      <4> QED
        BY <4>2, <4>3
    <3>3. Holds(bytes, pos, <<m>>) /\ Holds(bytes, next, field) /\ read.pos = next + Len(field)
      BY <1>3, <1>5, <2>1, <2>2 DEF Sound
    <3> HIDE DEF field
    <3>4. Holds(bytes, pos, <<m>> \o field)
      BY <3>2, <3>3, HoldsConcat
    <3>5. Len(<<m>> \o field) = 1 + Len(field)
      BY <3>2, ConcatFacts
    <3> QED
      BY <3>1, <3>2, <3>3, <3>4, <3>5
  <2> QED
    BY <2>1, <2>2 DEF Sound
<1>6. \A n \in Nat : Holds(bytes, pos, WriteCompactSize(n)) => first.ok /\ first.pos = next
  <2> SUFFICES ASSUME NEW n \in Nat, Holds(bytes, pos, WriteCompactSize(n)) PROVE first.ok
    BY <1>3
  <2>1. \E b \in Byte : \E t \in Seq(Byte) : WriteCompactSize(n) = <<b>> \o t
    <3>1. n < Marker2 => WriteCompactSize(n) = <<n>> \o <<>> /\ n \in Byte
      BY WriteCompactSizeIs
    <3>2. /\ n < Marker2 \/ (n >= Marker2 /\ n < Limit2) \/ (n >= Limit2 /\ n < Limit4) \/ n >= Limit4
          /\ \A w \in Nat : LittleEndian(n, w) \in Seq(Byte)
      BY MarkersAre, LittleEndianIs
    <3>3. <<>> \in Seq(Byte)
      OBVIOUS
    <3>4. \E m \in Byte : \E w \in Nat : n >= Marker2 => WriteCompactSize(n) = <<m>> \o LittleEndian(n, w)
      <4>1. \/ n < Marker2
            \/ WriteCompactSize(n) = <<Marker2>> \o LittleEndian(n, Width2)
            \/ WriteCompactSize(n) = <<Marker4>> \o LittleEndian(n, Width4)
            \/ WriteCompactSize(n) = <<Marker8>> \o LittleEndian(n, Width8)
        BY ONLY <3>2, WriteCompactSizeIs, n \in Nat
      <4>2. ~(n < Marker2 /\ n >= Marker2)
        BY MarkersAre
      <4> QED
        BY <4>1, <4>2, MarkersAre, Zenon
    <3>5. n < Marker2 \/ n >= Marker2
      BY MarkersAre
    <3> QED
      BY ONLY <3>1, <3>2, <3>3, <3>4, <3>5
  <2>2. PICK b \in Byte, t \in Seq(Byte) : WriteCompactSize(n) = <<b>> \o t
    BY <2>1
  <2>3. Holds(bytes, pos, <<b>>)
    <3>1. <<b>> \in Seq(Byte) /\ t \in Seq(Byte) /\ Holds(bytes, pos, <<b>> \o t)
      BY <2>2
    <3> QED
      BY ONLY <3>1, HoldsConcat, bytes \in Seq(Byte), pos \in Nat
  <2> QED
    BY <1>1, <2>3 DEF Exact
(* The first byte of what is written.                                       *)
<1>7. ASSUME NEW n \in Nat, NEW m \in Byte, NEW width \in Nat,
             WriteCompactSize(n) = <<m>> \o LittleEndian(n, width), Holds(bytes, pos, WriteCompactSize(n))
      PROVE  /\ first.value = m /\ Holds(bytes, next, LittleEndian(n, width))
             /\ Len(WriteCompactSize(n)) = 1 + width /\ Len(LittleEndian(n, width)) = width
  <2>1. LittleEndian(n, width) \in Seq(Byte) /\ Len(LittleEndian(n, width)) = width /\ <<m>> \in Seq(Byte) /\ Len(<<m>>) = 1
    BY LittleEndianIs
  <2>2. Holds(bytes, pos, <<m>>) /\ Holds(bytes, next, LittleEndian(n, width))
    <3>1. Holds(bytes, pos, <<m>> \o LittleEndian(n, width))
      BY <1>7
    <3>2. Holds(bytes, pos, <<m>>) /\ Holds(bytes, pos + Len(<<m>>), LittleEndian(n, width))
      BY ONLY <2>1, <3>1, HoldsConcat, bytes \in Seq(Byte), pos \in Nat
    <3> QED
      BY <2>1, <3>2
  <2>3. Len(<<m>> \o LittleEndian(n, width)) = 1 + width
    BY <2>1, ConcatFacts
  <2> QED
    BY <1>1, <1>7, <2>1, <2>2, <2>3 DEF Exact
<1>8. CASE ~first.ok
  <2>1. read = first
    BY <1>2, <1>8, Zenon DEF CompactSize
  <2>2. read \in Reading(Nat) /\ ~read.ok
    BY <1>1, <1>8, <2>1, RadixOfBytes DEF Reading
  <2> QED
    BY <1>6, <1>8, <2>2 DEF Sound, read
<1> DEFINE Written(n) == Holds(bytes, pos, WriteCompactSize(n))
(* Only what is written with a marker has this as its first byte.           *)
<1>9. ASSUME NEW n \in Nat, Written(n)
      PROVE  /\ n < Marker2 => first.value = n
             /\ n >= Marker2 /\ n < Limit2 => first.value = Marker2
             /\ n >= Limit2 /\ n < Limit4 => first.value = Marker4
             /\ n >= Limit4 => first.value = Marker8
  <2>1. n < Marker2 => first.value = n
    BY <1>1, <1>9, WriteCompactSizeIs DEF Exact
  <2>2. n >= Marker2 /\ n < Limit2 => first.value = Marker2
    BY <1>7, <1>9, WriteCompactSizeIs, MarkersAre
  <2>3. n >= Limit2 /\ n < Limit4 => first.value = Marker4
    BY <1>7, <1>9, WriteCompactSizeIs, MarkersAre
  <2>4. n >= Limit4 => first.value = Marker8
    BY <1>7, <1>9, WriteCompactSizeIs, MarkersAre
  <2> QED
    BY <2>1, <2>2, <2>3, <2>4
<1>10. CASE first.ok /\ first.value < Marker2
  <2> DEFINE fits == first.value <= MAX_SIZE
  <2>1. read = [first EXCEPT !.ok = fits]
    <3>1. first.value # Marker2 /\ first.value # Marker4 /\ first.value # Marker8
      BY <1>3, <1>10, MarkersAre, RadixOfBytes
    <3> QED
      BY <1>2, <1>10, <3>1, Zenon DEF CompactSize
  <2>a. fits \in BOOLEAN
    OBVIOUS
  <2> HIDE DEF fits
  <2>b. read = [value |-> first.value, pos |-> first.pos, ok |-> fits]
    BY <1>3, <2>1, <2>a DEF Read
  <2>c. read.value = first.value /\ read.pos = next /\ read.ok = fits /\ read \in Reading(Nat) /\ first.value \in Nat
    BY <1>3, <1>10, <2>a, <2>b, RadixOfBytes DEF Reading
  <2>2. /\ read.value = first.value /\ read.pos = next /\ read.ok = (first.value <= MAX_SIZE)
        /\ read \in Reading(Nat) /\ first.value \in Nat
    BY <2>c DEF fits
  <2>3. WriteCompactSize(first.value) = <<first.value>>
    BY <1>10, <2>2, WriteCompactSizeIs
  <2>4. Sound(read, bytes, pos, WriteCompactSize(read.value))
    BY <1>3, <1>10, <2>2, <2>3 DEF Sound
  <2>5. ASSUME NEW n \in Nat, Written(n) PROVE Exact(read, pos, n, WriteCompactSize(n), n <= MAX_SIZE)
    <3>1. n < Marker2
      BY <1>9, <1>10, <2>5, MarkersAre
    <3>2. first.value = n
      BY <1>9, <2>5, <3>1
    <3> QED
      BY <1>3, <2>2, <2>3, <3>2 DEF Exact
  <2> QED
    BY <2>2, <2>4, <2>5 DEF read
<1>11. CASE first.ok /\ first.value = Marker2
  <2>1. read = Behind(Width2, Marker2)
    <3>1. first.ok = TRUE /\ first.pos = next /\ first.value = Marker2 /\ ~(first.value < Marker2)
          /\ first.value # Marker4 /\ first.value # Marker8
      BY <1>3, <1>11, MarkersAre
    <3> QED
      BY <1>2, <3>1, Zenon DEF CompactSize
  <2>2. \A n \in Nat : n >= Marker2 /\ n <= MAX_SIZE /\ n < Power[Width2] =>
               WriteCompactSize(n) = <<Marker2>> \o LittleEndian(n, Width2)
    BY WriteCompactSizeIs DEF Limit2
  <2>3. /\ read \in Reading(Nat) /\ (read.ok => read.value <= MAX_SIZE)
        /\ Sound(read, bytes, pos, WriteCompactSize(read.value))
        /\ \A n \in Nat : Holds(bytes, next, LittleEndian(n, Width2)) =>
             LET size == n % Power[Width2]
             IN  Exact(read, next, size, LittleEndian(n, Width2), size >= Marker2 /\ size <= MAX_SIZE)
    <3> HIDE DEF Behind
    <3> QED
      BY <1>5, <1>11, <2>1, <2>2, MarkersAre
  <2>4. ASSUME NEW n \in Nat, Written(n) PROVE Exact(read, pos, n, WriteCompactSize(n), n <= MAX_SIZE)
    <3>1. n >= Marker2 /\ n < Limit2 /\ n < Power[Width2]
      BY <1>9, <1>11, <2>4, MarkersAre DEF Limit2
    <3>2. WriteCompactSize(n) = <<Marker2>> \o LittleEndian(n, Width2)
      BY <3>1, WriteCompactSizeIs
    <3>3. /\ Holds(bytes, next, LittleEndian(n, Width2)) /\ Len(WriteCompactSize(n)) = 1 + Width2
          /\ Len(LittleEndian(n, Width2)) = Width2
      <4>1. Marker2 \in Byte /\ Width2 \in Nat
        BY MarkersAre
      <4> HIDE DEF next
      <4> QED
        BY ONLY <1>7, <2>4, <3>2, <4>1, n \in Nat DEF Written
    <3>4. n % Power[Width2] = n
      <4>1. Power[Width2] \in Nat \ {0}
        BY PowerFacts, MarkersAre
      <4>2. n \in 0 .. Power[Width2] - 1
        BY <3>1, <4>1
      <4> QED
        BY ONLY <4>1, <4>2, SmallMod
    <3>5. Exact(read, next, n, LittleEndian(n, Width2), n >= Marker2 /\ n <= MAX_SIZE)
      BY <2>3, <3>3, <3>4
    <3> QED
      BY <3>1, <3>3, <3>5, MarkersAre DEF Exact
  <2> QED
    BY <2>3, <2>4 DEF read
<1>12. CASE first.ok /\ first.value = Marker4
  <2>1. read = Behind(Width4, Limit2)
    <3>1. first.ok = TRUE /\ first.pos = next /\ first.value = Marker4 /\ ~(first.value < Marker2)
          /\ first.value # Marker2 /\ first.value # Marker8
      BY <1>3, <1>12, MarkersAre
    <3> QED
      BY <1>2, <3>1, Zenon DEF CompactSize
  <2>2. \A n \in Nat : n >= Limit2 /\ n <= MAX_SIZE /\ n < Power[Width4] =>
               WriteCompactSize(n) = <<Marker4>> \o LittleEndian(n, Width4)
    BY WriteCompactSizeIs DEF Limit4
  <2>3. /\ read \in Reading(Nat) /\ (read.ok => read.value <= MAX_SIZE)
        /\ Sound(read, bytes, pos, WriteCompactSize(read.value))
        /\ \A n \in Nat : Holds(bytes, next, LittleEndian(n, Width4)) =>
             LET size == n % Power[Width4]
             IN  Exact(read, next, size, LittleEndian(n, Width4), size >= Limit2 /\ size <= MAX_SIZE)
    <3> HIDE DEF Behind
    <3> QED
      BY <1>5, <1>12, <2>1, <2>2, MarkersAre
  <2>4. ASSUME NEW n \in Nat, Written(n) PROVE Exact(read, pos, n, WriteCompactSize(n), n <= MAX_SIZE)
    <3>1. n >= Limit2 /\ n < Limit4 /\ n < Power[Width4]
      BY <1>9, <1>12, <2>4, MarkersAre DEF Limit4
    <3>2. WriteCompactSize(n) = <<Marker4>> \o LittleEndian(n, Width4)
      BY <3>1, WriteCompactSizeIs
    <3>3. /\ Holds(bytes, next, LittleEndian(n, Width4)) /\ Len(WriteCompactSize(n)) = 1 + Width4
          /\ Len(LittleEndian(n, Width4)) = Width4
      <4>1. Marker4 \in Byte /\ Width4 \in Nat
        BY MarkersAre
      <4> HIDE DEF next
      <4> QED
        BY ONLY <1>7, <2>4, <3>2, <4>1, n \in Nat DEF Written
    <3>4. n % Power[Width4] = n
      <4>1. Power[Width4] \in Nat \ {0}
        BY PowerFacts, MarkersAre
      <4>2. n \in 0 .. Power[Width4] - 1
        BY <3>1, <4>1
      <4> QED
        BY ONLY <4>1, <4>2, SmallMod
    <3>5. Exact(read, next, n, LittleEndian(n, Width4), n >= Limit2 /\ n <= MAX_SIZE)
      BY <2>3, <3>3, <3>4
    <3> QED
      BY <3>1, <3>3, <3>5, MarkersAre DEF Exact
  <2> QED
    BY <2>3, <2>4 DEF read
<1>13. CASE first.ok /\ first.value = Marker8
  <2>1. read = Behind(Width8, Limit4)
    <3>1. first.ok = TRUE /\ first.pos = next /\ first.value = Marker8 /\ ~(first.value < Marker2)
          /\ first.value # Marker2 /\ first.value # Marker4
      BY <1>3, <1>13, MarkersAre
    <3> QED
      BY <1>2, <3>1, Zenon DEF CompactSize
  <2>2. \A n \in Nat : n >= Limit4 /\ n <= MAX_SIZE /\ n < Power[Width8] =>
               WriteCompactSize(n) = <<Marker8>> \o LittleEndian(n, Width8)
    BY WriteCompactSizeIs
  <2>3. /\ read \in Reading(Nat) /\ (read.ok => read.value <= MAX_SIZE)
        /\ Sound(read, bytes, pos, WriteCompactSize(read.value))
        /\ \A n \in Nat : Holds(bytes, next, LittleEndian(n, Width8)) =>
             LET size == n % Power[Width8]
             IN  Exact(read, next, size, LittleEndian(n, Width8), size >= Limit4 /\ size <= MAX_SIZE)
    <3> HIDE DEF Behind
    <3> QED
      BY <1>5, <1>13, <2>1, <2>2, MarkersAre
  <2>4. ASSUME NEW n \in Nat, Written(n) PROVE Exact(read, pos, n, WriteCompactSize(n), n <= MAX_SIZE)
    <3>1. n >= Limit4
      BY <1>9, <1>13, <2>4, MarkersAre
    <3>2. WriteCompactSize(n) = <<Marker8>> \o LittleEndian(n, Width8)
      BY <3>1, WriteCompactSizeIs
    <3>3. Holds(bytes, next, LittleEndian(n, Width8))
      BY <1>7, <2>4, <3>2, MarkersAre
    <3>4. n % Power[Width8] \in Nat
      BY PowerFacts, MarkersAre
    <3>5. ~read.ok
      BY <2>3, <3>3, <3>4, MarkersAre DEF Exact
    <3> QED
      BY <3>1, <3>5, MarkersAre DEF Exact
  <2> QED
    BY <2>3, <2>4 DEF read
<1> QED
  BY <1>3, <1>4, <1>8, <1>10, <1>11, <1>12, <1>13

-----------------------------------------------------------------------------
(* Scripts, inputs and outputs.                                             *)
InSet == [prevout : Byte, scriptSig : Seq(Byte), nSequence : Byte]
OutSet == [nValue : Byte, scriptPubKey : Seq(Byte)]
TxSet == [nVersion : Byte, vin : Seq(InSet), vout : Seq(OutSet), nLockTime : Byte]

LEMMA WriteScriptIs ==
  ASSUME NEW s \in Seq(Byte)
  PROVE  /\ WriteScript(s) = WriteCompactSize(Len(s)) \o s
         /\ WriteCompactSize(Len(s)) \in Seq(Byte) /\ WriteScript(s) \in Seq(Byte) /\ Len(s) \in Nat
         /\ Len(WriteScript(s)) = Len(WriteCompactSize(Len(s))) + Len(s)
<1>1. Len(s) \in Nat
  OBVIOUS
<1>2. WriteCompactSize(Len(s)) \in Seq(Byte)
  BY <1>1, WriteCompactSizeIs
<1> QED
  BY <1>1, <1>2, ConcatFacts DEF WriteScript

LEMMA ReadScriptIs ==
  ASSUME NEW bytes \in Seq(Byte), NEW pos \in Nat
  PROVE  LET read == ReadScript(bytes, pos)
         IN  /\ read \in Reading(Seq(Byte))
             /\ read.ok => Len(read.value) <= MAX_SIZE
             /\ Sound(read, bytes, pos, WriteScript(read.value))
             /\ \A s \in Seq(Byte) : Holds(bytes, pos, WriteScript(s)) =>
                  Exact(read, pos, s, WriteScript(s), Len(s) <= MAX_SIZE)
<1> DEFINE n == ReadCompactSize(bytes, pos)
           data == ReadBytes(bytes, n.pos, n.value)
           read == ReadScript(bytes, pos)
<1>1. /\ n \in Reading(Nat) /\ (n.ok => n.value <= MAX_SIZE)
      /\ Sound(n, bytes, pos, WriteCompactSize(n.value))
      /\ \A k \in Nat : Holds(bytes, pos, WriteCompactSize(k)) =>
           Exact(n, pos, k, WriteCompactSize(k), k <= MAX_SIZE)
  BY ReadCompactSizeIs
<1>2. read = IF n.ok THEN data ELSE Read(<<>>, n.pos, FALSE)
  BY DEF ReadScript, ScriptOf
<1> HIDE DEF n, read
<1>3. n.value \in Nat /\ n.pos \in Nat /\ n.ok \in BOOLEAN
  BY <1>1 DEF Reading
<1>4. /\ data \in Reading(Seq(Byte))
      /\ Sound(data, bytes, n.pos, data.value) /\ Len(data.value) = n.value
      /\ \A s \in Seq(Byte) : Len(s) = n.value /\ Holds(bytes, n.pos, s) => Exact(data, n.pos, s, s, TRUE)
  BY <1>3, ReadBytesIs
<1> HIDE DEF data
<1>5. read \in Reading(Seq(Byte)) /\ (~n.ok => ~read.ok) /\ (n.ok => read = data)
  BY <1>2, <1>3, <1>4 DEF Read, Reading
<1>6. ASSUME read.ok
      PROVE  /\ Len(read.value) <= MAX_SIZE /\ read.pos = pos + Len(WriteScript(read.value))
             /\ Holds(bytes, pos, WriteScript(read.value))
  <2>1. n.ok /\ read = data /\ read.value \in Seq(Byte) /\ Len(read.value) = n.value
    BY <1>4, <1>5, <1>6 DEF Reading
  <2>2. /\ Holds(bytes, pos, WriteCompactSize(n.value)) /\ n.pos = pos + Len(WriteCompactSize(n.value))
        /\ Holds(bytes, n.pos, read.value) /\ read.pos = n.pos + n.value
    BY <1>1, <1>4, <1>6, <2>1 DEF Sound
  <2>3. /\ WriteScript(read.value) = WriteCompactSize(n.value) \o read.value
        /\ WriteCompactSize(n.value) \in Seq(Byte) /\ Len(WriteCompactSize(n.value)) \in Nat
        /\ Len(WriteScript(read.value)) = Len(WriteCompactSize(n.value)) + n.value
    BY <2>1, WriteScriptIs
  <2>4. Holds(bytes, pos, WriteScript(read.value))
    BY <2>1, <2>2, <2>3, HoldsConcat
  <2> QED
    BY <1>1, <1>3, <2>1, <2>2, <2>3, <2>4
<1>7. ASSUME NEW s \in Seq(Byte), Holds(bytes, pos, WriteScript(s))
      PROVE  Exact(read, pos, s, WriteScript(s), Len(s) <= MAX_SIZE)
  <2> DEFINE size == WriteCompactSize(Len(s))
  <2>1. /\ WriteScript(s) = size \o s /\ Len(s) \in Nat /\ size \in Seq(Byte)
        /\ Len(WriteScript(s)) = Len(size) + Len(s) /\ Len(size) \in Nat
    BY WriteScriptIs
  <2> HIDE DEF size
  <2>2. Holds(bytes, pos, size) /\ Holds(bytes, pos + Len(size), s)
    BY <1>7, <2>1, HoldsConcat
  <2>3. Exact(n, pos, Len(s), size, Len(s) <= MAX_SIZE)
    BY <1>1, <2>1, <2>2 DEF size
  <2>4. CASE ~n.ok
    BY <1>5, <2>3, <2>4 DEF Exact
  <2>5. CASE n.ok
    <3>1. Len(s) <= MAX_SIZE /\ n.value = Len(s) /\ n.pos = pos + Len(size) /\ read = data
      BY <1>5, <2>3, <2>5 DEF Exact
    <3>2. Exact(data, n.pos, s, s, TRUE)
      BY <1>4, <2>2, <3>1
    <3> QED
      BY <2>1, <3>1, <3>2 DEF Exact
  <2> QED
    BY <1>3, <2>4, <2>5
<1> QED
  BY <1>5, <1>6, <1>7 DEF Sound, read

(* One part after the other: if the second is read after the first.         *)
LEMMA SoundNext ==
  ASSUME NEW bytes \in Seq(Byte), NEW pos \in Nat, NEW r1, NEW r2,
         NEW w1 \in Seq(Byte), NEW w2 \in Seq(Byte), NEW read,
         Sound(r1, bytes, pos, w1), Sound(r2, bytes, r1.pos, w2), r1.ok,
         read.ok => r2.ok /\ read.pos = r2.pos
  PROVE  Sound(read, bytes, pos, w1 \o w2)
<1> SUFFICES ASSUME read.ok PROVE read.pos = pos + Len(w1 \o w2) /\ Holds(bytes, pos, w1 \o w2)
  BY DEF Sound
<1>1. Holds(bytes, pos, w1) /\ Holds(bytes, r1.pos, w2) /\ r1.pos = pos + Len(w1) /\ read.pos = r1.pos + Len(w2)
  BY DEF Sound
<1>2. Len(w1 \o w2) = Len(w1) + Len(w2) /\ Len(w1) \in Nat /\ Len(w2) \in Nat
  BY ConcatFacts
<1> QED
  BY <1>1, <1>2, HoldsConcat

WriteOne(of, v) == IF of = "vin" THEN WriteIn(v) ELSE WriteOut(v)
ReadOne(of, bytes, pos) == IF of = "vin" THEN ReadIn(bytes, pos) ELSE ReadOut(bytes, pos)
FitsOne(of, v) == Len(IF of = "vin" THEN v.scriptSig ELSE v.scriptPubKey) <= MAX_SIZE
OneSet(of) == IF of = "vin" THEN InSet ELSE OutSet

LEMMA WriteInIs ==
  ASSUME NEW v \in InSet
  PROVE  /\ WriteIn(v) = (<<v.prevout>> \o WriteScript(v.scriptSig)) \o <<v.nSequence>>
         /\ <<v.prevout>> \in Seq(Byte) /\ WriteScript(v.scriptSig) \in Seq(Byte) /\ <<v.nSequence>> \in Seq(Byte)
         /\ <<v.prevout>> \o WriteScript(v.scriptSig) \in Seq(Byte)
         /\ WriteIn(v) \in Seq(Byte)
         /\ Len(WriteIn(v)) = 1 + Len(WriteScript(v.scriptSig)) + 1
         /\ Len(<<v.prevout>> \o WriteScript(v.scriptSig)) = 1 + Len(WriteScript(v.scriptSig))
         /\ Len(WriteScript(v.scriptSig)) \in Nat
<1>1. <<v.prevout>> \in Seq(Byte) /\ <<v.nSequence>> \in Seq(Byte) /\ v.scriptSig \in Seq(Byte)
      /\ Len(<<v.prevout>>) = 1 /\ Len(<<v.nSequence>>) = 1
  BY DEF InSet
<1>2. WriteScript(v.scriptSig) \in Seq(Byte)
  BY <1>1, WriteScriptIs
<1>3. /\ <<v.prevout>> \o WriteScript(v.scriptSig) \in Seq(Byte) /\ Len(WriteScript(v.scriptSig)) \in Nat
      /\ Len(<<v.prevout>> \o WriteScript(v.scriptSig)) = 1 + Len(WriteScript(v.scriptSig))
  BY <1>1, <1>2, ConcatFacts
<1>4. WriteIn(v) = (<<v.prevout>> \o WriteScript(v.scriptSig)) \o <<v.nSequence>>
  BY DEF WriteIn
<1>5. WriteIn(v) \in Seq(Byte) /\ Len(WriteIn(v)) = 1 + Len(WriteScript(v.scriptSig)) + 1
  BY <1>1, <1>3, <1>4, ConcatFacts
<1> QED
  BY <1>1, <1>2, <1>3, <1>4, <1>5

LEMMA WriteOutIs ==
  ASSUME NEW v \in OutSet
  PROVE  /\ WriteOut(v) = <<v.nValue>> \o WriteScript(v.scriptPubKey)
         /\ <<v.nValue>> \in Seq(Byte) /\ WriteScript(v.scriptPubKey) \in Seq(Byte)
         /\ WriteOut(v) \in Seq(Byte)
         /\ Len(WriteOut(v)) = 1 + Len(WriteScript(v.scriptPubKey))
         /\ Len(WriteScript(v.scriptPubKey)) \in Nat
<1>1. <<v.nValue>> \in Seq(Byte) /\ v.scriptPubKey \in Seq(Byte) /\ Len(<<v.nValue>>) = 1
  BY DEF OutSet
<1>2. WriteScript(v.scriptPubKey) \in Seq(Byte)
  BY <1>1, WriteScriptIs
<1>3. WriteOut(v) = <<v.nValue>> \o WriteScript(v.scriptPubKey)
  BY DEF WriteOut
<1> QED
  BY <1>1, <1>2, <1>3, ConcatFacts

LEMMA IntoIs ==
  ASSUME NEW V, NEW W, NEW read \in Reading(V), NEW object \in W
  PROVE  LET into == Into(object, read)
         IN  into \in Reading(W) /\ into.value = object /\ into.pos = read.pos /\ into.ok = read.ok
<1>1. read.pos \in Nat /\ read.ok \in BOOLEAN /\ read = [value |-> read.value, pos |-> read.pos, ok |-> read.ok]
  BY DEF Reading
<1>2. Into(object, read) = [value |-> object, pos |-> read.pos, ok |-> read.ok]
  BY <1>1 DEF Into
<1> QED
  BY <1>1, <1>2 DEF Reading

(* An input, part by part.                                                  *)
LEMMA ReadInIs ==
  ASSUME NEW bytes \in Seq(Byte), NEW pos \in Nat
  PROVE  LET read == ReadIn(bytes, pos)
         IN  /\ read \in Reading(InSet)
             /\ read.ok => FitsOne("vin", read.value)
             /\ Sound(read, bytes, pos, WriteIn(read.value))
             /\ \A v \in InSet : Holds(bytes, pos, WriteIn(v)) =>
                  Exact(read, pos, v, WriteIn(v), FitsOne("vin", v))
<1> DEFINE r1 == ReadField(bytes, pos, NullIn.prevout)
           i1 == [NullIn EXCEPT !.prevout = r1.value]
           r2 == ReadScript(bytes, r1.pos)
           i2 == [i1 EXCEPT !.scriptSig = r2.value]
           r3 == ReadField(bytes, r2.pos, i1.nSequence)
           i3 == [i2 EXCEPT !.nSequence = r3.value]
           read == ReadIn(bytes, pos)
<1>1. NullIn \in InSet /\ NullIn.prevout \in Byte
  BY MarkersAre DEF NullIn, In, InSet
<1>2. read = IF r1.ok THEN (IF r2.ok THEN Into(i3, r3) ELSE Into(i2, r2)) ELSE Into(NullIn, r1)
  BY DEF ReadIn, InPrevout, InScript, InSequence
<1>3. /\ r1 \in Reading(Byte) /\ Sound(r1, bytes, pos, <<r1.value>>)
      /\ \A b \in Byte : Holds(bytes, pos, <<b>>) => Exact(r1, pos, b, <<b>>, TRUE)
  BY <1>1, ReadFieldIs
<1> HIDE DEF r1, read
<1>4. r1.value \in Byte /\ r1.pos \in Nat /\ r1.ok \in BOOLEAN
  BY <1>3 DEF Reading
<1>5. i1 \in InSet /\ i1.prevout = r1.value /\ i1.nSequence \in Byte
  BY <1>1, <1>4 DEF InSet
<1>6. /\ r2 \in Reading(Seq(Byte)) /\ (r2.ok => Len(r2.value) <= MAX_SIZE)
      /\ Sound(r2, bytes, r1.pos, WriteScript(r2.value))
      /\ \A s \in Seq(Byte) : Holds(bytes, r1.pos, WriteScript(s)) =>
           Exact(r2, r1.pos, s, WriteScript(s), Len(s) <= MAX_SIZE)
  BY <1>4, ReadScriptIs
<1> HIDE DEF r2, i1
<1>7. r2.value \in Seq(Byte) /\ r2.pos \in Nat /\ r2.ok \in BOOLEAN
  BY <1>6 DEF Reading
<1>8. i2 \in InSet /\ i2.prevout = r1.value /\ i2.scriptSig = r2.value
  BY <1>5, <1>7 DEF InSet
<1>9. /\ r3 \in Reading(Byte) /\ Sound(r3, bytes, r2.pos, <<r3.value>>)
      /\ \A b \in Byte : Holds(bytes, r2.pos, <<b>>) => Exact(r3, r2.pos, b, <<b>>, TRUE)
  BY <1>5, <1>7, ReadFieldIs
<1> HIDE DEF r3, i2
<1>10. r3.value \in Byte /\ r3.pos \in Nat /\ r3.ok \in BOOLEAN
  BY <1>9 DEF Reading
<1>11. i3 \in InSet /\ i3.prevout = r1.value /\ i3.scriptSig = r2.value /\ i3.nSequence = r3.value
  BY <1>8, <1>10 DEF InSet
<1> HIDE DEF i3
<1>12. /\ ~r1.ok => read \in Reading(InSet) /\ ~read.ok
       /\ r1.ok /\ ~r2.ok => read \in Reading(InSet) /\ ~read.ok
       /\ r1.ok /\ r2.ok => read \in Reading(InSet) /\ read.ok = r3.ok /\ read.value = i3 /\ read.pos = r3.pos
  <2>1. Into(NullIn, r1) \in Reading(InSet) /\ Into(NullIn, r1).ok = r1.ok
    <3>1. r1 \in Reading(Byte) /\ NullIn \in InSet
      BY <1>1, <1>3
    <3> QED
      BY ONLY <3>1, IntoIs
  <2>2. Into(i2, r2) \in Reading(InSet) /\ Into(i2, r2).ok = r2.ok
    BY <1>6, <1>8, IntoIs
  <2>3. /\ Into(i3, r3) \in Reading(InSet) /\ Into(i3, r3).ok = r3.ok
        /\ Into(i3, r3).value = i3 /\ Into(i3, r3).pos = r3.pos
    BY <1>9, <1>11, IntoIs
  <2> QED
    BY ONLY <1>2, <2>1, <2>2, <2>3
<1>13. read \in Reading(InSet)
  BY <1>4, <1>7, <1>12
<1>14. ASSUME read.ok
       PROVE  FitsOne("vin", read.value) /\ Sound(read, bytes, pos, WriteIn(read.value))
  <2>1. r1.ok /\ r2.ok /\ r3.ok /\ read.value = i3 /\ read.pos = r3.pos
    BY <1>4, <1>7, <1>12, <1>14
  <2>2. FitsOne("vin", i3)
    BY <1>6, <1>11, <2>1 DEF FitsOne
  <2> DEFINE w1 == <<r1.value>>
             w2 == WriteScript(r2.value)
             w3 == <<r3.value>>
  <2>3. /\ WriteIn(i3) = (w1 \o w2) \o w3
        /\ w1 \in Seq(Byte) /\ w2 \in Seq(Byte) /\ w3 \in Seq(Byte) /\ w1 \o w2 \in Seq(Byte)
    BY <1>11, WriteInIs
  <2>4. Sound(r1, bytes, pos, w1) /\ Sound(r2, bytes, r1.pos, w2) /\ Sound(r3, bytes, r2.pos, w3)
    BY <1>3, <1>6, <1>9
  <2> HIDE DEF w1, w2, w3
  <2>5. Sound(r2, bytes, pos, w1 \o w2)
    BY <2>1, <2>3, <2>4, SoundNext
  <2>6. Sound(read, bytes, pos, (w1 \o w2) \o w3)
    BY <2>1, <2>3, <2>4, <2>5, SoundNext
  <2> QED
    BY <2>1, <2>2, <2>3, <2>6
<1>15. ASSUME NEW v \in InSet, Holds(bytes, pos, WriteIn(v))
       PROVE  Exact(read, pos, v, WriteIn(v), FitsOne("vin", v))
  <2> DEFINE w1 == <<v.prevout>>
             w2 == WriteScript(v.scriptSig)
             w3 == <<v.nSequence>>
  <2>1. /\ WriteIn(v) = (w1 \o w2) \o w3 /\ Len(WriteIn(v)) = 1 + Len(w2) + 1 /\ Len(w1 \o w2) = 1 + Len(w2)
        /\ w1 \in Seq(Byte) /\ w2 \in Seq(Byte) /\ w3 \in Seq(Byte) /\ w1 \o w2 \in Seq(Byte) /\ Len(w2) \in Nat
    BY WriteInIs
  <2>2. v.prevout \in Byte /\ v.scriptSig \in Seq(Byte) /\ v.nSequence \in Byte /\ Len(w1) = 1 /\ Len(w3) = 1
    BY DEF InSet
  <2> HIDE DEF w1, w2, w3
  <2>3. Holds(bytes, pos, w1 \o w2) /\ Holds(bytes, pos + (1 + Len(w2)), w3)
    <3>1. Holds(bytes, pos, (w1 \o w2) \o w3)
      BY <1>15, <2>1
    <3>2. Holds(bytes, pos, w1 \o w2) /\ Holds(bytes, pos + Len(w1 \o w2), w3)
      BY ONLY <2>1, <3>1, HoldsConcat, bytes \in Seq(Byte), pos \in Nat
    <3> QED
      BY <2>1, <3>2
  <2>4. Holds(bytes, pos, w1) /\ Holds(bytes, pos + 1, w2)
    BY <2>1, <2>2, <2>3, HoldsConcat
  <2>5. r1.ok /\ r1.value = v.prevout /\ r1.pos = pos + 1
    BY <1>3, <2>2, <2>4 DEF Exact, w1
  <2>6. Exact(r2, pos + 1, v.scriptSig, w2, Len(v.scriptSig) <= MAX_SIZE)
    BY <1>6, <2>2, <2>4, <2>5 DEF w2
  <2>7. CASE ~r2.ok
    BY <1>12, <2>5, <2>6, <2>7 DEF Exact, FitsOne
  <2>8. CASE r2.ok
    <3>1. Len(v.scriptSig) <= MAX_SIZE /\ r2.value = v.scriptSig /\ r2.pos = pos + (1 + Len(w2))
      BY <2>1, <2>6, <2>8 DEF Exact
    <3>2. r3.ok /\ r3.value = v.nSequence /\ r3.pos = pos + (1 + Len(w2)) + 1
      BY <1>9, <2>2, <2>3, <3>1 DEF Exact, w3
    <3>3. i3 = v
      BY <1>11, <2>5, <3>1, <3>2 DEF InSet
    <3>4. read.ok /\ read.value = v /\ read.pos = r3.pos /\ FitsOne("vin", v)
      BY <1>12, <2>5, <2>8, <3>1, <3>2, <3>3 DEF FitsOne
    <3>5. read.pos = pos + Len(WriteIn(v))
      BY <2>1, <3>2, <3>4
    <3> QED
      BY <3>4, <3>5 DEF Exact
  <2> QED
    BY <1>7, <2>7, <2>8
<1>16. Sound(read, bytes, pos, WriteIn(read.value))
  <2>1. CASE read.ok
    BY <1>14, <2>1
  <2>2. CASE ~read.ok
    BY <2>2 DEF Sound
  <2> QED
    BY <2>1, <2>2
<1> QED
  BY <1>13, <1>14, <1>15, <1>16 DEF read

LEMMA ReadOutIs ==
  ASSUME NEW bytes \in Seq(Byte), NEW pos \in Nat
  PROVE  LET read == ReadOut(bytes, pos)
         IN  /\ read \in Reading(OutSet)
             /\ read.ok => FitsOne("vout", read.value)
             /\ Sound(read, bytes, pos, WriteOut(read.value))
             /\ \A v \in OutSet : Holds(bytes, pos, WriteOut(v)) =>
                  Exact(read, pos, v, WriteOut(v), FitsOne("vout", v))
<1> DEFINE r1 == ReadField(bytes, pos, NullOut.nValue)
           o1 == [NullOut EXCEPT !.nValue = r1.value]
           r2 == ReadScript(bytes, r1.pos)
           o2 == [o1 EXCEPT !.scriptPubKey = r2.value]
           read == ReadOut(bytes, pos)
<1>1. NullOut \in OutSet /\ NullOut.nValue \in Byte
  BY MarkersAre DEF NullOut, Out, OutSet
<1>2. read = IF r1.ok THEN Into(o2, r2) ELSE Into(NullOut, r1)
  BY DEF ReadOut, OutAmount, OutScript
<1>3. /\ r1 \in Reading(Byte) /\ Sound(r1, bytes, pos, <<r1.value>>)
      /\ \A b \in Byte : Holds(bytes, pos, <<b>>) => Exact(r1, pos, b, <<b>>, TRUE)
  BY <1>1, ReadFieldIs
<1> HIDE DEF r1, read
<1>4. r1.value \in Byte /\ r1.pos \in Nat /\ r1.ok \in BOOLEAN
  BY <1>3 DEF Reading
<1>5. o1 \in OutSet /\ o1.nValue = r1.value
  BY <1>1, <1>4 DEF OutSet
<1>6. /\ r2 \in Reading(Seq(Byte)) /\ (r2.ok => Len(r2.value) <= MAX_SIZE)
      /\ Sound(r2, bytes, r1.pos, WriteScript(r2.value))
      /\ \A s \in Seq(Byte) : Holds(bytes, r1.pos, WriteScript(s)) =>
           Exact(r2, r1.pos, s, WriteScript(s), Len(s) <= MAX_SIZE)
  BY <1>4, ReadScriptIs
<1> HIDE DEF r2, o1
<1>7. r2.value \in Seq(Byte) /\ r2.pos \in Nat /\ r2.ok \in BOOLEAN
  BY <1>6 DEF Reading
<1>8. o2 \in OutSet /\ o2.nValue = r1.value /\ o2.scriptPubKey = r2.value
  BY <1>5, <1>7 DEF OutSet
<1> HIDE DEF o2
<1>9. /\ ~r1.ok => read \in Reading(OutSet) /\ ~read.ok
      /\ r1.ok => read \in Reading(OutSet) /\ read.ok = r2.ok /\ read.value = o2 /\ read.pos = r2.pos
  <2>1. Into(NullOut, r1) \in Reading(OutSet) /\ Into(NullOut, r1).ok = r1.ok
    <3>1. r1 \in Reading(Byte) /\ NullOut \in OutSet
      BY <1>1, <1>3
    <3> QED
      BY ONLY <3>1, IntoIs
  <2>2. /\ Into(o2, r2) \in Reading(OutSet) /\ Into(o2, r2).ok = r2.ok
        /\ Into(o2, r2).value = o2 /\ Into(o2, r2).pos = r2.pos
    BY <1>6, <1>8, IntoIs
  <2> QED
    BY ONLY <1>2, <2>1, <2>2
<1>10. read \in Reading(OutSet)
  BY <1>4, <1>9
<1>11. ASSUME read.ok
       PROVE  FitsOne("vout", read.value) /\ Sound(read, bytes, pos, WriteOut(read.value))
  <2>1. r1.ok /\ r2.ok /\ read.value = o2 /\ read.pos = r2.pos
    BY <1>4, <1>9, <1>11
  <2>2. FitsOne("vout", o2)
    BY <1>6, <1>8, <2>1 DEF FitsOne
  <2> DEFINE w1 == <<r1.value>>
             w2 == WriteScript(r2.value)
  <2>3. WriteOut(o2) = w1 \o w2 /\ w1 \in Seq(Byte) /\ w2 \in Seq(Byte)
    BY <1>8, WriteOutIs
  <2>4. Sound(r1, bytes, pos, w1) /\ Sound(r2, bytes, r1.pos, w2)
    BY <1>3, <1>6
  <2> HIDE DEF w1, w2
  <2>5. Sound(read, bytes, pos, w1 \o w2)
    BY <2>1, <2>3, <2>4, SoundNext
  <2> QED
    BY <2>1, <2>2, <2>3, <2>5
<1>12. ASSUME NEW v \in OutSet, Holds(bytes, pos, WriteOut(v))
       PROVE  Exact(read, pos, v, WriteOut(v), FitsOne("vout", v))
  <2> DEFINE w1 == <<v.nValue>>
             w2 == WriteScript(v.scriptPubKey)
  <2>1. /\ WriteOut(v) = w1 \o w2 /\ Len(WriteOut(v)) = 1 + Len(w2)
        /\ w1 \in Seq(Byte) /\ w2 \in Seq(Byte) /\ Len(w2) \in Nat
    BY WriteOutIs
  <2>2. v.nValue \in Byte /\ v.scriptPubKey \in Seq(Byte) /\ Len(w1) = 1
    BY DEF OutSet
  <2> HIDE DEF w1, w2
  <2>3. Holds(bytes, pos, w1) /\ Holds(bytes, pos + 1, w2)
    BY <1>12, <2>1, <2>2, HoldsConcat
  <2>4. r1.ok /\ r1.value = v.nValue /\ r1.pos = pos + 1
    BY <1>3, <2>2, <2>3 DEF Exact, w1
  <2>5. Exact(r2, pos + 1, v.scriptPubKey, w2, Len(v.scriptPubKey) <= MAX_SIZE)
    BY <1>6, <2>2, <2>3, <2>4 DEF w2
  <2>6. r2.ok => o2 = v
    BY <1>8, <2>4, <2>5 DEF OutSet, Exact
  <2> QED
    BY <1>9, <2>1, <2>4, <2>5, <2>6 DEF Exact, FitsOne
<1>13. Sound(read, bytes, pos, WriteOut(read.value))
  <2>1. CASE read.ok
    BY <1>11, <2>1
  <2>2. CASE ~read.ok
    BY <2>2 DEF Sound
  <2> QED
    BY <2>1, <2>2
<1> QED
  BY <1>10, <1>11, <1>12, <1>13 DEF read

LEMMA ReadOneIs ==
  ASSUME NEW of \in {"vin", "vout"}, NEW bytes \in Seq(Byte), NEW pos \in Nat
  PROVE  LET read == ReadOne(of, bytes, pos)
         IN  /\ read \in Reading(OneSet(of))
             /\ read.ok => FitsOne(of, read.value)
             /\ Sound(read, bytes, pos, WriteOne(of, read.value))
             /\ \A v \in OneSet(of) : Holds(bytes, pos, WriteOne(of, v)) =>
                  Exact(read, pos, v, WriteOne(of, v), FitsOne(of, v))
<1>1. CASE of = "vin"
  <2>1. /\ ReadOne(of, bytes, pos) = ReadIn(bytes, pos) /\ OneSet(of) = InSet
        /\ \A v : WriteOne(of, v) = WriteIn(v)
    BY <1>1 DEF ReadOne, OneSet, WriteOne
  <2> QED
    BY <1>1, <2>1, ReadInIs
<1>2. CASE of = "vout"
  <2>1. /\ ReadOne(of, bytes, pos) = ReadOut(bytes, pos) /\ OneSet(of) = OutSet
        /\ \A v : WriteOne(of, v) = WriteOut(v)
    BY <1>2 DEF ReadOne, OneSet, WriteOne
  <2> QED
    BY <1>2, <2>1, ReadOutIs
<1> QED
  BY <1>1, <1>2

LEMMA WriteOneIs ==
  ASSUME NEW of \in {"vin", "vout"}, NEW v \in OneSet(of)
  PROVE  WriteOne(of, v) \in Seq(Byte)
BY WriteInIs, WriteOutIs DEF OneSet, WriteOne

-----------------------------------------------------------------------------
-----------------------------------------------------------------------------
(* Vectors.                                                                 *)
Written(of, v) == [i \in DOMAIN v |-> WriteOne(of, v[i])]

FitsAll(of, v) == Len(v) <= MAX_SIZE /\ \A i \in DOMAIN v : FitsOne(of, v[i])

LEMMA WrittenIs ==
  ASSUME NEW of \in {"vin", "vout"}, NEW v \in Seq(OneSet(of))
  PROVE  /\ Written(of, v) \in Seq(Seq(Byte)) /\ Len(Written(of, v)) = Len(v) /\ Len(v) \in Nat
         /\ \A i \in 1 .. Len(v) : v[i] \in OneSet(of) /\ Written(of, v)[i] = WriteOne(of, v[i])
                                   /\ WriteOne(of, v[i]) \in Seq(Byte)
<1>1. Len(v) \in Nat /\ DOMAIN v = 1 .. Len(v) /\ \A i \in 1 .. Len(v) : v[i] \in OneSet(of)
  BY ElementOfSeq
<1>2. \A i \in 1 .. Len(v) : WriteOne(of, v[i]) \in Seq(Byte)
  BY <1>1, WriteOneIs
<1>3. Written(of, v) = [i \in 1 .. Len(v) |-> WriteOne(of, v[i])]
  BY <1>1 DEF Written
<1>4. Written(of, v) \in Seq(Seq(Byte)) /\ Len(Written(of, v)) = Len(v)
  BY <1>1, <1>2, <1>3
<1> QED
  BY <1>1, <1>2, <1>3, <1>4

LEMMA FillOneIs ==
  ASSUME NEW of \in {"vin", "vout"}, NEW bytes \in Seq(Byte), NEW before \in Reading(Seq(OneSet(of)))
  PROVE  LET after == FillOne(of, bytes, before)
             one == ReadOne(of, bytes, before.pos)
         IN  /\ after \in Reading(Seq(OneSet(of)))
             /\ ~before.ok => ~after.ok
             /\ before.ok => /\ after.value = Append(before.value, one.value)
                             /\ after.pos = one.pos /\ after.ok = one.ok
<1> DEFINE after == FillOne(of, bytes, before)
           one == ReadOne(of, bytes, before.pos)
           null == IF of = "vin" THEN NullIn ELSE NullOut
<1>1. before.value \in Seq(OneSet(of)) /\ before.pos \in Nat /\ before.ok \in BOOLEAN
  BY DEF Reading
<1>2. one \in Reading(OneSet(of))
  BY <1>1, ReadOneIs
<1>3. null \in OneSet(of)
  <2>1. NullIn \in InSet
    BY MarkersAre DEF NullIn, In, InSet
  <2>2. NullOut \in OutSet
    BY MarkersAre DEF NullOut, Out, OutSet
  <2> QED
    BY <2>1, <2>2 DEF OneSet
<1>4. after = IF ~before.ok THEN Into(Append(before.value, null), before)
              ELSE Into(Append(before.value, one.value), one)
  BY DEF FillOne, AppendTo, ReadOne
<1> HIDE DEF null, one, after
<1>5. one.value \in OneSet(of)
  BY <1>2 DEF Reading
<1>6. Append(before.value, null) \in Seq(OneSet(of)) /\ Append(before.value, one.value) \in Seq(OneSet(of))
  BY <1>1, <1>3, <1>5
<1>7. /\ Into(Append(before.value, null), before) \in Reading(Seq(OneSet(of)))
      /\ Into(Append(before.value, null), before).ok = before.ok
  <2> DEFINE vector == Append(before.value, null)
             S == Seq(OneSet(of))
  <2>1. vector \in S /\ before \in Reading(S)
    BY <1>6
  <2> HIDE DEF vector, S
  <2>2. Into(vector, before) \in Reading(S) /\ Into(vector, before).ok = before.ok
    BY ONLY <2>1, IntoIs
  <2> QED
    BY ONLY <2>2 DEF vector, S
<1>8. LET r == Into(Append(before.value, one.value), one)
      IN  r \in Reading(Seq(OneSet(of))) /\ r.value = Append(before.value, one.value) /\ r.pos = one.pos /\ r.ok = one.ok
  <2> DEFINE vector == Append(before.value, one.value)
             S == Seq(OneSet(of))
             V == OneSet(of)
  <2>1. vector \in S /\ one \in Reading(V)
    BY <1>2, <1>6
  <2> HIDE DEF vector, S, V
  <2> DEFINE r == Into(vector, one)
  <2>2. one.pos \in Nat /\ one.ok \in BOOLEAN
    BY ONLY <2>1 DEF Reading
  <2>3. one = [value |-> one.value, pos |-> one.pos, ok |-> one.ok]
    BY ONLY <2>1 DEF Reading
  <2>4. r = [value |-> vector, pos |-> one.pos, ok |-> one.ok]
    BY ONLY <2>3 DEF Into
  <2> HIDE DEF r
  <2>5. r \in Reading(S) /\ r.value = vector /\ r.pos = one.pos /\ r.ok = one.ok
    BY ONLY <2>1, <2>2, <2>4 DEF Reading
  <2> QED
    BY ONLY <2>5 DEF r, vector, S
<1> QED
  BY ONLY <1>4, <1>7, <1>8 DEF after, one

IsFill(of, bytes, pos, fill) ==
  /\ fill \in [Nat -> Reading(Seq(OneSet(of)))]
  /\ fill[0] = Read(<<>>, pos, TRUE)
  /\ \A i \in Nat : fill[i + 1] = FillOne(of, bytes, fill[i])

LEMMA FillIs ==
  ASSUME NEW of \in {"vin", "vout"}, NEW bytes \in Seq(Byte), NEW n \in Reading(Nat), n.ok
  PROVE  \E fill : IsFill(of, bytes, n.pos, fill) /\ Fill(of, bytes, n) = fill[n.value]
<1> DEFINE S == Reading(Seq(OneSet(of)))
           base == Read(<<>>, n.pos, TRUE)
           H == [x \in Nat \X S |-> FillOne(of, bytes, x[2])]
           fill[i \in Nat] == IF i = 0 THEN Read(<<>>, n.pos, TRUE) ELSE FillOne(of, bytes, fill[i - 1])
<1>1. n.pos \in Nat /\ n.value \in Nat
  BY DEF Reading
<1>2. base \in S
  BY <1>1 DEF Read, Reading
<1>3. \A x \in S : FillOne(of, bytes, x) \in S
  BY FillOneIs
<1>4. \A i \in Nat : \A x \in S : H[<<i, x>>] = FillOne(of, bytes, x)
  <2> HIDE DEF S
  <2> QED
    OBVIOUS
<1>5. H \in [Nat \X S -> S]
  <2>1. H = [x \in Nat \X S |-> H[x]]
    <3> HIDE DEF S
    <3> QED
      OBVIOUS
  <2>2. \A x \in Nat \X S : x[2] \in S /\ H[x] = FillOne(of, bytes, x[2])
    <3> HIDE DEF S
    <3> QED
      OBVIOUS
  <2> HIDE DEF H, S
  <2>3. \A x \in Nat \X S : H[x] \in S
    BY ONLY <1>3, <2>2
  <2> QED
    BY ONLY <2>1, <2>3
<1> HIDE DEF H, S
<1>6. PICK f : Upward(S, base, H, f)
  BY ONLY <1>2, <1>5, UpwardExists
<1>7. f \in [Nat -> S] /\ f[0] = base /\ \A i \in Nat : f[i + 1] = FillOne(of, bytes, f[i])
  <2>1. f \in [Nat -> S] /\ f[0] = base /\ \A i \in Nat : f[i + 1] = H[<<i, f[i]>>]
    BY ONLY <1>6 DEF Upward
  <2>2. \A i \in Nat : f[i] \in S
    BY ONLY <2>1
  <2> QED
    BY ONLY <1>4, <2>1, <2>2
<1>8. f = [i \in Nat |-> IF i = 0 THEN Read(<<>>, n.pos, TRUE) ELSE FillOne(of, bytes, f[i - 1])]
  <2>1. ASSUME NEW i \in Nat, i # 0 PROVE f[i] = FillOne(of, bytes, f[i - 1])
    <3>1. i - 1 \in Nat /\ (i - 1) + 1 = i
      BY <2>1
    <3> QED
      BY <1>7, <3>1
  <2>2. f = [i \in Nat |-> f[i]]
    BY ONLY <1>7
  <2> QED
    BY ONLY <1>7, <2>1, <2>2
<1>9. fill = [i \in Nat |-> IF i = 0 THEN Read(<<>>, n.pos, TRUE) ELSE FillOne(of, bytes, fill[i - 1])]
  BY ONLY <1>8
<1>10. Fill(of, bytes, n) = fill[n.value]
  BY DEF Fill
<1> HIDE DEF fill
<1>11. fill[0] = base
  BY ONLY <1>9
<1>12. ASSUME NEW i \in Nat PROVE fill[i + 1] = FillOne(of, bytes, fill[i])
  <2>1. i + 1 \in Nat /\ i + 1 # 0 /\ (i + 1) - 1 = i
    OBVIOUS
  <2>2. fill[i + 1] = FillOne(of, bytes, fill[(i + 1) - 1])
    BY ONLY <1>9, <2>1
  <2> QED
    BY <2>1, <2>2
<1> DEFINE T == {i \in Nat : fill[i] \in S}
<1>13. 0 \in T
  BY <1>2, <1>11
<1>14. \A i \in Nat : i \in T => i + 1 \in T
  <2> SUFFICES ASSUME NEW i \in Nat, fill[i] \in S PROVE fill[i + 1] \in S
    OBVIOUS
  <2>1. fill[i + 1] = FillOne(of, bytes, fill[i])
    BY ONLY <1>12, i \in Nat
  <2> QED
    BY ONLY <1>3, <2>1, fill[i] \in S
<1> HIDE DEF T
<1>15. Nat \subseteq T
  BY ONLY <1>13, <1>14, AllNaturals
<1>16. fill \in [Nat -> S]
  <2>1. \A i \in Nat : fill[i] \in S
    BY <1>15 DEF T
  <2>2. fill = [i \in Nat |-> fill[i]]
    BY ONLY <1>9
  <2> QED
    BY ONLY <2>1, <2>2
<1> QED
  BY <1>10, <1>11, <1>12, <1>16 DEF IsFill, S

LEMMA WriteVectorIs ==
  ASSUME NEW of \in {"vin", "vout"}, NEW v \in Seq(OneSet(of))
  PROVE  \E f : /\ IsFlat(Byte, Written(of, v), f)
                /\ LET size == WriteCompactSize(Len(v))
                       flat == f[Len(v)]
                   IN  /\ WriteVector(Written(of, v)) = size \o flat
                       /\ size \in Seq(Byte) /\ flat \in Seq(Byte)
                       /\ WriteVector(Written(of, v)) \in Seq(Byte)
                       /\ Len(WriteVector(Written(of, v))) = Len(size) + Len(flat)
                       /\ Len(size) \in Nat /\ Len(flat) \in Nat
<1>1. Written(of, v) \in Seq(Seq(Byte)) /\ Len(Written(of, v)) = Len(v) /\ Len(v) \in Nat
  BY WrittenIs
<1>2. PICK f : IsFlat(Byte, Written(of, v), f) /\ FlattenSeq(Written(of, v)) = f[Len(v)]
  BY <1>1, FlatExists
<1>3. f[Len(v)] \in Seq(Byte)
  BY <1>1, <1>2 DEF IsFlat
<1>4. WriteVector(Written(of, v)) = WriteCompactSize(Len(v)) \o f[Len(v)]
  BY <1>1, <1>2 DEF WriteVector
<1>5. WriteCompactSize(Len(v)) \in Seq(Byte)
  BY <1>1, WriteCompactSizeIs
<1>6. /\ WriteCompactSize(Len(v)) \o f[Len(v)] \in Seq(Byte)
      /\ Len(WriteCompactSize(Len(v)) \o f[Len(v)]) = Len(WriteCompactSize(Len(v))) + Len(f[Len(v)])
      /\ Len(WriteCompactSize(Len(v))) \in Nat /\ Len(f[Len(v)]) \in Nat
  BY <1>3, <1>5, ConcatFacts
<1> QED
  BY <1>2, <1>3, <1>4, <1>5, <1>6

(* The turns of the loop that fills a vector.                               *)
LEMMA TurnOfFill ==
  ASSUME NEW of \in {"vin", "vout"}, NEW bytes \in Seq(Byte), NEW pos \in Nat, NEW fill, IsFill(of, bytes, pos, fill),
         NEW i \in Nat
  PROVE  LET one == ReadOne(of, bytes, fill[i].pos)
         IN  /\ fill[i].value \in Seq(OneSet(of)) /\ fill[i].pos \in Nat /\ fill[i].ok \in BOOLEAN
             /\ Len(fill[i].value) \in Nat /\ fill[i + 1].ok \in BOOLEAN
             /\ fill[i + 1].ok => fill[i].ok /\ one.ok
             /\ fill[i].ok =>
                  /\ fill[i + 1].ok = one.ok /\ fill[i + 1].pos = one.pos
                  /\ Len(fill[i + 1].value) = Len(fill[i].value) + 1
                  /\ \A j \in 1 .. Len(fill[i].value) : fill[i + 1].value[j] = fill[i].value[j]
                  /\ fill[i + 1].value[Len(fill[i].value) + 1] = one.value
<1> DEFINE one == ReadOne(of, bytes, fill[i].pos)
<1>1. fill[i] \in Reading(Seq(OneSet(of))) /\ fill[i + 1] \in Reading(Seq(OneSet(of)))
      /\ fill[i + 1] = FillOne(of, bytes, fill[i])
  BY DEF IsFill
<1>2. /\ fill[i].value \in Seq(OneSet(of)) /\ fill[i].pos \in Nat /\ fill[i].ok \in BOOLEAN
      /\ fill[i + 1].ok \in BOOLEAN
  BY <1>1 DEF Reading
<1>3. /\ ~fill[i].ok => ~fill[i + 1].ok
      /\ fill[i].ok => /\ fill[i + 1].value = Append(fill[i].value, one.value)
                       /\ fill[i + 1].pos = one.pos /\ fill[i + 1].ok = one.ok
  <2> DEFINE before == fill[i]
  <2>1. before \in Reading(Seq(OneSet(of)))
    BY <1>1
  <2>2. /\ ~before.ok => ~FillOne(of, bytes, before).ok
        /\ before.ok => /\ FillOne(of, bytes, before).value = Append(before.value, ReadOne(of, bytes, before.pos).value)
                        /\ FillOne(of, bytes, before).pos = ReadOne(of, bytes, before.pos).pos
                        /\ FillOne(of, bytes, before).ok = ReadOne(of, bytes, before.pos).ok
    <3> HIDE DEF before
    <3> QED
      BY ONLY <2>1, FillOneIs, of \in {"vin", "vout"}, bytes \in Seq(Byte)
  <2>3. fill[i + 1] = FillOne(of, bytes, before)
    BY <1>1
  <2> HIDE DEF before
  <2> QED
    BY ONLY <2>2, <2>3 DEF one, before
<1>4. one.value \in OneSet(of)
  BY <1>2, ReadOneIs DEF Reading
<1> HIDE DEF one
<1>5. LET s == fill[i].value
          t == Append(fill[i].value, one.value)
      IN  /\ Len(t) = Len(s) + 1 /\ Len(s) \in Nat /\ t[Len(s) + 1] = one.value
          /\ \A j \in 1 .. Len(s) : t[j] = s[j]
  BY <1>2, <1>4
<1> QED
  BY <1>2, <1>3, <1>5 DEF one

(* A vector that was read to its end: every turn read an element.           *)
LEMMA FilledIsSound ==
  ASSUME NEW of \in {"vin", "vout"}, NEW bytes \in Seq(Byte), NEW pos \in Nat, NEW fill, IsFill(of, bytes, pos, fill),
         pos <= Len(bytes), NEW n \in Nat, fill[n].ok, NEW f, IsFlat(Byte, Written(of, fill[n].value), f)
  PROVE  /\ Len(fill[n].value) = n /\ \A i \in 1 .. n : FitsOne(of, fill[n].value[i])
         /\ Sound(fill[n], bytes, pos, f[n])
<1> DEFINE v == fill[n].value
           one(i) == ReadOne(of, bytes, fill[i].pos)
<1>1. \A i \in 0 .. n : fill[i].ok
  <2> DEFINE T == {i \in Nat : fill[i].ok}
  <2>1. n \in T
    OBVIOUS
  <2>2. \A i \in 0 .. n - 1 : i + 1 \in T => i \in T
    BY TurnOfFill
  <2> HIDE DEF T
  <2>3. 0 .. n \subseteq T
    BY <2>1, <2>2, Backwards
  <2> QED
    BY <2>3 DEF T
<1>2. \A k \in 0 .. n : Len(fill[k].value) = k /\ \A j \in 1 .. k : fill[k].value[j] = one(j - 1).value
  <2> DEFINE U == {k \in Nat : k <= n => Len(fill[k].value) = k /\ \A j \in 1 .. k : fill[k].value[j] = one(j - 1).value}
  <2>1. 0 \in U
    <3>1. fill[0].value = <<>>
      BY DEF IsFill, Read
    <3> QED
      BY <3>1
  <2>2. ASSUME NEW k \in Nat, k \in U PROVE k + 1 \in U
    <3> SUFFICES ASSUME k + 1 <= n
                 PROVE  /\ Len(fill[k + 1].value) = k + 1
                        /\ \A j \in 1 .. k + 1 : fill[k + 1].value[j] = one(j - 1).value
      OBVIOUS
    <3>1. fill[k].ok /\ Len(fill[k].value) = k /\ \A j \in 1 .. k : fill[k].value[j] = one(j - 1).value
      BY <1>1, <2>2
    <3>2. /\ Len(fill[k + 1].value) = k + 1 /\ fill[k + 1].value[k + 1] = one(k).value
          /\ \A j \in 1 .. k : fill[k + 1].value[j] = fill[k].value[j]
      <4>1. fill[k].ok =>
              /\ Len(fill[k + 1].value) = Len(fill[k].value) + 1
              /\ \A j \in 1 .. Len(fill[k].value) : fill[k + 1].value[j] = fill[k].value[j]
              /\ fill[k + 1].value[Len(fill[k].value) + 1] = ReadOne(of, bytes, fill[k].pos).value
        BY TurnOfFill
      <4>2. fill[k].ok /\ Len(fill[k].value) = k
        BY <3>1
      <4> QED
        BY ONLY <4>1, <4>2
    <3>3. ASSUME NEW j \in 1 .. k + 1 PROVE fill[k + 1].value[j] = one(j - 1).value
      <4>1. CASE j = k + 1
        <5>1. j - 1 = k
          BY <4>1
        <5> QED
          BY <3>2, <4>1, <5>1
      <4>2. CASE j # k + 1
        <5>1. j \in 1 .. k
          BY <4>2
        <5> QED
          BY <3>1, <3>2, <5>1
      <4> QED
        BY <4>1, <4>2
    <3> QED
      BY <3>2, <3>3
  <2> HIDE DEF U
  <2>3. Nat \subseteq U
    BY <2>1, <2>2, AllNaturals
  <2> QED
    BY <2>3 DEF U
<1>3. v \in Seq(OneSet(of)) /\ Len(v) = n /\ \A i \in 1 .. n : v[i] = one(i - 1).value
  <2>1. v \in Seq(OneSet(of))
    BY TurnOfFill
  <2>2. n \in 0 .. n
    OBVIOUS
  <2> HIDE DEF one
  <2> QED
    BY <1>2, <2>1, <2>2
<1>4. /\ \A i \in 1 .. n : v[i] \in OneSet(of) /\ Written(of, v)[i] = WriteOne(of, v[i]) /\ WriteOne(of, v[i]) \in Seq(Byte)
      /\ Len(Written(of, v)) = n
  BY <1>3, WrittenIs
<1> HIDE DEF v
<1>5. /\ \A i \in 0 .. n : f[i] \in Seq(Byte)
      /\ f[0] = <<>> /\ \A i \in Nat : i < n => f[i + 1] = f[i] \o Written(of, v)[i + 1]
  BY <1>4 DEF IsFlat, v
(* One turn.                                                                *)
<1>6. ASSUME NEW i \in Nat, i < n
      PROVE  /\ fill[i].pos \in Nat /\ v[i + 1] = one(i).value /\ FitsOne(of, v[i + 1])
             /\ Sound(one(i), bytes, fill[i].pos, WriteOne(of, v[i + 1]))
             /\ one(i).ok /\ fill[i + 1].pos = one(i).pos
  <2>1. i \in 0 .. n /\ i + 1 \in 0 .. n /\ i + 1 \in 1 .. n /\ (i + 1) - 1 = i
    BY <1>6
  <2>2. fill[i].ok /\ fill[i + 1].ok /\ v[i + 1] = one(i).value
    BY <1>1, <1>3, <2>1
  <2>3. fill[i].pos \in Nat /\ one(i).ok /\ fill[i + 1].pos = one(i).pos
    BY <2>2, TurnOfFill
  <2>4. /\ one(i).ok => FitsOne(of, one(i).value)
        /\ Sound(one(i), bytes, fill[i].pos, WriteOne(of, one(i).value))
    BY <2>3, ReadOneIs
  <2> QED
    BY <2>2, <2>3, <2>4
<1> HIDE DEF one
<1>7. \A i \in 1 .. n : FitsOne(of, v[i])
  <2>1. ASSUME NEW i \in 1 .. n PROVE FitsOne(of, v[i])
    <3>1. i - 1 \in Nat /\ i - 1 < n /\ (i - 1) + 1 = i
      OBVIOUS
    <3>2. FitsOne(of, v[(i - 1) + 1])
      BY ONLY <1>6, <3>1
    <3> QED
      BY <3>1, <3>2
  <2> QED
    BY <2>1
<1> DEFINE W == {i \in Nat : i <= n => Sound(fill[i], bytes, pos, f[i])}
<1>8. 0 \in W
  <2>1. fill[0].pos = pos /\ f[0] = <<>> /\ Len(<<>>) = 0
    BY <1>5 DEF IsFill, Read
  <2>2. Holds(bytes, pos, <<>>)
    BY DEF Holds
  <2> QED
    BY <2>1, <2>2 DEF Sound
<1>9. ASSUME NEW i \in Nat, i \in W PROVE i + 1 \in W
  <2> SUFFICES ASSUME i + 1 <= n PROVE Sound(fill[i + 1], bytes, pos, f[i + 1])
    OBVIOUS
  <2>1. i < n /\ i \in 0 .. n /\ i + 1 \in 1 .. n
    OBVIOUS
  <2>2. Sound(fill[i], bytes, pos, f[i]) /\ fill[i].ok
    BY <1>1, <1>9, <2>1
  <2>3. f[i] \in Seq(Byte) /\ f[i + 1] = f[i] \o WriteOne(of, v[i + 1]) /\ WriteOne(of, v[i + 1]) \in Seq(Byte)
    BY <1>4, <1>5, <2>1
  <2>4. /\ Sound(one(i), bytes, fill[i].pos, WriteOne(of, v[i + 1]))
        /\ one(i).ok /\ fill[i + 1].pos = one(i).pos
    BY <1>6, <2>1
  <2>5. Sound(fill[i + 1], bytes, pos, f[i] \o WriteOne(of, v[i + 1]))
    BY <2>2, <2>3, <2>4, SoundNext
  <2> QED
    BY <2>3, <2>5
<1> HIDE DEF W
<1>10. Nat \subseteq W
  BY <1>8, <1>9, AllNaturals
<1>11. Sound(fill[n], bytes, pos, f[n])
  BY <1>10 DEF W
<1> QED
  BY <1>3, <1>7, <1>11 DEF v

(* A vector that is there is filled until an element does not fit.          *)
LEMMA FilledIsExact ==
  ASSUME NEW of \in {"vin", "vout"}, NEW bytes \in Seq(Byte), NEW pos \in Nat, NEW fill, IsFill(of, bytes, pos, fill),
         NEW v \in Seq(OneSet(of)), NEW f, IsFlat(Byte, Written(of, v), f), Holds(bytes, pos, f[Len(v)])
  PROVE  Exact(fill[Len(v)], pos, v, f[Len(v)], \A i \in DOMAIN v : FitsOne(of, v[i]))
<1> DEFINE n == Len(v)
           one(i) == ReadOne(of, bytes, fill[i].pos)
<1>1. /\ n \in Nat /\ Len(Written(of, v)) = n /\ DOMAIN v = 1 .. n
      /\ \A i \in 1 .. n : v[i] \in OneSet(of) /\ Written(of, v)[i] = WriteOne(of, v[i]) /\ WriteOne(of, v[i]) \in Seq(Byte)
  BY WrittenIs
<1> HIDE DEF n
<1>2. /\ \A i \in 0 .. n : f[i] \in Seq(Byte)
      /\ f[0] = <<>> /\ \A i \in Nat : i < n => f[i + 1] = f[i] \o WriteOne(of, v[i + 1])
  <2>1. /\ \A i \in 0 .. n : f[i] \in Seq(Byte)
        /\ f[0] = <<>> /\ \A i \in Nat : i < n => f[i + 1] = f[i] \o Written(of, v)[i + 1]
    BY <1>1 DEF IsFlat
  <2>2. \A i \in Nat : i < n => i + 1 \in 1 .. n
    BY <1>1
  <2> QED
    BY ONLY <1>1, <2>1, <2>2
<1>3. \A i \in 0 .. n : Holds(bytes, pos, f[i])
  <2> DEFINE T == {i \in 0 .. n : Holds(bytes, pos, f[i])}
  <2>1. n \in T
    BY <1>1 DEF n
  <2>2. ASSUME NEW i \in 0 .. n - 1, i + 1 \in T PROVE i \in T
    <3>1. i \in Nat /\ i < n /\ i \in 0 .. n /\ i + 1 \in 1 .. n
      BY <1>1
    <3>2. f[i] \in Seq(Byte) /\ f[i + 1] = f[i] \o WriteOne(of, v[i + 1]) /\ WriteOne(of, v[i + 1]) \in Seq(Byte)
      BY <1>1, <1>2, <3>1
    <3>3. Holds(bytes, pos, f[i] \o WriteOne(of, v[i + 1]))
      BY <2>2, <3>2
    <3> QED
      BY <3>1, <3>2, <3>3, HoldsConcat
  <2> HIDE DEF T
  <2>3. 0 .. n \subseteq T
    BY <1>1, <2>1, <2>2, Backwards
  <2> QED
    BY <2>3 DEF T
<1>4. ASSUME NEW i \in Nat, i < n
      PROVE  Holds(bytes, pos + Len(f[i]), WriteOne(of, v[i + 1])) /\ Len(f[i + 1]) = Len(f[i]) + Len(WriteOne(of, v[i + 1]))
             /\ Len(f[i]) \in Nat /\ v[i + 1] \in OneSet(of) /\ Len(WriteOne(of, v[i + 1])) \in Nat
  <2>1. i \in 0 .. n /\ i + 1 \in 0 .. n /\ i + 1 \in 1 .. n
    BY <1>1, <1>4
  <2>2. f[i] \in Seq(Byte) /\ f[i + 1] = f[i] \o WriteOne(of, v[i + 1]) /\ WriteOne(of, v[i + 1]) \in Seq(Byte)
        /\ v[i + 1] \in OneSet(of)
    BY <1>1, <1>2, <1>4, <2>1
  <2>3. Holds(bytes, pos, f[i] \o WriteOne(of, v[i + 1]))
    BY <1>3, <2>1, <2>2
  <2>4. Holds(bytes, pos + Len(f[i]), WriteOne(of, v[i + 1]))
    BY ONLY <2>2, <2>3, HoldsConcat, bytes \in Seq(Byte), pos \in Nat
  <2>5. /\ Len(f[i] \o WriteOne(of, v[i + 1])) = Len(f[i]) + Len(WriteOne(of, v[i + 1]))
        /\ Len(f[i]) \in Nat /\ Len(WriteOne(of, v[i + 1])) \in Nat
    BY ONLY <2>2, ConcatFacts
  <2> QED
    BY ONLY <2>2, <2>4, <2>5
<1> DEFINE FitTo(i) == \A j \in 1 .. i : FitsOne(of, v[j])
           Good(i) == /\ fill[i].ok <=> FitTo(i)
                      /\ fill[i].ok => /\ fill[i].pos = pos + Len(f[i]) /\ Len(fill[i].value) = i
                                       /\ \A j \in 1 .. i : fill[i].value[j] = v[j]
           W == {i \in Nat : i <= n => Good(i)}
<1>5. 0 \in W
  <2>1. fill[0].ok = TRUE /\ fill[0].pos = pos /\ fill[0].value = <<>>
    BY DEF IsFill, Read
  <2>2. f[0] = <<>> /\ Len(<<>>) = 0 /\ \A j \in 1 .. 0 : FALSE
    BY <1>2
  <2> QED
    BY <2>1, <2>2
<1> HIDE DEF Good
<1>6. ASSUME NEW i \in Nat, i \in W PROVE i + 1 \in W
  <2> SUFFICES ASSUME i + 1 <= n PROVE Good(i + 1)
    OBVIOUS
  <2>1. i < n /\ Good(i)
    BY <1>1, <1>6
  <2> USE DEF Good
  <2>2. FitTo(i + 1) <=> FitTo(i) /\ FitsOne(of, v[i + 1])
    <3>1. 1 .. i + 1 = 1 .. i \cup {i + 1}
      OBVIOUS
    <3> QED
      BY <3>1
  <2>3. /\ fill[i].pos \in Nat /\ fill[i].ok \in BOOLEAN /\ fill[i + 1].ok \in BOOLEAN
        /\ fill[i + 1].ok => fill[i].ok /\ one(i).ok
        /\ fill[i].ok =>
             /\ fill[i + 1].ok = one(i).ok /\ fill[i + 1].pos = one(i).pos
             /\ Len(fill[i + 1].value) = Len(fill[i].value) + 1
             /\ \A j \in 1 .. Len(fill[i].value) : fill[i + 1].value[j] = fill[i].value[j]
             /\ fill[i + 1].value[Len(fill[i].value) + 1] = one(i).value
    BY TurnOfFill
  <2>4. CASE ~fill[i].ok
    BY <2>1, <2>2, <2>3, <2>4
  <2>5. CASE fill[i].ok
    <3> DEFINE w == WriteOne(of, v[i + 1])
    <3>1. /\ fill[i].pos = pos + Len(f[i]) /\ Len(fill[i].value) = i /\ FitTo(i)
          /\ \A j \in 1 .. i : fill[i].value[j] = v[j]
      BY <2>1, <2>5
    <3>2. Holds(bytes, fill[i].pos, w) /\ Len(f[i + 1]) = Len(f[i]) + Len(w) /\ Len(f[i]) \in Nat
          /\ v[i + 1] \in OneSet(of) /\ Len(w) \in Nat
      BY <1>4, <2>1, <3>1
    <3>3. Exact(one(i), fill[i].pos, v[i + 1], w, FitsOne(of, v[i + 1]))
      BY <2>3, <3>2, ReadOneIs
    <3> HIDE DEF one, w, FitTo
    <3>4. fill[i + 1].ok <=> FitTo(i + 1)
      BY <2>2, <2>3, <2>5, <3>1, <3>3 DEF Exact
    <3>5. ASSUME fill[i + 1].ok
          PROVE  /\ fill[i + 1].pos = pos + Len(f[i + 1]) /\ Len(fill[i + 1].value) = i + 1
                 /\ \A j \in 1 .. i + 1 : fill[i + 1].value[j] = v[j]
      <4>1. one(i).value = v[i + 1] /\ one(i).pos = fill[i].pos + Len(w)
        BY <2>3, <3>3, <3>5 DEF Exact
      <4>2. fill[i + 1].pos = pos + Len(f[i + 1])
        <5>1. fill[i + 1].pos = fill[i].pos + Len(w)
          BY ONLY <2>3, <2>5, <4>1
        <5> QED
          BY ONLY <3>1, <3>2, <5>1, pos \in Nat
      <4>3. Len(fill[i + 1].value) = i + 1 /\ fill[i + 1].value[i + 1] = v[i + 1]
        BY ONLY <2>3, <2>5, <3>1, <4>1
      <4>4. \A j \in 1 .. i : fill[i + 1].value[j] = v[j]
        BY ONLY <2>3, <2>5, <3>1
      <4>5. \A j \in 1 .. i + 1 : j \in 1 .. i \/ j = i + 1
        OBVIOUS
      <4> QED
        BY ONLY <4>2, <4>3, <4>4, <4>5
    <3> QED
      BY <3>4, <3>5
  <2> QED
    BY <2>3, <2>4, <2>5
<1> HIDE DEF W
<1>7. Nat \subseteq W
  BY <1>5, <1>6, AllNaturals
<1>8. Good(n)
  BY <1>1, <1>7 DEF W
<1> USE DEF Good
<1>9. fill[n].value \in Seq(OneSet(of))
  BY <1>1, TurnOfFill
<1>10. fill[n].ok => fill[n].value = v
  BY <1>8, <1>9, SeqEqual DEF n
<1> QED
  BY <1>1, <1>8, <1>10 DEF Exact, n

LEMMA ReadVectorIs ==
  ASSUME NEW of \in {"vin", "vout"}, NEW bytes \in Seq(Byte), NEW pos \in Nat
  PROVE  LET read == ReadVector(of, bytes, pos)
         IN  /\ read \in Reading(Seq(OneSet(of)))
             /\ read.ok => FitsAll(of, read.value)
             /\ Sound(read, bytes, pos, WriteVector(Written(of, read.value)))
             /\ \A v \in Seq(OneSet(of)) : Holds(bytes, pos, WriteVector(Written(of, v))) =>
                  Exact(read, pos, v, WriteVector(Written(of, v)), FitsAll(of, v))
<1> DEFINE n == ReadCompactSize(bytes, pos)
           read == ReadVector(of, bytes, pos)
<1>1. /\ n \in Reading(Nat) /\ (n.ok => n.value <= MAX_SIZE)
      /\ Sound(n, bytes, pos, WriteCompactSize(n.value))
      /\ \A k \in Nat : Holds(bytes, pos, WriteCompactSize(k)) =>
           Exact(n, pos, k, WriteCompactSize(k), k <= MAX_SIZE)
  BY ReadCompactSizeIs
<1>2. read = Fill(of, bytes, n)
  BY DEF ReadVector
<1> HIDE DEF n, read
<1>3. n.value \in Nat /\ n.pos \in Nat /\ n.ok \in BOOLEAN
  BY <1>1 DEF Reading
<1>4. CASE ~n.ok
  <2>1. read = Read(<<>>, n.pos, FALSE)
    BY <1>2, <1>4 DEF Fill
  <2>2. read \in Reading(Seq(OneSet(of))) /\ ~read.ok
    BY <1>3, <2>1 DEF Read, Reading
  <2>3. ASSUME NEW v \in Seq(OneSet(of)), Holds(bytes, pos, WriteVector(Written(of, v)))
        PROVE  ~FitsAll(of, v)
    <3>1. PICK f : LET size == WriteCompactSize(Len(v))
                       flat == f[Len(v)]
                   IN  /\ WriteVector(Written(of, v)) = size \o flat
                       /\ size \in Seq(Byte) /\ flat \in Seq(Byte)
      BY WriteVectorIs
    <3>2. Len(v) \in Nat
      BY WrittenIs
    <3>3. Holds(bytes, pos, WriteCompactSize(Len(v)))
      BY <2>3, <3>1, HoldsConcat
    <3> QED
      BY <1>1, <1>4, <3>2, <3>3 DEF Exact, FitsAll
  <2> QED
    BY <2>2, <2>3 DEF Sound, Exact, read
<1>5. CASE n.ok
  <2>1. PICK fill : IsFill(of, bytes, n.pos, fill) /\ read = fill[n.value]
    BY <1>1, <1>2, <1>5, FillIs
  <2>2. read \in Reading(Seq(OneSet(of)))
    BY <1>3, <2>1 DEF IsFill
  <2>3. read.value \in Seq(OneSet(of)) /\ read.ok \in BOOLEAN
    BY <2>2 DEF Reading
  <2>4. /\ n.pos = pos + Len(WriteCompactSize(n.value)) /\ Holds(bytes, pos, WriteCompactSize(n.value))
        /\ n.pos <= Len(bytes)
    BY <1>1, <1>5 DEF Sound, Holds
  <2>5. ASSUME read.ok
        PROVE  FitsAll(of, read.value) /\ Sound(read, bytes, pos, WriteVector(Written(of, read.value)))
    <3> DEFINE v == read.value
               size == WriteCompactSize(Len(v))
    <3>1. PICK f : /\ IsFlat(Byte, Written(of, v), f)
                   /\ WriteVector(Written(of, v)) = size \o f[Len(v)]
                   /\ size \in Seq(Byte) /\ f[Len(v)] \in Seq(Byte)
      BY <2>3, WriteVectorIs
    <3>2. /\ Len(v) = n.value /\ \A i \in 1 .. n.value : FitsOne(of, v[i])
          /\ Sound(read, bytes, n.pos, f[n.value])
      <4>1. fill[n.value].ok /\ IsFlat(Byte, Written(of, fill[n.value].value), f)
        BY ONLY <2>1, <2>5, <3>1
      <4>2. /\ Len(fill[n.value].value) = n.value /\ \A i \in 1 .. n.value : FitsOne(of, fill[n.value].value[i])
            /\ Sound(fill[n.value], bytes, n.pos, f[n.value])
        <5>1. n.value \in Nat /\ n.pos \in Nat /\ n.pos <= Len(bytes) /\ IsFill(of, bytes, n.pos, fill)
          BY <1>3, <2>1, <2>4
        <5> QED
          BY ONLY <4>1, <5>1, FilledIsSound, of \in {"vin", "vout"}, bytes \in Seq(Byte)
      <4> QED
        BY ONLY <2>1, <4>2
    <3>3. Sound(n, bytes, pos, size)
      BY <1>1, <3>2
    <3>4. Sound(read, bytes, pos, size \o f[Len(v)])
      BY <1>5, <3>1, <3>2, <3>3, SoundNext
    <3>5. DOMAIN v = 1 .. n.value
      BY <2>3, <3>2
    <3> QED
      BY <1>1, <1>5, <3>1, <3>2, <3>4, <3>5 DEF FitsAll
  <2>6. ASSUME NEW v \in Seq(OneSet(of)), Holds(bytes, pos, WriteVector(Written(of, v)))
        PROVE  Exact(read, pos, v, WriteVector(Written(of, v)), FitsAll(of, v))
    <3> DEFINE size == WriteCompactSize(Len(v))
    <3>1. PICK f : /\ IsFlat(Byte, Written(of, v), f)
                   /\ WriteVector(Written(of, v)) = size \o f[Len(v)]
                   /\ size \in Seq(Byte) /\ f[Len(v)] \in Seq(Byte)
                   /\ Len(WriteVector(Written(of, v))) = Len(size) + Len(f[Len(v)])
                   /\ Len(size) \in Nat /\ Len(f[Len(v)]) \in Nat
      BY WriteVectorIs
    <3>2. Len(v) \in Nat
      BY WrittenIs
    <3>3. Holds(bytes, pos, size) /\ Holds(bytes, pos + Len(size), f[Len(v)])
      BY <2>6, <3>1, HoldsConcat
    <3>4. Len(v) <= MAX_SIZE /\ n.value = Len(v) /\ n.pos = pos + Len(size)
      BY <1>1, <1>5, <3>2, <3>3 DEF Exact
    <3>5. Exact(read, n.pos, v, f[Len(v)], \A i \in DOMAIN v : FitsOne(of, v[i]))
      <4> DEFINE start == pos + Len(size)
      <4>1. start \in Nat /\ n.pos = start /\ Holds(bytes, start, f[Len(v)])
        BY <3>1, <3>3, <3>4
      <4>2. IsFill(of, bytes, start, fill)
        BY <1>3, <2>1, <3>4, <4>1
      <4>3. IsFlat(Byte, Written(of, v), f) /\ v \in Seq(OneSet(of))
        BY <2>6, <3>1
      <4> HIDE DEF start
      <4>4. Exact(fill[Len(v)], start, v, f[Len(v)], \A i \in DOMAIN v : FitsOne(of, v[i]))
        BY ONLY <4>1, <4>2, <4>3, FilledIsExact, of \in {"vin", "vout"}, bytes \in Seq(Byte)
      <4> QED
        BY <2>1, <3>4, <4>1, <4>4
    <3> HIDE DEF size
    <3>6. FitsAll(of, v) <=> \A i \in DOMAIN v : FitsOne(of, v[i])
      BY <3>4 DEF FitsAll
    <3>7. read.ok <=> FitsAll(of, v)
      BY <3>5, <3>6 DEF Exact
    <3>8. read.ok => read.value = v /\ read.pos = pos + Len(WriteVector(Written(of, v)))
      <4>1. read.ok => read.value = v /\ read.pos = n.pos + Len(f[Len(v)])
        BY <3>5 DEF Exact
      <4>2. Len(size) \in Nat /\ Len(f[Len(v)]) \in Nat /\ n.pos = pos + Len(size)
            /\ Len(WriteVector(Written(of, v))) = Len(size) + Len(f[Len(v)])
        BY ONLY <3>1, <3>4
      <4> DEFINE a == Len(size)
                 b == Len(f[Len(v)])
                 c == Len(WriteVector(Written(of, v)))
      <4>3. a \in Nat /\ b \in Nat /\ n.pos = pos + a /\ c = a + b
        BY <4>2
      <4>4. read.ok => read.value = v /\ read.pos = n.pos + b
        BY <4>1
      <4> HIDE DEF a, b, c
      <4>5. read.ok => read.value = v /\ read.pos = pos + c
        BY <4>3, <4>4
      <4> QED
        BY <4>5 DEF c
    <3> QED
      BY <3>7, <3>8 DEF Exact
  <2> QED
    <3>1. CASE read.ok
      BY <2>2, <2>5, <2>6, <3>1 DEF read
    <3>2. CASE ~read.ok
      BY <2>2, <2>6, <3>2 DEF read, Sound
    <3> QED
      BY <3>1, <3>2
<1> QED
  BY <1>3, <1>4, <1>5


-----------------------------------------------------------------------------
(* Transactions.                                                            *)
LEMMA WriteTxIs ==
  ASSUME NEW t \in TxSet
  PROVE  LET w1 == <<t.nVersion>>
             w2 == WriteVector(Written("vin", t.vin))
             w3 == WriteVector(Written("vout", t.vout))
             w4 == <<t.nLockTime>>
         IN  /\ WriteTx(t) = ((w1 \o w2) \o w3) \o w4
             /\ w1 \in Seq(Byte) /\ w2 \in Seq(Byte) /\ w3 \in Seq(Byte) /\ w4 \in Seq(Byte)
             /\ w1 \o w2 \in Seq(Byte) /\ (w1 \o w2) \o w3 \in Seq(Byte) /\ WriteTx(t) \in Seq(Byte)
             /\ Len(w1) = 1 /\ Len(w2) \in Nat /\ Len(w3) \in Nat /\ Len(w4) = 1
             /\ Len(w1 \o w2) = 1 + Len(w2) /\ Len((w1 \o w2) \o w3) = 1 + Len(w2) + Len(w3)
             /\ Len(WriteTx(t)) = 1 + Len(w2) + Len(w3) + 1
<1> DEFINE w1 == <<t.nVersion>>
           w2 == WriteVector(Written("vin", t.vin))
           w3 == WriteVector(Written("vout", t.vout))
           w4 == <<t.nLockTime>>
<1>1. WriteTx(t) = ((w1 \o w2) \o w3) \o w4
  <2>1. Written("vin", t.vin) = [i \in DOMAIN t.vin |-> WriteIn(t.vin[i])]
    BY DEF Written, WriteOne
  <2>2. Written("vout", t.vout) = [i \in DOMAIN t.vout |-> WriteOut(t.vout[i])]
    BY DEF Written, WriteOne
  <2> QED
    BY <2>1, <2>2 DEF WriteTx
<1>2. t.vin \in Seq(OneSet("vin")) /\ t.vout \in Seq(OneSet("vout")) /\ t.nVersion \in Byte /\ t.nLockTime \in Byte
  BY DEF TxSet, OneSet
<1>3. w1 \in Seq(Byte) /\ w4 \in Seq(Byte) /\ Len(w1) = 1 /\ Len(w4) = 1
  BY <1>2
<1>4. w2 \in Seq(Byte)
  <2>1. "vin" \in {"vin", "vout"}
    OBVIOUS
  <2> QED
    BY ONLY <1>2, <2>1, WriteVectorIs
<1>5. w3 \in Seq(Byte)
  <2>1. "vout" \in {"vin", "vout"}
    OBVIOUS
  <2> QED
    BY ONLY <1>2, <2>1, WriteVectorIs
<1> HIDE DEF w1, w2, w3, w4
<1>6. w1 \o w2 \in Seq(Byte) /\ Len(w1 \o w2) = Len(w1) + Len(w2) /\ Len(w2) \in Nat
  BY ONLY <1>3, <1>4, ConcatFacts
<1> DEFINE w12 == w1 \o w2
<1>7. w12 \o w3 \in Seq(Byte) /\ Len(w12 \o w3) = Len(w12) + Len(w3) /\ Len(w3) \in Nat
  BY ONLY <1>5, <1>6, ConcatFacts
<1> DEFINE w123 == w12 \o w3
<1>8. w123 \o w4 \in Seq(Byte) /\ Len(w123 \o w4) = Len(w123) + Len(w4)
  BY ONLY <1>3, <1>7, ConcatFacts
<1> QED
  BY <1>1, <1>3, <1>4, <1>5, <1>6, <1>7, <1>8 DEF w1, w2, w3, w4

LEMMA ReadVectorsAre ==
  ASSUME NEW bytes \in Seq(Byte), NEW pos \in Nat
  PROVE  /\ LET read == ReadVector("vin", bytes, pos)
            IN  /\ read \in Reading(Seq(InSet)) /\ (read.ok => FitsAll("vin", read.value))
                /\ Sound(read, bytes, pos, WriteVector(Written("vin", read.value)))
                /\ \A v \in Seq(InSet) : Holds(bytes, pos, WriteVector(Written("vin", v))) =>
                     Exact(read, pos, v, WriteVector(Written("vin", v)), FitsAll("vin", v))
         /\ LET read == ReadVector("vout", bytes, pos)
            IN  /\ read \in Reading(Seq(OutSet)) /\ (read.ok => FitsAll("vout", read.value))
                /\ Sound(read, bytes, pos, WriteVector(Written("vout", read.value)))
                /\ \A v \in Seq(OutSet) : Holds(bytes, pos, WriteVector(Written("vout", v))) =>
                     Exact(read, pos, v, WriteVector(Written("vout", v)), FitsAll("vout", v))
<1>1. OneSet("vin") = InSet /\ OneSet("vout") = OutSet
  BY DEF OneSet
<1>2. "vin" \in {"vin", "vout"} /\ "vout" \in {"vin", "vout"}
  OBVIOUS
<1>3. \A of \in {"vin", "vout"} :
        LET read == ReadVector(of, bytes, pos)
        IN  /\ read \in Reading(Seq(OneSet(of)))
            /\ read.ok => FitsAll(of, read.value)
            /\ Sound(read, bytes, pos, WriteVector(Written(of, read.value)))
            /\ \A v \in Seq(OneSet(of)) : Holds(bytes, pos, WriteVector(Written(of, v))) =>
                 Exact(read, pos, v, WriteVector(Written(of, v)), FitsAll(of, v))
  BY ReadVectorIs
<1>4. LET read == ReadVector("vin", bytes, pos)
      IN  /\ read \in Reading(Seq(OneSet("vin"))) /\ (read.ok => FitsAll("vin", read.value))
          /\ Sound(read, bytes, pos, WriteVector(Written("vin", read.value)))
          /\ \A v \in Seq(OneSet("vin")) : Holds(bytes, pos, WriteVector(Written("vin", v))) =>
               Exact(read, pos, v, WriteVector(Written("vin", v)), FitsAll("vin", v))
  BY ONLY <1>2, <1>3
<1>5. LET read == ReadVector("vout", bytes, pos)
      IN  /\ read \in Reading(Seq(OneSet("vout"))) /\ (read.ok => FitsAll("vout", read.value))
          /\ Sound(read, bytes, pos, WriteVector(Written("vout", read.value)))
          /\ \A v \in Seq(OneSet("vout")) : Holds(bytes, pos, WriteVector(Written("vout", v))) =>
               Exact(read, pos, v, WriteVector(Written("vout", v)), FitsAll("vout", v))
  BY ONLY <1>2, <1>3
<1> QED
  BY ONLY <1>1, <1>4, <1>5

LEMMA SameTx ==
  ASSUME NEW s \in TxSet, NEW t \in TxSet, s.nVersion = t.nVersion, s.vin = t.vin, s.vout = t.vout,
         s.nLockTime = t.nLockTime
  PROVE  s = t
<1> DEFINE I == Seq(InSet)
           O == Seq(OutSet)
<1>1. s \in [nVersion : Byte, vin : I, vout : O, nLockTime : Byte]
      /\ t \in [nVersion : Byte, vin : I, vout : O, nLockTime : Byte]
  BY DEF TxSet
<1> HIDE DEF I, O
<1>2. /\ s = [nVersion |-> s.nVersion, vin |-> s.vin, vout |-> s.vout, nLockTime |-> s.nLockTime]
      /\ t = [nVersion |-> t.nVersion, vin |-> t.vin, vout |-> t.vout, nLockTime |-> t.nLockTime]
  BY ONLY <1>1
<1> QED
  BY <1>2

(* A transaction, field by field, into whatever was there before.           *)
LEMMA ReadTxIs ==
  ASSUME NEW bytes \in Seq(Byte), NEW old \in TxSet
  PROVE  LET read == ReadTx(bytes, old)
         IN  /\ read \in Reading(TxSet)
             /\ read.ok => Fits(read.value)
             /\ Sound(read, bytes, 0, WriteTx(read.value))
             /\ \A t \in TxSet : Holds(bytes, 0, WriteTx(t)) => Exact(read, 0, t, WriteTx(t), Fits(t))
<1> DEFINE r1 == ReadField(bytes, 0, old.nVersion)
           t1 == [old EXCEPT !.nVersion = r1.value]
           r2 == ReadVector("vin", bytes, r1.pos)
           t2 == [t1 EXCEPT !.vin = r2.value]
           r3 == ReadVector("vout", bytes, r2.pos)
           t3 == [t2 EXCEPT !.vout = r3.value]
           r4 == ReadField(bytes, r3.pos, t3.nLockTime)
           t4 == [t3 EXCEPT !.nLockTime = r4.value]
           read == ReadTx(bytes, old)
<1>1. read = IF r1.ok
             THEN (IF r2.ok THEN (IF r3.ok THEN Into(t4, r4) ELSE Into(t3, r3)) ELSE Into(t2, r2))
             ELSE Into(old, r1)
  BY DEF ReadTx, TxVersion, TxInputs, TxOutputs, TxLockTime
<1>2. old.nVersion \in Byte /\ 0 \in Nat
  BY DEF TxSet
<1>3. /\ r1 \in Reading(Byte) /\ Sound(r1, bytes, 0, <<r1.value>>)
      /\ \A b \in Byte : Holds(bytes, 0, <<b>>) => Exact(r1, 0, b, <<b>>, TRUE)
  BY <1>2, ReadFieldIs
<1> HIDE DEF r1, read
<1>4. r1.value \in Byte /\ r1.pos \in Nat /\ r1.ok \in BOOLEAN
  BY <1>3 DEF Reading
<1>5. t1 \in TxSet /\ t1.nVersion = r1.value
  BY <1>4 DEF TxSet
<1>6. /\ r2 \in Reading(Seq(InSet)) /\ (r2.ok => FitsAll("vin", r2.value))
      /\ Sound(r2, bytes, r1.pos, WriteVector(Written("vin", r2.value)))
      /\ \A v \in Seq(InSet) : Holds(bytes, r1.pos, WriteVector(Written("vin", v))) =>
           Exact(r2, r1.pos, v, WriteVector(Written("vin", v)), FitsAll("vin", v))
  BY <1>4, ReadVectorsAre
<1> HIDE DEF r2, t1
<1>7. r2.value \in Seq(InSet) /\ r2.pos \in Nat /\ r2.ok \in BOOLEAN
  BY <1>6 DEF Reading
<1>8. t2 \in TxSet /\ t2.nVersion = r1.value /\ t2.vin = r2.value
  BY <1>5, <1>7 DEF TxSet
<1>9. /\ r3 \in Reading(Seq(OutSet)) /\ (r3.ok => FitsAll("vout", r3.value))
      /\ Sound(r3, bytes, r2.pos, WriteVector(Written("vout", r3.value)))
      /\ \A v \in Seq(OutSet) : Holds(bytes, r2.pos, WriteVector(Written("vout", v))) =>
           Exact(r3, r2.pos, v, WriteVector(Written("vout", v)), FitsAll("vout", v))
  BY <1>7, ReadVectorsAre
<1> HIDE DEF r3, t2
<1>10. r3.value \in Seq(OutSet) /\ r3.pos \in Nat /\ r3.ok \in BOOLEAN
  BY <1>9 DEF Reading
<1>11. t3 \in TxSet /\ t3.nVersion = r1.value /\ t3.vin = r2.value /\ t3.vout = r3.value /\ t3.nLockTime \in Byte
  BY <1>8, <1>10 DEF TxSet
<1>12. /\ r4 \in Reading(Byte) /\ Sound(r4, bytes, r3.pos, <<r4.value>>)
       /\ \A b \in Byte : Holds(bytes, r3.pos, <<b>>) => Exact(r4, r3.pos, b, <<b>>, TRUE)
  BY <1>10, <1>11, ReadFieldIs
<1> HIDE DEF r4, t3
<1>13. r4.value \in Byte /\ r4.pos \in Nat /\ r4.ok \in BOOLEAN
  BY <1>12 DEF Reading
<1>14. /\ t4 \in TxSet /\ t4.nVersion = r1.value /\ t4.vin = r2.value /\ t4.vout = r3.value
       /\ t4.nLockTime = r4.value
  BY <1>11, <1>13 DEF TxSet
<1> HIDE DEF t4
<1>15. /\ ~(r1.ok /\ r2.ok /\ r3.ok) => read \in Reading(TxSet) /\ ~read.ok
       /\ r1.ok /\ r2.ok /\ r3.ok =>
            read \in Reading(TxSet) /\ read.ok = r4.ok /\ read.value = t4 /\ read.pos = r4.pos
  <2>1. Into(old, r1) \in Reading(TxSet) /\ Into(old, r1).ok = r1.ok
    <3>1. r1 \in Reading(Byte) /\ old \in TxSet
      BY <1>3
    <3> QED
      BY ONLY <3>1, IntoIs
  <2>2. Into(t2, r2) \in Reading(TxSet) /\ Into(t2, r2).ok = r2.ok
    <3>1. r2 \in Reading(Seq(InSet)) /\ t2 \in TxSet
      BY <1>6, <1>8
    <3> QED
      BY ONLY <3>1, IntoIs
  <2>3. Into(t3, r3) \in Reading(TxSet) /\ Into(t3, r3).ok = r3.ok
    <3>1. r3 \in Reading(Seq(OutSet)) /\ t3 \in TxSet
      BY <1>9, <1>11
    <3> QED
      BY ONLY <3>1, IntoIs
  <2>4. /\ Into(t4, r4) \in Reading(TxSet) /\ Into(t4, r4).ok = r4.ok
        /\ Into(t4, r4).value = t4 /\ Into(t4, r4).pos = r4.pos
    BY ONLY <1>12, <1>14, IntoIs
  <2> QED
    BY ONLY <1>1, <2>1, <2>2, <2>3, <2>4
<1>16. read \in Reading(TxSet)
  BY <1>15
<1>17. Fits(t4) <=> FitsAll("vin", r2.value) /\ FitsAll("vout", r3.value)
  BY ONLY <1>14, Zenon DEF Fits, FitsAll, FitsOne
<1>18. ASSUME read.ok
       PROVE  Fits(read.value) /\ Sound(read, bytes, 0, WriteTx(read.value))
  <2>1. r1.ok /\ r2.ok /\ r3.ok /\ r4.ok /\ read.value = t4 /\ read.pos = r4.pos
    BY <1>15, <1>18
  <2> DEFINE w1 == <<r1.value>>
             w2 == WriteVector(Written("vin", r2.value))
             w3 == WriteVector(Written("vout", r3.value))
             w4 == <<r4.value>>
  <2>2. /\ WriteTx(t4) = ((w1 \o w2) \o w3) \o w4
        /\ w1 \in Seq(Byte) /\ w2 \in Seq(Byte) /\ w3 \in Seq(Byte) /\ w4 \in Seq(Byte)
        /\ w1 \o w2 \in Seq(Byte) /\ (w1 \o w2) \o w3 \in Seq(Byte)
    BY <1>14, WriteTxIs
  <2>3. /\ Sound(r1, bytes, 0, w1) /\ Sound(r2, bytes, r1.pos, w2) /\ Sound(r3, bytes, r2.pos, w3)
        /\ Sound(r4, bytes, r3.pos, w4)
    BY <1>3, <1>6, <1>9, <1>12
  <2> HIDE DEF w1, w2, w3, w4
  <2>4. Sound(r2, bytes, 0, w1 \o w2)
    BY <2>1, <2>2, <2>3, <1>2, SoundNext
  <2>5. Sound(r3, bytes, 0, (w1 \o w2) \o w3)
    BY <2>1, <2>2, <2>3, <2>4, <1>2, SoundNext
  <2>6. Sound(read, bytes, 0, ((w1 \o w2) \o w3) \o w4)
    BY <2>1, <2>2, <2>3, <2>5, <1>2, SoundNext
  <2> QED
    <3>1. Fits(t4)
      BY <1>6, <1>9, <1>17, <2>1
    <3> QED
      BY <2>1, <2>2, <2>6, <3>1
<1>19. ASSUME NEW t \in TxSet, Holds(bytes, 0, WriteTx(t))
       PROVE  Exact(read, 0, t, WriteTx(t), Fits(t))
  <2> DEFINE w1 == <<t.nVersion>>
             w2 == WriteVector(Written("vin", t.vin))
             w3 == WriteVector(Written("vout", t.vout))
             w4 == <<t.nLockTime>>
  <2>1. /\ WriteTx(t) = ((w1 \o w2) \o w3) \o w4
        /\ w1 \in Seq(Byte) /\ w2 \in Seq(Byte) /\ w3 \in Seq(Byte) /\ w4 \in Seq(Byte)
        /\ w1 \o w2 \in Seq(Byte) /\ (w1 \o w2) \o w3 \in Seq(Byte)
        /\ Len(w1) = 1 /\ Len(w2) \in Nat /\ Len(w3) \in Nat /\ Len(w4) = 1
        /\ Len(w1 \o w2) = 1 + Len(w2) /\ Len((w1 \o w2) \o w3) = 1 + Len(w2) + Len(w3)
        /\ Len(WriteTx(t)) = 1 + Len(w2) + Len(w3) + 1
    BY WriteTxIs
  <2>2. /\ t.nVersion \in Byte /\ t.vin \in Seq(InSet) /\ t.vout \in Seq(OutSet) /\ t.nLockTime \in Byte
    BY DEF TxSet
  <2>3. Fits(t) <=> FitsAll("vin", t.vin) /\ FitsAll("vout", t.vout)
    BY Zenon DEF Fits, FitsAll, FitsOne
  <2> HIDE DEF w1, w2, w3, w4
  <2>4. /\ Holds(bytes, 0, (w1 \o w2) \o w3) /\ Holds(bytes, 1 + Len(w2) + Len(w3), w4)
    <3>1. Holds(bytes, 0, ((w1 \o w2) \o w3) \o w4)
      BY <1>19, <2>1
    <3>2. Holds(bytes, 0, (w1 \o w2) \o w3) /\ Holds(bytes, 0 + Len((w1 \o w2) \o w3), w4)
      BY ONLY <2>1, <3>1, HoldsConcat, bytes \in Seq(Byte), <1>2
    <3> QED
      BY <2>1, <3>2
  <2>5. Holds(bytes, 0, w1 \o w2) /\ Holds(bytes, 1 + Len(w2), w3)
    <3>1. Holds(bytes, 0, w1 \o w2) /\ Holds(bytes, 0 + Len(w1 \o w2), w3)
      BY ONLY <2>1, <2>4, HoldsConcat, bytes \in Seq(Byte), <1>2
    <3> QED
      BY <2>1, <3>1
  <2>6. Holds(bytes, 0, w1) /\ Holds(bytes, 1, w2)
    <3>1. Holds(bytes, 0, w1) /\ Holds(bytes, 0 + Len(w1), w2)
      BY ONLY <2>1, <2>5, HoldsConcat, bytes \in Seq(Byte), <1>2
    <3> QED
      BY <2>1, <3>1
  <2>7. r1.ok /\ r1.value = t.nVersion /\ r1.pos = 1
    <3>1. Exact(r1, 0, t.nVersion, w1, TRUE)
      BY <1>3, <2>2, <2>6 DEF w1
    <3> QED
      BY <2>1, <3>1 DEF Exact
  <2>8. Exact(r2, 1, t.vin, w2, FitsAll("vin", t.vin))
    BY <1>6, <2>2, <2>6, <2>7 DEF w2
  <2>9. CASE ~r2.ok
    BY <1>15, <2>3, <2>8, <2>9 DEF Exact
  <2>10. CASE r2.ok
    <3>1. r2.value = t.vin /\ r2.pos = 1 + Len(w2) /\ FitsAll("vin", t.vin)
      BY <2>8, <2>10 DEF Exact
    <3>2. Exact(r3, 1 + Len(w2), t.vout, w3, FitsAll("vout", t.vout))
      BY <1>9, <2>2, <2>5, <3>1 DEF w3
    <3>3. CASE ~r3.ok
      BY <1>15, <2>3, <3>2, <3>3 DEF Exact
    <3>4. CASE r3.ok
      <4>1. r3.value = t.vout /\ r3.pos = 1 + Len(w2) + Len(w3) /\ FitsAll("vout", t.vout)
        BY <3>2, <3>4 DEF Exact
      <4>2. r4.ok /\ r4.value = t.nLockTime /\ r4.pos = 1 + Len(w2) + Len(w3) + 1
        <5>1. Exact(r4, 1 + Len(w2) + Len(w3), t.nLockTime, w4, TRUE)
          BY <1>12, <2>2, <2>4, <4>1 DEF w4
        <5> QED
          BY <2>1, <5>1 DEF Exact
      <4>3. t4 = t
        <5>1. /\ t4 \in TxSet /\ t4.nVersion = t.nVersion /\ t4.vin = t.vin /\ t4.vout = t.vout
              /\ t4.nLockTime = t.nLockTime
          BY <1>14, <2>7, <3>1, <4>1, <4>2
        <5> QED
          BY ONLY <5>1, t \in TxSet, SameTx
      <4>4. read.ok /\ read.value = t /\ read.pos = r4.pos /\ Fits(t)
        BY <1>15, <2>3, <2>7, <2>10, <3>1, <3>4, <4>1, <4>2, <4>3
      <4>5. read.pos = 0 + Len(WriteTx(t))
        BY <2>1, <4>2, <4>4
      <4> QED
        BY <4>4, <4>5 DEF Exact
    <3> QED
      BY <1>10, <3>3, <3>4
  <2> QED
    BY <1>7, <2>9, <2>10
<1>20. Sound(read, bytes, 0, WriteTx(read.value))
  BY <1>18 DEF Sound
<1> QED
  BY <1>16, <1>18, <1>19, <1>20 DEF read

-----------------------------------------------------------------------------
(* Prefixes.                                                                *)
LEMMA PrefixHolds ==
  ASSUME NEW s \in Seq(Byte), NEW t \in Seq(Byte)
  PROVE  IsPrefix(s, t) <=> Holds(t, 0, s)
<1>1. Len(s) \in Nat /\ Len(t) \in Nat
  OBVIOUS
<1>2. s = SubSeq(s, 1, Len(s))
  <2>1. Holds(s, 0, s)
    BY <1>1 DEF Holds
  <2>2. 0 \in Nat /\ 0 + Len(s) <= Len(s) /\ 0 + 1 = 1 /\ 0 + Len(s) = Len(s)
    BY <1>1
  <2>3. \A u \in Seq(Byte) : Len(u) = Len(s) /\ Holds(s, 0, u) => SubSeq(s, 0 + 1, 0 + Len(s)) = u
    <3> SUFFICES ASSUME NEW u \in Seq(Byte), Len(u) = Len(s), Holds(s, 0, u)
                 PROVE  SubSeq(s, 0 + 1, 0 + Len(s)) = u
      OBVIOUS
    <3> DEFINE n == Len(s)
    <3>1. n \in Nat /\ 0 \in Nat /\ 0 + n <= Len(s) /\ Len(u) = n
      BY <1>1
    <3> HIDE DEF n
    <3>2. SubSeq(s, 0 + 1, 0 + n) = u
      BY ONLY <3>1, HoldsPart, Holds(s, 0, u), u \in Seq(Byte), s \in Seq(Byte)
    <3> QED
      BY <3>2 DEF n
  <2> QED
    BY <2>1, <2>2, <2>3
<1>3. CASE Len(s) <= Len(t)
  <2>1. 0 \in Nat /\ 0 + Len(s) <= Len(t) /\ 0 + 1 = 1 /\ 0 + Len(s) = Len(s)
    BY <1>1, <1>3
  <2>2. LET u == SubSeq(t, 0 + 1, 0 + Len(s))
        IN  /\ Holds(t, 0, u)
            /\ \A v \in Seq(Byte) : Len(v) = Len(s) /\ Holds(t, 0, v) => u = v
    BY ONLY <1>1, <2>1, HoldsPart, t \in Seq(Byte)
  <2> QED
    BY ONLY <1>2, <1>3, <2>1, <2>2, s \in Seq(Byte) DEF IsPrefix
<1>4. CASE ~(Len(s) <= Len(t))
  <2>1. ~(0 + Len(s) <= Len(t))
    BY <1>1, <1>4
  <2> QED
    BY ONLY <1>4, <2>1 DEF IsPrefix, Holds
<1> QED
  BY <1>3, <1>4

LEMMA CutIsRefused ==
  ASSUME NEW t \in TxSet, NEW bytes \in Seq(Byte), NEW old \in TxSet, IsStrictPrefix(bytes, WriteTx(t))
  PROVE  ~ReadTx(bytes, old).ok
<1> DEFINE whole == WriteTx(t)
           v == ReadTx(bytes, old).value
           w == WriteTx(v)
           read == ReadTx(whole, old)
<1> SUFFICES ASSUME ReadTx(bytes, old).ok PROVE FALSE
  OBVIOUS
<1>1. whole \in Seq(Byte)
  BY WriteTxIs
<1>2. v \in TxSet /\ Fits(v) /\ Holds(bytes, 0, w)
  <2>1. /\ ReadTx(bytes, old) \in Reading(TxSet) /\ Fits(v)
        /\ Sound(ReadTx(bytes, old), bytes, 0, w)
    BY ReadTxIs
  <2> QED
    BY <2>1 DEF Reading, Sound
<1>3. w \in Seq(Byte)
  BY <1>2, WriteTxIs
<1>4. /\ \A u \in TxSet : Holds(whole, 0, WriteTx(u)) => Exact(read, 0, u, WriteTx(u), Fits(u))
  BY <1>1, ReadTxIs
<1>5. Holds(whole, 0, bytes) /\ bytes # whole
  BY <1>1, PrefixHolds DEF IsStrictPrefix
<1> HIDE DEF whole, v, w, read
<1>6. Len(bytes) < Len(whole) /\ Len(bytes) \in Nat /\ Len(whole) \in Nat /\ Len(w) \in Nat
  <2>1. Len(bytes) \in Nat /\ Len(whole) \in Nat /\ Len(w) \in Nat
    BY <1>1, <1>3
  <2>2. CASE Len(bytes) = Len(whole)
    <3>1. \A i \in 1 .. Len(bytes) : bytes[i] = whole[i]
      BY <1>5, <2>1 DEF Holds
    <3>2. bytes = whole
      BY ONLY <1>1, <2>2, <3>1, SeqEqual, bytes \in Seq(Byte)
    <3> QED
      BY <1>5, <3>2
  <2> QED
    BY <1>5, <2>1, <2>2 DEF Holds
<1>7. Holds(whole, 0, w)
  BY <1>2, <1>5, <1>6 DEF Holds
<1>8. Holds(whole, 0, whole)
  BY <1>6 DEF Holds
<1>9. read.ok /\ read.pos = Len(w)
  BY <1>2, <1>4, <1>6, <1>7 DEF Exact, w
<1>10. read.pos = Len(whole)
  BY <1>4, <1>6, <1>8, <1>9 DEF Exact, whole
<1>11. Len(w) <= Len(bytes)
  BY <1>2, <1>6 DEF Holds
<1> QED
  BY <1>6, <1>9, <1>10, <1>11

-----------------------------------------------------------------------------
(* What is received, and the object that it is decoded into.                *)
BytesInv ==
  /\ mtx \in TxSet
  /\ wire \in Seq(Byte)
  /\ tx \in [contents : TxSet, hash : Seq(Byte)]
  /\ decoded \in {"none", "accepted", "refused"}
  /\ decoded # "none" => wire # <<>>
  /\ DecodesWhatWasEncoded
  /\ AcceptedIsEncoded

LEMMA NewTxIs == NewTx \in TxSet /\ <<>> \in Seq(Byte)
<1>1. 0 \in Byte /\ 1 \in Byte
  BY RadixOfBytes DEF Byte
<1> QED
  BY <1>1 DEF NewTx, Tx, CURRENT_VERSION, TxSet

LEMMA BytesInitInv == BytesInit => BytesInv
<1> SUFFICES ASSUME TxInit PROVE BytesInv
  BY DEF BytesInit
<1>1. NewObject \in [contents : TxSet, hash : Seq(Byte)]
  BY NewTxIs DEF NewObject
<1> QED
  BY <1>1, NewTxIs DEF TxInit, BytesInv, DecodesWhatWasEncoded, AcceptedIsEncoded

(* What decoding does to the object.                                        *)
LEMMA DecodeStep == BytesInv /\ DecodeHexTx => BytesInv'
<1> SUFFICES ASSUME BytesInv, DecodeHexTx PROVE BytesInv'
  OBVIOUS
<1> DEFINE read == ReadTx(wire, tx.contents)
<1>1. /\ mtx \in TxSet /\ wire \in Seq(Byte) /\ tx.contents \in TxSet /\ tx.hash \in Seq(Byte)
  BY DEF BytesInv
<1>2. /\ wire # <<>> /\ mtx' = mtx /\ wire' = wire
      /\ tx' = [contents |-> read.value, hash |-> IF read.ok THEN WriteTx(read.value) ELSE tx.hash]
      /\ decoded' = IF read.ok THEN "accepted" ELSE "refused"
  BY DEF DecodeHexTx, Decoded
<1>3. /\ read \in Reading(TxSet)
      /\ Sound(read, wire, 0, WriteTx(read.value))
      /\ \A t \in TxSet : Holds(wire, 0, WriteTx(t)) => Exact(read, 0, t, WriteTx(t), Fits(t))
  BY <1>1, ReadTxIs
<1>4. WriteTx(mtx) \in Seq(Byte)
  BY <1>1, WriteTxIs
<1>5. IsStrictPrefix(wire, WriteTx(mtx)) => ~read.ok
  BY <1>1, CutIsRefused
<1> HIDE DEF read
<1>6. read.value \in TxSet /\ read.ok \in BOOLEAN
  BY <1>3 DEF Reading
<1>7. WriteTx(read.value) \in Seq(Byte)
  BY <1>6, WriteTxIs
<1>8. ASSUME wire = WriteTx(mtx)
      PROVE  /\ Fits(mtx) => read.ok /\ read.value = mtx
             /\ ~Fits(mtx) => ~read.ok
  <2>1. Holds(wire, 0, wire)
    BY <1>1 DEF Holds
  <2>2. Exact(read, 0, mtx, WriteTx(mtx), Fits(mtx))
    BY <1>1, <1>3, <1>8, <2>1
  <2> QED
    BY <2>2 DEF Exact
<1>9. read.ok => IsPrefix(WriteTx(read.value), wire)
  <2>1. read.ok => Holds(wire, 0, WriteTx(read.value))
    BY <1>3 DEF Sound
  <2> QED
    BY <1>1, <1>7, <2>1, PrefixHolds
<1>10. tx' \in [contents : TxSet, hash : Seq(Byte)] /\ tx'.contents = read.value
       /\ (read.ok => tx'.hash = WriteTx(read.value))
  BY <1>1, <1>2, <1>6, <1>7
<1>11. /\ decoded' \in {"none", "accepted", "refused"}
       /\ decoded' = "accepted" <=> read.ok
       /\ decoded' = "refused" <=> ~read.ok
  BY <1>2, <1>6
<1>12. DecodesWhatWasEncoded'
  <2> SUFFICES /\ wire = WriteTx(mtx) =>
                    IF Fits(mtx) THEN decoded' = "accepted" /\ tx'.contents = mtx ELSE decoded' = "refused"
               /\ IsStrictPrefix(wire, WriteTx(mtx)) => decoded' = "refused"
    BY <1>2 DEF DecodesWhatWasEncoded
  <2> QED
    BY <1>5, <1>8, <1>10, <1>11
<1>13. AcceptedIsEncoded'
  <2> SUFFICES ASSUME decoded' = "accepted"
               PROVE  tx'.hash = WriteTx(tx'.contents) /\ IsPrefix(tx'.hash, wire)
    BY <1>2 DEF AcceptedIsEncoded
  <2> QED
    BY <1>9, <1>10, <1>11
<1> QED
  BY <1>1, <1>2, <1>10, <1>11, <1>12, <1>13 DEF BytesInv

LEMMA DamageStep == BytesInv /\ Damage => wire' \in Seq(Byte)
<1> SUFFICES ASSUME BytesInv, Damage PROVE wire' \in Seq(Byte)
  OBVIOUS
<1>1. wire \in Seq(Byte) /\ Len(wire) \in Nat /\ DOMAIN wire = 1 .. Len(wire)
  BY DEF BytesInv
<1>2. \A i \in 1 .. Len(wire) : wire[i] \in Byte
  BY <1>1, ElementOfSeq
<1>3. CASE \E n \in 0 .. Len(wire) - 1 : wire' = SubSeq(wire, 1, n)
  <2>1. PICK n \in 0 .. Len(wire) - 1 : wire' = SubSeq(wire, 1, n)
    BY <1>3
  <2>2. 1 \in Int /\ n \in Int /\ \A i \in 1 .. n : wire[i] \in Byte
    BY <1>1, <1>2
  <2> QED
    BY <2>1, <2>2, SubSeqProperties
<1>4. CASE wire' = Append(wire, 0)
  <2>1. 0 \in Byte
    BY RadixOfBytes DEF Byte
  <2> QED
    BY <1>1, <1>4, <2>1
<1>5. CASE \E i \in DOMAIN wire, marker \in {Marker2, Marker4, Marker8} : wire' = InsertAt(wire, i, marker)
  <2>1. PICK i \in 1 .. Len(wire), marker \in {Marker2, Marker4, Marker8} : wire' = InsertAt(wire, i, marker)
    BY <1>1, <1>5
  <2>2. wire' = (SubSeq(wire, 1, i - 1) \o <<marker>>) \o SubSeq(wire, i, Len(wire))
    BY <2>1 DEF InsertAt
  <2>3. marker \in Byte
    BY <2>1, MarkersAre
  <2>4. <<marker>> \in Seq(Byte)
    BY <2>3
  <2>5. SubSeq(wire, 1, i - 1) \in Seq(Byte)
    <3>1. 1 \in Int /\ i - 1 \in Int /\ \A j \in 1 .. i - 1 : wire[j] \in Byte
      BY <1>1, <1>2
    <3> QED
      BY ONLY <3>1, SubSeqProperties
  <2>6. SubSeq(wire, i, Len(wire)) \in Seq(Byte)
    <3>1. i \in Int /\ Len(wire) \in Int /\ \A j \in i .. Len(wire) : wire[j] \in Byte
      BY <1>1, <1>2
    <3> QED
      BY ONLY <3>1, SubSeqProperties
  <2> QED
    BY <2>2, <2>4, <2>5, <2>6, ConcatProperties
<1> QED
  BY <1>3, <1>4, <1>5 DEF Damage

LEMMA BytesNextInv == BytesInv /\ [BytesNext]_<<scriptVars, txVars>> => BytesInv'
<1> SUFFICES ASSUME BytesInv, [BytesNext]_<<scriptVars, txVars>> PROVE BytesInv'
  OBVIOUS
<1> USE DEF BytesInv
<1>1. CASE UNCHANGED txVars
  BY <1>1 DEF txVars, DecodesWhatWasEncoded, AcceptedIsEncoded
<1>2. CASE AddInput
  <2>1. /\ decoded = "none" /\ UNCHANGED <<wire, tx, decoded>>
        /\ \E in \in Input : mtx' = [mtx EXCEPT !.vin = Append(@, in)]
    BY <1>2 DEF AddInput
  <2>2. ASSUME NEW in \in Input PROVE [mtx EXCEPT !.vin = Append(@, in)] \in TxSet
    <3>1. in \in InSet
      BY TransactionBytesAssumption DEF InSet
    <3>2. mtx \in TxSet /\ mtx.vin \in Seq(InSet)
      BY DEF TxSet
    <3>3. Append(mtx.vin, in) \in Seq(InSet)
      BY ONLY <3>1, <3>2, AppendProperties
    <3> QED
      BY ONLY <3>2, <3>3 DEF TxSet
  <2> QED
    BY <2>1, <2>2 DEF DecodesWhatWasEncoded, AcceptedIsEncoded
<1>3. CASE AddOutput
  <2>1. /\ decoded = "none" /\ UNCHANGED <<wire, tx, decoded>>
        /\ \E out \in Output : mtx' = [mtx EXCEPT !.vout = Append(@, out)]
    BY <1>3 DEF AddOutput
  <2>2. ASSUME NEW out \in Output PROVE [mtx EXCEPT !.vout = Append(@, out)] \in TxSet
    <3>1. out \in OutSet
      BY TransactionBytesAssumption DEF OutSet
    <3>2. mtx \in TxSet /\ mtx.vout \in Seq(OutSet)
      BY DEF TxSet
    <3>3. Append(mtx.vout, out) \in Seq(OutSet)
      BY ONLY <3>1, <3>2, AppendProperties
    <3> QED
      BY ONLY <3>2, <3>3 DEF TxSet
  <2> QED
    BY <2>1, <2>2 DEF DecodesWhatWasEncoded, AcceptedIsEncoded
<1>4. CASE Encode
  <2>1. decoded = "none" /\ UNCHANGED <<mtx, tx, decoded>> /\ wire' = WriteTx(mtx)
    BY <1>4 DEF Encode
  <2>2. WriteTx(mtx) \in Seq(Byte)
    BY WriteTxIs
  <2> QED
    BY <2>1, <2>2 DEF DecodesWhatWasEncoded, AcceptedIsEncoded
<1>5. CASE Damage
  <2>1. decoded = "none" /\ UNCHANGED <<mtx, tx, decoded>> /\ wire' \in Seq(Byte)
    BY <1>5, DamageStep DEF Damage
  <2> QED
    BY <2>1 DEF DecodesWhatWasEncoded, AcceptedIsEncoded
<1>6. CASE DecodeHexTx
  BY <1>6, DecodeStep
<1>7. CASE ReceiveAgain
  <2>1. decoded' = "none" /\ UNCHANGED <<mtx, tx>> /\ wire' = WriteTx(mtx)
    BY <1>7 DEF ReceiveAgain
  <2>2. WriteTx(mtx) \in Seq(Byte)
    BY WriteTxIs
  <2> QED
    BY <2>1, <2>2 DEF DecodesWhatWasEncoded, AcceptedIsEncoded
<1> QED
  BY <1>1, <1>2, <1>3, <1>4, <1>5, <1>6, <1>7 DEF BytesNext, txVars

LEMMA BytesInvariant == BytesSpec => []BytesInv
<1> QED
  BY BytesInitInv, BytesNextInv, PTL DEF BytesSpec

(* DecodeHexTx gives back the transaction that EncodeHexTx wrote, whatever  *)
(* the object held before, unless a part of it is too large to be read, and *)
(* refuses every text that was cut: for any bytes, sizes and markers, and   *)
(* transactions of any length (transaction.h:218-226, serialize.h:194-263). *)
THEOREM EncodedIsDecoded == BytesSpec => []DecodesWhatWasEncoded
<1>1. BytesInv => DecodesWhatWasEncoded
  BY DEF BytesInv
<1> QED
  BY <1>1, BytesInvariant, PTL

(* What DecodeHexTx accepts is the one encoding of the transaction it       *)
(* gives: the hash that the object keeps is that of the bytes that came     *)
(* (transaction.h:218-226, serialize.h:226-263).                            *)
THEOREM AcceptedHasOneEncoding == BytesSpec => []AcceptedIsEncoded
<1>1. BytesInv => AcceptedIsEncoded
  BY DEF BytesInv
<1> QED
  BY <1>1, BytesInvariant, PTL

(* Reading and writing for any bytes, not only those of a run: what is      *)
(* accepted is there in its one form, and what is there is read exactly     *)
(* (CTransaction's SerializationOp over ReadCompactSize).                   *)
THEOREM ReadersFollowWriters ==
  ASSUME NEW bytes \in Seq(Byte), NEW old \in TxSet
  PROVE  LET read == ReadTx(bytes, old)
         IN  /\ read.ok => Fits(read.value) /\ IsPrefix(WriteTx(read.value), bytes)
             /\ \A t \in TxSet : IsPrefix(WriteTx(t), bytes) =>
                  (read.ok <=> Fits(t)) /\ (read.ok => read.value = t)
<1> DEFINE read == ReadTx(bytes, old)
<1>1. /\ read \in Reading(TxSet) /\ (read.ok => Fits(read.value))
      /\ Sound(read, bytes, 0, WriteTx(read.value))
      /\ \A t \in TxSet : Holds(bytes, 0, WriteTx(t)) => Exact(read, 0, t, WriteTx(t), Fits(t))
  BY ReadTxIs
<1> HIDE DEF read
<1>2. \A t \in TxSet : WriteTx(t) \in Seq(Byte)
  BY WriteTxIs
<1>3. \A t \in TxSet : IsPrefix(WriteTx(t), bytes) <=> Holds(bytes, 0, WriteTx(t))
  BY <1>2, PrefixHolds
<1>4. read.ok => IsPrefix(WriteTx(read.value), bytes)
  BY <1>1, <1>3 DEF Sound, Reading
<1> QED
  BY <1>1, <1>3, <1>4 DEF Exact, read

-----------------------------------------------------------------------------
(* Scripts: the size in front of the data that is pushed.                   *)
OpSet == [ok : BOOLEAN, opcode : Byte, data : Seq(Byte), next : Nat]

NoOp(next) == [ok |-> FALSE, opcode |-> Radix - 1, data |-> <<>>, next |-> next]
AnOp(opcode, data, next) == [ok |-> TRUE, opcode |-> opcode, data |-> data, next |-> next]

WidthOf(op) == IF op < OP_PUSHDATA1 THEN 0 ELSE IF op = OP_PUSHDATA1 THEN 1 ELSE IF op = OP_PUSHDATA2 THEN 2 ELSE 4

SizeAt(bytes, pc) ==
  LET op == bytes[pc + 1]
  IN  IF WidthOf(op) = 0 THEN op ELSE FromLittleEndian(SubSeq(bytes, pc + 2, pc + 1 + WidthOf(op)))

LEMMA OpcodesAre ==
  /\ OP_PUSHDATA1 \in Nat \ {0} /\ OP_PUSHDATA2 = OP_PUSHDATA1 + 1 /\ OP_PUSHDATA4 = OP_PUSHDATA1 + 2
  /\ OP_1 \in Nat /\ OP_16 \in Nat /\ OP_PUSHDATA4 < OP_1 - 2 /\ OP_1 <= OP_16 /\ OP_16 < Radix
  /\ 0 .. OP_PUSHDATA4 \subseteq Byte /\ Radix - 1 \in Byte
  /\ \A op \in Byte : /\ op \in Nat /\ WidthOf(op) \in {0, 1, 2, 4}
                      /\ op <= OP_PUSHDATA4 =>
                           /\ WidthOf(op) = 0 <=> op < OP_PUSHDATA1
                           /\ WidthOf(op) = 1 <=> op = OP_PUSHDATA1
                           /\ WidthOf(op) = 2 <=> op = OP_PUSHDATA2
                           /\ WidthOf(op) = 4 <=> op = OP_PUSHDATA4
<1>1. /\ OP_PUSHDATA1 \in Nat \ {0} /\ OP_PUSHDATA2 = OP_PUSHDATA1 + 1 /\ OP_PUSHDATA4 = OP_PUSHDATA1 + 2
      /\ OP_1 \in Nat /\ OP_16 \in Nat /\ OP_PUSHDATA4 < OP_1 - 2 /\ OP_1 <= OP_16 /\ OP_16 < Radix
      /\ Radix \in Nat /\ Byte = 0 .. Radix - 1
  BY ScriptBytesAssumption, RadixOfBytes DEF OP_PUSHDATA2, OP_PUSHDATA4
<1>2. 0 .. OP_PUSHDATA4 \subseteq Byte /\ Radix - 1 \in Byte /\ \A op \in Byte : op \in Nat
  BY <1>1
<1>3. ASSUME NEW op \in Byte
      PROVE  /\ WidthOf(op) \in {0, 1, 2, 4}
             /\ op <= OP_PUSHDATA4 =>
                  /\ WidthOf(op) = 0 <=> op < OP_PUSHDATA1
                  /\ WidthOf(op) = 1 <=> op = OP_PUSHDATA1
                  /\ WidthOf(op) = 2 <=> op = OP_PUSHDATA2
                  /\ WidthOf(op) = 4 <=> op = OP_PUSHDATA4
  BY <1>1 DEF WidthOf
<1> QED
  BY <1>1, <1>2, <1>3

(* GetOp2, case by case.                                                    *)
LEMMA GetOpIs ==
  ASSUME NEW bytes \in Seq(Byte), NEW pc \in Nat
  PROVE  LET op == bytes[pc + 1]
             start == pc + 1 + WidthOf(op)
             size == SizeAt(bytes, pc)
         IN  GetOp(bytes, pc) =
               IF pc >= Len(bytes) THEN NoOp(pc)
               ELSE IF op > OP_PUSHDATA4 THEN AnOp(op, <<>>, pc + 1)
               ELSE IF start > Len(bytes) THEN NoOp(pc + 1)
               ELSE IF start + size > Len(bytes) THEN NoOp(start)
               ELSE AnOp(op, SubSeq(bytes, start + 1, start + size), start + size)
<1> DEFINE op == bytes[pc + 1]
<1>1. CASE pc >= Len(bytes)
  BY <1>1, Zenon DEF GetOp, NoOp
<1>2. CASE ~(pc >= Len(bytes))
  <2>1. op \in Byte
    <3>1. pc + 1 \in 1 .. Len(bytes)
      BY <1>2
    <3> QED
      BY <3>1, ElementOfSeq
  <2>2. op \in Nat /\ OP_PUSHDATA4 \in Nat
    BY <2>1, OpcodesAre
  <2>3. CASE op > OP_PUSHDATA4
    BY <1>2, <2>3, Zenon DEF GetOp, AnOp
  <2>4. CASE ~(op > OP_PUSHDATA4)
    <3> DEFINE width == CASE op < OP_PUSHDATA1 -> 0
                          [] op = OP_PUSHDATA1 -> 1
                          [] op = OP_PUSHDATA2 -> 2
                          [] op = OP_PUSHDATA4 -> 4
               start == pc + 1 + width
               size == IF width = 0 THEN op ELSE FromLittleEndian(SubSeq(bytes, pc + 2, start))
    <3>1. width = WidthOf(op)
      <4>1. CASE op < OP_PUSHDATA1
        <5>1. op # OP_PUSHDATA1 /\ op # OP_PUSHDATA2 /\ op # OP_PUSHDATA4
          BY <2>2, <4>1, OpcodesAre
        <5> QED
          BY <4>1, <5>1, Zenon DEF WidthOf
      <4>2. CASE op = OP_PUSHDATA1
        <5>1. ~(op < OP_PUSHDATA1) /\ op # OP_PUSHDATA2 /\ op # OP_PUSHDATA4
          BY <2>2, <4>2, OpcodesAre
        <5> QED
          BY <4>2, <5>1, Zenon DEF WidthOf
      <4>3. CASE op = OP_PUSHDATA2
        <5>1. ~(op < OP_PUSHDATA1) /\ op # OP_PUSHDATA1 /\ op # OP_PUSHDATA4
          BY <2>2, <4>3, OpcodesAre
        <5> QED
          BY <4>3, <5>1, Zenon DEF WidthOf
      <4>4. CASE op = OP_PUSHDATA4
        <5>1. ~(op < OP_PUSHDATA1) /\ op # OP_PUSHDATA1 /\ op # OP_PUSHDATA2
          BY <2>2, <4>4, OpcodesAre
        <5> QED
          BY <4>4, <5>1, Zenon DEF WidthOf
      <4>5. op < OP_PUSHDATA1 \/ op = OP_PUSHDATA1 \/ op = OP_PUSHDATA2 \/ op = OP_PUSHDATA4
        <5>1. op \in Nat /\ OP_PUSHDATA1 \in Nat /\ OP_PUSHDATA2 = OP_PUSHDATA1 + 1 /\ OP_PUSHDATA4 = OP_PUSHDATA1 + 2
          BY <2>2, OpcodesAre
        <5> QED
          BY ONLY <2>4, <5>1
      <4> QED
        BY ONLY <4>1, <4>2, <4>3, <4>4, <4>5
    <3>2. GetOp(bytes, pc) =
            IF start > Len(bytes) THEN NoOp(pc + 1)
            ELSE IF start + size > Len(bytes) THEN NoOp(start)
            ELSE AnOp(op, SubSeq(bytes, start + 1, start + size), start + size)
      BY <1>2, <2>4, Zenon DEF GetOp, NoOp, AnOp
    <3> HIDE DEF width
    <3> QED
      BY <1>2, <2>4, <3>1, <3>2, Zenon DEF SizeAt
  <2> QED
    BY <2>3, <2>4
<1> QED
  BY <1>1, <1>2

LEMMA SizeAtIs ==
  ASSUME NEW bytes \in Seq(Byte), NEW pc \in Nat, pc < Len(bytes), pc + 1 + WidthOf(bytes[pc + 1]) <= Len(bytes)
  PROVE  SizeAt(bytes, pc) \in Nat
<1> DEFINE op == bytes[pc + 1]
           width == WidthOf(op)
           p == pc + 1
           s == SubSeq(bytes, p + 1, p + width)
<1>1. op \in Byte
  <2>1. pc + 1 \in 1 .. Len(bytes)
    OBVIOUS
  <2> QED
    BY <2>1, ElementOfSeq
<1>2. op \in Nat /\ width \in {0, 1, 2, 4}
  BY <1>1, OpcodesAre
<1>3. SizeAt(bytes, pc) = IF width = 0 THEN op ELSE FromLittleEndian(s)
  <2>1. pc + 2 = p + 1
    OBVIOUS
  <2> QED
    BY <2>1 DEF SizeAt
<1>4. p \in Nat /\ width \in Nat /\ p + width <= Len(bytes)
  <2> HIDE DEF width
  <2> QED
    BY <1>2 DEF width
<1>5. s \in Seq(Byte)
  <2> HIDE DEF p, width
  <2> QED
    BY ONLY <1>4, HoldsPart, bytes \in Seq(Byte)
<1> HIDE DEF s
<1>6. FromLittleEndian(s) \in Nat
  <2>1. Power[Len(s)] \in Nat /\ FromLittleEndian(s) \in 0 .. Power[Len(s)] - 1
    BY <1>5, WrittenAsRead, PowerFacts
  <2> QED
    BY <2>1
<1> QED
  BY <1>2, <1>3, <1>6

(* An operation that is there lies within the script.                       *)
LEMMA GetOpFacts ==
  ASSUME NEW bytes \in Seq(Byte), NEW pc \in Nat
  PROVE  LET op == GetOp(bytes, pc)
         IN  /\ op \in OpSet
             /\ op.ok => pc < op.next /\ op.next <= Len(bytes)
             /\ pc >= Len(bytes) => ~op.ok
<1> DEFINE op == bytes[pc + 1]
           width == WidthOf(op)
           start == pc + 1 + width
           size == SizeAt(bytes, pc)
           get == GetOp(bytes, pc)
<1>1. Len(bytes) \in Nat /\ Radix - 1 \in Byte /\ <<>> \in Seq(Byte)
  BY OpcodesAre
<1>2. get = IF pc >= Len(bytes) THEN NoOp(pc)
            ELSE IF op > OP_PUSHDATA4 THEN AnOp(op, <<>>, pc + 1)
            ELSE IF start > Len(bytes) THEN NoOp(pc + 1)
            ELSE IF start + size > Len(bytes) THEN NoOp(start)
            ELSE AnOp(op, SubSeq(bytes, start + 1, start + size), start + size)
  BY GetOpIs
<1> HIDE DEF get
<1>3. \A n \in Nat : NoOp(n) \in OpSet /\ ~NoOp(n).ok
  BY <1>1 DEF NoOp, OpSet
<1>4. CASE pc >= Len(bytes)
  BY <1>2, <1>3, <1>4 DEF get
<1>5. CASE ~(pc >= Len(bytes))
  <2>1. op \in Byte
    <3>1. pc + 1 \in 1 .. Len(bytes)
      BY <1>5
    <3> QED
      BY <3>1, ElementOfSeq
  <2>2. op \in Nat /\ width \in Nat /\ start \in Nat
    <3>1. op \in Nat /\ width \in {0, 1, 2, 4}
      BY <2>1, OpcodesAre
    <3> HIDE DEF op, width
    <3> QED
      BY <3>1
  <2>3. CASE op > OP_PUSHDATA4
    <3>1. get = AnOp(op, <<>>, pc + 1)
      BY <1>2, <1>5, <2>3
    <3> QED
      BY <1>1, <1>5, <2>1, <3>1 DEF AnOp, OpSet, get
  <2>4. CASE ~(op > OP_PUSHDATA4) /\ start > Len(bytes)
    <3>1. get = NoOp(pc + 1) /\ pc + 1 \in Nat
      BY <1>2, <1>5, <2>4
    <3> QED
      BY <1>3, <1>5, <3>1 DEF get
  <2>5. CASE ~(op > OP_PUSHDATA4) /\ ~(start > Len(bytes))
    <3>1. size \in Nat
      <4>1. pc < Len(bytes) /\ pc + 1 + WidthOf(bytes[pc + 1]) <= Len(bytes)
        BY <1>1, <1>5, <2>2, <2>5
      <4> QED
        BY ONLY <4>1, SizeAtIs, bytes \in Seq(Byte), pc \in Nat
    <3>2. CASE start + size > Len(bytes)
      <4>1. get = NoOp(start)
        BY <1>2, <1>5, <2>5, <3>2
      <4> QED
        BY <1>3, <1>5, <2>2, <4>1 DEF get
    <3>3. CASE ~(start + size > Len(bytes))
      <4> DEFINE data == SubSeq(bytes, start + 1, start + size)
      <4>1. get = AnOp(op, data, start + size)
        BY <1>2, <1>5, <2>5, <3>3
      <4>2. start + size <= Len(bytes)
        BY <1>1, <2>2, <3>1, <3>3
      <4>3. data \in Seq(Byte)
        BY ONLY <2>2, <3>1, <4>2, HoldsPart, bytes \in Seq(Byte)
      <4>4. start + size \in Nat /\ pc < start + size
        BY <2>2, <3>1
      <4> HIDE DEF data, op, start, size
      <4>5. get \in OpSet /\ get.next = start + size /\ get.ok
        BY <2>1, <4>1, <4>3, <4>4 DEF AnOp, OpSet
      <4> QED
        BY <1>5, <4>2, <4>4, <4>5 DEF get
    <3> QED
      BY <3>2, <3>3
  <2> QED
    BY <2>3, <2>4, <2>5
<1> QED
  BY <1>4, <1>5

(* The part of a script before a cut.                                       *)
LEMMA CutIs ==
  ASSUME NEW bytes \in Seq(Byte), NEW n \in 0 .. Len(bytes)
  PROVE  LET cut == SubSeq(bytes, 1, n)
         IN  /\ cut \in Seq(Byte) /\ Len(cut) = n
             /\ \A i \in 1 .. n : cut[i] = bytes[i]
             /\ \A a, k \in Nat : a + k <= n => SubSeq(cut, a + 1, a + k) = SubSeq(bytes, a + 1, a + k)
<1> DEFINE cut == SubSeq(bytes, 1, n)
<1>1. 0 \in Nat /\ n \in Nat /\ 0 + n <= Len(bytes) /\ Len(bytes) \in Nat
  OBVIOUS
<1>2. cut \in Seq(Byte) /\ Len(cut) = n /\ Holds(bytes, 0, cut)
  <2>1. cut = SubSeq(bytes, 0 + 1, 0 + n)
    OBVIOUS
  <2> HIDE DEF cut
  <2> QED
    BY ONLY <1>1, <2>1, HoldsPart, bytes \in Seq(Byte)
<1> HIDE DEF cut
<1>3. \A i \in 1 .. n : cut[i] = bytes[i]
  BY <1>1, <1>2 DEF Holds
<1>4. ASSUME NEW a \in Nat, NEW k \in Nat, a + k <= n
      PROVE  SubSeq(cut, a + 1, a + k) = SubSeq(bytes, a + 1, a + k)
  <2> DEFINE s == SubSeq(bytes, a + 1, a + k)
  <2>1. a + k <= Len(bytes) /\ a + k <= Len(cut)
    BY <1>1, <1>2, <1>4
  <2>2. s \in Seq(Byte) /\ Len(s) = k /\ Holds(bytes, a, s)
    <3>1. a + k <= Len(bytes) /\ a \in Nat /\ k \in Nat /\ s = SubSeq(bytes, a + 1, a + k)
      BY <2>1
    <3> HIDE DEF s
    <3> QED
      BY ONLY <3>1, HoldsPart, bytes \in Seq(Byte)
  <2> HIDE DEF s
  <2>3. Holds(cut, a, s)
    <3>1. ASSUME NEW i \in 1 .. k PROVE cut[a + i] = s[i]
      <4>1. a + i \in 1 .. n
        BY <1>4
      <4> QED
        BY <1>3, <2>2, <4>1 DEF Holds
    <3> QED
      BY <1>2, <1>4, <2>2, <3>1 DEF Holds
  <2>4. SubSeq(cut, a + 1, a + k) = s
    BY ONLY <1>2, <2>1, <2>2, <2>3, HoldsPart, a \in Nat, k \in Nat
  <2> QED
    BY <2>4 DEF s
<1> QED
  BY <1>2, <1>3, <1>4 DEF cut

(* What was whole before the cut is read as before, and what was cut is not *)
(* read.                                                                    *)
LEMMA GetOpOfPart ==
  ASSUME NEW bytes \in Seq(Byte), NEW pc \in Nat, NEW n \in 0 .. Len(bytes), GetOp(bytes, pc).ok
  PROVE  LET op == GetOp(bytes, pc)
             part == GetOp(SubSeq(bytes, 1, n), pc)
         IN  /\ op.next <= n => part = op
             /\ op.next > n => ~part.ok
<1> DEFINE cut == SubSeq(bytes, 1, n)
           op == bytes[pc + 1]
           width == WidthOf(op)
           start == pc + 1 + width
           size == SizeAt(bytes, pc)
           get == GetOp(bytes, pc)
           part == GetOp(cut, pc)
<1>1. /\ cut \in Seq(Byte) /\ Len(cut) = n
      /\ \A i \in 1 .. n : cut[i] = bytes[i]
      /\ \A a, k \in Nat : a + k <= n => SubSeq(cut, a + 1, a + k) = SubSeq(bytes, a + 1, a + k)
  BY CutIs
<1>2. get \in OpSet /\ pc < get.next /\ get.next <= Len(bytes) /\ get.next \in Nat /\ get.ok /\ n \in Nat
      /\ pc < Len(bytes) /\ Len(bytes) \in Nat
  <2>1. get \in OpSet /\ (get.ok => pc < get.next /\ get.next <= Len(bytes)) /\ (pc >= Len(bytes) => ~get.ok)
    BY GetOpFacts
  <2>2. get.ok /\ Len(bytes) \in Nat /\ n \in Nat
    OBVIOUS
  <2> HIDE DEF get
  <2>3. get.next \in Nat
    BY <2>1 DEF OpSet
  <2> QED
    BY ONLY <2>1, <2>2, <2>3, pc \in Nat
<1>3. get = IF pc >= Len(bytes) THEN NoOp(pc)
            ELSE IF op > OP_PUSHDATA4 THEN AnOp(op, <<>>, pc + 1)
            ELSE IF start > Len(bytes) THEN NoOp(pc + 1)
            ELSE IF start + size > Len(bytes) THEN NoOp(start)
            ELSE AnOp(op, SubSeq(bytes, start + 1, start + size), start + size)
  BY GetOpIs
<1>4. part = IF pc >= Len(cut) THEN NoOp(pc)
             ELSE IF cut[pc + 1] > OP_PUSHDATA4 THEN AnOp(cut[pc + 1], <<>>, pc + 1)
             ELSE IF pc + 1 + WidthOf(cut[pc + 1]) > Len(cut) THEN NoOp(pc + 1)
             ELSE IF pc + 1 + WidthOf(cut[pc + 1]) + SizeAt(cut, pc) > Len(cut) THEN NoOp(pc + 1 + WidthOf(cut[pc + 1]))
             ELSE AnOp(cut[pc + 1], SubSeq(cut, pc + 1 + WidthOf(cut[pc + 1]) + 1, pc + 1 + WidthOf(cut[pc + 1]) + SizeAt(cut, pc)),
                       pc + 1 + WidthOf(cut[pc + 1]) + SizeAt(cut, pc))
  <2> HIDE DEF cut
  <2> QED
    BY <1>1, GetOpIs DEF part
<1> HIDE DEF cut, get, part
<1>5. \A k : ~NoOp(k).ok
  BY DEF NoOp
<1>6. CASE pc >= n
  BY <1>1, <1>2, <1>4, <1>5, <1>6 DEF get, part, cut
<1>7. CASE ~(pc >= n)
  <2>1. pc + 1 \in 1 .. n /\ pc + 1 \in 1 .. Len(bytes)
    BY <1>2, <1>7
  <2>2. cut[pc + 1] = op /\ op \in Byte
    BY <1>1, <2>1, ElementOfSeq
  <2>3. op \in Nat /\ width \in {0, 1, 2, 4}
    BY <2>2, OpcodesAre
  <2> HIDE DEF op, width
  <2>4. width \in Nat /\ start \in Nat /\ start = (pc + 1) + width
    BY <2>3
  <2>5. CASE op > OP_PUSHDATA4
    <3>1. get = AnOp(op, <<>>, pc + 1) /\ part = AnOp(op, <<>>, pc + 1)
      BY <1>1, <1>2, <1>3, <1>4, <1>7, <2>2, <2>5
    <3>2. get.next = pc + 1
      BY <3>1 DEF AnOp
    <3> QED
      BY <1>7, <2>1, <3>1, <3>2 DEF get, part, cut
  <2>6. CASE ~(op > OP_PUSHDATA4)
    <3>1. start <= Len(bytes) /\ start + size <= Len(bytes)
          /\ get = AnOp(op, SubSeq(bytes, start + 1, start + size), start + size)
      <4> HIDE DEF start, size
      <4>1. ~(start > Len(bytes)) /\ ~(start + size > Len(bytes))
        BY <1>2, <1>3, <1>5, <2>6
      <4>2. get = AnOp(op, SubSeq(bytes, start + 1, start + size), start + size)
        BY <1>2, <1>3, <2>6, <4>1
      <4>3. start + size = get.next
        BY <4>2 DEF AnOp
      <4> QED
        BY <1>2, <2>4, <4>1, <4>2, <4>3
    <3>2. get.next = start + size /\ start + size \in Nat
      BY <1>2, <3>1 DEF AnOp
    <3>3. start <= n => SizeAt(cut, pc) = size
      <4>1. ASSUME start <= n PROVE SubSeq(cut, pc + 2, start) = SubSeq(bytes, pc + 2, start)
        <5>1. pc + 2 = (pc + 1) + 1 /\ pc + 1 \in Nat /\ (pc + 1) + width <= n
          BY <2>4, <4>1
        <5>2. SubSeq(cut, (pc + 1) + 1, (pc + 1) + width) = SubSeq(bytes, (pc + 1) + 1, (pc + 1) + width)
          BY <1>1, <2>4, <5>1
        <5> QED
          BY <2>4, <5>1, <5>2
      <4> QED
        BY <2>2, <4>1 DEF SizeAt, op, width
    <3>4. size \in Nat
      <4>1. pc + 1 + WidthOf(bytes[pc + 1]) <= Len(bytes)
        BY <3>1 DEF width, op
      <4> QED
        BY ONLY <1>2, <4>1, SizeAtIs, bytes \in Seq(Byte), pc \in Nat
    <3>5. CASE start > n
      <4>1. part = NoOp(pc + 1)
        BY <1>1, <1>4, <1>7, <2>2, <2>6, <3>5 DEF width
      <4>2. get.next > n
        <5>1. size \in Nat
          BY <3>4
        <5> HIDE DEF size, start
        <5> QED
          BY <1>2, <2>4, <3>2, <3>5, <5>1
      <4> QED
        BY <1>2, <1>5, <4>1, <4>2 DEF get, part, cut
    <3>6. CASE ~(start > n)
      <4>1. SizeAt(cut, pc) = size
        BY <1>2, <2>4, <3>3, <3>6
      <4>2. part = IF start + size > n THEN NoOp(start)
                   ELSE AnOp(op, SubSeq(cut, start + 1, start + size), start + size)
        BY <1>1, <1>4, <1>7, <2>2, <2>6, <3>6, <4>1, Zenon DEF width
      <4>3. CASE start + size > n
        BY <1>2, <1>5, <3>2, <4>2, <4>3 DEF get, part, cut
      <4>4. CASE ~(start + size > n)
        <5>1. size \in Nat /\ start + size <= n
          BY <1>2, <3>2, <3>4, <4>4
        <5>2. SubSeq(cut, start + 1, start + size) = SubSeq(bytes, start + 1, start + size)
          <6> HIDE DEF start, size
          <6> QED
            BY ONLY <1>1, <2>4, <5>1
        <5>3. part = get
          BY <3>1, <4>2, <4>4, <5>2
        <5> QED
          BY <1>2, <3>2, <4>4, <5>3 DEF get, part, cut
      <4> QED
        BY <4>3, <4>4
    <3> QED
      BY <3>5, <3>6
  <2> QED
    BY <2>5, <2>6
<1> QED
  BY <1>6, <1>7

(* What << appends for a string, and what GetOp2 makes of it.               *)
PushedAs(d, op) ==
  /\ op \in 0 .. OP_PUSHDATA4 /\ WidthOf(op) \in Nat
  /\ Push(d) = (<<op>> \o LittleEndian(Len(d), WidthOf(op))) \o d
  /\ WidthOf(op) = 0 => op = Len(d)
  /\ WidthOf(op) # 0 => Len(d) < Power[WidthOf(op)]

LEMMA PushIs ==
  ASSUME NEW d \in Seq(Byte), Len(d) < Power[4]
  PROVE  \E op : PushedAs(d, op)
<1> DEFINE n == Len(d)
<1>1. n \in Nat /\ OP_PUSHDATA1 \in Nat /\ OP_PUSHDATA2 = OP_PUSHDATA1 + 1 /\ OP_PUSHDATA4 = OP_PUSHDATA1 + 2
      /\ OP_PUSHDATA1 < Radix /\ Radix \in Nat
  BY OpcodesAre, RadixOfBytes
<1>2. Power[1] = Radix /\ Power[2] \in Nat /\ Power[1] < Power[2]
  BY PowerFacts
<1>0. n < Power[4]
  OBVIOUS
<1> HIDE DEF n
<1>3. CASE n < OP_PUSHDATA1
  <2>1. Push(d) = <<n>> \o d
    <3>1. ~(n >= OP_PUSHDATA1) /\ ~(n >= Radix) /\ ~(n >= Power[2])
      BY <1>1, <1>2, <1>3
    <3> QED
      BY <1>3, <3>1, Zenon DEF Push, n
  <2>2. n \in 0 .. OP_PUSHDATA4 /\ WidthOf(n) = 0
    BY <1>1, <1>3 DEF WidthOf
  <2>3. LittleEndian(n, 0) = <<>>
    <3>1. LittleEndian(n, 0) \in Seq(Byte) /\ Len(LittleEndian(n, 0)) = 0
      <4>1. 0 \in Nat /\ n \in Int
        BY <1>1
      <4> QED
        BY ONLY <4>1, LittleEndianIs
    <3> QED
      BY <3>1
  <2>4. <<n>> \o <<>> = <<n>>
    OBVIOUS
  <2> QED
    <3>1. PushedAs(d, n)
      BY <2>1, <2>2, <2>3, <2>4 DEF PushedAs, n
    <3> QED
      BY <3>1
<1>4. CASE n >= OP_PUSHDATA1 /\ n < Radix
  <2>1. Push(d) = <<OP_PUSHDATA1, n>> \o d
    <3>1. ~(n < OP_PUSHDATA1) /\ ~(n >= Radix) /\ ~(n >= Power[2])
      BY <1>1, <1>2, <1>4
    <3> QED
      BY <1>4, <3>1, Zenon DEF Push, n
  <2>2. OP_PUSHDATA1 \in 0 .. OP_PUSHDATA4 /\ WidthOf(OP_PUSHDATA1) = 1
    BY <1>1 DEF WidthOf
  <2>3. LittleEndian(n, 1) = <<n>>
    <3>1. LittleEndian(n, 1) \in Seq(Byte) /\ Len(LittleEndian(n, 1)) = 1
          /\ LittleEndian(n, 1)[1] = (n \div Power[1 - 1]) % Radix
      <4>1. 1 \in Nat /\ n \in Int /\ 1 \in 1 .. 1
        BY <1>1
      <4> QED
        BY ONLY <4>1, LittleEndianIs
    <3>2. Power[1 - 1] = 1 /\ (n \div 1) = n /\ n % Radix = n
      <4>1. n \div 1 = n /\ 1 - 1 = 0
        BY <1>1
      <4>2. n \in 0 .. Radix - 1 /\ Radix \in Nat \ {0}
        BY <1>1, <1>4
      <4> QED
        BY <4>1, <4>2, PowerFacts, SmallMod
    <3>3. LittleEndian(n, 1)[1] = n
      BY <3>1, <3>2
    <3> QED
      BY <3>1, <3>3
  <2>4. <<OP_PUSHDATA1, n>> = <<OP_PUSHDATA1>> \o <<n>>
    OBVIOUS
  <2> QED
    <3>1. PushedAs(d, OP_PUSHDATA1)
      <4>1. Push(d) = (<<OP_PUSHDATA1>> \o LittleEndian(n, 1)) \o d
        BY ONLY <2>1, <2>3, <2>4
      <4>2. 1 # 0 /\ 1 \in Nat /\ n < Power[1]
        BY <1>2, <1>4
      <4> QED
        BY ONLY <2>2, <4>1, <4>2 DEF PushedAs, n
    <3> QED
      BY <3>1
<1>5. CASE n >= Radix /\ n < Power[2]
  <2>1. Push(d) = (<<OP_PUSHDATA2>> \o LittleEndian(n, 2)) \o d
    <3>1. ~(n < OP_PUSHDATA1) /\ ~(n < Radix) /\ ~(n >= Power[2])
      BY <1>1, <1>2, <1>5
    <3> QED
      BY <1>5, <3>1, Zenon DEF Push, n
  <2>2. OP_PUSHDATA2 \in 0 .. OP_PUSHDATA4 /\ WidthOf(OP_PUSHDATA2) = 2
    BY <1>1 DEF WidthOf
  <2> QED
    <3>1. PushedAs(d, OP_PUSHDATA2)
      BY <1>5, <2>1, <2>2 DEF PushedAs, n
    <3> QED
      BY <3>1
<1>6. CASE n >= Power[2]
  <2>1. Push(d) = (<<OP_PUSHDATA4>> \o LittleEndian(n, 4)) \o d
    <3>1. ~(n < OP_PUSHDATA1) /\ ~(n < Radix) /\ ~(n < Power[2])
      BY <1>1, <1>2, <1>6
    <3> QED
      BY <1>6, <3>1, Zenon DEF Push, n
  <2>2. OP_PUSHDATA4 \in 0 .. OP_PUSHDATA4 /\ WidthOf(OP_PUSHDATA4) = 4
    BY <1>1 DEF WidthOf
  <2> QED
    <3>1. PushedAs(d, OP_PUSHDATA4)
      BY <1>0, <2>1, <2>2 DEF PushedAs, n
    <3> QED
      BY <3>1
<1>7. Power[2] \in Nat /\ n \in Nat
  BY <1>1, <1>2
<1> QED
  BY <1>1, <1>7, <1>3, <1>4, <1>5, <1>6

LEMMA ReadPush ==
  ASSUME NEW bytes \in Seq(Byte), NEW pc \in Nat, NEW d \in Seq(Byte), Len(d) < Power[4],
         Holds(bytes, pc, Push(d))
  PROVE  LET op == GetOp(bytes, pc)
         IN  op.ok /\ op.opcode <= OP_PUSHDATA4 /\ op.data = d /\ op.next = pc + Len(Push(d))
<1>0. PICK op : PushedAs(d, op)
  BY PushIs
<1>1. /\ op \in 0 .. OP_PUSHDATA4 /\ WidthOf(op) \in Nat
      /\ Push(d) = (<<op>> \o LittleEndian(Len(d), WidthOf(op))) \o d
      /\ WidthOf(op) = 0 => op = Len(d)
      /\ WidthOf(op) # 0 => Len(d) < Power[WidthOf(op)]
  BY <1>0 DEF PushedAs
<1> DEFINE n == Len(d)
           width == WidthOf(op)
           size == LittleEndian(n, width)
           head == <<op>> \o size
           start == pc + 1 + width
<1>2. n \in Nat /\ width \in Nat /\ op \in Byte /\ op \in Nat
  BY <1>1, OpcodesAre
<1>3. size \in Seq(Byte) /\ Len(size) = width
  BY <1>2, LittleEndianIs
<1>4. Push(d) = head \o d /\ (width = 0 => op = n) /\ (width # 0 => n < Power[width])
  BY <1>1
<1> HIDE DEF n, width, size
<1>5. <<op>> \in Seq(Byte) /\ Len(<<op>>) = 1
  BY <1>2
<1>6. head \in Seq(Byte) /\ Len(head) = 1 + width
  BY <1>3, <1>5, ConcatFacts
<1> HIDE DEF head
<1>7. Len(Push(d)) = 1 + width + n
  BY <1>2, <1>4, <1>6, ConcatFacts DEF n
<1>8. Holds(bytes, pc, head) /\ Holds(bytes, start, d)
  <2>1. Holds(bytes, pc, head \o d)
    BY <1>4
  <2>2. pc + (1 + width) = start
    BY <1>2
  <2> QED
    BY <1>6, <2>1, <2>2, HoldsConcat
<1>9. Holds(bytes, pc, <<op>>) /\ Holds(bytes, pc + 1, size)
  BY <1>3, <1>5, <1>8, HoldsConcat DEF head
<1>10. pc < Len(bytes) /\ bytes[pc + 1] = op
  BY <1>9, HoldsByte
<1>11. start + n <= Len(bytes) /\ start \in Nat /\ Len(bytes) \in Nat
  BY <1>2, <1>8 DEF Holds, n
<1>12. SubSeq(bytes, start + 1, start + n) = d
  BY ONLY <1>2, <1>8, <1>11, HoldsPart, bytes \in Seq(Byte), d \in Seq(Byte) DEF n
<1>13. SizeAt(bytes, pc) = n
  <2>1. CASE width = 0
    BY <1>4, <1>10, <2>1 DEF SizeAt, width
  <2>2. CASE width # 0
    <3>1. SubSeq(bytes, pc + 2, pc + 1 + width) = size
      <4> DEFINE p == pc + 1
      <4>1. p \in Nat /\ p + width <= Len(bytes) /\ pc + 2 = p + 1
        BY <1>2, <1>11
      <4>2. Holds(bytes, p, size)
        BY <1>9
      <4> HIDE DEF p
      <4>3. SubSeq(bytes, p + 1, p + width) = size
        BY ONLY <1>2, <1>3, <4>1, <4>2, HoldsPart, bytes \in Seq(Byte)
      <4> QED
        BY <4>1, <4>3 DEF p
    <3>2. FromLittleEndian(size) = n % Power[width]
      BY <1>2, ReadAsWritten DEF size
    <3>3. n % Power[width] = n
      <4>1. Power[width] \in Nat \ {0}
        BY <1>2, PowerFacts
      <4>2. n \in 0 .. Power[width] - 1
        BY <1>2, <1>4, <2>2, <4>1
      <4> QED
        BY ONLY <4>1, <4>2, SmallMod
    <3> QED
      BY <1>10, <2>2, <3>1, <3>2, <3>3 DEF SizeAt, width
  <2> QED
    BY <2>1, <2>2
<1>14. ~(op > OP_PUSHDATA4) /\ ~(pc >= Len(bytes)) /\ ~(start > Len(bytes)) /\ ~(start + n > Len(bytes))
  <2>1. OP_PUSHDATA4 \in Nat /\ op <= OP_PUSHDATA4 /\ op \in Nat
    BY <1>1, <1>2, OpcodesAre
  <2> HIDE DEF start
  <2>2. start <= Len(bytes)
    BY <1>2, <1>11
  <2> QED
    BY ONLY <1>10, <1>11, <1>2, <2>1, <2>2, pc \in Nat
<1>15. GetOp(bytes, pc) = AnOp(op, d, start + n)
  <2>1. /\ bytes[pc + 1] = op /\ SizeAt(bytes, pc) = n /\ start = pc + 1 + WidthOf(bytes[pc + 1])
        /\ SubSeq(bytes, start + 1, start + n) = d
    BY <1>10, <1>12, <1>13 DEF width
  <2> HIDE DEF start
  <2>2. GetOp(bytes, pc) =
          IF pc >= Len(bytes) THEN NoOp(pc)
          ELSE IF op > OP_PUSHDATA4 THEN AnOp(op, <<>>, pc + 1)
          ELSE IF start > Len(bytes) THEN NoOp(pc + 1)
          ELSE IF start + n > Len(bytes) THEN NoOp(start)
          ELSE AnOp(op, SubSeq(bytes, start + 1, start + n), start + n)
    BY ONLY <2>1, GetOpIs, bytes \in Seq(Byte), pc \in Nat
  <2> QED
    BY ONLY <1>14, <2>1, <2>2
<1>16. start + n = pc + Len(Push(d))
  BY <1>2, <1>7
<1>17. op <= OP_PUSHDATA4
  BY <1>2, <1>14, OpcodesAre
<1> QED
  BY <1>15, <1>16, <1>17 DEF AnOp

-----------------------------------------------------------------------------
(* Numbers on a script.                                                     *)
Magnitude(v) == IF v < 0 THEN -v ELSE v

IsSize(a, n) == Power[n] > a /\ \A m \in 0 .. n - 1 : Power[m] <= a

LEMMA SizeExists ==
  ASSUME NEW a \in Nat \ {0}
  PROVE  \E n \in 0 .. a : IsSize(a, n)
<1> DEFINE T == {n \in Nat : Power[n] > a}
<1>1. a \in T
  BY PowerFacts
<1>2. PICK n \in T : \A k \in T : n <= k
  BY <1>1, LeastNatural
<1>3. n \in Nat /\ Power[n] > a /\ n <= a
  BY <1>1, <1>2
<1>4. ASSUME NEW m \in 0 .. n - 1 PROVE Power[m] <= a
  <2>1. m \in Nat /\ m < n
    BY <1>3
  <2>2. Power[m] \in Nat /\ m \notin T
    BY <1>2, <2>1, PowerFacts
  <2> QED
    BY <2>1, <2>2
<1> QED
  BY <1>3, <1>4 DEF IsSize

(* The bytes of a number that is not 0, and their highest bit.              *)
LEMMA DigitsOfMagnitude ==
  ASSUME NEW a \in Nat \ {0}, NEW n \in Nat, IsSize(a, n)
  PROVE  LET bytes == LittleEndian(a, n)
         IN  /\ n > 0 /\ bytes \in Seq(Byte) /\ Len(bytes) = n
             /\ FromLittleEndian(bytes) = a
             /\ FromLittleEndian(Append(bytes, 0)) = a
             /\ \A k \in Nat : a < Power[k] => n <= k
<1> DEFINE bytes == LittleEndian(a, n)
           more == LittleEndian(a, n + 1)
<1>1. Power[n] > a /\ Power[n] \in Nat \ {0} /\ \A m \in 0 .. n - 1 : Power[m] <= a
  BY PowerFacts DEF IsSize
<1>2. n > 0
  <2>1. Power[0] = 1
    BY PowerFacts
  <2> QED
    BY <1>1, <2>1
<1>3. bytes \in Seq(Byte) /\ Len(bytes) = n /\ \A i \in 1 .. n : bytes[i] = (a \div Power[i - 1]) % Radix
  BY LittleEndianIs
<1>4. /\ more \in Seq(Byte) /\ Len(more) = n + 1
      /\ \A i \in 1 .. n + 1 : more[i] = (a \div Power[i - 1]) % Radix
  <2>1. n + 1 \in Nat /\ a \in Int
    OBVIOUS
  <2> QED
    BY ONLY <2>1, LittleEndianIs
<1>5. FromLittleEndian(bytes) = a % Power[n] /\ FromLittleEndian(more) = a % Power[n + 1]
  <2>1. n + 1 \in Nat /\ a \in Int
    OBVIOUS
  <2> QED
    BY ONLY <2>1, ReadAsWritten, n \in Nat
<1>6. a % Power[n] = a
  <2>1. a \in 0 .. Power[n] - 1
    BY <1>1
  <2> QED
    BY ONLY <1>1, <2>1, SmallMod
<1>7. a % Power[n + 1] = a
  <2>1. n + 1 \in Nat /\ n < n + 1
    OBVIOUS
  <2>2. Power[n] < Power[n + 1] /\ Power[n + 1] \in Nat \ {0}
    BY <2>1, PowerFacts
  <2>3. a \in 0 .. Power[n + 1] - 1
    BY <1>1, <2>2
  <2> QED
    BY ONLY <2>2, <2>3, SmallMod
<1> HIDE DEF bytes, more
<1>8. more = Append(bytes, 0)
  <2>1. more[n + 1] = 0
    <3>1. n + 1 \in 1 .. n + 1 /\ (n + 1) - 1 = n
      OBVIOUS
    <3>2. more[n + 1] = (a \div Power[n]) % Radix
      BY <1>4, <3>1
    <3>3. a \div Power[n] = 0
      BY <1>1
    <3>4. 0 % Radix = 0
      BY RadixOfBytes
    <3> QED
      BY <3>2, <3>3, <3>4
  <2>2. \A i \in 1 .. n : more[i] = bytes[i]
    BY <1>3, <1>4
  <2>3. 0 \in Byte
    BY RadixOfBytes
  <2>4. /\ Append(bytes, 0) \in Seq(Byte) /\ Len(Append(bytes, 0)) = n + 1
        /\ Append(bytes, 0)[n + 1] = 0 /\ \A i \in 1 .. n : Append(bytes, 0)[i] = bytes[i]
    BY <1>3, <2>3
  <2>5. \A i \in 1 .. Len(more) : more[i] = Append(bytes, 0)[i]
    <3>1. \A i \in 1 .. n + 1 : i \in 1 .. n \/ i = n + 1
      OBVIOUS
    <3> QED
      BY <1>4, <2>1, <2>2, <2>4, <3>1
  <2> QED
    BY ONLY <1>4, <2>4, <2>5, SeqEqual
<1>9. ASSUME NEW k \in Nat, a < Power[k] PROVE n <= k
  <2>1. CASE k \in 0 .. n - 1
    <3>1. Power[k] <= a /\ Power[k] \in Nat
      BY <1>1, <2>1, PowerFacts
    <3> QED
      BY <1>9, <3>1
  <2>2. CASE k \notin 0 .. n - 1
    BY <2>2
  <2> QED
    BY <2>1, <2>2
<1> QED
  BY <1>2, <1>3, <1>5, <1>6, <1>7, <1>8, <1>9 DEF bytes

(* A number that is written is read with its value and its sign.            *)
LEMMA SerializeIs ==
  ASSUME NEW v \in Int
  PROVE  /\ Serialize(v) \in Seq(Byte) /\ ScriptNum(Serialize(v)) = v
         /\ \A k \in Nat : Magnitude(v) < Power[k] => Len(Serialize(v)) <= k + 1
<1> DEFINE a == IF v < 0 THEN -v ELSE v
           n == CHOOSE m \in 0 .. a : Power[m] > a /\ \A l \in 0 .. m - 1 : Power[l] <= a
           bytes == LittleEndian(a, n)
           sign == IF v < 0 THEN Half ELSE 0
<1>1. Serialize(v) = IF v = 0 THEN <<>>
                     ELSE IF bytes[n] >= Half THEN Append(bytes, sign)
                     ELSE [i \in 1 .. n |-> bytes[i] + IF i = n THEN sign ELSE 0]
  BY DEF Serialize
<1>2. CASE v = 0
  <2>1. Serialize(v) = <<>> /\ Len(<<>>) = 0 /\ <<>> \in Seq(Byte)
    BY <1>1, <1>2
  <2>2. ScriptNum(<<>>) = 0
    BY DEF ScriptNum
  <2>3. \A k \in Nat : 0 <= k + 1
    OBVIOUS
  <2>4. ScriptNum(Serialize(v)) = v
    BY <1>2, <2>1, <2>2
  <2>5. Len(Serialize(v)) = 0
    BY <2>1
  <2> QED
    BY ONLY <2>1, <2>3, <2>4, <2>5
<1>3. CASE v # 0
  <2>1. a \in Nat \ {0} /\ Magnitude(v) = a
    BY <1>3 DEF Magnitude
  <2>2. n \in 0 .. a /\ IsSize(a, n)
    <3>1. \E m \in 0 .. a : Power[m] > a /\ \A l \in 0 .. m - 1 : Power[l] <= a
      <4> HIDE DEF a
      <4> QED
        BY <2>1, SizeExists DEF IsSize
    <3> HIDE DEF a
    <3>2. n \in 0 .. a /\ Power[n] > a /\ \A l \in 0 .. n - 1 : Power[l] <= a
      BY ONLY <3>1
    <3> QED
      BY <3>2 DEF IsSize
  <2>3. (v < 0 => v = -a) /\ (~(v < 0) => v = a) /\ (v < 0 => sign = Half) /\ (~(v < 0) => sign = 0)
    OBVIOUS
  <2> HIDE DEF a, n, sign
  <2>4. n \in Nat
    BY <2>1, <2>2
  <2>5. /\ n > 0 /\ bytes \in Seq(Byte) /\ Len(bytes) = n
        /\ FromLittleEndian(bytes) = a /\ FromLittleEndian(Append(bytes, 0)) = a
        /\ \A k \in Nat : a < Power[k] => n <= k
    BY ONLY <2>1, <2>2, <2>4, DigitsOfMagnitude
  <2> HIDE DEF bytes
  <2>6. \A i \in 1 .. n : bytes[i] \in Byte
    BY <2>5, ElementOfSeq
  <2>7. sign \in Byte /\ 0 \in Byte /\ Half \in Nat \ {0} /\ Half < Radix /\ Radix = 2 * Half /\ Radix \in Nat
    <3>1. Half \in Nat \ {0} /\ Half < Radix /\ Radix = 2 * Half /\ Radix \in Nat
      BY RadixOfBytes
    <3>2. Half \in Byte /\ 0 \in Byte
      BY <3>1, RadixOfBytes
    <3> QED
      BY <2>3, <3>1, <3>2
  <2>8. CASE bytes[n] >= Half
    <3> DEFINE s == Append(bytes, sign)
    <3>1. Serialize(v) = s
      BY <1>1, <1>3, <2>8
    <3>2. /\ s \in Seq(Byte) /\ Len(s) = n + 1 /\ s[n + 1] = sign
          /\ \A i \in 1 .. n : s[i] = bytes[i]
      BY <2>5, <2>7
    <3> HIDE DEF s
    <3>3. CASE v < 0
      <4>1. [s EXCEPT ![n + 1] = @ - Half] = Append(bytes, 0)
        <5> DEFINE t == [s EXCEPT ![n + 1] = @ - Half]
        <5>1. s[n + 1] - Half = 0 /\ n + 1 \in 1 .. Len(s)
          BY <2>3, <2>4, <2>7, <3>2, <3>3
        <5>2. /\ t \in Seq(Byte) /\ Len(t) = n + 1 /\ t[n + 1] = 0
              /\ \A i \in 1 .. n : t[i] = bytes[i]
          <6>1. t = [s EXCEPT ![n + 1] = 0]
            BY <5>1
          <6>2. [s EXCEPT ![n + 1] = 0] \in Seq(Byte)
            BY ONLY <2>7, <3>2, <5>1, ExceptSeq
          <6> QED
            BY <2>4, <3>2, <6>1, <6>2
        <5> HIDE DEF t
        <5>3. /\ Append(bytes, 0) \in Seq(Byte) /\ Len(Append(bytes, 0)) = n + 1
              /\ Append(bytes, 0)[n + 1] = 0 /\ \A i \in 1 .. n : Append(bytes, 0)[i] = bytes[i]
          BY <2>5, <2>7
        <5>4. \A i \in 1 .. Len(t) : t[i] = Append(bytes, 0)[i]
          <6>1. \A i \in 1 .. n + 1 : i \in 1 .. n \/ i = n + 1
            BY <2>4
          <6> QED
            BY <5>2, <5>3, <6>1
        <5>5. t = Append(bytes, 0)
          BY ONLY <5>2, <5>3, <5>4, SeqEqual
        <5> QED
          BY <5>5 DEF t
      <4>2. ScriptNum(s) = -FromLittleEndian([s EXCEPT ![n + 1] = @ - Half])
        <5>1. Len(s) # 0 /\ s[n + 1] >= Half
          BY <2>3, <2>4, <2>7, <3>2, <3>3
        <5> QED
          BY <3>2, <5>1 DEF ScriptNum
      <4>3. FromLittleEndian([s EXCEPT ![n + 1] = @ - Half]) = a
        BY ONLY <2>5, <4>1
      <4>4. ScriptNum(s) = v
        BY ONLY <2>3, <3>3, <4>2, <4>3
      <4>5. \A k \in Nat : a < Power[k] => n + 1 <= k + 1
        BY ONLY <2>4, <2>5
      <4> QED
        BY ONLY <2>1, <3>1, <3>2, <4>4, <4>5
    <3>4. CASE ~(v < 0)
      <4>1. s = Append(bytes, 0)
        BY <2>3, <3>4 DEF s
      <4>2. ScriptNum(s) = FromLittleEndian(s)
        <5>1. Len(s) # 0 /\ ~(s[n + 1] >= Half)
          BY <2>3, <2>4, <2>7, <3>2, <3>4
        <5> QED
          BY <3>2, <5>1 DEF ScriptNum
      <4> QED
        BY <2>1, <2>3, <2>4, <2>5, <3>1, <3>2, <3>4, <4>1, <4>2
    <3> QED
      BY <3>3, <3>4
  <2>9. CASE ~(bytes[n] >= Half)
    <3> DEFINE s == [i \in 1 .. n |-> bytes[i] + IF i = n THEN sign ELSE 0]
    <3>1. Serialize(v) = s
      BY <1>1, <1>3, <2>9
    <3>2. n \in 1 .. n /\ bytes[n] \in Nat /\ bytes[n] < Half
      BY <2>4, <2>5, <2>6, <2>7, <2>9, RadixOfBytes
    <3>3. \A i \in 1 .. n : s[i] \in Byte
      <4>1. ASSUME NEW i \in 1 .. n PROVE s[i] \in Byte
        <5>1. CASE i = n
          <6>1. s[i] = bytes[n] + sign
            BY <5>1
          <6>2. sign = Half \/ sign = 0
            BY <2>3
          <6> QED
            BY <2>7, <3>2, <6>1, <6>2, RadixOfBytes
        <5>2. CASE i # n
          <6>1. s[i] = bytes[i] + 0
            BY <5>2
          <6> QED
            BY <2>6, <2>7, <6>1, RadixOfBytes
        <5> QED
          BY <5>1, <5>2
      <4> QED
        BY <4>1
    <3>4. s \in Seq(Byte) /\ Len(s) = n
      BY <2>4, <3>3
    <3>5. s[n] = bytes[n] + sign /\ \A i \in 1 .. n : i # n => s[i] = bytes[i]
      <4>1. \A i \in 1 .. n : bytes[i] + 0 = bytes[i]
        BY <2>6, RadixOfBytes
      <4> QED
        BY <3>2, <4>1
    <3> HIDE DEF s
    <3>6. CASE v < 0
      <4> DEFINE t == [s EXCEPT ![n] = @ - Half]
      <4>1. s[n] - Half = bytes[n] /\ s[n] >= Half /\ n \in 1 .. Len(s) /\ Len(s) # 0
        BY <2>3, <2>5, <2>7, <3>2, <3>4, <3>5, <3>6
      <4>2. t = [s EXCEPT ![n] = bytes[n]]
        BY <4>1
      <4>3. t \in Seq(Byte)
        <5>1. bytes[n] \in Byte
          BY <2>6, <3>2
        <5> QED
          BY ONLY <3>4, <4>1, <4>2, <5>1, ExceptSeq
      <4>4. Len(t) = n /\ \A i \in 1 .. Len(t) : t[i] = bytes[i]
        BY <2>4, <3>4, <3>5, <4>2, <4>3
      <4>5. t = bytes
        BY ONLY <2>5, <4>3, <4>4, SeqEqual
      <4>6. ScriptNum(s) = -FromLittleEndian([s EXCEPT ![n] = @ - Half])
        BY <3>4, <4>1 DEF ScriptNum
      <4>7. ScriptNum(s) = -a
        BY <2>5, <4>5, <4>6
      <4> QED
        BY <2>1, <2>3, <2>4, <2>5, <3>1, <3>4, <3>6, <4>7
    <3>7. CASE ~(v < 0)
      <4>1. \A i \in 1 .. Len(s) : s[i] = bytes[i]
        BY <2>3, <2>7, <3>2, <3>4, <3>5, <3>7
      <4>2. s = bytes
        BY ONLY <2>5, <3>4, <4>1, SeqEqual
      <4>3. Len(s) # 0 /\ ~(s[n] >= Half)
        BY <2>5, <2>9, <4>2
      <4>4. ScriptNum(s) = FromLittleEndian(s)
        BY <3>4, <4>3 DEF ScriptNum
      <4> QED
        BY <2>1, <2>3, <2>4, <2>5, <3>1, <3>4, <3>7, <4>2, <4>4
    <3> QED
      BY <3>6, <3>7
  <2> QED
    BY <2>8, <2>9
<1> QED
  BY <1>2, <1>3

-----------------------------------------------------------------------------
(* Walking over a script.                                                   *)
WalkSet == [ops : Seq(OpSet), whole : BOOLEAN, pc : Nat]

(* After an operation that is there comes what comes after it.              *)
Preceded(op, after) == [ops |-> <<op>> \o after.ops, whole |-> after.whole, pc |-> after.pc]

WalkEnd(bytes, pc) == [ops |-> <<>>, whole |-> pc >= Len(bytes), pc |-> GetOp(bytes, pc).next]

IsWalk(bytes, walk) ==
  /\ walk \in [Nat -> WalkSet]
  /\ \A pc \in Nat :
       LET op == GetOp(bytes, pc)
       IN  walk[pc] = IF op.ok THEN Preceded(op, walk[op.next]) ELSE WalkEnd(bytes, pc)

LEMMA PrecededIs ==
  ASSUME NEW op \in OpSet, NEW after \in WalkSet
  PROVE  /\ Preceded(op, after) \in WalkSet
         /\ Preceded(op, after) = [after EXCEPT !.ops = <<op>> \o @]
<1>1. after.ops \in Seq(OpSet) /\ after.whole \in BOOLEAN /\ after.pc \in Nat
      /\ after = [ops |-> after.ops, whole |-> after.whole, pc |-> after.pc]
  <2> DEFINE S == Seq(OpSet)
  <2>1. after \in [ops : S, whole : BOOLEAN, pc : Nat]
    BY DEF WalkSet
  <2> HIDE DEF S
  <2>2. after.ops \in S /\ after.whole \in BOOLEAN /\ after.pc \in Nat
        /\ after = [ops |-> after.ops, whole |-> after.whole, pc |-> after.pc]
    BY ONLY <2>1
  <2> QED
    BY <2>2 DEF S
<1>2. <<op>> \in Seq(OpSet)
  OBVIOUS
<1>3. <<op>> \o after.ops \in Seq(OpSet)
  BY ONLY <1>1, <1>2, ConcatProperties
<1> DEFINE s == <<op>> \o after.ops
<1>4. Preceded(op, after) \in WalkSet
  BY <1>1, <1>3 DEF Preceded, WalkSet
<1>5. Preceded(op, after) = [after EXCEPT !.ops = <<op>> \o @]
  <2>1. [after EXCEPT !.ops = <<op>> \o @] = [after EXCEPT !.ops = s]
    BY <1>1
  <2>2. Preceded(op, after) = [ops |-> s, whole |-> after.whole, pc |-> after.pc]
    BY DEF Preceded
  <2> HIDE DEF s
  <2>3. [after EXCEPT !.ops = s] = [ops |-> s, whole |-> after.whole, pc |-> after.pc]
    BY ONLY <1>1
  <2> QED
    BY ONLY <2>1, <2>2, <2>3
<1> QED
  BY <1>4, <1>5

LEMMA WalkEndIs ==
  ASSUME NEW bytes \in Seq(Byte), NEW pc \in Nat
  PROVE  /\ WalkEnd(bytes, pc) \in WalkSet /\ WalkEnd(bytes, pc).ops = <<>>
         /\ WalkEnd(bytes, pc).whole <=> pc >= Len(bytes)
<1>1. GetOp(bytes, pc) \in OpSet
  BY GetOpFacts
<1>2. GetOp(bytes, pc).next \in Nat
  BY <1>1 DEF OpSet
<1> DEFINE whole == pc >= Len(bytes)
<1>3. whole \in BOOLEAN /\ <<>> \in Seq(OpSet)
  OBVIOUS
<1>4. WalkEnd(bytes, pc) = [ops |-> <<>>, whole |-> whole, pc |-> GetOp(bytes, pc).next]
  BY DEF WalkEnd
<1> HIDE DEF whole
<1>5. WalkEnd(bytes, pc) \in WalkSet /\ WalkEnd(bytes, pc).ops = <<>> /\ WalkEnd(bytes, pc).whole = whole
  BY ONLY <1>2, <1>3, <1>4 DEF WalkSet
<1> QED
  BY <1>5 DEF whole

(* Reading goes forward, so that the recursion of Walk has an end.          *)
LEMMA WalkExists ==
  ASSUME NEW bytes \in Seq(Byte)
  PROVE  \E walk : /\ IsWalk(bytes, walk)
                   /\ walk = [pc \in Nat |->
                        LET op == GetOp(bytes, pc)
                        IN  IF op.ok
                            THEN [walk[op.next] EXCEPT !.ops = <<op>> \o @]
                            ELSE [ops |-> <<>>, whole |-> pc >= Len(bytes), pc |-> op.next]]
<1> DEFINE total == Len(bytes)
           op(pc) == GetOp(bytes, pc)
           next == [pc \in Nat |-> IF op(pc).ok THEN op(pc).next ELSE pc + 1]
           base == WalkEnd(bytes, total)
           After(pc, x) == IF next[pc] >= total THEN WalkEnd(bytes, next[pc]) ELSE x
           H == [x \in Nat \X WalkSet |->
                   IF op(x[1]).ok THEN Preceded(op(x[1]), After(x[1], x[2])) ELSE WalkEnd(bytes, x[1])]
<1>1. total \in Nat
  OBVIOUS
<1>2. \A pc \in Nat : /\ op(pc) \in OpSet /\ op(pc).next \in Nat
                      /\ op(pc).ok => pc < op(pc).next /\ op(pc).next <= total
                      /\ pc >= total => ~op(pc).ok
  <2>1. \A pc \in Nat : /\ op(pc) \in OpSet
                        /\ op(pc).ok => pc < op(pc).next /\ op(pc).next <= total
                        /\ pc >= total => ~op(pc).ok
    BY GetOpFacts
  <2>2. \A o \in OpSet : o.next \in Nat
    BY DEF OpSet
  <2> HIDE DEF op
  <2> QED
    BY <2>1, <2>2
<1> HIDE DEF op, total
<1>3. next \in [Nat -> Nat] /\ \A pc \in Nat : next[pc] > pc /\ (op(pc).ok => next[pc] = op(pc).next)
  BY <1>2
<1>4. base \in WalkSet
  BY <1>1, WalkEndIs
<1>5. \A pc \in Nat : WalkEnd(bytes, pc) \in WalkSet
  BY WalkEndIs
<1> HIDE DEF next, base
<1>6. \A pc \in Nat : \A x \in WalkSet : After(pc, x) \in WalkSet
  BY <1>3, <1>5
<1>7. \A pc \in Nat : \A x \in WalkSet :
        /\ H[<<pc, x>>] = IF op(pc).ok THEN Preceded(op(pc), After(pc, x)) ELSE WalkEnd(bytes, pc)
        /\ H[<<pc, x>>] \in WalkSet
  <2> HIDE DEF After
  <2> SUFFICES ASSUME NEW pc \in Nat, NEW x \in WalkSet
               PROVE  /\ H[<<pc, x>>] = IF op(pc).ok THEN Preceded(op(pc), After(pc, x)) ELSE WalkEnd(bytes, pc)
                      /\ H[<<pc, x>>] \in WalkSet
    OBVIOUS
  <2>1. H[<<pc, x>>] = IF op(pc).ok THEN Preceded(op(pc), After(pc, x)) ELSE WalkEnd(bytes, pc)
    OBVIOUS
  <2> HIDE DEF H
  <2>2. op(pc) \in OpSet /\ After(pc, x) \in WalkSet
    BY <1>2, <1>6
  <2>3. Preceded(op(pc), After(pc, x)) \in WalkSet
    BY ONLY <2>2, PrecededIs
  <2> QED
    BY <1>5, <2>1, <2>3
<1>8. H \in [Nat \X WalkSet -> WalkSet]
  <2>1. H = [x \in Nat \X WalkSet |-> H[x]]
    OBVIOUS
  <2>2. \A x \in Nat \X WalkSet : x[1] \in Nat /\ x[2] \in WalkSet /\ x = <<x[1], x[2]>>
    OBVIOUS
  <2> HIDE DEF H
  <2>3. \A x \in Nat \X WalkSet : H[x] \in WalkSet
    BY ONLY <1>7, <2>2
  <2> QED
    BY ONLY <2>1, <2>3
<1> HIDE DEF H
<1>9. PICK f : Downward(WalkSet, total, base, next, H, f)
  BY ONLY <1>1, <1>3, <1>4, <1>8, DownwardExists
<1>10. f \in [Nat -> WalkSet] /\ \A o \in Nat : f[o] = IF o >= total THEN base ELSE H[<<o, f[next[o]]>>]
  BY ONLY <1>9 DEF Downward
<1> DEFINE walk == [pc \in Nat |-> IF pc >= total THEN WalkEnd(bytes, pc) ELSE f[pc]]
<1>11. walk \in [Nat -> WalkSet]
  BY <1>5, <1>10
<1>12. \A pc \in Nat : walk[pc] = IF op(pc).ok THEN Preceded(op(pc), walk[op(pc).next]) ELSE WalkEnd(bytes, pc)
  <2> SUFFICES ASSUME NEW pc \in Nat
               PROVE  walk[pc] = IF op(pc).ok THEN Preceded(op(pc), walk[op(pc).next]) ELSE WalkEnd(bytes, pc)
    OBVIOUS
  <2>1. CASE pc >= total
    BY <1>2, <2>1
  <2>2. CASE ~(pc >= total)
    <3>1. next[pc] \in Nat /\ f[next[pc]] \in WalkSet
      BY <1>3, <1>10
    <3>2. walk[pc] = H[<<pc, f[next[pc]]>>]
      BY <1>10, <2>2
    <3>3. walk[pc] = IF op(pc).ok THEN Preceded(op(pc), After(pc, f[next[pc]])) ELSE WalkEnd(bytes, pc)
      <4> HIDE DEF After, walk
      <4> QED
        BY ONLY <1>7, <3>1, <3>2, pc \in Nat
    <3>4. After(pc, f[next[pc]]) = walk[next[pc]]
      BY <3>1
    <3>5. op(pc).ok => next[pc] = op(pc).next
      BY <1>3
    <3> HIDE DEF After, walk
    <3> QED
      BY ONLY <3>3, <3>4, <3>5
  <2> QED
    BY <2>1, <2>2
<1> HIDE DEF walk
<1>13. IsWalk(bytes, walk)
  BY <1>11, <1>12 DEF IsWalk, op
<1>14. ASSUME NEW pc \in Nat
       PROVE  walk[pc] = LET o == GetOp(bytes, pc)
                         IN  IF o.ok
                             THEN [walk[o.next] EXCEPT !.ops = <<o>> \o @]
                             ELSE [ops |-> <<>>, whole |-> pc >= Len(bytes), pc |-> o.next]
  <2>1. op(pc) \in OpSet /\ walk[op(pc).next] \in WalkSet
    BY <1>2, <1>11
  <2>2. Preceded(op(pc), walk[op(pc).next]) = [walk[op(pc).next] EXCEPT !.ops = <<op(pc)>> \o @]
    <3> DEFINE o == op(pc)
               after == walk[o.next]
    <3>1. o \in OpSet /\ after \in WalkSet
      BY <2>1
    <3> HIDE DEF o, after
    <3>2. Preceded(o, after) = [after EXCEPT !.ops = <<o>> \o @]
      BY ONLY <3>1, PrecededIs
    <3> QED
      BY <3>2 DEF o, after
  <2>3. walk[pc] = IF op(pc).ok THEN [walk[op(pc).next] EXCEPT !.ops = <<op(pc)>> \o @] ELSE WalkEnd(bytes, pc)
    BY ONLY <1>12, <2>2, pc \in Nat
  <2> QED
    BY ONLY <2>3 DEF op, WalkEnd
<1>15. walk = [pc \in Nat |->
                 LET o == GetOp(bytes, pc)
                 IN  IF o.ok
                     THEN [walk[o.next] EXCEPT !.ops = <<o>> \o @]
                     ELSE [ops |-> <<>>, whole |-> pc >= Len(bytes), pc |-> o.next]]
  BY ONLY <1>11, <1>14
<1> QED
  BY <1>13, <1>15

LEMMA WalkIs ==
  ASSUME NEW bytes \in Seq(Byte)
  PROVE  \E walk : IsWalk(bytes, walk) /\ Walk(bytes) = walk[0]
<1> DEFINE walk[pc \in Nat] ==
             LET op == GetOp(bytes, pc)
             IN  IF op.ok
                 THEN [walk[op.next] EXCEPT !.ops = <<op>> \o @]
                 ELSE [ops |-> <<>>, whole |-> pc >= Len(bytes), pc |-> op.next]
<1>1. PICK f : f = [pc \in Nat |->
                 LET op == GetOp(bytes, pc)
                 IN  IF op.ok
                     THEN [f[op.next] EXCEPT !.ops = <<op>> \o @]
                     ELSE [ops |-> <<>>, whole |-> pc >= Len(bytes), pc |-> op.next]]
  BY WalkExists
<1>2. walk = [pc \in Nat |->
                 LET op == GetOp(bytes, pc)
                 IN  IF op.ok
                     THEN [walk[op.next] EXCEPT !.ops = <<op>> \o @]
                     ELSE [ops |-> <<>>, whole |-> pc >= Len(bytes), pc |-> op.next]]
  BY ONLY <1>1
<1>3. Walk(bytes) = walk[0]
  BY DEF Walk
<1> HIDE DEF walk
<1> DEFINE T == {m \in Nat : \A pc \in Nat : pc + m >= Len(bytes) => walk[pc] \in WalkSet}
<1>4. \A pc \in Nat : LET op == GetOp(bytes, pc)
                      IN  /\ op \in OpSet /\ op.next \in Nat
                          /\ op.ok => pc < op.next /\ op.next <= Len(bytes)
                          /\ pc >= Len(bytes) => ~op.ok
  <2>1. \A o \in OpSet : o.next \in Nat
    BY DEF OpSet
  <2> QED
    BY <2>1, GetOpFacts
<1>5. \A pc \in Nat : /\ ~GetOp(bytes, pc).ok => walk[pc] = WalkEnd(bytes, pc)
                      /\ GetOp(bytes, pc).ok =>
                           walk[pc] = [walk[GetOp(bytes, pc).next] EXCEPT !.ops = <<GetOp(bytes, pc)>> \o @]
  BY ONLY <1>2 DEF WalkEnd
<1>6. \A pc \in Nat : ~GetOp(bytes, pc).ok => walk[pc] \in WalkSet
  BY <1>5, WalkEndIs
<1>7. \A pc \in Nat : GetOp(bytes, pc).ok /\ walk[GetOp(bytes, pc).next] \in WalkSet =>
        walk[pc] = Preceded(GetOp(bytes, pc), walk[GetOp(bytes, pc).next]) /\ walk[pc] \in WalkSet
  <2> SUFFICES ASSUME NEW pc \in Nat, GetOp(bytes, pc).ok, walk[GetOp(bytes, pc).next] \in WalkSet
               PROVE  walk[pc] = Preceded(GetOp(bytes, pc), walk[GetOp(bytes, pc).next]) /\ walk[pc] \in WalkSet
    OBVIOUS
  <2> DEFINE o == GetOp(bytes, pc)
             after == walk[o.next]
  <2>1. o \in OpSet /\ after \in WalkSet /\ walk[pc] = [after EXCEPT !.ops = <<o>> \o @]
    BY <1>4, <1>5
  <2> HIDE DEF o, after
  <2>2. walk[pc] = Preceded(o, after) /\ walk[pc] \in WalkSet
    <3>1. o \in OpSet /\ after \in WalkSet
      BY <2>1
    <3>2. Preceded(o, after) \in WalkSet /\ Preceded(o, after) = [after EXCEPT !.ops = <<o>> \o @]
      BY ONLY <3>1, PrecededIs
    <3>3. walk[pc] = [after EXCEPT !.ops = <<o>> \o @]
      BY <2>1
    <3>4. walk[pc] = Preceded(o, after)
      BY ONLY <3>2, <3>3, Zenon
    <3> QED
      BY ONLY <3>2, <3>4
  <2> QED
    BY <2>2 DEF o, after
<1>8. 0 \in T
  BY <1>4, <1>6
<1>9. ASSUME NEW m \in Nat, m \in T PROVE m + 1 \in T
  <2> SUFFICES ASSUME NEW pc \in Nat, pc + (m + 1) >= Len(bytes) PROVE walk[pc] \in WalkSet
    OBVIOUS
  <2>1. CASE ~GetOp(bytes, pc).ok
    BY <1>6, <2>1
  <2>2. CASE GetOp(bytes, pc).ok
    <3>1. GetOp(bytes, pc).next \in Nat /\ GetOp(bytes, pc).next + m >= Len(bytes)
      <4>1. GetOp(bytes, pc).next \in Nat /\ pc < GetOp(bytes, pc).next /\ Len(bytes) \in Nat
        BY <1>4, <2>2
      <4> QED
        BY ONLY <4>1, pc \in Nat, m \in Nat, pc + (m + 1) >= Len(bytes)
    <3>2. walk[GetOp(bytes, pc).next] \in WalkSet
      BY <1>9, <3>1
    <3> QED
      BY <1>7, <2>2, <3>2
  <2> QED
    BY <2>1, <2>2
<1> HIDE DEF T
<1>10. Nat \subseteq T
  BY <1>8, <1>9, AllNaturals
<1>11. \A pc \in Nat : walk[pc] \in WalkSet
  <2> SUFFICES ASSUME NEW pc \in Nat PROVE walk[pc] \in WalkSet
    OBVIOUS
  <2>1. Len(bytes) \in T /\ pc + Len(bytes) >= Len(bytes) /\ Len(bytes) \in Nat
    BY <1>10
  <2> QED
    BY <2>1 DEF T
<1>12. walk \in [Nat -> WalkSet]
  <2>1. walk = [pc \in Nat |-> walk[pc]]
    BY ONLY <1>2
  <2> QED
    BY ONLY <1>11, <2>1
<1>13. IsWalk(bytes, walk)
  <2>1. \A pc \in Nat : walk[pc] = IF GetOp(bytes, pc).ok THEN Preceded(GetOp(bytes, pc), walk[GetOp(bytes, pc).next])
                                   ELSE WalkEnd(bytes, pc)
    BY ONLY <1>4, <1>5, <1>7, <1>11
  <2> QED
    BY <1>12, <2>1 DEF IsWalk
<1> QED
  BY <1>3, <1>13

(* What a script is made of.                                                *)
EntrySet ==
  {Entry("data", d, 0) : d \in Data} \cup {Entry("number", <<>>, n) : n \in Number}
  \cup {Entry("op", <<>>, o) : o \in Opcode}

BytesOf(entry) ==
  IF entry.kind = "data" THEN Push(entry.data)
  ELSE IF entry.kind = "number" THEN PushNumber(entry.value) ELSE <<entry.value>>

LEMMA PushIsBytes ==
  ASSUME NEW d \in Seq(Byte), Len(d) < Power[4]
  PROVE  Push(d) \in Seq(Byte) /\ Len(Push(d)) > 0
<1>1. PICK op : PushedAs(d, op)
  BY PushIs
<1>2. /\ op \in 0 .. OP_PUSHDATA4 /\ WidthOf(op) \in Nat
      /\ Push(d) = (<<op>> \o LittleEndian(Len(d), WidthOf(op))) \o d
  BY <1>1 DEF PushedAs
<1> DEFINE size == LittleEndian(Len(d), WidthOf(op))
<1>3. size \in Seq(Byte)
  <2>1. Len(d) \in Int
    OBVIOUS
  <2> QED
    BY ONLY <1>2, <2>1, LittleEndianIs
<1> HIDE DEF size
<1>4. <<op>> \in Seq(Byte) /\ Len(<<op>>) = 1
  BY <1>2, OpcodesAre
<1>5. <<op>> \o size \in Seq(Byte) /\ Len(<<op>> \o size) >= 1
  BY <1>3, <1>4, ConcatFacts
<1>6. (<<op>> \o size) \o d \in Seq(Byte) /\ Len((<<op>> \o size) \o d) >= 1
  BY <1>5, ConcatFacts
<1> QED
  BY <1>2, <1>6 DEF size

(* An operation that is a byte of its own.                                  *)
LEMMA ReadOperation ==
  ASSUME NEW o \in Byte, o > OP_PUSHDATA4, NEW bytes \in Seq(Byte), NEW pc \in Nat, Holds(bytes, pc, <<o>>)
  PROVE  LET op == GetOp(bytes, pc)
         IN  op.ok /\ op.opcode = o /\ op.next = pc + 1
<1>1. pc < Len(bytes) /\ bytes[pc + 1] = o /\ Len(bytes) \in Nat
  BY HoldsByte
<1>2. ~(pc >= Len(bytes))
  BY <1>1
<1>3. GetOp(bytes, pc) = AnOp(o, <<>>, pc + 1)
  BY <1>1, <1>2, GetOpIs
<1> QED
  BY <1>3 DEF AnOp

(* Four bytes hold the size of every number.                                *)
LEMMA NumbersAreShort ==
  ASSUME NEW n \in Number
  PROVE  Len(Serialize(n)) < Power[4] /\ n \in Int
<1>1. n \in Int /\ \E size \in 0 .. 8 : -Power[size] < n /\ n < Power[size]
  BY ScriptBytesAssumption
<1>2. PICK size \in 0 .. 8 : -Power[size] < n /\ n < Power[size]
  BY <1>1
<1>3. Power[size] \in Nat /\ size \in Nat
  BY PowerFacts
<1>4. Magnitude(n) < Power[size]
  BY <1>1, <1>2, <1>3 DEF Magnitude
<1>5. Len(Serialize(n)) <= size + 1 /\ Len(Serialize(n)) \in Nat
  BY <1>1, <1>3, <1>4, SerializeIs
<1>6. Power[4] > 9
  <2>1. Power[0 + 1] = Radix * Power[0] /\ Power[1 + 1] = Radix * Power[1] /\ Power[2 + 1] = Radix * Power[2]
        /\ Power[3 + 1] = Radix * Power[3] /\ Power[0] = 1
        /\ \A i \in Nat : Power[i] \in Nat
    BY PowersOfBytes DEF IsPower
  <2>2. \A x \in Nat : Radix * x >= 4 * x
    <3>1. PICK r \in Nat : Radix = 4 + r
      <4>1. Radix \in Nat /\ Radix > 3 /\ Radix - 4 \in Nat /\ Radix = 4 + (Radix - 4)
        BY RadixOfBytes
      <4> QED
        BY <4>1
    <3>2. \A x \in Nat : (4 + r) * x = 4 * x + r * x /\ r * x \in Nat
      OBVIOUS
    <3> QED
      BY <3>1, <3>2
  <2>3. Power[1] \in Nat /\ Power[2] \in Nat /\ Power[3] \in Nat /\ Power[4] \in Nat
    BY <2>1
  <2>4. Power[1] >= 4 * 1 /\ Power[2] >= 4 * Power[1] /\ Power[3] >= 4 * Power[2] /\ Power[4] >= 4 * Power[3]
    BY <2>1, <2>2, <2>3
  <2> QED
    BY <2>3, <2>4
<1>7. Power[4] \in Nat
  BY PowerFacts
<1> QED
  BY <1>1, <1>2, <1>3, <1>5, <1>6, <1>7

LEMMA ReadEntry ==
  ASSUME NEW e \in EntrySet
  PROVE  /\ BytesOf(e) \in Seq(Byte) /\ Len(BytesOf(e)) > 0
         /\ \A bytes \in Seq(Byte) : \A pc \in Nat : Holds(bytes, pc, BytesOf(e)) =>
              LET op == GetOp(bytes, pc)
              IN  op.ok /\ ReadsAs(op, e) /\ op.next = pc + Len(BytesOf(e))
<1>1. CASE \E d \in Data : e = Entry("data", d, 0)
  <2>1. PICK d \in Data : e = Entry("data", d, 0)
    BY <1>1
  <2>2. d \in Seq(Byte) /\ Len(d) < Power[4]
    BY ScriptBytesAssumption
  <2>3. e.kind = "data" /\ e.data = d /\ BytesOf(e) = Push(d)
    BY <2>1 DEF Entry, BytesOf
  <2>4. Push(d) \in Seq(Byte) /\ Len(Push(d)) > 0
    BY <2>2, PushIsBytes
  <2>5. ASSUME NEW bytes \in Seq(Byte), NEW pc \in Nat, Holds(bytes, pc, Push(d))
        PROVE  LET op == GetOp(bytes, pc)
               IN  op.ok /\ ReadsAs(op, e) /\ op.next = pc + Len(Push(d))
    <3> DEFINE op == GetOp(bytes, pc)
    <3>1. op.ok /\ op.opcode <= OP_PUSHDATA4 /\ op.data = d /\ op.next = pc + Len(Push(d))
      BY <2>2, <2>5, ReadPush
    <3> HIDE DEF op
    <3>2. ReadsAs(op, e)
      <4>1. e.kind # "op" /\ e.kind # "number"
        BY <2>3
      <4> QED
        BY <2>3, <3>1, <4>1, Zenon DEF ReadsAs
    <3> QED
      BY <3>1, <3>2 DEF op
  <2> QED
    BY <2>3, <2>4, <2>5
<1>2. CASE \E o \in Opcode : e = Entry("op", <<>>, o)
  <2>1. PICK o \in Opcode : e = Entry("op", <<>>, o)
    BY <1>2
  <2>2. o \in Byte /\ o > OP_PUSHDATA4
    BY ScriptBytesAssumption, OpcodesAre
  <2>3. e.kind = "op" /\ e.value = o /\ BytesOf(e) = <<o>>
    BY <2>1 DEF Entry, BytesOf
  <2>4. <<o>> \in Seq(Byte) /\ Len(<<o>>) = 1
    BY <2>2
  <2>5. ASSUME NEW bytes \in Seq(Byte), NEW pc \in Nat, Holds(bytes, pc, <<o>>)
        PROVE  LET op == GetOp(bytes, pc)
               IN  op.ok /\ ReadsAs(op, e) /\ op.next = pc + 1
    <3> DEFINE op == GetOp(bytes, pc)
    <3>1. op.ok /\ op.opcode = o /\ op.next = pc + 1
      BY <2>2, <2>5, ReadOperation
    <3> HIDE DEF op
    <3>2. ReadsAs(op, e)
      <4>1. e.kind # "data" /\ e.kind # "number"
        BY <2>3
      <4> QED
        BY <2>3, <3>1, <4>1, Zenon DEF ReadsAs
    <3> QED
      BY <3>1, <3>2 DEF op
  <2>6. Len(<<o>>) > 0
    BY <2>4
  <2> QED
    BY ONLY <2>3, <2>4, <2>5, <2>6
<1>3. CASE \E n \in Number : e = Entry("number", <<>>, n)
  <2>1. PICK n \in Number : e = Entry("number", <<>>, n)
    BY <1>3
  <2>2. e.kind = "number" /\ e.value = n /\ BytesOf(e) = PushNumber(n) /\ e.kind # "data" /\ e.kind # "op"
    BY <2>1 DEF Entry, BytesOf
  <2>3. n \in Int /\ Len(Serialize(n)) < Power[4]
    BY NumbersAreShort
  <2>4. CASE IsSmall(n)
    <3> DEFINE o == n + OP_1 - 1
    <3>1. PushNumber(n) = <<o>>
      BY <2>4 DEF PushNumber
    <3>2. o \in Byte /\ o > OP_PUSHDATA4 /\ o - OP_1 + 1 = n
      <4>1. /\ OP_PUSHDATA4 \in Nat /\ OP_1 \in Nat /\ OP_16 \in Nat /\ OP_PUSHDATA4 < OP_1 - 2
            /\ OP_1 <= OP_16 /\ OP_16 < Radix /\ Radix \in Nat /\ Byte = 0 .. Radix - 1
        BY OpcodesAre, RadixOfBytes
      <4>2. n = -1 \/ n \in 1 .. OP_16 - OP_1 + 1
        BY <2>4 DEF IsSmall
      <4> QED
        BY <2>3, <4>1, <4>2
    <3> HIDE DEF o
    <3>3. <<o>> \in Seq(Byte) /\ Len(<<o>>) = 1
      BY <3>2
    <3>4. ASSUME NEW bytes \in Seq(Byte), NEW pc \in Nat, Holds(bytes, pc, <<o>>)
          PROVE  LET op == GetOp(bytes, pc)
                 IN  op.ok /\ ReadsAs(op, e) /\ op.next = pc + 1
      <4> DEFINE op == GetOp(bytes, pc)
      <4>1. op.ok /\ op.opcode = o /\ op.next = pc + 1
        BY <3>2, <3>4, ReadOperation
      <4> HIDE DEF op
      <4>2. op.opcode - OP_1 + 1 = e.value
        BY <2>2, <3>2, <4>1
      <4>3. ReadsAs(op, e)
        BY <2>2, <2>4, <4>2, Zenon DEF ReadsAs
      <4> QED
        BY <4>1, <4>3 DEF op
    <3>5. Len(<<o>>) > 0
      BY <3>3
    <3> QED
      BY ONLY <2>2, <3>1, <3>3, <3>4, <3>5
  <2>5. CASE ~IsSmall(n)
    <3> DEFINE d == Serialize(n)
    <3>1. d \in Seq(Byte) /\ ScriptNum(d) = n /\ Len(d) < Power[4]
      BY <2>3, SerializeIs
    <3>2. PushNumber(n) = Push(d)
      <4>1. CASE n = 0
        <5>1. PushNumber(n) = <<0>>
          BY <2>5, <4>1 DEF PushNumber
        <5>2. d = <<>>
          BY <4>1 DEF Serialize
        <5>3. Push(<<>>) = <<0>>
          <6> DEFINE m == Len(<<>>)
          <6>1. m = 0 /\ OP_PUSHDATA1 > 0 /\ OP_PUSHDATA1 \in Nat /\ Radix \in Nat /\ OP_PUSHDATA1 < Radix
                /\ Power[2] \in Nat /\ Power[1] = Radix /\ Power[1] < Power[2]
            BY OpcodesAre, PowerFacts, RadixOfBytes
          <6> HIDE DEF m
          <6>2. m < OP_PUSHDATA1 /\ ~(m >= OP_PUSHDATA1) /\ ~(m >= Radix) /\ ~(m >= Power[2])
            BY <6>1
          <6>3. Push(<<>>) = <<m>> \o <<>>
            BY <6>2, Zenon DEF Push, m
          <6>4. <<0>> \o <<>> = <<0>>
            OBVIOUS
          <6> QED
            BY <6>1, <6>3, <6>4
        <5> QED
          BY <5>1, <5>2, <5>3
      <4>2. CASE n # 0
        BY <2>5, <4>2 DEF PushNumber
      <4> QED
        BY <4>1, <4>2
    <3> HIDE DEF d
    <3>3. Push(d) \in Seq(Byte) /\ Len(Push(d)) > 0
      BY <3>1, PushIsBytes
    <3>4. ASSUME NEW bytes \in Seq(Byte), NEW pc \in Nat, Holds(bytes, pc, Push(d))
          PROVE  LET op == GetOp(bytes, pc)
                 IN  op.ok /\ ReadsAs(op, e) /\ op.next = pc + Len(Push(d))
      <4> DEFINE op == GetOp(bytes, pc)
      <4>1. op.ok /\ op.opcode <= OP_PUSHDATA4 /\ op.data = d /\ op.next = pc + Len(Push(d))
        BY <3>1, <3>4, ReadPush
      <4> HIDE DEF op
      <4>2. ReadsAs(op, e)
        BY <2>2, <2>5, <3>1, <4>1, Zenon DEF ReadsAs
      <4> QED
        BY <4>1, <4>2 DEF op
    <3> QED
      BY ONLY <2>2, <3>2, <3>3, <3>4
  <2> QED
    BY <2>4, <2>5
<1> QED
  BY <1>1, <1>2, <1>3 DEF EntrySet

-----------------------------------------------------------------------------
(* A script that is read operation by operation.                            *)
LEMMA Increasing ==
  ASSUME NEW n \in Nat, NEW e \in [0 .. n -> Nat], \A i \in Nat : i < n => e[i] < e[i + 1]
  PROVE  \A i, j \in 0 .. n : i < j => e[i] < e[j]
<1> SUFFICES ASSUME NEW i \in 0 .. n
             PROVE  \A j \in 0 .. n : i < j => e[i] < e[j]
  OBVIOUS
<1> DEFINE T == {j \in Nat : j <= n /\ i < j => e[i] < e[j]}
<1>1. 0 \in T
  OBVIOUS
<1>2. ASSUME NEW j \in Nat, j \in T PROVE j + 1 \in T
  <2> SUFFICES ASSUME j + 1 <= n, i < j + 1 PROVE e[i] < e[j + 1]
    OBVIOUS
  <2>1. e[j] \in Nat /\ e[j + 1] \in Nat /\ e[j] < e[j + 1] /\ e[i] \in Nat
    <3>1. j \in 0 .. n /\ j + 1 \in 0 .. n
      OBVIOUS
    <3> QED
      BY <3>1
  <2>2. CASE i < j
    BY <1>2, <2>1, <2>2
  <2>3. CASE i = j
    BY <2>1, <2>3
  <2> QED
    BY <2>2, <2>3
<1>3. Nat \subseteq T
  <2> HIDE DEF T
  <2> QED
    BY <1>1, <1>2, AllNaturals
<1> QED
  BY <1>3

(* What a walk finds that begins at the i-th of the places.                 *)
WalkedFrom(bytes, e, k, i, w) ==
  /\ w \in WalkSet /\ Len(w.ops) = k - i
  /\ \A j \in 1 .. k - i : w.ops[j] = GetOp(bytes, e[(i + j) - 1])
  /\ w.whole <=> e[k] >= Len(bytes)

LEMMA WalkedBefore ==
  ASSUME NEW bytes, NEW k \in Nat, NEW e, NEW i \in 0 .. k - 1,
         NEW op \in OpSet, op = GetOp(bytes, e[i]), NEW w, WalkedFrom(bytes, e, k, i + 1, w)
  PROVE  WalkedFrom(bytes, e, k, i, Preceded(op, w))
<1> DEFINE p == Preceded(op, w)
           s == <<op>>
<1>1. w \in WalkSet /\ Len(w.ops) = k - (i + 1) /\ (w.whole <=> e[k] >= Len(bytes))
      /\ \A j \in 1 .. k - (i + 1) : w.ops[j] = GetOp(bytes, e[((i + 1) + j) - 1])
  BY DEF WalkedFrom
<1>2. p \in WalkSet
  BY <1>1, PrecededIs
<1>3. p.ops = s \o w.ops /\ p.whole = w.whole
  BY DEF Preceded
<1>4. w.ops \in Seq(OpSet)
  BY <1>1 DEF WalkSet
<1>5. s \in Seq(OpSet) /\ Len(s) = 1 /\ s[1] = op
  OBVIOUS
<1> HIDE DEF p, s
<1>6. Len(s \o w.ops) = 1 + Len(w.ops) /\ (s \o w.ops)[1] = op
      /\ \A j \in 1 .. Len(w.ops) : (s \o w.ops)[1 + j] = w.ops[j]
  <2>1. /\ Len(s \o w.ops) = Len(s) + Len(w.ops)
        /\ \A j \in 1 .. Len(s) : (s \o w.ops)[j] = s[j]
        /\ \A j \in 1 .. Len(w.ops) : (s \o w.ops)[Len(s) + j] = w.ops[j]
    <3> DEFINE r == w.ops
    <3>1. r \in Seq(OpSet) /\ s \in Seq(OpSet)
      BY <1>4, <1>5
    <3> HIDE DEF r
    <3>2. /\ Len(s \o r) = Len(s) + Len(r)
          /\ \A j \in 1 .. Len(s) : (s \o r)[j] = s[j]
          /\ \A j \in 1 .. Len(r) : (s \o r)[Len(s) + j] = r[j]
      BY ONLY <3>1, ConcatFacts
    <3> QED
      BY <3>2 DEF r
  <2>2. 1 \in 1 .. Len(s)
    BY <1>5
  <2> QED
    BY <1>5, <2>1, <2>2
<1>7. Len(p.ops) = k - i
  BY <1>1, <1>3, <1>6
<1>8. ASSUME NEW j \in 1 .. k - i PROVE p.ops[j] = GetOp(bytes, e[(i + j) - 1])
  <2>1. CASE j = 1
    <3>1. (i + 1) - 1 = i
      OBVIOUS
    <3> QED
      BY <1>3, <1>6, <2>1, <3>1
  <2>2. CASE j # 1
    <3>1. j - 1 \in 1 .. k - (i + 1) /\ ((i + 1) + (j - 1)) - 1 = (i + j) - 1 /\ 1 + (j - 1) = j
      BY <2>2
    <3>2. w.ops[j - 1] = GetOp(bytes, e[(i + j) - 1])
      BY <1>1, <3>1
    <3>3. (s \o w.ops)[1 + (j - 1)] = w.ops[j - 1]
      BY <1>1, <1>6, <3>1
    <3> QED
      BY <1>3, <3>1, <3>2, <3>3
  <2> QED
    BY <2>1, <2>2
<1>9. p.whole <=> e[k] >= Len(bytes)
  BY <1>1, <1>3
<1> QED
  BY <1>2, <1>7, <1>8, <1>9 DEF WalkedFrom, p

LEMMA WalkOver ==
  ASSUME NEW bytes \in Seq(Byte), NEW walk, IsWalk(bytes, walk),
         NEW k \in Nat, NEW e, \A i \in 0 .. k : e[i] \in Nat,
         \A i \in 0 .. k - 1 : GetOp(bytes, e[i]).ok /\ GetOp(bytes, e[i]).next = e[i + 1],
         ~GetOp(bytes, e[k]).ok
  PROVE  WalkedFrom(bytes, e, k, 0, walk[e[0]])
<1> DEFINE T == {i \in 0 .. k : WalkedFrom(bytes, e, k, i, walk[e[i]])}
<1>1. \A pc \in Nat : walk[pc] \in WalkSet
                      /\ walk[pc] = IF GetOp(bytes, pc).ok THEN Preceded(GetOp(bytes, pc), walk[GetOp(bytes, pc).next])
                                    ELSE WalkEnd(bytes, pc)
  BY DEF IsWalk
<1>2. k \in T
  <2>1. e[k] \in Nat
    OBVIOUS
  <2>2. walk[e[k]] = WalkEnd(bytes, e[k])
    BY <1>1, <2>1
  <2>3. WalkEnd(bytes, e[k]) \in WalkSet /\ WalkEnd(bytes, e[k]).ops = <<>>
        /\ (WalkEnd(bytes, e[k]).whole <=> e[k] >= Len(bytes))
    BY ONLY <2>1, WalkEndIs, bytes \in Seq(Byte)
  <2>4. WalkedFrom(bytes, e, k, k, WalkEnd(bytes, e[k]))
    <3>1. Len(WalkEnd(bytes, e[k]).ops) = k - k
      BY <2>3
    <3>2. \A j \in 1 .. k - k : FALSE
      OBVIOUS
    <3> QED
      BY ONLY <2>3, <3>1, <3>2 DEF WalkedFrom
  <2>5. k \in 0 .. k
    OBVIOUS
  <2> QED
    BY <2>2, <2>4, <2>5
<1>3. ASSUME NEW i \in 0 .. k - 1, i + 1 \in T PROVE i \in T
  <2>1. i \in 0 .. k /\ e[i] \in Nat /\ GetOp(bytes, e[i]).ok /\ GetOp(bytes, e[i]).next = e[i + 1]
    OBVIOUS
  <2> DEFINE op == GetOp(bytes, e[i])
  <2>2. op \in OpSet
    BY <2>1, GetOpFacts
  <2>3. walk[e[i]] = Preceded(op, walk[e[i + 1]])
    BY <1>1, <2>1
  <2>4. WalkedFrom(bytes, e, k, i + 1, walk[e[i + 1]])
    BY <1>3
  <2> HIDE DEF op
  <2>5. WalkedFrom(bytes, e, k, i, Preceded(op, walk[e[i + 1]]))
    <3>1. op = GetOp(bytes, e[i])
      BY DEF op
    <3> QED
      BY ONLY <2>2, <2>4, <3>1, WalkedBefore, k \in Nat, i \in 0 .. k - 1
  <2> QED
    BY <2>1, <2>3, <2>5
<1> HIDE DEF T
<1>4. 0 .. k \subseteq T
  BY <1>2, <1>3, Backwards
<1>5. 0 \in T
  BY <1>4
<1> QED
  BY <1>5 DEF T

(* Where the entries of a script are in its bytes.                          *)
Pieces(entries) == [i \in DOMAIN entries |-> BytesOf(entries[i])]

Layout(bytes, entries, e) ==
  LET n == Len(entries)
  IN  /\ e \in [0 .. n -> Nat] /\ e[0] = 0 /\ e[n] = Len(bytes)
      /\ \A i \in Nat : i < n => LET op == GetOp(bytes, e[i])
                                 IN  /\ op.ok /\ op.next = e[i + 1] /\ ReadsAs(op, entries[i + 1])
                                     /\ e[i] < e[i + 1]

LEMMA PiecesAre ==
  ASSUME NEW entries \in Seq(EntrySet)
  PROVE  /\ Pieces(entries) \in Seq(Seq(Byte)) /\ Len(Pieces(entries)) = Len(entries) /\ Len(entries) \in Nat
         /\ \A i \in 1 .. Len(entries) : entries[i] \in EntrySet /\ Pieces(entries)[i] = BytesOf(entries[i])
<1>1. DOMAIN entries = 1 .. Len(entries) /\ Len(entries) \in Nat
  OBVIOUS
<1>2. \A i \in 1 .. Len(entries) : entries[i] \in EntrySet
  BY ElementOfSeq
<1>3. \A i \in 1 .. Len(entries) : BytesOf(entries[i]) \in Seq(Byte)
  BY <1>2, ReadEntry
<1> DEFINE n == Len(entries)
           b(i) == BytesOf(entries[i])
<1>4. Pieces(entries) = [i \in 1 .. n |-> b(i)]
  BY <1>1 DEF Pieces
<1>5. n \in Nat /\ \A i \in 1 .. n : b(i) \in Seq(Byte)
  BY <1>1, <1>3
<1> HIDE DEF n, b
<1>6. Pieces(entries) \in Seq(Seq(Byte)) /\ Len(Pieces(entries)) = n /\ \A i \in 1 .. n : Pieces(entries)[i] = b(i)
  <2> DEFINE S == Seq(Byte)
  <2>1. \A i \in 1 .. n : b(i) \in S
    BY <1>5
  <2> HIDE DEF S
  <2>2. [i \in 1 .. n |-> b(i)] \in Seq(S) /\ Len([i \in 1 .. n |-> b(i)]) = n
    BY ONLY <1>5, <2>1
  <2> QED
    BY <1>4, <2>2 DEF S
<1> QED
  BY <1>1, <1>2, <1>6 DEF n, b

LEMMA LayoutExists ==
  ASSUME NEW entries \in Seq(EntrySet), NEW f, IsFlat(Byte, Pieces(entries), f),
         NEW bytes, bytes = f[Len(entries)]
  PROVE  bytes \in Seq(Byte) /\ \E e : Layout(bytes, entries, e)
<1> DEFINE n == Len(entries)
           s == Pieces(entries)
           e == [i \in 0 .. n |-> Len(f[i])]
<1>1. s \in Seq(Seq(Byte)) /\ Len(s) = n /\ n \in Nat
      /\ \A i \in 1 .. n : entries[i] \in EntrySet /\ s[i] = BytesOf(entries[i])
  BY PiecesAre
<1>2. f \in [0 .. n -> Seq(Byte)]
  BY <1>1 DEF IsFlat
<1>3. bytes \in Seq(Byte) /\ bytes = f[n]
  BY <1>1, <1>2
<1>4. IsFlat(Byte, s, f)
  OBVIOUS
<1> HIDE DEF n, s
<1>5. Holds(bytes, 0, f[Len(s)])
  <2>1. 0 + Len(bytes) <= Len(bytes) /\ \A i \in 1 .. Len(bytes) : bytes[0 + i] = bytes[i]
    BY <1>3
  <2> QED
    BY <1>1, <1>3, <2>1 DEF Holds
<1>6. /\ f[0] = <<>> /\ \A i \in 0 .. n : Len(f[i]) \in Nat
      /\ \A i \in Nat : i < n => /\ Holds(bytes, 0 + Len(f[i]), s[i + 1])
                                 /\ Len(f[i + 1]) = Len(f[i]) + Len(s[i + 1])
  <2>1. 0 \in Nat /\ s \in Seq(Seq(Byte)) /\ bytes \in Seq(Byte)
    BY ONLY <1>1, <1>3
  <2>2. FlatIn(Byte, bytes, 0, s, f)
    BY ONLY <1>4, <1>5, <2>1, FlatHolds
  <2> QED
    BY <1>1, <2>2 DEF FlatIn
<1>7. e \in [0 .. n -> Nat] /\ e[0] = 0 /\ e[n] = Len(bytes) /\ \A i \in 0 .. n : e[i] = Len(f[i])
  BY <1>1, <1>3, <1>6
<1> HIDE DEF e
<1>8. ASSUME NEW i \in Nat, i < n
      PROVE  LET op == GetOp(bytes, e[i])
             IN  op.ok /\ op.next = e[i + 1] /\ ReadsAs(op, entries[i + 1]) /\ e[i] < e[i + 1]
  <2>1. i \in 0 .. n /\ i + 1 \in 0 .. n /\ i + 1 \in 1 .. n
    BY <1>1, <1>8
  <2>2. e[i] \in Nat /\ e[i] = Len(f[i]) /\ e[i + 1] = Len(f[i + 1]) /\ 0 + e[i] = e[i]
    BY <1>7, <2>1
  <2>3. entries[i + 1] \in EntrySet /\ s[i + 1] = BytesOf(entries[i + 1])
    BY <1>1, <2>1
  <2> DEFINE x == entries[i + 1]
             b == BytesOf(x)
             pc == e[i]
             op == GetOp(bytes, pc)
  <2>4. Holds(bytes, pc, b) /\ e[i + 1] = pc + Len(b)
    BY <1>6, <1>8, <2>2, <2>3
  <2>5. x \in EntrySet /\ pc \in Nat
    BY <2>2, <2>3
  <2> HIDE DEF x, pc
  <2>6. b \in Seq(Byte) /\ Len(b) > 0
    BY <2>5, ReadEntry
  <2>7. op.ok /\ ReadsAs(op, x) /\ op.next = pc + Len(b)
    BY <1>3, <2>4, <2>5, ReadEntry
  <2>8. Len(b) \in Nat
    BY <2>6
  <2> HIDE DEF b, op
  <2>9. pc < e[i + 1] /\ op.next = e[i + 1]
    BY <2>4, <2>5, <2>6, <2>7, <2>8
  <2> QED
    BY <2>7, <2>9 DEF op, x, pc
<1>9. Layout(bytes, entries, e)
  BY <1>7, <1>8 DEF Layout, n
<1> QED
  BY <1>3, <1>9

LEMMA AllIsRead ==
  ASSUME NEW bytes \in Seq(Byte), NEW entries, Len(entries) \in Nat, NEW e, Layout(bytes, entries, e)
  PROVE  WalkedFrom(bytes, e, Len(entries), 0, Walk(bytes)) /\ Walk(bytes).whole
<1> DEFINE n == Len(entries)
<1>1. n \in Nat /\ e \in [0 .. n -> Nat] /\ e[0] = 0 /\ e[n] = Len(bytes)
      /\ \A i \in Nat : i < n => GetOp(bytes, e[i]).ok /\ GetOp(bytes, e[i]).next = e[i + 1]
  BY DEF Layout
<1> HIDE DEF n
<1>2. PICK walk : IsWalk(bytes, walk) /\ Walk(bytes) = walk[0]
  BY WalkIs
<1>3. \A i \in 0 .. n : e[i] \in Nat
  BY <1>1
<1>4. \A i \in 0 .. n - 1 : GetOp(bytes, e[i]).ok /\ GetOp(bytes, e[i]).next = e[i + 1]
  BY <1>1
<1>5. e[n] \in Nat /\ e[n] >= Len(bytes)
  BY <1>1
<1>6. ~GetOp(bytes, e[n]).ok
  BY <1>5, GetOpFacts
<1>7. WalkedFrom(bytes, e, n, 0, walk[e[0]])
  BY ONLY <1>1, <1>2, <1>3, <1>4, <1>6, WalkOver, bytes \in Seq(Byte)
<1>8. Walk(bytes).whole
  BY <1>1, <1>2, <1>5, <1>7 DEF WalkedFrom
<1> QED
  BY <1>1, <1>2, <1>7, <1>8 DEF n

(* The last of the places that is not behind m.                             *)
LastBefore(e, n, m, k) == k \in 0 .. n /\ e[k] <= m /\ (k < n => e[k + 1] > m)

LEMMA LastBeforeExists ==
  ASSUME NEW n \in Nat, NEW e \in [0 .. n -> Nat], e[0] = 0, NEW m \in Nat
  PROVE  \E k : LastBefore(e, n, m, k)
<1> DEFINE T == {j \in Nat : j >= n \/ e[j + 1] > m}
<1>1. T \in SUBSET Nat /\ n \in T
  OBVIOUS
<1>2. PICK k \in T : \A j \in T : k <= j
  BY <1>1, LeastNatural
<1>3. k \in Nat /\ k <= n
  BY <1>1, <1>2
<1>4. k < n => e[k + 1] > m
  BY <1>2, <1>3
<1>5. e[k] <= m
  <2>1. CASE k = 0
    BY <2>1
  <2>2. CASE k # 0
    <3>1. k - 1 \in Nat /\ ~(k <= k - 1) /\ (k - 1) + 1 = k /\ ~(k - 1 >= n)
      BY <1>3, <2>2
    <3>2. k - 1 \notin T
      BY <1>2, <3>1
    <3>3. ~(e[k] > m)
      BY <3>1, <3>2
    <3>4. e[k] \in Nat
      BY <1>3
    <3> QED
      BY <3>3, <3>4
  <2> QED
    BY <2>1, <2>2
<1>6. LastBefore(e, n, m, k)
  BY <1>3, <1>4, <1>5 DEF LastBefore
<1> QED
  BY <1>6

LEMMA CutIsRead ==
  ASSUME NEW bytes \in Seq(Byte), NEW entries, Len(entries) \in Nat, NEW e, Layout(bytes, entries, e),
         NEW m \in 0 .. Len(bytes), NEW k, LastBefore(e, Len(entries), m, k)
  PROVE  LET cut == SubSeq(bytes, 1, m)
         IN  /\ WalkedFrom(cut, e, k, 0, Walk(cut)) /\ Len(cut) = m
             /\ \A i \in 0 .. k - 1 : GetOp(cut, e[i]) = GetOp(bytes, e[i])
<1> DEFINE n == Len(entries)
           cut == SubSeq(bytes, 1, m)
<1>1. n \in Nat /\ e \in [0 .. n -> Nat] /\ e[0] = 0 /\ e[n] = Len(bytes)
      /\ \A i \in Nat : i < n => GetOp(bytes, e[i]).ok /\ GetOp(bytes, e[i]).next = e[i + 1] /\ e[i] < e[i + 1]
  BY DEF Layout
<1>2. k \in 0 .. n /\ e[k] <= m /\ (k < n => e[k + 1] > m)
  BY DEF LastBefore
<1>3. cut \in Seq(Byte) /\ Len(cut) = m /\ m \in Nat
  BY CutIs
<1> HIDE DEF n
<1>4. \A i \in 0 .. n : e[i] \in Nat
  BY <1>1
<1>5. \A i, j \in 0 .. n : i < j => e[i] < e[j]
  BY <1>1, Increasing
<1>6. ASSUME NEW i \in 0 .. k - 1
      PROVE  GetOp(cut, e[i]) = GetOp(bytes, e[i]) /\ GetOp(cut, e[i]).ok /\ GetOp(cut, e[i]).next = e[i + 1]
  <2>1. i \in 0 .. n /\ i + 1 \in 0 .. n /\ i \in Nat /\ i < n /\ i + 1 <= k /\ k \in 0 .. n
    BY <1>1, <1>2
  <2>2. GetOp(bytes, e[i]).ok /\ GetOp(bytes, e[i]).next = e[i + 1]
    BY <1>1, <2>1
  <2>3. e[i + 1] <= m
    <3>1. i + 1 = k \/ i + 1 < k
      BY <2>1
    <3>2. e[i + 1] = e[k] \/ e[i + 1] < e[k]
      BY <1>5, <2>1, <3>1
    <3>3. e[i + 1] \in Nat /\ e[k] \in Nat
      BY <1>4, <2>1
    <3> QED
      BY <1>2, <1>3, <3>2, <3>3
  <2>4. GetOp(cut, e[i]) = GetOp(bytes, e[i])
    <3>1. e[i] \in Nat
      BY <1>4, <2>1
    <3>2. GetOp(bytes, e[i]).next <= m
      BY <2>2, <2>3
    <3> QED
      BY ONLY <2>2, <3>1, <3>2, GetOpOfPart, bytes \in Seq(Byte), m \in 0 .. Len(bytes)
  <2> QED
    BY <2>2, <2>4
<1>7. ~GetOp(cut, e[k]).ok
  <2>1. e[k] \in Nat
    BY <1>2, <1>4
  <2>2. CASE k = n
    <3>1. e[k] >= Len(cut)
      BY <1>1, <1>3, <2>2
    <3> HIDE DEF cut
    <3> QED
      BY <1>3, <2>1, <3>1, GetOpFacts
  <2>3. CASE k # n
    <3>1. k \in Nat /\ k < n
      BY <1>1, <1>2, <2>3
    <3>2. GetOp(bytes, e[k]).ok /\ GetOp(bytes, e[k]).next > m
      BY <1>1, <1>2, <3>1
    <3> QED
      BY ONLY <2>1, <3>2, GetOpOfPart, bytes \in Seq(Byte), m \in 0 .. Len(bytes)
  <2> QED
    BY <2>2, <2>3
<1> HIDE DEF cut
<1>8. PICK walk : IsWalk(cut, walk) /\ Walk(cut) = walk[0]
  BY <1>3, WalkIs
<1>9. k \in Nat /\ (\A i \in 0 .. k : e[i] \in Nat)
      /\ \A i \in 0 .. k - 1 : GetOp(cut, e[i]).ok /\ GetOp(cut, e[i]).next = e[i + 1]
  BY <1>1, <1>2, <1>4, <1>6
<1>10. WalkedFrom(cut, e, k, 0, walk[e[0]])
  BY ONLY <1>3, <1>7, <1>8, <1>9, WalkOver
<1>11. WalkedFrom(cut, e, k, 0, Walk(cut))
  BY <1>1, <1>8, <1>10
<1> QED
  BY <1>3, <1>6, <1>11 DEF cut

(* The places after which a script may be cut, and those of the operations *)
(* that are whole then.                                                     *)
LEMMA WholeBefore ==
  ASSUME NEW n \in Nat, NEW e \in [0 .. n -> Nat], \A i, j \in 0 .. n : i < j => e[i] < e[j],
         NEW m \in Nat, NEW k, LastBefore(e, n, m, k)
  PROVE  /\ \A i \in 0 .. n : e[i] <= m <=> i <= k
         /\ e[k] >= m <=> \E i \in 0 .. n : m = e[i]
<1>1. k \in 0 .. n /\ e[k] <= m /\ (k < n => e[k + 1] > m) /\ \A i \in 0 .. n : e[i] \in Nat
  BY DEF LastBefore
<1>2. ASSUME NEW i \in 0 .. n PROVE e[i] <= m <=> i <= k
  <2>1. CASE i <= k
    <3>1. i = k \/ i < k
      BY <1>1, <2>1
    <3>2. e[i] = e[k] \/ e[i] < e[k]
      BY <1>1, <3>1
    <3>3. e[i] \in Nat /\ e[k] \in Nat
      BY <1>1
    <3> QED
      BY <1>1, <2>1, <3>2, <3>3
  <2>2. CASE ~(i <= k)
    <3>1. k < n /\ k + 1 \in 0 .. n /\ (i = k + 1 \/ k + 1 < i)
      BY <1>1, <2>2
    <3>2. e[i] = e[k + 1] \/ e[k + 1] < e[i]
      BY <3>1
    <3>3. e[i] \in Nat /\ e[k + 1] \in Nat /\ e[k + 1] > m
      BY <1>1, <3>1
    <3> QED
      BY <2>2, <3>2, <3>3
  <2> QED
    BY <2>1, <2>2
<1>3. ASSUME e[k] >= m PROVE \E i \in 0 .. n : m = e[i]
  <2>1. e[k] = m
    BY <1>1, <1>3
  <2> QED
    BY <1>1, <2>1
<1>4. ASSUME NEW i \in 0 .. n, m = e[i] PROVE e[k] >= m
  <2>1. i <= k
    BY <1>2, <1>4
  <2>2. i = k \/ i < k
    BY <1>1, <2>1
  <2>3. e[i] = e[k] \/ e[i] < e[k]
    BY <1>1, <2>2
  <2> QED
    BY <1>1, <1>4, <2>3
<1> QED
  BY <1>2, <1>3, <1>4

LEMMA ScriptIsRead ==
  ASSUME code \in Seq(Byte), ops \in Seq(EntrySet), NEW e, Layout(code, ops, e)
  PROVE  PushedIsRead
<1> DEFINE all == Walk(code)
           n == Len(ops)
           Ends == {0} \cup {all.ops[i].next : i \in DOMAIN all.ops}
<1>1. /\ n \in Nat /\ DOMAIN ops = 1 .. n /\ e \in [0 .. n -> Nat] /\ e[0] = 0 /\ e[n] = Len(code)
      /\ \A i \in Nat : i < n => /\ GetOp(code, e[i]).next = e[i + 1] /\ ReadsAs(GetOp(code, e[i]), ops[i + 1])
                                 /\ e[i] < e[i + 1]
  BY DEF Layout
<1>2. WalkedFrom(code, e, n, 0, all) /\ all.whole
  <2>1. Len(ops) \in Nat
    BY <1>1
  <2> QED
    BY ONLY <2>1, AllIsRead, code \in Seq(Byte), Layout(code, ops, e)
<1>3. all.ops \in Seq(OpSet) /\ Len(all.ops) = n /\ \A j \in 1 .. n : all.ops[j] = GetOp(code, e[j - 1])
  <2> HIDE DEF all, n
  <2>1. n - 0 = n /\ \A j \in 1 .. n : (0 + j) - 1 = j - 1
    BY <1>1
  <2> QED
    BY <1>2, <2>1 DEF WalkedFrom, WalkSet
<1> HIDE DEF all
<1>4. DOMAIN all.ops = 1 .. n
  BY <1>3
<1>5. \A j \in 1 .. n : all.ops[j].next = e[j] /\ ReadsAs(all.ops[j], ops[j])
  <2> SUFFICES ASSUME NEW j \in 1 .. n PROVE all.ops[j].next = e[j] /\ ReadsAs(all.ops[j], ops[j])
    OBVIOUS
  <2>1. j - 1 \in Nat /\ j - 1 < n /\ (j - 1) + 1 = j
    BY <1>1
  <2> QED
    BY <1>1, <1>3, <2>1
<1> HIDE DEF n
<1>6. Ends = {e[i] : i \in 0 .. n}
  <2>1. Ends = {0} \cup {e[j] : j \in 1 .. n}
    BY <1>4, <1>5
  <2>2. 0 .. n = {0} \cup 1 .. n
    BY <1>1
  <2> QED
    BY <1>1, <2>1, <2>2
<1> HIDE DEF Ends
<1>7. \A i, j \in 0 .. n : i < j => e[i] < e[j]
  BY <1>1, Increasing
<1>8. ASSUME NEW m \in 0 .. Len(code)
      PROVE  LET cut == Walk(SubSeq(code, 1, m))
             IN  /\ cut.whole <=> m \in Ends
                 /\ cut.ops = [i \in {j \in DOMAIN all.ops : all.ops[j].next <= m} |-> all.ops[i]]
  <2>1. m \in Nat
    OBVIOUS
  <2>2. PICK k : LastBefore(e, n, m, k)
    BY ONLY <1>1, <2>1, LastBeforeExists
  <2> DEFINE part == SubSeq(code, 1, m)
             cut == Walk(part)
  <2>3. WalkedFrom(part, e, k, 0, cut) /\ Len(part) = m /\ \A i \in 0 .. k - 1 : GetOp(part, e[i]) = GetOp(code, e[i])
    <3>1. Len(ops) \in Nat /\ LastBefore(e, Len(ops), m, k)
      BY <1>1, <2>2 DEF n
    <3> QED
      BY ONLY <3>1, CutIsRead, code \in Seq(Byte), Layout(code, ops, e), m \in 0 .. Len(code)
  <2>4. (\A i \in 0 .. n : e[i] <= m <=> i <= k) /\ (e[k] >= m <=> \E i \in 0 .. n : m = e[i])
    BY ONLY <1>1, <1>7, <2>1, <2>2, WholeBefore
  <2>5. k \in 0 .. n /\ k \in Nat
    BY <1>1, <2>2 DEF LastBefore
  <2> HIDE DEF cut, part
  <2>6. /\ cut.ops \in Seq(OpSet) /\ Len(cut.ops) = k /\ (cut.whole <=> e[k] >= m)
        /\ \A j \in 1 .. k : cut.ops[j] = GetOp(part, e[j - 1])
    <3>1. k - 0 = k /\ \A j \in 1 .. k : (0 + j) - 1 = j - 1
      BY <2>5
    <3> QED
      BY <2>3, <3>1 DEF WalkedFrom, WalkSet
  <2>7. cut.whole <=> m \in Ends
    BY <1>6, <2>4, <2>6
  <2>8. {j \in DOMAIN all.ops : all.ops[j].next <= m} = 1 .. k
    <3>1. {j \in DOMAIN all.ops : all.ops[j].next <= m} = {j \in 1 .. n : e[j] <= m}
      BY <1>4, <1>5
    <3>2. {j \in 1 .. n : e[j] <= m} = {j \in 1 .. n : j <= k}
      <4>1. \A j \in 1 .. n : j \in 0 .. n
        OBVIOUS
      <4> QED
        BY <2>4, <4>1
    <3>3. {j \in 1 .. n : j <= k} = 1 .. k
      BY <1>1, <2>5
    <3> QED
      BY <3>1, <3>2, <3>3
  <2>9. \A j \in 1 .. k : cut.ops[j] = all.ops[j]
    <3> SUFFICES ASSUME NEW j \in 1 .. k PROVE cut.ops[j] = all.ops[j]
      OBVIOUS
    <3>1. j - 1 \in 0 .. k - 1 /\ j \in 1 .. n
      BY ONLY <1>1, <2>5, j \in 1 .. k
    <3> QED
      BY <1>3, <2>3, <2>6, <3>1
  <2>10. cut.ops = [i \in 1 .. k |-> all.ops[i]]
    <3>1. cut.ops = [i \in 1 .. k |-> cut.ops[i]]
      BY <2>6
    <3> QED
      BY <2>9, <3>1
  <2> QED
    BY <2>7, <2>8, <2>10 DEF cut, part
<1>9. all.whole /\ Len(all.ops) = Len(ops) /\ \A i \in DOMAIN ops : ReadsAs(all.ops[i], ops[i])
  BY <1>1, <1>2, <1>3, <1>5 DEF n
<1> QED
  BY <1>8, <1>9 DEF PushedIsRead, Ends, all

(* The bytes of a script are those of the entries that were appended.       *)
ScriptInv ==
  /\ ops \in Seq(EntrySet)
  /\ \E f : IsFlat(Byte, Pieces(ops), f) /\ code = f[Len(ops)]

LEMMA ScriptInvIs == ScriptInv => PushedIsRead
<1> SUFFICES ASSUME ScriptInv PROVE PushedIsRead
  OBVIOUS
<1>1. ops \in Seq(EntrySet)
  BY DEF ScriptInv
<1>2. PICK f : IsFlat(Byte, Pieces(ops), f) /\ code = f[Len(ops)]
  BY DEF ScriptInv
<1>3. code \in Seq(Byte) /\ \E e : Layout(code, ops, e)
  BY ONLY <1>1, <1>2, LayoutExists
<1> QED
  BY <1>1, <1>3, ScriptIsRead

LEMMA ScriptInvInit == ScriptInit => ScriptInv
<1> SUFFICES ASSUME ScriptInit PROVE ScriptInv
  OBVIOUS
<1>1. code = <<>> /\ ops = <<>>
  BY DEF ScriptInit
<1>2. ops \in Seq(EntrySet)
  BY <1>1
<1> DEFINE f == [i \in 0 .. 0 |-> <<>>]
<1>3. Len(Pieces(ops)) = 0 /\ Len(ops) = 0
  BY <1>1, <1>2, PiecesAre
<1>4. f \in [0 .. 0 -> Seq(Byte)] /\ f[0] = <<>>
  OBVIOUS
<1> HIDE DEF f
<1>5. IsFlat(Byte, Pieces(ops), f) /\ code = f[Len(ops)]
  BY <1>1, <1>3, <1>4 DEF IsFlat
<1> QED
  BY <1>2, <1>5 DEF ScriptInv

LEMMA AppendKeepsScript ==
  ASSUME ScriptInv, NEW x \in EntrySet, AppendOp(BytesOf(x), x)
  PROVE  ScriptInv'
<1> DEFINE n == Len(ops)
           b == BytesOf(x)
<1>1. ops \in Seq(EntrySet) /\ code' = code \o b /\ ops' = Append(ops, x)
  BY DEF ScriptInv, AppendOp
<1>2. PICK f : IsFlat(Byte, Pieces(ops), f) /\ code = f[n]
  BY DEF ScriptInv
<1>3. ops' \in Seq(EntrySet) /\ Len(ops') = n + 1 /\ n \in Nat /\ ops'[n + 1] = x
      /\ \A i \in 1 .. n : ops'[i] = ops[i]
  BY <1>1
<1>4. /\ Len(Pieces(ops)) = n /\ \A i \in 1 .. n : Pieces(ops)[i] = BytesOf(ops[i])
  BY ONLY <1>1, PiecesAre
<1>5. /\ Len(Pieces(ops')) = n + 1 /\ \A i \in 1 .. n + 1 : Pieces(ops')[i] = BytesOf(ops'[i])
  <2> DEFINE o == ops'
  <2>1. o \in Seq(EntrySet) /\ Len(o) = n + 1
    BY <1>3
  <2> HIDE DEF o
  <2>2. /\ Len(Pieces(o)) = Len(o) /\ \A i \in 1 .. Len(o) : Pieces(o)[i] = BytesOf(o[i])
    BY ONLY <2>1, PiecesAre
  <2> QED
    BY <2>1, <2>2 DEF o
<1>6. b \in Seq(Byte)
  BY ReadEntry
<1> HIDE DEF b
<1> DEFINE s == Pieces(ops)
           t == Pieces(ops')
           g == [i \in 0 .. n + 1 |-> IF i = n + 1 THEN f[n] \o b ELSE f[i]]
<1>7. Len(s) = n /\ Len(t) = n + 1 /\ t[n + 1] = b /\ \A i \in 1 .. n : t[i] = s[i]
  BY <1>3, <1>4, <1>5 DEF b
<1>8. f \in [0 .. n -> Seq(Byte)] /\ f[0] = <<>> /\ \A i \in Nat : i < n => f[i + 1] = f[i] \o s[i + 1]
  BY <1>2, <1>7 DEF IsFlat
<1> HIDE DEF n, s, t
<1>9. f[n] \o b \in Seq(Byte)
  <2>1. f[n] \in Seq(Byte)
    BY <1>3, <1>8
  <2> QED
    BY ONLY <1>6, <2>1, ConcatProperties
<1>10. g \in [0 .. n + 1 -> Seq(Byte)]
  BY <1>3, <1>8, <1>9
<1>11. g[n + 1] = f[n] \o b /\ \A i \in 0 .. n : g[i] = f[i]
  BY <1>3
<1> HIDE DEF g
<1>12. g[0] = <<>>
  BY <1>3, <1>8, <1>11
<1>13. ASSUME NEW i \in Nat, i < n + 1 PROVE g[i + 1] = g[i] \o t[i + 1]
  <2>1. CASE i = n
    <3>1. n \in 0 .. n
      BY <1>3
    <3>2. g[n] = f[n] /\ g[n + 1] = f[n] \o b /\ t[n + 1] = b
      BY ONLY <1>7, <1>11, <3>1
    <3> QED
      BY ONLY <2>1, <3>2
  <2>2. CASE i # n
    <3>1. i < n /\ i + 1 \in 1 .. n /\ i + 1 \in 0 .. n /\ i \in 0 .. n
      BY <1>3, <1>13, <2>2
    <3> QED
      BY <1>7, <1>8, <1>11, <3>1
  <2> QED
    BY <2>1, <2>2
<1>14. IsFlat(Byte, t, g)
  BY <1>7, <1>10, <1>12, <1>13 DEF IsFlat
<1>15. code' = g[Len(ops')]
  BY <1>1, <1>2, <1>3, <1>11
<1> QED
  BY <1>3, <1>14, <1>15 DEF ScriptInv, t

LEMMA ScriptInvNext == ScriptInv /\ [BytesNext]_<<scriptVars, txVars>> => ScriptInv'
<1> SUFFICES ASSUME ScriptInv, [BytesNext]_<<scriptVars, txVars>> PROVE ScriptInv'
  OBVIOUS
<1>1. CASE PushData
  <2>1. PICK d \in Data : AppendOp(Push(d), Entry("data", d, 0))
    BY <1>1 DEF PushData
  <2> DEFINE x == Entry("data", d, 0)
  <2>2. x \in EntrySet
    BY DEF EntrySet
  <2>3. BytesOf(x) = Push(d)
    BY DEF BytesOf, Entry
  <2> HIDE DEF x
  <2>4. AppendOp(BytesOf(x), x)
    BY <2>1, <2>3 DEF x
  <2> QED
    BY <2>2, <2>4, AppendKeepsScript
<1>2. CASE PushInt64
  <2>1. PICK m \in Number : AppendOp(PushNumber(m), Entry("number", <<>>, m))
    BY <1>2 DEF PushInt64
  <2> DEFINE x == Entry("number", <<>>, m)
  <2>2. x \in EntrySet
    BY DEF EntrySet
  <2>3. BytesOf(x) = PushNumber(m)
    BY DEF BytesOf, Entry
  <2> HIDE DEF x
  <2>4. AppendOp(BytesOf(x), x)
    BY <2>1, <2>3 DEF x
  <2> QED
    BY <2>2, <2>4, AppendKeepsScript
<1>3. CASE PushOperation
  <2>1. PICK o \in Opcode : AppendOp(<<o>>, Entry("op", <<>>, o))
    BY <1>3 DEF PushOperation
  <2> DEFINE x == Entry("op", <<>>, o)
  <2>2. x \in EntrySet
    BY DEF EntrySet
  <2>3. BytesOf(x) = <<o>>
    BY DEF BytesOf, Entry
  <2> HIDE DEF x
  <2>4. AppendOp(BytesOf(x), x)
    BY <2>1, <2>3 DEF x
  <2> QED
    BY <2>2, <2>4, AppendKeepsScript
<1>4. CASE UNCHANGED scriptVars
  <2>1. code' = code /\ ops' = ops
    BY <1>4 DEF scriptVars
  <2> QED
    BY <2>1 DEF ScriptInv
<1> QED
  BY <1>1, <1>2, <1>3, <1>4 DEF BytesNext, ScriptNext

(* What << appends to a script, GetOp reads, each string with its bytes and *)
(* each number with its value, and a script that is cut is read up to the   *)
(* last operation that is whole: for any radix, strings and numbers, and    *)
(* scripts of any length (script.h:257-330, 346-408, 437-497).              *)
THEOREM AppendedIsRead == BytesSpec => []PushedIsRead
<1>1. BytesInit => ScriptInv
  BY ScriptInvInit DEF BytesInit
<1> QED
  BY <1>1, ScriptInvIs, ScriptInvNext, PTL DEF BytesSpec
=============================================================================
