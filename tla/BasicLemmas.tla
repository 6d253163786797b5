---------------------------- MODULE BasicLemmas ----------------------------
(***************************************************************************)
(* Lemmas about numbers, functions and sequences that the proofs about the *)
(* components rest on.                                                     *)
(*                                                                         *)
(* A definition f[n \in Nat] == ... f[n - 1] ... says that f is some        *)
(* function with this equation, if there is one; that there is one is      *)
(* proved here, for a function given by its first value and its step (a    *)
(* sum, a fold, a loop) and for one that refers to a later place (a walk   *)
(* over the bytes of a script).                                            *)
(***************************************************************************)
EXTENDS Integers, SequencesExt, SequenceTheorems, WellFoundedInduction, TLAPS

-----------------------------------------------------------------------------
(* Natural numbers.                                                         *)
(* A set of naturals that is not empty has a least element.                 *)
LEMMA LeastNatural ==
  ASSUME NEW T \in SUBSET Nat, T # {}
  PROVE  \E m \in T : \A k \in T : m <= k
<1> DEFINE R == {ss \in Nat \X Nat : ss[1] < ss[2]}
<1>1. IsWellFoundedOn(R, Nat)
  BY NatLessThanWellFounded DEF OpToRel
<1>2. \A k, m \in T : <<k, m>> \in R <=> k < m
  OBVIOUS
<1> HIDE DEF R
<1>3. PICK m \in T : \A k \in T : ~(<<k, m>> \in R)
  BY <1>1, WFMin
<1>4. \A k \in T : k \in Nat /\ ~(k < m)
  BY <1>2, <1>3
<1> QED
  BY <1>4

(* Induction, with a set for the claim.                                     *)
LEMMA AllNaturals ==
  ASSUME NEW T, 0 \in T, \A n \in Nat : n \in T => n + 1 \in T
  PROVE  Nat \subseteq T
<1> DEFINE U == {n \in Nat : n \notin T}
<1> SUFFICES ASSUME U # {} PROVE FALSE
  OBVIOUS
<1>1. U \in SUBSET Nat
  OBVIOUS
<1>2. PICK m \in U : \A k \in U : m <= k
  BY <1>1, LeastNatural
<1>3. m \in Nat /\ m \notin T /\ m # 0
  OBVIOUS
<1>4. m - 1 \in Nat /\ m - 1 \notin U
  BY <1>2, <1>3
<1>5. m - 1 \in T /\ (m - 1) + 1 = m
  BY <1>3, <1>4
<1> QED
  BY <1>3, <1>4, <1>5

(* What is true of the last turn of a loop and, with a turn, of the one     *)
(* before, is true of all.                                                  *)
LEMMA Backwards ==
  ASSUME NEW n \in Nat, NEW T, n \in T, \A i \in 0 .. n - 1 : i + 1 \in T => i \in T
  PROVE  0 .. n \subseteq T
<1> DEFINE U == {j \in Nat : j <= n => n - j \in T}
<1>1. 0 \in U
  OBVIOUS
<1>2. ASSUME NEW j \in Nat, j \in U PROVE j + 1 \in U
  <2> SUFFICES ASSUME j + 1 <= n PROVE n - (j + 1) \in T
    OBVIOUS
  <2>1. n - (j + 1) \in 0 .. n - 1 /\ (n - (j + 1)) + 1 = n - j /\ n - j \in T
    BY <1>2
  <2> QED
    BY <2>1
<1> HIDE DEF U
<1>3. Nat \subseteq U
  BY <1>1, <1>2, AllNaturals
<1>4. ASSUME NEW i \in 0 .. n PROVE i \in T
  <2>1. n - i \in Nat /\ n - i <= n /\ n - (n - i) = i
    OBVIOUS
  <2> QED
    BY <1>3, <2>1 DEF U
<1> QED
  BY <1>4

(* A function that is defined upwards: from the value at the place before.  *)
Upward(S, base, H, f) ==
  /\ f \in [Nat -> S]
  /\ f[0] = base /\ \A n \in Nat : f[n + 1] = H[<<n, f[n]>>]

UpTo(S, base, H, m, f) ==
  /\ f \in [0 .. m -> S]
  /\ f[0] = base /\ \A n \in Nat : n < m => f[n + 1] = H[<<n, f[n]>>]

LEMMA UpToExists ==
  ASSUME NEW S, NEW base \in S, NEW H \in [Nat \X S -> S]
  PROVE  \A m \in Nat : \E f : UpTo(S, base, H, m, f)
<1> DEFINE T == {m \in Nat : \E f : UpTo(S, base, H, m, f)}
<1>1. 0 \in T
  <2>1. UpTo(S, base, H, 0, [n \in 0 .. 0 |-> base])
    BY DEF UpTo
  <2> QED
    BY <2>1
<1>2. ASSUME NEW m \in Nat, m \in T PROVE m + 1 \in T
  <2>1. PICK f : UpTo(S, base, H, m, f)
    BY <1>2
  <2> DEFINE g == [n \in 0 .. m + 1 |-> IF n = m + 1 THEN H[<<m, f[m]>>] ELSE f[n]]
  <2>2. f[m] \in S /\ H[<<m, f[m]>>] \in S /\ \A n \in 0 .. m : f[n] \in S
    BY <2>1 DEF UpTo
  <2>3. g \in [0 .. m + 1 -> S] /\ g[m + 1] = H[<<m, f[m]>>] /\ \A n \in 0 .. m : g[n] = f[n]
    BY <2>2
  <2> HIDE DEF g
  <2>4. g[0] = base
    BY <2>1, <2>3 DEF UpTo
  <2>5. ASSUME NEW n \in Nat, n < m + 1 PROVE g[n + 1] = H[<<n, g[n]>>]
    <3>1. CASE n = m
      BY <2>3, <3>1
    <3>2. CASE n < m
      <4>1. g[n] = f[n] /\ g[n + 1] = f[n + 1]
        BY <2>3, <3>2
      <4> QED
        BY <2>1, <3>2, <4>1 DEF UpTo
    <3> QED
      BY <2>5, <3>1, <3>2
  <2>6. UpTo(S, base, H, m + 1, g)
    BY <2>3, <2>4, <2>5 DEF UpTo
  <2> QED
    BY <2>6
<1>3. Nat \subseteq T
  <2> HIDE DEF T
  <2> QED
    BY <1>1, <1>2, AllNaturals
<1> QED
  BY <1>3

LEMMA UpToUnique ==
  ASSUME NEW S, NEW base \in S, NEW H \in [Nat \X S -> S]
  PROVE  \A m, k \in Nat : \A f, g : UpTo(S, base, H, m, f) /\ UpTo(S, base, H, k, g) =>
           \A n \in Nat : n <= m /\ n <= k => f[n] = g[n]
<1> SUFFICES ASSUME NEW m \in Nat, NEW k \in Nat, NEW f, NEW g,
                    UpTo(S, base, H, m, f), UpTo(S, base, H, k, g)
             PROVE  \A n \in Nat : n <= m /\ n <= k => f[n] = g[n]
  OBVIOUS
<1> DEFINE T == {n \in Nat : n <= m /\ n <= k => f[n] = g[n]}
<1>1. 0 \in T
  BY DEF UpTo
<1>2. ASSUME NEW n \in Nat, n \in T PROVE n + 1 \in T
  <2> SUFFICES ASSUME n + 1 <= m, n + 1 <= k PROVE f[n + 1] = g[n + 1]
    OBVIOUS
  <2>1. n < m /\ n < k /\ f[n] = g[n]
    BY <1>2
  <2> QED
    BY <2>1 DEF UpTo
<1>3. Nat \subseteq T
  <2> HIDE DEF T
  <2> QED
    BY <1>1, <1>2, AllNaturals
<1> QED
  BY <1>3

LEMMA UpwardExists ==
  ASSUME NEW S, NEW base \in S, NEW H \in [Nat \X S -> S]
  PROVE  \E f : Upward(S, base, H, f)
<1> DEFINE part(m) == CHOOSE f : UpTo(S, base, H, m, f)
           f == [n \in Nat |-> part(n)[n]]
<1>1. \A m \in Nat : UpTo(S, base, H, m, part(m))
  BY UpToExists
<1> HIDE DEF part
<1>2. \A n \in Nat : f[n] = part(n)[n] /\ f[n] \in S
  BY <1>1 DEF UpTo
<1>3. f \in [Nat -> S]
  BY <1>2
<1> HIDE DEF f
<1>4. f[0] = base
  BY <1>1, <1>2 DEF UpTo
<1>5. ASSUME NEW n \in Nat PROVE f[n + 1] = H[<<n, f[n]>>]
  <2>1. n + 1 \in Nat /\ UpTo(S, base, H, n, part(n)) /\ UpTo(S, base, H, n + 1, part(n + 1))
    BY <1>1
  <2>2. part(n + 1)[n] = part(n)[n]
    <3>1. n \in Nat /\ n + 1 \in Nat /\ n <= n /\ n <= n + 1
      OBVIOUS
    <3>2. \A e, g : UpTo(S, base, H, n, e) /\ UpTo(S, base, H, n + 1, g) => e[n] = g[n]
      BY ONLY <3>1, UpToUnique, base \in S, H \in [Nat \X S -> S]
    <3> QED
      BY <2>1, <3>2
  <2>3. part(n + 1)[n + 1] = H[<<n, part(n + 1)[n]>>]
    BY <2>1 DEF UpTo
  <2> QED
    BY <1>2, <2>1, <2>2, <2>3
<1>6. Upward(S, base, H, f)
  BY <1>3, <1>4, <1>5 DEF Upward
<1> QED
  BY <1>6

(* A function that is defined downwards: from the value at a later place,   *)
(* as a walk over the bytes of a script is.                                 *)
Downward(S, total, base, next, H, f) ==
  /\ f \in [Nat -> S]
  /\ f = [o \in Nat |-> IF o >= total THEN base ELSE H[<<o, f[next[o]]>>]]

From(S, total, base, next, H, m, f) ==
  /\ f \in [{o \in Nat : o + m >= total} -> S]
  /\ \A o \in Nat : o + m >= total =>
       f[o] = IF o >= total THEN base ELSE H[<<o, f[next[o]]>>]

LEMMA DownwardExists ==
  ASSUME NEW S, NEW total \in Nat, NEW base \in S, NEW next \in [Nat -> Nat],
         NEW H \in [Nat \X S -> S], \A o \in Nat : o < total => next[o] > o
  PROVE  \E f : Downward(S, total, base, next, H, f)
<1> DEFINE T == {m \in Nat : \E f : From(S, total, base, next, H, m, f)}
<1>1. 0 \in T
  <2> DEFINE f == [o \in {o \in Nat : o + 0 >= total} |-> base]
  <2>1. f \in [{o \in Nat : o + 0 >= total} -> S] /\ \A o \in Nat : o + 0 >= total => f[o] = base
    OBVIOUS
  <2> HIDE DEF f
  <2>2. From(S, total, base, next, H, 0, f)
    BY <2>1 DEF From
  <2> QED
    BY <2>2
<1>2. ASSUME NEW m \in Nat, m \in T PROVE m + 1 \in T
  <2>1. PICK f : From(S, total, base, next, H, m, f)
    BY <1>2
  <2>2. ASSUME NEW o \in Nat, o + m >= total PROVE f[o] \in S
    BY <2>1, <2>2 DEF From
  <2>3. ASSUME NEW o \in Nat, o + (m + 1) >= total, o < total
        PROVE  /\ next[o] \in Nat /\ next[o] + m >= total
               /\ H[<<o, f[next[o]]>>] \in S
    <3>1. next[o] \in Nat /\ next[o] > o
      BY <2>3
    <3>2. next[o] + m >= total
      BY <2>3, <3>1
    <3>3. f[next[o]] \in S
      BY <2>2, <3>1, <3>2
    <3> QED
      BY <3>1, <3>2, <3>3
  <2> DEFINE D == {o \in Nat : o + (m + 1) >= total}
             g == [o \in D |-> IF o + m >= total THEN f[o] ELSE H[<<o, f[next[o]]>>]]
  <2>4. /\ g \in [D -> S]
        /\ \A o \in Nat : o + m >= total => g[o] = f[o]
        /\ \A o \in Nat : o + (m + 1) >= total /\ ~(o + m >= total) => g[o] = H[<<o, f[next[o]]>>]
    <3>1. \A o \in D : (IF o + m >= total THEN f[o] ELSE H[<<o, f[next[o]]>>]) \in S
      BY <2>2, <2>3
    <3>2. \A o \in Nat : o + m >= total => o \in D
      OBVIOUS
    <3> QED
      BY <3>1, <3>2
  <2> HIDE DEF g
  <2>5. ASSUME NEW o \in Nat, o + (m + 1) >= total
        PROVE  g[o] = IF o >= total THEN base ELSE H[<<o, g[next[o]]>>]
    <3>1. CASE o >= total
      <4>1. o + m >= total
        BY <3>1
      <4> QED
        BY <2>1, <2>4, <3>1, <4>1 DEF From
    <3>2. CASE ~(o >= total)
      <4>1. next[o] \in Nat /\ next[o] + m >= total /\ g[next[o]] = f[next[o]]
        BY <2>3, <2>4, <2>5, <3>2
      <4>2. CASE o + m >= total
        <5>1. g[o] = f[o] /\ f[o] = H[<<o, f[next[o]]>>]
          BY <2>1, <2>4, <3>2, <4>2 DEF From
        <5> QED
          BY <3>2, <4>1, <5>1
      <4>3. CASE ~(o + m >= total)
        BY <2>4, <2>5, <3>2, <4>1, <4>3
      <4> QED
        BY <4>2, <4>3
    <3> QED
      BY <3>1, <3>2
  <2>6. From(S, total, base, next, H, m + 1, g)
    BY <2>4, <2>5 DEF From
  <2> QED
    BY <2>6
<1>3. total \in T
  <2> HIDE DEF T
  <2>1. Nat \subseteq T
    BY <1>1, <1>2, AllNaturals
  <2> QED
    BY <2>1
<1>4. PICK f : From(S, total, base, next, H, total, f)
  BY <1>3
<1>5. {o \in Nat : o + total >= total} = Nat
  OBVIOUS
<1>6. f \in [Nat -> S] /\ \A o \in Nat : f[o] = IF o >= total THEN base ELSE H[<<o, f[next[o]]>>]
  BY <1>4, <1>5 DEF From
<1>7. f = [o \in Nat |-> IF o >= total THEN base ELSE H[<<o, f[next[o]]>>]]
  <2>1. f = [o \in Nat |-> f[o]]
    BY <1>6
  <2> QED
    BY <1>6, <2>1
<1> QED
  BY <1>6, <1>7 DEF Downward

-----------------------------------------------------------------------------
(* Numbers and their digits.                                                *)
LEMMA ModUnique ==
  ASSUME NEW v \in Int, NEW n \in Nat \ {0}, NEW q \in Int, NEW r \in 0 .. n - 1, v = n * q + r
  PROVE  v % n = r
OBVIOUS

LEMMA SmallMod ==
  ASSUME NEW P \in Nat \ {0}, NEW x \in 0 .. P - 1
  PROVE  x % P = x
OBVIOUS

(* One more digit of a number.                                              *)
LEMMA NextDigit ==
  ASSUME NEW R \in Nat \ {0}, NEW v \in Int, NEW P \in Nat \ {0}
  PROVE  v % (R * P) = (v % P) + ((v \div P) % R) * P
<1> DEFINE q == v \div P
           r == v % P
           k == q \div R
           d == q % R
<1>1. /\ R \in Nat \ {0} /\ q \in Int /\ k \in Int
      /\ r \in 0 .. P - 1 /\ d \in 0 .. R - 1
      /\ v = P * q + r /\ q = R * k + d
  OBVIOUS
<1> HIDE DEF q, r, k, d
<1>2. v = (R * P) * k + (r + d * P)
  BY <1>1
<1>3. r + d * P \in Int /\ r + d * P >= 0
  BY <1>1
<1>4. d * P <= (R - 1) * P
  BY <1>1
<1>5. (R - 1) * P = R * P - P
  BY <1>1
<1>6. r + d * P \in 0 .. R * P - 1
  BY <1>1, <1>3, <1>4, <1>5
<1>7. R * P \in Nat \ {0}
  BY <1>1
<1>8. v % (R * P) = r + d * P
  BY <1>1, <1>2, <1>6, <1>7, ModUnique
<1> QED
  BY <1>8 DEF q, r, d

(* A number is its lowest digits and the others only once.                  *)
WithDigit(rest, digit, P) == rest + digit * P

LEMMA SameDigit ==
  ASSUME NEW P \in Nat \ {0}, NEW x \in 0 .. P - 1, NEW y \in 0 .. P - 1, NEW b \in Int, NEW c \in Int,
         WithDigit(x, b, P) = WithDigit(y, c, P)
  PROVE  x = y /\ b = c
<1> DEFINE v == x + b * P
<1>1. v \in Int /\ v = P * b + x /\ v = P * c + y
  BY DEF WithDigit
<1> HIDE DEF v
<1>2. v % P = x /\ v % P = y
  BY <1>1, ModUnique
<1>3. b * P = c * P
  BY <1>2 DEF WithDigit
<1>4. ASSUME NEW m \in Int, NEW n \in Int, m < n PROVE m * P < n * P
  <2>1. n - m \in Nat \ {0} /\ n = m + (n - m)
    BY <1>4
  <2>2. (n - m) * P \in Nat \ {0}
    BY <2>1
  <2>3. n * P = m * P + (n - m) * P
    BY <2>1
  <2>4. m * P \in Int
    OBVIOUS
  <2> QED
    BY <2>2, <2>3, <2>4
<1>5. ~(b < c) /\ ~(c < b)
  <2>1. b * P \in Int /\ c * P \in Int
    OBVIOUS
  <2> QED
    BY <1>3, <1>4, <2>1
<1> QED
  BY <1>2, <1>5

(* The powers of a radix.                                                   *)
IsPower(R, p) ==
  p \in [Nat -> Nat \ {0}] /\ p[0] = 1 /\ \A n \in Nat : p[n + 1] = R * p[n]

LEMMA PowersExist ==
  ASSUME NEW R \in Nat \ {0}
  PROVE  \E p : p = [n \in Nat |-> IF n = 0 THEN 1 ELSE R * p[n - 1]]
<1> DEFINE H == [x \in Nat \X Nat |-> R * x[2]]
<1>1. H \in [Nat \X Nat -> Nat] /\ \A n, x \in Nat : H[<<n, x>>] = R * x
  <2>1. \A x \in Nat \X Nat : R * x[2] \in Nat
    <3>1. \A x \in Nat \X Nat : x[2] \in Nat
      OBVIOUS
    <3> QED
      BY <3>1
  <2>2. \A n, x \in Nat : H[<<n, x>>] = R * x
    OBVIOUS
  <2> QED
    BY <2>1, <2>2
<1> HIDE DEF H
<1>2. PICK f : Upward(Nat, 1, H, f)
  BY <1>1, UpwardExists
<1>3. /\ f \in [Nat -> Nat] /\ f[0] = 1
      /\ \A n \in Nat : f[n + 1] = R * f[n]
  BY <1>1, <1>2 DEF Upward
<1>4. \A n \in Nat : f[n] = IF n = 0 THEN 1 ELSE R * f[n - 1]
  <2> SUFFICES ASSUME NEW n \in Nat, n # 0 PROVE f[n] = R * f[n - 1]
    BY <1>3
  <2>1. n - 1 \in Nat /\ (n - 1) + 1 = n
    OBVIOUS
  <2> QED
    BY <1>3, <2>1
<1>5. f = [n \in Nat |-> f[n]]
  BY <1>3
<1> QED
  BY <1>4, <1>5

LEMMA PowersAre ==
  ASSUME NEW R \in Nat \ {0}, NEW p, p = [n \in Nat |-> IF n = 0 THEN 1 ELSE R * p[n - 1]]
  PROVE  IsPower(R, p)
<1>1. p[0] = 1 /\ \A n \in Nat : p[n + 1] = R * p[n]
  <2>1. \A n \in Nat : p[n] = IF n = 0 THEN 1 ELSE R * p[n - 1]
    OBVIOUS
  <2>2. ASSUME NEW n \in Nat PROVE p[n + 1] = R * p[n]
    <3>1. n + 1 \in Nat /\ n + 1 # 0 /\ (n + 1) - 1 = n
      OBVIOUS
    <3> QED
      BY <2>1, <3>1
  <2> QED
    BY <2>1, <2>2
<1> DEFINE T == {n \in Nat : p[n] \in Nat \ {0}}
<1>2. 0 \in T
  BY <1>1
<1>3. \A n \in Nat : n \in T => n + 1 \in T
  <2>1. \A r, x \in Nat \ {0} : r * x \in Nat \ {0}
    OBVIOUS
  <2> HIDE DEF T
  <2>2. \A n \in Nat : p[n] \in Nat \ {0} => p[n + 1] \in Nat \ {0}
    BY <1>1, <2>1
  <2> QED
    BY <2>2 DEF T
<1>4. Nat \subseteq T
  <2> HIDE DEF T
  <2> QED
    BY <1>2, <1>3, AllNaturals
<1>5. p \in [Nat -> Nat \ {0}]
  BY <1>4
<1> QED
  BY <1>1, <1>5 DEF IsPower

LEMMA PowersGrow ==
  ASSUME NEW R \in Nat, R > 1, NEW p, IsPower(R, p)
  PROVE  /\ \A m, n \in Nat : m < n => p[m] < p[n]
         /\ \A n \in Nat : n < p[n]
<1>1. ASSUME NEW n \in Nat
      PROVE  p[n] \in Nat \ {0} /\ p[n + 1] = R * p[n] /\ p[n + 1] > p[n] /\ p[n + 1] \in Nat
  <2>1. p[n] \in Nat \ {0} /\ p[n + 1] = R * p[n] /\ p[n + 1] \in Nat
    BY DEF IsPower
  <2>2. \A x \in Nat \ {0} : R * x = x + (R - 1) * x /\ (R - 1) * x \in Nat \ {0}
    <3>1. R - 1 \in Nat \ {0}
      OBVIOUS
    <3>2. \A r, x \in Nat \ {0} : r * x \in Nat \ {0}
      OBVIOUS
    <3>3. \A x \in Nat : R * x = x + (R - 1) * x
      OBVIOUS
    <3> QED
      BY <3>1, <3>2, <3>3
  <2> QED
    BY <2>1, <2>2
<1>2. ASSUME NEW m \in Nat PROVE \A n \in Nat : m < n => p[m] < p[n]
  <2> DEFINE T == {n \in Nat : m < n => p[m] < p[n]}
  <2>1. 0 \in T
    OBVIOUS
  <2>2. ASSUME NEW n \in Nat, n \in T PROVE n + 1 \in T
    <3>1. m < n + 1 => m = n \/ m < n
      OBVIOUS
    <3> QED
      BY <1>1, <2>2, <3>1
  <2>3. Nat \subseteq T
    <3> HIDE DEF T
    <3> QED
      BY <2>1, <2>2, AllNaturals
  <2> QED
    BY <2>3
<1>3. \A n \in Nat : n < p[n]
  <2> DEFINE T == {n \in Nat : n < p[n]}
  <2>1. 0 \in T
    BY DEF IsPower
  <2>2. ASSUME NEW n \in Nat, n \in T PROVE n + 1 \in T
    BY <1>1, <2>2
  <2>3. Nat \subseteq T
    <3> HIDE DEF T
    <3> QED
      BY <2>1, <2>2, AllNaturals
  <2> QED
    BY <2>3
<1> QED
  BY <1>2, <1>3

(* The number that digits stand for, the lowest first.                      *)
IsValue(p, d, size, sum) ==
  /\ sum \in [0 .. size -> Nat] /\ sum[0] = 0
  /\ \A i \in Nat : i < size => sum[i + 1] = sum[i] + d[i + 1] * p[i]

IsSumOf(p, d, size, f) ==
  f = [i \in 0 .. size |-> IF i = 0 THEN 0 ELSE f[i - 1] + d[i] * p[i - 1]]

LEMMA ValueExists ==
  ASSUME NEW p \in [Nat -> Nat \ {0}], NEW size \in Nat, NEW d, \A i \in 1 .. size : d[i] \in Nat
  PROVE  \E f : IsSumOf(p, d, size, f)
<1> DEFINE H == [x \in Nat \X Nat |-> IF x[1] < size THEN x[2] + d[x[1] + 1] * p[x[1]] ELSE 0]
<1>1. ASSUME NEW i \in Nat, NEW x \in Nat
      PROVE  /\ H[<<i, x>>] \in Nat
             /\ i < size => H[<<i, x>>] = x + d[i + 1] * p[i]
  <2>1. H[<<i, x>>] = IF i < size THEN x + d[i + 1] * p[i] ELSE 0
    OBVIOUS
  <2>2. i < size => d[i + 1] \in Nat
    OBVIOUS
  <2>3. p[i] \in Nat
    OBVIOUS
  <2> HIDE DEF H
  <2> QED
    BY <2>1, <2>2, <2>3
<1>2. H \in [Nat \X Nat -> Nat]
  <2>1. \A x \in Nat \X Nat : x[1] \in Nat /\ x[2] \in Nat /\ x = <<x[1], x[2]>>
    OBVIOUS
  <2>2. H = [x \in Nat \X Nat |-> H[x]]
    OBVIOUS
  <2> HIDE DEF H
  <2>3. \A x \in Nat \X Nat : H[x] \in Nat
    BY ONLY <1>1, <2>1
  <2> QED
    BY ONLY <2>2, <2>3
<1> HIDE DEF H
<1>3. PICK f : UpTo(Nat, 0, H, size, f)
  BY <1>2, UpToExists
<1>4. /\ f \in [0 .. size -> Nat] /\ f[0] = 0
      /\ \A i \in Nat : i < size => f[i + 1] = f[i] + d[i + 1] * p[i]
  <2>1. f \in [0 .. size -> Nat] /\ f[0] = 0 /\ \A i \in Nat : i < size => f[i + 1] = H[<<i, f[i]>>]
    BY <1>3 DEF UpTo
  <2>2. \A i \in Nat : i < size => f[i] \in Nat
    BY <2>1
  <2> QED
    BY <1>1, <2>1, <2>2
<1>5. ASSUME NEW i \in 0 .. size, i # 0 PROVE f[i] = f[i - 1] + d[i] * p[i - 1]
  <2>1. i - 1 \in Nat /\ i - 1 < size /\ (i - 1) + 1 = i
    BY <1>5
  <2> QED
    BY <1>4, <2>1
<1>6. f = [i \in 0 .. size |-> f[i]]
  BY <1>4
<1>7. f = [i \in 0 .. size |-> IF i = 0 THEN 0 ELSE f[i - 1] + d[i] * p[i - 1]]
  BY ONLY <1>4, <1>5, <1>6
<1> QED
  BY <1>7 DEF IsSumOf

LEMMA SumIsValue ==
  ASSUME NEW p \in [Nat -> Nat \ {0}], NEW size \in Nat, NEW d, \A i \in 1 .. size : d[i] \in Nat,
         NEW f, IsSumOf(p, d, size, f)
  PROVE  IsValue(p, d, size, f)
<1>1. f[0] = 0
  BY DEF IsSumOf
<1>2. ASSUME NEW i \in Nat, i < size PROVE f[i + 1] = f[i] + d[i + 1] * p[i]
  <2>1. i + 1 \in 0 .. size /\ i + 1 # 0 /\ (i + 1) - 1 = i
    BY <1>2
  <2> QED
    BY <2>1 DEF IsSumOf
<1> DEFINE T == {i \in Nat : i <= size => f[i] \in Nat}
<1>3. 0 \in T
  BY <1>1
<1>4. ASSUME NEW i \in Nat, i \in T PROVE i + 1 \in T
  <2> SUFFICES ASSUME i + 1 <= size PROVE f[i + 1] \in Nat
    OBVIOUS
  <2>1. i < size /\ i + 1 \in 1 .. size /\ f[i] \in Nat
    BY <1>4
  <2>2. d[i + 1] \in Nat /\ p[i] \in Nat
    BY <2>1
  <2>3. f[i + 1] = f[i] + d[i + 1] * p[i]
    BY <1>2, <2>1
  <2> QED
    BY <2>1, <2>2, <2>3
<1>5. \A i \in 0 .. size : f[i] \in Nat
  <2> HIDE DEF T
  <2>1. Nat \subseteq T
    BY <1>3, <1>4, AllNaturals
  <2> QED
    BY <2>1 DEF T
<1>6. f = [i \in 0 .. size |-> f[i]]
  BY DEF IsSumOf
<1>7. f \in [0 .. size -> Nat]
  BY <1>5, <1>6
<1> QED
  BY <1>1, <1>2, <1>7 DEF IsValue

(* The digits of a number stand for it, modulo what so many digits hold.    *)
LEMMA ValueOfDigits ==
  ASSUME NEW R \in Nat \ {0}, NEW p, IsPower(R, p), NEW size \in Nat, NEW d, NEW sum, IsValue(p, d, size, sum),
         NEW v \in Int, \A i \in 1 .. size : d[i] = (v \div p[i - 1]) % R
  PROVE  \A i \in 0 .. size : sum[i] = v % p[i]
<1> DEFINE T == {i \in Nat : i <= size => sum[i] = v % p[i]}
<1>1. 0 \in T
  <2>1. v % 1 = 0
    OBVIOUS
  <2> QED
    BY <2>1 DEF IsValue, IsPower
<1>2. ASSUME NEW i \in Nat, i \in T PROVE i + 1 \in T
  <2> SUFFICES ASSUME i + 1 <= size PROVE sum[i + 1] = v % p[i + 1]
    OBVIOUS
  <2>1. i < size /\ i + 1 \in 1 .. size /\ (i + 1) - 1 = i /\ sum[i] = v % p[i]
    BY <1>2
  <2>2. d[i + 1] = (v \div p[i]) % R
    BY <2>1
  <2>3. p[i] \in Nat \ {0} /\ p[i + 1] = R * p[i]
    BY DEF IsPower
  <2>4. v % (R * p[i]) = (v % p[i]) + ((v \div p[i]) % R) * p[i]
    BY <2>3, NextDigit
  <2>5. sum[i + 1] = sum[i] + d[i + 1] * p[i]
    BY <2>1 DEF IsValue
  <2> QED
    BY <2>1, <2>2, <2>3, <2>4, <2>5
<1> HIDE DEF T
<1>3. Nat \subseteq T
  BY <1>1, <1>2, AllNaturals
<1> QED
  BY <1>3 DEF T

(* And a number that is, modulo this, what digits stand for has them.       *)
LEMMA DigitsOfValue ==
  ASSUME NEW R \in Nat \ {0}, NEW p, IsPower(R, p), NEW size \in Nat, NEW d, NEW sum, IsValue(p, d, size, sum),
         \A i \in 1 .. size : d[i] \in 0 .. R - 1
  PROVE  /\ \A i \in 0 .. size : sum[i] \in 0 .. p[i] - 1
         /\ \A v \in Int : v % p[size] = sum[size] => \A i \in 1 .. size : d[i] = (v \div p[i - 1]) % R
<1>1. ASSUME NEW i \in Nat, i < size
      PROVE  /\ sum[i] \in Nat /\ sum[i + 1] = sum[i] + d[i + 1] * p[i]
             /\ d[i + 1] \in Nat /\ d[i + 1] <= R - 1
             /\ p[i] \in Nat \ {0} /\ p[i + 1] = R * p[i]
  <2>1. i \in 0 .. size /\ i + 1 \in 1 .. size
    BY <1>1
  <2>2. d[i + 1] \in 0 .. R - 1
    BY <2>1
  <2>3. sum[i] \in Nat /\ sum[i + 1] = sum[i] + d[i + 1] * p[i]
    BY <1>1, <2>1 DEF IsValue
  <2>4. p[i] \in Nat \ {0} /\ p[i + 1] = R * p[i]
    BY DEF IsPower
  <2> QED
    BY <2>2, <2>3, <2>4
<1> DEFINE T == {i \in Nat : i <= size => sum[i] \in 0 .. p[i] - 1}
<1>2. 0 \in T
  <2>1. sum[0] = 0 /\ p[0] = 1 /\ 0 \in 0 .. 1 - 1
    BY DEF IsValue, IsPower
  <2>2. sum[0] \in 0 .. p[0] - 1
    BY <2>1
  <2> QED
    BY <2>2
<1>3. ASSUME NEW i \in Nat, i \in T PROVE i + 1 \in T
  <2> SUFFICES ASSUME i + 1 <= size PROVE sum[i + 1] \in 0 .. p[i + 1] - 1
    OBVIOUS
  <2>1. i < size /\ sum[i] \in 0 .. p[i] - 1
    BY <1>3
  <2> DEFINE P == p[i]
             b == d[i + 1]
  <2>2. /\ sum[i + 1] = sum[i] + b * P /\ b \in Nat /\ b <= R - 1 /\ P \in Nat \ {0}
        /\ p[i + 1] = R * P /\ sum[i] \in 0 .. P - 1
    BY <1>1, <2>1
  <2> HIDE DEF P, b
  <2>3. b * P \in Nat /\ b * P <= (R - 1) * P /\ (R - 1) * P = R * P - P /\ R * P \in Nat
    <3>1. (R - 1) - b \in Nat /\ R - 1 = b + ((R - 1) - b)
      BY <2>2
    <3>2. ((R - 1) - b) * P \in Nat /\ b * P \in Nat /\ R * P \in Nat
      BY <2>2, <3>1
    <3>3. (R - 1) * P = b * P + ((R - 1) - b) * P /\ (R - 1) * P = R * P - P
      BY <2>2, <3>1
    <3> QED
      BY <3>2, <3>3
  <2> QED
    BY <2>2, <2>3
<1>4. \A i \in 0 .. size : sum[i] \in 0 .. p[i] - 1
  <2> HIDE DEF T
  <2>1. Nat \subseteq T
    BY <1>2, <1>3, AllNaturals
  <2> QED
    BY <2>1 DEF T
<1>5. ASSUME NEW v \in Int, v % p[size] = sum[size] PROVE \A i \in 1 .. size : d[i] = (v \div p[i - 1]) % R
  <2>1. ASSUME NEW i \in Nat, i < size, v % p[i + 1] = sum[i + 1]
        PROVE  v % p[i] = sum[i] /\ d[i + 1] = (v \div p[i]) % R
    <3> DEFINE P == p[i]
               b == d[i + 1]
               e == (v \div P) % R
               r == v % P
    <3>1. /\ sum[i + 1] = sum[i] + b * P /\ b \in Nat /\ P \in Nat \ {0} /\ p[i + 1] = R * P
          /\ sum[i] \in 0 .. P - 1
      BY <1>1, <1>4, <2>1
    <3>2. v % (R * P) = r + e * P
      BY <3>1, NextDigit
    <3>3. r \in 0 .. P - 1 /\ e \in Int
      <4> HIDE DEF P
      <4>1. v \div P \in Int /\ v % P \in 0 .. P - 1
        BY <3>1
      <4> QED
        BY <4>1
    <3>4. WithDigit(r, e, P) = WithDigit(sum[i], b, P)
      BY <2>1, <3>1, <3>2 DEF WithDigit
    <3> HIDE DEF r, e, P, b
    <3>5. r = sum[i] /\ e = b
      BY <3>1, <3>3, <3>4, SameDigit
    <3> QED
      BY <3>5 DEF r, e, P, b
  <2> DEFINE U == {j \in Nat : j <= size => v % p[size - j] = sum[size - j]}
  <2>2. 0 \in U
    BY <1>5
  <2>3. ASSUME NEW j \in Nat, j \in U PROVE j + 1 \in U
    <3> SUFFICES ASSUME j + 1 <= size PROVE v % p[size - (j + 1)] = sum[size - (j + 1)]
      OBVIOUS
    <3> DEFINE i == size - (j + 1)
    <3>1. i \in Nat /\ i < size /\ i + 1 = size - j
      OBVIOUS
    <3>2. v % p[i + 1] = sum[i + 1]
      BY <2>3, <3>1
    <3> HIDE DEF i
    <3>3. v % p[i] = sum[i]
      BY <2>1, <3>1, <3>2
    <3> QED
      BY <3>3 DEF i
  <2> HIDE DEF U
  <2>4. Nat \subseteq U
    BY <2>2, <2>3, AllNaturals
  <2>5. ASSUME NEW i \in 1 .. size PROVE d[i] = (v \div p[i - 1]) % R
    <3>1. i - 1 \in Nat /\ i - 1 < size /\ (i - 1) + 1 = i /\ size - i \in Nat /\ size - i <= size
          /\ size - (size - i) = i
      OBVIOUS
    <3>2. v % p[i] = sum[i]
      BY <2>4, <3>1 DEF U
    <3> QED
      BY <2>1, <3>1, <3>2
  <2> QED
    BY <2>5
<1> QED
  BY <1>4, <1>5

-----------------------------------------------------------------------------
(* A part of a sequence, behind a place.                                    *)
Holds(bytes, pos, part) ==
  pos + Len(part) <= Len(bytes) /\ \A i \in 1 .. Len(part) : bytes[pos + i] = part[i]

LEMMA ConcatFacts ==
  ASSUME NEW S, NEW s \in Seq(S), NEW t \in Seq(S)
  PROVE  /\ s \o t \in Seq(S) /\ Len(s) \in Nat /\ Len(t) \in Nat
         /\ Len(s \o t) = Len(s) + Len(t)
         /\ \A i \in 1 .. Len(s) : (s \o t)[i] = s[i]
         /\ \A i \in 1 .. Len(t) : (s \o t)[Len(s) + i] = t[i]
<1>1. Len(s) \in Nat /\ Len(t) \in Nat
  OBVIOUS
<1>2. /\ s \o t \in Seq(S) /\ Len(s \o t) = Len(s) + Len(t)
      /\ \A i \in 1 .. Len(s) + Len(t) : (s \o t)[i] = IF i <= Len(s) THEN s[i] ELSE t[i - Len(s)]
  BY ConcatProperties
<1>3. ASSUME NEW i \in 1 .. Len(s) PROVE (s \o t)[i] = s[i]
  BY <1>1, <1>2
<1>4. ASSUME NEW i \in 1 .. Len(t) PROVE (s \o t)[Len(s) + i] = t[i]
  <2>1. Len(s) + i \in 1 .. Len(s) + Len(t) /\ ~(Len(s) + i <= Len(s)) /\ (Len(s) + i) - Len(s) = i
    BY <1>1
  <2> QED
    BY <1>2, <2>1
<1> QED
  BY <1>1, <1>2, <1>3, <1>4

LEMMA ConcatOne ==
  ASSUME NEW S, NEW s \in Seq(S), NEW x \in S
  PROVE  /\ s \o <<x>> \in Seq(S) /\ Len(s \o <<x>>) = Len(s) + 1
         /\ \A i \in 1 .. Len(s) : (s \o <<x>>)[i] = s[i]
         /\ (s \o <<x>>)[Len(s) + 1] = x
<1> DEFINE t == <<x>>
<1>1. t \in Seq(S) /\ Len(t) = 1 /\ t[1] = x
  OBVIOUS
<1> HIDE DEF t
<1>2. /\ s \o t \in Seq(S) /\ Len(s \o t) = Len(s) + Len(t)
      /\ \A i \in 1 .. Len(s) : (s \o t)[i] = s[i]
      /\ \A i \in 1 .. Len(t) : (s \o t)[Len(s) + i] = t[i]
  BY <1>1, ConcatFacts
<1>3. 1 \in 1 .. Len(t)
  BY <1>1
<1>4. Len(s \o t) = Len(s) + 1 /\ (s \o t)[Len(s) + 1] = x
  BY <1>1, <1>2, <1>3
<1> QED
  BY <1>2, <1>4 DEF t

LEMMA HoldsConcat ==
  ASSUME NEW S, NEW bytes \in Seq(S), NEW pos \in Nat, NEW s \in Seq(S), NEW t \in Seq(S)
  PROVE  Holds(bytes, pos, s \o t) <=> Holds(bytes, pos, s) /\ Holds(bytes, pos + Len(s), t)
<1>1. /\ Len(s) \in Nat /\ Len(t) \in Nat /\ Len(bytes) \in Nat
      /\ Len(s \o t) = Len(s) + Len(t)
      /\ \A i \in 1 .. Len(s) : (s \o t)[i] = s[i]
      /\ \A i \in 1 .. Len(t) : (s \o t)[Len(s) + i] = t[i]
  BY ConcatFacts
<1>2. ASSUME Holds(bytes, pos, s \o t)
      PROVE  Holds(bytes, pos, s) /\ Holds(bytes, pos + Len(s), t)
  <2>1. pos + (Len(s) + Len(t)) <= Len(bytes) /\ \A i \in 1 .. Len(s) + Len(t) : bytes[pos + i] = (s \o t)[i]
    BY <1>1, <1>2 DEF Holds
  <2>2. ASSUME NEW i \in 1 .. Len(s) PROVE bytes[pos + i] = s[i]
    <3>1. i \in 1 .. Len(s) + Len(t)
      BY <1>1
    <3> QED
      BY <1>1, <2>1, <3>1
  <2>3. ASSUME NEW i \in 1 .. Len(t) PROVE bytes[(pos + Len(s)) + i] = t[i]
    <3>1. Len(s) + i \in 1 .. Len(s) + Len(t) /\ pos + (Len(s) + i) = (pos + Len(s)) + i
      BY <1>1
    <3>2. bytes[pos + (Len(s) + i)] = (s \o t)[Len(s) + i]
      BY <2>1, <3>1
    <3> QED
      BY <1>1, <3>1, <3>2
  <2> QED
    BY <1>1, <2>1, <2>2, <2>3 DEF Holds
<1>3. ASSUME Holds(bytes, pos, s), Holds(bytes, pos + Len(s), t)
      PROVE  Holds(bytes, pos, s \o t)
  <2>1. ASSUME NEW i \in 1 .. Len(s) + Len(t) PROVE bytes[pos + i] = (s \o t)[i]
    <3>1. CASE i <= Len(s)
      <4>1. i \in 1 .. Len(s)
        BY <3>1
      <4>2. bytes[pos + i] = s[i]
        BY <1>3, <4>1 DEF Holds
      <4>3. (s \o t)[i] = s[i]
        BY <1>1, <4>1
      <4> QED
        BY <4>2, <4>3
    <3>2. CASE ~(i <= Len(s))
      <4> DEFINE j == i - Len(s)
      <4>1. j \in 1 .. Len(t) /\ i = Len(s) + j /\ pos + i = (pos + Len(s)) + j
        BY <1>1, <3>2
      <4> HIDE DEF j
      <4>2. bytes[(pos + Len(s)) + j] = t[j] /\ (s \o t)[Len(s) + j] = t[j]
        BY <1>1, <1>3, <4>1 DEF Holds
      <4> QED
        BY <4>1, <4>2
    <3> QED
      BY <3>1, <3>2
  <2> QED
    BY <1>1, <1>3, <2>1 DEF Holds
<1> QED
  BY <1>2, <1>3

LEMMA HoldsPart ==
  ASSUME NEW S, NEW bytes \in Seq(S), NEW pos \in Nat, NEW n \in Nat, pos + n <= Len(bytes)
  PROVE  LET s == SubSeq(bytes, pos + 1, pos + n)
         IN  /\ s \in Seq(S) /\ Len(s) = n /\ Holds(bytes, pos, s)
             /\ \A t \in Seq(S) : Len(t) = n /\ Holds(bytes, pos, t) => s = t
<1> DEFINE s == SubSeq(bytes, pos + 1, pos + n)
<1>1. Len(bytes) \in Nat /\ \A i \in 1 .. n : bytes[pos + i] \in S
  <2>1. Len(bytes) \in Nat /\ \A i \in 1 .. n : pos + i \in 1 .. Len(bytes)
    OBVIOUS
  <2> QED
    BY <2>1, ElementOfSeq
<1>2. \A i \in pos + 1 .. pos + n : bytes[i] \in S
  <2>1. Len(bytes) \in Nat /\ \A i \in pos + 1 .. pos + n : i \in 1 .. Len(bytes)
    OBVIOUS
  <2> QED
    BY <2>1, ElementOfSeq
<1>3. /\ s \in Seq(S)
      /\ Len(s) = IF pos + 1 <= pos + n THEN (pos + n) - (pos + 1) + 1 ELSE 0
      /\ \A i \in 1 .. (pos + n) - (pos + 1) + 1 : s[i] = bytes[pos + 1 + i - 1]
  <2>1. pos + 1 \in Int /\ pos + n \in Int
    OBVIOUS
  <2> QED
    BY ONLY <1>2, <2>1, SubSeqProperties
<1> HIDE DEF s
<1>4. Len(s) = n /\ \A i \in 1 .. n : s[i] = bytes[pos + i]
  <2>1. Len(s) = n
    BY <1>3
  <2>2. ASSUME NEW i \in 1 .. n PROVE s[i] = bytes[pos + i]
    <3>1. i \in 1 .. (pos + n) - (pos + 1) + 1 /\ pos + 1 + i - 1 = pos + i
      OBVIOUS
    <3> QED
      BY <1>3, <3>1
  <2> QED
    BY <2>1, <2>2
<1>5. Holds(bytes, pos, s)
  BY <1>4 DEF Holds
<1>6. ASSUME NEW t \in Seq(S), Len(t) = n, Holds(bytes, pos, t) PROVE s = t
  <2>1. \A i \in 1 .. Len(s) : s[i] = t[i]
    BY <1>4, <1>6 DEF Holds
  <2> QED
    BY ONLY <1>3, <1>4, <1>6, <2>1, SeqEqual
<1> QED
  BY <1>3, <1>4, <1>5, <1>6 DEF s

(* A part of a part.                                                        *)
SamePart(bytes, pos, part, a, b) == SubSeq(bytes, pos + a, pos + b) = SubSeq(part, a, b)

LEMMA HoldsSubSeq ==
  ASSUME NEW S, NEW bytes \in Seq(S), NEW pos \in Nat, NEW part \in Seq(S), Holds(bytes, pos, part),
         NEW a \in Nat \ {0}, NEW b \in Nat, b <= Len(part)
  PROVE  SamePart(bytes, pos, part, a, b)
<1> DEFINE c == pos + a
           d == pos + b
           s == SubSeq(bytes, c, d)
           t == SubSeq(part, a, b)
<1>1. /\ Len(part) \in Nat /\ Len(bytes) \in Nat /\ pos + Len(part) <= Len(bytes)
      /\ \A i \in 1 .. Len(part) : bytes[pos + i] = part[i] /\ part[i] \in S
  BY ElementOfSeq DEF Holds
<1>2. \A i \in pos + a .. pos + b : bytes[i] \in S
  <2>1. \A i \in pos + a .. pos + b : i \in 1 .. Len(bytes)
    BY <1>1
  <2> QED
    BY <2>1, ElementOfSeq
<1>3. \A i \in a .. b : part[i] \in S
  BY <1>1
<1>4. /\ s \in Seq(S) /\ Len(s) = IF a <= b THEN b - a + 1 ELSE 0
      /\ \A i \in 1 .. b - a + 1 : s[i] = bytes[pos + (a + i - 1)]
  <2>1. pos + a \in Int /\ pos + b \in Int
    OBVIOUS
  <2>2. /\ s \in Seq(S) /\ Len(s) = IF pos + a <= pos + b THEN (pos + b) - (pos + a) + 1 ELSE 0
        /\ \A i \in 1 .. (pos + b) - (pos + a) + 1 : s[i] = bytes[pos + a + i - 1]
    <3>1. c \in Int /\ d \in Int /\ \A i \in c .. d : bytes[i] \in S
      BY <1>2
    <3> HIDE DEF c, d
    <3>2. /\ SubSeq(bytes, c, d) \in Seq(S) /\ Len(SubSeq(bytes, c, d)) = IF c <= d THEN d - c + 1 ELSE 0
          /\ \A i \in 1 .. d - c + 1 : SubSeq(bytes, c, d)[i] = bytes[c + i - 1]
      BY ONLY <3>1, SubSeqProperties
    <3> QED
      BY <3>2 DEF c, d
  <2>3. (pos + b) - (pos + a) + 1 = b - a + 1 /\ \A i \in Int : pos + a + i - 1 = pos + (a + i - 1)
    OBVIOUS
  <2>4. pos + a <= pos + b <=> a <= b
    OBVIOUS
  <2> HIDE DEF s
  <2>5. ASSUME NEW i \in 1 .. b - a + 1 PROVE s[i] = bytes[pos + (a + i - 1)]
    <3>1. s[i] = bytes[pos + a + i - 1] /\ i \in Int
      BY <2>2, <2>3
    <3> QED
      BY ONLY <2>3, <3>1
  <2> QED
    BY <2>2, <2>3, <2>4, <2>5
<1>5. /\ t \in Seq(S) /\ Len(t) = IF a <= b THEN b - a + 1 ELSE 0
      /\ \A i \in 1 .. b - a + 1 : t[i] = part[a + i - 1]
  <2>1. a \in Int /\ b \in Int
    OBVIOUS
  <2> QED
    BY ONLY <1>3, <2>1, SubSeqProperties
<1> HIDE DEF s, t
<1>6. Len(s) = Len(t)
  BY <1>4, <1>5
<1>7. ASSUME NEW i \in 1 .. Len(s) PROVE s[i] = t[i]
  <2>1. i \in 1 .. b - a + 1 /\ a + i - 1 \in 1 .. Len(part)
    BY <1>1, <1>4
  <2> QED
    BY <1>1, <1>4, <1>5, <2>1
<1>8. s = t
  BY ONLY <1>4, <1>5, <1>6, <1>7, SeqEqual
<1> QED
  BY <1>8 DEF s, t, SamePart

-----------------------------------------------------------------------------
(* Sequences one after the other.                                           *)
IsFlat(S, s, f) ==
  /\ f \in [0 .. Len(s) -> Seq(S)] /\ f[0] = <<>>
  /\ \A i \in Nat : i < Len(s) => f[i + 1] = f[i] \o s[i + 1]

LEMMA FlatExists ==
  ASSUME NEW S, NEW s \in Seq(Seq(S))
  PROVE  \E f : IsFlat(S, s, f) /\ FlattenSeq(s) = f[Len(s)]
<1> DEFINE n == Len(s)
           H == [x \in Nat \X Seq(S) |-> IF x[1] < n THEN x[2] \o s[x[1] + 1] ELSE <<>>]
<1>1. n \in Nat /\ \A i \in 1 .. n : s[i] \in Seq(S)
  BY ElementOfSeq
<1>2. <<>> \in Seq(S) /\ \A x, y \in Seq(S) : x \o y \in Seq(S)
  BY ConcatProperties
<1>3. \A i \in Nat : \A x \in Seq(S) : H[<<i, x>>] = IF i < n THEN x \o s[i + 1] ELSE <<>>
  OBVIOUS
<1>4. \A i \in Nat : \A x \in Seq(S) : H[<<i, x>>] \in Seq(S)
  <2> SUFFICES ASSUME NEW i \in Nat, NEW x \in Seq(S) PROVE H[<<i, x>>] \in Seq(S)
    OBVIOUS
  <2>1. i < n => i + 1 \in 1 .. n
    BY <1>1
  <2> HIDE DEF H, n
  <2> QED
    BY <1>1, <1>2, <1>3, <2>1
<1>5. H \in [Nat \X Seq(S) -> Seq(S)]
  <2>1. H = [x \in Nat \X Seq(S) |-> H[x]]
    OBVIOUS
  <2>2. \A x \in Nat \X Seq(S) : x[1] \in Nat /\ x[2] \in Seq(S) /\ x = <<x[1], x[2]>>
    OBVIOUS
  <2> HIDE DEF H
  <2>3. \A x \in Nat \X Seq(S) : H[x] \in Seq(S)
    BY ONLY <1>4, <2>2
  <2> QED
    BY ONLY <2>1, <2>3
<1> HIDE DEF H
<1>6. PICK f : UpTo(Seq(S), <<>>, H, n, f)
  BY ONLY <1>1, <1>2, <1>5, UpToExists
<1>7. f \in [0 .. n -> Seq(S)] /\ f[0] = <<>> /\ \A i \in Nat : i < n => f[i + 1] = f[i] \o s[i + 1]
  <2>1. f \in [0 .. n -> Seq(S)] /\ f[0] = <<>> /\ \A i \in Nat : i < n => f[i + 1] = H[<<i, f[i]>>]
    BY ONLY <1>6 DEF UpTo
  <2> HIDE DEF n
  <2>2. \A i \in Nat : i < n => f[i] \in Seq(S)
    <3>1. \A i \in Nat : i < n => i \in 0 .. n
      BY <1>1
    <3> QED
      BY ONLY <2>1, <3>1
  <2> QED
    BY ONLY <1>3, <2>1, <2>2
<1>8. IsFlat(S, s, f)
  BY <1>7 DEF IsFlat
<1>9. CASE n = 0
  <2>1. s = <<>> /\ FlattenSeq(s) = s
    BY <1>9 DEF FlattenSeq
  <2> QED
    BY <1>7, <1>8, <1>9, <2>1
<1>10. CASE n # 0
  <2> DEFINE g == [i \in 1 .. n |-> f[i]]
             flatten[i \in 1 .. n] == IF i = 1 THEN s[i] ELSE flatten[i - 1] \o s[i]
  <2>1. g = [i \in 1 .. n |-> IF i = 1 THEN s[i] ELSE g[i - 1] \o s[i]]
    <3>1. ASSUME NEW i \in 1 .. n PROVE f[i] = IF i = 1 THEN s[i] ELSE g[i - 1] \o s[i]
      <4>1. i - 1 \in Nat /\ i - 1 < n /\ (i - 1) + 1 = i
        BY <1>1
      <4>2. f[i] = f[i - 1] \o s[i]
        BY <1>7, <4>1
      <4>3. CASE i = 1
        <5>1. f[1] = f[0] \o s[1] /\ s[1] \in Seq(S)
          <6>1. i - 1 = 0 /\ 1 \in 1 .. n
            BY <4>3
          <6> QED
            BY ONLY <1>1, <4>2, <4>3, <6>1
        <5>2. f[1] = <<>> \o s[1]
          BY ONLY <1>7, <5>1
        <5> QED
          BY <4>3, <5>1, <5>2, ConcatEmptySeq
      <4>4. CASE i # 1
        <5>1. i - 1 \in 1 .. n
          BY <1>1, <4>4
        <5>2. g[i - 1] = f[i - 1]
          BY <5>1
        <5> HIDE DEF g
        <5> QED
          BY ONLY <4>2, <4>4, <5>2
      <4> QED
        BY <4>3, <4>4
    <3> QED
      BY <3>1
  <2> HIDE DEF g
  <2>2. flatten = [i \in 1 .. n |-> IF i = 1 THEN s[i] ELSE flatten[i - 1] \o s[i]]
    BY ONLY <2>1
  <2>3. FlattenSeq(s) = flatten[n]
    BY <1>10 DEF FlattenSeq
  <2> HIDE DEF flatten, n
  <2> DEFINE T == {i \in Nat : i \in 1 .. n => flatten[i] = f[i]}
  <2>4. 0 \in T
    OBVIOUS
  <2>5. ASSUME NEW i \in Nat, i \in T PROVE i + 1 \in T
    <3> SUFFICES ASSUME i + 1 \in 1 .. n PROVE flatten[i + 1] = f[i + 1]
      OBVIOUS
    <3>0. i < n /\ (i + 1) - 1 = i /\ i + 1 \in 1 .. n
      BY <1>1
    <3>1. i < n /\ (i + 1) - 1 = i /\ f[i + 1] = f[i] \o s[i + 1] /\ s[i + 1] \in Seq(S)
      BY ONLY <1>1, <1>7, <3>0, i \in Nat
    <3>2. flatten[i + 1] = IF i + 1 = 1 THEN s[i + 1] ELSE flatten[(i + 1) - 1] \o s[i + 1]
      BY <2>2
    <3>3. CASE i = 0
      <4>0. i + 1 = 1
        BY <3>3
      <4>1. f[1] = <<>> \o s[1] /\ s[1] \in Seq(S) /\ flatten[1] = s[1]
        BY ONLY <1>7, <3>1, <3>2, <3>3, <4>0
      <4> QED
        BY <3>3, <4>1, ConcatEmptySeq
    <3>4. CASE i # 0
      <4>1. i + 1 # 1 /\ i \in 1 .. n
        BY <1>1, <3>0, <3>4
      <4>2. flatten[i] = f[i]
        BY <2>5, <4>1
      <4> QED
        BY ONLY <3>1, <3>2, <4>1, <4>2
    <3> QED
      BY <3>3, <3>4
  <2> HIDE DEF T
  <2>6. Nat \subseteq T
    BY <2>4, <2>5, AllNaturals
  <2>7. flatten[n] = f[n]
    BY <1>1, <1>10, <2>6 DEF T
  <2> QED
    BY <1>8, <2>3, <2>7 DEF n
<1> QED
  BY <1>9, <1>10

(* A part that is there is there piece by piece.                            *)
FlatIn(S, bytes, pos, s, f) ==
  /\ Len(s) \in Nat /\ f[0] = <<>> /\ \A i \in 0 .. Len(s) : f[i] \in Seq(S) /\ Len(f[i]) \in Nat
  /\ \A i \in Nat : i < Len(s) => /\ s[i + 1] \in Seq(S) /\ Len(s[i + 1]) \in Nat
                                  /\ Holds(bytes, pos + Len(f[i]), s[i + 1])
                                  /\ Len(f[i + 1]) = Len(f[i]) + Len(s[i + 1])

LEMMA FlatHolds ==
  ASSUME NEW S, NEW s \in Seq(Seq(S)), NEW f, IsFlat(S, s, f),
         NEW bytes \in Seq(S), NEW pos \in Nat, Holds(bytes, pos, f[Len(s)])
  PROVE  FlatIn(S, bytes, pos, s, f)
<1> DEFINE n == Len(s)
<1>1. n \in Nat /\ \A i \in 1 .. n : s[i] \in Seq(S)
  BY ElementOfSeq
<1>2. /\ \A i \in 0 .. n : f[i] \in Seq(S)
      /\ f[0] = <<>> /\ \A i \in Nat : i < n => f[i + 1] = f[i] \o s[i + 1]
  BY DEF IsFlat
<1>3. Holds(bytes, pos, f[n])
  OBVIOUS
<1> HIDE DEF n
<1>4. \A i \in 0 .. n : Holds(bytes, pos, f[i])
  <2> DEFINE T == {i \in 0 .. n : Holds(bytes, pos, f[i])}
  <2>1. n \in T
    BY <1>1, <1>3
  <2>2. ASSUME NEW i \in 0 .. n - 1, i + 1 \in T PROVE i \in T
    <3>1. i \in Nat /\ i < n /\ i \in 0 .. n /\ i + 1 \in 1 .. n
      BY <1>1
    <3>2. f[i] \in Seq(S) /\ f[i + 1] = f[i] \o s[i + 1] /\ s[i + 1] \in Seq(S)
      BY <1>1, <1>2, <3>1
    <3>3. Holds(bytes, pos, f[i] \o s[i + 1])
      BY <2>2, <3>2
    <3> QED
      BY <3>1, <3>2, <3>3, HoldsConcat
  <2> HIDE DEF T
  <2>3. 0 .. n \subseteq T
    BY <1>1, <2>1, <2>2, Backwards
  <2> QED
    BY <2>3 DEF T
<1>5. ASSUME NEW i \in Nat, i < n
      PROVE  /\ s[i + 1] \in Seq(S) /\ Len(s[i + 1]) \in Nat
             /\ Holds(bytes, pos + Len(f[i]), s[i + 1]) /\ Len(f[i + 1]) = Len(f[i]) + Len(s[i + 1])
  <2>1. i \in 0 .. n /\ i + 1 \in 0 .. n /\ i + 1 \in 1 .. n
    BY <1>1, <1>5
  <2>2. f[i] \in Seq(S) /\ f[i + 1] = f[i] \o s[i + 1] /\ s[i + 1] \in Seq(S)
    BY <1>1, <1>2, <1>5, <2>1
  <2>3. Holds(bytes, pos, f[i] \o s[i + 1])
    BY <1>4, <2>1, <2>2
  <2>4. Holds(bytes, pos + Len(f[i]), s[i + 1])
    BY ONLY <2>2, <2>3, HoldsConcat, bytes \in Seq(S), pos \in Nat
  <2>5. /\ Len(f[i]) \in Nat /\ Len(s[i + 1]) \in Nat
        /\ Len(f[i] \o s[i + 1]) = Len(f[i]) + Len(s[i + 1])
    BY ONLY <2>2, ConcatFacts
  <2> QED
    BY <2>2, <2>4, <2>5
<1>6. \A i \in 0 .. n : f[i] \in Seq(S) /\ Len(f[i]) \in Nat
  BY <1>2
<1> QED
  BY <1>1, <1>2, <1>5, <1>6 DEF FlatIn, n

(* What is in none of the first pieces is not in front of the next one.     *)
LEMMA FlatLacks ==
  ASSUME NEW S, NEW bytes \in Seq(S), NEW s, NEW f, FlatIn(S, bytes, 0, s, f), NEW x,
         NEW m \in Nat, m <= Len(s), \A j \in 1 .. m : \A k \in 1 .. Len(s[j]) : s[j][k] # x
  PROVE  \A p \in 1 .. Len(f[m]) : bytes[p] # x
<1> DEFINE T == {i \in Nat : i <= m => \A p \in 1 .. Len(f[i]) : bytes[p] # x}
<1>1. 0 \in T
  <2>1. Len(f[0]) = 0
    BY DEF FlatIn
  <2> QED
    BY <2>1
<1>2. ASSUME NEW i \in Nat, i \in T PROVE i + 1 \in T
  <2> SUFFICES ASSUME i + 1 <= m, NEW p \in 1 .. Len(f[i + 1]) PROVE bytes[p] # x
    OBVIOUS
  <2>1. /\ Len(s) \in Nat /\ i < Len(s) /\ i \in 0 .. Len(s) /\ i + 1 \in 1 .. m
        /\ \A q \in 1 .. Len(f[i]) : bytes[q] # x
    BY <1>2 DEF FlatIn
  <2>2. /\ Len(f[i]) \in Nat /\ Len(s[i + 1]) \in Nat /\ Holds(bytes, 0 + Len(f[i]), s[i + 1])
        /\ Len(f[i + 1]) = Len(f[i]) + Len(s[i + 1])
    BY <2>1 DEF FlatIn
  <2>3. CASE p <= Len(f[i])
    BY <2>1, <2>2, <2>3
  <2>4. CASE ~(p <= Len(f[i]))
    <3> DEFINE k == p - Len(f[i])
    <3>1. k \in 1 .. Len(s[i + 1]) /\ p = (0 + Len(f[i])) + k
      <4> DEFINE u == Len(f[i])
                 v == Len(s[i + 1])
      <4>1. u \in Nat /\ v \in Nat /\ p \in 1 .. u + v /\ ~(p <= u)
        BY <2>2, <2>4
      <4> HIDE DEF u, v
      <4>2. p - u \in 1 .. v /\ p = (0 + u) + (p - u)
        BY ONLY <4>1
      <4> QED
        BY <4>2 DEF u, v
    <3> HIDE DEF k
    <3>2. bytes[(0 + Len(f[i])) + k] = s[i + 1][k]
      BY <2>2, <3>1 DEF Holds
    <3>3. s[i + 1][k] # x
      BY <2>1, <3>1
    <3> QED
      BY <3>1, <3>2, <3>3
  <2> QED
    BY <2>3, <2>4
<1> HIDE DEF T
<1>3. Nat \subseteq T
  BY <1>1, <1>2, AllNaturals
<1> QED
  BY <1>3 DEF T

(* Parts and neighbours of a sequence.                                      *)
LEMMA SubSeqIs ==
  ASSUME NEW S, NEW t \in Seq(S), NEW a \in Nat \ {0}, NEW b \in Nat, b <= Len(t)
  PROVE  /\ SubSeq(t, a, b) \in Seq(S)
         /\ Len(SubSeq(t, a, b)) = IF a <= b THEN b - a + 1 ELSE 0
         /\ \A i \in 1 .. b - a + 1 : SubSeq(t, a, b)[i] = t[a + i - 1]
<1>1. \A i \in a .. b : t[i] \in S
  <2>1. \A i \in a .. b : i \in 1 .. Len(t)
    OBVIOUS
  <2> QED
    BY <2>1, ElementOfSeq
<1>2. a \in Int /\ b \in Int
  OBVIOUS
<1> QED
  BY ONLY <1>1, <1>2, SubSeqProperties

LEMMA FrontAndLast ==
  ASSUME NEW S, NEW d \in Seq(S), d # <<>>
  PROVE  /\ Front(d) \in Seq(S) /\ Last(d) \in S /\ d = Append(Front(d), Last(d))
         /\ Len(d) \in Nat /\ Len(d) > 0 /\ Len(Front(d)) = Len(d) - 1
         /\ Last(d) = d[Len(d)] /\ \A i \in 1 .. Len(d) - 1 : Front(d)[i] = d[i]
<1> DEFINE n == Len(d) - 1
           f == SubSeq(d, 1, n)
<1>1. Len(d) \in Nat /\ Len(d) > 0 /\ n \in Nat /\ n <= Len(d) /\ 1 \in Nat \ {0} /\ Len(d) \in 1 .. Len(d)
  BY EmptySeq
<1>2. Front(d) = f /\ Last(d) = d[Len(d)] /\ d[Len(d)] \in S
  BY <1>1, ElementOfSeq DEF Front, Last
<1>3. f \in Seq(S) /\ Len(f) = n /\ \A i \in 1 .. n : f[i] = d[i]
  <2> HIDE DEF n
  <2>1. /\ f \in Seq(S) /\ Len(f) = IF 1 <= n THEN n - 1 + 1 ELSE 0
        /\ \A i \in 1 .. n - 1 + 1 : f[i] = d[1 + i - 1]
    BY ONLY <1>1, SubSeqIs, d \in Seq(S)
  <2> HIDE DEF f
  <2>2. Len(f) = n
    BY <1>1, <2>1
  <2>3. ASSUME NEW i \in 1 .. n PROVE f[i] = d[i]
    <3>1. i \in 1 .. n - 1 + 1 /\ 1 + i - 1 = i
      BY <1>1
    <3> QED
      BY <2>1, <3>1
  <2> QED
    BY <2>1, <2>2, <2>3
<1> HIDE DEF f
<1> DEFINE x == d[Len(d)]
           e == Append(f, x)
<1>4. /\ e \in Seq(S) /\ Len(e) = n + 1 /\ e[n + 1] = x /\ \A i \in 1 .. n : e[i] = f[i]
  BY <1>2, <1>3, AppendProperties
<1> HIDE DEF e
<1>5. Len(e) = Len(d) /\ \A i \in 1 .. Len(e) : e[i] = d[i]
  <2>1. n + 1 = Len(d)
    BY <1>1
  <2> HIDE DEF n
  <2>2. \A i \in 1 .. n + 1 : i \in 1 .. n \/ i = n + 1
    BY <1>1
  <2> QED
    BY <1>3, <1>4, <2>1, <2>2
<1>6. d = e
  BY <1>4, <1>5, SeqEqual
<1> QED
  BY <1>1, <1>2, <1>3, <1>6 DEF e

LEMMA InsertedIs ==
  ASSUME NEW S, NEW s \in Seq(S), NEW i \in 1 .. Len(s) + 1, NEW x \in S
  PROVE  InsertAt(s, i, x) \in Seq(S)
<1>1. i - 1 \in Nat /\ i - 1 <= Len(s) /\ i \in Nat \ {0} /\ Len(s) \in Nat /\ 1 \in Nat \ {0}
  OBVIOUS
<1>2. SubSeq(s, 1, i - 1) \in Seq(S) /\ SubSeq(s, i, Len(s)) \in Seq(S)
  <2> DEFINE m == i - 1
             n == Len(s)
  <2>1. m \in Nat /\ m <= Len(s) /\ n \in Nat /\ n <= Len(s)
    BY <1>1
  <2> HIDE DEF m, n
  <2>2. SubSeq(s, 1, m) \in Seq(S) /\ SubSeq(s, i, n) \in Seq(S)
    BY ONLY <1>1, <2>1, SubSeqIs, s \in Seq(S)
  <2> QED
    BY <2>2 DEF m, n
<1>3. <<x>> \in Seq(S)
  OBVIOUS
<1> DEFINE a == SubSeq(s, 1, i - 1)
           b == SubSeq(s, i, Len(s))
           c == <<x>>
<1>4. a \in Seq(S) /\ b \in Seq(S) /\ c \in Seq(S)
  BY <1>2, <1>3
<1>5. InsertAt(s, i, x) = (a \o c) \o b
  BY DEF InsertAt
<1> HIDE DEF a, b, c
<1>6. (a \o c) \o b \in Seq(S)
  BY ONLY <1>4, ConcatFacts
<1> QED
  BY <1>5, <1>6

LEMMA RemovedIs ==
  ASSUME NEW S, NEW s \in Seq(S), NEW i \in 1 .. Len(s)
  PROVE  RemoveAt(s, i) \in Seq(S)
<1>1. i - 1 \in Nat /\ i - 1 <= Len(s) /\ i + 1 \in Nat \ {0} /\ Len(s) \in Nat /\ 1 \in Nat \ {0}
  OBVIOUS
<1> DEFINE m == i - 1
           k == i + 1
           n == Len(s)
           a == SubSeq(s, 1, m)
           b == SubSeq(s, k, n)
<1>2. m \in Nat /\ m <= Len(s) /\ n \in Nat /\ n <= Len(s) /\ k \in Nat \ {0}
  BY <1>1
<1>3. RemoveAt(s, i) = a \o b
  BY DEF RemoveAt
<1> HIDE DEF m, k, n
<1>4. a \in Seq(S) /\ b \in Seq(S)
  BY ONLY <1>1, <1>2, SubSeqIs, s \in Seq(S)
<1> HIDE DEF a, b
<1>5. a \o b \in Seq(S)
  BY ONLY <1>4, ConcatFacts
<1> QED
  BY <1>3, <1>5

(* Pieces of one length, but for the last: where they stand in the whole.   *)
EvenPieces(s, c, e) ==
  \A i \in 1 .. Len(s) : Len(s[i]) = IF i = Len(s) THEN e ELSE c

StandsIn(t, c, s) == \A i \in 1 .. Len(s) : Holds(t, (i - 1) * c, s[i])

LEMMA PiecesEnd ==
  ASSUME NEW S, NEW s \in Seq(Seq(S)), Len(s) > 0, NEW f, IsFlat(S, s, f),
         NEW c \in Nat, NEW e \in Nat, EvenPieces(s, c, e)
  PROVE  /\ \A i \in 0 .. Len(s) - 1 : Len(f[i]) = i * c
         /\ Len(f[Len(s)]) = (Len(s) - 1) * c + e
<1> DEFINE n == Len(s)
<1>1. n \in Nat /\ n > 0 /\ \A i \in 1 .. n : s[i] \in Seq(S)
  BY ElementOfSeq
<1>2. \A i \in 1 .. n : Len(s[i]) = IF i = n THEN e ELSE c
  BY DEF EvenPieces
<1>3. /\ \A i \in 0 .. n : f[i] \in Seq(S)
      /\ f[0] = <<>> /\ \A i \in Nat : i < n => f[i + 1] = f[i] \o s[i + 1]
  BY DEF IsFlat
<1> HIDE DEF n
<1>4. ASSUME NEW i \in Nat, i < n
      PROVE  /\ Len(f[i]) \in Nat /\ Len(f[i + 1]) = Len(f[i]) + Len(s[i + 1])
             /\ Len(s[i + 1]) = IF i + 1 = n THEN e ELSE c
  <2>1. i \in 0 .. n /\ i + 1 \in 1 .. n
    BY <1>1, <1>4
  <2>2. f[i] \in Seq(S) /\ s[i + 1] \in Seq(S) /\ f[i + 1] = f[i] \o s[i + 1]
    BY <1>1, <1>3, <1>4, <2>1
  <2>3. Len(f[i]) \in Nat /\ Len(f[i] \o s[i + 1]) = Len(f[i]) + Len(s[i + 1])
    BY ONLY <2>2, ConcatFacts
  <2> QED
    BY <1>2, <2>1, <2>2, <2>3
<1> DEFINE T == {i \in Nat : i < n => Len(f[i]) = i * c}
<1>5. 0 \in T
  <2>1. Len(f[0]) = 0 /\ 0 * c = 0
    BY <1>3
  <2> QED
    BY <2>1
<1>6. ASSUME NEW i \in Nat, i \in T PROVE i + 1 \in T
  <2> SUFFICES ASSUME i + 1 < n PROVE Len(f[i + 1]) = (i + 1) * c
    OBVIOUS
  <2>1. Len(f[i]) = i * c /\ Len(f[i + 1]) = Len(f[i]) + c
    <3>1. i < n /\ i + 1 # n
      BY <1>1
    <3>2. Len(f[i]) = i * c
      BY <1>6, <3>1
    <3>3. Len(f[i + 1]) = Len(f[i]) + Len(s[i + 1]) /\ Len(s[i + 1]) = c
      BY ONLY <1>4, <3>1, i \in Nat
    <3> QED
      BY ONLY <3>2, <3>3
  <2>2. (i + 1) * c = i * c + c
    OBVIOUS
  <2> QED
    BY ONLY <2>1, <2>2
<1>7. \A i \in 0 .. n - 1 : Len(f[i]) = i * c
  <2> HIDE DEF T
  <2>1. Nat \subseteq T
    BY <1>5, <1>6, AllNaturals
  <2>2. \A i \in 0 .. n - 1 : i \in Nat /\ i < n
    BY <1>1
  <2> QED
    BY <2>1, <2>2 DEF T
<1>8. Len(f[n]) = (n - 1) * c + e
  <2>1. n - 1 \in Nat /\ n - 1 < n /\ (n - 1) + 1 = n /\ n - 1 \in 0 .. n - 1
    BY <1>1
  <2>2. Len(f[n - 1]) = (n - 1) * c
    BY <1>7, <2>1
  <2>3. Len(f[(n - 1) + 1]) = Len(f[n - 1]) + e
    BY <1>4, <2>1
  <2> QED
    BY ONLY <2>1, <2>2, <2>3
<1> QED
  BY <1>7, <1>8 DEF n

LEMMA PiecesStand ==
  ASSUME NEW S, NEW s \in Seq(Seq(S)), Len(s) > 0, NEW c \in Nat, NEW e \in Nat, EvenPieces(s, c, e)
  PROVE  /\ FlattenSeq(s) \in Seq(S)
         /\ Len(FlattenSeq(s)) = (Len(s) - 1) * c + e
         /\ StandsIn(FlattenSeq(s), c, s)
<1> DEFINE n == Len(s)
<1>1. PICK f : IsFlat(S, s, f) /\ FlattenSeq(s) = f[n]
  BY FlatExists
<1> DEFINE t == f[n]
<1>2. n \in Nat /\ t \in Seq(S) /\ Len(t) \in Nat
  <2>1. n \in Nat /\ n \in 0 .. n
    OBVIOUS
  <2>2. f[n] \in Seq(S)
    BY <1>1, <2>1 DEF IsFlat
  <2> QED
    BY <2>1, <2>2
<1>3. /\ \A i \in 0 .. n - 1 : Len(f[i]) = i * c
      /\ Len(t) = (n - 1) * c + e
  BY <1>1, PiecesEnd
<1>4. FlatIn(S, t, 0, s, f)
  <2>1. Holds(t, 0, f[n])
    <3> HIDE DEF n
    <3>1. t = f[n]
      OBVIOUS
    <3> HIDE DEF t
    <3>2. \A i \in 1 .. Len(t) : 0 + i = i
      BY <1>2
    <3>3. Holds(t, 0, t)
      BY <1>2, <3>2 DEF Holds
    <3> QED
      BY <3>1, <3>3
  <2>2. 0 \in Nat
    OBVIOUS
  <2> HIDE DEF t
  <2> QED
    BY ONLY <1>1, <1>2, <2>1, <2>2, FlatHolds, s \in Seq(Seq(S))
<1> HIDE DEF t
<1>5. ASSUME NEW i \in 1 .. n PROVE Holds(t, (i - 1) * c, s[i])
  <2>1. i - 1 \in Nat /\ i - 1 < n /\ (i - 1) + 1 = i /\ i - 1 \in 0 .. n - 1
    BY <1>2
  <2>2. Holds(t, 0 + Len(f[i - 1]), s[(i - 1) + 1])
    BY <1>4, <2>1 DEF FlatIn
  <2>3. Len(f[i - 1]) = (i - 1) * c
    BY <1>3, <2>1
  <2>4. 0 + (i - 1) * c = (i - 1) * c
    BY <2>1
  <2> QED
    BY ONLY <2>1, <2>2, <2>3, <2>4
<1> QED
  BY <1>1, <1>2, <1>3, <1>5 DEF StandsIn, t

LEMMA PiecesMakeUp ==
  ASSUME NEW S, NEW s \in Seq(Seq(S)), Len(s) > 0, NEW c \in Nat, NEW e \in Nat, EvenPieces(s, c, e),
         NEW t \in Seq(S), Len(t) = (Len(s) - 1) * c + e, StandsIn(t, c, s)
  PROVE  FlattenSeq(s) = t
<1> DEFINE n == Len(s)
<1>1. PICK f : IsFlat(S, s, f) /\ FlattenSeq(s) = f[n]
  BY FlatExists
<1>2. /\ \A i \in 0 .. n - 1 : Len(f[i]) = i * c
      /\ Len(f[n]) = Len(t)
  BY <1>1, PiecesEnd
<1>3. n \in Nat /\ Len(t) \in Nat /\ \A i \in 1 .. n : s[i] \in Seq(S)
  BY ElementOfSeq
<1>4. /\ \A i \in 0 .. n : f[i] \in Seq(S)
      /\ f[0] = <<>> /\ \A i \in Nat : i < n => f[i + 1] = f[i] \o s[i + 1]
  BY <1>1 DEF IsFlat
<1>5. \A i \in 1 .. n : Holds(t, (i - 1) * c, s[i])
  BY DEF StandsIn
<1> HIDE DEF n
<1> DEFINE T == {i \in Nat : i <= n => Holds(t, 0, f[i])}
<1>6. 0 \in T
  <2>1. Len(f[0]) = 0
    BY <1>4
  <2> QED
    BY <1>3, <2>1 DEF Holds
<1>7. ASSUME NEW i \in Nat, i \in T PROVE i + 1 \in T
  <2> SUFFICES ASSUME i + 1 <= n PROVE Holds(t, 0, f[i + 1])
    OBVIOUS
  <2>1. i < n /\ i \in 0 .. n - 1 /\ i \in 0 .. n /\ i + 1 \in 1 .. n /\ (i + 1) - 1 = i
    BY <1>3
  <2>2. f[i] \in Seq(S) /\ s[i + 1] \in Seq(S) /\ f[i + 1] = f[i] \o s[i + 1] /\ Holds(t, 0, f[i])
    <3>1. f[i] \in Seq(S) /\ f[i + 1] = f[i] \o s[i + 1]
      BY ONLY <1>4, <2>1, i \in Nat
    <3>2. s[i + 1] \in Seq(S)
      BY ONLY <1>3, <2>1
    <3>3. i <= n
      BY <1>3, <2>1
    <3>4. Holds(t, 0, f[i])
      BY <1>7, <3>3
    <3> QED
      BY <3>1, <3>2, <3>4
  <2>3. Holds(t, ((i + 1) - 1) * c, s[i + 1])
    BY <1>5, <2>1
  <2>4. Len(f[i]) = i * c /\ 0 + i * c = i * c
    BY <1>2, <2>1
  <2>5. Holds(t, 0 + Len(f[i]), s[i + 1])
    BY ONLY <2>1, <2>3, <2>4
  <2>6. 0 \in Nat
    OBVIOUS
  <2>7. Holds(t, 0, f[i] \o s[i + 1])
    BY ONLY <2>2, <2>5, <2>6, HoldsConcat, t \in Seq(S)
  <2> QED
    BY <2>2, <2>7
<1>8. Holds(t, 0, f[n])
  <2> HIDE DEF T
  <2>1. n \in T
    BY <1>3, <1>6, <1>7, AllNaturals
  <2> QED
    BY <1>3, <2>1 DEF T
<1>9. f[n] \in Seq(S) /\ Len(f[n]) = Len(t)
  BY <1>2, <1>3, <1>4
<1>10. \A i \in 1 .. Len(t) : f[n][i] = t[i]
  <2>1. \A i \in 1 .. Len(t) : 0 + i = i
    BY <1>3
  <2> QED
    BY <1>8, <1>9, <2>1 DEF Holds
<1>11. f[n] = t
  BY ONLY <1>9, <1>10, SeqEqual, t \in Seq(S)
<1> QED
  BY <1>1, <1>11

(* The part of so many elements behind a place.                             *)
PartBehind(t, pos, n) == SubSeq(t, pos + 1, pos + n)

LEMMA PartBehindIs ==
  ASSUME NEW S, NEW t \in Seq(S), NEW pos \in Nat, NEW n \in Nat, pos + n <= Len(t)
  PROVE  /\ PartBehind(t, pos, n) \in Seq(S) /\ Len(PartBehind(t, pos, n)) = n
         /\ Holds(t, pos, PartBehind(t, pos, n))
         /\ \A p \in Seq(S) : Len(p) = n /\ Holds(t, pos, p) => PartBehind(t, pos, n) = p
BY HoldsPart DEF PartBehind
=============================================================================
