---------------------------- MODULE MemoryProofs ----------------------------
(***************************************************************************)
(* The two parts of the SDK that manage memory of their own.               *)
(*                                                                         *)
(* LockedPages, for every set of threads, every finite set of objects and  *)
(* every page size.  The strengthening says, for each page, which objects  *)
(* its counter stands for in the middle of a range too: the pages the loop *)
(* of the mutex holder has passed are done, the others are not.            *)
(*                                                                         *)
(* McScript, for all bytes, pieces and chunk sizes: the container stays in *)
(* bounds and implements Elements.                                         *)
(***************************************************************************)
EXTENDS LockedPages, McScript, FiniteSetTheorems, SequenceTheorems, TLAPS

-----------------------------------------------------------------------------
(* The locked pages.                                                        *)
InRange(o, p) == o.size > 0 /\ StartPage(o) <= p /\ p <= EndPage(o)

(* The mutex holder is working on o and its loop has passed page p.         *)
Passed(o, p) == mutex # NONE /\ obj[mutex] = o /\ p < cur[mutex]

Counted(o, p) ==
  /\ InRange(o, p)
  /\ \/ phase[o] = "alive"
     \/ phase[o] = "locking" /\ Passed(o, p)
     \/ phase[o] = "unlocking" /\ ~Passed(o, p)

Holders(p) == {o \in Object : Counted(o, p)}

Critical == {"lockFind", "lockPage", "unlockFind", "unlockPage"}

(* The mutex and the objects threads work on.                               *)
MutexInv == \A t \in Thread : mutex = t <=> pc[t] \in Critical

ObjInv ==
  /\ \A t \in Thread : pc[t] = "idle" <=> obj[t] = NONE
  /\ \A t \in Thread :
       pc[t] \in {"lock", "lockFind", "lockPage"} => phase[obj[t]] = "locking"
  /\ \A t \in Thread :
       pc[t] \in {"unlock", "unlockFind", "unlockPage"} => phase[obj[t]] = "unlocking"
  /\ \A t, u \in Thread : obj[t] = obj[u] /\ obj[t] # NONE => t = u

(* Where the loop of the mutex holder is.                                   *)
LoopInv ==
  \A t \in Thread :
    /\ pc[t] \in Critical /\ obj[t].size > 0
         => StartPage(obj[t]) <= cur[t] /\ cur[t] <= EndPage(obj[t]) + 1
    /\ pc[t] \in {"lockPage", "unlockPage"}
         => ~PastEnd(t) /\ (found[t] <=> histogram[cur[t]] > 0)

CountInv == \A p \in Page : histogram[p] = Cardinality(Holders(p))

KernelInv ==
  /\ locked = {p \in Page : histogram[p] > 0} \ refused
  /\ refused \subseteq {p \in Page : histogram[p] > 0}

SecretInv == \A o \in Object : secret[o] => phase[o] = "alive"

IInv == TypeOK /\ MutexInv /\ ObjInv /\ LoopInv /\ CountInv /\ KernelInv /\ SecretInv

-----------------------------------------------------------------------------
(* The loop bounds of the code are the pages the object has a byte on.      *)
LEMMA DivBounds ==
  ASSUME NEW a \in Nat, NEW k \in Nat \ {0}
  PROVE  /\ a \div k \in Nat
         /\ k * (a \div k) <= a
         /\ a < k * (a \div k) + k
OBVIOUS

LEMMA DivMonotonic ==
  ASSUME NEW a \in Nat, NEW b \in Nat, a <= b, NEW k \in Nat \ {0}
  PROVE  a \div k <= b \div k
OBVIOUS

LEMMA DivOfMultiple ==
  ASSUME NEW p \in Nat, NEW k \in Nat \ {0}
  PROVE  (k * p) \div k = p
OBVIOUS

LEMMA MultipleMonotonic ==
  ASSUME NEW p \in Nat, NEW q \in Nat, p <= q, NEW k \in Nat
  PROVE  k * p <= k * q
OBVIOUS

LEMMA StartsBeforeEnd ==
  ASSUME NEW o \in Object, o.size > 0
  PROVE  /\ StartPage(o) \in Nat /\ EndPage(o) \in Nat
         /\ StartPage(o) <= EndPage(o)
         /\ StartPage(o) .. EndPage(o) \subseteq Page
<1>1. o.base \in Nat /\ o.size \in Nat /\ o.base + o.size - 1 \in Nat
  BY LockedPagesAssumption
<1>. QED  BY <1>1, LockedPagesAssumption, DivBounds, DivMonotonic DEF StartPage, EndPage

LEMMA BoundsAreNumbers ==
  ASSUME NEW o \in Object
  PROVE  StartPage(o) \in Nat /\ EndPage(o) \in Int /\ o.size \in Nat
<1>1. o.base \in Nat /\ o.size \in Nat
  BY LockedPagesAssumption
<1>2. CASE o.size = 0
  BY <1>1, <1>2, LockedPagesAssumption DEF StartPage, EndPage
<1>3. CASE o.size > 0
  BY <1>1, <1>3, StartsBeforeEnd
<1>. QED  BY <1>1, <1>2, <1>3

LEMMA PagesAreInRange ==
  ASSUME NEW o \in Object, NEW p
  PROVE  p \in PagesOf(o) <=> p \in Nat /\ InRange(o, p)
<1>. DEFINE last == o.base + o.size - 1
<1>1. o.base \in Nat /\ o.size \in Nat /\ PageSize \in Nat \ {0}
  BY LockedPagesAssumption
<1>2. ASSUME p \in PagesOf(o)
      PROVE  p \in Nat /\ InRange(o, p)
  <2>1. PICK a \in o.base .. last : p = a \div PageSize
    BY <1>2 DEF PagesOf
  <2>2. a \in Nat /\ last \in Nat /\ o.base <= a /\ a <= last /\ o.size > 0
    BY <1>1, <2>1
  <2>3. o.base \div PageSize <= p /\ p <= last \div PageSize /\ p \in Nat
    BY <1>1, <2>1, <2>2, DivMonotonic, DivBounds
  <2>. QED  BY <2>2, <2>3 DEF InRange, StartPage, EndPage
<1>3. ASSUME p \in Nat, InRange(o, p)
      PROVE  p \in PagesOf(o)
  <2>1. last \in Nat /\ o.size > 0 /\ o.base \div PageSize <= p /\ p <= last \div PageSize
    BY <1>1, <1>3 DEF InRange, StartPage, EndPage
  <2>2. CASE PageSize * p <= o.base
    <3>1. PageSize * p \in Nat
      BY <1>1, <1>3
    <3>2. p <= o.base \div PageSize
      BY <1>1, <1>3, <2>2, <3>1, DivMonotonic, DivOfMultiple
    <3>3. p = o.base \div PageSize
      BY <1>1, <1>3, <2>1, <3>2, DivBounds
    <3>. QED  BY <1>1, <2>1, <3>3 DEF PagesOf
  <2>3. CASE o.base < PageSize * p
    <3>1. PageSize * p \in Nat
      BY <1>1, <1>3
    <3>2. last \div PageSize \in Nat /\ PageSize * (last \div PageSize) <= last
      BY <1>1, <2>1, DivBounds
    <3>3. PageSize * p <= PageSize * (last \div PageSize)
      BY <1>1, <1>3, <2>1, <3>2, MultipleMonotonic
    <3>4. PageSize * (last \div PageSize) \in Nat
      BY <1>1, <3>2
    <3>5. PageSize * p \in o.base .. last
      BY <1>1, <2>1, <2>3, <3>1, <3>2, <3>3, <3>4
    <3>. QED  BY <1>1, <1>3, <3>5, DivOfMultiple DEF PagesOf
  <2>. QED  BY <1>1, <1>3, <2>2, <2>3
<1>. QED  BY <1>2, <1>3

-----------------------------------------------------------------------------
(* The strengthening is inductive.  First what the mutex gives: only its    *)
(* holder is inside a loop, and a thread that is not works on an object the *)
(* holder does not work on.                                                 *)
LEMMA HolderOnly ==
  ASSUME IInv, NEW t \in Thread
  PROVE  /\ mutex = t <=> pc[t] \in Critical
         /\ mutex # NONE => mutex \in Thread
         /\ pc[t] # "idle" => obj[t] \in Object
         /\ \A u \in Thread : pc[u] # "idle" /\ obj[u] = obj[t] => u = t
         /\ t # NONE
BY LockedPagesAssumption DEF IInv, TypeOK, MutexInv, ObjInv

LEMMA HoldersFinite ==
  ASSUME NEW p
  PROVE  IsFiniteSet(Holders(p)) /\ Cardinality(Holders(p)) \in Nat
<1>1. Holders(p) \subseteq Object /\ IsFiniteSet(Object)
  BY LockedPagesAssumption DEF Holders
<1>2. IsFiniteSet(Holders(p))
  BY <1>1, FS_Subset
<1>. QED  BY <1>2, FS_CardinalityType

LEMMA InitIInv == Init => IInv
<1>. SUFFICES ASSUME Init PROVE IInv
  OBVIOUS
<1>1. TypeOK
  BY LockedPagesAssumption DEF Init, TypeOK, Phase, Location
<1>2. MutexInv
  BY LockedPagesAssumption DEF Init, MutexInv, Critical
<1>3. ObjInv
  BY DEF Init, ObjInv
<1>4. LoopInv
  BY DEF Init, LoopInv, Critical
<1>5. CountInv
  <2>. SUFFICES ASSUME NEW p \in Page PROVE histogram[p] = Cardinality(Holders(p))
    BY DEF CountInv
  <2>1. Holders(p) = {}
    BY DEF Init, Holders, Counted
  <2>. QED  BY <2>1, FS_EmptySet DEF Init
<1>6. KernelInv /\ SecretInv
  BY DEF Init, KernelInv, SecretInv
<1>. QED  BY <1>1, <1>2, <1>3, <1>4, <1>5, <1>6 DEF IInv

(* A step that moves no count and leaves every page the holders it had.     *)
LEMMA CountFrame ==
  ASSUME CountInv, UNCHANGED histogram, \A p \in Page : Holders(p)' = Holders(p)
  PROVE  CountInv'
BY DEF CountInv

LEMMA AcquirePreserves ==
  ASSUME IInv, NEW t \in Thread,
         \/ Acquire(t, "lock", "lockFind")
         \/ Acquire(t, "unlock", "unlockFind")
  PROVE  IInv'
<1>1. /\ mutex = NONE /\ mutex' = t /\ pc[t] \in {"lock", "unlock"}
      /\ pc' = [pc EXCEPT ![t] = IF pc[t] = "lock" THEN "lockFind" ELSE "unlockFind"]
      /\ cur' = [cur EXCEPT ![t] = StartPage(obj[t])]
      /\ UNCHANGED <<histogram, locked, refused, phase, secret, obj, found>>
  BY DEF Acquire, Goto, kernel
<1>2. obj[t] \in Object
  BY <1>1, HolderOnly
<1>3. TypeOK'
  BY <1>1, <1>2, BoundsAreNumbers DEF IInv, TypeOK, Location
<1>4. MutexInv'
  BY <1>1, HolderOnly DEF IInv, TypeOK, MutexInv, Critical
<1>5. ObjInv'
  BY <1>1 DEF IInv, TypeOK, ObjInv
<1>6. LoopInv'
  BY <1>1, <1>2, BoundsAreNumbers, StartsBeforeEnd
     DEF IInv, TypeOK, LoopInv, MutexInv, Critical, PastEnd
<1>7. CountInv'
  <2>1. ASSUME NEW p \in Page, NEW o \in Object PROVE Counted(o, p)' <=> Counted(o, p)
    BY <1>1, <1>2, BoundsAreNumbers, LockedPagesAssumption, HolderOnly
       DEF Counted, Passed, InRange, IInv, TypeOK
  <2>. QED  BY <1>1, <2>1, CountFrame DEF IInv, Holders
<1>8. KernelInv' /\ SecretInv'
  BY <1>1 DEF IInv, KernelInv, SecretInv
<1>. QED  BY <1>3, <1>4, <1>5, <1>6, <1>7, <1>8 DEF IInv

LEMMA FindPreserves ==
  ASSUME IInv, NEW t \in Thread,
         \/ Find(t, "lockFind", "lockPage")
         \/ Find(t, "unlockFind", "unlockPage")
  PROVE  IInv'
<1>1. /\ pc[t] \in {"lockFind", "unlockFind"} /\ ~PastEnd(t)
      /\ pc' = [pc EXCEPT ![t] = IF pc[t] = "lockFind" THEN "lockPage" ELSE "unlockPage"]
      /\ found' = [found EXCEPT ![t] = histogram[cur[t]] > 0]
      /\ UNCHANGED <<mutex, histogram, locked, refused, phase, secret, obj, cur>>
  BY DEF Find, Goto, kernel
<1>3. TypeOK'
  BY <1>1 DEF IInv, TypeOK, Location
<1>4. MutexInv'
  BY <1>1 DEF IInv, TypeOK, MutexInv, Critical
<1>5. ObjInv'
  BY <1>1 DEF IInv, TypeOK, ObjInv
<1>6. LoopInv'
  BY <1>1 DEF IInv, TypeOK, LoopInv, Critical, PastEnd
<1>7. CountInv'
  BY <1>1, CountFrame DEF IInv, Holders, Counted, Passed, InRange
<1>8. KernelInv' /\ SecretInv'
  BY <1>1 DEF IInv, KernelInv, SecretInv
<1>. QED  BY <1>3, <1>4, <1>5, <1>6, <1>7, <1>8 DEF IInv

LEMMA LockPagePreserves ==
  ASSUME IInv, NEW t \in Thread, LockPage(t)
  PROVE  IInv'
<1>. DEFINE o == obj[t]
            q == cur[t]
<1>1. /\ pc[t] = "lockPage"
      /\ (found[t] \/ histogram[q] = 0) => histogram' = [histogram EXCEPT ![q] = @ + 1]
      /\ \/ ~found[t] /\ locked' = locked \union {q} /\ refused' = refused
         \/ ~found[t] /\ refused' = refused \union {q} /\ locked' = locked
         \/ found[t] /\ locked' = locked /\ refused' = refused
      /\ cur' = [cur EXCEPT ![t] = @ + 1]
      /\ pc' = [pc EXCEPT ![t] = "lockFind"]
      /\ UNCHANGED <<mutex, phase, secret, obj, found>>
  <2>1. histogram \in [Page -> Nat]
    BY DEF IInv, TypeOK
  <2>. QED  BY <2>1 DEF LockPage, Goto, kernel
<1>2. /\ mutex = t /\ o \in Object /\ phase[o] = "locking"
      /\ InRange(o, q) /\ q \in Page /\ q \in Nat
      /\ found[t] <=> histogram[q] > 0
      /\ histogram[q] \in Nat
  <2>1. mutex = t /\ o \in Object /\ phase[o] = "locking"
    BY <1>1, HolderOnly DEF IInv, ObjInv, Critical
  <2>2. InRange(o, q) /\ q \in Nat /\ (found[t] <=> histogram[q] > 0)
    BY <1>1, <2>1, BoundsAreNumbers
       DEF IInv, TypeOK, LoopInv, Critical, PastEnd, InRange
  <2>3. q \in Page
    BY <2>1, <2>2, StartsBeforeEnd DEF InRange
  <2>. QED  BY <2>1, <2>2, <2>3 DEF IInv, TypeOK
<1>3. histogram' = [histogram EXCEPT ![q] = @ + 1]
  <2>1. found[t] \/ histogram[q] = 0
    BY <1>2
  <2>. QED  BY <1>1, <2>1
<1>4. TypeOK'
  BY <1>1, <1>2, <1>3 DEF IInv, TypeOK, Location
<1>5. MutexInv'
  BY <1>1, <1>2 DEF IInv, TypeOK, MutexInv, Critical
<1>6. ObjInv'
  BY <1>1 DEF IInv, TypeOK, ObjInv
<1>7. LoopInv'
  BY <1>1, <1>2, BoundsAreNumbers DEF IInv, TypeOK, LoopInv, MutexInv, Critical, PastEnd, InRange
<1>8. CountInv'
  <2>. SUFFICES ASSUME NEW p \in Page PROVE histogram'[p] = Cardinality(Holders(p)')
    BY DEF CountInv
  <2>1. histogram[p] = Cardinality(Holders(p)) /\ histogram \in [Page -> Nat] /\ p \in Nat
    BY LockedPagesAssumption DEF IInv, CountInv, TypeOK
  <2>2. ASSUME NEW u \in Object, ~(u = o /\ p = q)
        PROVE  Counted(u, p)' <=> Counted(u, p)
    BY <1>1, <1>2, <2>1, <2>2 DEF IInv, TypeOK, Counted, Passed, InRange
  <2>3. CASE p # q
    BY <1>3, <2>1, <2>2, <2>3 DEF Holders
  <2>4. CASE p = q
    <3>1. ~Counted(o, p) /\ Counted(o, p)'
      BY <1>1, <1>2, <2>4, LockedPagesAssumption DEF IInv, TypeOK, Counted, Passed, InRange
    <3>2. Holders(p)' = Holders(p) \union {o} /\ o \notin Holders(p)
      BY <1>1, <1>2, <2>2, <2>4, <3>1 DEF Holders
    <3>3. Cardinality(Holders(p)') = Cardinality(Holders(p)) + 1
      BY <3>2, HoldersFinite, FS_AddElement
    <3>. QED  BY <1>3, <2>1, <2>4, <3>3
  <2>. QED  BY <2>3, <2>4
<1>9. KernelInv'
  BY <1>1, <1>2, <1>3 DEF IInv, TypeOK, KernelInv
<1>10. SecretInv'
  BY <1>1 DEF IInv, SecretInv
<1>. QED  BY <1>4, <1>5, <1>6, <1>7, <1>8, <1>9, <1>10 DEF IInv

LEMMA UnlockPagePreserves ==
  ASSUME IInv, NEW t \in Thread, UnlockPage(t)
  PROVE  IInv'
<1>. DEFINE o == obj[t]
            q == cur[t]
<1>1. /\ pc[t] = "unlockPage" /\ found[t]
      /\ histogram' = [histogram EXCEPT ![q] = @ - 1]
      /\ locked' = IF histogram[q] = 1 THEN locked \ {q} ELSE locked
      /\ refused' = IF histogram[q] = 1 THEN refused \ {q} ELSE refused
      /\ cur' = [cur EXCEPT ![t] = @ + 1]
      /\ pc' = [pc EXCEPT ![t] = "unlockFind"]
      /\ UNCHANGED <<mutex, phase, secret, obj, found>>
  BY DEF UnlockPage, Goto, kernel
<1>2. /\ mutex = t /\ o \in Object /\ phase[o] = "unlocking"
      /\ InRange(o, q) /\ q \in Page /\ q \in Nat
      /\ histogram[q] > 0
      /\ histogram[q] \in Nat
  <2>1. mutex = t /\ o \in Object /\ phase[o] = "unlocking"
    BY <1>1, HolderOnly DEF IInv, ObjInv, Critical
  <2>2. InRange(o, q) /\ q \in Nat /\ histogram[q] > 0
    BY <1>1, <2>1, BoundsAreNumbers
       DEF IInv, TypeOK, LoopInv, Critical, PastEnd, InRange
  <2>3. q \in Page
    BY <2>1, <2>2, StartsBeforeEnd DEF InRange
  <2>. QED  BY <2>1, <2>2, <2>3 DEF IInv, TypeOK
<1>4. TypeOK'
  BY <1>1, <1>2 DEF IInv, TypeOK, Location
<1>5. MutexInv'
  BY <1>1, <1>2 DEF IInv, TypeOK, MutexInv, Critical
<1>6. ObjInv'
  BY <1>1 DEF IInv, TypeOK, ObjInv
<1>7. LoopInv'
  BY <1>1, <1>2, BoundsAreNumbers DEF IInv, TypeOK, LoopInv, MutexInv, Critical, PastEnd, InRange
<1>8. CountInv'
  <2>. SUFFICES ASSUME NEW p \in Page PROVE histogram'[p] = Cardinality(Holders(p)')
    BY DEF CountInv
  <2>1. histogram[p] = Cardinality(Holders(p)) /\ histogram \in [Page -> Nat] /\ p \in Nat
    BY LockedPagesAssumption DEF IInv, CountInv, TypeOK
  <2>2. ASSUME NEW u \in Object, ~(u = o /\ p = q)
        PROVE  Counted(u, p)' <=> Counted(u, p)
    BY <1>1, <1>2, <2>1, <2>2 DEF IInv, TypeOK, Counted, Passed, InRange
  <2>3. CASE p # q
    BY <1>1, <2>1, <2>2, <2>3 DEF Holders
  <2>4. CASE p = q
    <3>1. Counted(o, p) /\ ~Counted(o, p)'
      BY <1>1, <1>2, <2>4, LockedPagesAssumption DEF IInv, TypeOK, Counted, Passed, InRange
    <3>2. Holders(p)' = Holders(p) \ {o} /\ o \in Holders(p)
      BY <1>1, <1>2, <2>2, <2>4, <3>1 DEF Holders
    <3>3. Cardinality(Holders(p)') = Cardinality(Holders(p)) - 1
      BY <3>2, HoldersFinite, FS_RemoveElement
    <3>. QED  BY <1>1, <1>2, <2>1, <2>4, <3>3
  <2>. QED  BY <2>3, <2>4
<1>9. KernelInv'
  BY <1>1, <1>2 DEF IInv, TypeOK, KernelInv
<1>10. SecretInv'
  BY <1>1 DEF IInv, SecretInv
<1>. QED  BY <1>4, <1>5, <1>6, <1>7, <1>8, <1>9, <1>10 DEF IInv

LEMMA ReleasePreserves ==
  ASSUME IInv, NEW t \in Thread,
         \/ Release(t, "lockFind", "alive")
         \/ Release(t, "unlockFind", "dead")
  PROVE  IInv'
<1>. DEFINE o == obj[t]
            now == IF pc[t] = "lockFind" THEN "alive" ELSE "dead"
<1>1. /\ pc[t] \in {"lockFind", "unlockFind"} /\ PastEnd(t)
      /\ mutex' = NONE
      /\ phase' = [phase EXCEPT ![o] = now]
      /\ pc' = [pc EXCEPT ![t] = "idle"]
      /\ obj' = [obj EXCEPT ![t] = NONE]
      /\ cur' = [cur EXCEPT ![t] = 0]
      /\ found' = [found EXCEPT ![t] = FALSE]
      /\ UNCHANGED <<histogram, locked, refused, secret>>
  BY DEF Release, Goto, kernel
<1>2. /\ mutex = t /\ o \in Object
      /\ phase[o] = IF pc[t] = "lockFind" THEN "locking" ELSE "unlocking"
  BY <1>1, HolderOnly DEF IInv, ObjInv, Critical
<1>3. \A u \in Thread : u # t => pc[u] \notin Critical /\ obj[u] # o
  BY <1>2, HolderOnly, LockedPagesAssumption DEF IInv, ObjInv
<1>4. TypeOK'
  BY <1>1, <1>2 DEF IInv, TypeOK, Location, Phase
<1>5. MutexInv'
  BY <1>1, <1>3, LockedPagesAssumption DEF IInv, TypeOK, MutexInv, Critical
<1>6. ObjInv'
  BY <1>1, <1>2, <1>3, LockedPagesAssumption DEF IInv, TypeOK, ObjInv
<1>7. LoopInv'
  BY <1>1, <1>3 DEF IInv, TypeOK, LoopInv, Critical
<1>8. CountInv'
  <2>1. ASSUME NEW p \in Page, NEW u \in Object
        PROVE  Counted(u, p)' <=> Counted(u, p)
    <3>1. InRange(o, p) => p < cur[t]
      BY <1>1, <1>2, BoundsAreNumbers, LockedPagesAssumption DEF IInv, TypeOK, InRange, PastEnd
    <3>2. mutex # NONE
      BY <1>2, LockedPagesAssumption
    <3>. QED  BY <1>1, <1>2, <3>1, <3>2 DEF IInv, TypeOK, Counted, Passed, InRange
  <2>. QED  BY <1>1, <2>1, CountFrame DEF IInv, Holders
<1>9. KernelInv'
  BY <1>1 DEF IInv, KernelInv
<1>10. SecretInv'
  BY <1>1, <1>2 DEF IInv, TypeOK, SecretInv
<1>. QED  BY <1>4, <1>5, <1>6, <1>7, <1>8, <1>9, <1>10 DEF IInv

LEMMA EnterPreserves ==
  ASSUME IInv, NEW t \in Thread, NEW o \in Object,
         LockObject(t, o) \/ UnlockObject(t, o)
  PROVE  IInv'
<1>. DEFINE locks == phase[o] = "dead"
<1>1. /\ pc[t] = "idle"
      /\ phase[o] \in {"dead", "alive"}
      /\ phase' = [phase EXCEPT ![o] = IF locks THEN "locking" ELSE "unlocking"]
      /\ pc' = [pc EXCEPT ![t] = IF locks THEN "lock" ELSE "unlock"]
      /\ obj' = [obj EXCEPT ![t] = o]
      /\ secret' = secret \/ secret' = [secret EXCEPT ![o] = FALSE]
      /\ phase[o] = "alive" => secret' = [secret EXCEPT ![o] = FALSE]
      /\ UNCHANGED <<mutex, histogram, locked, refused, cur, found>>
  BY DEF LockObject, UnlockObject, Goto, kernel
<1>2. /\ mutex # t
      /\ \A u \in Thread : obj[u] # o
      /\ mutex # NONE => mutex \in Thread
  <2>1. ASSUME NEW u \in Thread PROVE obj[u] # o
    <3>1. o # NONE
      BY LockedPagesAssumption
    <3>2. obj[u] = o => pc[u] # "idle"
      BY <3>1 DEF IInv, ObjInv
    <3>3. pc[u] # "idle" => phase[obj[u]] \in {"locking", "unlocking"}
      BY DEF IInv, TypeOK, ObjInv, Location
    <3>. QED  BY <1>1, <3>2, <3>3
  <2>2. mutex # t /\ (mutex # NONE => mutex \in Thread)
    BY <1>1, HolderOnly DEF Critical
  <2>. QED  BY <2>1, <2>2
<1>3. TypeOK'
  BY <1>1 DEF IInv, TypeOK, Location, Phase
<1>4. MutexInv'
  BY <1>1, <1>2 DEF IInv, TypeOK, MutexInv, Critical
<1>5. ObjInv'
  BY <1>1, <1>2, LockedPagesAssumption DEF IInv, TypeOK, ObjInv
<1>6. LoopInv'
  BY <1>1 DEF IInv, TypeOK, LoopInv, Critical, PastEnd
<1>7. CountInv'
  <2>1. ASSUME NEW p \in Page, NEW u \in Object
        PROVE  Counted(u, p)' <=> Counted(u, p)
    BY <1>1, <1>2 DEF IInv, TypeOK, Counted, Passed, InRange
  <2>. QED  BY <1>1, <2>1, CountFrame DEF IInv, Holders
<1>8. KernelInv'
  BY <1>1 DEF IInv, KernelInv
<1>9. SecretInv'
  BY <1>1 DEF IInv, TypeOK, SecretInv
<1>. QED  BY <1>3, <1>4, <1>5, <1>6, <1>7, <1>8, <1>9 DEF IInv

LEMMA FillPreserves ==
  ASSUME IInv, NEW o \in Object, Fill(o)
  PROVE  IInv'
<1>. USE DEF Fill, loop, kernel
<1>1. TypeOK' /\ SecretInv'
  BY DEF IInv, TypeOK, SecretInv
<1>2. MutexInv' /\ ObjInv' /\ LoopInv' /\ KernelInv'
  BY DEF IInv, MutexInv, ObjInv, LoopInv, KernelInv, PastEnd
<1>3. CountInv'
  BY CountFrame DEF IInv, Holders, Counted, Passed, InRange
<1>. QED  BY <1>1, <1>2, <1>3 DEF IInv

LEMMA StutterPreserves ==
  ASSUME IInv, UNCHANGED vars
  PROVE  IInv'
<1>. USE DEF vars, kernel
<1>1. CountInv'
  BY CountFrame DEF IInv, Holders, Counted, Passed, InRange
<1>2. TypeOK' /\ MutexInv' /\ ObjInv'
  BY DEF IInv, TypeOK, MutexInv, ObjInv
<1>3. LoopInv' /\ KernelInv' /\ SecretInv'
  BY DEF IInv, LoopInv, KernelInv, SecretInv, PastEnd
<1>. QED  BY <1>1, <1>2, <1>3 DEF IInv

LEMMA NextPreserves == IInv /\ [Next]_vars => IInv'
<1>. SUFFICES ASSUME IInv, [Next]_vars PROVE IInv'
  OBVIOUS
<1>1. CASE UNCHANGED vars
  BY <1>1, StutterPreserves
<1>2. ASSUME NEW t \in Thread, LockRange(t) \/ UnlockRange(t)
      PROVE  IInv'
  BY <1>2, AcquirePreserves, FindPreserves, LockPagePreserves, UnlockPagePreserves,
     ReleasePreserves DEF LockRange, UnlockRange
<1>3. ASSUME NEW t \in Thread, NEW o \in Object, LockObject(t, o) \/ UnlockObject(t, o)
      PROVE  IInv'
  BY <1>3, EnterPreserves
<1>4. ASSUME NEW o \in Object, Fill(o)
      PROVE  IInv'
  BY <1>4, FillPreserves
<1>. QED  BY <1>1, <1>2, <1>3, <1>4 DEF Next

-----------------------------------------------------------------------------
(* The strengthening holds of every behaviour.                              *)
THEOREM Invariance == Spec => []IInv
BY InitIInv, NextPreserves, PTL DEF Spec

(* The variables keep their types, whatever the threads and objects are; in *)
(* particular no lock count of LockRange and UnlockRange goes below zero.   *)
THEOREM TypeCorrect == Spec => []TypeOK
<1>1. IInv => TypeOK
  BY DEF IInv
<1>. QED  BY <1>1, Invariance, PTL

(* Key material is never on a page that could be swapped out, but for the   *)
(* pages mlock() refused (LockRange and UnlockRange, allocators.h:41-83).   *)
THEOREM SecretsLocked == Spec => []SecretsStayLocked
<1>1. ASSUME IInv PROVE SecretsStayLocked
  <2>. SUFFICES ASSUME NEW o \in Object, secret[o], NEW p \in PagesOf(o)
                PROVE  p \in locked \union refused
    BY DEF SecretsStayLocked
  <2>1. phase[o] = "alive" /\ InRange(o, p) /\ p \in Page
    BY <1>1, PagesAreInRange, StartsBeforeEnd, BoundsAreNumbers DEF IInv, SecretInv, InRange
  <2>2. o \in Holders(p)
    BY <2>1 DEF Holders, Counted
  <2>3. Cardinality(Holders(p)) > 0
    BY <2>2, HoldersFinite, FS_EmptySet
  <2>4. histogram[p] > 0
    BY <1>1, <2>1, <2>3 DEF IInv, CountInv
  <2>. QED  BY <1>1, <2>1, <2>4 DEF IInv, KernelInv
<1>. QED  BY <1>1, Invariance, PTL

(* Between two ranges a page's count is the number of live objects on it,   *)
(* also when mlock() fails (allocators.h:49-59, 71-82).                     *)
THEOREM CountsExact == Spec => []CountsAreExact
<1>1. ASSUME IInv PROVE CountsAreExact
  <2>. SUFFICES ASSUME mutex = NONE, NEW p \in Page
                PROVE  histogram[p] =
                         Cardinality({o \in Object : Standing(o) /\ p \in PagesOf(o)})
    BY DEF CountsAreExact
  <2>1. ASSUME NEW o \in Object
        PROVE  Counted(o, p) <=> Standing(o) /\ p \in PagesOf(o)
    BY PagesAreInRange, LockedPagesAssumption DEF Counted, Standing, Passed
  <2>. QED  BY <1>1, <2>1 DEF IInv, CountInv, Holders
<1>. QED  BY <1>1, Invariance, PTL

(* The locked pages are those in the map that mlock() did not refuse: none  *)
(* stays locked without an object on it (allocators.h:76-81).               *)
THEOREM LockedAreCounted == Spec => []LockedIffCounted
<1>1. IInv => LockedIffCounted
  BY DEF IInv, KernelInv, LockedIffCounted
<1>. QED  BY <1>1, Invariance, PTL

(* Counts, map and kernel agree, for any objects in any order.              *)
THEOREM BookkeepingExact == Spec => []BookkeepingIsExact
<1>. QED  BY CountsExact, LockedAreCounted, PTL DEF BookkeepingIsExact

(* The assertion of UnlockRange (allocators.h:73) never fires.              *)
THEOREM AssertionHolds == Spec => []UnlockFindsPage
<1>1. ASSUME IInv, NEW t \in Thread, pc[t] = "unlockPage" PROVE found[t]
  <2>. DEFINE o == obj[t]
              q == cur[t]
  <2>1. mutex = t /\ o \in Object /\ phase[o] = "unlocking"
    BY <1>1, HolderOnly DEF IInv, ObjInv, Critical
  <2>2. InRange(o, q) /\ q \in Nat /\ (found[t] <=> histogram[q] > 0)
    BY <1>1, <2>1, BoundsAreNumbers
       DEF IInv, TypeOK, LoopInv, Critical, PastEnd, InRange
  <2>3. q \in Page
    BY <2>1, <2>2, StartsBeforeEnd DEF InRange
  <2>4. o \in Holders(q)
    BY <2>1, <2>2 DEF Holders, Counted, Passed
  <2>5. Cardinality(Holders(q)) > 0
    BY <2>4, HoldersFinite, FS_EmptySet
  <2>. QED  BY <1>1, <2>2, <2>3, <2>5 DEF IInv, CountInv
<1>2. IInv => UnlockFindsPage
  BY <1>1 DEF UnlockFindsPage
<1>. QED  BY <1>2, Invariance, PTL

-----------------------------------------------------------------------------
(* The container.                                                           *)

(* Contiguous speaks of neighbours; what a step needs is that no element    *)
(* reaches beyond the bytes in use, and no earlier one into the last one.   *)
Ordered ==
  \A e \in 0 .. Last :
    /\ Offset(e) + Length(e) <= m_Size
    /\ e < Last => Offset(e) + Length(e) <= Offset(Last)

ContainerInv == ContainerTypeOK /\ InBounds /\ Contiguous /\ Ordered

-----------------------------------------------------------------------------
LEMMA ChunksOf ==
  ASSUME NEW a \in Nat, NEW k \in Nat \ {0}
  PROVE  a \div k \in Nat /\ k * (a \div k) \in Nat /\ a < k * (a \div k) + k
OBVIOUS

(* Whole chunks are added until there is room.                              *)
LEMMA GrownIsEnough ==
  ASSUME NEW alloc \in Nat, NEW need \in Nat, NEW chunk \in Nat \ {0}
  PROVE  /\ Grown(alloc, need, chunk) \in Nat
         /\ Grown(alloc, need, chunk) >= need
         /\ Grown(alloc, need, chunk) >= alloc
<1>1. CASE need <= alloc
  BY <1>1 DEF Grown
<1>2. CASE need > alloc
  <2>. DEFINE a == need - alloc + chunk - 1
  <2>1. a \in Nat
    BY <1>2
  <2>2. a \div chunk \in Nat /\ chunk * (a \div chunk) \in Nat
        /\ a < chunk * (a \div chunk) + chunk
    BY <2>1, ChunksOf
  <2>3. Grown(alloc, need, chunk) = alloc + chunk * (a \div chunk)
    BY <1>2 DEF Grown
  <2>. HIDE DEF a
  <2>4. a = need - alloc + chunk - 1
    BY DEF a
  <2>. QED  BY <2>1, <2>2, <2>3, <2>4
<1>. QED  BY <1>1, <1>2

(* Making room keeps what is in use.                                        *)
LEMMA BufferKeepsData ==
  ASSUME ContainerTypeOK, InBounds, NEW n \in Nat
  PROVE  LET size == Grown(m_AllocSize, m_Size + n, BufferChunk)
         IN  /\ size \in Nat /\ m_Size + n <= size
             /\ Buffer(n) \in [0 .. size - 1 -> Byte]
             /\ \A i \in 0 .. m_Size - 1 : Buffer(n)[i] = m_lpData[i]
<1>. DEFINE size == Grown(m_AllocSize, m_Size + n, BufferChunk)
<1>1. size \in Nat /\ m_Size + n <= size /\ m_AllocSize <= size
  <2>1. m_AllocSize \in Nat /\ m_Size + n \in Nat /\ BufferChunk \in Nat \ {0}
    BY McScriptAssumption DEF ContainerTypeOK
  <2>. QED  BY <2>1, GrownIsEnough
<1>. HIDE DEF size
<1>2. Buffer(n) = IF size > m_AllocSize
                  THEN Copied(m_lpData, m_Size, size, Zero) ELSE m_lpData
  BY DEF Buffer, size
<1>3. Buffer(n) \in [0 .. size - 1 -> Byte]
  BY <1>1, <1>2, McScriptAssumption DEF ContainerTypeOK, InBounds, Copied
<1>4. \A i \in 0 .. m_Size - 1 : Buffer(n)[i] = m_lpData[i]
  BY <1>1, <1>2 DEF ContainerTypeOK, InBounds, Copied
<1>. QED  BY <1>1, <1>3, <1>4 DEF size

LEMMA IndexKeepsCoords ==
  ASSUME ContainerTypeOK, InBounds, NEW n \in Nat
  PROVE  LET size == Grown(m_AllocElements, m_NumElements + n, IndexChunk)
         IN  /\ size \in Nat /\ m_NumElements + n <= size
             /\ Index(n) \in [0 .. size - 1 -> Nat \X Nat]
             /\ \A e \in 0 .. Last : Index(n)[e] = m_lpCoord[e]
<1>. DEFINE size == Grown(m_AllocElements, m_NumElements + n, IndexChunk)
<1>1. size \in Nat /\ m_NumElements + n <= size /\ m_AllocElements <= size
  <2>1. m_AllocElements \in Nat /\ m_NumElements + n \in Nat /\ IndexChunk \in Nat \ {0}
    BY McScriptAssumption DEF ContainerTypeOK
  <2>. QED  BY <2>1, GrownIsEnough
<1>. HIDE DEF size
<1>2. Index(n) = IF size > m_AllocElements
                 THEN Copied(m_lpCoord, m_NumElements, size, <<0, 0>>) ELSE m_lpCoord
  BY DEF Index, size
<1>3. Index(n) \in [0 .. size - 1 -> Nat \X Nat]
  BY <1>1, <1>2 DEF ContainerTypeOK, InBounds, Copied
<1>4. \A e \in 0 .. Last : Index(n)[e] = m_lpCoord[e]
  BY <1>1, <1>2 DEF ContainerTypeOK, InBounds, Copied, Last
<1>. QED  BY <1>1, <1>3, <1>4 DEF size

-----------------------------------------------------------------------------
(* The invariant and the refinement, action by action.                      *)

LEMMA ElementTypes ==
  ASSUME ContainerInv
  PROVE  /\ elements \in Seq(Seq(Byte)) /\ Len(elements) = m_NumElements
         /\ \A e \in 0 .. Last :
              /\ Offset(e) \in Nat /\ Length(e) \in Nat
              /\ Bytes(m_lpData, Offset(e), Length(e)) \in Seq(Byte)
              /\ Len(Bytes(m_lpData, Offset(e), Length(e))) = Length(e)
              /\ elements[e + 1] = Bytes(m_lpData, Offset(e), Length(e))
<1>1. ASSUME NEW e \in 0 .. Last
      PROVE  /\ Offset(e) \in Nat /\ Length(e) \in Nat
             /\ Bytes(m_lpData, Offset(e), Length(e)) \in Seq(Byte)
             /\ Len(Bytes(m_lpData, Offset(e), Length(e))) = Length(e)
  <2>1. m_lpCoord[e] \in Nat \X Nat
    BY DEF ContainerInv, ContainerTypeOK, InBounds, Last
  <2>2. Offset(e) \in Nat /\ Length(e) \in Nat
    BY <2>1 DEF Offset, Length
  <2>3. Offset(e) + Length(e) <= m_AllocSize
    BY <2>2 DEF ContainerInv, ContainerTypeOK, InBounds, Ordered
  <2>4. \A i \in 1 .. Length(e) : m_lpData[Offset(e) + i - 1] \in Byte
    BY <2>2, <2>3 DEF ContainerInv, ContainerTypeOK
  <2>. QED  BY <2>2, <2>4 DEF Bytes
<1>2. m_NumElements \in Nat
  BY DEF ContainerInv, ContainerTypeOK
<1>3. ASSUME NEW e \in 1 .. m_NumElements
      PROVE  Bytes(m_lpData, Offset(e - 1), Length(e - 1)) \in Seq(Byte)
  BY <1>1, <1>2 DEF Last
<1>4. elements \in Seq(Seq(Byte)) /\ Len(elements) = m_NumElements
  BY <1>2, <1>3 DEF elements
<1>5. ASSUME NEW e \in 0 .. Last
      PROVE  elements[e + 1] = Bytes(m_lpData, Offset(e), Length(e))
  BY <1>2 DEF elements, Last
<1>. QED  BY <1>1, <1>4, <1>5

LEMMA InitCorrect == ContainerInit => ContainerInv /\ Abstract!Init
<1>. SUFFICES ASSUME ContainerInit PROVE ContainerInv /\ Abstract!Init
  OBVIOUS
<1>1. ContainerTypeOK
  BY EmptySeq DEF ContainerInit, ContainerTypeOK, Nothing
<1>2. InBounds /\ Contiguous /\ Ordered
  BY DEF ContainerInit, InBounds, Contiguous, Ordered, Last
<1>3. elements = <<>>
  BY DEF ContainerInit, elements
<1>. QED  BY <1>1, <1>2, <1>3 DEF ContainerInit, ContainerInv, Abstract!Init, Nothing, Abstract!Nothing

LEMMA ClearCorrect ==
  ASSUME ContainerInv, Clear \/ Destroy
  PROVE  ContainerInv' /\ Abstract!Clear
<1>1. /\ m_Size' = 0 /\ m_NumElements' = 0 /\ m_CurrentElement' = -1 /\ got' = got
  BY DEF Clear, Destroy
<1>2. ContainerTypeOK'
  <2>1. CASE Clear
    BY <1>1, <2>1 DEF Clear, buffer, index, ContainerInv, ContainerTypeOK
  <2>2. CASE Destroy
    <3>1. m_AllocSize' = 0 /\ m_AllocElements' = 0 /\ 0 .. 0 - 1 = {}
      BY <2>2 DEF Destroy
    <3>2. m_lpData' = [i \in {} |-> Zero] /\ m_lpCoord' = [i \in {} |-> <<0, 0>>]
      BY <2>2 DEF Destroy
    <3>3. m_lpData' \in [{} -> Byte] /\ m_lpCoord' \in [{} -> Nat \X Nat]
      BY <3>2
    <3>. QED  BY <1>1, <3>1, <3>3 DEF ContainerInv, ContainerTypeOK
  <2>. QED  BY <2>1, <2>2
<1>3. InBounds' /\ Contiguous' /\ Ordered'
  BY <1>1, <1>2 DEF InBounds, Contiguous, Ordered, Last, ContainerTypeOK
<1>4. elements' = <<>>
  BY <1>1 DEF elements
<1>. QED  BY <1>1, <1>2, <1>3, <1>4 DEF ContainerInv, Abstract!Clear

LEMMA SelectCorrect ==
  ASSUME ContainerInv, NEW e \in 0 .. MaxElements, SetElement(e) \/ GetData(e)
  PROVE  ContainerInv' /\ [Abstract!Next]_(Abstract!vars)
<1>1. /\ UNCHANGED <<m_Size, m_NumElements, m_AllocSize, m_lpData, m_AllocElements, m_lpCoord>>
      /\ m_CurrentElement' \in {e, m_CurrentElement} /\ e \in Nat
      /\ m_CurrentElement' = e => e < m_NumElements \/ e = m_CurrentElement
  BY McScriptAssumption DEF SetElement, GetData, buffer, index
<1>2. got' \in Seq(Seq(Byte))
  <2>1. CASE got' = got
    BY <2>1 DEF ContainerInv, ContainerTypeOK
  <2>2. CASE e < m_NumElements /\ got' = <<Bytes(m_lpData, Offset(e), Length(e))>>
    <3>1. e \in 0 .. Last
      BY <1>1, <2>2 DEF ContainerInv, ContainerTypeOK, Last
    <3>. DEFINE b == Bytes(m_lpData, Offset(e), Length(e))
    <3>2. b \in Seq(Byte)
      BY <3>1, ElementTypes
    <3>. HIDE DEF b
    <3>3. <<b>> \in Seq(Seq(Byte))
      BY <3>2
    <3>. QED  BY <2>2, <3>3 DEF b
  <2>3. CASE got' = <<>>
    BY <2>3, EmptySeq
  <2>. QED  BY <2>1, <2>2, <2>3 DEF SetElement, GetData, Something, Nothing
<1>3. ContainerInv'
  <2>1. ContainerTypeOK'
    BY <1>1, <1>2 DEF ContainerInv, ContainerTypeOK
  <2>2. Contiguous' /\ Ordered'
    BY <1>1 DEF ContainerInv, Contiguous, Ordered, Last, Offset, Length
  <2>3. InBounds'
    BY <1>1 DEF ContainerInv, ContainerTypeOK, InBounds, Last
  <2>. QED  BY <2>1, <2>2, <2>3 DEF ContainerInv
<1>4. elements' = elements
  BY <1>1 DEF elements, Offset, Length
<1>5. Len(elements) = m_NumElements
  BY ElementTypes
<1>6. CASE e < m_NumElements
  <2>1. elements[e + 1] = Bytes(m_lpData, Offset(e), Length(e)) /\ e \in 0 .. Len(elements)
    BY <1>1, <1>5, <1>6, ElementTypes DEF Last, ContainerInv, ContainerTypeOK
  <2>2. Abstract!SetElement(e) \/ Abstract!GetData(e)
    BY <1>1, <1>4, <1>5, <1>6, <2>1
       DEF SetElement, GetData, Abstract!SetElement, Abstract!GetData, Something,
           Abstract!Something, ContainerInv, ContainerTypeOK
  <2>. QED  BY <1>3, <2>1, <2>2 DEF Abstract!Next
<1>7. CASE e >= m_NumElements
  <2>1. GetData(e) /\ got' = Nothing /\ m_CurrentElement' = m_CurrentElement
    BY <1>1, <1>7 DEF SetElement, GetData, ContainerInv, ContainerTypeOK
  <2>2. Abstract!GetData(Len(elements)) /\ Len(elements) \in 0 .. Len(elements)
    BY <1>4, <1>5, <2>1 DEF Abstract!GetData, Nothing, Abstract!Nothing, ContainerInv, ContainerTypeOK
  <2>. QED  BY <1>3, <2>2 DEF Abstract!Next
<1>. QED  BY <1>1, <1>3, <1>6, <1>7 DEF ContainerInv, ContainerTypeOK

LEMMA AddElementCorrect ==
  ASSUME ContainerInv, AddElement
  PROVE  ContainerInv' /\ Abstract!AddElement
<1>. PICK n \in Nat : n = m_NumElements
  BY DEF ContainerInv, ContainerTypeOK
<1>1. /\ m_CurrentElement = n - 1 /\ n \in Nat /\ n = m_NumElements /\ m_Size \in Nat
      /\ m_NumElements' = n + 1 /\ m_CurrentElement' = n
      /\ m_Size' = m_Size /\ got' = got
  BY DEF AddElement, AtEnd, ContainerInv, ContainerTypeOK
<1>0. /\ m_lpData' = Buffer(0) /\ m_lpCoord' = [Index(1) EXCEPT ![n] = <<m_Size, 0>>]
      /\ m_AllocSize' = Grown(m_AllocSize, m_Size, BufferChunk)
      /\ m_AllocElements' = Grown(m_AllocElements, n + 1, IndexChunk)
  BY DEF AddElement, AtEnd, Resize, ContainerInv, ContainerTypeOK
<1>2. /\ m_AllocSize' \in Nat /\ m_Size <= m_AllocSize'
      /\ m_lpData' \in [0 .. m_AllocSize' - 1 -> Byte]
      /\ \A i \in 0 .. m_Size - 1 : m_lpData'[i] = m_lpData[i]
  <2>1. m_Size + 0 = m_Size
    BY <1>1
  <2>. QED  BY <1>0, <1>1, <2>1, BufferKeepsData DEF ContainerInv
<1>3. /\ m_AllocElements' \in Nat /\ n + 1 <= m_AllocElements'
      /\ m_lpCoord' \in [0 .. m_AllocElements' - 1 -> Nat \X Nat]
      /\ \A e \in 0 .. n - 1 : m_lpCoord'[e] = m_lpCoord[e]
      /\ m_lpCoord'[n] = <<m_Size, 0>>
  <2>. DEFINE idx == Index(1)
              size == m_AllocElements'
  <2>1. size \in Nat /\ n + 1 <= size
    BY <1>0, <1>1, IndexKeepsCoords DEF ContainerInv
  <2>2. idx \in [0 .. size - 1 -> Nat \X Nat]
    BY <1>0, <1>1, IndexKeepsCoords DEF ContainerInv
  <2>3. \A e \in 0 .. n - 1 : idx[e] = m_lpCoord[e]
    BY <1>0, <1>1, IndexKeepsCoords DEF ContainerInv, Last
  <2>4. m_lpCoord' = [idx EXCEPT ![n] = <<m_Size, 0>>]
    BY <1>0
  <2>5. <<m_Size, 0>> \in Nat \X Nat
    BY <1>1
  <2>. HIDE DEF idx, size
  <2>6. n \in 0 .. size - 1
    BY <1>1, <2>1
  <2>7. m_lpCoord' \in [0 .. size - 1 -> Nat \X Nat] /\ m_lpCoord'[n] = <<m_Size, 0>>
    BY <2>2, <2>4, <2>5, <2>6
  <2>8. \A e \in 0 .. n - 1 : m_lpCoord'[e] = m_lpCoord[e]
    BY <1>1, <2>1, <2>2, <2>3, <2>4
  <2>. QED  BY <2>1, <2>7, <2>8 DEF size
<1>4. /\ \A e \in 0 .. n - 1 : Offset(e)' = Offset(e) /\ Length(e)' = Length(e)
      /\ Offset(n)' = m_Size /\ Length(n)' = 0
      /\ \A e \in 0 .. n - 1 : Offset(e) \in Nat /\ Length(e) \in Nat
      /\ Last' = n /\ Last = n - 1
  <2>1. Last' = n /\ Last = n - 1
    BY <1>1 DEF Last
  <2>2. \A e \in 0 .. n - 1 : Offset(e) \in Nat /\ Length(e) \in Nat
    BY <2>1, ElementTypes
  <2>3. Offset(n)' = m_Size /\ Length(n)' = 0
    BY <1>3 DEF Offset, Length
  <2>4. \A e \in 0 .. n - 1 : Offset(e)' = Offset(e) /\ Length(e)' = Length(e)
    BY <1>3 DEF Offset, Length
  <2>. QED  BY <2>1, <2>2, <2>3, <2>4
<1>5. ContainerTypeOK'
  <2>1. got' \in Seq(Seq(Byte))
    BY <1>1 DEF ContainerInv, ContainerTypeOK
  <2>2. m_NumElements' \in Nat /\ m_CurrentElement' \in Int /\ m_Size' \in Nat
    BY <1>1
  <2>. QED  BY <1>2, <1>3, <2>1, <2>2 DEF ContainerTypeOK
<1>6. InBounds'
  BY <1>1, <1>2, <1>3, <1>4 DEF InBounds
<1>7. Contiguous' /\ Ordered'
  <2>1. Ordered'
    BY <1>1, <1>4 DEF ContainerInv, Ordered
  <2>2. Offset(0)' = 0
    BY <1>1, <1>4 DEF ContainerInv, Contiguous
  <2>3. ASSUME NEW e \in 0 .. n - 1
        PROVE  Offset(e)' + Length(e)' = Offset(e + 1)'
    <3>1. CASE e = n - 1
      BY <1>1, <1>4, <3>1 DEF ContainerInv, Contiguous
    <3>2. CASE e < n - 1
      <4>1. e \in 0 .. Last - 1 /\ e + 1 \in 0 .. n - 1
        BY <1>1, <1>4, <3>2
      <4>. QED  BY <1>4, <4>1 DEF ContainerInv, Contiguous
    <3>. QED  BY <1>1, <3>1, <3>2
  <2>. QED  BY <1>1, <1>4, <2>1, <2>2, <2>3 DEF Contiguous
<1>8. elements' = Append(elements, <<>>)
  <2>1. ASSUME NEW e \in 0 .. n - 1
        PROVE  Bytes(m_lpData, Offset(e), Length(e))' = Bytes(m_lpData, Offset(e), Length(e))
    <3>1. Offset(e) + Length(e) <= m_Size /\ Offset(e) \in Nat /\ Length(e) \in Nat
      BY <1>4 DEF ContainerInv, Ordered
    <3>2. ASSUME NEW i \in 1 .. Length(e)
          PROVE  m_lpData'[Offset(e) + i - 1] = m_lpData[Offset(e) + i - 1]
      <4>1. Offset(e) + i - 1 \in 0 .. m_Size - 1
        BY <1>1, <3>1
      <4>. QED  BY <1>2, <4>1
    <3>. QED  BY <1>4, <3>2 DEF Bytes
  <2>2. Bytes(m_lpData, Offset(n), Length(n))' = <<>>
    BY <1>4 DEF Bytes
  <2>3. elements' \in Seq(Seq(Byte)) /\ Len(elements') = n + 1
        /\ \A e \in 0 .. n : elements'[e + 1] = Bytes(m_lpData, Offset(e), Length(e))'
    <3>1. \A e \in 1 .. n + 1 : Bytes(m_lpData, Offset(e - 1), Length(e - 1))' \in Seq(Byte)
      <4>. SUFFICES ASSUME NEW e \in 0 .. n
                    PROVE  Bytes(m_lpData, Offset(e), Length(e))' \in Seq(Byte)
        BY <1>1
      <4>1. CASE e = n
        BY <2>2, <4>1, EmptySeq
      <4>2. CASE e \in 0 .. n - 1
        BY <1>4, <2>1, <4>2, ElementTypes
      <4>. QED  BY <1>1, <4>1, <4>2
    <3>. QED  BY <1>1, <3>1 DEF elements
  <2>4. /\ Append(elements, <<>>) \in Seq(Seq(Byte)) /\ Len(Append(elements, <<>>)) = n + 1
        /\ \A e \in 1 .. n : Append(elements, <<>>)[e] = elements[e]
        /\ Append(elements, <<>>)[n + 1] = <<>>
    <3>1. elements \in Seq(Seq(Byte)) /\ Len(elements) = n /\ <<>> \in Seq(Byte)
      BY ElementTypes, EmptySeq
    <3>. QED  BY <3>1, AppendProperties
  <2>5. ASSUME NEW e \in 1 .. n + 1
        PROVE  elements'[e] = Append(elements, <<>>)[e]
    <3>1. CASE e = n + 1
      BY <1>1, <2>2, <2>3, <2>4, <3>1
    <3>2. CASE e \in 1 .. n
      <4>1. e - 1 \in 0 .. n - 1 /\ e - 1 \in 0 .. n /\ (e - 1) + 1 = e
        BY <1>1, <3>2
      <4>2. elements'[e] = Bytes(m_lpData, Offset(e - 1), Length(e - 1))
        BY <2>1, <2>3, <4>1
      <4>3. elements[e] = Bytes(m_lpData, Offset(e - 1), Length(e - 1))
        BY <1>4, <4>1, ElementTypes
      <4>. QED  BY <2>4, <3>2, <4>2, <4>3
    <3>3. e = n + 1 \/ e \in 1 .. n
      BY <1>1
    <3>. QED  BY <3>1, <3>2, <3>3
  <2>. QED  BY <2>3, <2>4, <2>5, SeqEqual
<1>9. Abstract!AddElement
  BY <1>1, <1>8, ElementTypes DEF Abstract!AddElement, Abstract!AtEnd
<1>. QED  BY <1>5, <1>6, <1>7, <1>9 DEF ContainerInv

(* The piece lands at the end of the bytes in use, which is the end of the  *)
(* last element.                                                            *)
Fits(a, size, off, len, at, k, src, w) ==
  /\ off \in Nat /\ len \in Nat /\ at \in Nat /\ at = off + len
  /\ src \in Seq(Byte) /\ k = Len(src)
  /\ size \in Nat /\ at + k <= size
  /\ a \in [0 .. size - 1 -> Byte] /\ w = Written(a, at, src)

LEMMA AppendedBytes ==
  ASSUME NEW a, NEW size, NEW off, NEW len, NEW at, NEW k, NEW src, NEW w,
         Fits(a, size, off, len, at, k, src, w)
  PROVE  /\ w \in [0 .. size - 1 -> Byte]
         /\ \A i \in 0 .. at - 1 : w[i] = a[i]
         /\ Bytes(w, off, len + k) = Bytes(a, off, len) \o src
<1>a. a \in [0 .. size - 1 -> Byte] /\ src \in Seq(Byte) /\ k = Len(src)
  BY DEF Fits
<1>1. /\ off \in Nat /\ len \in Nat /\ at \in Nat /\ at = off + len
      /\ k \in Nat /\ size \in Nat /\ at + k <= size
      /\ \A i \in 1 .. k : src[i] \in Byte
  BY LenProperties, ElementOfSeq DEF Fits
<1>2. w = [i \in 0 .. size - 1 |-> IF i \in at .. at + k - 1 THEN src[i - at + 1] ELSE a[i]]
  BY <1>a DEF Fits, Written
<1>3. ASSUME NEW i \in 0 .. size - 1
      PROVE  (IF i \in at .. at + k - 1 THEN src[i - at + 1] ELSE a[i]) \in Byte
  <2>1. CASE i \in at .. at + k - 1
    <3>1. i - at + 1 \in 1 .. k
      BY <1>1, <2>1
    <3>. QED  BY <1>1, <2>1, <3>1
  <2>2. CASE i \notin at .. at + k - 1
    BY <1>a, <2>2
  <2>. QED  BY <2>1, <2>2
<1>4. w \in [0 .. size - 1 -> Byte]
  BY <1>2, <1>3
<1>5. \A i \in 0 .. at - 1 : w[i] = a[i]
  BY <1>1, <1>2
<1>6. \A j \in 1 .. k : w[at + j - 1] = src[j]
  <2>. SUFFICES ASSUME NEW j \in 1 .. k PROVE w[at + j - 1] = src[j]
    OBVIOUS
  <2>1. at + j - 1 \in at .. at + k - 1 /\ at + j - 1 \in 0 .. size - 1
        /\ (at + j - 1) - at + 1 = j
    BY <1>1
  <2>. QED  BY <1>2, <2>1
<1>7. Bytes(w, off, len + k) = Bytes(a, off, len) \o src
  <2>1. Bytes(a, off, len) \in Seq(Byte) /\ Len(Bytes(a, off, len)) = len
        /\ \A i \in 1 .. len : Bytes(a, off, len)[i] = a[off + i - 1]
    <3>1. \A i \in 1 .. len : a[off + i - 1] \in Byte
      BY <1>a, <1>1
    <3>. QED  BY <1>1, <3>1 DEF Bytes
  <2>2. Bytes(w, off, len + k) \in Seq(Byte) /\ Len(Bytes(w, off, len + k)) = len + k
        /\ \A i \in 1 .. len + k : Bytes(w, off, len + k)[i] = w[off + i - 1]
    <3>. DEFINE m == len + k
    <3>1. \A i \in 1 .. m : w[off + i - 1] \in Byte
      BY <1>1, <1>4
    <3>2. m \in Nat
      BY <1>1
    <3>. HIDE DEF m
    <3>3. /\ Bytes(w, off, m) \in Seq(Byte) /\ Len(Bytes(w, off, m)) = m
          /\ \A i \in 1 .. m : Bytes(w, off, m)[i] = w[off + i - 1]
      BY <3>1, <3>2 DEF Bytes
    <3>. QED  BY <3>3 DEF m
  <2>3. /\ Bytes(a, off, len) \o src \in Seq(Byte)
        /\ Len(Bytes(a, off, len) \o src) = len + k
        /\ \A i \in 1 .. len + k : (Bytes(a, off, len) \o src)[i] =
             IF i <= len THEN Bytes(a, off, len)[i] ELSE src[i - len]
    <3>b. PICK b : b = Bytes(a, off, len)
      OBVIOUS
    <3>1. b \in Seq(Byte) /\ Len(b) = len
      BY <2>1, <3>b
    <3>2. /\ b \o src \in Seq(Byte) /\ Len(b \o src) = Len(b) + Len(src)
          /\ \A i \in 1 .. Len(b) + Len(src) :
               (b \o src)[i] = IF i <= Len(b) THEN b[i] ELSE src[i - Len(b)]
      BY <1>a, <3>1, ConcatProperties
    <3>. QED  BY <1>a, <3>b, <3>1, <3>2
  <2>4. ASSUME NEW i \in 1 .. len + k
        PROVE  Bytes(w, off, len + k)[i] = (Bytes(a, off, len) \o src)[i]
    <3>1. CASE i <= len
      <4>1. i \in 1 .. len /\ off + i - 1 \in 0 .. at - 1
        BY <1>1, <3>1
      <4>. QED  BY <1>5, <2>1, <2>2, <2>3, <3>1, <4>1
    <3>2. CASE i > len
      <4>1. i - len \in 1 .. k /\ at + (i - len) - 1 = off + i - 1 /\ ~(i <= len)
        BY <1>1, <3>2
      <4>2. w[off + i - 1] = src[i - len]
        BY <1>6, <4>1
      <4>. QED  BY <2>2, <2>3, <4>1, <4>2
    <3>3. i <= len \/ i > len
      BY <1>1
    <3>. QED  BY <3>1, <3>2, <3>3
  <2>. QED  BY <2>2, <2>3, <2>4, SeqEqual
<1>. QED  BY <1>4, <1>5, <1>7

LEMMA SetDataCorrect ==
  ASSUME ContainerInv, NEW src \in Piece, SetData(src)
  PROVE  ContainerInv' /\ Abstract!SetData(src)
<1>a. PICK n \in Nat : n = m_NumElements - 1
  BY DEF SetData, ContainerInv, ContainerTypeOK
<1>b. PICK off \in Nat, len \in Nat : off = Offset(n) /\ len = Length(n)
  <2>1. n \in 0 .. Last
    BY <1>a DEF Last
  <2>. QED  BY <2>1, ElementTypes
<1>c. PICK k \in Nat : k = Len(src) /\ src \in Seq(Byte)
  BY McScriptAssumption, LenProperties
<1>1. /\ m_NumElements = n + 1 /\ m_CurrentElement = n /\ n \in Nat /\ Last = n
      /\ m_NumElements' = n + 1 /\ m_CurrentElement' = n /\ Last' = n
      /\ m_Size \in Nat /\ m_Size' = m_Size + k /\ k \in Nat
      /\ off + len = m_Size /\ off \in Nat /\ len \in Nat
  <2>1. m_CurrentElement = n /\ m_NumElements = n + 1 /\ Last = n /\ n \in Nat
    BY <1>a DEF SetData, AtEnd, ContainerInv, ContainerTypeOK, Last
  <2>2. off + len = m_Size /\ off \in Nat /\ len \in Nat
    BY <1>b, <2>1 DEF ContainerInv, Contiguous
  <2>. QED  BY <1>c, <2>1, <2>2 DEF SetData, ContainerInv, ContainerTypeOK, Last
<1>2. /\ m_lpData' = Written(Buffer(k), off + len, src)
      /\ m_lpCoord' = [Index(0) EXCEPT ![n] = <<@[1], @[2] + k>>]
      /\ m_AllocSize' = Grown(m_AllocSize, m_Size + k, BufferChunk)
      /\ m_AllocElements' = Grown(m_AllocElements, m_NumElements, IndexChunk)
  <2>1. m_NumElements + 0 = m_NumElements
    BY <1>1
  <2>. QED  BY <1>a, <1>b, <1>c, <1>1, <2>1 DEF SetData, Resize
<1>3. /\ m_AllocSize' \in Nat /\ m_Size + k <= m_AllocSize'
      /\ Buffer(k) \in [0 .. m_AllocSize' - 1 -> Byte]
      /\ \A i \in 0 .. m_Size - 1 : Buffer(k)[i] = m_lpData[i]
  BY <1>1, <1>2, BufferKeepsData DEF ContainerInv
<1>4. /\ m_lpData' \in [0 .. m_AllocSize' - 1 -> Byte]
      /\ \A i \in 0 .. m_Size - 1 : m_lpData'[i] = m_lpData[i]
      /\ Bytes(m_lpData', off, len + k) = Bytes(m_lpData, off, len) \o src
  <2>a. PICK a, size : a = Buffer(k) /\ size = m_AllocSize'
    OBVIOUS
  <2>b. PICK at, w : at = off + len /\ w = Written(a, at, src)
    OBVIOUS
  <2>1. a \in [0 .. size - 1 -> Byte] /\ size \in Nat
    BY <1>3, <2>a
  <2>2. at \in Nat /\ at + k <= size
    BY <1>1, <1>3, <2>a, <2>b
  <2>3. m_lpData' = w
    BY <1>2, <2>a, <2>b
  <2>6. ASSUME NEW i \in 0 .. off + len - 1 PROVE a[i] = m_lpData[i]
    <3>1. i \in 0 .. m_Size - 1
      BY <1>1
    <3>. QED  BY <1>3, <2>a, <3>1
  <2>7. /\ w \in [0 .. size - 1 -> Byte]
        /\ \A i \in 0 .. at - 1 : w[i] = a[i]
        /\ Bytes(w, off, len + k) = Bytes(a, off, len) \o src
    <3>1. Fits(a, size, off, len, at, k, src, w)
      BY <1>c, <1>b, <2>b, <2>1, <2>2 DEF Fits
    <3>. QED  BY <3>1, AppendedBytes
  <2>4. Bytes(a, off, len) = Bytes(m_lpData, off, len)
    <3>1. ASSUME NEW i \in 1 .. len PROVE a[off + i - 1] = m_lpData[off + i - 1]
      <4>1. off + i - 1 \in 0 .. off + len - 1
        BY <1>1
      <4>. QED  BY <2>6, <4>1
    <3>. QED  BY <3>1 DEF Bytes
  <2>5. ASSUME NEW i \in 0 .. m_Size - 1 PROVE w[i] = m_lpData[i]
    <3>1. i \in 0 .. off + len - 1 /\ i \in 0 .. at - 1
      BY <1>1, <2>b
    <3>. QED  BY <2>6, <2>7, <3>1
  <2>. QED  BY <1>c, <2>a, <2>3, <2>4, <2>5, <2>7
<1>5. /\ m_AllocElements' \in Nat /\ n + 1 <= m_AllocElements'
      /\ m_lpCoord' \in [0 .. m_AllocElements' - 1 -> Nat \X Nat]
      /\ \A e \in 0 .. n - 1 : m_lpCoord'[e] = m_lpCoord[e]
      /\ m_lpCoord'[n] = <<off, len + k>>
  <2>. DEFINE idx == Index(0)
              size == m_AllocElements'
  <2>1. m_NumElements + 0 = m_NumElements
    BY <1>1
  <2>2. size \in Nat /\ m_NumElements <= size
    BY <1>2, <2>1, IndexKeepsCoords DEF ContainerInv
  <2>3. idx \in [0 .. size - 1 -> Nat \X Nat]
    BY <1>2, <2>1, IndexKeepsCoords DEF ContainerInv
  <2>4. \A e \in 0 .. n : idx[e] = m_lpCoord[e]
    BY <1>1, IndexKeepsCoords DEF ContainerInv
  <2>5. idx[n][1] = off /\ idx[n][2] = len
    BY <1>b, <1>1, <2>4 DEF Offset, Length
  <2>6. m_lpCoord' = [idx EXCEPT ![n] = <<off, len + k>>]
    BY <1>2, <2>5
  <2>7. <<off, len + k>> \in Nat \X Nat
    BY <1>1
  <2>. HIDE DEF idx, size
  <2>8. n \in 0 .. size - 1
    BY <1>1, <2>2
  <2>9. m_lpCoord' \in [0 .. size - 1 -> Nat \X Nat] /\ m_lpCoord'[n] = <<off, len + k>>
    BY <2>3, <2>6, <2>7, <2>8
  <2>10. \A e \in 0 .. n - 1 : m_lpCoord'[e] = m_lpCoord[e]
    BY <1>1, <2>2, <2>3, <2>4, <2>6
  <2>. QED  BY <1>1, <2>2, <2>9, <2>10 DEF size
<1>6. /\ Offset(n)' = off /\ Length(n)' = len + k
      /\ \A e \in 0 .. n - 1 : Offset(e)' = Offset(e) /\ Length(e)' = Length(e)
      /\ \A e \in 0 .. n - 1 : Offset(e) \in Nat /\ Length(e) \in Nat
  <2>1. Offset(n)' = off /\ Length(n)' = len + k
    BY <1>5 DEF Offset, Length
  <2>2. \A e \in 0 .. n - 1 : Offset(e)' = Offset(e) /\ Length(e)' = Length(e)
    BY <1>5 DEF Offset, Length
  <2>3. \A e \in 0 .. n - 1 : Offset(e) \in Nat /\ Length(e) \in Nat
    BY <1>1, ElementTypes
  <2>. QED  BY <2>1, <2>2, <2>3
<1>7. ContainerTypeOK'
  <2>1. got' \in Seq(Seq(Byte))
    BY DEF SetData, ContainerInv, ContainerTypeOK
  <2>2. m_NumElements' \in Nat /\ m_CurrentElement' \in Int /\ m_Size' \in Nat
    BY <1>1
  <2>. QED  BY <1>3, <1>4, <1>5, <2>1, <2>2 DEF ContainerTypeOK
<1>8. InBounds'
  BY <1>1, <1>3, <1>5 DEF InBounds
<1>9. Contiguous' /\ Ordered'
  <2>1. Offset(0)' = 0
    <3>1. Offset(0) = 0
      BY <1>1 DEF ContainerInv, Contiguous
    <3>2. CASE n = 0
      BY <1>b, <1>6, <3>1, <3>2
    <3>3. CASE n > 0
      BY <1>1, <1>6, <3>1, <3>3
    <3>. QED  BY <1>1, <3>2, <3>3
  <2>2. ASSUME NEW e \in 0 .. n - 1
        PROVE  Offset(e)' + Length(e)' = Offset(e + 1)'
    <3>1. Offset(e) + Length(e) = Offset(e + 1)
      BY <1>1 DEF ContainerInv, Contiguous
    <3>2. Offset(e + 1)' = Offset(e + 1)
      <4>1. CASE e + 1 = n
        BY <1>b, <1>6, <4>1
      <4>2. CASE e + 1 \in 0 .. n - 1
        BY <1>6, <4>2
      <4>. QED  BY <1>1, <4>1, <4>2
    <3>. QED  BY <1>6, <3>1, <3>2
  <2>3. Offset(n)' + Length(n)' = m_Size'
    BY <1>1, <1>6
  <2>4. ASSUME NEW e \in 0 .. n
        PROVE  /\ Offset(e)' + Length(e)' <= m_Size'
               /\ e < n => Offset(e)' + Length(e)' <= Offset(n)'
    <3>1. CASE e = n
      BY <1>1, <2>3, <3>1
    <3>2. CASE e \in 0 .. n - 1
      <4>1. Offset(e) + Length(e) <= m_Size /\ Offset(e) + Length(e) <= off
        BY <1>b, <1>1, <3>2 DEF ContainerInv, Ordered
      <4>. QED  BY <1>1, <1>6, <3>2, <4>1
    <3>. QED  BY <1>1, <3>1, <3>2
  <2>5. Ordered'
    BY <1>1, <2>4 DEF Ordered
  <2>6. Contiguous'
    BY <1>1, <2>1, <2>2, <2>3 DEF Contiguous
  <2>. QED  BY <2>5, <2>6
<1>. DEFINE appended == [elements EXCEPT ![n + 1] = @ \o src]
<1>10. elements' = appended
  <2>1. \A e \in 0 .. n - 1 :
          Bytes(m_lpData, Offset(e), Length(e))' = Bytes(m_lpData, Offset(e), Length(e))
    <3>. SUFFICES ASSUME NEW e \in 0 .. n - 1
                  PROVE  Bytes(m_lpData, Offset(e), Length(e))'
                           = Bytes(m_lpData, Offset(e), Length(e))
      OBVIOUS
    <3>1. Offset(e) + Length(e) <= m_Size /\ Offset(e) \in Nat /\ Length(e) \in Nat
      BY <1>1, <1>6 DEF ContainerInv, Ordered
    <3>2. ASSUME NEW i \in 1 .. Length(e)
          PROVE  m_lpData'[Offset(e) + i - 1] = m_lpData[Offset(e) + i - 1]
      <4>1. Offset(e) + i - 1 \in 0 .. m_Size - 1
        BY <1>1, <3>1
      <4>. QED  BY <1>4, <4>1
    <3>. QED  BY <1>6, <3>2 DEF Bytes
  <2>2. Bytes(m_lpData, Offset(n), Length(n))' = Bytes(m_lpData, off, len) \o src
    BY <1>4, <1>6
  <2>3. elements \in Seq(Seq(Byte)) /\ Len(elements) = n + 1
        /\ elements[n + 1] = Bytes(m_lpData, off, len)
        /\ \A e \in 0 .. n - 1 : elements[e + 1] = Bytes(m_lpData, Offset(e), Length(e))
    BY <1>b, <1>1, ElementTypes
  <2>4. elements' = [e \in 1 .. n + 1 |-> Bytes(m_lpData, Offset(e - 1), Length(e - 1))']
    BY <1>1 DEF elements
  <2>5. DOMAIN elements = 1 .. n + 1
    BY <1>1 DEF elements
  <2>6. ASSUME NEW e \in 1 .. n + 1
        PROVE  Bytes(m_lpData, Offset(e - 1), Length(e - 1))' = appended[e]
    <3>1. CASE e = n + 1
      <4>1. e - 1 = n
        BY <1>1, <3>1
      <4>. QED  BY <2>2, <2>3, <2>5, <3>1, <4>1
    <3>2. CASE e \in 1 .. n
      <4>1. e - 1 \in 0 .. n - 1 /\ (e - 1) + 1 = e /\ e # n + 1
        BY <1>1, <3>2
      <4>. QED  BY <2>1, <2>3, <2>5, <4>1
    <3>3. e = n + 1 \/ e \in 1 .. n
      BY <1>1
    <3>. QED  BY <3>1, <3>2, <3>3
  <2>. QED  BY <2>4, <2>5, <2>6
<1>11. Abstract!SetData(src)
  <2>1. Len(elements) = n + 1 /\ elements # <<>>
    BY <1>1, ElementTypes, EmptySeq
  <2>. QED  BY <1>1, <1>10, <2>1 DEF Abstract!SetData, Abstract!AtEnd, SetData
<1>. QED  BY <1>7, <1>8, <1>9, <1>11 DEF ContainerInv

LEMMA StutterCorrect ==
  ASSUME ContainerInv, UNCHANGED containerVars
  PROVE  ContainerInv' /\ UNCHANGED Abstract!vars
<1>. USE DEF containerVars, buffer, index
<1>1. ContainerTypeOK' /\ InBounds'
  BY DEF ContainerInv, ContainerTypeOK, InBounds, Last
<1>2. Contiguous' /\ Ordered'
  BY DEF ContainerInv, Contiguous, Ordered, Last, Offset, Length
<1>3. elements' = elements
  BY DEF elements, Offset, Length
<1>. QED  BY <1>1, <1>2, <1>3 DEF ContainerInv, Abstract!vars

LEMMA StepCorrect == ContainerInv /\ [ContainerNext]_containerVars => ContainerInv' /\ [Abstract!Next]_(Abstract!vars)
<1>. SUFFICES ASSUME ContainerInv, [ContainerNext]_containerVars PROVE ContainerInv' /\ [Abstract!Next]_(Abstract!vars)
  OBVIOUS
<1>1. CASE UNCHANGED containerVars
  BY <1>1, StutterCorrect
<1>2. CASE Clear \/ Destroy
  BY <1>2, ClearCorrect DEF Abstract!Next
<1>3. CASE AddElement
  BY <1>3, AddElementCorrect DEF Abstract!Next
<1>4. ASSUME NEW src \in Piece, SetData(src)
      PROVE  ContainerInv' /\ [Abstract!Next]_(Abstract!vars)
  BY <1>4, SetDataCorrect DEF Abstract!Next
<1>5. ASSUME NEW e \in 0 .. MaxElements, SetElement(e) \/ GetData(e)
      PROVE  ContainerInv' /\ [Abstract!Next]_(Abstract!vars)
  BY <1>5, SelectCorrect
<1>. QED  BY <1>1, <1>2, <1>3, <1>4, <1>5 DEF ContainerNext

-----------------------------------------------------------------------------
(* The strengthening holds of every behaviour.                              *)
THEOREM ContainerInvariance == ContainerSpec => []ContainerInv
<1>1. ContainerInv /\ [ContainerNext]_containerVars => ContainerInv'
  BY StepCorrect
<1>. QED  BY <1>1, InitCorrect, PTL DEF ContainerSpec

(* The fields keep their types, and the arrays the sizes the container      *)
(* believes they have (Resize, hdacscript.cpp:68-125).                      *)
THEOREM ContainerTypeCorrect == ContainerSpec => []ContainerTypeOK
<1>1. ContainerInv => ContainerTypeOK
  BY DEF ContainerInv
<1>. QED  BY <1>1, ContainerInvariance, PTL

(* AddElement, SetData and GetData stay inside the two arrays.              *)
THEOREM StaysInBounds == ContainerSpec => []InBounds
<1>1. ContainerInv => InBounds
  BY DEF ContainerInv
<1>. QED  BY <1>1, ContainerInvariance, PTL

(* The elements tile the bytes in use.                                      *)
THEOREM ElementsTile == ContainerSpec => []Contiguous
<1>1. ContainerInv => Contiguous
  BY DEF ContainerInv
<1>. QED  BY <1>1, ContainerInvariance, PTL

(* The container implements the list of byte strings its clients rely on.   *)
THEOREM ContainerRefinement == ContainerSpec => ImplementsElements
BY InitCorrect, StepCorrect, ContainerInvariance, PTL DEF ContainerSpec, ImplementsElements, Abstract!Spec

=============================================================================
