----------------------------- MODULE LockedPages -----------------------------
(***************************************************************************)
(* LockedPageManagerBase of utils/include/utils/allocators.h: it keeps the *)
(* pages that hold key material out of swap.  mlock() does not stack, so   *)
(* the manager counts the live objects on each page and unlocks a page     *)
(* when the last of them is destroyed.  The clients are LockObject and     *)
(* UnlockObject (CKey, the seed of ECC_Start) and secure_allocator.        *)
(*                                                                         *)
(* Threads create and destroy objects concurrently.  LockRange and         *)
(* UnlockRange hold the manager's mutex while they walk the pages of an    *)
(* object; every page takes two steps, looking the page up and acting on   *)
(* what was found, so that what the mutex protects is visible.             *)
(*                                                                         *)
(* A page is identified by its number, address \div PageSize: for a power  *)
(* of two that is what `address & page_mask' computes, and `page +=        *)
(* page_size' goes to the next number.                                     *)
(***************************************************************************)
EXTENDS Integers, FiniteSets

CONSTANTS
  Thread,       (* threads that create and destroy objects                  *)
  Object,       (* memory ranges, records of an address and a size          *)
  PageSize,     (* page_size                                                *)
  Page,         (* page numbers                                             *)
  NONE          (* no thread, no object                                     *)

VARIABLES
  mutex,      (* the thread that holds the manager's mutex, or NONE         *)
  histogram,  (* lock count of each page; 0: the page is not in the map     *)
  locked,     (* the pages the kernel holds in memory                       *)
  refused,    (* history: pages in the map for which mlock() failed         *)
  phase,      (* where each object is in its life                           *)
  secret,     (* the object holds key material                              *)
  pc,         (* the statement a thread is at                               *)
  obj,        (* the object it is locking or unlocking                      *)
  cur,        (* `page', the page its loop is at                            *)
  found       (* the iterator of its loop is not histogram.end()            *)

kernel == <<locked, refused>>
vars == <<mutex, histogram, kernel, phase, secret, pc, obj, cur, found>>
loop == <<pc, obj, cur, found>>

-----------------------------------------------------------------------------
StartPage(o) == o.base \div PageSize

EndPage(o) == (o.base + o.size - 1) \div PageSize

(* The pages on which the object has a byte.                                *)
PagesOf(o) == {a \div PageSize : a \in o.base .. o.base + o.size - 1}

ASSUME LockedPagesAssumption ==
  /\ Object \subseteq [base : Nat, size : Nat]
  /\ IsFiniteSet(Object)
  /\ PageSize \in Nat \ {0}
  /\ Page \subseteq Nat
  /\ \A o \in Object : o.size > 0 => StartPage(o) .. EndPage(o) \subseteq Page
  /\ NONE \notin Thread \union Object

Phase == {"dead", "locking", "alive", "unlocking"}
Location == {"idle", "lock", "lockFind", "lockPage", "unlock", "unlockFind", "unlockPage"}

Goto(t, l) == pc' = [pc EXCEPT ![t] = l]

Init ==
  /\ mutex = NONE
  /\ histogram = [p \in Page |-> 0]
  /\ locked = {}
  /\ refused = {}
  /\ phase = [o \in Object |-> "dead"]
  /\ secret = [o \in Object |-> FALSE]
  /\ pc = [t \in Thread |-> "idle"]
  /\ obj = [t \in Thread |-> NONE]
  /\ cur = [t \in Thread |-> 0]
  /\ found = [t \in Thread |-> FALSE]

(* The mutex is taken on entry, before the size is looked at.               *)
Acquire(t, from, to) ==
  /\ pc[t] = from
  /\ mutex = NONE
  /\ mutex' = t
  /\ cur' = [cur EXCEPT ![t] = StartPage(obj[t])]
  /\ Goto(t, to)
  /\ UNCHANGED <<histogram, kernel, phase, secret, obj, found>>

(* `if (!size) return;' and the end of the loop.                            *)
PastEnd(t) == obj[t].size = 0 \/ cur[t] > EndPage(obj[t])

(* The loop looks the next page up.                                         *)
Find(t, from, to) ==
  /\ pc[t] = from
  /\ ~PastEnd(t)
  /\ found' = [found EXCEPT ![t] = histogram[cur[t]] > 0]
  /\ Goto(t, to)
  /\ UNCHANGED <<mutex, histogram, kernel, phase, secret, obj, cur>>

(* The range is done: the mutex is released, the object has its phase and   *)
(* the locals of the loop are gone.                                         *)
Release(t, from, now) ==
  /\ pc[t] = from
  /\ PastEnd(t)
  /\ mutex' = NONE
  /\ phase' = [phase EXCEPT ![obj[t]] = now]
  /\ Goto(t, "idle")
  /\ obj' = [obj EXCEPT ![t] = NONE]
  /\ cur' = [cur EXCEPT ![t] = 0]
  /\ found' = [found EXCEPT ![t] = FALSE]
  /\ UNCHANGED <<histogram, kernel, secret>>

-----------------------------------------------------------------------------
(* LockObject, secure_allocator::allocate: the range of a new object.       *)
LockObject(t, o) ==
  /\ pc[t] = "idle"
  /\ phase[o] = "dead"
  /\ phase' = [phase EXCEPT ![o] = "locking"]
  /\ obj' = [obj EXCEPT ![t] = o]
  /\ Goto(t, "lock")
  /\ UNCHANGED <<mutex, histogram, kernel, secret, cur, found>>

(* A page that was not in the map is handed to mlock(), which may fail      *)
(* (RLIMIT_MEMLOCK) and whose result is dropped, and counted; one that was  *)
(* is counted once more.                                                    *)
LockPage(t) ==
  /\ pc[t] = "lockPage"
  /\ \/ /\ ~found[t]
        /\ \/ locked' = locked \union {cur[t]} /\ UNCHANGED refused
           \/ refused' = refused \union {cur[t]} /\ UNCHANGED locked
        /\ histogram' = [histogram EXCEPT ![cur[t]] = IF @ = 0 THEN 1 ELSE @]
     \/ /\ found[t]
        /\ histogram' = [histogram EXCEPT ![cur[t]] = @ + 1]
        /\ UNCHANGED kernel
  /\ cur' = [cur EXCEPT ![t] = @ + 1]
  /\ Goto(t, "lockFind")
  /\ UNCHANGED <<mutex, phase, secret, obj, found>>

(* The owner writes key bytes into a live object.                           *)
Fill(o) ==
  /\ phase[o] = "alive"
  /\ secret' = [secret EXCEPT ![o] = TRUE]
  /\ UNCHANGED <<mutex, histogram, kernel, phase, loop>>

(* UnlockObject, secure_allocator::deallocate: OPENSSL_cleanse first.       *)
UnlockObject(t, o) ==
  /\ pc[t] = "idle"
  /\ phase[o] = "alive"
  /\ secret' = [secret EXCEPT ![o] = FALSE]
  /\ phase' = [phase EXCEPT ![o] = "unlocking"]
  /\ obj' = [obj EXCEPT ![t] = o]
  /\ Goto(t, "unlock")
  /\ UNCHANGED <<mutex, histogram, kernel, cur, found>>

(* Variant: memory locks used naively, one munlock() per object.            *)
UnlockPage_Naive(t) ==
  /\ pc[t] = "unlockPage"
  /\ found[t]
  /\ histogram' = [histogram EXCEPT ![cur[t]] = @ - 1]
  /\ locked' = locked \ {cur[t]}
  /\ refused' = refused \ {cur[t]}
  /\ cur' = [cur EXCEPT ![t] = @ + 1]
  /\ Goto(t, "unlockFind")
  /\ UNCHANGED <<mutex, phase, secret, obj, found>>

(* Variant: a page whose count falls to zero leaves the map but stays       *)
(* locked.                                                                  *)
UnlockPage_Kept(t) ==
  /\ pc[t] = "unlockPage"
  /\ found[t]
  /\ histogram' = [histogram EXCEPT ![cur[t]] = @ - 1]
  /\ cur' = [cur EXCEPT ![t] = @ + 1]
  /\ Goto(t, "unlockFind")
  /\ UNCHANGED <<mutex, kernel, phase, secret, obj, found>>

(* Variant: the loop does not advance.                                      *)
UnlockPage_Stays(t) ==
  /\ pc[t] = "unlockPage"
  /\ found[t]
  /\ Goto(t, "unlockFind")
  /\ UNCHANGED <<mutex, histogram, kernel, phase, secret, obj, cur, found>>

(* The assertion that the page is in the map is a guard; the last object    *)
(* out unlocks the page and takes it out of the map.                        *)
UnlockPage(t) ==
  /\ pc[t] = "unlockPage"
  /\ found[t]
  /\ histogram' = [histogram EXCEPT ![cur[t]] = @ - 1]
  /\ locked' = IF histogram[cur[t]] = 1 THEN locked \ {cur[t]} ELSE locked
  /\ refused' = IF histogram[cur[t]] = 1 THEN refused \ {cur[t]} ELSE refused
  /\ cur' = [cur EXCEPT ![t] = @ + 1]
  /\ Goto(t, "unlockFind")
  /\ UNCHANGED <<mutex, phase, secret, obj, found>>

LockRange(t) ==
  \/ Acquire(t, "lock", "lockFind")
  \/ Find(t, "lockFind", "lockPage")
  \/ LockPage(t)
  \/ Release(t, "lockFind", "alive")

UnlockRange(t) ==
  \/ Acquire(t, "unlock", "unlockFind")
  \/ Find(t, "unlockFind", "unlockPage")
  \/ UnlockPage(t)
  \/ Release(t, "unlockFind", "dead")

Next ==
  \/ \E t \in Thread : LockRange(t) \/ UnlockRange(t)
  \/ \E t \in Thread, o \in Object : LockObject(t, o) \/ UnlockObject(t, o)
  \/ \E o \in Object : Fill(o)

(* A thread that holds the mutex is scheduled until it releases it.  Boost's *)
(* mutex is not fair, so nothing is assumed of the threads that wait for it. *)
Spec ==
  /\ Init /\ [][Next]_vars
  /\ \A t \in Thread : WF_vars(mutex = t /\ (LockRange(t) \/ UnlockRange(t)))

-----------------------------------------------------------------------------
(* Properties.                                                              *)

TypeOK ==
  /\ mutex \in Thread \union {NONE}
  /\ histogram \in [Page -> Nat]
  /\ locked \in SUBSET Page /\ refused \in SUBSET Page
  /\ phase \in [Object -> Phase]
  /\ secret \in [Object -> BOOLEAN]
  /\ pc \in [Thread -> Location]
  /\ obj \in [Thread -> Object \union {NONE}]
  /\ cur \in [Thread -> Nat]
  /\ found \in [Thread -> BOOLEAN]

(* The purpose of the manager: as long as an object holds key material,     *)
(* every page it has a byte on is locked, or mlock() refused it when the    *)
(* page got its first object, whatever else is being created and destroyed  *)
(* on those pages (allocators.h:15-17).                                     *)
SecretsStayLocked ==
  \A o \in Object : secret[o] => PagesOf(o) \subseteq locked \union refused

(* Between two ranges the count of a page is the number of objects on it    *)
(* that have been locked and not yet unlocked.                              *)
Standing(o) ==
  \/ phase[o] = "alive"
  \/ phase[o] = "unlocking"

CountsAreExact ==
  mutex = NONE =>
    \A p \in Page :
      histogram[p] = Cardinality({o \in Object : Standing(o) /\ p \in PagesOf(o)})

(* Between two ranges the pages that are locked are exactly those in the    *)
(* map that mlock() did not refuse: none is left locked when its last       *)
(* object is gone, and none is given up before (allocators.h:76-81).        *)
LockedIffCounted ==
  mutex = NONE => locked = {p \in Page : histogram[p] > 0} \ refused

(* The bookkeeping of the manager agrees with the objects there are and     *)
(* with the kernel, in whatever order objects come and go.                  *)
BookkeepingIsExact == CountsAreExact /\ LockedIffCounted

(* No object is unlocked on a page that is not in the map                   *)
(* (allocators.h:73).                                                       *)
UnlockFindsPage == \A t \in Thread : pc[t] = "unlockPage" => found[t]

(* The mutex is never kept for ever.                                        *)
MutexIsReleased == mutex # NONE ~> mutex = NONE

=============================================================================
