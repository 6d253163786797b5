----------------------------- MODULE EccContext -----------------------------
(***************************************************************************)
(* The two process-wide secp256k1 contexts of keys/src/key.cpp (signing)   *)
(* and keys/src/pubkey.cpp (verification), the RAII object                 *)
(* EccAutoInitReleaseHandler that opens and closes them, and the SDK calls *)
(* that run inside such a scope.  The globals are not protected by a lock: *)
(* every statement that touches one is a step of its own, so that calls of *)
(* different threads interleave between the statements.                    *)
(***************************************************************************)
EXTENDS Naturals, Sequences

CONSTANTS
  Thread,         (* the application threads that call the SDK              *)
  Call,           (* the SDK calls they make, a subset of DOMAIN Program    *)
  Addr,           (* the addresses the allocator may return for a context   *)
  NULL,           (* the null pointer                                       *)
  Exclusive,      (* TRUE: the application makes one SDK call at a time     *)
  SanityMayFail   (* TRUE: ECC_InitSanityCheck may return false             *)

VARIABLES
  sign,      (* secp256k1_context_sign                                      *)
  verify,    (* secp256k1_context_verify                                    *)
  refcount,  (* ECCVerifyHandle::refcount                                   *)
  live,      (* contexts created and not yet destroyed                      *)
  pc,        (* the statement a thread is at                                *)
  todo,      (* the blocks of its call still to run, the current one first  *)
  mine,      (* the local `ctx' of ECC_Start and ECC_Stop                   *)
  held,      (* member verifyHandle is set                                  *)
  opening,   (* inside the constructor of EccAutoInitReleaseHandler         *)
  insane     (* the scope's sanity check failed                             *)

globals == <<sign, verify, refcount, live>>
vars == <<sign, verify, refcount, live, pc, todo, mine, held, opening, insane>>

-----------------------------------------------------------------------------
(* What a call does, as far as the contexts are concerned: a sequence of    *)
(* blocks, each inside or outside an EccAutoInitReleaseHandler, and the     *)
(* contexts its body hands to libsecp256k1.                                 *)

Context == {"sign", "verify"}
Block == [scoped : BOOLEAN, uses : SUBSET Context]

Scoped(uses)   == [scoped |-> TRUE,  uses |-> uses]
Unscoped(uses) == [scoped |-> FALSE, uses |-> uses]

(* MakeNewKey runs before the scope is opened.                              *)
createKeyPairs == <<Unscoped({"sign"}), Scoped({"sign"})>>

(* TemplateSolver's verdict is taken before the scope of solver is opened.  *)
solver == Scoped({"sign"})

(* The key is decoded and checked outside any scope; the change script has  *)
(* a scope of its own; a pay-to-script-hash input calls solver twice.       *)
createAssetSendTx == <<Unscoped({"sign"}), Scoped({"sign"}), solver, solver>>

createStreamPublishTx == <<solver, solver>>

VerifyMessage == <<Scoped({"verify"})>>

SignMessage == <<Scoped({"sign", "verify"})>>

(* Each public key is checked with CPubKey::IsFullyValid; there is no scope. *)
createMultisigRedeemScript == <<Unscoped({"verify"})>>

Program ==
  [createKeyPairs             |-> createKeyPairs,
   createAssetSendTx          |-> createAssetSendTx,
   createStreamPublishTx      |-> createStreamPublishTx,
   VerifyMessage              |-> VerifyMessage,
   SignMessage                |-> SignMessage,
   createMultisigRedeemScript |-> createMultisigRedeemScript]

ASSUME EccAssumption ==
  /\ Call \subseteq DOMAIN Program
  /\ NULL \notin Addr
  /\ Exclusive \in BOOLEAN
  /\ SanityMayFail \in BOOLEAN

-----------------------------------------------------------------------------
Location == {"idle", "next", "start", "create", "publish", "test", "vacant", "open", "inc",
             "sanity", "body", "load", "clear", "destroy", "dec", "free", "occupied", "drop",
             "unset"}

Goto(t, l) == pc' = [pc EXCEPT ![t] = l]

Init ==
  /\ sign = NULL
  /\ verify = NULL
  /\ refcount = 0
  /\ live = {}
  /\ pc = [t \in Thread |-> "idle"]
  /\ todo = [t \in Thread |-> <<>>]
  /\ mine = [t \in Thread |-> NULL]
  /\ held = [t \in Thread |-> FALSE]
  /\ opening = [t \in Thread |-> FALSE]
  /\ insane = [t \in Thread |-> FALSE]

(* A thread of the application enters the SDK.                              *)
Begin(t, c) ==
  /\ pc[t] = "idle"
  /\ Exclusive => \A u \in Thread : pc[u] = "idle"
  /\ todo' = [todo EXCEPT ![t] = Program[c]]
  /\ Goto(t, "next")
  /\ UNCHANGED <<globals, mine, held, opening, insane>>

(* The next block of the call: its scope is constructed first, if it has    *)
(* one.  A call that has run its blocks returns.                            *)
Dispatch(t) ==
  /\ pc[t] = "next"
  /\ todo[t] # <<>>
  /\ Goto(t, IF Head(todo[t]).scoped THEN "start" ELSE "body")
  /\ opening' = [opening EXCEPT ![t] = Head(todo[t]).scoped]
  /\ insane' = [insane EXCEPT ![t] = FALSE]
  /\ UNCHANGED <<globals, todo, mine, held>>

(* A call returns: at its end, on one of its early returns, or because the  *)
(* block it has just left raised an exception.                              *)
Return(t) ==
  /\ pc[t] = "next"
  /\ todo' = [todo EXCEPT ![t] = <<>>]
  /\ Goto(t, "idle")
  /\ UNCHANGED <<globals, mine, held, opening, insane>>

(* ECC_Start: the assertion, the creation of a context, its publication.    *)
(* An assertion is a guard: a thread whose assertion fails does not go on,  *)
(* and NoAssertFails below says that no thread is ever in that position.    *)
StartAssert(t) ==
  /\ pc[t] = "start"
  /\ sign = NULL
  /\ Goto(t, "create")
  /\ UNCHANGED <<globals, todo, mine, held, opening, insane>>

StartCreate(t) ==
  /\ pc[t] = "create"
  /\ \E a \in Addr \ live :
       /\ mine' = [mine EXCEPT ![t] = a]
       /\ live' = live \union {a}
  /\ Goto(t, "publish")
  /\ UNCHANGED <<sign, verify, refcount, todo, held, opening, insane>>

StartPublish(t) ==
  /\ pc[t] = "publish"
  /\ sign' = mine[t]
  /\ mine' = [mine EXCEPT ![t] = NULL]
  /\ Goto(t, "test")
  /\ UNCHANGED <<verify, refcount, live, todo, held, opening, insane>>

(* The constructor of ECCVerifyHandle: the count is read and, for the first *)
(* handle, the assertion and the creation of the context; then the count.   *)
HandleTest(t) ==
  /\ pc[t] = "test"
  /\ Goto(t, IF refcount = 0 THEN "vacant" ELSE "inc")
  /\ UNCHANGED <<globals, todo, mine, held, opening, insane>>

HandleAssert(t) ==
  /\ pc[t] = "vacant"
  /\ verify = NULL
  /\ Goto(t, "open")
  /\ UNCHANGED <<globals, todo, mine, held, opening, insane>>

HandleCreate(t) ==
  /\ pc[t] = "open"
  /\ \E a \in Addr \ live :
       /\ verify' = a
       /\ live' = live \union {a}
  /\ Goto(t, "inc")
  /\ UNCHANGED <<sign, refcount, todo, mine, held, opening, insane>>

HandleInc(t) ==
  /\ pc[t] = "inc"
  /\ refcount' = refcount + 1
  /\ held' = [held EXCEPT ![t] = TRUE]
  /\ Goto(t, "sanity")
  /\ UNCHANGED <<sign, verify, live, todo, mine, opening, insane>>

(* Variant: a failed sanity check throws, so that the constructor does not  *)
(* reach ECC_Stop and the destructor never runs.                            *)
SanityCheck_Throws(t) ==
  /\ pc[t] = "sanity"
  /\ opening' = [opening EXCEPT ![t] = FALSE]
  /\ \/ Goto(t, "body")
     \/ SanityMayFail /\ Goto(t, "dec")
  /\ UNCHANGED <<globals, todo, mine, held, insane>>

(* The end of the constructor.  A failed sanity check releases the handle   *)
(* and stops ECC, but the constructor returns to the caller all the same.   *)
SanityCheck(t) ==
  /\ pc[t] = "sanity"
  /\ \/ /\ Goto(t, "body")
        /\ opening' = [opening EXCEPT ![t] = FALSE]
        /\ UNCHANGED insane
     \/ /\ SanityMayFail
        /\ insane' = [insane EXCEPT ![t] = TRUE]
        /\ Goto(t, "dec")
        /\ UNCHANGED opening
  /\ UNCHANGED <<globals, todo, mine, held>>

(* The body of a block is over: the destructor of its scope, if it has one. *)
LeaveBody(t) ==
  /\ pc[t] = "body"
  /\ todo' = [todo EXCEPT ![t] = Tail(@)]
  /\ Goto(t, IF Head(todo[t]).scoped THEN "load" ELSE "next")
  /\ UNCHANGED <<globals, mine, held, opening, insane>>

(* Variant: the context is destroyed before the global is cleared.          *)
StopLoad_Destroys(t) ==
  /\ pc[t] = "load"
  /\ mine' = [mine EXCEPT ![t] = sign]
  /\ live' = live \ {sign}
  /\ Goto(t, "clear")
  /\ UNCHANGED <<sign, verify, refcount, todo, held, opening, insane>>

(* ECC_Stop: take the pointer, clear the global, destroy what was taken.    *)
StopLoad(t) ==
  /\ pc[t] = "load"
  /\ mine' = [mine EXCEPT ![t] = sign]
  /\ Goto(t, "clear")
  /\ UNCHANGED <<globals, todo, held, opening, insane>>

(* Variant: the global is not cleared.                                      *)
StopClear_Forgotten(t) ==
  /\ pc[t] = "clear"
  /\ Goto(t, "destroy")
  /\ UNCHANGED <<globals, todo, mine, held, opening, insane>>

StopClear(t) ==
  /\ pc[t] = "clear"
  /\ sign' = NULL
  /\ Goto(t, "destroy")
  /\ UNCHANGED <<verify, refcount, live, todo, mine, held, opening, insane>>

(* Called from the constructor, control goes on to the caller's body; from  *)
(* the destructor, to the destruction of the member verifyHandle.           *)
StopDestroy(t) ==
  /\ pc[t] = "destroy"
  /\ live' = live \ {mine[t]}
  /\ mine' = [mine EXCEPT ![t] = NULL]
  /\ opening' = [opening EXCEPT ![t] = FALSE]
  /\ Goto(t, IF opening[t] THEN "body" ELSE IF held[t] THEN "dec" ELSE "next")
  /\ UNCHANGED <<sign, verify, refcount, todo, held, insane>>

(* The destructor of ECCVerifyHandle: the count is lowered and read again,  *)
(* and the last one out asserts that there is a context, destroys it and    *)
(* clears the global, in this order.                                        *)
HandleDec(t) ==
  /\ pc[t] = "dec"
  /\ refcount' = refcount - 1
  /\ held' = [held EXCEPT ![t] = FALSE]
  /\ Goto(t, "free")
  /\ UNCHANGED <<sign, verify, live, todo, mine, opening, insane>>

AfterHandle(t) == IF opening[t] THEN "load" ELSE "next"

HandleFree(t) ==
  /\ pc[t] = "free"
  /\ Goto(t, IF refcount = 0 THEN "occupied" ELSE AfterHandle(t))
  /\ UNCHANGED <<globals, todo, mine, held, opening, insane>>

HandleAssertHeld(t) ==
  /\ pc[t] = "occupied"
  /\ verify # NULL
  /\ Goto(t, "drop")
  /\ UNCHANGED <<globals, todo, mine, held, opening, insane>>

(* Until the next statement the global points to a context that is gone.    *)
HandleDestroy(t) ==
  /\ pc[t] = "drop"
  /\ live' = live \ {verify}
  /\ Goto(t, "unset")
  /\ UNCHANGED <<sign, verify, refcount, todo, mine, held, opening, insane>>

HandleClear(t) ==
  /\ pc[t] = "unset"
  /\ verify' = NULL
  /\ Goto(t, AfterHandle(t))
  /\ UNCHANGED <<sign, refcount, live, todo, mine, held, opening, insane>>

(* The statements of a call in progress.                                    *)
Step(t) ==
  \/ Dispatch(t) \/ Return(t)
  \/ StartAssert(t) \/ StartCreate(t) \/ StartPublish(t)
  \/ HandleTest(t) \/ HandleAssert(t) \/ HandleCreate(t) \/ HandleInc(t)
  \/ SanityCheck(t)
  \/ LeaveBody(t)
  \/ StopLoad(t) \/ StopClear(t) \/ StopDestroy(t)
  \/ HandleDec(t) \/ HandleFree(t) \/ HandleAssertHeld(t)
  \/ HandleDestroy(t) \/ HandleClear(t)

Next == \E t \in Thread : Step(t) \/ \E c \in Call : Begin(t, c)

Spec == Init /\ [][Next]_vars

-----------------------------------------------------------------------------
(* Properties.                                                              *)

Idle == \A t \in Thread : pc[t] = "idle"

TypeOK ==
  /\ sign \in Addr \union {NULL}
  /\ verify \in Addr \union {NULL}
  /\ refcount \in Nat
  /\ live \in SUBSET Addr
  /\ pc \in [Thread -> Location]
  /\ todo \in [Thread -> Seq(Block)]
  /\ mine \in [Thread -> Addr \union {NULL}]
  /\ held \in [Thread -> BOOLEAN]
  /\ opening \in [Thread -> BOOLEAN]
  /\ insane \in [Thread -> BOOLEAN]

(* No assertion of ECC_Start (key.cpp:251) or of ECCVerifyHandle            *)
(* (pubkey.cpp:262, 273) fires, whatever calls precede, however they ended  *)
(* and whether or not their sanity checks passed.                           *)
NoAssertFails ==
  \A t \in Thread :
    /\ pc[t] = "start" => sign = NULL
    /\ pc[t] = "vacant" => verify = NULL
    /\ pc[t] = "occupied" => verify # NULL

(* When no call is in progress the process holds no context: the scopes of  *)
(* every call have undone what their constructors did, also after an early  *)
(* return, an exception or a failed sanity check                            *)
(* (eccautoinitreleasehandler.cpp:6-20).                                    *)
NoLeak == Idle => /\ live = {}
                  /\ sign = NULL /\ verify = NULL /\ refcount = 0

(* A global that is set points to a context that has not been destroyed:    *)
(* always for the signing one, which ECC_Stop clears before it destroys     *)
(* (key.cpp:269-276); the verifying one dangles between the two statements  *)
(* pubkey.cpp:274 and 275, which destroy it and then clear it, and nowhere  *)
(* else.                                                                    *)
NoDangling ==
  /\ sign # NULL => sign \in live
  /\ verify # NULL => verify \in live \/ \E t \in Thread : pc[t] = "unset"

(* A context is destroyed once: what ECC_Stop has taken and what the last   *)
(* handle is about to destroy is alive (key.cpp:273-275, pubkey.cpp:274).   *)
DestroyedOnce ==
  \A t \in Thread :
    /\ pc[t] = "destroy" => mine[t] \in live \union {NULL}
    /\ pc[t] = "drop" => verify \in live

(* The body of a call, inside or outside a scope, finds no dangling global: *)
(* it has a live context or the null pointer.                               *)
NoBodySeesDead ==
  (\E t \in Thread : pc[t] = "body") => {sign, verify} \ {NULL} \subseteq live

(* Inside a scope whose sanity check passed, a call finds both contexts     *)
(* alive and distinct, and holds the handle that keeps the second so.       *)
ScopedBodyHasContexts ==
  \A t \in Thread : pc[t] = "body" /\ Head(todo[t]).scoped /\ ~insane[t] =>
    /\ sign \in live /\ verify \in live /\ sign # verify
    /\ held[t]

(* Whatever other calls have opened or closed before, a context is          *)
(* destroyed once, the globals point to live ones except between the two    *)
(* statements named above, no body works with a dead one, and a scope that  *)
(* was opened has both.                                                     *)
ContextsAreLive == NoDangling /\ DestroyedOnce /\ NoBodySeesDead /\ ScopedBodyHasContexts

=============================================================================
