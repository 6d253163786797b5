----------------------------- MODULE KeysProofs -----------------------------
(***************************************************************************)
(* Proofs about the contexts of secp256k1, derived keys, signing, and the  *)
(* files and texts that parameters and keys are in.                        *)
(*                                                                         *)
(* Contexts: when the application makes one SDK call at a time, no         *)
(* assertion fires, nothing leaks and no scope works on a dead context,    *)
(* for every set of threads, calls and addresses.  None of the properties  *)
(* is inductive: each depends on where the one active call is.  Own(t)     *)
(* says what the call of thread t owns at each statement, and IInv says    *)
(* that the globals are exactly that.                                      *)
(*                                                                         *)
(* Keys: both halves of a pair derive the same children, for any order of  *)
(* the group, any hash and any number of derivations in a row.             *)
(* Signatures and private keys in DER are read as they were written, for   *)
(* numbers of any size: the bytes of a number, the forms of a size, the    *)
(* parts laid out and found, and what is found in a text that is cut.      *)
(*                                                                         *)
(* Signing: a transaction can be spent exactly when the key is enough, and *)
(* partial signatures are good, for scripts of any number of keys.         *)
(*                                                                         *)
(* Files and texts: two readers of a file find the same parameters, and an *)
(* address or key and its text stand for each other, for any bases, sizes  *)
(* and parameters of chains.                                               *)
(***************************************************************************)
EXTENDS EccContext, Keys, SendTx, AddressText, SequenceTheorems, FiniteSetTheorems,
        BasicLemmas, TLAPS

-----------------------------------------------------------------------------
(* The contexts.                                                            *)
Serial ==
  \A t, u \in Thread : pc[t] # "idle" /\ pc[u] # "idle" => t = u

(* The call has published a signing context and not yet taken it back.      *)
HasSign(t) ==
  \/ pc[t] \in {"test", "vacant", "open", "inc", "sanity"}
  \/ opening[t] /\ pc[t] \in {"dec", "free", "occupied", "drop", "unset", "load", "clear"}
  \/ ~opening[t] /\ held[t] /\ pc[t] \in {"body", "load", "clear"}

HasVerify(t) == held[t] \/ pc[t] \in {"inc", "free", "occupied", "drop", "unset"}

(* A context only the local variable of ECC_Start or ECC_Stop points to.    *)
HasLocal(t) ==
  \/ pc[t] = "publish"
  \/ pc[t] = "destroy" /\ (opening[t] \/ held[t])

(* What the flags of a thread are at each statement.                        *)
Flags(t) ==
  /\ pc[t] \in {"idle", "next", "start", "create", "publish", "test", "vacant", "open",
                "inc", "free", "occupied", "drop", "unset"}
       => ~held[t]
  /\ pc[t] \in {"sanity", "dec"} => held[t]
  /\ pc[t] \in {"start", "create", "publish", "test", "vacant", "open", "inc", "sanity"}
       => opening[t] /\ ~insane[t]
  /\ pc[t] \in {"idle", "next", "body"} => ~opening[t]
  /\ opening[t] /\ pc[t] \in {"load", "clear", "destroy"} => ~held[t]
  /\ pc[t] = "body" => (held[t] <=> Head(todo[t]).scoped /\ ~insane[t])
  /\ pc[t] = "body" \/ opening[t] => todo[t] # <<>>
  /\ opening[t] => Head(todo[t]).scoped
  /\ opening[t] /\ pc[t] \in {"dec", "free", "occupied", "drop", "unset", "load", "clear",
                               "destroy"}
       => insane[t]

(* The globals and the locals, as the one active call has left them.        *)
Own(t) ==
  /\ sign # NULL <=> HasSign(t)
  /\ verify # NULL <=> HasVerify(t)
  /\ refcount = IF held[t] THEN 1 ELSE 0
  /\ pc[t] # "unset" => live = {sign, verify, mine[t]} \ {NULL}
  /\ pc[t] = "unset" => live = {sign, mine[t]} \ {NULL}
  /\ sign # NULL => sign # verify
  /\ HasLocal(t) => mine[t] # NULL /\ mine[t] # verify
  /\ pc[t] = "clear" => mine[t] = sign
  /\ pc[t] # "clear" /\ ~HasLocal(t) => mine[t] = NULL

Clean == sign = NULL /\ verify = NULL /\ refcount = 0 /\ live = {}

IInv ==
  /\ TypeOK
  /\ Serial
  /\ \A t \in Thread : Flags(t)
  /\ \A t \in Thread : pc[t] # "idle" => Own(t)
  /\ \A t \in Thread : pc[t] = "idle" => mine[t] = NULL
  /\ Idle => Clean

-----------------------------------------------------------------------------
(* A step touches the locals of its own thread only.                        *)
Frame(t) ==
  \A u \in Thread \ {t} :
    /\ pc'[u] = pc[u] /\ mine'[u] = mine[u] /\ held'[u] = held[u]
    /\ opening'[u] = opening[u] /\ insane'[u] = insane[u] /\ todo'[u] = todo[u]

(* Every program is a sequence of blocks.                                   *)
LEMMA ProgramType == \A c \in Call : Program[c] \in Seq(Block)
<1>1. \A uses \in SUBSET Context : Scoped(uses) \in Block /\ Unscoped(uses) \in Block
  BY DEF Scoped, Unscoped, Block
<1>2. /\ {"sign"} \in SUBSET Context
      /\ {"verify"} \in SUBSET Context
      /\ {"sign", "verify"} \in SUBSET Context
  BY DEF Context
<1>3. solver \in Block
  BY <1>1, <1>2 DEF solver
<1>4. /\ createKeyPairs \in Seq(Block)
      /\ createAssetSendTx \in Seq(Block)
      /\ createStreamPublishTx \in Seq(Block)
      /\ VerifyMessage \in Seq(Block)
      /\ SignMessage \in Seq(Block)
      /\ createMultisigRedeemScript \in Seq(Block)
  BY <1>1, <1>2, <1>3
     DEF createKeyPairs, createAssetSendTx, createStreamPublishTx, VerifyMessage,
         SignMessage, createMultisigRedeemScript
<1>5. \A c \in DOMAIN Program : Program[c] \in Seq(Block)
  BY <1>4 DEF Program
<1> QED
  BY <1>5, EccAssumption

(* While one thread is active the others are idle, so that a step of it is  *)
(* judged by what it does to the globals and to its own locals.             *)
LEMMA OneActive ==
  ASSUME IInv, TypeOK', NEW t \in Thread,
         \A u \in Thread \ {t} : pc[u] = "idle",
         Frame(t), Flags(t)',
         pc'[t] # "idle" => Own(t)',
         pc'[t] = "idle" => mine'[t] = NULL /\ Clean'
  PROVE  IInv'
<1>1. Serial'
  BY DEF IInv, TypeOK, Serial, Frame
<1>2. \A u \in Thread : Flags(u)'
  <2>1. ASSUME NEW u \in Thread \ {t} PROVE Flags(u)'
    BY <2>1 DEF IInv, Flags, Frame
  <2> QED
    BY <2>1
<1>3. \A u \in Thread : pc'[u] # "idle" => Own(u)'
  BY DEF IInv, TypeOK, Frame
<1>4. \A u \in Thread : pc'[u] = "idle" => mine'[u] = NULL
  BY DEF IInv, TypeOK, Frame
<1>5. Idle' => Clean'
  BY DEF Idle
<1> QED
  BY <1>1, <1>2, <1>3, <1>4, <1>5 DEF IInv

(* Every statement of a call preserves the invariant.                       *)
LEMMA StepPreserves ==
  ASSUME IInv, NEW t \in Thread, Step(t)
  PROVE  IInv'
<1>1. pc[t] # "idle"
  BY DEF Step, Dispatch, Return, StartAssert, StartCreate, StartPublish, HandleTest,
         HandleAssert, HandleCreate, HandleInc, SanityCheck, LeaveBody, StopLoad, StopClear, StopDestroy,
         HandleDec, HandleFree, HandleAssertHeld, HandleDestroy, HandleClear
<1>2. \A u \in Thread \ {t} : pc[u] = "idle"
  BY <1>1 DEF IInv, Serial
<1> USE EccAssumption, <1>1, <1>2 DEF globals, Goto
<1>3. CASE Dispatch(t)
  <2>1. TypeOK'
    <3>1. Head(todo[t]) \in Block
      BY <1>3, HeadTailProperties DEF Dispatch, IInv, TypeOK
    <3> QED
      BY <1>3, <3>1 DEF Dispatch, IInv, TypeOK, Location, Block
  <2>2. Frame(t)
    BY <1>3 DEF Dispatch, IInv, TypeOK, Frame
  <2>3. Flags(t)'
    BY <1>3 DEF Dispatch, IInv, TypeOK, Flags
  <2>4. pc'[t] # "idle" => Own(t)'
    BY <1>3 DEF Dispatch, IInv, TypeOK, Flags, Own, HasLocal, HasSign, HasVerify
  <2>5. pc'[t] = "idle" => mine'[t] = NULL /\ Clean'
    BY <1>3 DEF Dispatch, IInv, TypeOK, Flags, Own, HasLocal, HasSign, HasVerify, Clean
  <2> QED
    BY <2>1, <2>2, <2>3, <2>4, <2>5, OneActive
<1>4. CASE Return(t)
  <2>1. TypeOK'
    BY <1>4 DEF Return, IInv, TypeOK, Location, Flags, Own, HasLocal, HasSign, HasVerify
  <2>2. Frame(t)
    BY <1>4 DEF Return, IInv, TypeOK, Frame
  <2>3. Flags(t)'
    BY <1>4 DEF Return, IInv, TypeOK, Flags
  <2>4. pc'[t] # "idle" => Own(t)'
    BY <1>4 DEF Return, IInv, TypeOK, Flags, Own, HasLocal, HasSign, HasVerify
  <2>5. pc'[t] = "idle" => mine'[t] = NULL /\ Clean'
    BY <1>4 DEF Return, IInv, TypeOK, Flags, Own, HasLocal, HasSign, HasVerify, Clean
  <2> QED
    BY <2>1, <2>2, <2>3, <2>4, <2>5, OneActive
<1>5. CASE StartAssert(t)
  <2>1. TypeOK'
    BY <1>5 DEF StartAssert, IInv, TypeOK, Location, Flags, Own, HasLocal, HasSign, HasVerify
  <2>2. Frame(t)
    BY <1>5 DEF StartAssert, IInv, TypeOK, Frame
  <2>3. Flags(t)'
    BY <1>5 DEF StartAssert, IInv, TypeOK, Flags
  <2>4. pc'[t] # "idle" => Own(t)'
    BY <1>5 DEF StartAssert, IInv, TypeOK, Flags, Own, HasLocal, HasSign, HasVerify
  <2>5. pc'[t] = "idle" => mine'[t] = NULL /\ Clean'
    BY <1>5 DEF StartAssert, IInv, TypeOK, Flags, Own, HasLocal, HasSign, HasVerify, Clean
  <2> QED
    BY <2>1, <2>2, <2>3, <2>4, <2>5, OneActive
<1>6. CASE StartCreate(t)
  <2>1. TypeOK'
    BY <1>6 DEF StartCreate, IInv, TypeOK, Location, Flags, Own, HasLocal, HasSign, HasVerify
  <2>2. Frame(t)
    BY <1>6 DEF StartCreate, IInv, TypeOK, Frame
  <2>3. Flags(t)'
    BY <1>6 DEF StartCreate, IInv, TypeOK, Flags
  <2>4. pc'[t] # "idle" => Own(t)'
    BY <1>6 DEF StartCreate, IInv, TypeOK, Flags, Own, HasLocal, HasSign, HasVerify
  <2>5. pc'[t] = "idle" => mine'[t] = NULL /\ Clean'
    BY <1>6 DEF StartCreate, IInv, TypeOK, Flags, Own, HasLocal, HasSign, HasVerify, Clean
  <2> QED
    BY <2>1, <2>2, <2>3, <2>4, <2>5, OneActive
<1>7. CASE StartPublish(t)
  <2>1. TypeOK'
    BY <1>7 DEF StartPublish, IInv, TypeOK, Location, Flags, Own, HasLocal, HasSign, HasVerify
  <2>2. Frame(t)
    BY <1>7 DEF StartPublish, IInv, TypeOK, Frame
  <2>3. Flags(t)'
    BY <1>7 DEF StartPublish, IInv, TypeOK, Flags
  <2>4. pc'[t] # "idle" => Own(t)'
    <3>1. TypeOK /\ Own(t) /\ Flags(t)
      BY DEF IInv
    <3>2. /\ pc[t] = "publish" /\ pc'[t] = "test" /\ sign' = mine[t] /\ mine'[t] = NULL
          /\ UNCHANGED <<verify, refcount, live, held, opening>>
      BY <1>7, <3>1 DEF StartPublish, TypeOK
    <3>3. mine[t] # NULL /\ mine[t] # verify /\ sign = NULL /\ verify = NULL /\ ~held[t]
      BY <3>1, <3>2 DEF Own, Flags, HasLocal, HasSign, HasVerify
    <3>4. live = {mine[t]} /\ refcount = 0
      BY <3>1, <3>2, <3>3 DEF Own
    <3> QED
      BY ONLY <3>2, <3>3, <3>4 DEF Own, HasLocal, HasSign, HasVerify
  <2>5. pc'[t] = "idle" => mine'[t] = NULL /\ Clean'
    BY <1>7 DEF StartPublish, IInv, TypeOK, Flags, Own, HasLocal, HasSign, HasVerify, Clean
  <2> QED
    BY <2>1, <2>2, <2>3, <2>4, <2>5, OneActive
<1>8. CASE HandleTest(t)
  <2>1. TypeOK'
    BY <1>8 DEF HandleTest, IInv, TypeOK, Location, Flags, Own, HasLocal, HasSign, HasVerify
  <2>2. Frame(t)
    BY <1>8 DEF HandleTest, IInv, TypeOK, Frame
  <2>3. Flags(t)'
    BY <1>8 DEF HandleTest, IInv, TypeOK, Flags
  <2>4. pc'[t] # "idle" => Own(t)'
    BY <1>8 DEF HandleTest, IInv, TypeOK, Flags, Own, HasLocal, HasSign, HasVerify
  <2>5. pc'[t] = "idle" => mine'[t] = NULL /\ Clean'
    BY <1>8 DEF HandleTest, IInv, TypeOK, Flags, Own, HasLocal, HasSign, HasVerify, Clean
  <2> QED
    BY <2>1, <2>2, <2>3, <2>4, <2>5, OneActive
<1>9. CASE HandleInc(t)
  <2>1. TypeOK'
    BY <1>9 DEF HandleInc, IInv, TypeOK, Location, Flags, Own, HasLocal, HasSign, HasVerify
  <2>2. Frame(t)
    BY <1>9 DEF HandleInc, IInv, TypeOK, Frame
  <2>3. Flags(t)'
    BY <1>9 DEF HandleInc, IInv, TypeOK, Flags
  <2>4. pc'[t] # "idle" => Own(t)'
    BY <1>9 DEF HandleInc, IInv, TypeOK, Flags, Own, HasLocal, HasSign, HasVerify
  <2>5. pc'[t] = "idle" => mine'[t] = NULL /\ Clean'
    BY <1>9 DEF HandleInc, IInv, TypeOK, Flags, Own, HasLocal, HasSign, HasVerify, Clean
  <2> QED
    BY <2>1, <2>2, <2>3, <2>4, <2>5, OneActive
<1>10. CASE SanityCheck(t)
  <2>1. TypeOK'
    <3>1. TypeOK
      BY DEF IInv
    <3>2. pc' \in [Thread -> Location] /\ opening' \in [Thread -> BOOLEAN]
      BY <1>10, <3>1 DEF SanityCheck, TypeOK, Location
    <3>3. insane' \in [Thread -> BOOLEAN]
      BY <1>10, <3>1 DEF SanityCheck, TypeOK
    <3>. QED  BY <1>10, <3>1, <3>2, <3>3 DEF SanityCheck, TypeOK
  <2>2. Frame(t)
    BY <1>10 DEF SanityCheck, IInv, TypeOK, Frame
  <2>3. Flags(t)'
    BY <1>10 DEF SanityCheck, IInv, TypeOK, Flags
  <2>4. pc'[t] # "idle" => Own(t)'
    BY <1>10 DEF SanityCheck, IInv, TypeOK, Flags, Own, HasLocal, HasSign, HasVerify
  <2>5. pc'[t] = "idle" => mine'[t] = NULL /\ Clean'
    BY <1>10 DEF SanityCheck, IInv, TypeOK, Flags, Own, HasLocal, HasSign, HasVerify, Clean
  <2> QED
    BY <2>1, <2>2, <2>3, <2>4, <2>5, OneActive
<1>11. CASE LeaveBody(t)
  <2>1. TypeOK'
    BY <1>11 DEF LeaveBody, IInv, TypeOK, Location, Flags, Own, HasLocal, HasSign, HasVerify
  <2>2. Frame(t)
    BY <1>11 DEF LeaveBody, IInv, TypeOK, Frame
  <2>3. Flags(t)'
    BY <1>11 DEF LeaveBody, IInv, TypeOK, Flags
  <2>4. pc'[t] # "idle" => Own(t)'
    BY <1>11 DEF LeaveBody, IInv, TypeOK, Flags, Own, HasLocal, HasSign, HasVerify
  <2>5. pc'[t] = "idle" => mine'[t] = NULL /\ Clean'
    BY <1>11 DEF LeaveBody, IInv, TypeOK, Flags, Own, HasLocal, HasSign, HasVerify, Clean
  <2> QED
    BY <2>1, <2>2, <2>3, <2>4, <2>5, OneActive
<1>12. CASE StopLoad(t)
  <2>1. TypeOK'
    BY <1>12 DEF StopLoad, IInv, TypeOK, Location, Flags, Own, HasLocal, HasSign, HasVerify
  <2>2. Frame(t)
    BY <1>12 DEF StopLoad, IInv, TypeOK, Frame
  <2>3. Flags(t)'
    BY <1>12 DEF StopLoad, IInv, TypeOK, Flags
  <2>4. pc'[t] # "idle" => Own(t)'
    BY <1>12 DEF StopLoad, IInv, TypeOK, Flags, Own, HasLocal, HasSign, HasVerify
  <2>5. pc'[t] = "idle" => mine'[t] = NULL /\ Clean'
    BY <1>12 DEF StopLoad, IInv, TypeOK, Flags, Own, HasLocal, HasSign, HasVerify, Clean
  <2> QED
    BY <2>1, <2>2, <2>3, <2>4, <2>5, OneActive
<1>13. CASE StopClear(t)
  <2>1. TypeOK'
    BY <1>13 DEF StopClear, IInv, TypeOK, Location, Flags, Own, HasLocal, HasSign, HasVerify
  <2>2. Frame(t)
    BY <1>13 DEF StopClear, IInv, TypeOK, Frame
  <2>3. Flags(t)'
    BY <1>13 DEF StopClear, IInv, TypeOK, Flags
  <2>4. pc'[t] # "idle" => Own(t)'
    BY <1>13 DEF StopClear, IInv, TypeOK, Flags, Own, HasLocal, HasSign, HasVerify
  <2>5. pc'[t] = "idle" => mine'[t] = NULL /\ Clean'
    BY <1>13 DEF StopClear, IInv, TypeOK, Flags, Own, HasLocal, HasSign, HasVerify, Clean
  <2> QED
    BY <2>1, <2>2, <2>3, <2>4, <2>5, OneActive
<1>14. CASE StopDestroy(t)
  <2>1. TypeOK'
    BY <1>14 DEF StopDestroy, IInv, TypeOK, Location, Flags, Own, HasLocal, HasSign, HasVerify
  <2>2. Frame(t)
    BY <1>14 DEF StopDestroy, IInv, TypeOK, Frame
  <2>3. Flags(t)'
    BY <1>14 DEF StopDestroy, IInv, TypeOK, Flags
  <2>4. pc'[t] # "idle" => Own(t)'
    BY <1>14 DEF StopDestroy, IInv, TypeOK, Flags, Own, HasLocal, HasSign, HasVerify
  <2>5. pc'[t] = "idle" => mine'[t] = NULL /\ Clean'
    BY <1>14 DEF StopDestroy, IInv, TypeOK, Flags, Own, HasLocal, HasSign, HasVerify, Clean
  <2> QED
    BY <2>1, <2>2, <2>3, <2>4, <2>5, OneActive
<1>15. CASE HandleDec(t)
  <2>1. TypeOK'
    BY <1>15 DEF HandleDec, IInv, TypeOK, Location, Flags, Own, HasLocal, HasSign, HasVerify
  <2>2. Frame(t)
    BY <1>15 DEF HandleDec, IInv, TypeOK, Frame
  <2>3. Flags(t)'
    BY <1>15 DEF HandleDec, IInv, TypeOK, Flags
  <2>4. pc'[t] # "idle" => Own(t)'
    BY <1>15 DEF HandleDec, IInv, TypeOK, Flags, Own, HasLocal, HasSign, HasVerify
  <2>5. pc'[t] = "idle" => mine'[t] = NULL /\ Clean'
    BY <1>15 DEF HandleDec, IInv, TypeOK, Flags, Own, HasLocal, HasSign, HasVerify, Clean
  <2> QED
    BY <2>1, <2>2, <2>3, <2>4, <2>5, OneActive
<1>16. CASE HandleFree(t)
  <2>1. TypeOK'
    BY <1>16 DEF HandleFree, AfterHandle, IInv, TypeOK, Location, Flags, Own, HasLocal, HasSign, HasVerify
  <2>2. Frame(t)
    BY <1>16 DEF HandleFree, AfterHandle, IInv, TypeOK, Frame
  <2>3. Flags(t)'
    BY <1>16 DEF HandleFree, AfterHandle, IInv, TypeOK, Flags
  <2>4. pc'[t] # "idle" => Own(t)'
    BY <1>16 DEF HandleFree, AfterHandle, IInv, TypeOK, Flags, Own, HasLocal, HasSign, HasVerify
  <2>5. pc'[t] = "idle" => mine'[t] = NULL /\ Clean'
    BY <1>16 DEF HandleFree, AfterHandle, IInv, TypeOK, Flags, Own, HasLocal, HasSign, HasVerify, Clean
  <2> QED
    BY <2>1, <2>2, <2>3, <2>4, <2>5, OneActive
<1>17. CASE HandleAssert(t)
  <2>1. TypeOK'
    BY <1>17 DEF HandleAssert, IInv, TypeOK, Location, Flags, Own, HasLocal, HasSign, HasVerify
  <2>2. Frame(t)
    BY <1>17 DEF HandleAssert, IInv, TypeOK, Frame
  <2>3. Flags(t)'
    BY <1>17 DEF HandleAssert, IInv, TypeOK, Flags
  <2>4. pc'[t] # "idle" => Own(t)'
    BY <1>17 DEF HandleAssert, IInv, TypeOK, Flags, Own, HasLocal, HasSign, HasVerify
  <2>5. pc'[t] = "idle" => mine'[t] = NULL /\ Clean'
    BY <1>17 DEF HandleAssert, IInv, TypeOK, Flags, Own, HasLocal, HasSign, HasVerify, Clean
  <2> QED
    BY <2>1, <2>2, <2>3, <2>4, <2>5, OneActive
<1>18. CASE HandleCreate(t)
  <2>1. TypeOK'
    BY <1>18 DEF HandleCreate, IInv, TypeOK, Location, Flags, Own, HasLocal, HasSign, HasVerify
  <2>2. Frame(t)
    BY <1>18 DEF HandleCreate, IInv, TypeOK, Frame
  <2>3. Flags(t)'
    BY <1>18 DEF HandleCreate, IInv, TypeOK, Flags
  <2>4. pc'[t] # "idle" => Own(t)'
    BY <1>18 DEF HandleCreate, IInv, TypeOK, Flags, Own, HasLocal, HasSign, HasVerify
  <2>5. pc'[t] = "idle" => mine'[t] = NULL /\ Clean'
    BY <1>18 DEF HandleCreate, IInv, TypeOK, Flags, Own, HasLocal, HasSign, HasVerify, Clean
  <2> QED
    BY <2>1, <2>2, <2>3, <2>4, <2>5, OneActive
<1>19. CASE HandleAssertHeld(t)
  <2>1. TypeOK'
    BY <1>19 DEF HandleAssertHeld, IInv, TypeOK, Location, Flags, Own, HasLocal, HasSign, HasVerify
  <2>2. Frame(t)
    BY <1>19 DEF HandleAssertHeld, IInv, TypeOK, Frame
  <2>3. Flags(t)'
    BY <1>19 DEF HandleAssertHeld, IInv, TypeOK, Flags
  <2>4. pc'[t] # "idle" => Own(t)'
    BY <1>19 DEF HandleAssertHeld, IInv, TypeOK, Flags, Own, HasLocal, HasSign, HasVerify
  <2>5. pc'[t] = "idle" => mine'[t] = NULL /\ Clean'
    BY <1>19 DEF HandleAssertHeld, IInv, TypeOK, Flags, Own, HasLocal, HasSign, HasVerify, Clean
  <2> QED
    BY <2>1, <2>2, <2>3, <2>4, <2>5, OneActive
<1>20. CASE HandleDestroy(t)
  <2>1. TypeOK'
    BY <1>20 DEF HandleDestroy, IInv, TypeOK, Location, Flags, Own, HasLocal, HasSign, HasVerify
  <2>2. Frame(t)
    BY <1>20 DEF HandleDestroy, IInv, TypeOK, Frame
  <2>3. Flags(t)'
    BY <1>20 DEF HandleDestroy, IInv, TypeOK, Flags
  <2>4. pc'[t] # "idle" => Own(t)'
    BY <1>20 DEF HandleDestroy, IInv, TypeOK, Flags, Own, HasLocal, HasSign, HasVerify
  <2>5. pc'[t] = "idle" => mine'[t] = NULL /\ Clean'
    BY <1>20 DEF HandleDestroy, IInv, TypeOK, Flags, Own, HasLocal, HasSign, HasVerify, Clean
  <2> QED
    BY <2>1, <2>2, <2>3, <2>4, <2>5, OneActive
<1>21. CASE HandleClear(t)
  <2>1. TypeOK'
    BY <1>21 DEF HandleClear, AfterHandle, IInv, TypeOK, Location, Flags, Own, HasLocal, HasSign, HasVerify
  <2>2. Frame(t)
    BY <1>21 DEF HandleClear, AfterHandle, IInv, TypeOK, Frame
  <2>3. Flags(t)'
    BY <1>21 DEF HandleClear, AfterHandle, IInv, TypeOK, Flags
  <2>4. pc'[t] # "idle" => Own(t)'
    BY <1>21 DEF HandleClear, AfterHandle, IInv, TypeOK, Flags, Own, HasLocal, HasSign, HasVerify
  <2>5. pc'[t] = "idle" => mine'[t] = NULL /\ Clean'
    BY <1>21 DEF HandleClear, AfterHandle, IInv, TypeOK, Flags, Own, HasLocal, HasSign, HasVerify, Clean
  <2> QED
    BY <2>1, <2>2, <2>3, <2>4, <2>5, OneActive
<1> QED
  BY <1>3, <1>4, <1>5, <1>6, <1>7, <1>8, <1>9, <1>10, <1>11, <1>12, <1>13, <1>14, <1>15, <1>16,
     <1>17, <1>18, <1>19, <1>20, <1>21 DEF Step

(* A call begins only when no other is in progress, from a clean process.   *)
LEMMA BeginPreserves ==
  ASSUME IInv, Exclusive, NEW t \in Thread, NEW c \in Call, Begin(t, c)
  PROVE  IInv'
<1> USE EccAssumption DEF globals, Goto
<1>1. \A u \in Thread : pc[u] = "idle"
  BY DEF Begin
<1>2. TypeOK'
  BY ProgramType DEF Begin, IInv, TypeOK, Location
<1>3. Frame(t)
  BY DEF Begin, IInv, TypeOK, Frame
<1>4. Flags(t)'
  BY <1>1 DEF Begin, IInv, TypeOK, Flags
<1>5. Own(t)'
  BY <1>1 DEF Begin, IInv, TypeOK, Flags, Own, HasLocal, HasSign, HasVerify, Clean, Idle
<1>6. pc'[t] # "idle"
  BY DEF Begin, IInv, TypeOK
<1> QED
  BY <1>1, <1>2, <1>3, <1>4, <1>5, <1>6, OneActive

(* The invariant of one call at a time.                                     *)
THEOREM Invariance == ASSUME Exclusive PROVE Spec => []IInv
<1>1. Init => IInv
  BY EccAssumption DEF Init, IInv, TypeOK, Serial, Flags, Own, Clean, Idle, Location
<1>2. IInv /\ [Next]_vars => IInv'
  <2> SUFFICES ASSUME IInv, [Next]_vars PROVE IInv'
    OBVIOUS
  <2>1. ASSUME NEW t \in Thread, Step(t) PROVE IInv'
    BY <2>1, StepPreserves
  <2>2. ASSUME NEW t \in Thread, NEW c \in Call, Begin(t, c) PROVE IInv'
    BY <2>2, Exclusive, BeginPreserves
  <2>3. CASE UNCHANGED vars
    BY <2>3 DEF vars, IInv, TypeOK, Serial, Flags, Own, HasLocal, HasSign, HasVerify,
                Clean, Idle
  <2> QED
    BY <2>1, <2>2, <2>3 DEF Next
<1> QED
  BY <1>1, <1>2, PTL DEF Spec

(* What the runs check on a small instance, for every set of threads, calls *)
(* and addresses: one call at a time, no assertion of ECC_Start or of the   *)
(* verification handle fires (key.cpp:251, pubkey.cpp:262, 273).            *)
THEOREM NoAssertionFires == ASSUME Exclusive PROVE Spec => []NoAssertFails
<1>1. IInv => NoAssertFails
  <2> SUFFICES ASSUME IInv, NEW t \in Thread
               PROVE  /\ pc[t] = "start" => sign = NULL
                      /\ pc[t] = "vacant" => verify = NULL
                      /\ pc[t] = "occupied" => verify # NULL
    BY Zenon DEF NoAssertFails
  <2>1. pc[t] # "idle" => Own(t)
    BY DEF IInv
  <2>2. Flags(t)
    BY DEF IInv
  <2>3. pc[t] = "start" => ~HasSign(t)
    BY <2>2 DEF Flags, HasSign
  <2>4. pc[t] = "vacant" => ~HasVerify(t)
    BY <2>2 DEF Flags, HasVerify
  <2>5. pc[t] = "occupied" => HasVerify(t)
    BY DEF HasVerify
  <2> QED
    BY <2>1, <2>3, <2>4, <2>5 DEF Own
<1> QED
  BY <1>1, Exclusive, Invariance, PTL

(* The signing global is null or points to a live context, also in the      *)
(* middle of ECC_Stop; the verifying one dangles between the two statements *)
(* of the handle's destructor (pubkey.cpp:274, 275) and nowhere else.       *)
THEOREM PointersAreLive == ASSUME Exclusive PROVE Spec => []NoDangling
<1>1. IInv => NoDangling
  BY DEF IInv, Own, Idle, Clean, NoDangling
<1> QED
  BY <1>1, Exclusive, Invariance, PTL

(* What ECC_Stop and the last handle destroy is alive, and no body of a     *)
(* call finds a global that dangles: the one call in flight is not between  *)
(* pubkey.cpp:274 and 275 when it is in its body.                           *)
LEMMA NothingDeadIsUsed == ASSUME IInv PROVE DestroyedOnce /\ NoBodySeesDead
<1>1. DestroyedOnce
  <2> SUFFICES ASSUME NEW t \in Thread
               PROVE  /\ pc[t] = "destroy" => mine[t] \in live \union {NULL}
                      /\ pc[t] = "drop" => verify \in live
    BY Zenon DEF DestroyedOnce
  <2>1. pc[t] # "idle" => Own(t)
    BY DEF IInv
  <2>2. pc[t] = "destroy" => mine[t] \in live \union {NULL}
    BY <2>1 DEF Own
  <2>3. pc[t] = "drop" => verify \in live
    BY <2>1 DEF Own, HasVerify
  <2> QED
    BY <2>2, <2>3
<1>2. NoBodySeesDead
  BY DEF IInv, Own, NoBodySeesDead
<1> QED
  BY <1>1, <1>2

(* Between calls nothing is left, however the last call ended.              *)
THEOREM CallsLeaveNothing == ASSUME Exclusive PROVE Spec => []NoLeak
<1>1. IInv => NoLeak
  BY DEF IInv, Clean, NoLeak
<1> QED
  BY <1>1, Exclusive, Invariance, PTL

(* A scope whose sanity check passed works on two live contexts.            *)
THEOREM ScopesAreServed == ASSUME Exclusive PROVE Spec => []ScopedBodyHasContexts
<1>1. IInv => ScopedBodyHasContexts
  BY EccAssumption DEF IInv, Own, Flags, HasSign, HasVerify, ScopedBodyHasContexts
<1> QED
  BY <1>1, Exclusive, Invariance, PTL

(* Over any sequence of calls contexts are destroyed once, globals dangle   *)
(* between pubkey.cpp:274 and 275 only, no body works with a dead context,  *)
(* and a scope has both.                                                    *)
THEOREM ContextsLive == ASSUME Exclusive PROVE Spec => []ContextsAreLive
<1>1. IInv => DestroyedOnce /\ NoBodySeesDead
  BY NothingDeadIsUsed
<1> QED
  BY <1>1, Exclusive, Invariance, PointersAreLive, ScopesAreServed, PTL
     DEF ContextsAreLive

(* Every state is well typed; in particular the count of handles never      *)
(* falls below zero.                                                        *)
THEOREM TypeCorrect == ASSUME Exclusive PROVE Spec => []TypeOK
<1>1. IInv => TypeOK
  BY DEF IInv
<1> QED
  BY <1>1, Exclusive, Invariance, PTL

-----------------------------------------------------------------------------
(* Pairs of keys.                                                           *)
(* What a tweak of secp256k1 takes is a number.                             *)
HashesAreNumbers ==
  \A cc, index, data : BIP32Hash(cc, index, data).left \in Nat

(* A private key that is valid is in range and of the form BIP 32 knows.    *)
PrivateIsKey ==
  pair # NoPair /\ pair.private.key.valid =>
    IsKey(pair.private.key.number) /\ pair.private.key.compressed = TRUE

PairInv == PrivateIsKey /\ DerivedPairsMatch

LEMMA LengthOfShort ==
  ASSUME NEW header \in {2, 3}
  PROVE  GetLen(header) = 33
BY DEF GetLen

LEMMA SetWhole ==
  ASSUME NEW header, NEW number, GetLen(header) = 33
  PROVE  SetPubKey(header, 33, number) = [header |-> header, number |-> number]
BY DEF SetPubKey

LEMMA FirstByte ==
  ASSUME NEW number \in Nat
  PROVE  Header(number, TRUE) \in {2, 3}
<1>1. number % 2 \in {0, 1}  OBVIOUS
<1>. QED  BY <1>1 DEF Header

(* The size of a compressed public key fits its first byte, whichever of    *)
(* the two it is.                                                           *)
LEMMA CompressedForm ==
  ASSUME NEW number \in Nat, NEW header, header = Header(number, TRUE)
  PROVE  /\ SetPubKey(header, 33, number) = [header |-> header, number |-> number]
         /\ GetLen(header) = 33
<1>1. header \in {2, 3}  BY FirstByte
<1>2. GetLen(header) = 33  BY <1>1, LengthOfShort
<1>. QED  BY <1>2, SetWhole

LEMMA ValidWhenShort ==
  ASSUME NEW pubkey, GetLen(pubkey.header) = 33
  PROVE  IsValidPubKey(pubkey) /\ IsCompressed(pubkey)
BY DEF IsValidPubKey, IsCompressed

(* The public key of a compressed private key.                              *)
LEMMA PublicHalf ==
  ASSUME NEW key, key.compressed = TRUE, key.number \in Nat
  PROVE  /\ GetPubKey(key) = SetPubKey(Header(key.number, TRUE), 33, key.number)
         /\ IsValidPubKey(GetPubKey(key))
         /\ IsCompressed(GetPubKey(key))
         /\ GetPubKey(key).number = key.number
<1>1. GetPubKey(key) = SetPubKey(Header(key.number, TRUE), 33, key.number)  BY Zenon DEF GetPubKey
<1>2. /\ GetPubKey(key) = [header |-> Header(key.number, TRUE), number |-> key.number]
      /\ GetLen(Header(key.number, TRUE)) = 33
  BY Zenon, <1>1, CompressedForm
<1> DEFINE header == Header(key.number, TRUE)
           number == key.number
           pubkey == GetPubKey(key)
<1>3. pubkey = [header |-> header, number |-> number] /\ GetLen(header) = 33  BY Zenon, <1>2
<1> HIDE DEF header, number, pubkey
<1>4. pubkey.header = header /\ pubkey.number = number  BY <1>3
<1>5. GetLen(pubkey.header) = 33  BY Zenon, <1>3, <1>4
<1>6. IsValidPubKey(pubkey) /\ IsCompressed(pubkey)  BY Zenon, <1>5, ValidWhenShort
<1>. QED  BY Zenon, <1>1, <1>4, <1>6 DEF pubkey, number

LEMMA NoPubKeyIsInvalid == ~IsValidPubKey(NoPubKey)
<1>1. GetLen(255) = 0  BY DEF GetLen
<1>2. NoPubKey.header = 255  BY DEF NoPubKey
<1>. QED  BY <1>1, <1>2 DEF IsValidPubKey

LEMMA OrderIsPositive == Order \in Nat /\ Order > 0
BY DerAssumption

LEMMA NumbersOfKeys ==
  ASSUME NEW number, IsKey(number)
  PROVE  number \in Nat
BY OrderIsPositive DEF IsKey

(* A child is a key or 0, which is none.                                    *)
LEMMA RemainderIsKey ==
  ASSUME NEW a \in Nat, NEW b \in Nat, NEW order \in Nat, order > 0
  PROVE  (a + b) % order \in 0 .. order - 1
OBVIOUS

LEMMA ChildIsKeyOrNone ==
  ASSUME NEW number \in Nat, NEW hash, hash.left \in Nat
  PROVE  Child(number, hash) # 0 => IsKey(Child(number, hash))
<1>1. (number + hash.left) % Order \in 0 .. Order - 1  BY OrderIsPositive, RemainderIsKey
<1>2. Child(number, hash) \in {(number + hash.left) % Order, 0}  BY Zenon DEF Child
<1>. QED  BY <1>1, <1>2, OrderIsPositive DEF IsKey

LEMMA InitInv == KeysInit => PairInv
BY DEF KeysInit, PairInv, PrivateIsKey, DerivedPairsMatch

(* A new pair starts from the public key of its private key.                *)
LEMMA MakeNewKeyInv ==
  ASSUME MakeNewKey
  PROVE  PairInv'
<1>1. PICK number \in KeyNumber :
        LET key == [valid |-> TRUE, compressed |-> TRUE, number |-> number]
        IN  pair' = [depth |-> 1, private |-> [key |-> key, cc |-> 0],
                     public |-> [key |-> GetPubKey(key), cc |-> 0]]
  BY DEF MakeNewKey
<1> DEFINE key == [valid |-> TRUE, compressed |-> TRUE, number |-> number]
<1>2. /\ pair'.private.key = key /\ pair'.public.key = GetPubKey(key)
      /\ pair'.private.cc = 0 /\ pair'.public.cc = 0
  BY <1>1
<1>3. IsKey(number) /\ number \in Nat  BY KeysAssumption, NumbersOfKeys DEF IsKey
<1>4. IsValidPubKey(GetPubKey(key)) /\ IsCompressed(GetPubKey(key))  BY <1>3, PublicHalf
<1>. QED  BY <1>2, <1>3, <1>4 DEF PairInv, PrivateIsKey, DerivedPairsMatch

(* One hash decides both halves of a child: the public key that goes into   *)
(* it is the same, and so is the number it is added to.                     *)
LEMMA DeriveInv ==
  ASSUME HashesAreNumbers, PairInv, Derive
  PROVE  PairInv'
<1>1. PICK index \in Index :
        LET child == DeriveKey(pair.private.key, pair.private.cc, index)
        IN  pair' = [depth |-> pair.depth + 1, private |-> child,
                     public |-> IF ~index.hardened
                                THEN DerivePubKey(pair.public.key, pair.public.cc, index)
                                ELSE [key |-> IF child.key.valid THEN GetPubKey(child.key) ELSE NoPubKey,
                                      cc |-> child.cc]]
  BY DEF Derive
<1> DEFINE key == pair.private.key
           child == DeriveKey(key, pair.private.cc, index)
           hash == BIP32Hash(pair.private.cc, index,
                             IF index.hardened THEN [private |-> key.number] ELSE [public |-> GetPubKey(key)])
           number == Child(key.number, hash)
           public == pair'.public
<1>2. pair # NoPair /\ key.valid  BY KeysAssumption DEF Derive, NoPair
<1>3. /\ IsKey(key.number) /\ key.compressed = TRUE
      /\ pair.private.cc = pair.public.cc
      /\ pair.public.key = GetPubKey(key)
  BY <1>2 DEF PairInv, PrivateIsKey, DerivedPairsMatch
<1>4. key.number \in Nat  BY <1>3, NumbersOfKeys
<1>5. GetPubKey(key).number = key.number  BY <1>3, <1>4, PublicHalf
<1>6. /\ child.key.valid <=> number # 0
      /\ child.key.compressed = TRUE /\ child.key.number = number /\ child.cc = hash.right
  BY DEF DeriveKey
<1>7. pair'.private = child  BY <1>1
<1>8. number # 0 => IsKey(number) /\ number \in Nat
  <2>1. hash.left \in Nat  BY Zenon DEF HashesAreNumbers
  <2>2. number # 0 => IsKey(number)  BY <1>4, <2>1, ChildIsKeyOrNone
  <2>. QED  BY <2>2, NumbersOfKeys
<1>9. number # 0 =>
        /\ GetPubKey(child.key) = SetPubKey(Header(number, TRUE), 33, number)
        /\ IsValidPubKey(GetPubKey(child.key))
        /\ IsCompressed(GetPubKey(child.key))
  <2> HIDE DEF number, child
  <2>. QED  BY <1>6, <1>8, PublicHalf
<1>10. /\ public.cc = hash.right
       /\ number = 0 => public.key = NoPubKey
       /\ number # 0 => public.key = GetPubKey(child.key)
  <2>1. CASE index.hardened
    <3>1. public = [key |-> IF child.key.valid THEN GetPubKey(child.key) ELSE NoPubKey, cc |-> child.cc]
      BY <1>1, <2>1
    <3> HIDE DEF public, child, number, hash
    <3>2. public.cc = child.cc /\ public.key = IF child.key.valid THEN GetPubKey(child.key) ELSE NoPubKey
      BY <3>1
    <3>3. CASE number = 0  BY Zenon, <1>6, <3>2, <3>3
    <3>4. CASE number # 0  BY Zenon, <1>6, <3>2, <3>4
    <3>. QED  BY <3>3, <3>4
  <2>2. CASE ~index.hardened
    <3>1. public = DerivePubKey(GetPubKey(key), pair.private.cc, index)  BY <1>1, <1>3, <2>2
    <3>2. hash = BIP32Hash(pair.private.cc, index, [public |-> GetPubKey(key)])  BY <2>2
    <3> DEFINE twin == Child(GetPubKey(key).number, BIP32Hash(pair.private.cc, index, [public |-> GetPubKey(key)]))
    <3>3. twin = number  BY Zenon, <1>5, <3>2
    <3>4. public = [key |-> IF twin = 0 THEN NoPubKey ELSE SetPubKey(Header(twin, TRUE), 33, twin),
                    cc |-> BIP32Hash(pair.private.cc, index, [public |-> GetPubKey(key)]).right]
      BY Zenon, <3>1 DEF DerivePubKey
    <3> HIDE DEF twin, public, number, child, key
    <3>5. /\ public.key = IF twin = 0 THEN NoPubKey ELSE SetPubKey(Header(twin, TRUE), 33, twin)
          /\ public.cc = BIP32Hash(pair.private.cc, index, [public |-> GetPubKey(key)]).right
      BY Zenon, <3>4
    <3>6. public.cc = hash.right  BY Zenon, <3>2, <3>5
    <3>7. CASE number = 0  BY Zenon, <3>3, <3>5, <3>6, <3>7
    <3>8. CASE number # 0
      <4>1. public.key = SetPubKey(Header(number, TRUE), 33, number)  BY Zenon, <3>3, <3>5, <3>8
      <4>. QED  BY Zenon, <1>9, <3>6, <3>8, <4>1
    <3>. QED  BY <3>7, <3>8
  <2>. QED  BY <2>1, <2>2
<1> HIDE DEF key, child, hash, number, public
<1>11. PrivateIsKey'  BY Zenon, <1>6, <1>7, <1>8 DEF PrivateIsKey
<1>12. DerivedPairsMatch'
  <2>1. pair'.private.cc = pair'.public.cc  BY Zenon, <1>6, <1>7, <1>10 DEF public
  <2>2. CASE number = 0
    <3>1. ~child.key.valid /\ ~IsValidPubKey(pair'.public.key)
      BY Zenon, <1>6, <1>10, <2>2, NoPubKeyIsInvalid DEF public
    <3>. QED  BY Zenon, <1>7, <2>1, <3>1 DEF DerivedPairsMatch
  <2>3. CASE number # 0
    <3>1. pair'.public.key = GetPubKey(child.key)  BY Zenon, <1>10, <2>3 DEF public
    <3>2. IsValidPubKey(pair'.public.key) /\ IsCompressed(pair'.public.key)
      BY Zenon, <1>9, <2>3, <3>1
    <3>. QED  BY Zenon, <1>6, <1>7, <2>1, <2>3, <3>1, <3>2 DEF DerivedPairsMatch
  <2>. QED  BY <2>2, <2>3
<1>. QED  BY <1>11, <1>12 DEF PairInv

LEMMA NextInv ==
  ASSUME HashesAreNumbers, PairInv, [KeysNext]_keysVars
  PROVE  PairInv'
<1>1. ASSUME UNCHANGED pair PROVE PairInv'
  BY <1>1 DEF PairInv, PrivateIsKey, DerivedPairsMatch
<1>2. CASE WriteSignature \/ WriteKey \/ UNCHANGED keysVars
  BY <1>1, <1>2 DEF WriteSignature, WriteKey, keysVars
<1>3. CASE MakeNewKey  BY <1>3, MakeNewKeyInv
<1>4. CASE Derive  BY <1>4, DeriveInv
<1>. QED  BY <1>2, <1>3, <1>4 DEF KeysNext

(* Whoever derives with the public key alone has the public keys and chain  *)
(* codes of the private children and fails where they fail                  *)
(* (key.cpp:221-241, pubkey.cpp:226-245).                                   *)
THEOREM PairsStayTogether ==
  ASSUME HashesAreNumbers
  PROVE  KeysSpec => []DerivedPairsMatch
<1>1. PairInv => DerivedPairsMatch  BY DEF PairInv
<1>. QED  BY <1>1, InitInv, NextInv, PTL DEF KeysSpec

(* No derivation leaves a private key that is valid and out of range, or of *)
(* a form whose public key BIP 32 does not know (key.cpp:237-239).          *)
THEOREM DerivedIsKey ==
  ASSUME HashesAreNumbers
  PROVE  KeysSpec => []PrivateIsKey
<1>1. PairInv => PrivateIsKey  BY DEF PairInv
<1>. QED  BY <1>1, InitInv, NextInv, PTL DEF KeysSpec
-----------------------------------------------------------------------------
(* Places among numbered keys.                                              *)
Increasing(f, n) == \A i, j \in 1 .. n : i < j => f[i] < f[j]

(* The members of a set of numbers, in their order.                         *)
IsList(f, S) ==
  /\ f \in [1 .. Cardinality(S) -> S]
  /\ Increasing(f, Cardinality(S))
  /\ \A s \in S : \E i \in 1 .. Cardinality(S) : f[i] = s

LEMMA SizeOfPlaces ==
  ASSUME NEW m \in Nat, NEW S \in SUBSET (1 .. m)
  PROVE  IsFiniteSet(S) /\ Cardinality(S) \in Nat /\ Cardinality(S) <= m
<1>1. IsFiniteSet(1 .. m) /\ Cardinality(1 .. m) = m
  BY FS_Interval
<1>2. IsFiniteSet(S) /\ Cardinality(S) <= Cardinality(1 .. m)
  BY <1>1, FS_Subset
<1>3. Cardinality(S) \in Nat
  BY <1>2, FS_CardinalityType
<1> QED
  BY <1>1, <1>2, <1>3

LEMMA LastIsListed ==
  ASSUME NEW m \in Nat, NEW S \in SUBSET (1 .. m), NEW f, IsList(f, S)
  PROVE  \E g : IsList(g, S \cup {m + 1})
<1> DEFINE n == Cardinality(S)
           T == S \cup {m + 1}
           g == [i \in 1 .. n + 1 |-> IF i = n + 1 THEN m + 1 ELSE f[i]]
<1>1. n \in Nat /\ IsFiniteSet(S) /\ m + 1 \notin S
  BY SizeOfPlaces
<1>2. Cardinality(T) = n + 1
  BY <1>1, FS_AddElement
<1>3. f \in [1 .. n -> S] /\ Increasing(f, n) /\ \A s \in S : \E i \in 1 .. n : f[i] = s
  BY DEF IsList
<1> HIDE DEF n
<1>4. g \in [1 .. n + 1 -> T]
  BY <1>1, <1>3
<1>5. Increasing(g, n + 1)
  <2> SUFFICES ASSUME NEW i \in 1 .. n + 1, NEW j \in 1 .. n + 1, i < j PROVE g[i] < g[j]
    BY DEF Increasing
  <2>0. i \in 1 .. n /\ i # n + 1
    BY <1>1
  <2>1. i \in 1 .. n /\ g[i] = f[i] /\ f[i] \in S /\ \A x \in S : x \in 1 .. m
    BY <1>3, <2>0
  <2>2. CASE j = n + 1
    <3>1. g[j] = m + 1 /\ f[i] \in 1 .. m
      BY <2>1, <2>2
    <3> QED
      BY <2>1, <3>1
  <2>3. CASE j # n + 1
    <3>1. j \in 1 .. n /\ g[j] = f[j]
      BY <1>1, <2>3
    <3> QED
      BY <1>3, <2>1, <3>1 DEF Increasing
  <2> QED
    BY <2>2, <2>3
<1>6. ASSUME NEW s \in T PROVE \E i \in 1 .. n + 1 : g[i] = s
  <2>1. CASE s = m + 1
    <3>1. n + 1 \in 1 .. n + 1 /\ g[n + 1] = s
      BY <1>1, <2>1
    <3> QED
      BY <3>1
  <2>2. CASE s \in S
    <3>1. PICK i \in 1 .. n : f[i] = s
      BY <1>3, <2>2
    <3>2. i \in 1 .. n + 1 /\ g[i] = s
      BY <1>1, <3>1
    <3> QED
      BY <3>2
  <2> QED
    BY <2>1, <2>2
<1> HIDE DEF g, T
<1>7. IsList(g, T)
  BY <1>2, <1>4, <1>5, <1>6 DEF IsList
<1> QED
  BY <1>7 DEF T

LEMMA PlacesAreListed ==
  ASSUME NEW m \in Nat, NEW S \in SUBSET (1 .. m)
  PROVE  \E f : IsList(f, S)
<1> DEFINE T == {k \in Nat : \A R \in SUBSET (1 .. k) : \E f : IsList(f, R)}
<1>1. 0 \in T
  <2> SUFFICES ASSUME NEW R \in SUBSET (1 .. 0) PROVE \E f : IsList(f, R)
    OBVIOUS
  <2>1. R = {}
    OBVIOUS
  <2>2. Cardinality(R) = 0
    BY <2>1, FS_EmptySet
  <2> HIDE DEF T
  <2>3. IsList([i \in 1 .. 0 |-> i], R)
    BY <2>1, <2>2 DEF IsList, Increasing
  <2> QED
    BY <2>3
<1>2. ASSUME NEW k \in Nat, k \in T PROVE k + 1 \in T
  <2> SUFFICES ASSUME NEW R \in SUBSET (1 .. k + 1) PROVE \E f : IsList(f, R)
    OBVIOUS
  <2>1. CASE k + 1 \notin R
    <3>1. R \in SUBSET (1 .. k)
      BY <2>1
    <3> QED
      BY <1>2, <3>1
  <2>2. CASE k + 1 \in R
    <3> DEFINE Q == R \ {k + 1}
    <3>1. Q \in SUBSET (1 .. k) /\ R = Q \cup {k + 1}
      BY <2>2
    <3> HIDE DEF Q
    <3>2. PICK f : IsList(f, Q)
      BY <1>2, <3>1
    <3>3. \E g : IsList(g, Q \cup {k + 1})
      BY <3>1, <3>2, LastIsListed
    <3> QED
      BY <3>1, <3>3
  <2> QED
    BY <2>1, <2>2
<1> HIDE DEF T
<1>3. m \in T
  BY <1>1, <1>2, AllNaturals
<1> QED
  BY <1>3 DEF T

(* More places can be had, as many as there are keys.                       *)
CanGrow(A, r, m) ==
  \E B \in SUBSET (1 .. m) : A \subseteq B /\ Cardinality(B) = r

LEMMA MorePlaces ==
  ASSUME NEW m \in Nat, NEW A \in SUBSET (1 .. m), NEW r \in Nat,
         Cardinality(A) <= r, r <= m
  PROVE  CanGrow(A, r, m)
<1> DEFINE Has(k) == \E B \in SUBSET (1 .. m) : A \subseteq B /\ Cardinality(B) = k
           T == {d \in Nat : Cardinality(A) + d <= m => Has(Cardinality(A) + d)}
<1>1. IsFiniteSet(A) /\ Cardinality(A) \in Nat
  BY SizeOfPlaces
<1>2. 0 \in T
  BY <1>1
<1>3. ASSUME NEW d \in Nat, d \in T PROVE d + 1 \in T
  <2> SUFFICES ASSUME Cardinality(A) + (d + 1) <= m PROVE Has(Cardinality(A) + (d + 1))
    OBVIOUS
  <2>1. Has(Cardinality(A) + d)
    BY <1>1, <1>3
  <2>2. PICK B \in SUBSET (1 .. m) : A \subseteq B /\ Cardinality(B) = Cardinality(A) + d
    BY <2>1
  <2>3. Cardinality(B) < m
    BY <1>1, <2>2
  <2>4. IsFiniteSet(1 .. m) /\ Cardinality(1 .. m) = m /\ IsFiniteSet(B)
    BY FS_Interval, SizeOfPlaces
  <2>5. B # 1 .. m
    BY <2>3, <2>4
  <2>6. PICK x \in 1 .. m : x \notin B
    BY <2>5
  <2>7. Cardinality(B \cup {x}) = Cardinality(B) + 1
    BY <2>4, <2>6, FS_AddElement
  <2>8. /\ B \cup {x} \in SUBSET (1 .. m) /\ A \subseteq B \cup {x}
        /\ Cardinality(B \cup {x}) = Cardinality(A) + (d + 1)
    BY <1>1, <2>2, <2>7
  <2> QED
    BY <2>8
<1> HIDE DEF T
<1>4. r - Cardinality(A) \in Nat /\ Cardinality(A) + (r - Cardinality(A)) = r
  BY <1>1
<1>5. r - Cardinality(A) \in T
  BY <1>2, <1>3, <1>4, AllNaturals
<1> QED
  BY <1>4, <1>5 DEF T, CanGrow

(* As many places of a list are in a part of the set as that part has.      *)
InPart(f, B, A) == {i \in 1 .. Cardinality(B) : f[i] \in A}

LEMMA PlacesInPart ==
  ASSUME NEW m \in Nat, NEW B \in SUBSET (1 .. m), NEW f, IsList(f, B), NEW A \in SUBSET B
  PROVE  Cardinality(InPart(f, B, A)) = Cardinality(A)
<1> DEFINE n == Cardinality(B)
           D == {i \in 1 .. n : f[i] \in A}
           g == [i \in D |-> f[i]]
<1>1. n \in Nat
  BY SizeOfPlaces
<1>2. f \in [1 .. n -> B] /\ Increasing(f, n) /\ \A s \in B : \E i \in 1 .. n : f[i] = s
  BY DEF IsList
<1> HIDE DEF n
<1>3. g \in [D -> A]
  OBVIOUS
<1>4. ASSUME NEW i \in D, NEW j \in D, g[i] = g[j] PROVE i = j
  <2>1. i \in 1 .. n /\ j \in 1 .. n /\ f[i] = f[j]
    BY <1>4
  <2> HIDE DEF D, g
  <2>2. f[i] \in B /\ f[j] \in B
    BY <1>2, <2>1
  <2> DEFINE fi == f[i]
             fj == f[j]
  <2>3. fi \in Int /\ fj \in Int /\ i \in Int /\ j \in Int
    <3> HIDE DEF fi, fj
    <3>1. fi \in B /\ fj \in B
      BY <2>2 DEF fi, fj
    <3>2. fi \in 1 .. m /\ fj \in 1 .. m
      BY <3>1
    <3> QED
      BY <1>1, <2>1, <3>2
  <2>4. (i < j => f[i] < f[j]) /\ (j < i => f[j] < f[i])
    BY <1>2, <2>1 DEF Increasing
  <2> QED
    BY <2>1, <2>3, <2>4
<1>5. ASSUME NEW s \in A PROVE \E i \in D : g[i] = s
  <2>1. PICK i \in 1 .. n : f[i] = s
    BY <1>2
  <2> QED
    BY <2>1
<1>6. IsFiniteSet(D) /\ D \subseteq 1 .. n
  BY <1>1, SizeOfPlaces
<1> HIDE DEF D, g
<1>7. g \in Bijection(D, A)
  BY <1>3, <1>4, <1>5 DEF Bijection, Injection, Surjection, IsInjective
<1>8. Cardinality(A) = Cardinality(D)
  BY <1>6, <1>7, FS_Bijection DEF ExistsBijection
<1> QED
  BY <1>8 DEF D, n, InPart

-----------------------------------------------------------------------------
(* Scripts of inputs.                                                       *)
LEMMA OneItem ==
  ASSUME NEW x
  PROVE  <<x>> \in Seq({x}) /\ Len(<<x>>) = 1 /\ <<x>>[1] = x
OBVIOUS

LEMMA FirstThen ==
  ASSUME NEW x, NEW S, NEW s \in Seq(S)
  PROVE  LET items == <<x>> \o s
         IN  /\ items \in Seq(S \cup {x})
             /\ Len(items) = Len(s) + 1 /\ items[1] = x
             /\ \A i \in 1 .. Len(s) : items[i + 1] = s[i]
<1> DEFINE J == S \cup {x}
           xs == <<x>>
           items == xs \o s
           n == Len(s)
<1>1. s \in Seq(J) /\ xs \in Seq(J)
  BY SeqMonotonic, OneItem
<1>2. Len(xs) = 1 /\ xs[1] = x /\ n \in Nat
  BY OneItem, LenProperties
<1> HIDE DEF J, xs
<1>3. /\ items \in Seq(J) /\ Len(items) = Len(xs) + Len(s)
      /\ \A i \in 1 .. Len(xs) + Len(s) :
           items[i] = IF i <= Len(xs) THEN xs[i] ELSE s[i - Len(xs)]
  BY <1>1, ConcatProperties
<1> HIDE DEF items
<1>4. \A i \in 1 .. 1 + n : items[i] = IF i <= 1 THEN xs[i] ELSE s[i - 1]
  BY <1>2, <1>3
<1>5. Len(items) = n + 1
  BY <1>2, <1>3
<1> HIDE DEF n
<1>6. items[1] = x
  <2>1. 1 \in 1 .. 1 + n /\ 1 <= 1
    BY <1>2
  <2> QED
    BY <1>2, <1>4, <2>1
<1>7. ASSUME NEW i \in 1 .. n PROVE items[i + 1] = s[i]
  <2>1. i + 1 \in 1 .. 1 + n /\ ~(i + 1 <= 1) /\ (i + 1) - 1 = i
    BY <1>2
  <2> QED
    BY <1>4, <2>1
<1> QED
  BY <1>3, <1>5, <1>6, <1>7 DEF items, xs, n, J

IsPair(items, x, more, S) ==
  /\ items \in Seq(S \cup {x})
  /\ Len(items) = 2 /\ items[1] = x /\ items[2] = more[1]

LEMMA TwoItems ==
  ASSUME NEW x, NEW S, NEW more \in Seq(S), Len(more) = 1
  PROVE  IsPair(<<x>> \o more, x, more, S)
<1> DEFINE items == <<x>> \o more
<1>1. /\ items \in Seq(S \cup {x}) /\ Len(items) = Len(more) + 1 /\ items[1] = x
      /\ \A i \in 1 .. Len(more) : items[i + 1] = more[i]
  BY FirstThen
<1> HIDE DEF items
<1>2. 1 \in 1 .. 1 /\ 1 + 1 = 2
  OBVIOUS
<1>3. Len(items) = 2 /\ items[2] = more[1]
  BY <1>1, <1>2
<1>4. IsPair(items, x, more, S)
  BY <1>1, <1>3 DEF IsPair
<1> QED
  BY <1>4 DEF items

LEMMA FrontOf ==
  ASSUME NEW S, NEW items \in Seq(S), NEW x
  PROVE  LET all == Append(items, x)
         IN  /\ all # <<>> /\ all[Len(all)] = x
             /\ SubSeq(all, 1, Len(all) - 1) = items
             /\ all = items \o <<x>>
<1> DEFINE J == S \cup {x}
           all == Append(items, x)
<1>1. items \in Seq(J) /\ x \in J
  BY SeqMonotonic
<1>2. Len(items) \in Nat
  BY LenProperties
<1> HIDE DEF J
<1>3. /\ all \in Seq(J) /\ all # <<>> /\ Len(all) = Len(items) + 1
      /\ \A i \in 1 .. Len(items) : all[i] = items[i]
      /\ all[Len(items) + 1] = x
  BY <1>1, AppendProperties
<1>4. all = items \o <<x>>
  BY <1>1, AppendIsConcat
<1> HIDE DEF all
<1>5. Len(all) - 1 = Len(items)
  BY <1>2, <1>3
<1>6. SubSeq(all, 1, Len(items)) = items
  <2>1. \A i \in 1 .. Len(items) : all[i] \in J
    BY <1>1, <1>3, ElementOfSeq
  <2> DEFINE front == SubSeq(all, 1, Len(items))
             size == Len(items)
  <2>2. /\ front \in Seq(J) /\ Len(front) = IF 1 <= size THEN size - 1 + 1 ELSE 0
        /\ \A i \in 1 .. size - 1 + 1 : front[i] = all[1 + i - 1]
    BY <1>2, <2>1, SubSeqProperties
  <2>3. Len(front) = size /\ size - 1 + 1 = size
    BY <1>2, <2>2
  <2>4. ASSUME NEW i \in 1 .. size PROVE front[i] = items[i]
    <3>1. front[i] = all[1 + i - 1] /\ 1 + i - 1 = i
      BY <1>2, <2>2, <2>3
    <3> QED
      BY <1>3, <3>1
  <2> HIDE DEF front
  <2>5. front = items
    BY <1>1, <2>2, <2>3, <2>4, SeqEqual
  <2> QED
    BY <2>5 DEF front
<1> QED
  BY <1>3, <1>4, <1>5, <1>6 DEF all

(* What the key signs in a script, and where it stands there.               *)
Mine(script) == {i \in 1 .. Len(script.keys) : script.keys[i] = call.key}
OwnSignature(script) == <<"sig", call.key, SignatureHash(script)>>
Signatures(n, script) == [i \in 1 .. n |-> OwnSignature(script)]

LEMMA MineIsFinite ==
  ASSUME NEW script, IsScript(script), script.form = "multisig"
  PROVE  /\ Len(script.keys) \in Nat /\ script.required \in Nat
         /\ Mine(script) \in SUBSET (1 .. Len(script.keys))
         /\ Cardinality(Mine(script)) \in Nat
<1>1. Len(script.keys) \in Nat /\ script.required \in Nat
  BY DEF IsScript
<1>2. Mine(script) \in SUBSET (1 .. Len(script.keys))
  BY DEF Mine
<1> QED
  BY <1>1, <1>2, SizeOfPlaces

LEMMA SignaturesAre ==
  ASSUME NEW n \in Nat, NEW script
  PROVE  LET sigs == Signatures(n, script)
         IN  /\ sigs \in Seq({OwnSignature(script)}) /\ Len(sigs) = n
             /\ \A i \in 1 .. n : sigs[i] = OwnSignature(script)
<1> DEFINE sigs == Signatures(n, script)
           x == OwnSignature(script)
<1>1. sigs \in [1 .. n -> {x}]
  BY DEF Signatures
<1> HIDE DEF sigs, x
<1>2. sigs \in Seq({x}) /\ Len(sigs) = n
  BY <1>1
<1>3. \A i \in 1 .. n : sigs[i] = x
  BY <1>1
<1> QED
  BY <1>2, <1>3 DEF sigs, x

(* What signing a multisignature script gives: OP_0 and the signatures.     *)
LEMMA SignNIs ==
  ASSUME NEW script, IsScript(script), script.form = "multisig"
  PROVE  LET r == script.required
             c == Cardinality(Mine(script))
             solved == SignN(script, SignatureHash(script), <<<<"zero">>>>)
         IN  /\ call.key = "invalid" => solved = Outcome("thrown", <<<<"zero">>>>)
             /\ call.key # "invalid" =>
                  solved = Outcome(IF c >= r THEN "true" ELSE "false",
                                   <<<<"zero">>>> \o Signatures(IF c < r THEN c ELSE r, script))
<1> DEFINE r == script.required
           c == Cardinality(Mine(script))
           n == IF c < r THEN c ELSE r
<1>1. c \in Nat /\ r \in Nat
  BY MineIsFinite
<1>2. SignN(script, SignatureHash(script), <<<<"zero">>>>) =
        IF call.key = "invalid" THEN Outcome("thrown", <<<<"zero">>>>)
        ELSE Outcome(IF n >= r THEN "true" ELSE "false", <<<<"zero">>>> \o Signatures(n, script))
  BY DEF SignN, Mine, Signatures, OwnSignature
<1> HIDE DEF c, r
<1>3. n >= r <=> c >= r
  BY <1>1
<1> QED
  BY <1>2, <1>3 DEF c, r

LEMMA SignaturesSatisfy ==
  ASSUME NEW script, IsScript(script), script.form = "multisig",
         Cardinality(Mine(script)) >= script.required
  PROVE  Satisfies(<<<<"zero">>>> \o Signatures(script.required, script), script)
<1> DEFINE r == script.required
           m == Len(script.keys)
           c == Cardinality(Mine(script))
           sigs == Signatures(r, script)
           items == <<<<"zero">>>> \o sigs
<1>1. r \in Nat /\ m \in Nat /\ c \in Nat /\ c >= r /\ Mine(script) \in SUBSET (1 .. m)
  BY MineIsFinite
<1>2. PICK f : IsList(f, Mine(script))
  BY <1>1, PlacesAreListed
<1>3. f \in [1 .. c -> Mine(script)] /\ Increasing(f, c)
  BY <1>2 DEF IsList
<1> DEFINE by == [i \in 1 .. r |-> f[i]]
<1> HIDE DEF r, m, c
<1>4. 1 .. r \subseteq 1 .. c
  BY <1>1
<1>5. by \in [1 .. r -> 1 .. m] /\ \A i \in 1 .. r : by[i] \in Mine(script)
  BY <1>1, <1>3, <1>4
<1>6. \A i, j \in 1 .. r : i < j => by[i] < by[j]
  BY <1>3, <1>4 DEF Increasing
<1> HIDE DEF by
<1>7. by \in Places(script)
  BY <1>5, <1>6 DEF Places, r, m
<1>8. /\ sigs \in Seq({OwnSignature(script)}) /\ Len(sigs) = r
      /\ \A i \in 1 .. r : sigs[i] = OwnSignature(script)
  BY <1>1, SignaturesAre
<1> HIDE DEF sigs
<1>9. Len(items) = r + 1 /\ items[1] = <<"zero">> /\ \A i \in 1 .. r : items[i + 1] = sigs[i]
  BY <1>8, FirstThen
<1> HIDE DEF items
<1>10. ASSUME NEW i \in 1 .. r PROVE SignedBy(items[i + 1], script.keys[by[i]], script)
  <2>1. script.keys[by[i]] = call.key
    BY <1>5 DEF Mine
  <2> QED
    BY <1>8, <1>9, <2>1 DEF SignedBy, OwnSignature
<1>11. Satisfies(items, script)
  BY <1>7, <1>9, <1>10 DEF Satisfies, r
<1> QED
  BY <1>11 DEF items, sigs, r

(* Too few signatures satisfy nothing.                                      *)
LEMMA FewDoNotSatisfy ==
  ASSUME NEW script, IsScript(script), script.form = "multisig",
         NEW n \in Nat, n < script.required
  PROVE  ~Satisfies(<<<<"zero">>>> \o Signatures(n, script), script)
<1> DEFINE sigs == Signatures(n, script)
           items == <<<<"zero">>>> \o sigs
<1>1. sigs \in Seq({OwnSignature(script)}) /\ Len(sigs) = n
  BY SignaturesAre
<1> HIDE DEF sigs
<1>2. Len(items) = n + 1
  BY <1>1, FirstThen
<1> HIDE DEF items
<1>3. Len(items) # script.required + 1
  BY <1>2, MineIsFinite
<1>4. ~Satisfies(items, script)
  BY <1>3 DEF Satisfies
<1> QED
  BY <1>4 DEF items, sigs

-----------------------------------------------------------------------------
(* The solver.                                                              *)
Signable(script) == HasDestination(script) /\ script.tail # "junk"

LEMMA TemplateIs ==
  ASSUME NEW script, IsScript(script)
  PROVE  /\ Signable(script) => /\ TemplateSolver(script).ok
                                /\ TemplateSolver(script).which = script.form
         /\ ~Signable(script) =>
              /\ ~TemplateSolver(script).ok \/ TemplateSolver(script).which = "nonstandard"
              /\ TemplateSolver(script).which \in {"nulldata", "nonstandard"}
<1>1. CASE Signable(script)
  <2>1. TemplateSolver(script) = [ok |-> TRUE, which |-> script.form]
    BY <1>1 DEF TemplateSolver, Signable
  <2> QED
    BY <1>1, <2>1
<1>2. CASE ~Signable(script)
  <2>1. TemplateSolver(script) =
          [ok    |-> script.form = "empty",
           which |-> IF IsStandardNullData(script) THEN "nulldata" ELSE "nonstandard"]
    BY <1>2 DEF TemplateSolver, Signable
  <2>2. TemplateSolver(script).ok = (script.form = "empty")
    BY <2>1
  <2>3. TemplateSolver(script).which = IF script.form = "nulldata" THEN "nulldata" ELSE "nonstandard"
    BY <2>1 DEF IsStandardNullData
  <2> QED
    BY <1>2, <2>2, <2>3
<1> QED
  BY <1>1, <1>2

LEMMA SolverIs ==
  ASSUME NEW script, IsScript(script), NEW hash
  PROVE  /\ ~Signable(script) => Solver(script, hash) \in {Outcome("false", scriptSig), Outcome("false", <<>>)}
         /\ Signable(script) =>
              /\ script.form = "pubkey" => Solver(script, hash) = SignOne(script, hash, <<>>)
              /\ script.form = "keyhash" =>
                   Solver(script, hash) = SignOne(script, hash, <<<<"key", call.key>>>>)
              /\ script.form = "scripthash" =>
                   Solver(script, hash) = Outcome("true", <<<<"script", call.redeem>>>>)
              /\ script.form = "multisig" =>
                   Solver(script, hash) = SignN(script, hash, <<<<"zero">>>>)
<1>1. CASE ~Signable(script)
  <2>0. TemplateSolver(script).which \in {"nulldata", "nonstandard"}
    BY <1>1, TemplateIs
  <2>1. CASE ~TemplateSolver(script).ok
    <3>1. Solver(script, hash) = Outcome("false", scriptSig)
      BY <2>0, <2>1 DEF Solver
    <3> QED
      BY <1>1, <3>1
  <2>2. CASE TemplateSolver(script).ok /\ TemplateSolver(script).which = "nonstandard"
    <3>1. Solver(script, hash) = Outcome("false", <<>>)
      BY <2>2 DEF Solver
    <3> QED
      BY <1>1, <3>1
  <2> QED
    BY <1>1, <2>1, <2>2, TemplateIs
<1>2. CASE Signable(script)
  <2>1. TemplateSolver(script).ok = TRUE /\ TemplateSolver(script).which = script.form
    <3>1. TemplateSolver(script) = [ok |-> TRUE, which |-> script.form]
      BY <1>2 DEF TemplateSolver, Signable
    <3> QED
      BY <3>1
  <2>2. CASE script.form = "pubkey"
    BY <1>2, <2>1, <2>2 DEF Solver
  <2>3. CASE script.form = "keyhash"
    BY <1>2, <2>1, <2>3 DEF Solver
  <2>4. CASE script.form = "scripthash"
    BY <1>2, <2>1, <2>4 DEF Solver
  <2>5. CASE script.form = "multisig"
    BY <1>2, <2>1, <2>5 DEF Solver
  <2> QED
    BY <1>2, <2>2, <2>3, <2>4, <2>5
<1> QED
  BY <1>1, <1>2

LEMMA OutcomeIs ==
  ASSUME NEW end, NEW sig
  PROVE  Outcome(end, sig).end = end /\ Outcome(end, sig).sig = sig
BY DEF Outcome

LEMMA PartsOfOutcome ==
  ASSUME NEW end, NEW sig, NEW outcome, outcome = Outcome(end, sig)
  PROVE  outcome.end = end /\ outcome.sig = sig
BY OutcomeIs

(* What the solver leaves of a script that is not the hash of another one:  *)
(* its input is good exactly when the key is enough.                        *)
Solved(script) == Solver(script, SignatureHash(script))

SolvedWell(script) ==
  /\ Solved(script).end \in {"thrown", "true", "false"}
  /\ Solved(script).end = "thrown" => call.key = "invalid"
  /\ Solved(script).end # "thrown" =>
       /\ \E S : Solved(script).sig \in Seq(S)
       /\ Satisfies(Solved(script).sig, script) <=> Enough(script)
  /\ Solved(script).end = "true" /\ script.form # "scripthash" => Enough(script)
  /\ Solved(script).end = "false" => ~Enough(script)

(* What is in the input before the solver is no signature.                  *)
Before(script) == scriptSig \in {<<>>, <<<<"script", script>>>>}

LEMMA SolvedUnsignable ==
  ASSUME NEW script, IsScript(script), ~Signable(script), Before(script)
  PROVE  SolvedWell(script)
<1> DEFINE sig == Solved(script).sig
<1>1. Solved(script).end = "false" /\ sig \in {<<>>, <<<<"script", script>>>>}
  BY SolverIs, OutcomeIs DEF Solved, Before
<1>2. \E S : sig \in Seq(S)
  <2>1. <<>> \in Seq({script})
    OBVIOUS
  <2> HIDE DEF sig
  <2> QED
    BY <1>1, <2>1, OneItem
<1>3. ~Enough(script)
  BY DEF Enough, Signable, HasDestination
<1>4. ~Satisfies(sig, script)
  <2>1. CASE sig = <<>>
    <3>1. Len(sig) = 0 /\ (script.form = "multisig" => script.required + 1 # 0)
      BY <2>1 DEF IsScript
    <3> HIDE DEF sig
    <3> QED
      BY <3>1 DEF Satisfies
  <2>2. CASE sig = <<<<"script", script>>>>
    <3>1. Len(sig) = 1 /\ sig[1][1] = "script"
      BY <2>2
    <3> HIDE DEF sig
    <3>2. sig[1] # <<"zero">> /\ \A key : ~SignedBy(sig[1], key, script)
      BY <3>1 DEF SignedBy
    <3> QED
      BY <3>1, <3>2 DEF Satisfies
  <2> QED
    BY <1>1, <2>1, <2>2
<1> QED
  BY <1>1, <1>2, <1>3, <1>4 DEF SolvedWell

LEMMA SolvedOne ==
  ASSUME NEW script, IsScript(script), Signable(script),
         script.form \in {"pubkey", "keyhash"}
  PROVE  SolvedWell(script)
<1> DEFINE sig == Solved(script).sig
           more == IF script.form = "pubkey" THEN <<>> ELSE <<<<"key", call.key>>>>
           first == OwnSignature(script)
<1>1. Solved(script) = SignOne(script, SignatureHash(script), more)
  BY SolverIs DEF Solved
<1>2. CASE call.key = "invalid"
  <2>1. Solved(script).end = "thrown"
    BY <1>1, <1>2, OutcomeIs DEF SignOne
  <2> QED
    BY <1>2, <2>1 DEF SolvedWell
<1>3. CASE call.key # "invalid" /\ call.key # script.keys[1]
  <2>1. Solved(script).end = "false" /\ sig = <<>>
    BY <1>1, <1>3, OutcomeIs DEF SignOne
  <2>2. Len(sig) = 0 /\ \E S : sig \in Seq(S)
    BY <2>1
  <2> HIDE DEF sig
  <2>3. ~Satisfies(sig, script) /\ ~Enough(script)
    BY <1>3, <2>2 DEF Satisfies, Enough
  <2> QED
    BY <2>1, <2>2, <2>3 DEF SolvedWell, sig
<1>4. CASE call.key # "invalid" /\ call.key = script.keys[1]
  <2>0. Solved(script) = Outcome("true", <<first>> \o more)
    <3> HIDE DEF more
    <3> QED
      BY <1>1, <1>4 DEF SignOne, OwnSignature
  <2>1. Solved(script).end = "true" /\ sig = <<first>> \o more
    <3> DEFINE all == <<first>> \o more
    <3> HIDE DEF all
    <3>1. Solved(script) = Outcome("true", all)
      BY <2>0 DEF all
    <3>2. Solved(script).end = "true" /\ Solved(script).sig = all
      BY <3>1, PartsOfOutcome
    <3> QED
      BY <3>2 DEF all
  <2>2. Enough(script)
    BY <1>4 DEF Enough, Signable
  <2>3. SignedBy(first, script.keys[1], script)
    BY <1>4 DEF SignedBy, OwnSignature
  <2> HIDE DEF first
  <2>4. CASE script.form = "pubkey"
    <3>1. more \in Seq({first}) /\ Len(more) = 0
      BY <2>4
    <3> HIDE DEF more, sig
    <3> DEFINE items == <<first>> \o more
    <3>a. items \in Seq({first} \cup {first}) /\ Len(items) = Len(more) + 1 /\ items[1] = first
      BY <3>1, FirstThen
    <3>b. sig = items
      BY <2>1
    <3> HIDE DEF items
    <3>2. Len(sig) = 1 /\ sig[1] = first /\ \E S : sig \in Seq(S)
      BY <3>1, <3>a, <3>b
    <3>3. Satisfies(sig, script)
      BY <2>3, <2>4, <3>2 DEF Satisfies
    <3> QED
      BY <2>1, <2>2, <3>2, <3>3 DEF SolvedWell, sig
  <2>5. CASE script.form = "keyhash"
    <3> DEFINE k == <<"key", call.key>>
    <3>1. more = <<k>>
      BY <2>5
    <3> HIDE DEF more, sig, k
    <3>2. more \in Seq({k}) /\ Len(more) = 1 /\ more[1] = k
      BY <3>1, OneItem
    <3>a. Len(sig) = 2 /\ sig[1] = first /\ sig[2] = k /\ \E S : sig \in Seq(S)
      <4> DEFINE items == <<first>> \o more
      <4>1. more \in Seq({k}) /\ Len(more) = 1
        BY <3>2
      <4>2. IsPair(items, first, more, {k})
        BY <4>1, TwoItems
      <4>3. sig = items
        BY <2>1
      <4> HIDE DEF items
      <4>4. sig \in Seq({k} \cup {first}) /\ Len(sig) = 2 /\ sig[1] = first /\ sig[2] = more[1]
        BY <4>2, <4>3 DEF IsPair
      <4> QED
        BY <3>2, <4>4
    <3>3. Satisfies(sig, script)
      BY <1>4, <2>3, <2>5, <3>a DEF Satisfies, k
    <3> QED
      BY <2>1, <2>2, <3>a, <3>3 DEF SolvedWell, sig
  <2> QED
    BY <2>4, <2>5
<1> QED
  BY <1>2, <1>3, <1>4

LEMMA SolvedMultisig ==
  ASSUME NEW script, IsScript(script), Signable(script), script.form = "multisig"
  PROVE  SolvedWell(script)
<1> DEFINE r == script.required
           c == Cardinality(Mine(script))
           n == IF c < r THEN c ELSE r
           sig == Solved(script).sig
           sigs == Signatures(n, script)
<1>1. r \in Nat /\ c \in Nat
  BY MineIsFinite
<1>2. Solved(script) = SignN(script, SignatureHash(script), <<<<"zero">>>>)
  BY SolverIs DEF Solved
<1>3. CASE call.key = "invalid"
  <2>1. Solved(script).end = "thrown"
    BY <1>2, <1>3, SignNIs, OutcomeIs
  <2> QED
    BY <1>3, <2>1 DEF SolvedWell
<1>4. CASE call.key # "invalid"
  <2>0. Solved(script) = Outcome(IF c >= r THEN "true" ELSE "false", <<<<"zero">>>> \o sigs)
    BY <1>2, <1>4, SignNIs
  <2>1. /\ Solved(script).end = IF c >= r THEN "true" ELSE "false"
        /\ sig = <<<<"zero">>>> \o sigs
    <3> DEFINE all == <<<<"zero">>>> \o sigs
               end == IF c >= r THEN "true" ELSE "false"
    <3> HIDE DEF all, end
    <3>1. Solved(script) = Outcome(end, all)
      BY <2>0 DEF all, end
    <3>2. Solved(script).end = end /\ Solved(script).sig = all
      BY <3>1, PartsOfOutcome
    <3> QED
      BY <3>2 DEF all, end
  <2>2. Enough(script) <=> c >= r
    BY <1>4 DEF Enough, Signable, Mine
  <2> HIDE DEF c, r
  <2>3. \E S : sig \in Seq(S)
    <3>1. n \in Nat
      BY <1>1
    <3> HIDE DEF n
    <3>2. sigs \in Seq({OwnSignature(script)})
      BY <3>1, SignaturesAre
    <3> HIDE DEF sigs, sig
    <3> QED
      BY <2>1, <3>2, FirstThen
  <2>4. CASE c >= r
    <3>1. n = r
      BY <1>1, <2>4
    <3>2. Satisfies(sig, script)
      BY <2>1, <2>4, <3>1, SignaturesSatisfy DEF r, c
    <3> QED
      BY <2>1, <2>2, <2>3, <2>4, <3>2 DEF SolvedWell
  <2>5. CASE ~(c >= r)
    <3>1. n = c /\ c < r
      BY <1>1, <2>5
    <3>2. ~Satisfies(sig, script)
      BY <1>1, <2>1, <3>1, FewDoNotSatisfy DEF r
    <3> QED
      BY <2>1, <2>2, <2>3, <2>5, <3>2 DEF SolvedWell
  <2> QED
    BY <2>4, <2>5
<1> QED
  BY <1>3, <1>4

LEMMA SolvedHash ==
  ASSUME NEW script, IsScript(script), Signable(script), script.form = "scripthash"
  PROVE  /\ SolvedWell(script)
         /\ Solved(script) = Outcome("true", <<<<"script", call.redeem>>>>)
<1>1. Solved(script) = Outcome("true", <<<<"script", call.redeem>>>>)
  BY SolverIs DEF Solved
<1>2. Solved(script).end = "true" /\ Solved(script).sig = <<<<"script", call.redeem>>>>
  BY <1>1, OutcomeIs
<1>3. \E S : Solved(script).sig \in Seq(S)
  <2> DEFINE x == <<"script", call.redeem>>
  <2>1. <<x>> \in Seq({x})
    OBVIOUS
  <2> QED
    BY <1>2, <2>1
<1>4. ~Enough(script) /\ ~Satisfies(Solved(script).sig, script)
  BY DEF Enough, Satisfies
<1> QED
  BY <1>1, <1>2, <1>3, <1>4 DEF SolvedWell

LEMMA SolverIsRight ==
  ASSUME NEW script, IsScript(script), Before(script)
  PROVE  SolvedWell(script)
<1>1. Signable(script) => script.form \in {"pubkey", "keyhash", "scripthash", "multisig"}
  BY DEF Signable, HasDestination
<1> QED
  BY <1>1, SolvedUnsignable, SolvedOne, SolvedMultisig, SolvedHash

(* Other keys can be found places for, so that those of the key and theirs  *)
(* together satisfy a multisignature script.                                *)
LEMMA PlacesSatisfy ==
  ASSUME NEW script, IsScript(script), script.form = "multisig", NEW by \in Places(script)
  PROVE  /\ Satisfies(<<<<"zero">>>> \o InPlaces(script, by), script)
         /\ \E S : <<<<"zero">>>> \o InPlaces(script, by) \in Seq(S)
<1> DEFINE r == script.required
           all == InPlaces(script, by)
           z == <<"zero">>
           items == <<z>> \o all
           S == {all[i] : i \in 1 .. r}
<1>1. r \in Nat
  BY MineIsFinite
<1>2. /\ all \in [1 .. r -> S]
      /\ \A i \in 1 .. r : SignedBy(all[i], script.keys[by[i]], script)
  BY DEF InPlaces, SignedBy
<1> HIDE DEF all, S, r, z
<1>3. all \in Seq(S) /\ Len(all) = r
  BY <1>1, <1>2
<1>4. /\ items \in Seq(S \cup {z}) /\ Len(items) = Len(all) + 1 /\ items[1] = z
      /\ \A i \in 1 .. Len(all) : items[i + 1] = all[i]
  BY <1>3, FirstThen
<1> HIDE DEF items
<1>5. ASSUME NEW i \in 1 .. r PROVE SignedBy(items[i + 1], script.keys[by[i]], script)
  <2>1. items[i + 1] = all[i]
    BY <1>3, <1>4
  <2> QED
    BY <1>2, <2>1
<1>6. Satisfies(items, script)
  BY <1>3, <1>4, <1>5 DEF Satisfies, r, z
<1> QED
  BY <1>4, <1>6 DEF items, all, z

LEMMA OthersFindPlaces ==
  ASSUME NEW script, IsScript(script), script.form = "multisig",
         script.required <= Len(script.keys)
  PROVE  LET r == script.required
             c == Cardinality(Mine(script))
         IN  \E by \in Places(script) :
               Cardinality({i \in 1 .. r : script.keys[by[i]] = call.key}) = IF c < r THEN c ELSE r
<1> DEFINE r == script.required
           m == Len(script.keys)
           c == Cardinality(Mine(script))
           have(by) == {i \in 1 .. r : script.keys[by[i]] = call.key}
<1>1. r \in Nat /\ m \in Nat /\ c \in Nat /\ r <= m /\ Mine(script) \in SUBSET (1 .. m)
  BY MineIsFinite
<1>2. \A k \in 1 .. m : k \in Mine(script) <=> script.keys[k] = call.key
  BY DEF Mine
<1>3. CASE c >= r
  <2>1. PICK f : IsList(f, Mine(script))
    BY <1>1, PlacesAreListed
  <2>2. f \in [1 .. c -> Mine(script)] /\ Increasing(f, c)
    BY <2>1 DEF IsList
  <2> DEFINE by == [i \in 1 .. r |-> f[i]]
  <2> HIDE DEF r, m, c
  <2>3. 1 .. r \subseteq 1 .. c
    BY <1>1, <1>3
  <2>4. by \in [1 .. r -> 1 .. m] /\ \A i \in 1 .. r : by[i] \in Mine(script)
    BY <1>1, <2>2, <2>3
  <2>5. \A i, j \in 1 .. r : i < j => by[i] < by[j]
    BY <2>2, <2>3 DEF Increasing
  <2> HIDE DEF by
  <2>6. by \in Places(script)
    BY <2>4, <2>5 DEF Places, r, m
  <2>7. have(by) = 1 .. r
    BY <1>1, <1>2, <2>4
  <2> HIDE DEF have
  <2>8. Cardinality(have(by)) = r
    BY <1>1, <2>7, FS_Interval
  <2>9. (IF c < r THEN c ELSE r) = r
    BY <1>1, <1>3
  <2> QED
    BY <2>6, <2>8, <2>9 DEF have, r, c
<1>4. CASE ~(c >= r)
  <2>1. c <= r /\ c < r
    BY <1>1, <1>4
  <2> DEFINE A == Mine(script)
  <2>a. A \in SUBSET (1 .. m) /\ Cardinality(A) <= r /\ r <= m /\ r \in Nat /\ m \in Nat
    BY <1>1, <2>1
  <2> HIDE DEF r, m, A
  <2>c. CanGrow(A, r, m)
    BY <2>a, MorePlaces
  <2>2. PICK B \in SUBSET (1 .. m) : A \subseteq B /\ Cardinality(B) = r
    BY <2>c DEF CanGrow
  <2>3. PICK f : IsList(f, B)
    BY <1>1, <2>2, PlacesAreListed
  <2>4. f \in [1 .. r -> B] /\ Increasing(f, r)
    BY <2>2, <2>3 DEF IsList
  <2>5. f \in Places(script)
    <3>1. f \in [1 .. r -> 1 .. m]
      BY <2>2, <2>4
    <3> QED
      BY <2>4, <3>1 DEF Places, Increasing, r, m
  <2>6. Cardinality({i \in 1 .. r : f[i] \in A}) = Cardinality(A)
    <3>1. A \in SUBSET B
      BY <2>2
    <3>2. Cardinality(InPart(f, B, A)) = Cardinality(A)
      BY <2>a, <2>3, <3>1, PlacesInPart
    <3> QED
      BY <2>2, <3>2 DEF InPart
  <2>7. have(f) = {i \in 1 .. r : f[i] \in A}
    <3>1. \A i \in 1 .. r : f[i] \in 1 .. m
      BY <2>2, <2>4
    <3> QED
      BY <1>2, <3>1 DEF A
  <2> HIDE DEF have
  <2>b. c = Cardinality(A)
    BY DEF A
  <2> HIDE DEF c
  <2>8. Cardinality(have(f)) = IF c < r THEN c ELSE r
    BY <2>1, <2>6, <2>7, <2>b
  <2> QED
    BY <2>5, <2>8 DEF have, r, c
<1> QED
  BY <1>3, <1>4

-----------------------------------------------------------------------------
(* Transactions.                                                            *)
OutputsFirst ==
  stage \in {"pay", "change", "publish", "back", "sign"} => scriptSig = <<>> /\ result = ""

RedeemNext ==
  stage = "redeem" =>
    /\ scriptSig = <<<<"script", call.redeem>>>> /\ result = ""
    /\ call.spent.form = "scripthash" /\ call.spent.tail # "junk"

SendInv ==
  /\ call \in SendCall
  /\ stage \in {"pay", "change", "publish", "back", "sign", "redeem", "done", "thrown"}
  /\ OutputsFirst
  /\ RedeemNext
  /\ SpendableIfOwned
  /\ PartialSignaturesAreGood

LEMMA InitSendInv == SendInit => SendInv
<1> SUFFICES ASSUME SendInit PROVE SendInv
  OBVIOUS
<1>1. stage \in {"pay", "publish"} /\ call \in SendCall /\ scriptSig = <<>> /\ result = ""
  BY DEF SendInit
<1> QED
  BY <1>1 DEF SendInv, OutputsFirst, RedeemNext, SpendableIfOwned, PartialSignaturesAreGood

LEMMA ScriptsOfCall ==
  ASSUME SendInv
  PROVE  IsScript(call.spent) /\ IsScript(call.redeem)
BY SendTxAssumption DEF SendInv

(* The two properties after a step that leaves the outputs as they are.     *)
LEMMA SpendableAfter ==
  ASSUME UNCHANGED <<call, vout>>,
         stage' \in {"done", "thrown"} =>
           ((result' = "hex" /\ Spends(scriptSig', call.spent)) <=> Owns)
  PROVE  SpendableIfOwned'
<1>1. Owns' <=> Owns
  BY DEF Owns, Enough
<1>2. ASSUME NEW items, NEW script PROVE Satisfies(items, script)' <=> Satisfies(items, script)
  BY DEF Satisfies, SignedBy, SignatureHash, Places
<1>3. ASSUME NEW items, NEW script PROVE Spends(items, script)' <=> Spends(items, script)
  BY <1>2 DEF Spends
<1>4. Spends(scriptSig, call.spent)' <=> Spends(scriptSig', call.spent)
  BY <1>3
<1> QED
  BY <1>1, <1>4 DEF SpendableIfOwned

LEMMA SpendsAfter ==
  ASSUME UNCHANGED <<call, vout>>, NEW items, NEW script
  PROVE  Spends(items, script)' <=> Spends(items, script)
<1>1. ASSUME NEW i, NEW s PROVE Satisfies(i, s)' <=> Satisfies(i, s)
  BY DEF Satisfies, SignedBy, SignatureHash, Places
<1> QED
  BY <1>1 DEF Spends

LEMMA OtherSignaturesAfter ==
  ASSUME UNCHANGED <<call, vout>>, NEW script, NEW by
  PROVE  InPlaces(script, by)' = InPlaces(script, by) /\ OfKey(script, by)' = OfKey(script, by)
<1>1. SignatureHash(script)' = SignatureHash(script)
  BY DEF SignatureHash
<1>2. call' = call
  OBVIOUS
<1> QED
  BY <1>1, <1>2 DEF InPlaces, OfKey

SignedInPart ==
  /\ call.spent.form = "scripthash" /\ call.spent.tail # "junk"
  /\ call.redeem = call.spent.redeem[1] /\ call.redeem.form = "multisig"
  /\ call.redeem.tail # "junk" /\ call.redeem.required <= Len(call.redeem.keys)

IsGoodPart(items, by) ==
  /\ Spends(Full(InPlaces(call.redeem, by), call.redeem), call.spent)
  /\ items = Full(OfKey(call.redeem, by), call.redeem)

LEMMA PartialIs ==
  PartialSignaturesAreGood <=>
    (stage = "done" /\ SignedInPart
       => result = "hex" /\ \E by \in Places(call.redeem) : IsGoodPart(scriptSig, by))
BY DEF PartialSignaturesAreGood, SignedInPart, IsGoodPart

LEMMA PartialAfterIs ==
  ASSUME UNCHANGED <<call, vout>>,
         stage' = "done" /\ SignedInPart =>
           result' = "hex" /\ \E by \in Places(call.redeem) : IsGoodPart(scriptSig', by)
  PROVE  PartialSignaturesAreGood'
<1>1. SignedInPart' <=> SignedInPart
  BY DEF SignedInPart
<1>2. ASSUME NEW items, NEW by PROVE IsGoodPart(items, by)' <=> IsGoodPart(items, by)
  <2>1. call' = call
    OBVIOUS
  <2>2. /\ InPlaces(call.redeem, by)' = InPlaces(call.redeem, by)
        /\ OfKey(call.redeem, by)' = OfKey(call.redeem, by)
    BY <2>1, OtherSignaturesAfter
  <2>3. Full(InPlaces(call.redeem, by), call.redeem)' = Full(InPlaces(call.redeem, by), call.redeem)
    BY <2>1, <2>2 DEF Full
  <2>4. Full(OfKey(call.redeem, by), call.redeem)' = Full(OfKey(call.redeem, by), call.redeem)
    BY <2>1, <2>2 DEF Full
  <2>5. Spends(Full(InPlaces(call.redeem, by), call.redeem), call.spent)'
          <=> Spends(Full(InPlaces(call.redeem, by), call.redeem), call.spent)
    BY <2>1, <2>3, SpendsAfter
  <2> QED
    BY <2>4, <2>5 DEF IsGoodPart
<1>3. Places(call.redeem)' = Places(call.redeem)
  BY DEF Places
<1>4. \A by : IsGoodPart(scriptSig, by)' <=> IsGoodPart(scriptSig', by)
  BY <1>2
<1>5. stage' = "done" /\ SignedInPart'
        => result' = "hex" /\ \E by \in Places(call.redeem)' : IsGoodPart(scriptSig, by)'
  BY <1>1, <1>3, <1>4
<1> QED
  BY <1>5 DEF PartialSignaturesAreGood, SignedInPart, IsGoodPart

LEMMA SpendingHash ==
  ASSUME NEW script, script.form = "scripthash", NEW items, NEW x, NEW S, items \in Seq(S)
  PROVE  Spends(Append(items, x), script)
           <=> x = <<"push", script.redeem[1]>> /\ Satisfies(items, script.redeem[1])
<1> DEFINE all == Append(items, x)
<1>1. all # <<>> /\ all[Len(all)] = x /\ SubSeq(all, 1, Len(all) - 1) = items
  BY FrontOf
<1> HIDE DEF all
<1>2. Spends(all, script)
        <=> x = <<"push", script.redeem[1]>> /\ Satisfies(items, script.redeem[1])
  BY <1>1 DEF Spends
<1> QED
  BY <1>2 DEF all

(* A key that is not valid is enough for nothing.                           *)
LEMMA InvalidOwnsNothing == call.key = "invalid" => ~Owns
BY DEF Owns, Enough

LEMMA SignInv ==
  ASSUME SendInv, Sign
  PROVE  SendInv'
<1> DEFINE s == call.spent
           solved == Solved(s)
           which == TemplateSolver(s).which
<1>1. /\ stage = "sign" /\ scriptSig = <<>> /\ result = "" /\ IsScript(s)
      /\ call \in SendCall /\ call' = call /\ vout' = vout
  BY ScriptsOfCall DEF Sign, SendInv, OutputsFirst
<1>2. SolvedWell(s)
  BY <1>1, SolverIsRight DEF Before
<1>3. (s.form = "scripthash" /\ s.tail # "junk") <=> which = "scripthash"
  BY <1>1, TemplateIs DEF Signable, HasDestination
<1>4. s.form = "scripthash" /\ s.tail # "junk" =>
        solved = Outcome("true", <<<<"script", call.redeem>>>>)
  BY <1>1, SolvedHash DEF Signable, HasDestination
<1>5. s.form = "scripthash" /\ s.tail = "junk" => solved.end = "false"
  <2>1. s.tail = "junk" => ~Signable(s)
    BY DEF Signable
  <2> QED
    <3>1. ~Signable(s) => solved \in {Outcome("false", scriptSig), Outcome("false", <<>>)}
      BY <1>1, SolverIs DEF Solved
    <3>2. Outcome("false", scriptSig).end = "false" /\ Outcome("false", <<>>).end = "false"
      BY OutcomeIs
    <3> QED
      BY <2>1, <3>1, <3>2
<1>6. /\ scriptSig' = solved.sig
      /\ \/ solved.end = "thrown" /\ stage' = "thrown" /\ result' = result
         \/ solved.end = "false" /\ stage' = "done" /\ result' = result
         \/ /\ solved.end = "true"
            /\ IF which = "scripthash"
               THEN stage' = "redeem" /\ result' = result
               ELSE stage' = "done" /\ result' = "hex"
  BY DEF Sign, Solved
<1> HIDE DEF solved, which
<1>7. CASE solved.end = "thrown"
  <2>1. stage' = "thrown" /\ result' = ""
    BY <1>1, <1>6, <1>7
  <2>2. ~Owns
    BY <1>2, <1>7, InvalidOwnsNothing DEF SolvedWell, solved
  <2>3. SpendableIfOwned'
    BY <1>1, <2>1, <2>2, SpendableAfter
  <2> QED
    BY <1>1, <2>1, <2>3 DEF SendInv, OutputsFirst, RedeemNext, PartialSignaturesAreGood
<1>8. CASE solved.end = "false"
  <2>1. stage' = "done" /\ result' = ""
    BY <1>1, <1>6, <1>8
  <2>2. ~(s.form = "scripthash" /\ s.tail # "junk")
    BY <1>4, <1>8, OutcomeIs
  <2>3. ~Owns
    BY <1>2, <1>8, <2>2 DEF SolvedWell, Owns, solved
  <2>4. SpendableIfOwned'
    BY <1>1, <2>1, <2>3, SpendableAfter
  <2>5. PartialSignaturesAreGood'
    BY <1>1, <2>2 DEF PartialSignaturesAreGood
  <2> QED
    BY <1>1, <2>1, <2>4, <2>5 DEF SendInv, OutputsFirst, RedeemNext
<1>9. CASE solved.end = "true" /\ which = "scripthash"
  <2>1. /\ stage' = "redeem" /\ result' = "" /\ s.form = "scripthash" /\ s.tail # "junk"
        /\ scriptSig' = <<<<"script", call.redeem>>>>
    <3> DEFINE script == <<<<"script", call.redeem>>>>
    <3> HIDE DEF script
    <3>1. stage' = "redeem" /\ result' = "" /\ s.form = "scripthash" /\ s.tail # "junk"
      BY <1>1, <1>3, <1>6, <1>9
    <3>2. solved = Outcome("true", script)
      BY <1>4, <3>1 DEF script
    <3>3. solved.sig = script
      BY <3>2, PartsOfOutcome
    <3> QED
      BY <1>6, <3>1, <3>3 DEF script
  <2> QED
    BY <1>1, <2>1
       DEF SendInv, OutputsFirst, RedeemNext, SpendableIfOwned, PartialSignaturesAreGood
<1>10. CASE solved.end = "true" /\ which # "scripthash"
  <2>1. stage' = "done" /\ result' = "hex" /\ s.form # "scripthash"
    BY <1>3, <1>5, <1>6, <1>10
  <2>2. Enough(s) /\ Satisfies(scriptSig', s)
    BY <1>2, <1>6, <1>10, <2>1 DEF SolvedWell, solved
  <2>3. Owns /\ Spends(scriptSig', call.spent)
    BY <2>1, <2>2 DEF Owns, Spends
  <2>4. SpendableIfOwned'
    BY <1>1, <2>1, <2>3, SpendableAfter
  <2>5. PartialSignaturesAreGood'
    BY <1>1, <2>1 DEF PartialSignaturesAreGood
  <2> QED
    BY <1>1, <2>1, <2>4, <2>5 DEF SendInv, OutputsFirst, RedeemNext
<1> QED
  BY <1>6, <1>7, <1>8, <1>9, <1>10

(* The signatures of a redeem script, when more are needed.                 *)
LEMMA PartialAfter ==
  ASSUME SendInv, SignedInPart, Solved(call.redeem).end # "thrown"
  PROVE  \E by \in Places(call.redeem) :
           IsGoodPart(Append(Solved(call.redeem).sig, <<"push", call.redeem>>), by)
<1> DEFINE s == call.redeem
           r == s.required
           c == Cardinality(Mine(s))
           n == IF c < r THEN c ELSE r
           sigs == Signatures(n, s)
           push == <<"push", s>>
           zero == <<"zero">>
           signed == Append(Solved(s).sig, push)
<1>0. /\ call.spent.form = "scripthash" /\ call.spent.tail # "junk"
      /\ s = call.spent.redeem[1] /\ s.form = "multisig" /\ s.tail # "junk"
      /\ r <= Len(s.keys)
  BY DEF SignedInPart
<1>1. IsScript(s) /\ Signable(s)
  BY <1>0, ScriptsOfCall DEF Signable, HasDestination
<1>2. Solved(s) = SignN(s, SignatureHash(s), <<zero>>)
  BY <1>0, <1>1, SolverIs DEF Solved
<1>3. call.key # "invalid"
  <2>1. call.key = "invalid" => Solved(s) = Outcome("thrown", <<zero>>)
    BY <1>0, <1>1, <1>2, SignNIs
  <2> QED
    BY <2>1, OutcomeIs
<1>4. Solved(s).sig = <<zero>> \o sigs
  <2>1. Solved(s) = Outcome(IF c >= r THEN "true" ELSE "false", <<zero>> \o sigs)
    BY <1>0, <1>1, <1>2, <1>3, SignNIs
  <2> DEFINE all == <<zero>> \o sigs
             end == IF c >= r THEN "true" ELSE "false"
  <2> HIDE DEF all, end
  <2>2. Solved(s) = Outcome(end, all)
    BY <2>1 DEF all, end
  <2>3. Solved(s).sig = all
    BY <2>2, PartsOfOutcome
  <2> QED
    BY <2>3 DEF all
<1>5. PICK by \in Places(s) : Cardinality({j \in 1 .. r : s.keys[by[j]] = call.key}) = n
  BY <1>0, <1>1, OthersFindPlaces
<1>6. Satisfies(<<zero>> \o InPlaces(s, by), s) /\ \E S : <<zero>> \o InPlaces(s, by) \in Seq(S)
  BY <1>0, <1>1, PlacesSatisfy
<1>7. Spends(<<zero>> \o InPlaces(s, by) \o <<push>>, call.spent)
  <2> DEFINE items == <<zero>> \o InPlaces(s, by)
  <2>1. PICK S : items \in Seq(S)
    BY <1>6
  <2>2. Satisfies(items, s)
    BY <1>6
  <2> HIDE DEF items
  <2>3. Spends(Append(items, push), call.spent)
    BY <1>0, <2>1, <2>2, SpendingHash
  <2>4. Append(items, push) = items \o <<push>>
    BY <2>1, FrontOf
  <2> QED
    BY <2>3, <2>4 DEF items
<1>8. signed = <<zero>> \o sigs \o <<push>>
  <2> DEFINE items == <<zero>> \o sigs
  <2>1. n \in Nat
    BY <1>0, <1>1, MineIsFinite
  <2>2. \E S : items \in Seq(S)
    <3> HIDE DEF n
    <3>1. sigs \in Seq({OwnSignature(s)})
      BY <2>1, SignaturesAre
    <3> HIDE DEF sigs
    <3>2. items \in Seq({OwnSignature(s)} \cup {zero})
      BY <3>1, FirstThen
    <3> QED
      BY <3>2
  <2>3. PICK S : items \in Seq(S)
    BY <2>2
  <2>4. signed = Append(items, push)
    BY <1>4
  <2> HIDE DEF items
  <2>5. Append(items, push) = items \o <<push>>
    BY <2>3, FrontOf
  <2> QED
    BY <2>4, <2>5 DEF items
<1>9. sigs = OfKey(s, by)
  BY <1>5 DEF Signatures, OwnSignature, OfKey
<1> HIDE DEF n, sigs, signed
<1>10. IsGoodPart(signed, by)
  BY <1>7, <1>8, <1>9 DEF IsGoodPart, Full
<1> QED
  BY <1>5, <1>10 DEF signed

LEMMA SignRedeemInv ==
  ASSUME SendInv, SignRedeem
  PROVE  SendInv'
<1> DEFINE s == call.redeem
           solved == Solved(s)
           sig == solved.sig
<1>1. /\ stage = "redeem" /\ scriptSig = <<<<"script", s>>>> /\ result = "" /\ IsScript(s)
      /\ call.spent.form = "scripthash" /\ call.spent.tail # "junk"
      /\ call \in SendCall /\ call' = call /\ vout' = vout
  BY ScriptsOfCall DEF SignRedeem, SendInv, RedeemNext
<1>2. SolvedWell(s)
  BY <1>1, SolverIsRight DEF Before
<1>3. scriptSig[1][2] = s
  BY <1>1
<1>4. IF solved.end = "thrown"
      THEN scriptSig' = solved.sig /\ stage' = "thrown" /\ result' = result
      ELSE scriptSig' = Append(solved.sig, <<"push", s>>) /\ stage' = "done" /\ result' = "hex"
  BY <1>3 DEF SignRedeem, Solved
<1> HIDE DEF solved
<1>5. CASE solved.end = "thrown"
  <2>1. stage' = "thrown" /\ result' = ""
    BY <1>1, <1>4, <1>5
  <2>2. ~Owns
    BY <1>2, <1>5, InvalidOwnsNothing DEF SolvedWell, solved
  <2>3. SpendableIfOwned'
    BY <1>1, <2>1, <2>2, SpendableAfter
  <2> QED
    BY <1>1, <2>1, <2>3 DEF SendInv, OutputsFirst, RedeemNext, PartialSignaturesAreGood
<1>6. CASE solved.end # "thrown"
  <2>1. stage' = "done" /\ result' = "hex" /\ scriptSig' = Append(sig, <<"push", s>>)
    BY <1>4, <1>6
  <2>2. (\E S : sig \in Seq(S)) /\ (Satisfies(sig, s) <=> Enough(s))
    BY <1>2, <1>6 DEF SolvedWell, solved
  <2>3. PICK S : sig \in Seq(S)
    BY <2>2
  <2> DEFINE push == <<"push", s>>
  <2>4. push = <<"push", call.spent.redeem[1]>> <=> s = call.spent.redeem[1]
    OBVIOUS
  <2> HIDE DEF push, sig
  <2>5. Spends(Append(sig, push), call.spent)
          <=> push = <<"push", call.spent.redeem[1]>> /\ Satisfies(sig, call.spent.redeem[1])
    BY <1>1, <2>3, SpendingHash
  <2>6. Owns <=> s = call.spent.redeem[1] /\ Enough(s)
    BY <1>1 DEF Owns, Enough
  <2>7. Spends(scriptSig', call.spent) <=> Owns
    BY <2>1, <2>2, <2>4, <2>5, <2>6 DEF push
  <2>8. SpendableIfOwned'
    BY <1>1, <2>1, <2>7, SpendableAfter
  <2>9. PartialSignaturesAreGood'
    <3>1. SignedInPart => \E by \in Places(s) : IsGoodPart(scriptSig', by)
      BY <1>6, <2>1, PartialAfter DEF solved, sig, push
    <3> QED
      BY <1>1, <2>1, <3>1, PartialAfterIs
  <2> QED
    BY <1>1, <2>1, <2>8, <2>9 DEF SendInv, OutputsFirst, RedeemNext
<1> QED
  BY <1>5, <1>6

LEMMA NextSendInv ==
  ASSUME SendInv, [SendNext]_sendVars
  PROVE  SendInv'
<1>1. CASE Pay \/ PayChange \/ Publish \/ PayBack
  <2>1. /\ stage \in {"pay", "change", "publish", "back"}
        /\ stage' \in {"change", "sign", "thrown", "back"}
        /\ call' = call /\ scriptSig' = scriptSig /\ result' = result
        /\ stage' = "thrown" => call.key = "invalid" /\ vout' = vout
    BY <1>1 DEF Pay, PayChange, Publish, PayBack
  <2>2. scriptSig = <<>> /\ result = "" /\ call \in SendCall
    BY <2>1 DEF SendInv, OutputsFirst
  <2>3. SpendableIfOwned'
    <3>1. CASE stage' = "thrown"
      BY <2>1, <2>2, <3>1, InvalidOwnsNothing, SpendableAfter
    <3>2. CASE stage' # "thrown"
      BY <2>1, <3>2 DEF SpendableIfOwned
    <3> QED
      BY <3>1, <3>2
  <2> QED
    BY <2>1, <2>2, <2>3 DEF SendInv, OutputsFirst, RedeemNext, PartialSignaturesAreGood
<1>2. CASE Sign
  BY <1>2, SignInv
<1>3. CASE SignRedeem
  BY <1>3, SignRedeemInv
<1>4. CASE UNCHANGED sendVars
  <2>1. UNCHANGED <<call, vout>> /\ stage' = stage /\ scriptSig' = scriptSig /\ result' = result
    BY <1>4 DEF sendVars
  <2>2. SpendableIfOwned'
    BY <2>1, SpendableAfter DEF SendInv, SpendableIfOwned
  <2>3. PartialSignaturesAreGood'
    BY <2>1, PartialIs, PartialAfterIs DEF SendInv
  <2> QED
    BY <2>1, <2>2, <2>3 DEF SendInv, OutputsFirst, RedeemNext
<1> QED
  BY <1>1, <1>2, <1>3, <1>4 DEF SendNext

LEMMA SendInvariance == SendSpec => []SendInv
<1> QED
  BY InitSendInv, NextSendInv, PTL DEF SendSpec

(* A call ends with a transaction whose input the node accepts exactly when *)
(* the key, with the redeem script, is enough to spend the output           *)
(* (hs_keys.cpp:183-205, transactions.cpp:515): for scripts with any number *)
(* of keys and signatures, any outputs and any amounts.                     *)
THEOREM GoodWhenOwned == SendSpec => []SpendableIfOwned
<1>1. SendInv => SpendableIfOwned
  BY DEF SendInv
<1> QED
  BY <1>1, SendInvariance, PTL

(* What the key signs of a multisignature redeem script is what is missing  *)
(* signatures away from an input the node accepts, in the places of the key *)
(* and for the same outputs (hs_keys.cpp:196-205, transactions.cpp:466-499).*)
THEOREM PartialAlwaysGood == SendSpec => []PartialSignaturesAreGood
<1>1. SendInv => PartialSignaturesAreGood
  BY DEF SendInv
<1> QED
  BY <1>1, SendInvariance, PTL

-----------------------------------------------------------------------------
(* The parameters file.                                                     *)
LEMMA LeastOf ==
  ASSUME NEW S \in SUBSET Nat, S # {}
  PROVE  Min(S) \in S /\ \A x \in S : Min(S) <= x
<1>1. PICK m \in S : \A x \in S : m <= x
  BY LeastNatural
<1> QED
  BY <1>1 DEF Min

LEMMA LeastIs ==
  ASSUME NEW S \in SUBSET Nat, NEW m \in S, \A x \in S : m <= x
  PROVE  Min(S) = m
<1>1. Min(S) \in S /\ \A x \in S : Min(S) <= x
  BY LeastOf
<1>2. Min(S) \in Nat /\ m \in Nat /\ Min(S) <= m /\ m <= Min(S)
  BY <1>1
<1> QED
  BY ONLY <1>2

LEMMA GreatestOf ==
  ASSUME NEW S \in SUBSET Nat, S # {}, NEW n \in Nat, \A x \in S : x <= n
  PROVE  Max(S) \in S /\ \A x \in S : Max(S) >= x
<1> DEFINE U == {n - x : x \in S}
<1>1. U \in SUBSET Nat /\ U # {}
  <2>1. \A x \in S : n - x \in Nat
    OBVIOUS
  <2>2. \E x \in S : n - x \in U
    OBVIOUS
  <2> QED
    BY <2>1, <2>2
<1>2. PICK m \in U : \A u \in U : m <= u
  BY <1>1, LeastNatural
<1>3. PICK x \in S : m = n - x
  BY <1>2
<1>4. \A y \in S : x >= y
  <2> TAKE y \in S
  <2>1. n - x <= n - y
    BY <1>2, <1>3
  <2> QED
    BY <2>1
<1> QED
  BY <1>4 DEF Max

(* The first place of a token behind a place.                               *)
LEMMA FoundAt ==
  ASSUME NEW S, NEW t \in Seq(S), NEW token, NEW after \in Nat
  PROVE  /\ Find(t, token, after) \in Nat
         /\ Find(t, token, after) # 0 =>
              /\ Find(t, token, after) \in 1 .. Len(t) /\ after < Find(t, token, after)
              /\ t[Find(t, token, after)] = token
         /\ \A i \in 1 .. Len(t) : after < i /\ t[i] = token =>
              Find(t, token, after) # 0 /\ Find(t, token, after) <= i
<1> DEFINE places == {i \in DOMAIN t : i > after /\ t[i] = token}
<1>1. Len(t) \in Nat /\ DOMAIN t = 1 .. Len(t)
  OBVIOUS
<1>2. places \in SUBSET Nat /\ places \subseteq 1 .. Len(t)
  BY <1>1
<1>3. Find(t, token, after) = IF places = {} THEN 0 ELSE Min(places)
  BY DEF Find
<1>4. \A i \in 1 .. Len(t) : after < i /\ t[i] = token => i \in places
  BY <1>1
<1>5. \A i \in places : i \in 1 .. Len(t) /\ after < i /\ t[i] = token
  BY <1>1
<1> HIDE DEF places
<1>6. CASE places = {}
  BY <1>3, <1>4, <1>6
<1>7. CASE places # {}
  <2>1. Min(places) \in places /\ \A x \in places : Min(places) <= x
    BY <1>2, <1>7, LeastOf
  <2>2. Find(t, token, after) = Min(places)
    BY <1>3, <1>7
  <2>3. Min(places) \in 1 .. Len(t) /\ after < Min(places) /\ t[Min(places)] = token
    BY <1>5, <2>1
  <2> HIDE DEF Find
  <2> QED
    BY ONLY <1>1, <1>4, <2>1, <2>2, <2>3
<1> QED
  BY <1>6, <1>7

LEMMA FoundIs ==
  ASSUME NEW S, NEW t \in Seq(S), NEW token, NEW after \in Nat, NEW m \in 1 .. Len(t),
         after < m, t[m] = token, \A i \in 1 .. Len(t) : after < i /\ i < m => t[i] # token
  PROVE  Find(t, token, after) = m
<1>1. Len(t) \in Nat /\ m \in Nat
  OBVIOUS
<1> DEFINE p == Find(t, token, after)
<1>2. p # 0 /\ p <= m /\ p \in 1 .. Len(t) /\ after < p /\ t[p] = token
  BY FoundAt
<1> HIDE DEF p
<1>3. ~(p < m)
  BY <1>2
<1> QED
  BY <1>1, <1>2, <1>3 DEF p

(* What is left of a text without the spaces around it: tokens of it, in it *)
(* every token that is none.                                                *)
LEMMA TrimmedIs ==
  ASSUME NEW S, NEW t \in Seq(S)
  PROVE  /\ Trim(t) \in Seq(S)
         /\ \A x : Trim(t) = <<x>> => \A i \in 1 .. Len(t) : ~IsSpace(t[i]) => t[i] = x
<1> DEFINE solid == {i \in DOMAIN t : ~IsSpace(t[i])}
<1>1. Len(t) \in Nat /\ DOMAIN t = 1 .. Len(t) /\ \A i \in 1 .. Len(t) : t[i] \in S
  BY ElementOfSeq
<1>2. solid \in SUBSET Nat /\ solid \subseteq 1 .. Len(t) /\ \A x \in solid : x <= Len(t)
  BY <1>1
<1>3. Trim(t) = IF solid = {} THEN <<>> ELSE SubSeq(t, Min(solid), Max(solid))
  BY DEF Trim
<1>4. \A i \in 1 .. Len(t) : ~IsSpace(t[i]) => i \in solid
  BY <1>1
<1> HIDE DEF solid
<1>5. CASE solid = {}
  <2>1. Trim(t) = <<>> /\ <<>> \in Seq(S) /\ \A i \in 1 .. Len(t) : IsSpace(t[i])
    BY <1>3, <1>4, <1>5
  <2> QED
    BY <2>1
<1>6. CASE solid # {}
  <2> DEFINE a == Min(solid)
             b == Max(solid)
  <2>1. /\ a \in solid /\ \A x \in solid : a <= x
        /\ b \in solid /\ \A x \in solid : b >= x
    BY <1>1, <1>2, <1>6, LeastOf, GreatestOf
  <2>2. Trim(t) = SubSeq(t, a, b)
    BY <1>3, <1>6
  <2> HIDE DEF a, b
  <2>3. a \in 1 .. Len(t) /\ b \in 1 .. Len(t) /\ a <= b
    BY <1>1, <1>2, <2>1
  <2>4. \A i \in a .. b : t[i] \in S
    BY <1>1, <2>3
  <2>5. /\ SubSeq(t, a, b) \in Seq(S) /\ Len(SubSeq(t, a, b)) = b - a + 1
        /\ \A i \in 1 .. b - a + 1 : SubSeq(t, a, b)[i] = t[a + i - 1]
    <3>1. a \in Int /\ b \in Int
      BY <2>3
    <3>2. /\ SubSeq(t, a, b) \in Seq(S) /\ Len(SubSeq(t, a, b)) = IF a <= b THEN b - a + 1 ELSE 0
          /\ \A i \in 1 .. b - a + 1 : SubSeq(t, a, b)[i] = t[a + i - 1]
      BY ONLY <2>4, <3>1, SubSeqProperties
    <3> QED
      BY <2>3, <3>2
  <2>6. ASSUME NEW x, Trim(t) = <<x>>, NEW i \in 1 .. Len(t), ~IsSpace(t[i]) PROVE t[i] = x
    <3>1. b - a + 1 = 1 /\ SubSeq(t, a, b)[1] = x
      BY <2>2, <2>5, <2>6
    <3>2. i \in solid /\ a <= i /\ i <= b /\ i \in Nat
      BY <1>4, <2>1, <2>6
    <3>3. i = a /\ 1 \in 1 .. b - a + 1 /\ a + 1 - 1 = a
      BY <2>3, <3>1, <3>2
    <3> QED
      BY <2>5, <3>1, <3>3
  <2> QED
    BY <2>2, <2>5, <2>6
<1> QED
  BY <1>5, <1>6

(* The lines of a file, with the ends of lines, stand in its text one after *)
(* the other.                                                               *)
TextToken == Token \cup {"\n"}

Row(lines, i) == lines[i] \o <<"\n">>

RowsOf(lines) == [i \in DOMAIN lines |-> Row(lines, i)]

LEMMA RowIs ==
  ASSUME NEW lines \in Seq(Seq(Token)), NEW i \in 1 .. Len(lines)
  PROVE  /\ lines[i] \in Seq(Token) /\ lines[i] \in Seq(TextToken) /\ Len(lines[i]) \in Nat
         /\ Row(lines, i) \in Seq(TextToken) /\ Len(Row(lines, i)) = Len(lines[i]) + 1
         /\ \A k \in 1 .. Len(lines[i]) : Row(lines, i)[k] = lines[i][k] /\ lines[i][k] \in Token
         /\ Row(lines, i)[Len(lines[i]) + 1] = "\n"
<1> DEFINE line == lines[i]
<1>1. line \in Seq(Token) /\ Len(line) \in Nat
  BY ElementOfSeq
<1>2. \A k \in 1 .. Len(line) : line[k] \in Token
  BY <1>1, ElementOfSeq
<1>3. line \in Seq(TextToken)
  <2>1. line = [k \in 1 .. Len(line) |-> line[k]] /\ \A k \in 1 .. Len(line) : line[k] \in TextToken
    BY <1>1, <1>2, LenProperties DEF TextToken
  <2> DEFINE m == Len(line)
  <2>2. m \in Nat /\ line \in [1 .. m -> TextToken]
    BY <1>1, <2>1
  <2> HIDE DEF m, line
  <2> QED
    BY ONLY <2>2, SeqDef
<1>4. "\n" \in TextToken
  BY DEF TextToken
<1>5. Row(lines, i) = line \o <<"\n">>
  BY DEF Row
<1> HIDE DEF line
<1>6. /\ line \o <<"\n">> \in Seq(TextToken) /\ Len(line \o <<"\n">>) = Len(line) + 1
      /\ \A k \in 1 .. Len(line) : (line \o <<"\n">>)[k] = line[k]
      /\ (line \o <<"\n">>)[Len(line) + 1] = "\n"
  BY ONLY <1>3, <1>4, ConcatOne
<1> QED
  BY <1>1, <1>2, <1>3, <1>5, <1>6 DEF line

LEMMA TextIs ==
  ASSUME NEW lines \in Seq(Seq(Token))
  PROVE  /\ Text(lines) \in Seq(TextToken)
         /\ Len(RowsOf(lines)) = Len(lines)
         /\ \E f : FlatIn(TextToken, Text(lines), 0, RowsOf(lines), f)
<1> DEFINE s == RowsOf(lines)
           n == Len(lines)
<1>1. n \in Nat /\ DOMAIN lines = 1 .. n
  OBVIOUS
<1>2. \A i \in 1 .. n : Row(lines, i) \in Seq(TextToken)
  BY RowIs
<1>3. s = [i \in 1 .. n |-> Row(lines, i)]
  BY <1>1 DEF RowsOf
<1>4. s \in Seq(Seq(TextToken)) /\ Len(s) = n
  <2> HIDE DEF s, n
  <2>1. s \in [1 .. n -> Seq(TextToken)]
    BY <1>2, <1>3
  <2> QED
    BY <1>1, <1>3, <2>1, SeqDef, LenProperties
<1>5. Text(lines) = FlattenSeq(s)
  BY DEF Text, RowsOf, Row
<1>6. PICK f : IsFlat(TextToken, s, f) /\ FlattenSeq(s) = f[Len(s)]
  <2> HIDE DEF s
  <2> QED
    BY <1>4, FlatExists
<1> DEFINE t == f[Len(s)]
<1>7. t \in Seq(TextToken)
  <2>1. Len(s) \in 0 .. Len(s)
    BY <1>1, <1>4
  <2> QED
    BY <1>6, <2>1 DEF IsFlat
<1>8. Holds(t, 0, t)
  <2> HIDE DEF t
  <2>1. Len(t) \in Nat
    BY <1>7
  <2> QED
    BY <1>7, <2>1 DEF Holds
<1>9. FlatIn(TextToken, t, 0, s, f)
  <2> HIDE DEF s
  <2>1. 0 \in Nat
    OBVIOUS
  <2>2. Holds(t, 0, f[Len(s)])
    BY <1>8
  <2> HIDE DEF t
  <2> QED
    BY ONLY <1>4, <1>6, <1>7, <2>1, <2>2, FlatHolds
<1> QED
  BY <1>4, <1>5, <1>6, <1>7, <1>9

(* A line of a file assigns a name, and no line before it mentions it.      *)
LEMMA TokensAre ==
  ASSUME NEW key \in Key
  PROVE  /\ key \in Token /\ key # "=" /\ key # "#" /\ key # "\n" /\ ~IsSpace(key)
         /\ ~IsSpace("#") /\ ~IsSpace("=") /\ "no value" \notin Token /\ "broken" \notin Token
BY ChainParamsAssumption DEF IsSpace

LEMMA ParamIs ==
  ASSUME NEW lines \in Seq(Seq(Token)), NEW key \in Key, NEW i \in 1 .. Len(lines),
         Assigns(lines[i], key), lines[i][1] = key, \A j \in 1 .. i - 1 : Find(lines[j], key, 0) = 0
  PROVE  FileParamValue(Text(lines), key) = LineValue(lines[i])
<1> DEFINE line == lines[i]
           whole == Text(lines)
           s == RowsOf(lines)
<1>1. /\ line \in Seq(Token) /\ line \in Seq(TextToken) /\ Len(line) \in Nat /\ Len(lines) \in Nat
      /\ \A j \in 1 .. Len(lines) : s[j] = Row(lines, j)
  BY RowIs DEF RowsOf
<1>2. whole \in Seq(TextToken) /\ Len(whole) \in Nat /\ Len(s) = Len(lines)
      /\ \E f : FlatIn(TextToken, whole, 0, s, f)
  BY TextIs
<1>3. PICK f : FlatIn(TextToken, whole, 0, s, f)
  BY <1>2
<1>4. key \in Token /\ key # "=" /\ key # "#" /\ key # "\n"
  BY TokensAre
<1> DEFINE equals == Find(line, "=", 0)
           comment == Find(line, "#", 0)
<1>5. 0 < equals /\ equals < comment /\ line[1] = key
  BY DEF Assigns
<1>6. LineValue(line) = Trim(SubSeq(line, equals + 1, comment - 1))
  BY <1>5 DEF LineValue
<1>7. /\ equals \in 1 .. Len(line) /\ line[equals] = "="
      /\ comment \in 1 .. Len(line) /\ line[comment] = "#"
      /\ \A k \in 1 .. Len(line) : line[k] = "=" => equals <= k
      /\ \A k \in 1 .. Len(line) : line[k] = "#" => comment <= k
  <2>1. 0 \in Nat /\ \A k \in 1 .. Len(line) : 0 < k
    OBVIOUS
  <2> HIDE DEF line
  <2> QED
    BY <1>1, <1>5, <2>1, FoundAt
<1> HIDE DEF line, whole, s, equals, comment
(* Where the line stands.                                                   *)
<1> DEFINE P == Len(f[i - 1])
<1>9. /\ P \in Nat /\ Holds(whole, P, s[i]) /\ i - 1 \in Nat /\ i - 1 < Len(s) /\ (i - 1) + 1 = i
  <2>1. i - 1 \in Nat /\ i - 1 < Len(s) /\ (i - 1) + 1 = i /\ i - 1 \in 0 .. Len(s)
    BY <1>1, <1>2
  <2>2. Holds(whole, 0 + P, s[(i - 1) + 1]) /\ P \in Nat
    BY <1>3, <2>1 DEF FlatIn
  <2>3. 0 + P = P
    BY <2>2
  <2> QED
    BY <2>1, <2>2, <2>3
<1>10. P + (Len(line) + 1) <= Len(whole) /\ \A k \in 1 .. Len(line) : whole[P + k] = line[k]
  <2>1. Len(s[i]) = Len(line) + 1 /\ \A k \in 1 .. Len(line) : s[i][k] = line[k]
    BY <1>1, RowIs DEF line
  <2>2. \A k \in 1 .. Len(line) : k \in 1 .. Len(line) + 1
    BY <1>1
  <2> QED
    BY <1>9, <2>1, <2>2 DEF Holds
<1>11. Holds(whole, P, line)
  <2>1. P + Len(line) <= Len(whole)
    <3> DEFINE m == Len(line)
               n == Len(whole)
    <3>1. m \in Nat /\ n \in Nat /\ P \in Nat /\ P + (m + 1) <= n
      BY <1>1, <1>2, <1>9, <1>10
    <3> HIDE DEF m, n, P
    <3>2. P + m <= n
      BY ONLY <3>1
    <3> QED
      BY <3>2 DEF m, n
  <2> QED
    BY <1>10, <2>1 DEF Holds
<1>12. \A p \in 1 .. P : whole[p] # key
  <2>1. ASSUME NEW j \in 1 .. i - 1, NEW k \in 1 .. Len(s[j]) PROVE s[j][k] # key
    <3>1. j \in 1 .. Len(lines) /\ s[j] = Row(lines, j)
      BY <1>1
    <3>2. /\ lines[j] \in Seq(Token) /\ Len(lines[j]) \in Nat /\ Len(s[j]) = Len(lines[j]) + 1
          /\ \A q \in 1 .. Len(lines[j]) : s[j][q] = lines[j][q]
          /\ s[j][Len(lines[j]) + 1] = "\n"
      BY <3>1, RowIs
    <3>3. \A q \in 1 .. Len(lines[j]) : lines[j][q] # key
      <4>1. Find(lines[j], key, 0) = 0 /\ \A q \in 1 .. Len(lines[j]) : 0 < q
        OBVIOUS
      <4> QED
        BY <3>2, <4>1, FoundAt
    <3>4. k \in 1 .. Len(lines[j]) \/ k = Len(lines[j]) + 1
      BY <2>1, <3>2
    <3> QED
      BY <1>4, <3>2, <3>3, <3>4
  <2>2. i - 1 \in Nat /\ i - 1 <= Len(s)
    BY <1>9
  <2>3. \A p \in 1 .. Len(f[i - 1]) : whole[p] # key
    BY ONLY <1>2, <1>3, <2>1, <2>2, FlatLacks
  <2> QED
    BY <2>3
<1> HIDE DEF P
<1>13. /\ Find(whole, key, 0) = P + 1
       /\ Find(whole, "=", P + 1) = P + equals
       /\ Find(whole, "#", P + equals) = P + comment
  <2>1. Find(whole, key, 0) = P + 1
    <3>1. /\ 0 \in Nat /\ P + 1 \in 1 .. Len(whole) /\ 0 < P + 1 /\ whole[P + 1] = key
          /\ \A q \in 1 .. Len(whole) : 0 < q /\ q < P + 1 => whole[q] # key
      <4>1. 1 \in 1 .. Len(line)
        BY <1>1, <1>7
      <4>2. whole[P + 1] = key
        BY <1>5, <1>10, <4>1
      <4>3. \A q \in 1 .. Len(whole) : 0 < q /\ q < P + 1 => q \in 1 .. P
        BY <1>9
      <4> QED
        BY <1>1, <1>2, <1>9, <1>10, <1>12, <4>2, <4>3
    <3> QED
      BY ONLY <1>2, <3>1, FoundIs
  <2>2. ASSUME NEW token, NEW a \in Nat, NEW b \in 1 .. Len(line), a < b, line[b] = token,
               \A k \in 1 .. Len(line) : a < k /\ k < b => line[k] # token
        PROVE  Find(whole, token, P + a) = P + b
    <3>1. /\ P + a \in Nat /\ P + b \in 1 .. Len(whole) /\ P + a < P + b /\ whole[P + b] = token
      BY <1>1, <1>2, <1>9, <1>10, <2>2
    <3>2. ASSUME NEW q \in 1 .. Len(whole), P + a < q, q < P + b PROVE whole[q] # token
      <4> DEFINE k == q - P
      <4>1. k \in 1 .. Len(line) /\ a < k /\ k < b /\ q = P + k
        <5> DEFINE m == Len(line)
                   n == Len(whole)
        <5>1. m \in Nat /\ b \in 1 .. m /\ n \in Nat /\ q \in 1 .. n /\ P \in Nat /\ a \in Nat
          BY <1>1, <1>2, <1>9, <2>2
        <5> HIDE DEF m, n
        <5>2. q - P \in 1 .. m /\ a < q - P /\ q - P < b /\ q = P + (q - P)
          BY ONLY <3>2, <5>1
        <5> QED
          BY <5>2 DEF m
      <4> HIDE DEF k
      <4> QED
        BY <1>10, <2>2, <4>1
    <3> QED
      BY ONLY <1>2, <3>1, <3>2, FoundIs
  <2>3. Find(whole, "=", P + 1) = P + equals
    <3>1. 1 < equals /\ \A k \in 1 .. Len(line) : 1 < k /\ k < equals => line[k] # "="
      BY <1>1, <1>4, <1>5, <1>7
    <3> QED
      BY <1>7, <2>2, <3>1
  <2>4. Find(whole, "#", P + equals) = P + comment
    <3>1. equals \in Nat /\ \A k \in 1 .. Len(line) : equals < k /\ k < comment => line[k] # "#"
      BY <1>1, <1>7
    <3> QED
      BY <1>5, <1>7, <2>2, <3>1
  <2> QED
    BY <2>1, <2>3, <2>4
<1>14. FileParamValue(whole, key) = Trim(SubSeq(whole, P + equals + 1, P + comment - 1))
  <2>1. 0 \notin {P + 1, P + equals, P + comment}
    BY <1>7, <1>9
  <2> DEFINE front == Find(whole, key, 0)
             signAt == Find(whole, "=", front)
             back == Find(whole, "#", signAt)
  <2>2. FileParamValue(whole, key) =
          IF 0 \in {front, signAt, back} THEN NoValue ELSE Trim(SubSeq(whole, signAt + 1, back - 1))
    BY DEF FileParamValue
  <2>3. front = P + 1
    BY <1>13
  <2>4. signAt = P + equals
    <3> HIDE DEF front
    <3> QED
      BY ONLY <1>13, <2>3 DEF signAt
  <2>5. back = P + comment
    <3> HIDE DEF signAt
    <3> QED
      BY ONLY <1>13, <2>4 DEF back
  <2>6. ~(0 \in {front, signAt, back})
    BY ONLY <2>1, <2>3, <2>4, <2>5
  <2> HIDE DEF front, signAt, back
  <2>7. SubSeq(whole, signAt + 1, back - 1) = SubSeq(whole, P + equals + 1, P + comment - 1)
    <3>1. P \in Nat /\ equals \in Nat /\ comment \in Nat
      BY <1>7, <1>9
    <3> QED
      BY ONLY <2>4, <2>5, <3>1
  <2>8. FileParamValue(whole, key) = Trim(SubSeq(whole, signAt + 1, back - 1))
    BY ONLY <2>2, <2>6
  <2> QED
    BY ONLY <2>7, <2>8
<1>15. SubSeq(whole, P + (equals + 1), P + (comment - 1)) = SubSeq(line, equals + 1, comment - 1)
  <2> DEFINE a == equals + 1
             b == comment - 1
  <2>1. a \in Nat \ {0} /\ b \in Nat /\ b <= Len(line)
    BY <1>1, <1>7
  <2> HIDE DEF a, b
  <2>2. whole \in Seq(TextToken) /\ line \in Seq(TextToken) /\ P \in Nat /\ Holds(whole, P, line)
    BY <1>1, <1>2, <1>9, <1>11
  <2>3. SamePart(whole, P, line, a, b)
    BY ONLY <2>1, <2>2, HoldsSubSeq
  <2> QED
    BY <2>3 DEF a, b, SamePart
<1>16. P + equals + 1 = P + (equals + 1) /\ P + comment - 1 = P + (comment - 1)
  BY <1>7, <1>9
<1>17. FileParamValue(whole, key) = LineValue(line)
  BY <1>6, <1>14, <1>15, <1>16
<1> QED
  BY <1>17 DEF whole, line

(* A line with a comment whose name this is assigns it.                     *)
LEMMA NameOfLine ==
  ASSUME NEW line \in Seq(Token), NEW key \in Key, ~Skipped(line), Find(line, "#", 0) # 0,
         LineKey(line) = <<key>>
  PROVE  Assigns(line, key)
<1> DEFINE equals == Find(line, "=", 0)
           comment == Find(line, "#", 0)
           n == IF equals = 0 THEN Len(line) ELSE equals - 1
           front == SubSeq(line, 1, n)
<1>1. /\ Len(line) \in Nat /\ equals \in Nat /\ comment \in 1 .. Len(line) /\ line[comment] = "#"
      /\ equals # 0 => equals \in 1 .. Len(line) /\ line[equals] = "="
  <2>1. 0 \in Nat /\ Len(line) \in Nat
    OBVIOUS
  <2> QED
    BY <2>1, FoundAt
<1>2. Trim(front) = <<key>>
  BY DEF LineKey
<1>3. SUFFICES ASSUME ~(0 < equals /\ equals < comment) PROVE FALSE
  BY DEF Assigns
<1> HIDE DEF equals, comment
<1>4. n \in Nat /\ n <= Len(line) /\ comment <= n
  <2>1. equals # comment
    BY <1>1
  <2> QED
    BY <1>1, <1>3, <2>1
<1> HIDE DEF n
<1>5. front \in Seq(Token) /\ Len(front) = n /\ front[comment] = "#"
  <2>1. 1 \in Nat \ {0} /\ comment \in 1 .. n - 1 + 1 /\ 1 + comment - 1 = comment /\ n - 1 + 1 = n /\ 1 <= n
    BY <1>1, <1>4
  <2>2. /\ front \in Seq(Token) /\ Len(front) = IF 1 <= n THEN n - 1 + 1 ELSE 0
        /\ \A i \in 1 .. n - 1 + 1 : front[i] = line[1 + i - 1]
    BY ONLY <1>4, <2>1, SubSeqIs, line \in Seq(Token)
  <2> HIDE DEF front
  <2>3. front[comment] = line[1 + comment - 1]
    BY <2>1, <2>2
  <2> QED
    BY <1>1, <2>1, <2>2, <2>3
<1> HIDE DEF front
<1>6. comment \in 1 .. Len(front) /\ ~IsSpace("#") /\ key # "#"
  <2>1. comment \in Nat /\ 1 <= comment
    BY <1>1
  <2>2. comment \in 1 .. n
    BY ONLY <1>4, <2>1
  <2>3. ~IsSpace("#") /\ key # "#"
    BY TokensAre
  <2> QED
    BY <1>5, <2>2, <2>3
<1>7. front[comment] = key
  BY <1>2, <1>5, <1>6, TrimmedIs
<1> QED
  BY <1>5, <1>6, <1>7

LEMMA ValueIsTokens ==
  ASSUME NEW line \in Seq(Token), NEW key \in Key, Assigns(line, key)
  PROVE  LineValue(line) \in Seq(Token)
<1> DEFINE equals == Find(line, "=", 0)
           comment == Find(line, "#", 0)
<1>1. 0 < equals /\ equals < comment
  BY DEF Assigns
<1>2. LineValue(line) = Trim(SubSeq(line, equals + 1, comment - 1))
  BY <1>1 DEF LineValue
<1>3. Len(line) \in Nat /\ equals \in 1 .. Len(line) /\ comment \in 1 .. Len(line)
  <2>1. 0 \in Nat /\ Len(line) \in Nat
    OBVIOUS
  <2>2. equals \in Nat /\ comment \in Nat
    BY <2>1, FoundAt
  <2>3. equals # 0 /\ comment # 0
    <3> HIDE DEF equals, comment
    <3> QED
      BY ONLY <1>1, <2>2
  <2> QED
    BY <2>1, <2>3, FoundAt
<1> HIDE DEF equals, comment
<1> DEFINE a == equals + 1
           b == comment - 1
<1>4. a \in Nat \ {0} /\ b \in Nat /\ b <= Len(line)
  BY <1>3
<1> HIDE DEF a, b
<1>5. SubSeq(line, a, b) \in Seq(Token)
  BY ONLY <1>4, SubSeqIs, line \in Seq(Token)
<1>6. Trim(SubSeq(line, a, b)) \in Seq(Token)
  BY ONLY <1>5, TrimmedIs
<1> QED
  BY <1>2, <1>6 DEF a, b

LEMMA NotTokens ==
  ASSUME NEW value \in Seq(Token), NEW key \in Key
  PROVE  value # NoValue /\ value # <<"broken">>
<1>1. ASSUME NEW x, value = <<x>> PROVE x \in Token
  <2>1. Len(value) = 1 /\ 1 \in 1 .. Len(value) /\ value[1] = x
    BY <1>1
  <2> QED
    BY <2>1, ElementOfSeq
<1> QED
  BY <1>1, TokensAre DEF NoValue

(* Both readers take the value of the one line that assigns a clear name.   *)
LEMMA ClearIsRead ==
  ASSUME file \in Seq(Seq(Token)), NEW key \in Key, Clear(key)
  PROVE  \E i \in DOMAIN file :
           /\ Assigns(file[i], key) /\ FileParamValue(Text(file), key) = LineValue(file[i])
           /\ LineValue(file[i]) \in Seq(Token)
           /\ \A j \in DOMAIN file : j # i => ~Assigns(file[j], key)
<1>1. PICK i \in DOMAIN file :
        /\ Assigns(file[i], key) /\ file[i][1] = key
        /\ \A j \in DOMAIN file : j # i => ~Assigns(file[j], key)
        /\ \A j \in 1 .. i - 1 : Find(file[j], key, 0) = 0
  BY DEF Clear
<1>2. i \in 1 .. Len(file) /\ file[i] \in Seq(Token)
  <2>1. DOMAIN file = 1 .. Len(file)
    OBVIOUS
  <2> QED
    BY <2>1, ElementOfSeq
<1>3. FileParamValue(Text(file), key) = LineValue(file[i])
  BY ONLY <1>1, <1>2, ParamIs, file \in Seq(Seq(Token)), key \in Key
<1>4. LineValue(file[i]) \in Seq(Token)
  BY ONLY <1>1, <1>2, ValueIsTokens, key \in Key
<1> QED
  BY <1>1, <1>3, <1>4

NoComment == \E i \in DOMAIN file : ~Skipped(file[i]) /\ Find(file[i], "#", 0) = 0

LEMMA AllIs ==
  ASSUME file \in Seq(Seq(Token)), \A key \in Key : Clear(key), ~NoComment
  PROVE  \A key \in Key : FileReadAll(file)[key] = FileParamValue(Text(file), key)
<1> DEFINE read == {i \in DOMAIN file : ~Skipped(file[i])}
           Of(key) == {i \in read : LineKey(file[i]) = <<key>>}
           ValueOf(key) == IF Of(key) = {} THEN NoValue ELSE LineValue(file[Max(Of(key))])
<1>1. ~(\E i \in read : Find(file[i], "#", 0) = 0)
  BY DEF NoComment
<1>2. FileReadAll(file) = [key \in Key |-> ValueOf(key)]
  BY <1>1 DEF FileReadAll
<1> SUFFICES ASSUME NEW key \in Key PROVE FileReadAll(file)[key] = FileParamValue(Text(file), key)
  OBVIOUS
<1>3. PICK i \in DOMAIN file :
        /\ Assigns(file[i], key) /\ FileParamValue(Text(file), key) = LineValue(file[i])
        /\ \A j \in DOMAIN file : j # i => ~Assigns(file[j], key)
  BY ClearIsRead
<1>4. Of(key) = {i}
  <2>1. i \in Of(key)
    BY <1>3 DEF Assigns
  <2>2. ASSUME NEW j \in Of(key) PROVE j = i
    <3>1. j \in DOMAIN file /\ ~Skipped(file[j]) /\ LineKey(file[j]) = <<key>> /\ Find(file[j], "#", 0) # 0
      BY <1>1, <2>2
    <3>2. file[j] \in Seq(Token)
      <4>1. DOMAIN file = 1 .. Len(file)
        OBVIOUS
      <4> QED
        BY <3>1, <4>1, ElementOfSeq
    <3>3. Assigns(file[j], key)
      BY <3>1, <3>2, NameOfLine
    <3> QED
      BY <1>3, <3>1, <3>3
  <2> HIDE DEF Of
  <2> QED
    BY <2>1, <2>2
<1>5. Max({i}) = i
  <2>1. i \in Nat
    <3>1. DOMAIN file = 1 .. Len(file)
      OBVIOUS
    <3> QED
      BY <3>1
  <2>2. \A x \in {i} : x <= i
    BY <2>1
  <2>3. Max({i}) \in {i}
    BY <2>1, <2>2, GreatestOf
  <2> QED
    BY <2>3
<1>6. ValueOf(key) = LineValue(file[i])
  <2> HIDE DEF Of
  <2> QED
    BY <1>4, <1>5
<1> HIDE DEF ValueOf
<1> QED
  BY <1>2, <1>3, <1>6

LEMMA AgreeIfClear ==
  ASSUME file \in Seq(Seq(Token))
  PROVE  ReadersAgree
<1> SUFFICES ASSUME \A key \in Key : Clear(key)
             PROVE  /\ FileReadMulti(file) # Broken
                    /\ FileReadAll(file) # Broken => FileReadAll(file) = FileReadMulti(file)
                    /\ FileReadAll(file) = Broken <=> NoComment
                    /\ \A key \in Key : \E i \in DOMAIN file :
                         Assigns(file[i], key) /\ FileReadMulti(file)[key] = LineValue(file[i])
  BY DEF ReadersAgree, NoComment
<1> DEFINE value == FileParams(file)
<1>1. value = [key \in Key |-> FileParamValue(Text(file), key)]
  BY DEF FileParams
<1>2. \A key \in Key : value[key] \in Seq(Token)
  BY <1>1, ClearIsRead
<1>3. \A key \in Key : value[key] # NoValue /\ value[key] # <<"broken">>
  BY <1>2, NotTokens
<1>4. FileReadMulti(file) = value
  <2>1. NoValue \notin Range(value)
    BY <1>1, <1>3 DEF Range
  <2> QED
    BY <2>1 DEF FileReadMulti
<1>5. PICK some \in Key : TRUE
  BY ChainParamsAssumption
<1>6. value # Broken
  <2>1. Broken[some] = <<"broken">> /\ value[some] # <<"broken">>
    BY <1>3, <1>5 DEF Broken
  <2> QED
    BY <2>1
<1>7. NoComment => FileReadAll(file) = Broken
  BY DEF NoComment, FileReadAll
<1>8. ~NoComment => FileReadAll(file) = value
  <2> SUFFICES ASSUME ~NoComment PROVE FileReadAll(file) = value
    OBVIOUS
  <2>1. \A key \in Key : FileReadAll(file)[key] = value[key]
    BY <1>1, AllIs
  <2>2. FileReadAll(file) = [key \in Key |-> FileReadAll(file)[key]]
    BY DEF FileReadAll, NoComment
  <2>3. value = [key \in Key |-> value[key]]
    BY <1>1
  <2> HIDE DEF value
  <2> QED
    BY <2>1, <2>2, <2>3
<1>9. \A key \in Key : \E i \in DOMAIN file :
        Assigns(file[i], key) /\ value[key] = LineValue(file[i])
  BY <1>1, ClearIsRead
<1> HIDE DEF value
<1> QED
  BY <1>4, <1>6, <1>7, <1>8, <1>9

(* The file is lines of tokens as long as somebody may read it.             *)
FileInv == file \in Seq(Seq(Token))

LEMMA FileStep ==
  ASSUME FileInv, FileNext
  PROVE  FileInv'
<1> USE DEF FileInv
<1>1. CASE EditFile
  <2>1. CASE Added
    <3>1. PICK i \in 1 .. Len(file) + 1, line \in Edit : file' = InsertAt(file, i, line)
      BY <2>1 DEF Added
    <3>2. line \in Seq(Token)
      BY ChainParamsAssumption
    <3>3. InsertAt(file, i, line) \in Seq(Seq(Token))
      BY ONLY <3>2, InsertedIs, file \in Seq(Seq(Token)), i \in 1 .. Len(file) + 1
    <3> QED
      BY <3>1, <3>3
  <2>2. CASE Removed
    <3>1. PICK i \in DOMAIN file : file' = RemoveAt(file, i)
      BY <2>2 DEF Removed
    <3>2. i \in 1 .. Len(file)
      OBVIOUS
    <3> QED
      BY <3>1, <3>2, RemovedIs
  <2> QED
    BY <1>1, <2>1, <2>2 DEF EditFile
<1>2. CASE ~EditFile
  <2>1. file' = <<>>
    BY <1>2 DEF FileNext, NoFile, KeysHelperWithFileAll, KeysHelperWithFileMulti, Load
  <2> QED
    BY <2>1
<1> QED
  BY <1>1, <1>2

(* The two readers of a parameters file give the same parameters, and those *)
(* of the lines that assign them, for files of any length with any edits    *)
(* (KeysHelperWithFile.cpp:65-103, 160-203).                                *)
THEOREM BothReadersAgree == AddressSpec => []ReadersAgree
<1>1. AddressInit => FileInv
  BY ChainParamsAssumption DEF AddressInit, FileInit, FileInv
<1>2. FileInv /\ [AddressNext]_<<fileVars, textVars>> => FileInv'
  <2> SUFFICES ASSUME FileInv, [AddressNext]_<<fileVars, textVars>> PROVE FileInv'
    OBVIOUS
  <2>1. CASE FileNext
    BY <2>1, FileStep
  <2>2. CASE ~FileNext
    BY <2>2 DEF AddressNext, fileVars, FileInv
  <2> QED
    BY <2>1, <2>2
<1>3. FileInv => ReadersAgree
  BY AgreeIfClear DEF FileInv
<1> QED
  BY <1>1, <1>2, <1>3, PTL DEF AddressSpec

-----------------------------------------------------------------------------
(* Numbers and their digits, the first one highest.                         *)
IsCount(d, base, v) ==
  /\ v \in [0 .. Len(d) -> Nat] /\ v[0] = 0
  /\ \A i \in Nat : i < Len(d) => v[i + 1] = v[i] * base + d[i + 1]

Counts(d, base, v) == v = [i \in 0 .. Len(d) |-> IF i = 0 THEN 0 ELSE v[i - 1] * base + d[i]]

LEMMA CountExists ==
  ASSUME NEW base \in Nat, NEW d \in Seq(Nat)
  PROVE  \E v : Counts(d, base, v)
<1> DEFINE n == Len(d)
           H == [x \in Nat \X Nat |-> IF x[1] < n THEN x[2] * base + d[x[1] + 1] ELSE 0]
<1>1. n \in Nat /\ \A i \in 1 .. n : d[i] \in Nat
  BY ElementOfSeq
<1>2. ASSUME NEW i \in Nat, NEW x \in Nat
      PROVE  /\ H[<<i, x>>] \in Nat
             /\ i < n => H[<<i, x>>] = x * base + d[i + 1]
  <2>1. H[<<i, x>>] = IF i < n THEN x * base + d[i + 1] ELSE 0
    OBVIOUS
  <2>2. i < n => i + 1 \in 1 .. n
    BY <1>1
  <2> DEFINE p == x * base
  <2>3. p \in Nat
    OBVIOUS
  <2>4. H[<<i, x>>] = IF i < n THEN p + d[i + 1] ELSE 0
    BY <2>1
  <2> HIDE DEF H, n, p
  <2>5. H[<<i, x>>] \in Nat /\ (i < n => H[<<i, x>>] = p + d[i + 1])
    BY <1>1, <2>2, <2>3, <2>4
  <2> QED
    BY <2>5 DEF p
<1>3. H \in [Nat \X Nat -> Nat]
  <2>1. \A x \in Nat \X Nat : x[1] \in Nat /\ x[2] \in Nat /\ x = <<x[1], x[2]>>
    OBVIOUS
  <2>2. H = [x \in Nat \X Nat |-> H[x]]
    OBVIOUS
  <2> HIDE DEF H
  <2>3. \A x \in Nat \X Nat : H[x] \in Nat
    BY ONLY <1>2, <2>1
  <2> QED
    BY ONLY <2>2, <2>3
<1> HIDE DEF H
<1>4. PICK f : UpTo(Nat, 0, H, n, f)
  BY <1>1, <1>3, UpToExists
<1>5. /\ f \in [0 .. n -> Nat] /\ f[0] = 0
      /\ \A i \in Nat : i < n => f[i + 1] = f[i] * base + d[i + 1]
  <2>1. f \in [0 .. n -> Nat] /\ f[0] = 0 /\ \A i \in Nat : i < n => f[i + 1] = H[<<i, f[i]>>]
    BY <1>4 DEF UpTo
  <2> HIDE DEF n
  <2>2. \A i \in Nat : i < n => f[i] \in Nat
    BY <1>1, <2>1
  <2> QED
    BY <1>2, <2>1, <2>2
<1> HIDE DEF n
<1>6. ASSUME NEW i \in 0 .. n, i # 0 PROVE f[i] = f[i - 1] * base + d[i]
  <2>1. i - 1 \in Nat /\ i - 1 < n /\ (i - 1) + 1 = i
    BY <1>1, <1>6
  <2>2. f[(i - 1) + 1] = f[i - 1] * base + d[(i - 1) + 1]
    BY <1>5, <2>1
  <2> QED
    BY <2>1, <2>2
<1>7. f = [i \in 0 .. n |-> f[i]]
  BY <1>5
<1>8. f = [i \in 0 .. n |-> IF i = 0 THEN 0 ELSE f[i - 1] * base + d[i]]
  BY ONLY <1>5, <1>6, <1>7
<1> QED
  BY <1>8 DEF Counts, n

LEMMA CountIs ==
  ASSUME NEW base \in Nat, NEW d \in Seq(Nat), NEW v, Counts(d, base, v)
  PROVE  IsCount(d, base, v)
<1> DEFINE n == Len(d)
<1>1. n \in Nat /\ \A i \in 1 .. n : d[i] \in Nat
  BY ElementOfSeq
<1>2. v = [i \in 0 .. n |-> IF i = 0 THEN 0 ELSE v[i - 1] * base + d[i]]
  BY DEF Counts
<1> HIDE DEF n
<1>3. v[0] = 0
  BY ONLY <1>1, <1>2
<1>4. ASSUME NEW i \in Nat, i < n PROVE v[i + 1] = v[i] * base + d[i + 1]
  <2>1. i + 1 \in 0 .. n /\ i + 1 # 0 /\ (i + 1) - 1 = i
    BY <1>1, <1>4
  <2>2. v[i + 1] = v[(i + 1) - 1] * base + d[i + 1]
    BY ONLY <1>2, <2>1
  <2> QED
    BY <2>1, <2>2
<1> DEFINE T == {i \in Nat : i <= n => v[i] \in Nat}
<1>5. 0 \in T
  BY <1>3
<1>6. ASSUME NEW i \in Nat, i \in T PROVE i + 1 \in T
  <2> SUFFICES ASSUME i + 1 <= n PROVE v[i + 1] \in Nat
    OBVIOUS
  <2>1. i < n /\ i + 1 \in 1 .. n /\ v[i] \in Nat
    BY <1>1, <1>6
  <2> DEFINE p == v[i] * base
  <2>2. p \in Nat
    BY <2>1
  <2>3. v[i + 1] = p + d[i + 1] /\ d[i + 1] \in Nat
    BY <1>1, <1>4, <2>1
  <2> HIDE DEF p
  <2> QED
    BY ONLY <2>2, <2>3
<1>7. \A i \in 0 .. n : v[i] \in Nat
  <2> HIDE DEF T
  <2>1. Nat \subseteq T
    BY <1>5, <1>6, AllNaturals
  <2> QED
    BY <1>1, <2>1 DEF T
<1>8. v = [i \in 0 .. n |-> v[i]]
  BY ONLY <1>2
<1>9. v \in [0 .. n -> Nat]
  BY <1>7, <1>8
<1> QED
  BY <1>3, <1>4, <1>9 DEF IsCount, n

LEMMA NumberIs ==
  ASSUME NEW base \in Nat, NEW d \in Seq(Nat)
  PROVE  \E v : IsCount(d, base, v) /\ Number(d, base) = v[Len(d)]
<1> DEFINE value[i \in 0 .. Len(d)] == IF i = 0 THEN 0 ELSE value[i - 1] * base + d[i]
<1>1. Number(d, base) = value[Len(d)]
  BY DEF Number
<1>2. Counts(d, base, value)
  <2>1. \E v : v = [i \in 0 .. Len(d) |-> IF i = 0 THEN 0 ELSE v[i - 1] * base + d[i]]
    BY CountExists DEF Counts
  <2> QED
    BY ONLY <2>1 DEF Counts
<1> HIDE DEF value
<1>3. IsCount(d, base, value)
  BY <1>2, CountIs
<1> QED
  BY <1>1, <1>3

Steps(d, base, n, k, w) ==
  \A i \in Nat : i < n => w[k + i + 1] = w[k + i] * base + d[i + 1]

SameAfter(w, k, v, n) == w[k + n] = v[n]

LEMMA SameCount ==
  ASSUME NEW base \in Nat, NEW d, NEW n \in Nat, NEW k \in Nat, NEW v, NEW w, w[k] = v[0],
         Steps(d, base, n, 0, v), Steps(d, base, n, k, w)
  PROVE  SameAfter(w, k, v, n)
<1>0. /\ \A i \in Nat : i < n => v[i + 1] = v[i] * base + d[i + 1]
      /\ \A i \in Nat : i < n => w[k + i + 1] = w[k + i] * base + d[i + 1]
  <2>1. \A i \in Nat : 0 + i + 1 = i + 1 /\ 0 + i = i
    OBVIOUS
  <2> QED
    BY <2>1 DEF Steps
<1> DEFINE T == {i \in Nat : i <= n => w[k + i] = v[i]}
<1>1. 0 \in T
  <2>1. k + 0 = k
    OBVIOUS
  <2> QED
    BY <2>1
<1>2. ASSUME NEW i \in Nat, i \in T PROVE i + 1 \in T
  <2> SUFFICES ASSUME i + 1 <= n PROVE w[k + (i + 1)] = v[i + 1]
    OBVIOUS
  <2>1. i < n /\ w[k + i] = v[i] /\ k + (i + 1) = k + i + 1
    BY <1>2
  <2>2. v[i + 1] = v[i] * base + d[i + 1] /\ w[k + i + 1] = w[k + i] * base + d[i + 1]
    BY <1>0, <2>1
  <2> QED
    BY ONLY <2>1, <2>2
<1> HIDE DEF T
<1>3. Nat \subseteq T
  BY <1>1, <1>2, AllNaturals
<1> QED
  BY <1>3 DEF T, SameAfter

LEMMA NumberOfNone ==
  ASSUME NEW base \in Nat
  PROVE  Number(<<>>, base) = 0
<1>1. <<>> \in Seq(Nat) /\ Len(<<>>) = 0
  OBVIOUS
<1> QED
  BY <1>1, NumberIs DEF IsCount

LEMMA NumberType ==
  ASSUME NEW base \in Nat, NEW d \in Seq(Nat)
  PROVE  Number(d, base) \in Nat
<1>1. PICK v : IsCount(d, base, v) /\ Number(d, base) = v[Len(d)]
  BY NumberIs
<1>2. Len(d) \in 0 .. Len(d)
  OBVIOUS
<1> QED
  BY <1>1, <1>2 DEF IsCount

LEMMA NumberAppend ==
  ASSUME NEW base \in Nat, NEW d \in Seq(Nat), NEW x \in Nat
  PROVE  Number(Append(d, x), base) = Number(d, base) * base + x
<1> DEFINE e == Append(d, x)
           n == Len(d)
<1>1. n \in Nat /\ e \in Seq(Nat) /\ Len(e) = n + 1 /\ e[n + 1] = x /\ \A i \in 1 .. n : e[i] = d[i]
  BY AppendProperties
<1> HIDE DEF e
<1>2. PICK v : IsCount(d, base, v) /\ Number(d, base) = v[Len(d)]
  BY NumberIs
<1>3. PICK w : IsCount(e, base, w) /\ Number(e, base) = w[Len(e)]
  BY <1>1, NumberIs
<1>4. /\ v[0] = 0 /\ \A i \in Nat : i < n => v[i + 1] = v[i] * base + d[i + 1]
      /\ w[0] = 0 /\ \A i \in Nat : i < n + 1 => w[i + 1] = w[i] * base + e[i + 1]
  BY <1>1, <1>2, <1>3 DEF IsCount
<1> HIDE DEF n
<1>5. Steps(d, base, n, 0, v) /\ Steps(d, base, n, 0, w)
  <2> SUFFICES ASSUME NEW i \in Nat, i < n
               PROVE  v[0 + i + 1] = v[0 + i] * base + d[i + 1] /\ w[0 + i + 1] = w[0 + i] * base + d[i + 1]
    BY DEF Steps
  <2>1. i < n + 1 /\ 0 + i + 1 = i + 1 /\ 0 + i = i /\ i + 1 \in 1 .. n
    BY <1>1
  <2>2. w[i + 1] = w[i] * base + e[i + 1] /\ e[i + 1] = d[i + 1] /\ v[i + 1] = v[i] * base + d[i + 1]
    BY <1>1, <1>4, <2>1
  <2> QED
    BY ONLY <2>1, <2>2
<1>6. w[0 + n] = v[n]
  <2>1. 0 \in Nat /\ w[0] = v[0]
    BY <1>4
  <2>2. SameAfter(w, 0, v, n)
    BY ONLY <1>1, <1>5, <2>1, SameCount, base \in Nat
  <2> QED
    BY <2>2 DEF SameAfter
<1>7. w[n + 1] = w[n] * base + x
  BY <1>1, <1>4
<1>8. 0 + n = n
  BY <1>1
<1>9. Number(e, base) = Number(d, base) * base + x
  BY ONLY <1>1, <1>2, <1>3, <1>6, <1>7, <1>8 DEF n
<1> QED
  BY <1>9 DEF e

(* Zeros in front do not count.                                             *)
ZerosOf(k) == [i \in 1 .. k |-> 0]

LEMMA ZerosAre ==
  ASSUME NEW k \in Nat
  PROVE  ZerosOf(k) \in Seq(Nat) /\ Len(ZerosOf(k)) = k /\ \A i \in 1 .. k : ZerosOf(k)[i] = 0
BY DEF ZerosOf

LEMMA NumberOfZeros ==
  ASSUME NEW base \in Nat, NEW k \in Nat, NEW d \in Seq(Nat)
  PROVE  Number(ZerosOf(k) \o d, base) = Number(d, base)
<1> DEFINE z == ZerosOf(k)
           e == z \o d
           n == Len(d)
<1>1. z \in Seq(Nat) /\ Len(z) = k /\ n \in Nat /\ \A i \in 1 .. k : z[i] = 0
  BY ZerosAre
<1>2. /\ e \in Seq(Nat) /\ Len(e) = k + n /\ \A i \in 1 .. k : e[i] = 0
      /\ \A i \in 1 .. n : e[k + i] = d[i]
  <2> DEFINE S == Nat
  <2>0. z \in Seq(S) /\ d \in Seq(S)
    BY <1>1
  <2> HIDE DEF z, S
  <2>1. /\ z \o d \in Seq(S) /\ Len(z \o d) = Len(z) + Len(d)
        /\ \A i \in 1 .. Len(z) : (z \o d)[i] = z[i]
        /\ \A i \in 1 .. Len(d) : (z \o d)[Len(z) + i] = d[i]
    BY ONLY <2>0, ConcatFacts
  <2> USE DEF S
  <2> QED
    BY <1>1, <2>1
<1> HIDE DEF e, z
<1>3. PICK v : IsCount(d, base, v) /\ Number(d, base) = v[Len(d)]
  BY NumberIs
<1>4. PICK w : IsCount(e, base, w) /\ Number(e, base) = w[Len(e)]
  BY <1>2, NumberIs
<1>5. /\ v[0] = 0 /\ \A i \in Nat : i < n => v[i + 1] = v[i] * base + d[i + 1]
      /\ w[0] = 0 /\ \A i \in Nat : i < k + n => w[i + 1] = w[i] * base + e[i + 1]
  BY <1>2, <1>3, <1>4 DEF IsCount
<1> HIDE DEF n
<1>6. w[k] = 0
  <2> DEFINE T == {i \in Nat : i <= k => w[i] = 0}
  <2>1. 0 \in T
    BY <1>5
  <2>2. ASSUME NEW i \in Nat, i \in T PROVE i + 1 \in T
    <3> SUFFICES ASSUME i + 1 <= k PROVE w[i + 1] = 0
      OBVIOUS
    <3>1. w[i] = 0 /\ i < k + n /\ i + 1 \in 1 .. k
      BY <1>1, <2>2
    <3>2. w[i + 1] = 0 * base + 0
      BY <1>2, <1>5, <3>1
    <3> QED
      BY <3>2
  <2> HIDE DEF T
  <2>3. Nat \subseteq T
    BY <2>1, <2>2, AllNaturals
  <2> QED
    BY <2>3 DEF T
<1>7. Steps(d, base, n, k, w)
  <2> SUFFICES ASSUME NEW i \in Nat, i < n PROVE w[k + i + 1] = w[k + i] * base + d[i + 1]
    BY DEF Steps
  <2>1. k + i \in Nat /\ k + i < k + n /\ k + i + 1 = k + (i + 1) /\ i + 1 \in 1 .. n
    BY <1>1
  <2>2. w[k + i + 1] = w[k + i] * base + e[k + i + 1]
    BY <1>5, <2>1
  <2>3. e[k + i + 1] = d[i + 1]
    BY <1>2, <2>1
  <2> QED
    BY ONLY <2>2, <2>3
<1>8. w[k + n] = v[n]
  <2>1. w[k] = v[0]
    BY <1>5, <1>6
  <2>2. Steps(d, base, n, 0, v)
    <3>1. \A i \in Nat : 0 + i + 1 = i + 1 /\ 0 + i = i
      OBVIOUS
    <3> QED
      BY <1>5, <3>1 DEF Steps
  <2>3. SameAfter(w, k, v, n)
    BY ONLY <1>1, <1>7, <2>1, <2>2, SameCount, base \in Nat, k \in Nat
  <2> QED
    BY <2>3 DEF SameAfter
<1>9. Number(e, base) = Number(d, base)
  BY ONLY <1>2, <1>3, <1>4, <1>8 DEF n
<1> QED
  BY <1>9 DEF e, z

(* A number has one sequence of digits that does not start with a zero.     *)
NoZeroInFront(d) == d = <<>> \/ d[1] # 0

IsDigits(d, base, n) ==
  d \in Seq(0 .. base - 1) /\ NoZeroInFront(d) /\ Number(d, base) = n

LEMMA DigitsAreNumbers ==
  ASSUME NEW base \in Nat, NEW d \in Seq(0 .. base - 1)
  PROVE  d \in Seq(Nat)
<1> DEFINE n == Len(d)
<1>1. n \in Nat /\ \A i \in 1 .. n : d[i] \in 0 .. base - 1
  BY ElementOfSeq
<1>2. d = [i \in 1 .. n |-> d[i]]
  BY LenProperties
<1> HIDE DEF n
<1>3. d \in [1 .. n -> Nat]
  <2>1. \A i \in 1 .. n : d[i] \in Nat
    BY <1>1
  <2> QED
    BY <1>2, <2>1
<1> QED
  BY <1>1, <1>3, SeqDef

LEMMA NumberOfLast ==
  ASSUME NEW base \in Nat \ {0}, NEW d \in Seq(0 .. base - 1), d # <<>>
  PROVE  /\ Front(d) \in Seq(0 .. base - 1) /\ Number(Front(d), base) \in Nat
         /\ Last(d) \in 0 .. base - 1
         /\ Number(d, base) = Number(Front(d), base) * base + Last(d)
<1>1. Front(d) \in Seq(0 .. base - 1) /\ Last(d) \in 0 .. base - 1 /\ d = Append(Front(d), Last(d))
  BY FrontAndLast
<1>2. Front(d) \in Seq(Nat) /\ Last(d) \in Nat
  BY <1>1, DigitsAreNumbers
<1>3. Number(Front(d), base) \in Nat
  BY <1>2, NumberType
<1>4. Number(Append(Front(d), Last(d)), base) = Number(Front(d), base) * base + Last(d)
  BY <1>2, NumberAppend
<1> QED
  BY ONLY <1>1, <1>3, <1>4

LEMMA FrontHasNoZero ==
  ASSUME NEW S, NEW d \in Seq(S), d # <<>>, NoZeroInFront(d)
  PROVE  NoZeroInFront(Front(d))
<1> SUFFICES ASSUME Front(d) # <<>> PROVE Front(d)[1] # 0
  BY DEF NoZeroInFront
<1>1. Front(d) \in Seq(S) /\ Len(Front(d)) = Len(d) - 1 /\ \A i \in 1 .. Len(d) - 1 : Front(d)[i] = d[i]
  BY FrontAndLast
<1>2. Len(Front(d)) \in Nat /\ Len(Front(d)) # 0 /\ Len(d) \in Nat
  BY <1>1, EmptySeq
<1>3. 1 \in 1 .. Len(d) - 1
  BY <1>1, <1>2
<1> QED
  BY <1>1, <1>3 DEF NoZeroInFront

LEMMA DigitsArePositive ==
  ASSUME NEW base \in Nat \ {0}
  PROVE  \A d \in Seq(0 .. base - 1) : d # <<>> /\ NoZeroInFront(d) => Number(d, base) > 0
<1> DEFINE T == {k \in Nat : \A d \in Seq(0 .. base - 1) :
                   Len(d) <= k /\ d # <<>> /\ NoZeroInFront(d) => Number(d, base) > 0}
<1>1. 0 \in T
  BY EmptySeq
<1>2. ASSUME NEW k \in Nat, k \in T PROVE k + 1 \in T
  <2> SUFFICES ASSUME NEW d \in Seq(0 .. base - 1), Len(d) <= k + 1, d # <<>>, NoZeroInFront(d)
               PROVE  Number(d, base) > 0
    OBVIOUS
  <2> DEFINE f == Front(d)
             x == Last(d)
             N == Number(f, base)
  <2>1. f \in Seq(0 .. base - 1) /\ N \in Nat /\ x \in 0 .. base - 1 /\ Number(d, base) = N * base + x
    BY NumberOfLast
  <2>2. Len(d) \in Nat /\ Len(f) = Len(d) - 1 /\ x = d[Len(d)] /\ NoZeroInFront(f)
    BY FrontAndLast, FrontHasNoZero
  <2>3. f # <<>> => N > 0
    <3>1. Len(f) <= k
      BY <2>2
    <3> QED
      BY <1>2, <2>1, <2>2, <3>1
  <2>4. f = <<>> => x > 0
    <3> SUFFICES ASSUME f = <<>> PROVE x > 0
      OBVIOUS
    <3>1. Len(d) = 1
      BY <2>2
    <3>2. x = d[1] /\ x # 0
      BY <2>2, <3>1 DEF NoZeroInFront
    <3> QED
      BY <2>1, <3>2
  <2> HIDE DEF f, x, N
  <2>5. N * base \in Nat /\ (N > 0 => N * base > 0)
    BY <2>1
  <2> QED
    BY <2>1, <2>3, <2>4, <2>5
<1>3. Nat \subseteq T
  <2> HIDE DEF T
  <2> QED
    BY <1>1, <1>2, AllNaturals
<1> SUFFICES ASSUME NEW d \in Seq(0 .. base - 1), d # <<>>, NoZeroInFront(d)
             PROVE  Number(d, base) > 0
  OBVIOUS
<1>4. Len(d) \in Nat /\ Len(d) <= Len(d)
  OBVIOUS
<1>5. Len(d) \in T
  BY <1>3, <1>4
<1> QED
  BY <1>4, <1>5

LEMMA SameNumber ==
  ASSUME NEW base \in Nat \ {0}
  PROVE  \A d, e \in Seq(0 .. base - 1) :
           NoZeroInFront(d) /\ NoZeroInFront(e) /\ Number(d, base) = Number(e, base) => d = e
<1> DEFINE Q == Seq(0 .. base - 1)
           T == {k \in Nat : \A d, e \in Q :
                   Len(d) <= k /\ NoZeroInFront(d) /\ NoZeroInFront(e) /\ Number(d, base) = Number(e, base)
                   => d = e}
<1>0. ASSUME NEW d \in Q, NEW e \in Q, d = <<>> \/ e = <<>>, NoZeroInFront(d), NoZeroInFront(e),
             Number(d, base) = Number(e, base)
      PROVE  d = e
  <2>1. Number(<<>>, base) = 0
    BY NumberOfNone
  <2>2. (d # <<>> => Number(d, base) > 0) /\ (e # <<>> => Number(e, base) > 0)
    BY <1>0, DigitsArePositive
  <2> QED
    BY <1>0, <2>1, <2>2
<1>1. 0 \in T
  <2>1. \A d \in Q : Len(d) <= 0 => d = <<>>
    <3>1. \A d \in Q : Len(d) \in Nat /\ (Len(d) = 0 => d = <<>>)
      BY EmptySeq
    <3> HIDE DEF Q
    <3> QED
      BY <3>1
  <2> HIDE DEF Q
  <2> QED
    BY <1>0, <2>1
<1>2. ASSUME NEW k \in Nat, k \in T PROVE k + 1 \in T
  <2> SUFFICES ASSUME NEW d \in Q, NEW e \in Q, Len(d) <= k + 1, NoZeroInFront(d), NoZeroInFront(e),
                      Number(d, base) = Number(e, base)
               PROVE  d = e
    OBVIOUS
  <2>1. CASE d = <<>> \/ e = <<>>
    BY <1>0, <2>1
  <2>2. CASE d # <<>> /\ e # <<>>
    <3> DEFINE f == Front(d)
               x == Last(d)
               g == Front(e)
               y == Last(e)
               N == Number(f, base)
               M == Number(g, base)
    <3>1. f \in Q /\ N \in Nat /\ x \in 0 .. base - 1 /\ Number(d, base) = N * base + x
      BY <2>2, NumberOfLast
    <3>2. g \in Q /\ M \in Nat /\ y \in 0 .. base - 1 /\ Number(e, base) = M * base + y
      BY <2>2, NumberOfLast
    <3>3. /\ Len(d) \in Nat /\ Len(f) = Len(d) - 1 /\ d = Append(f, x) /\ e = Append(g, y)
          /\ NoZeroInFront(f) /\ NoZeroInFront(g)
      BY <2>2, FrontAndLast, FrontHasNoZero
    <3> HIDE DEF f, x, g, y
    <3>4. x = y /\ N = M
      <4> HIDE DEF N, M
      <4>1. WithDigit(x, N, base) = WithDigit(y, M, base)
        <5> DEFINE p == N * base
                   q == M * base
        <5>1. p \in Nat /\ q \in Nat
          BY <3>1, <3>2
        <5>2. Number(d, base) = p + x /\ Number(e, base) = q + y
          BY <3>1, <3>2
        <5> HIDE DEF p, q
        <5>4. p + x = q + y
          BY ONLY <5>2, Number(d, base) = Number(e, base)
        <5>5. x \in Nat /\ y \in Nat
          BY <3>1, <3>2
        <5>3. x + p = y + q
          BY ONLY <5>1, <5>4, <5>5
        <5> QED
          BY <5>3 DEF p, q, WithDigit
      <4> QED
        BY <3>1, <3>2, <4>1, SameDigit
    <3>5. f = g
      <4>1. Len(f) <= k
        BY <3>3
      <4> QED
        BY <1>2, <3>1, <3>2, <3>3, <3>4, <4>1
    <3> QED
      BY <3>3, <3>4, <3>5
  <2> QED
    BY <2>1, <2>2
<1>3. Nat \subseteq T
  <2> HIDE DEF T
  <2> QED
    BY <1>1, <1>2, AllNaturals
<1> SUFFICES ASSUME NEW d \in Q, NEW e \in Q, NoZeroInFront(d), NoZeroInFront(e),
                    Number(d, base) = Number(e, base)
             PROVE  d = e
  OBVIOUS
<1>4. Len(d) \in Nat /\ Len(d) <= Len(d)
  OBVIOUS
<1>5. Len(d) \in T
  BY <1>3, <1>4
<1> HIDE DEF Q
<1> QED
  BY <1>4, <1>5

Divided(n, base) ==
  /\ n \div base \in Nat /\ n % base \in 0 .. base - 1
  /\ n = (n \div base) * base + (n % base) /\ (n > 0 /\ 1 < base => n \div base < n)

LEMMA QuotientAndRest ==
  ASSUME NEW base \in Nat \ {0}, NEW n \in Nat
  PROVE  Divided(n, base)
<1> DEFINE q == n \div base
           r == n % base
<1>1. q \in Int /\ r \in 0 .. base - 1 /\ n = base * q + r
  OBVIOUS
<1> HIDE DEF q, r
<1>2. q >= 0
  <2> SUFFICES ASSUME q < 0 PROVE FALSE
    BY <1>1
  <2>1. base * q <= base * (-1)
    <3>1. -1 - q \in Nat
      BY <1>1
    <3>2. base * (-1 - q) \in Nat
      BY <3>1
    <3>3. base * (-1 - q) = base * (-1) - base * q
      BY <1>1
    <3>4. base * q \in Int /\ base * (-1) \in Int
      BY <1>1
    <3> QED
      BY <3>2, <3>3, <3>4
  <2>2. base * (-1) = -base
    OBVIOUS
  <2>3. base * q \in Int
    BY <1>1
  <2> QED
    BY <1>1, <2>1, <2>2, <2>3
<1>3. n > 0 /\ 1 < base => q < n
  <2> SUFFICES ASSUME n > 0, 1 < base, q >= n PROVE FALSE
    BY <1>1
  <2>1. base * q = q + (base - 1) * q
    BY <1>1
  <2>2. (base - 1) * q >= q
    <3>1. base - 2 \in Nat /\ q \in Nat
      BY <1>1, <1>2
    <3>2. (base - 2) * q \in Nat
      BY <3>1
    <3>3. (base - 1) * q = (base - 2) * q + q
      BY <1>1
    <3> QED
      BY <3>1, <3>2, <3>3
  <2>3. (base - 1) * q \in Int
    BY <1>1
  <2> QED
    BY <1>1, <2>1, <2>2, <2>3
<1>4. base * q = q * base
  BY <1>1
<1>5. n = q * base + r /\ q \in Nat
  BY <1>1, <1>2, <1>4
<1> QED
  BY <1>1, <1>3, <1>5 DEF q, r, Divided

LEMMA OneMoreDigit ==
  ASSUME NEW base \in Nat, 1 < base, NEW n \in Nat \ {0}, NEW d, IsDigits(d, base, n \div base)
  PROVE  IsDigits(Append(d, n % base), base, n)
<1> DEFINE q == n \div base
           r == n % base
<1>1. q \in Nat /\ r \in 0 .. base - 1 /\ r \in Nat /\ n = q * base + r
  <2>1. Divided(n, base)
    BY QuotientAndRest
  <2> QED
    BY <2>1 DEF Divided
<1>2. d \in Seq(0 .. base - 1) /\ NoZeroInFront(d) /\ Number(d, base) = q
  BY DEF IsDigits
<1> HIDE DEF q, r
<1>3. d \in Seq(Nat)
  BY <1>2, DigitsAreNumbers
<1> DEFINE S == 0 .. base - 1
           e == Append(d, r)
<1>4. /\ e \in Seq(S) /\ Len(d) \in Nat /\ Len(e) = Len(d) + 1 /\ e[Len(d) + 1] = r
      /\ \A i \in 1 .. Len(d) : e[i] = d[i]
  <2>1. d \in Seq(S) /\ r \in S
    BY <1>1, <1>2
  <2> HIDE DEF S
  <2> QED
    BY <2>1, AppendProperties
<1>5. Number(e, base) = n
  <2>1. Number(e, base) = Number(d, base) * base + r
    BY <1>1, <1>3, NumberAppend
  <2> QED
    BY ONLY <1>1, <1>2, <2>1
<1>6. NoZeroInFront(e)
  <2>1. CASE d = <<>>
    <3>1. q = 0
      BY <1>2, <2>1, NumberOfNone
    <3>2. q * base = 0
      BY <3>1
    <3>3. r = n /\ r # 0
      BY <1>1, <3>2
    <3>4. e[1] = r
      BY <2>1
    <3> QED
      BY <3>3, <3>4 DEF NoZeroInFront
  <2>2. CASE d # <<>>
    <3>1. 1 \in 1 .. Len(d)
      BY <1>4, <2>2, EmptySeq
    <3> QED
      BY <1>2, <1>4, <2>2, <3>1 DEF NoZeroInFront
  <2> QED
    BY <2>1, <2>2
<1> QED
  BY <1>4, <1>5, <1>6 DEF IsDigits, r

LEMMA NoDigits ==
  ASSUME NEW base \in Nat
  PROVE  IsDigits(<<>>, base, 0)
BY NumberOfNone DEF IsDigits, NoZeroInFront

LEMMA DigitsExist ==
  ASSUME NEW base \in Nat, 1 < base
  PROVE  \A n \in Nat : \E d : IsDigits(d, base, n)
<1> DEFINE T == {k \in Nat : \A n \in 0 .. k : \E d : IsDigits(d, base, n)}
<1>1. 0 \in T
  <2>1. \A n \in 0 .. 0 : n = 0
    OBVIOUS
  <2> QED
    BY <2>1, NoDigits
<1>2. ASSUME NEW k \in Nat, k \in T PROVE k + 1 \in T
  <2> SUFFICES ASSUME NEW n \in 0 .. k + 1 PROVE \E d : IsDigits(d, base, n)
    OBVIOUS
  <2>1. CASE n = 0
    BY <2>1, NoDigits
  <2>2. CASE n # 0
    <3>1. n \in Nat \ {0} /\ n \div base \in Nat /\ n \div base < n
      <4>1. n \in Nat \ {0} /\ Divided(n, base)
        BY <2>2, QuotientAndRest
      <4> QED
        BY <4>1 DEF Divided
    <3>2. n \div base \in 0 .. k
      BY <3>1
    <3>3. PICK d : IsDigits(d, base, n \div base)
      BY <1>2, <3>2
    <3> QED
      BY <3>1, <3>3, OneMoreDigit
  <2> QED
    BY <2>1, <2>2
<1>3. Nat \subseteq T
  <2> HIDE DEF T
  <2> QED
    BY <1>1, <1>2, AllNaturals
<1> SUFFICES ASSUME NEW n \in Nat PROVE \E d : IsDigits(d, base, n)
  OBVIOUS
<1>4. n \in T /\ n \in 0 .. n
  BY <1>3
<1> QED
  BY <1>4

LEMMA OneDigits ==
  ASSUME NEW base \in Nat \ {0}, NEW n, NEW d, NEW e, IsDigits(d, base, n), IsDigits(e, base, n)
  PROVE  d = e
BY SameNumber DEF IsDigits

IsConversion(base, f) ==
  f = [m \in Nat |-> IF m = 0 THEN <<>> ELSE Append(f[m \div base], m % base)]

LEMMA ConversionExists ==
  ASSUME NEW base \in Nat, 1 < base
  PROVE  \E f : IsConversion(base, f)
<1> DEFINE f == [m \in Nat |-> CHOOSE d : IsDigits(d, base, m)]
<1>1. \A m \in Nat : IsDigits(f[m], base, m)
  BY DigitsExist
<1>2. f = [m \in Nat |-> f[m]]
  OBVIOUS
<1> HIDE DEF f
<1>3. ASSUME NEW m \in Nat PROVE f[m] = IF m = 0 THEN <<>> ELSE Append(f[m \div base], m % base)
  <2>1. CASE m = 0
    <3>1. IsDigits(<<>>, base, 0) /\ IsDigits(f[0], base, 0) /\ base \in Nat \ {0}
      BY <1>1, NoDigits
    <3>2. f[0] = <<>>
      BY ONLY <3>1, OneDigits
    <3> QED
      BY <2>1, <3>2
  <2>2. CASE m # 0
    <3>1. m \in Nat \ {0} /\ m \div base \in Nat
      <4>1. m \in Nat \ {0} /\ Divided(m, base)
        BY <2>2, QuotientAndRest
      <4> QED
        BY <4>1 DEF Divided
    <3>2. IsDigits(f[m \div base], base, m \div base)
      BY <1>1, <3>1
    <3>3. IsDigits(Append(f[m \div base], m % base), base, m)
      BY <3>1, <3>2, OneMoreDigit
    <3>4. f[m] = Append(f[m \div base], m % base)
      <4>1. IsDigits(f[m], base, m) /\ base \in Nat \ {0}
        BY <1>1
      <4> QED
        BY ONLY <3>3, <4>1, OneDigits
    <3> QED
      BY <2>2, <3>4
  <2> QED
    BY <2>1, <2>2
<1>4. f = [m \in Nat |-> IF m = 0 THEN <<>> ELSE Append(f[m \div base], m % base)]
  BY ONLY <1>2, <1>3
<1> QED
  BY <1>4 DEF IsConversion

LEMMA ConversionIs ==
  ASSUME NEW base \in Nat, 1 < base, NEW f, IsConversion(base, f)
  PROVE  \A n \in Nat : IsDigits(f[n], base, n)
<1>0. \A m \in Nat : f[m] = IF m = 0 THEN <<>> ELSE Append(f[m \div base], m % base)
  BY DEF IsConversion
<1> DEFINE T == {k \in Nat : \A n \in 0 .. k : IsDigits(f[n], base, n)}
<1>1. 0 \in T
  <2>1. \A n \in 0 .. 0 : n = 0
    OBVIOUS
  <2>2. f[0] = <<>>
    BY <1>0
  <2>3. IsDigits(f[0], base, 0)
    BY <2>2, NoDigits
  <2> QED
    BY <2>1, <2>3
<1>2. ASSUME NEW k \in Nat, k \in T PROVE k + 1 \in T
  <2> SUFFICES ASSUME NEW n \in 0 .. k + 1 PROVE IsDigits(f[n], base, n)
    OBVIOUS
  <2>1. CASE n = 0
    BY <1>1, <2>1
  <2>2. CASE n # 0
    <3>1. n \in Nat \ {0} /\ n \div base \in Nat /\ n \div base < n
      <4>1. n \in Nat \ {0} /\ Divided(n, base)
        BY <2>2, QuotientAndRest
      <4> QED
        BY <4>1 DEF Divided
    <3>2. n \div base \in 0 .. k
      BY <3>1
    <3>3. IsDigits(f[n \div base], base, n \div base)
      BY <1>2, <3>2
    <3>4. IsDigits(Append(f[n \div base], n % base), base, n)
      BY <3>1, <3>3, OneMoreDigit
    <3>5. f[n] = Append(f[n \div base], n % base)
      BY <1>0, <3>1
    <3> QED
      BY ONLY <3>4, <3>5
  <2> QED
    BY <2>1, <2>2
<1>3. Nat \subseteq T
  <2> HIDE DEF T
  <2> QED
    BY <1>1, <1>2, AllNaturals
<1> SUFFICES ASSUME NEW n \in Nat PROVE IsDigits(f[n], base, n)
  OBVIOUS
<1>4. n \in T /\ n \in 0 .. n
  BY <1>3
<1> QED
  BY <1>4

LEMMA DigitsOfIs ==
  ASSUME NEW base \in Nat, 1 < base, NEW n \in Nat
  PROVE  IsDigits(DigitsOf(n, base), base, n)
<1> DEFINE digits[m \in Nat] == IF m = 0 THEN <<>> ELSE Append(digits[m \div base], m % base)
<1>1. DigitsOf(n, base) = digits[n]
  BY DEF DigitsOf
<1>2. IsConversion(base, digits)
  <2>1. \E f : f = [m \in Nat |-> IF m = 0 THEN <<>> ELSE Append(f[m \div base], m % base)]
    BY ConversionExists DEF IsConversion
  <2> QED
    BY ONLY <2>1 DEF IsConversion
<1> HIDE DEF digits
<1>3. IsDigits(digits[n], base, n)
  BY <1>2, ConversionIs
<1> QED
  BY <1>1, <1>3

(* Text in one base written in another and back.                            *)
LEMMA ZerosInFront ==
  ASSUME NEW k \in Nat, NEW t \in Seq(Nat), NoZeroInFront(t)
  PROVE  Zeros(ZerosOf(k) \o t) = k
<1> DEFINE z == ZerosOf(k)
           s == z \o t
           other == {i \in DOMAIN s : s[i] # 0}
<1>1. z \in Seq(Nat) /\ Len(z) = k /\ Len(t) \in Nat /\ \A i \in 1 .. k : z[i] = 0
  BY ZerosAre
<1>2. /\ s \in Seq(Nat) /\ Len(s) = k + Len(t) /\ \A i \in 1 .. k : s[i] = 0
      /\ \A i \in 1 .. Len(t) : s[k + i] = t[i]
  <2> DEFINE S == Nat
  <2>0. z \in Seq(S) /\ t \in Seq(S)
    BY <1>1
  <2> HIDE DEF z, S
  <2>1. /\ z \o t \in Seq(S) /\ Len(z \o t) = Len(z) + Len(t)
        /\ \A i \in 1 .. Len(z) : (z \o t)[i] = z[i]
        /\ \A i \in 1 .. Len(t) : (z \o t)[Len(z) + i] = t[i]
    BY ONLY <2>0, ConcatFacts
  <2> USE DEF S
  <2> QED
    BY <1>1, <2>1
<1>3. DOMAIN s = 1 .. k + Len(t)
  <2> HIDE DEF s
  <2> QED
    BY <1>2, LenProperties
<1>4. Zeros(s) = IF other = {} THEN Len(s) ELSE Min(other) - 1
  BY DEF Zeros
<1> HIDE DEF s, z
<1>5. CASE t = <<>>
  <2>1. Len(t) = 0
    BY <1>5
  <2>2. other = {}
    BY <1>1, <1>2, <1>3, <2>1
  <2> HIDE DEF other
  <2>3. Zeros(s) = k
    BY <1>2, <1>4, <2>1, <2>2
  <2> QED
    BY <2>3 DEF s, z
<1>6. CASE t # <<>>
  <2>1. 1 \in 1 .. Len(t) /\ t[1] # 0
    BY <1>1, <1>6, EmptySeq DEF NoZeroInFront
  <2>2. s[k + 1] # 0 /\ k + 1 \in DOMAIN s
    BY <1>1, <1>2, <1>3, <2>1
  <2>3. k + 1 \in other /\ other \in SUBSET Nat /\ \A i \in other : i \in 1 .. k + Len(t) /\ s[i] # 0
    BY <1>3, <2>2
  <2> HIDE DEF other
  <2>4. \A i \in other : k + 1 <= i
    BY <1>1, <1>2, <2>3
  <2>5. Min(other) = k + 1
    BY <2>3, <2>4, LeastIs
  <2>6. Zeros(s) = (k + 1) - 1
    BY <1>4, <2>3, <2>5
  <2>7. Zeros(s) = k
    BY <2>6
  <2> QED
    BY <2>7 DEF s, z
<1> QED
  BY <1>5, <1>6

LEMMA ZerosAndRest ==
  ASSUME NEW base \in Nat \ {0}, NEW s \in Seq(0 .. base - 1)
  PROVE  /\ Zeros(s) \in Nat
         /\ \E t \in Seq(0 .. base - 1) : NoZeroInFront(t) /\ s = ZerosOf(Zeros(s)) \o t
<1> DEFINE S == 0 .. base - 1
           n == Len(s)
           k == Zeros(s)
           other == {i \in DOMAIN s : s[i] # 0}
<1>1. n \in Nat /\ DOMAIN s = 1 .. n /\ \A i \in 1 .. n : s[i] \in S
  BY ElementOfSeq
<1>2. k = IF other = {} THEN n ELSE Min(other) - 1
  BY DEF Zeros
<1>3. other \in SUBSET Nat /\ \A i \in 1 .. n : i \in other <=> s[i] # 0
  BY <1>1
<1>4. other \subseteq 1 .. n
  BY <1>1
<1> HIDE DEF other
<1>5. k \in Nat /\ k <= n /\ (\A i \in 1 .. k : s[i] = 0) /\ (k < n => s[k + 1] # 0)
  <2>1. CASE other = {}
    <3>1. k = n
      BY <1>2, <2>1
    <3> QED
      BY <1>1, <1>3, <2>1, <3>1
  <2>2. CASE other # {}
    <3> DEFINE m == Min(other)
    <3>1. m \in other /\ \A x \in other : m <= x
      BY <1>3, <2>2, LeastOf
    <3>2. k = m - 1
      BY <1>2, <2>2
    <3> HIDE DEF m, k, n
    <3>3. m \in 1 .. n /\ s[m] # 0
      BY <1>3, <1>4, <3>1
    <3>4. k \in Nat /\ k <= n /\ k + 1 = m
      BY <1>1, <3>2, <3>3
    <3>5. ASSUME NEW i \in 1 .. k PROVE s[i] = 0
      <4>1. i \in 1 .. n /\ ~(m <= i)
        BY <1>1, <3>2, <3>3, <3>4
      <4> QED
        BY <1>3, <3>1, <4>1
    <3> QED
      BY <3>3, <3>4, <3>5
  <2> QED
    BY <2>1, <2>2
<1> DEFINE a == k + 1
           t == SubSeq(s, a, n)
<1>6. a \in Nat \ {0} /\ n <= Len(s)
  BY <1>1, <1>5
<1>7. /\ t \in Seq(S) /\ Len(t) = n - k
      /\ \A i \in 1 .. n - k : t[i] = s[k + i]
  <2>1. a = k + 1
    OBVIOUS
  <2>0. s \in Seq(S)
    OBVIOUS
  <2> HIDE DEF a, S, n, k
  <2>2. /\ t \in Seq(S) /\ Len(t) = IF a <= n THEN n - a + 1 ELSE 0
        /\ \A i \in 1 .. n - a + 1 : t[i] = s[a + i - 1]
    BY ONLY <1>1, <1>6, <2>0, SubSeqIs
  <2> HIDE DEF t
  <2>3. Len(t) = n - k
    BY <1>1, <1>5, <2>1, <2>2
  <2>4. ASSUME NEW i \in 1 .. n - k PROVE t[i] = s[k + i]
    <3>1. i \in 1 .. n - a + 1 /\ a + i - 1 = k + i
      BY <1>1, <1>5, <2>1
    <3> QED
      BY <2>2, <3>1
  <2> QED
    BY <2>2, <2>3, <2>4
<1> HIDE DEF t, k, n
<1>8. NoZeroInFront(t)
  <2> SUFFICES ASSUME t # <<>> PROVE t[1] # 0
    BY DEF NoZeroInFront
  <2>1. Len(t) # 0
    BY <1>7, EmptySeq
  <2>2. k < n /\ 1 \in 1 .. n - k
    BY <1>1, <1>5, <1>7, <2>1
  <2> QED
    BY <1>5, <1>7, <2>2
<1> DEFINE z == ZerosOf(k)
           e == z \o t
<1>9. z \in Seq(S) /\ Len(z) = k /\ \A i \in 1 .. k : z[i] = 0
  <2>1. 0 \in S
    OBVIOUS
  <2> HIDE DEF S
  <2> QED
    BY <1>5, <2>1 DEF ZerosOf
<1> HIDE DEF z
<1>10. /\ e \in Seq(S) /\ Len(e) = Len(z) + Len(t)
       /\ \A i \in 1 .. Len(z) : e[i] = z[i]
       /\ \A i \in 1 .. Len(t) : e[Len(z) + i] = t[i]
  <2>1. z \in Seq(S) /\ t \in Seq(S)
    BY <1>7, <1>9
  <2> HIDE DEF S
  <2> QED
    BY ONLY <2>1, ConcatFacts
<1> HIDE DEF e
<1>11. Len(e) = Len(s) /\ \A i \in 1 .. Len(s) : s[i] = e[i]
  <2>1. Len(e) = n
    BY <1>1, <1>5, <1>7, <1>9, <1>10
  <2>2. ASSUME NEW i \in 1 .. n PROVE s[i] = e[i]
    <3>1. CASE i <= k
      <4>1. i \in 1 .. k
        BY <3>1
      <4> QED
        BY <1>5, <1>9, <1>10, <4>1
    <3>2. CASE ~(i <= k)
      <4> DEFINE j == i - k
      <4>1. j \in 1 .. n - k /\ i = k + j
        BY <1>1, <1>5, <3>2
      <4> HIDE DEF j
      <4>2. e[k + j] = t[j] /\ t[j] = s[k + j]
        BY <1>7, <1>9, <1>10, <4>1
      <4> QED
        BY <4>1, <4>2
    <3> QED
      BY <3>1, <3>2
  <2> QED
    BY <2>1, <2>2 DEF n
<1>12. s = e
  <2>1. s \in Seq(S)
    OBVIOUS
  <2> HIDE DEF S
  <2> QED
    BY ONLY <1>10, <1>11, <2>1, SeqEqual
<1> QED
  BY <1>5, <1>7, <1>8, <1>12 DEF e, z, k

Convert(s, a, b) == ZerosOf(Zeros(s)) \o DigitsOf(Number(s, a), b)

LEMMA ConvertBack ==
  ASSUME NEW a \in Nat, 1 < a, NEW b \in Nat, 1 < b, NEW s \in Seq(0 .. a - 1)
  PROVE  /\ Convert(s, a, b) \in Seq(0 .. b - 1)
         /\ Convert(Convert(s, a, b), b, a) = s
<1> DEFINE k == Zeros(s)
           n == Number(s, a)
           d == DigitsOf(n, b)
           c == Convert(s, a, b)
<1>1. k \in Nat
  <2>1. a \in Nat \ {0}
    OBVIOUS
  <2> QED
    BY <2>1, ZerosAndRest
<1>2. PICK t \in Seq(0 .. a - 1) : NoZeroInFront(t) /\ s = ZerosOf(k) \o t
  <2>1. a \in Nat \ {0}
    OBVIOUS
  <2> QED
    BY <2>1, ZerosAndRest
<1>3. t \in Seq(Nat) /\ s \in Seq(Nat)
  BY DigitsAreNumbers
<1>4. n \in Nat /\ n = Number(t, a)
  <2>1. n \in Nat
    BY <1>3, NumberType
  <2>2. Number(ZerosOf(k) \o t, a) = Number(t, a)
    BY <1>1, <1>3, NumberOfZeros
  <2> QED
    BY <1>2, <2>1, <2>2
<1> HIDE DEF k, n
<1>5. d \in Seq(0 .. b - 1) /\ NoZeroInFront(d) /\ Number(d, b) = n
  BY <1>4, DigitsOfIs DEF IsDigits
<1>6. d \in Seq(Nat)
  BY <1>5, DigitsAreNumbers
<1> HIDE DEF d
<1>7. c = ZerosOf(k) \o d
  BY DEF Convert, d, k, n
<1> HIDE DEF c
<1>8. c \in Seq(0 .. b - 1)
  <2> DEFINE S == 0 .. b - 1
             z == ZerosOf(k)
  <2>1. 0 \in S /\ d \in Seq(S)
    BY <1>5
  <2> HIDE DEF S
  <2>2. z \in Seq(S)
    BY <1>1, <2>1 DEF ZerosOf
  <2> HIDE DEF z
  <2>3. z \o d \in Seq(S)
    BY ONLY <2>1, <2>2, ConcatFacts
  <2> QED
    BY <1>7, <2>3 DEF S, z
<1>9. Zeros(c) = k
  BY <1>1, <1>5, <1>6, <1>7, ZerosInFront
<1>10. Number(c, b) = n
  BY <1>1, <1>5, <1>6, <1>7, NumberOfZeros
<1>11. DigitsOf(n, a) = t
  <2>1. IsDigits(DigitsOf(n, a), a, n)
    BY <1>4, DigitsOfIs
  <2>2. IsDigits(t, a, n) /\ a \in Nat \ {0}
    BY <1>2, <1>4 DEF IsDigits
  <2> QED
    BY ONLY <2>1, <2>2, OneDigits
<1>12. Convert(c, b, a) = s
  BY <1>2, <1>9, <1>10, <1>11 DEF Convert
<1> QED
  BY <1>8, <1>12 DEF c

(* The version between the pieces of the data.                              *)
VersionAt(h, i) == (i - 1) * (h + 1) + 1
PieceLength(h, e, n, i) == IF i = n THEN e ELSE h

Interleaved(v, P) == [i \in 1 .. Len(v) |-> <<v[i]>> \o P[i]]
Pieces(d, n) == [i \in 1 .. n |-> Piece(d, i, n)]

VersionIn(bytes, n) ==
  LET h == (Len(bytes) - n) \div n IN [i \in 1 .. n |-> bytes[VersionAt(h, i)]]
PiecesIn(bytes, n) ==
  LET h == (Len(bytes) - n) \div n
  IN  [i \in 1 .. n |-> SubSeq(bytes, VersionAt(h, i) + 1,
                               IF i = n THEN Len(bytes) ELSE VersionAt(h, i) + h)]

(* Numbers of bytes: n pieces of h bytes, the last one with the rest.       *)
Lengths(L, n, h, e) ==
  /\ n \in Nat \ {0} /\ h \in Nat /\ e \in Nat /\ h = L \div n
  /\ L = (n - 1) * h + e /\ L + n = (n - 1) * (h + 1) + (e + 1)

LEMMA LengthsExist ==
  ASSUME NEW L \in Nat, NEW n \in Nat \ {0}
  PROVE  \E h, e \in Nat : Lengths(L, n, h, e)
<1> DEFINE h == L \div n
           r == L % n
           e == h + r
<1>1. h \in Nat /\ r \in 0 .. n - 1 /\ L = h * n + r
  BY QuotientAndRest DEF Divided
<1>2. h = L \div n
  OBVIOUS
<1> HIDE DEF h, r
<1>3. e \in Nat
  BY <1>1
<1>4. h * n = (n - 1) * h + h /\ (n - 1) * (h + 1) = (n - 1) * h + (n - 1) /\ (n - 1) * h \in Nat
  <2>1. n - 1 \in Nat
    OBVIOUS
  <2> QED
    BY <1>1, <2>1
<1>5. L = (n - 1) * h + e /\ L + n = (n - 1) * (h + 1) + (e + 1)
  <2> DEFINE x == (n - 1) * h
             y == h * n
             z == (n - 1) * (h + 1)
  <2>1. y = x + h /\ z = x + (n - 1) /\ x \in Nat /\ L = y + r
    BY <1>1, <1>4
  <2> HIDE DEF x, y, z
  <2>2. L = x + e /\ L + n = z + (e + 1)
    BY <1>1, <2>1
  <2> QED
    BY <2>2 DEF x, z
<1> HIDE DEF e
<1>6. Lengths(L, n, h, e)
  BY <1>1, <1>2, <1>3, <1>5 DEF Lengths
<1> QED
  BY <1>1, <1>3, <1>6

(* The places of the pieces are those before the next ones.                 *)
PlaceFits(L, n, h, e, i) ==
  /\ (i - 1) * h \in Nat /\ (i - 1) * (h + 1) \in Nat
  /\ (i - 1) * h + PieceLength(h, e, n, i) = IF i = n THEN L ELSE i * h
  /\ (i - 1) * h + PieceLength(h, e, n, i) <= L
  /\ VersionAt(h, i) \in Nat \ {0}
  /\ VersionAt(h, i) + PieceLength(h, e, n, i) <= L + n
  /\ i = n => VersionAt(h, i) + PieceLength(h, e, n, i) = L + n

LEMMA PlacesAre ==
  ASSUME NEW L \in Nat, NEW n, NEW h \in Nat, NEW e \in Nat, Lengths(L, n, h, e), NEW i \in 1 .. n
  PROVE  PlaceFits(L, n, h, e, i)
<1>1. n \in Nat \ {0} /\ L = (n - 1) * h + e /\ L + n = (n - 1) * (h + 1) + (e + 1)
  BY DEF Lengths
<1>2. i - 1 \in Nat /\ i \in Nat
  BY <1>1
<1>3. (i - 1) * h \in Nat /\ (i - 1) * (h + 1) \in Nat
  <2>1. h + 1 \in Nat
    OBVIOUS
  <2> QED
    BY <1>2, <2>1
<1>4. CASE i = n
  <2> DEFINE x == (i - 1) * h
             y == (i - 1) * (h + 1)
  <2>1. L = x + e /\ L + n = y + (e + 1)
    BY <1>1, <1>4
  <2>2. PieceLength(h, e, n, i) = e /\ VersionAt(h, i) = y + 1
    BY <1>4 DEF PieceLength, VersionAt
  <2>3. x \in Nat /\ y \in Nat
    BY <1>3
  <2> HIDE DEF x, y
  <2>4. /\ x + e = L /\ x + e <= L /\ y + 1 \in Nat \ {0} /\ y + 1 + e = L + n /\ y + 1 + e <= L + n
    BY <1>1, <2>1, <2>3
  <2> QED
    BY <1>3, <1>4, <2>2, <2>4 DEF x, PlaceFits
<1>5. CASE i # n
  <2> DEFINE x == (i - 1) * h
             y == (i - 1) * (h + 1)
             u == (n - 1 - i) * h
             w == (n - 1 - i) * (h + 1)
             p == (n - 1) * h
             q == (n - 1) * (h + 1)
  <2>1. n - 1 - i \in Nat /\ h + 1 \in Nat
    BY <1>1, <1>5
  <2>2. u \in Nat /\ w \in Nat
    BY <2>1
  <2>3. p = x + h + u /\ q = y + (h + 1) + w /\ i * h = x + h
    BY <1>1, <1>2
  <2>4. PieceLength(h, e, n, i) = h /\ VersionAt(h, i) = y + 1
    BY <1>5 DEF PieceLength, VersionAt
  <2>5. L = p + e /\ L + n = q + (e + 1) /\ x \in Nat /\ y \in Nat
    BY <1>1, <1>3
  <2> HIDE DEF x, y, u, w, p, q
  <2>6. x + h <= L /\ y + 1 + h <= L + n /\ y + 1 \in Nat \ {0}
    BY <2>2, <2>3, <2>5
  <2> QED
    BY <1>3, <1>5, <2>3, <2>4, <2>6 DEF x, PlaceFits
<1> QED
  BY <1>4, <1>5

LEMMA PiecesAre ==
  ASSUME NEW S, NEW d \in Seq(S), NEW n, NEW h \in Nat, NEW e \in Nat, Lengths(Len(d), n, h, e)
  PROVE  \A i \in 1 .. n : Piece(d, i, n) = PartBehind(d, (i - 1) * h, PieceLength(h, e, n, i))
<1> TAKE i \in 1 .. n
<1> DEFINE x == (i - 1) * h
           m == PieceLength(h, e, n, i)
           L == Len(d)
<1>0. L \in Nat /\ Lengths(L, n, h, e)
  OBVIOUS
<1>1. h = L \div n
  <2> HIDE DEF L
  <2> QED
    BY ONLY <1>0 DEF Lengths
<1>2. x + m = IF i = n THEN L ELSE i * h
  <2>1. PlaceFits(L, n, h, e, i)
    <3> HIDE DEF L
    <3> QED
      BY ONLY <1>0, PlacesAre, h \in Nat, e \in Nat, i \in 1 .. n
  <2> QED
    BY ONLY <2>1 DEF PlaceFits
<1>3. Piece(d, i, n) = SubSeq(d, x + 1, IF i = n THEN Len(d) ELSE i * h)
  BY <1>1 DEF Piece
<1> HIDE DEF x, m
<1>4. Piece(d, i, n) = SubSeq(d, x + 1, x + m)
  BY <1>2, <1>3
<1> QED
  BY <1>4 DEF PartBehind, x, m

FoundIn(bytes, n, h, e) ==
  /\ VersionIn(bytes, n) = [i \in 1 .. n |-> bytes[VersionAt(h, i)]]
  /\ PiecesIn(bytes, n) =
       [i \in 1 .. n |-> PartBehind(bytes, VersionAt(h, i), PieceLength(h, e, n, i))]

LEMMA PiecesFound ==
  ASSUME NEW S, NEW bytes \in Seq(S), NEW L \in Nat, NEW n, NEW h \in Nat, NEW e \in Nat,
         Lengths(L, n, h, e), Len(bytes) = L + n
  PROVE  FoundIn(bytes, n, h, e)
<1>1. Len(bytes) - n = L /\ n \in Nat \ {0} /\ h = L \div n
  <2>1. n \in Nat \ {0} /\ h = L \div n
    BY Zenon DEF Lengths
  <2>2. Len(bytes) - n = L
    BY ONLY <2>1, Len(bytes) = L + n, L \in Nat
  <2> QED
    BY ONLY <2>1, <2>2, Zenon
<1>2. h = (Len(bytes) - n) \div n
  BY <1>1
<1>3. ASSUME NEW i \in 1 .. n
      PROVE  SubSeq(bytes, VersionAt(h, i) + 1, IF i = n THEN Len(bytes) ELSE VersionAt(h, i) + h) =
               PartBehind(bytes, VersionAt(h, i), PieceLength(h, e, n, i))
  <2> DEFINE a == VersionAt(h, i)
             m == PieceLength(h, e, n, i)
  <2>1. i = n => a + m = L + n
    <3>1. PlaceFits(L, n, h, e, i)
      BY ONLY PlacesAre, L \in Nat, h \in Nat, e \in Nat, Lengths(L, n, h, e), i \in 1 .. n
    <3> QED
      BY ONLY <3>1 DEF PlaceFits
  <2>2. i # n => m = h
    BY DEF PieceLength
  <2> HIDE DEF a, m
  <2>3. (IF i = n THEN Len(bytes) ELSE a + h) = a + m
    BY <2>1, <2>2
  <2>4. SubSeq(bytes, a + 1, IF i = n THEN Len(bytes) ELSE a + h) = SubSeq(bytes, a + 1, a + m)
    BY ONLY <2>3
  <2> QED
    BY <2>4 DEF PartBehind, a, m
<1>4. PiecesIn(bytes, n) = [i \in 1 .. n |-> SubSeq(bytes, VersionAt(h, i) + 1,
                               IF i = n THEN Len(bytes) ELSE VersionAt(h, i) + h)]
  BY ONLY <1>2 DEF PiecesIn
<1>5. VersionIn(bytes, n) = [i \in 1 .. n |-> bytes[VersionAt(h, i)]]
  BY ONLY <1>2 DEF VersionIn
<1> QED
  BY <1>3, <1>4, <1>5 DEF FoundIn

(* Data without and with the version between its pieces.                    *)
LEMMA DataOfPieces ==
  ASSUME NEW S, NEW d \in Seq(S), NEW n, NEW h \in Nat, NEW e \in Nat, Lengths(Len(d), n, h, e)
  PROVE  /\ Pieces(d, n) \in Seq(Seq(S)) /\ Len(Pieces(d, n)) = n
         /\ EvenPieces(Pieces(d, n), h, e) /\ FlattenSeq(Pieces(d, n)) = d
<1> DEFINE P == Pieces(d, n)
           L == Len(d)
<1>1. L \in Nat /\ Lengths(L, n, h, e) /\ d \in Seq(S)
  OBVIOUS
<1> HIDE DEF L
<1>2. n \in Nat \ {0} /\ L = (n - 1) * h + e
  BY <1>1 DEF Lengths
<1>3. ASSUME NEW i \in 1 .. n
      PROVE  /\ P[i] \in Seq(S) /\ Len(P[i]) = PieceLength(h, e, n, i)
             /\ Holds(d, (i - 1) * h, P[i])
  <2> DEFINE x == (i - 1) * h
             m == PieceLength(h, e, n, i)
  <2>1. PlaceFits(L, n, h, e, i)
    BY ONLY <1>1, <1>3, PlacesAre, h \in Nat, e \in Nat
  <2>2. x \in Nat /\ x + m <= L /\ m \in Nat
    <3>1. m \in Nat
      BY DEF PieceLength
    <3> QED
      BY ONLY <2>1, <3>1 DEF PlaceFits
  <2>3. P[i] = PartBehind(d, x, m)
    BY PiecesAre DEF Pieces
  <2> HIDE DEF x, m, P
  <2>4. PartBehind(d, x, m) \in Seq(S) /\ Len(PartBehind(d, x, m)) = m /\ Holds(d, x, PartBehind(d, x, m))
    <3>1. x + m <= Len(d)
      BY <2>2 DEF L
    <3> QED
      BY ONLY <1>1, <2>2, <3>1, PartBehindIs
  <2>5. P[i] \in Seq(S) /\ Len(P[i]) = m /\ Holds(d, x, P[i])
    BY ONLY <2>3, <2>4
  <2> QED
    BY <2>5 DEF x, m
<1>4. P \in Seq(Seq(S)) /\ Len(P) = n
  <2>1. P = [i \in 1 .. n |-> P[i]] /\ \A i \in 1 .. n : P[i] \in Seq(S)
    BY <1>3 DEF Pieces
  <2> HIDE DEF P
  <2>2. P \in [1 .. n -> Seq(S)]
    BY <2>1
  <2> QED
    BY <1>2, <2>2
<1> HIDE DEF P
<1>5. EvenPieces(P, h, e)
  BY <1>3, <1>4 DEF EvenPieces, PieceLength
<1>6. StandsIn(d, h, P)
  BY <1>3, <1>4 DEF StandsIn
<1>7. FlattenSeq(P) = d
  <2>1. Len(P) > 0 /\ Len(d) = (Len(P) - 1) * h + e
    <3>1. n > 0 /\ Len(d) = L
      BY <1>2 DEF L
    <3> QED
      BY ONLY <1>2, <1>4, <3>1
  <2> QED
    BY ONLY <1>1, <1>4, <1>5, <1>6, <2>1, PiecesMakeUp, h \in Nat, e \in Nat
<1> QED
  BY <1>4, <1>5, <1>7 DEF P

LEMMA PiecesOfData ==
  ASSUME NEW S, NEW P \in Seq(Seq(S)), NEW L \in Nat, NEW h \in Nat, NEW e \in Nat,
         Lengths(L, Len(P), h, e), EvenPieces(P, h, e)
  PROVE  /\ FlattenSeq(P) \in Seq(S) /\ Len(FlattenSeq(P)) = L
         /\ Pieces(FlattenSeq(P), Len(P)) = P
<1> DEFINE n == Len(P)
           d == FlattenSeq(P)
<1>1. n \in Nat \ {0} /\ L = (n - 1) * h + e /\ Lengths(L, n, h, e) /\ n > 0
  BY DEF Lengths
<1>2. d \in Seq(S) /\ Len(d) = (n - 1) * h + e /\ StandsIn(d, h, P)
  <2> HIDE DEF d
  <2>1. /\ FlattenSeq(P) \in Seq(S) /\ Len(FlattenSeq(P)) = (Len(P) - 1) * h + e
        /\ StandsIn(FlattenSeq(P), h, P)
    BY ONLY <1>1, PiecesStand, P \in Seq(Seq(S)), h \in Nat, e \in Nat, EvenPieces(P, h, e)
  <2> QED
    BY <2>1 DEF d
<1>3. Len(d) = L
  BY ONLY <1>1, <1>2
<1> HIDE DEF d, n
<1>4. ASSUME NEW i \in 1 .. n PROVE Piece(d, i, n) = P[i]
  <2> DEFINE x == (i - 1) * h
             m == PieceLength(h, e, n, i)
  <2>1. PlaceFits(L, n, h, e, i)
    BY ONLY <1>1, <1>4, PlacesAre, L \in Nat, h \in Nat, e \in Nat
  <2>2. x \in Nat /\ x + m <= L /\ m \in Nat
    <3>1. m \in Nat
      BY DEF PieceLength
    <3> QED
      BY ONLY <2>1, <3>1 DEF PlaceFits
  <2>3. P[i] \in Seq(S) /\ Len(P[i]) = m /\ Holds(d, x, P[i])
    <3>1. i \in 1 .. Len(P)
      BY DEF n
    <3>2. P[i] \in Seq(S) /\ Len(P[i]) = m
      BY <3>1, ElementOfSeq DEF EvenPieces, PieceLength, n
    <3> QED
      BY <1>2, <3>1, <3>2 DEF StandsIn
  <2>4. Piece(d, i, n) = PartBehind(d, x, m)
    <3>1. Lengths(Len(d), n, h, e)
      BY ONLY <1>1, <1>3
    <3> QED
      BY ONLY <1>2, <1>4, <3>1, PiecesAre, h \in Nat, e \in Nat
  <2> HIDE DEF x, m
  <2>5. x + m <= Len(d)
    BY <1>3, <2>2
  <2>6. PartBehind(d, x, m) = P[i]
    BY ONLY <1>2, <2>2, <2>3, <2>5, PartBehindIs
  <2> QED
    BY <2>4, <2>6
<1>5. Pieces(d, n) = P
  <2>1. P = [i \in 1 .. n |-> P[i]]
    BY DEF n
  <2> QED
    BY <1>4, <2>1 DEF Pieces
<1> QED
  BY <1>2, <1>3, <1>5 DEF d, n

(* What the pieces with the version between them make up.                   *)
LEMMA InterleavedIs ==
  ASSUME NEW S, NEW v \in Seq(S), NEW P \in Seq(Seq(S)), NEW n \in Nat \ {0}, Len(v) = n, Len(P) = n,
         NEW h \in Nat, NEW e \in Nat, EvenPieces(P, h, e)
  PROVE  /\ Interleaved(v, P) \in Seq(Seq(S)) /\ Len(Interleaved(v, P)) = n
         /\ EvenPieces(Interleaved(v, P), h + 1, e + 1)
         /\ \A t \in Seq(S), i \in 1 .. n :
              Holds(t, (i - 1) * (h + 1), Interleaved(v, P)[i]) <=>
                /\ VersionAt(h, i) <= Len(t) /\ t[VersionAt(h, i)] = v[i]
                /\ Holds(t, VersionAt(h, i), P[i])
<1> DEFINE M == Interleaved(v, P)
<1>1. ASSUME NEW i \in 1 .. n
      PROVE  /\ v[i] \in S /\ <<v[i]>> \in Seq(S) /\ P[i] \in Seq(S)
             /\ M[i] = <<v[i]>> \o P[i] /\ M[i] \in Seq(S) /\ Len(M[i]) = 1 + Len(P[i])
             /\ Len(P[i]) = IF i = n THEN e ELSE h
  <2>1. v[i] \in S /\ P[i] \in Seq(S)
    BY ElementOfSeq
  <2>2. <<v[i]>> \in Seq(S) /\ Len(<<v[i]>>) = 1
    BY <2>1
  <2>3. M[i] = <<v[i]>> \o P[i]
    BY DEF Interleaved
  <2> DEFINE u == <<v[i]>>
             p == P[i]
  <2>4. u \in Seq(S) /\ Len(u) = 1 /\ M[i] = u \o P[i] /\ p \in Seq(S) /\ p = P[i]
    BY <2>1, <2>2, <2>3
  <2> HIDE DEF u, p, M
  <2>5. u \o p \in Seq(S) /\ Len(u \o p) = Len(u) + Len(p)
    BY ONLY <2>4, ConcatFacts, ZenonT(40)
  <2>6. M[i] \in Seq(S) /\ Len(M[i]) = 1 + Len(P[i])
    BY ONLY <2>4, <2>5
  <2>7. Len(P[i]) = IF i = n THEN e ELSE h
    BY DEF EvenPieces
  <2> QED
    BY <2>1, <2>2, <2>3, <2>6, <2>7
<1>2. M = [i \in 1 .. n |-> <<v[i]>> \o P[i]]
  BY DEF Interleaved
<1>3. M \in Seq(Seq(S)) /\ Len(M) = n
  <2>1. M = [i \in 1 .. n |-> M[i]]
    BY <1>2
  <2> HIDE DEF M
  <2>2. M \in [1 .. n -> Seq(S)]
    BY <1>1, <2>1
  <2> QED
    BY <2>2
<1> HIDE DEF M
<1>4. EvenPieces(M, h + 1, e + 1)
  <2>1. ASSUME NEW i \in 1 .. n PROVE Len(M[i]) = IF i = n THEN e + 1 ELSE h + 1
    <3>1. Len(M[i]) = 1 + Len(P[i]) /\ Len(P[i]) = IF i = n THEN e ELSE h
      BY <1>1
    <3>2. 1 + e = e + 1 /\ 1 + h = h + 1
      OBVIOUS
    <3> QED
      BY ONLY <3>1, <3>2
  <2> QED
    BY <1>3, <2>1 DEF EvenPieces
<1>5. ASSUME NEW t \in Seq(S), NEW i \in 1 .. n
      PROVE  Holds(t, (i - 1) * (h + 1), M[i]) <=>
                /\ VersionAt(h, i) <= Len(t) /\ t[VersionAt(h, i)] = v[i]
                /\ Holds(t, VersionAt(h, i), P[i])
  <2> DEFINE y == (i - 1) * (h + 1)
             u == <<v[i]>>
             p == P[i]
  <2>1. y \in Nat
    <3> DEFINE a == i - 1
               b == h + 1
    <3>1. a \in Nat /\ b \in Nat
      OBVIOUS
    <3> HIDE DEF a, b
    <3>2. a * b \in Nat
      BY ONLY <3>1
    <3> QED
      BY <3>2 DEF a, b
  <2>2. VersionAt(h, i) = y + 1
    BY DEF VersionAt
  <2>3. u \in Seq(S) /\ Len(u) = 1 /\ u[1] = v[i] /\ p \in Seq(S) /\ M[i] = u \o p
    BY <1>1
  <2> HIDE DEF y, u, p
  <2>4. Holds(t, y, u \o p) <=> Holds(t, y, u) /\ Holds(t, y + Len(u), p)
    BY ONLY <2>1, <2>3, HoldsConcat, t \in Seq(S)
  <2>5. Holds(t, y, u) <=> y + 1 <= Len(t) /\ t[y + 1] = v[i]
    BY <2>1, <2>3 DEF Holds
  <2>6. Holds(t, y, M[i]) <=> /\ VersionAt(h, i) <= Len(t) /\ t[VersionAt(h, i)] = v[i]
                              /\ Holds(t, VersionAt(h, i), p)
    BY ONLY <2>2, <2>3, <2>4, <2>5
  <2> QED
    BY <2>6 DEF y, p
<1> QED
  BY <1>3, <1>4, <1>5 DEF M

(* The bytes of a version and data, and the data in them.                   *)
Woven(v, d) == FlattenSeq(Interleaved(v, Pieces(d, Len(v))))
DataIn(bytes, n) == FlattenSeq(PiecesIn(bytes, n))

LEMMA WovenIsRead ==
  ASSUME NEW S, NEW v \in Seq(S), v # <<>>, NEW d \in Seq(S)
  PROVE  /\ Woven(v, d) \in Seq(S) /\ Len(Woven(v, d)) = Len(v) + Len(d)
         /\ VersionIn(Woven(v, d), Len(v)) = v /\ DataIn(Woven(v, d), Len(v)) = d
<1> DEFINE n == Len(v)
           L == Len(d)
           P == Pieces(d, n)
           M == Interleaved(v, P)
           E == FlattenSeq(M)
<1>1. n \in Nat \ {0} /\ L \in Nat /\ n > 0
  <2>1. Len(v) # 0
    BY EmptySeq
  <2> QED
    BY <2>1
<1>2. E = Woven(v, d)
  BY DEF Woven
<1> HIDE DEF n, L
<1>3. PICK h \in Nat, e \in Nat : Lengths(L, n, h, e)
  BY <1>1, LengthsExist
<1>4. P \in Seq(Seq(S)) /\ Len(P) = n /\ EvenPieces(P, h, e) /\ FlattenSeq(P) = d
  <2>1. Lengths(Len(d), n, h, e)
    BY <1>3 DEF L
  <2> QED
    BY ONLY <2>1, DataOfPieces, d \in Seq(S), h \in Nat, e \in Nat
<1> HIDE DEF P
<1> DEFINE c == h + 1
           f == e + 1
<1>5. /\ M \in Seq(Seq(S)) /\ Len(M) = n /\ EvenPieces(M, c, f)
      /\ \A t \in Seq(S), i \in 1 .. n :
              Holds(t, (i - 1) * c, M[i]) <=>
                /\ VersionAt(h, i) <= Len(t) /\ t[VersionAt(h, i)] = v[i]
                /\ Holds(t, VersionAt(h, i), P[i])
  <2>1. Len(v) = n
    BY DEF n
  <2> QED
    BY ONLY <1>1, <1>4, <2>1, InterleavedIs, v \in Seq(S), h \in Nat, e \in Nat
<1>6. L + n = (n - 1) * c + f /\ c \in Nat /\ f \in Nat
  <2>1. L + n = (n - 1) * (h + 1) + (e + 1)
    BY ONLY <1>3, Zenon DEF Lengths
  <2>2. c \in Nat /\ f \in Nat
    BY ONLY h \in Nat, e \in Nat
  <2> QED
    BY ONLY <2>1, <2>2, Zenon
<1> HIDE DEF c, f, M
<1>7. E \in Seq(S) /\ Len(E) = (n - 1) * c + f /\ StandsIn(E, c, M)
  <2>1. /\ FlattenSeq(M) \in Seq(S) /\ Len(FlattenSeq(M)) = (Len(M) - 1) * c + f
        /\ StandsIn(FlattenSeq(M), c, M)
    <3>1. Len(M) > 0
      BY <1>1, <1>5
    <3> QED
      BY ONLY <1>5, <1>6, <3>1, PiecesStand
  <2> QED
    BY <1>5, <2>1
<1> HIDE DEF E
<1>8. Len(E) = L + n
  BY ONLY <1>6, <1>7
<1>9. ASSUME NEW i \in 1 .. n
      PROVE  /\ E[VersionAt(h, i)] = v[i]
             /\ PartBehind(E, VersionAt(h, i), PieceLength(h, e, n, i)) = P[i]
  <2> DEFINE a == VersionAt(h, i)
             m == PieceLength(h, e, n, i)
  <2>1. E[a] = v[i] /\ Holds(E, a, P[i])
    <3>1. Holds(E, (i - 1) * c, M[i])
      BY <1>5, <1>7 DEF StandsIn
    <3> QED
      BY ONLY <1>5, <1>7, <3>1, i \in 1 .. n
  <2>2. PlaceFits(L, n, h, e, i)
    BY ONLY <1>1, <1>3, PlacesAre, i \in 1 .. n
  <2>3. a \in Nat /\ m \in Nat /\ a + m <= L + n
    <3>1. m \in Nat
      BY DEF PieceLength
    <3> QED
      BY ONLY <2>2, <3>1 DEF PlaceFits
  <2>4. P[i] \in Seq(S) /\ Len(P[i]) = m
    <3>1. i \in 1 .. Len(P)
      BY <1>4
    <3>2. P[i] \in Seq(S)
      BY <1>4, <3>1, ElementOfSeq
    <3>3. Len(P[i]) = m
      BY ONLY <1>4, <3>1 DEF EvenPieces, PieceLength, m
    <3> QED
      BY <3>2, <3>3
  <2> HIDE DEF a, m
  <2>5. PartBehind(E, a, m) = P[i]
    <3> DEFINE p == P[i]
    <3>1. p \in Seq(S) /\ Len(p) = m /\ Holds(E, a, p) /\ a + m <= Len(E)
      BY <1>8, <2>1, <2>3, <2>4
    <3> HIDE DEF p
    <3>2. PartBehind(E, a, m) = p
      BY ONLY <1>7, <2>3, <3>1, PartBehindIs
    <3> QED
      BY <3>2 DEF p
  <2> QED
    BY <2>1, <2>5 DEF a, m
<1>10. /\ VersionIn(E, n) = [i \in 1 .. n |-> E[VersionAt(h, i)]]
       /\ PiecesIn(E, n) = [i \in 1 .. n |-> PartBehind(E, VersionAt(h, i), PieceLength(h, e, n, i))]
  <2>1. FoundIn(E, n, h, e)
    BY ONLY <1>1, <1>3, <1>7, <1>8, PiecesFound
  <2> QED
    BY ONLY <2>1 DEF FoundIn
<1>11. VersionIn(E, n) = v
  <2>1. v = [i \in 1 .. n |-> v[i]]
    BY DEF n
  <2> QED
    BY <1>9, <1>10, <2>1
<1>12. PiecesIn(E, n) = P
  <2>1. P = [i \in 1 .. n |-> P[i]]
    BY <1>4
  <2> QED
    BY <1>9, <1>10, <2>1
<1>13. Len(E) = Len(v) + Len(d)
  BY <1>1, <1>8 DEF n, L
<1> QED
  BY <1>2, <1>4, <1>7, <1>11, <1>12, <1>13 DEF DataIn, n

LEMMA ReadIsWoven ==
  ASSUME NEW S, NEW bytes \in Seq(S), NEW n \in Nat \ {0}, n <= Len(bytes)
  PROVE  /\ VersionIn(bytes, n) \in Seq(S) /\ Len(VersionIn(bytes, n)) = n
         /\ DataIn(bytes, n) \in Seq(S) /\ Len(DataIn(bytes, n)) = Len(bytes) - n
         /\ Woven(VersionIn(bytes, n), DataIn(bytes, n)) = bytes
<1> DEFINE L == Len(bytes) - n
           v == VersionIn(bytes, n)
           P == PiecesIn(bytes, n)
           d == FlattenSeq(P)
<1>1. L \in Nat /\ Len(bytes) = L + n /\ n > 0
  OBVIOUS
<1> HIDE DEF L
<1>2. PICK h \in Nat, e \in Nat : Lengths(L, n, h, e)
  BY <1>1, LengthsExist
<1>3. /\ v = [i \in 1 .. n |-> bytes[VersionAt(h, i)]]
      /\ P = [i \in 1 .. n |-> PartBehind(bytes, VersionAt(h, i), PieceLength(h, e, n, i))]
  <2>1. FoundIn(bytes, n, h, e)
    BY ONLY <1>1, <1>2, PiecesFound, bytes \in Seq(S)
  <2> QED
    BY ONLY <2>1 DEF FoundIn, v, P
<1> HIDE DEF v, P
<1>4. ASSUME NEW i \in 1 .. n
      PROVE  /\ VersionAt(h, i) <= Len(bytes) /\ v[i] = bytes[VersionAt(h, i)] /\ v[i] \in S
             /\ P[i] \in Seq(S) /\ Len(P[i]) = PieceLength(h, e, n, i)
             /\ Holds(bytes, VersionAt(h, i), P[i])
  <2> DEFINE a == VersionAt(h, i)
             m == PieceLength(h, e, n, i)
  <2>1. PlaceFits(L, n, h, e, i)
    BY ONLY <1>2, <1>1, PlacesAre, i \in 1 .. n
  <2>2. a \in Nat \ {0} /\ m \in Nat /\ a + m <= L + n
    <3>1. m \in Nat
      BY DEF PieceLength
    <3> QED
      BY ONLY <2>1, <3>1 DEF PlaceFits
  <2>3. v[i] = bytes[a] /\ P[i] = PartBehind(bytes, a, m)
    BY <1>3
  <2> HIDE DEF a, m
  <2>4. a \in 1 .. Len(bytes) /\ a + m <= Len(bytes) /\ a \in Nat
    BY <1>1, <2>2
  <2>5. bytes[a] \in S
    BY <2>4, ElementOfSeq
  <2>6. /\ PartBehind(bytes, a, m) \in Seq(S) /\ Len(PartBehind(bytes, a, m)) = m
        /\ Holds(bytes, a, PartBehind(bytes, a, m))
    BY ONLY <2>2, <2>4, PartBehindIs, bytes \in Seq(S)
  <2>7. a <= Len(bytes)
    BY <2>4
  <2> QED
    BY ONLY <2>3, <2>5, <2>6, <2>7 DEF a, m
<1>5. v \in Seq(S) /\ Len(v) = n
  <2>1. v = [i \in 1 .. n |-> v[i]]
    BY <1>3
  <2>2. v \in [1 .. n -> S]
    BY <1>4, <2>1
  <2> QED
    BY <2>2
<1>6. P \in Seq(Seq(S)) /\ Len(P) = n
  <2>1. P = [i \in 1 .. n |-> P[i]]
    BY <1>3
  <2>2. P \in [1 .. n -> Seq(S)]
    BY <1>4, <2>1
  <2> QED
    BY <2>2
<1>7. EvenPieces(P, h, e)
  BY <1>4, <1>6 DEF EvenPieces, PieceLength
<1>8. d \in Seq(S) /\ Len(d) = L /\ Pieces(d, n) = P
  <2>1. Lengths(L, Len(P), h, e)
    BY ONLY <1>2, <1>6
  <2>2. /\ FlattenSeq(P) \in Seq(S) /\ Len(FlattenSeq(P)) = L
        /\ Pieces(FlattenSeq(P), Len(P)) = P
    BY ONLY <1>1, <1>6, <1>7, <2>1, PiecesOfData, h \in Nat, e \in Nat
  <2> QED
    BY <1>6, <2>2
<1> HIDE DEF d
<1> DEFINE M == Interleaved(v, P)
           c == h + 1
           f == e + 1
<1>9. /\ M \in Seq(Seq(S)) /\ Len(M) = n /\ EvenPieces(M, c, f)
      /\ \A t \in Seq(S), i \in 1 .. n :
              Holds(t, (i - 1) * c, M[i]) <=>
                /\ VersionAt(h, i) <= Len(t) /\ t[VersionAt(h, i)] = v[i]
                /\ Holds(t, VersionAt(h, i), P[i])
  BY ONLY <1>5, <1>6, <1>7, InterleavedIs, n \in Nat \ {0}, h \in Nat, e \in Nat, ZenonT(40)
<1>10. L + n = (n - 1) * c + f /\ c \in Nat /\ f \in Nat
  <2>1. L + n = (n - 1) * (h + 1) + (e + 1)
    BY ONLY <1>2, Zenon DEF Lengths
  <2>2. c \in Nat /\ f \in Nat
    BY ONLY h \in Nat, e \in Nat
  <2> QED
    BY ONLY <2>1, <2>2, Zenon
<1> HIDE DEF c, f, M
<1>11. StandsIn(bytes, c, M)
  <2>1. ASSUME NEW i \in 1 .. n PROVE Holds(bytes, (i - 1) * c, M[i])
    BY ONLY <1>4, <1>9, bytes \in Seq(S), i \in 1 .. n
  <2> QED
    BY <1>9, <2>1 DEF StandsIn
<1>12. FlattenSeq(M) = bytes
  <2>1. Len(M) > 0 /\ Len(bytes) = (Len(M) - 1) * c + f
    BY ONLY <1>1, <1>9, <1>10
  <2> QED
    BY ONLY <1>9, <1>10, <1>11, <2>1, PiecesMakeUp, bytes \in Seq(S)
<1>13. Woven(v, d) = bytes
  <2>1. Woven(v, d) = FlattenSeq(Interleaved(v, Pieces(d, n)))
    BY <1>5 DEF Woven
  <2> QED
    BY <1>8, <1>12, <2>1 DEF M
<1> QED
  BY <1>5, <1>8, <1>13 DEF DataIn, v, d, L, P

(* The digits of a text, and the spaces around them.                        *)
Digit == 0 .. Digits - 1
Character == {Space} \cup Digit

LEMMA BareText ==
  ASSUME NEW t \in Seq(Character)
  PROVE  /\ WithoutSpaces(t) \in Seq(Character)
         /\ t \in Seq(Digit) => WithoutSpaces(t) = t
<1> DEFINE solid == {i \in DOMAIN t : t[i] # Space}
           n == Len(t)
<1>1. n \in Nat /\ DOMAIN t = 1 .. n
  OBVIOUS
<1>2. solid \in SUBSET Nat /\ solid \subseteq 1 .. n /\ \A x \in solid : x <= n
  BY <1>1
<1>3. WithoutSpaces(t) = IF solid = {} THEN <<>> ELSE SubSeq(t, Min(solid), Max(solid))
  BY DEF WithoutSpaces
<1>4. t \in Seq(Digit) => solid = 1 .. n
  <2> SUFFICES ASSUME t \in Seq(Digit) PROVE \A i \in 1 .. n : t[i] # Space
    BY <1>1
  <2>1. \A i \in 1 .. n : t[i] \in Digit
    BY ElementOfSeq
  <2> QED
    BY <2>1, AddressTextAssumption DEF Digit, Space
<1> HIDE DEF solid
<1>5. CASE solid = {}
  <2>1. WithoutSpaces(t) = <<>> /\ <<>> \in Seq(Character)
    BY <1>3, <1>5
  <2>2. ASSUME t \in Seq(Digit) PROVE t = <<>>
    <3>1. n = 0
      <4>1. 1 .. n = {}
        BY <1>4, <1>5, <2>2
      <4>2. n > 0 => 1 \in 1 .. n
        BY <1>1
      <4> HIDE DEF n
      <4> QED
        BY ONLY <1>1, <4>1, <4>2
    <3> QED
      BY <3>1, EmptySeq
  <2> QED
    BY <2>1, <2>2
<1>6. CASE solid # {}
  <2> DEFINE a == Min(solid)
             b == Max(solid)
  <2>1. /\ a \in solid /\ \A x \in solid : a <= x
        /\ b \in solid /\ \A x \in solid : b >= x
    BY <1>1, <1>2, <1>6, LeastOf, GreatestOf
  <2>2. WithoutSpaces(t) = SubSeq(t, a, b)
    BY <1>3, <1>6
  <2> HIDE DEF a, b
  <2>3. a \in Nat \ {0} /\ b \in Nat /\ b <= n /\ a \in 1 .. n /\ b \in 1 .. n
    BY <1>1, <1>2, <2>1
  <2>4. /\ SubSeq(t, a, b) \in Seq(Character)
        /\ Len(SubSeq(t, a, b)) = IF a <= b THEN b - a + 1 ELSE 0
        /\ \A i \in 1 .. b - a + 1 : SubSeq(t, a, b)[i] = t[a + i - 1]
    <3>1. b <= Len(t)
      BY <2>3
    <3> QED
      BY ONLY <2>3, <3>1, SubSeqIs, t \in Seq(Character)
  <2>5. ASSUME t \in Seq(Digit) PROVE SubSeq(t, a, b) = t
    <3>1. 1 \in solid /\ n \in solid
      BY <1>1, <1>4, <1>6, <2>5
    <3>2. a = 1 /\ b = n
      <4>1. a <= 1 /\ b >= n
        BY ONLY <2>1, <3>1
      <4> HIDE DEF n
      <4> QED
        BY ONLY <1>1, <2>3, <4>1
    <3> DEFINE u == SubSeq(t, a, b)
    <3>3. /\ u \in Seq(Character) /\ Len(u) = IF a <= b THEN b - a + 1 ELSE 0
          /\ \A i \in 1 .. b - a + 1 : u[i] = t[a + i - 1]
      BY <2>4
    <3> HIDE DEF u
    <3>4. Len(u) = n
      BY <1>1, <2>3, <3>2, <3>3
    <3>5. \A i \in 1 .. Len(u) : u[i] = t[i]
      <4> TAKE i \in 1 .. Len(u)
      <4>1. i \in 1 .. b - a + 1 /\ a + i - 1 = i
        BY <1>1, <3>2, <3>4
      <4> QED
        BY <3>3, <4>1
    <3>6. u = t
      <4>1. Len(u) = Len(t) /\ \A i \in 1 .. Len(t) : u[i] = t[i]
        BY <3>4, <3>5
      <4> QED
        BY ONLY <3>3, <4>1, SeqEqual, t \in Seq(Character)
    <3> QED
      BY <3>6 DEF u
  <2> QED
    BY <2>2, <2>4, <2>5
<1> QED
  BY <1>5, <1>6

LEMMA DigitsAreText == Seq(Digit) \subseteq Seq(Character)
<1>1. Digit \subseteq Character
  BY DEF Character
<1> QED
  BY ONLY <1>1

(* Bytes as text and back.                                                  *)
LEMMA BytesAsText ==
  ASSUME NEW bytes \in Seq(Octet)
  PROVE  /\ EncodeBase58(bytes) \in Seq(Digit)
         /\ DecodeBase58(EncodeBase58(bytes)).ok /\ DecodeBase58(EncodeBase58(bytes)).bytes = bytes
<1> DEFINE t == EncodeBase58(bytes)
<1>1. t = Convert(bytes, Radix, Digits)
  BY DEF EncodeBase58, Convert, ZerosOf
<1>2. t \in Seq(Digit) /\ Convert(t, Digits, Radix) = bytes
  <2>1. /\ Convert(bytes, Radix, Digits) \in Seq(0 .. Digits - 1)
        /\ Convert(Convert(bytes, Radix, Digits), Digits, Radix) = bytes
    <3>1. Radix \in Nat /\ 1 < Radix /\ Digits \in Nat /\ 1 < Digits /\ bytes \in Seq(0 .. Radix - 1)
      BY AddressTextAssumption DEF Octet
    <3> QED
      BY ONLY <3>1, ConvertBack
  <2> QED
    BY <1>1, <2>1 DEF Digit
<1> HIDE DEF t
<1>3. WithoutSpaces(t) = t
  BY <1>2, BareText, DigitsAreText
<1>4. Space \notin {t[i] : i \in DOMAIN t}
  <2>1. \A i \in 1 .. Len(t) : t[i] \in Digit
    BY <1>2, ElementOfSeq
  <2>2. \A i \in DOMAIN t : t[i] # Space
    BY <1>2, <2>1, AddressTextAssumption DEF Digit, Space
  <2> QED
    BY <2>2
<1>5. DecodeBase58(t).ok /\ DecodeBase58(t).bytes = Convert(t, Digits, Radix)
  BY <1>3, <1>4 DEF DecodeBase58, Convert, ZerosOf
<1> QED
  BY <1>2, <1>5 DEF t

LEMMA TextAsBytes ==
  ASSUME NEW t \in Seq(Character), DecodeBase58(t).ok
  PROVE  /\ DecodeBase58(t).bytes \in Seq(Octet)
         /\ EncodeBase58(DecodeBase58(t).bytes) = WithoutSpaces(t)
<1> DEFINE w == WithoutSpaces(t)
           bytes == DecodeBase58(t).bytes
<1>1. Space \notin {w[i] : i \in DOMAIN w} /\ bytes = Convert(w, Digits, Radix)
  BY DEF DecodeBase58, Convert, ZerosOf
<1>2. w \in Seq(Character)
  BY BareText
<1> HIDE DEF w, bytes
<1>3. w \in Seq(Digit)
  <2>1. Len(w) \in Nat /\ DOMAIN w = 1 .. Len(w) /\ \A i \in 1 .. Len(w) : w[i] \in Character
    BY <1>2, ElementOfSeq
  <2>2. \A i \in 1 .. Len(w) : w[i] \in Digit
    BY <1>1, <2>1 DEF Character
  <2>3. w = [i \in 1 .. Len(w) |-> w[i]]
    BY <1>2
  <2>4. w \in [1 .. Len(w) -> Digit]
    BY <2>2, <2>3
  <2> QED
    BY <2>1, <2>4
<1>4. bytes \in Seq(Octet) /\ Convert(bytes, Radix, Digits) = w
  <2>1. /\ Convert(w, Digits, Radix) \in Seq(0 .. Radix - 1)
        /\ Convert(Convert(w, Digits, Radix), Radix, Digits) = w
    <3>1. Radix \in Nat /\ 1 < Radix /\ Digits \in Nat /\ 1 < Digits /\ w \in Seq(0 .. Digits - 1)
      BY <1>3, AddressTextAssumption DEF Digit
    <3> QED
      BY ONLY <3>1, ConvertBack
  <2> QED
    BY <1>1, <2>1 DEF Octet
<1>5. EncodeBase58(bytes) = w
  BY <1>4 DEF EncodeBase58, Convert, ZerosOf
<1> QED
  BY <1>4, <1>5 DEF w, bytes

(* The checksum behind the bytes.                                           *)
HashIsOctet == \A bytes \in Seq(Octet) : Hash(bytes) \in Octet

CheckedIs(t, bytes, check, c) ==
  /\ DecodeBase58Check(t, c).ok <=> c = check
  /\ DecodeBase58Check(t, c).bytes = IF c = check THEN bytes ELSE <<>>

LEMMA CheckedText ==
  ASSUME HashIsOctet, NEW bytes \in Seq(Octet), NEW check \in Octet
  PROVE  /\ EncodeBase58Check(bytes, check) \in Seq(Digit)
         /\ \A c \in Octet : CheckedIs(EncodeBase58Check(bytes, check), bytes, check, c)
<1> DEFINE x == BitXor(Hash(bytes), check)
           b == Append(bytes, x)
           t == EncodeBase58Check(bytes, check)
<1>1. Hash(bytes) \in Octet /\ x \in Octet
  BY ChecksumAssumption DEF HashIsOctet
<1>2. \A c \in Octet : BitXor(Hash(bytes), c) = x <=> c = check
  BY <1>1, ChecksumAssumption
<1>3. t = EncodeBase58(b)
  BY DEF EncodeBase58Check
<1> HIDE DEF x
<1>4. b \in Seq(Octet) /\ b # <<>> /\ Len(b) = Len(bytes) + 1 /\ b[Len(b)] = x
      /\ \A i \in 1 .. Len(bytes) : b[i] = bytes[i]
  <2>1. /\ b \in Seq(Octet) /\ Len(b) = Len(bytes) + 1 /\ b[Len(bytes) + 1] = x
        /\ \A i \in 1 .. Len(bytes) : b[i] = bytes[i]
    BY <1>1, AppendProperties
  <2>2. Len(bytes) \in Nat
    OBVIOUS
  <2> HIDE DEF b
  <2>3. Len(b) # 0
    BY <2>1, <2>2
  <2>4. b # <<>>
    BY <2>3, EmptySeq
  <2> QED
    BY <2>1, <2>4
<1> HIDE DEF b
<1>5. Front(b) = bytes /\ Last(b) = x
  <2>1. /\ Front(b) \in Seq(Octet) /\ Len(b) \in Nat /\ Len(Front(b)) = Len(b) - 1
        /\ Last(b) = b[Len(b)] /\ \A i \in 1 .. Len(b) - 1 : Front(b)[i] = b[i]
    BY ONLY <1>4, FrontAndLast
  <2> DEFINE f == Front(b)
             n == Len(bytes)
  <2>2. n \in Nat /\ Len(b) = n + 1
    BY <1>4
  <2>3. f \in Seq(Octet) /\ Len(f) = Len(b) - 1 /\ \A i \in 1 .. Len(b) - 1 : f[i] = b[i]
    BY <2>1
  <2> HIDE DEF f
  <2>4. Len(b) - 1 = n
    <3> HIDE DEF n
    <3> QED
      BY ONLY <2>2
  <2>5. Len(f) = Len(bytes) /\ \A i \in 1 .. Len(bytes) : f[i] = bytes[i]
    BY <1>4, <2>3, <2>4
  <2>6. f = bytes
    BY ONLY <2>3, <2>5, SeqEqual, bytes \in Seq(Octet)
  <2> QED
    BY <1>4, <2>1, <2>6 DEF f
<1>6. t \in Seq(Digit) /\ DecodeBase58(t).ok /\ DecodeBase58(t).bytes = b
  BY <1>3, <1>4, BytesAsText
<1> HIDE DEF t
<1>7. ASSUME NEW c \in Octet PROVE CheckedIs(t, bytes, check, c)
  <2>1. BitXor(Hash(bytes), c) = x <=> c = check
    BY <1>2
  <2>2. /\ DecodeBase58Check(t, c).ok <=> BitXor(Hash(bytes), c) = x
        /\ DecodeBase58Check(t, c).bytes = IF BitXor(Hash(bytes), c) = x THEN bytes ELSE <<>>
    BY <1>4, <1>5, <1>6 DEF DecodeBase58Check
  <2> QED
    BY ONLY <2>1, <2>2 DEF CheckedIs
<1> QED
  BY <1>6, <1>7 DEF t

LEMMA TextChecked ==
  ASSUME NEW t \in Seq(Character), NEW c \in Octet, DecodeBase58Check(t, c).ok
  PROVE  /\ DecodeBase58Check(t, c).bytes \in Seq(Octet)
         /\ EncodeBase58Check(DecodeBase58Check(t, c).bytes, c) = WithoutSpaces(t)
<1> DEFINE b == DecodeBase58(t).bytes
           bytes == DecodeBase58Check(t, c).bytes
<1>1. /\ DecodeBase58(t).ok /\ b # <<>>
      /\ BitXor(Hash(Front(b)), c) = Last(b) /\ bytes = Front(b)
  BY DEF DecodeBase58Check
<1>2. b \in Seq(Octet) /\ EncodeBase58(b) = WithoutSpaces(t)
  BY <1>1, TextAsBytes
<1> HIDE DEF b, bytes
<1>3. Front(b) \in Seq(Octet) /\ b = Append(Front(b), Last(b))
  BY ONLY <1>1, <1>2, FrontAndLast
<1>4. EncodeBase58Check(bytes, c) = WithoutSpaces(t)
  BY ONLY <1>1, <1>2, <1>3 DEF EncodeBase58Check
<1> QED
  BY <1>1, <1>3, <1>4 DEF bytes

(* Version and data as text.                                                *)
LEMMA StringsAre ==
  ASSUME NEW S, NEW v \in Seq(S), NEW data, NEW check, NEW string, NEW n
  PROVE  /\ Base58String(v, data, check) = EncodeBase58Check(Woven(v, data), check)
         /\ check # 0 => SetString(string, n, check) =
              LET d == DecodeBase58Check(string, check)
              IN  IF d.ok /\ Len(d.bytes) >= n
                  THEN [version |-> VersionIn(d.bytes, n), data |-> DataIn(d.bytes, n)]
                  ELSE [version |-> <<>>, data |-> <<>>]
<1>1. Interleaved(v, Pieces(data, Len(v))) = [i \in 1 .. Len(v) |-> <<v[i]>> \o Piece(data, i, Len(v))]
  BY DEF Interleaved, Pieces
<1>2. Base58String(v, data, check) = EncodeBase58Check(Woven(v, data), check)
  BY <1>1 DEF Base58String, Woven
<1>3. check # 0 => SetString(string, n, check) =
              LET d == DecodeBase58Check(string, check)
              IN  IF d.ok /\ Len(d.bytes) >= n
                  THEN [version |-> VersionIn(d.bytes, n), data |-> DataIn(d.bytes, n)]
                  ELSE [version |-> <<>>, data |-> <<>>]
  BY DEF SetString, VersionIn, DataIn, PiecesIn, VersionAt
<1> QED
  BY <1>2, <1>3

Unread == [version |-> <<>>, data |-> <<>>]

LEMMA WrittenIsText ==
  ASSUME HashIsOctet, NEW v \in Seq(Octet), v # <<>>, NEW data \in Seq(Octet), NEW check \in Octet
  PROVE  /\ Base58String(v, data, check) \in Seq(Digit)
         /\ \A n \in Nat \ {0}, c \in Octet \ {0} : c # check =>
              SetString(Base58String(v, data, check), n, c) = Unread
<1> DEFINE w == Woven(v, data)
           t == Base58String(v, data, check)
<1>1. w \in Seq(Octet)
  BY WovenIsRead
<1>2. t = EncodeBase58Check(w, check)
  BY StringsAre
<1> HIDE DEF w, t
<1>3. t \in Seq(Digit) /\ \A c \in Octet : CheckedIs(t, w, check, c)
  BY <1>1, <1>2, CheckedText
<1>4. ASSUME NEW n \in Nat \ {0}, NEW c \in Octet \ {0}, c # check PROVE SetString(t, n, c) = Unread
  <2>1. ~DecodeBase58Check(t, c).ok
    BY <1>3, <1>4 DEF CheckedIs
  <2>2. SetString(t, n, c) =
              LET d == DecodeBase58Check(t, c)
              IN  IF d.ok /\ Len(d.bytes) >= n
                  THEN [version |-> VersionIn(d.bytes, n), data |-> DataIn(d.bytes, n)]
                  ELSE [version |-> <<>>, data |-> <<>>]
    BY StringsAre
  <2> QED
    BY ONLY <2>1, <2>2 DEF Unread
<1> QED
  BY <1>3, <1>4 DEF t

LEMMA WrittenIsRead ==
  ASSUME HashIsOctet, NEW v \in Seq(Octet), v # <<>>, NEW data \in Seq(Octet), NEW check \in Octet \ {0}
  PROVE  /\ SetString(Base58String(v, data, check), Len(v), check) = [version |-> v, data |-> data]
         /\ \A n \in Nat \ {0} :
              \/ SetString(Base58String(v, data, check), n, check) = Unread
              \/ Len(SetString(Base58String(v, data, check), n, check).data) + n = Len(v) + Len(data)
<1> DEFINE w == Woven(v, data)
           t == Base58String(v, data, check)
           m == Len(v)
           k == Len(data)
<1>1. w \in Seq(Octet) /\ Len(w) = m + k /\ VersionIn(w, m) = v /\ DataIn(w, m) = data
  BY WovenIsRead
<1>2. m \in Nat \ {0} /\ k \in Nat
  <2>1. Len(v) # 0
    BY EmptySeq
  <2> QED
    BY <2>1
<1>3. t = EncodeBase58Check(w, check)
  BY StringsAre
<1> HIDE DEF w, t, m, k
<1>4. \A c \in Octet : CheckedIs(t, w, check, c)
  BY <1>1, <1>3, CheckedText
<1>5. DecodeBase58Check(t, check).ok /\ DecodeBase58Check(t, check).bytes = w
  BY <1>4 DEF CheckedIs
<1>6. \A n : SetString(t, n, check) =
               IF Len(w) >= n THEN [version |-> VersionIn(w, n), data |-> DataIn(w, n)] ELSE Unread
  <2> TAKE n
  <2>1. SetString(t, n, check) =
              LET d == DecodeBase58Check(t, check)
              IN  IF d.ok /\ Len(d.bytes) >= n
                  THEN [version |-> VersionIn(d.bytes, n), data |-> DataIn(d.bytes, n)]
                  ELSE [version |-> <<>>, data |-> <<>>]
    BY StringsAre
  <2> QED
    BY ONLY <1>5, <2>1 DEF Unread
<1>7. SetString(t, m, check) = [version |-> v, data |-> data]
  <2>1. Len(w) >= m
    BY <1>1, <1>2
  <2> QED
    BY ONLY <1>1, <1>6, <2>1
<1>8. ASSUME NEW n \in Nat \ {0}, SetString(t, n, check) # Unread
      PROVE  Len(SetString(t, n, check).data) + n = m + k
  <2>1. Len(w) >= n /\ SetString(t, n, check).data = DataIn(w, n)
    BY ONLY <1>6, <1>8
  <2>2. n <= Len(w)
    BY <1>1, <1>2, <2>1
  <2>3. Len(DataIn(w, n)) = Len(w) - n
    BY ONLY <1>1, <2>2, ReadIsWoven, n \in Nat \ {0}
  <2> QED
    BY <1>1, <1>2, <2>1, <2>3
<1> QED
  BY <1>7, <1>8 DEF t, m, k

LEMMA ReadIsWritten ==
  ASSUME NEW t \in Seq(Character), NEW n \in Nat \ {0}, NEW check \in Octet \ {0},
         SetString(t, n, check).version # <<>>
  PROVE  /\ SetString(t, n, check).data \in Seq(Octet)
         /\ Base58String(SetString(t, n, check).version, SetString(t, n, check).data, check)
              = WithoutSpaces(t)
<1> DEFINE b == DecodeBase58Check(t, check).bytes
           v == VersionIn(b, n)
           data == DataIn(b, n)
<1>1. SetString(t, n, check) =
              LET d == DecodeBase58Check(t, check)
              IN  IF d.ok /\ Len(d.bytes) >= n
                  THEN [version |-> VersionIn(d.bytes, n), data |-> DataIn(d.bytes, n)]
                  ELSE [version |-> <<>>, data |-> <<>>]
  BY StringsAre
<1>2. /\ DecodeBase58Check(t, check).ok /\ Len(b) >= n
      /\ SetString(t, n, check).version = v /\ SetString(t, n, check).data = data
  BY <1>1
<1>3. b \in Seq(Octet) /\ EncodeBase58Check(b, check) = WithoutSpaces(t)
  BY <1>2, TextChecked
<1> HIDE DEF b
<1>4. v \in Seq(Octet) /\ data \in Seq(Octet) /\ Woven(v, data) = b
  <2>1. n <= Len(b)
    BY <1>2, <1>3
  <2> QED
    BY ONLY <1>3, <2>1, ReadIsWoven, n \in Nat \ {0}
<1> HIDE DEF v, data
<1>5. Base58String(v, data, check) = EncodeBase58Check(Woven(v, data), check)
  BY <1>4, StringsAre
<1> QED
  BY <1>2, <1>3, <1>4, <1>5

(* What is written is a key's or script's hash, or a private key, with the  *)
(* version of its kind, and the text of characters.                         *)
Writable(kind, data) ==
  /\ data \in Seq(Octet)
  /\ \/ kind \in {"key", "script"} /\ Len(data) = IdSize
     \/ kind = "secret" /\ Len(data) = KeySize
     \/ kind = "secret" /\ Len(data) = KeySize + 1 /\ Last(data) = 1

IsChain(chain) ==
  /\ {chain.pub, chain.script, chain.priv} \subseteq Versions
  /\ chain.check \in Octet

TextInv ==
  /\ text \in Seq(Character)
  /\ made # Nothing => Writable(made.kind, made.data) /\ IsChain(made.chain)

VersionOf(kind, chain) ==
  IF kind = "key" THEN chain.pub ELSE IF kind = "script" THEN chain.script ELSE chain.priv

LEMMA VersionsAre == \A v \in Versions : v \in Seq(Octet) /\ v # <<>> /\ Len(v) \in Nat \ {0}
<1> TAKE v \in Versions
<1>1. v \in Seq(Octet) /\ v # <<>>
  BY AddressTextAssumption DEF Versions
<1>2. Len(v) # 0 /\ Len(v) \in Nat
  BY <1>1, EmptySeq
<1> QED
  BY <1>1, <1>2

LEMMA ChainOfHelper ==
  ASSUME Usable
  PROVE  IsChain(ChainOf)
<1>1. \A name \in ParamNames : ParseHex(helper[name]) \in Versions
  <2> TAKE name \in ParamNames
  <2>1. ParseHex(helper[name]) # <<>>
    BY AddressTextAssumption DEF Usable
  <2> QED
    BY <2>1 DEF ParseHex, Versions
<1>2. Int32Le(ParseHex(helper["address-checksum-value"])) \in Octet
  <2> DEFINE c == ParseHex(helper["address-checksum-value"])
  <2>1. c \in Versions
    BY <1>1 DEF ParamNames
  <2> HIDE DEF c
  <2>2. Int32Le(c) \in Octet
    BY <2>1, AddressTextAssumption
  <2> QED
    BY <2>2 DEF c
<1> QED
  BY <1>1, <1>2 DEF IsChain, ChainOf, ParamNames

LEMMA WrittenText ==
  ASSUME HashIsOctet, NEW kind, NEW data, Writable(kind, data), NEW chain, IsChain(chain)
  PROVE  Base58String(VersionOf(kind, chain), data, chain.check) \in Seq(Digit)
<1>1. VersionOf(kind, chain) \in Versions /\ chain.check \in Octet /\ data \in Seq(Octet)
  BY DEF IsChain, VersionOf, Writable
<1>2. VersionOf(kind, chain) \in Seq(Octet) /\ VersionOf(kind, chain) # <<>>
  BY <1>1, VersionsAre
<1> QED
  BY <1>1, <1>2, WrittenIsText

LEMMA SecretIsWritable ==
  ASSUME NEW secret \in Secret
  PROVE  Writable("secret", SecretData(secret))
<1> DEFINE key == secret.key
<1>1. key \in Seq(Octet) /\ Len(key) = KeySize
  BY AddressTextAssumption
<1> HIDE DEF key
<1>2. CASE ~secret.compressed
  BY <1>1, <1>2 DEF Writable, SecretData, key
<1>3. CASE secret.compressed
  <2> DEFINE d == Append(key, 1)
  <2>1. 1 \in Octet
    BY AddressTextAssumption DEF Octet
  <2>2. d \in Seq(Octet) /\ Len(d) = Len(key) + 1 /\ d[Len(key) + 1] = 1
    BY <1>1, <2>1, AppendProperties
  <2>3. SecretData(secret) = d
    BY <1>3 DEF SecretData, key
  <2> HIDE DEF d
  <2>4. Len(d) = KeySize + 1 /\ d[Len(d)] = 1
    BY <1>1, <2>2
  <2>5. Last(d) = 1
    BY <2>4 DEF Last
  <2> QED
    BY <2>2, <2>3, <2>4, <2>5 DEF Writable
<1> QED
  BY <1>2, <1>3

LEMMA TextStep ==
  ASSUME HashIsOctet, TextInv, [AddressNext]_<<fileVars, textVars>>
  PROVE  TextInv'
<1>1. CASE UNCHANGED textVars
  BY <1>1 DEF TextInv, textVars
<1>2. ASSUME NEW kind, NEW data, Writable(kind, data), Write(kind, data, VersionOf(kind, ChainOf))
      PROVE  TextInv'
  <2>1. IsChain(ChainOf)
    BY <1>2, ChainOfHelper DEF Write
  <2>2. text' \in Seq(Digit)
    <3>1. text' = Base58String(VersionOf(kind, ChainOf), data, ChainOf.check)
      BY <1>2 DEF Write
    <3>2. Base58String(VersionOf(kind, ChainOf), data, ChainOf.check) \in Seq(Digit)
      BY ONLY HashIsOctet, <1>2, <2>1, WrittenText
    <3> QED
      BY ONLY <3>1, <3>2
  <2>3. Writable(made'.kind, made'.data) /\ IsChain(made'.chain)
    <3>1. made' = [kind |-> kind, data |-> data, chain |-> ChainOf]
      BY <1>2 DEF Write
    <3>2. made'.kind = kind /\ made'.data = data /\ made'.chain = ChainOf
      BY ONLY <3>1
    <3> QED
      BY <1>2, <2>1, <3>2
  <2> QED
    BY <2>2, <2>3, DigitsAreText DEF TextInv
<1>3. CASE WriteKeyAddress
  <2>1. PICK id \in Id : Write("key", id, ChainOf.pub)
    BY <1>3 DEF WriteKeyAddress
  <2>2. Writable("key", id) /\ VersionOf("key", ChainOf) = ChainOf.pub
    BY AddressTextAssumption DEF Writable, VersionOf
  <2> QED
    BY <1>2, <2>1, <2>2
<1>4. CASE WriteScriptAddress
  <2>1. PICK id \in Id : Write("script", id, ChainOf.script)
    BY <1>4 DEF WriteScriptAddress
  <2>2. Writable("script", id) /\ VersionOf("script", ChainOf) = ChainOf.script
    BY AddressTextAssumption DEF Writable, VersionOf
  <2> QED
    BY <1>2, <2>1, <2>2
<1>5. CASE WriteSecret
  <2>1. PICK secret \in Secret : Write("secret", SecretData(secret), ChainOf.priv)
    BY <1>5 DEF WriteSecret
  <2>2. Writable("secret", SecretData(secret)) /\ VersionOf("secret", ChainOf) = ChainOf.priv
    BY SecretIsWritable DEF VersionOf
  <2> QED
    BY <1>2, <2>1, <2>2
<1>6. CASE Copy
  <2>1. text' \in Seq(Character)
    <3>1. PICK i \in DOMAIN text :
             \/ \E digit \in {Space} \cup 0 .. Digits - 1 : text' = ReplaceAt(text, i, digit)
             \/ text' = RemoveAt(text, i)
             \/ text' = InsertAt(text, i, text[i])
             \/ text' = <<Space>> \o text \o <<Space>>
      BY <1>6 DEF Copy
    <3>2. text \in Seq(Character) /\ i \in 1 .. Len(text) /\ text[i] \in Character /\ i \in 1 .. Len(text) + 1
      <4>1. text \in Seq(Character)
        BY DEF TextInv
      <4>2. i \in 1 .. Len(text) /\ i \in 1 .. Len(text) + 1
        BY <4>1
      <4> QED
        BY <4>1, <4>2, ElementOfSeq
    <3>3. ASSUME NEW digit \in Character PROVE ReplaceAt(text, i, digit) \in Seq(Character)
      <4>1. ReplaceAt(text, i, digit) = [text EXCEPT ![i] = digit]
        BY ONLY <3>2 DEF ReplaceAt
      <4> QED
        BY ONLY <3>2, <3>3, <4>1, ExceptSeq
    <3>4. RemoveAt(text, i) \in Seq(Character)
      BY ONLY <3>2, RemovedIs
    <3>5. InsertAt(text, i, text[i]) \in Seq(Character)
      BY ONLY <3>2, InsertedIs
    <3>6. <<Space>> \o text \o <<Space>> \in Seq(Character)
      <4> DEFINE u == <<Space>>
      <4>1. u \in Seq(Character)
        BY DEF Character
      <4> HIDE DEF u
      <4>2. (u \o text) \o u \in Seq(Character)
        BY ONLY <3>2, <4>1, ConcatFacts
      <4> QED
        BY <4>2 DEF u
    <3> QED
      BY <3>1, <3>3, <3>4, <3>5, <3>6 DEF Character, Digit
  <2> QED
    BY <1>6, <2>1 DEF Copy, TextInv
<1> QED
  BY <1>1, <1>3, <1>4, <1>5, <1>6 DEF AddressNext

(* Under the parameters of its chain.                                       *)
LEMMA IntactIs ==
  ASSUME TextInv, Intact
  PROVE  /\ Writable(made.kind, made.data) /\ IsChain(made.chain)
         /\ text = Base58String(VersionOf(made.kind, made.chain), made.data, made.chain.check)
<1>1. Writable(made.kind, made.data) /\ IsChain(made.chain)
  BY DEF TextInv, Intact
<1>2. CASE made.kind = "key"
  <2>1. VersionOf(made.kind, made.chain) = made.chain.pub
    BY <1>2 DEF VersionOf
  <2>2. text = Base58String(made.chain.pub, made.data, made.chain.check)
    BY <1>2, Zenon DEF Intact
  <2> QED
    BY <1>1, <2>1, <2>2
<1>3. CASE made.kind = "script"
  <2>1. VersionOf(made.kind, made.chain) = made.chain.script
    BY <1>3 DEF VersionOf
  <2>2. text = Base58String(made.chain.script, made.data, made.chain.check)
    BY <1>3, Zenon DEF Intact
  <2> QED
    BY <1>1, <2>1, <2>2
<1>4. CASE made.kind = "secret"
  <2>1. VersionOf(made.kind, made.chain) = made.chain.priv
    BY <1>4 DEF VersionOf
  <2>2. text = Base58String(made.chain.priv, made.data, made.chain.check)
    BY <1>4, Zenon DEF Intact
  <2> QED
    BY <1>1, <2>1, <2>2
<1>5. made.kind \in {"key", "script", "secret"}
  BY <1>1 DEF Writable
<1> QED
  BY ONLY <1>2, <1>3, <1>4, <1>5

(* The lengths of the versions keep keys and hashes apart.                  *)
LEMMA LengthsApart ==
  ASSUME NEW c \in Versions, NEW d \in Versions, NEW m \in Nat, NEW k \in Nat
  PROVE  /\ m + Len(c) = Len(d) + k /\ k = IdSize => m < KeySize
         /\ m + Len(c) = Len(d) + k /\ k >= KeySize => m > IdSize
<1>1. Len(c) \in Nat /\ Len(d) \in Nat /\ Len(c) + KeySize > Len(d) + IdSize /\ Len(d) + KeySize > Len(c) + IdSize
  BY AddressTextAssumption, VersionsAre
<1>2. KeySize \in Nat /\ IdSize \in Nat
  BY AddressTextAssumption
<1> QED
  BY ONLY <1>1, <1>2, m \in Nat, k \in Nat

LEMMA UnreadIsNothing ==
  ASSUME NEW chain, IsChain(chain)
  PROVE  ~IsValidAddress(Unread, chain) /\ ~IsValidSecret(Unread, chain)
<1>1. Unread.version = <<>> /\ Unread.data = <<>>
  BY DEF Unread
<1>2. <<>> \notin {chain.pub, chain.script} /\ <<>> # chain.priv
  BY VersionsAre DEF IsChain
<1> QED
  BY <1>1, <1>2 DEF IsValidAddress, IsValidSecret

LEMMA KeyReadBack ==
  ASSUME NEW data \in Seq(Octet), \/ Len(data) = KeySize
                                  \/ Len(data) = KeySize + 1 /\ Last(data) = 1,
         NEW object, object.data = data
  PROVE  SecretData(GetKey(object)) = data
<1>1. KeySize \in Nat \ {0} /\ Len(data) \in Nat
  BY AddressTextAssumption
<1> DEFINE key == SubSeq(data, 1, KeySize)
<1>2. GetKey(object) = [key |-> key, compressed |-> Len(data) > KeySize]
  BY DEF GetKey
<1>3. SecretData(GetKey(object)) = IF Len(data) > KeySize THEN Append(key, 1) ELSE key
  <2> DEFINE longer == Len(data) > KeySize
             g == [key |-> key, compressed |-> longer]
  <2>1. GetKey(object) = g
    BY <1>2
  <2> HIDE DEF key, longer
  <2>2. ASSUME longer PROVE SecretData(g) = Append(key, 1)
    <3>1. g.compressed /\ g.key = key
      BY <2>2
    <3> QED
      BY ONLY <3>1 DEF SecretData
  <2>3. ASSUME ~longer PROVE SecretData(g) = key
    <3>1. ~g.compressed /\ g.key = key
      BY <2>3
    <3> QED
      BY ONLY <3>1 DEF SecretData
  <2> HIDE DEF g
  <2>4. SecretData(GetKey(object)) = IF longer THEN Append(key, 1) ELSE key
    BY ONLY <2>1, <2>2, <2>3
  <2> QED
    BY <2>4 DEF longer
<1>4. CASE Len(data) = KeySize
  <2>1. /\ key \in Seq(Octet) /\ Len(key) = IF 1 <= KeySize THEN KeySize - 1 + 1 ELSE 0
        /\ \A i \in 1 .. KeySize - 1 + 1 : key[i] = data[1 + i - 1]
    <3>1. KeySize \in Nat /\ KeySize <= Len(data) /\ 1 \in Nat \ {0}
      BY <1>1, <1>4
    <3> QED
      BY ONLY <3>1, SubSeqIs, data \in Seq(Octet)
  <2> HIDE DEF key
  <2>2. Len(key) = Len(data) /\ \A i \in 1 .. Len(key) : key[i] = data[i]
    <3>1. Len(key) = KeySize
      BY <1>1, <2>1
    <3>2. \A i \in 1 .. KeySize : i \in 1 .. KeySize - 1 + 1 /\ 1 + i - 1 = i
      BY <1>1
    <3> QED
      BY <1>4, <2>1, <3>1, <3>2
  <2>3. key = data
    BY ONLY <2>1, <2>2, SeqEqual, data \in Seq(Octet)
  <2> QED
    BY <1>1, <1>3, <1>4, <2>3
<1>5. CASE Len(data) = KeySize + 1 /\ Last(data) = 1
  <2>1. data # <<>> /\ Len(data) - 1 = KeySize /\ Len(data) > KeySize
    BY <1>1, <1>5
  <2>2. data = Append(Front(data), Last(data))
    BY <2>1, FrontAndLast
  <2>3. Front(data) = key
    BY <2>1 DEF Front
  <2> QED
    BY <1>3, <1>5, <2>1, <2>2, <2>3
<1> QED
  BY <1>4, <1>5

LEMMA ReadBackHolds ==
  ASSUME HashIsOctet, TextInv
  PROVE  ReadBack
<1>a. ASSUME made.chain.check = 0
      PROVE  ReadAddress(text, made.chain) = Aborted /\ ReadSecret(text, made.chain) = Aborted
  BY <1>a DEF ReadAddress, ReadSecret, SetString
<1> SUFFICES ASSUME Intact, Kinds(made.chain), made.chain.check # 0
             PROVE  /\ Get(ReadAddress(text, made.chain), made.chain) =
                         IF made.kind = "secret" THEN Nothing ELSE [kind |-> made.kind, data |-> made.data]
                    /\ IsValidSecret(ReadSecret(text, made.chain), made.chain) <=> made.kind = "secret"
                    /\ made.kind = "secret" => SecretData(GetKey(ReadSecret(text, made.chain))) = made.data
  BY <1>a DEF ReadBack
<1> DEFINE kind == made.kind
           data == made.data
           chain == made.chain
           v == VersionOf(kind, chain)
           address == ReadAddress(text, chain)
           secret == ReadSecret(text, chain)
<1>1. Writable(kind, data) /\ IsChain(chain) /\ text = Base58String(v, data, chain.check)
  BY IntactIs
<1>2. /\ v \in Versions /\ v \in Seq(Octet) /\ v # <<>> /\ data \in Seq(Octet) /\ chain.check \in Octet \ {0}
      /\ Len(chain.pub) \in Nat \ {0} /\ Len(chain.priv) \in Nat \ {0}
      /\ {chain.pub, chain.script, chain.priv} \subseteq Versions
  <2>1. v \in Versions /\ data \in Seq(Octet) /\ IsChain(chain)
    BY <1>1 DEF IsChain, VersionOf, Writable
  <2> QED
    BY <2>1, VersionsAre DEF IsChain
<1>3. chain.pub # chain.script /\ Len(chain.pub) = Len(chain.script)
  BY DEF Kinds
<1>4. /\ address = SetString(text, Len(chain.pub), chain.check)
      /\ secret = SetString(text, Len(chain.priv), chain.check)
  BY DEF ReadAddress, ReadSecret
<1>5. /\ SetString(text, Len(v), chain.check) = [version |-> v, data |-> data]
      /\ \A n \in Nat \ {0} : \/ SetString(text, n, chain.check) = Unread
                              \/ Len(SetString(text, n, chain.check).data) + n = Len(v) + Len(data)
  <2> DEFINE check == chain.check
             t == Base58String(v, data, check)
  <2>1. v \in Seq(Octet) /\ v # <<>> /\ data \in Seq(Octet) /\ check \in Octet \ {0} /\ text = t
    BY <1>1, <1>2
  <2> HIDE DEF kind, data, chain, v, check
  <2>2. /\ SetString(t, Len(v), check) = [version |-> v, data |-> data]
        /\ \A n \in Nat \ {0} : \/ SetString(t, n, check) = Unread
                                \/ Len(SetString(t, n, check).data) + n = Len(v) + Len(data)
    BY ONLY HashIsOctet, <2>1, WrittenIsRead
  <2> HIDE DEF t
  <2>3. /\ SetString(text, Len(v), check) = [version |-> v, data |-> data]
        /\ \A n \in Nat \ {0} : \/ SetString(text, n, check) = Unread
                                \/ Len(SetString(text, n, check).data) + n = Len(v) + Len(data)
    BY ONLY <2>1, <2>2
  <2> QED
    BY <2>3 DEF check
<1>6. kind \in {"key", "script", "secret"} /\ (kind # "secret" => Len(data) = IdSize)
      /\ (kind = "secret" => Len(data) = KeySize \/ (Len(data) = KeySize + 1 /\ Last(data) = 1))
  BY <1>1 DEF Writable
<1>7. ~IsValidAddress(Unread, chain) /\ ~IsValidSecret(Unread, chain)
  BY <1>1, UnreadIsNothing
<1>8. KeySize \in Nat \ {0} /\ IdSize \in Nat \ {0} /\ Len(data) \in Nat
  <2>1. KeySize \in Nat \ {0} /\ IdSize \in Nat \ {0}
    BY ONLY AddressTextAssumption
  <2>2. data \in Seq(Octet)
    BY <1>2
  <2> QED
    BY ONLY <2>1, <2>2
<1>9. CASE kind # "secret"
  <2>1. Len(chain.pub) = Len(v) /\ v = IF kind = "key" THEN chain.pub ELSE chain.script
    BY <1>3, <1>6, <1>9 DEF VersionOf
  <2>2. address.version = v /\ address.data = data
    BY <1>4, <1>5, <2>1
  <2>3. Get(address, chain) = [kind |-> kind, data |-> data]
    <3>1. IsValidAddress(address, chain)
      BY <1>6, <1>9, <2>1, <2>2 DEF IsValidAddress
    <3>2. kind = IF v = chain.pub THEN "key" ELSE "script"
      BY <1>3, <1>6, <1>9, <2>1
    <3> QED
      BY ONLY <2>2, <3>1, <3>2 DEF Get
  <2>4. ~IsValidSecret(secret, chain)
    <3>1. CASE secret = Unread
      BY <1>7, <3>1
    <3>2. CASE secret # Unread
      <4> DEFINE m == Len(secret.data)
      <4> SUFFICES ASSUME m = KeySize \/ m = KeySize + 1 PROVE FALSE
        BY DEF IsValidSecret
      <4>1. m + Len(chain.priv) = Len(v) + Len(data)
        <5>1. Len(chain.priv) \in Nat \ {0} /\ secret = SetString(text, Len(chain.priv), chain.check)
          BY <1>2, <1>4
        <5> HIDE DEF kind, data, chain, v, secret
        <5> QED
          BY ONLY <1>5, <3>2, <5>1
      <4>2. m \in Nat
        BY <1>8
      <4> HIDE DEF m
      <4>3. m < KeySize
        BY <1>2, <1>6, <1>8, <1>9, <4>1, <4>2, LengthsApart
      <4> QED
        BY <1>8, <4>2, <4>3
    <3> QED
      BY <3>1, <3>2
  <2> QED
    BY <1>9, <2>3, <2>4
<1>10. CASE kind = "secret"
  <2>1. v = chain.priv /\ (Len(data) = KeySize \/ (Len(data) = KeySize + 1 /\ Last(data) = 1))
    BY <1>6, <1>10 DEF VersionOf
  <2>2. secret.version = chain.priv /\ secret.data = data
    BY <1>4, <1>5, <2>1
  <2>3. IsValidSecret(secret, chain)
    BY <2>1, <2>2 DEF IsValidSecret
  <2>4. SecretData(GetKey(secret)) = data
    BY <1>2, <2>1, <2>2, KeyReadBack
  <2>5. ~IsValidAddress(address, chain)
    <3>1. CASE address = Unread
      BY <1>7, <3>1
    <3>2. CASE address # Unread
      <4> DEFINE m == Len(address.data)
      <4> SUFFICES ASSUME m = IdSize PROVE FALSE
        BY DEF IsValidAddress
      <4>1. m + Len(chain.pub) = Len(v) + Len(data)
        <5>1. Len(chain.pub) \in Nat \ {0} /\ address = SetString(text, Len(chain.pub), chain.check)
          BY <1>2, <1>4
        <5> HIDE DEF kind, data, chain, v, address
        <5> QED
          BY ONLY <1>5, <3>2, <5>1
      <4>2. m \in Nat /\ Len(data) >= KeySize
        BY <1>8, <2>1
      <4> HIDE DEF m
      <4>3. m > IdSize
        BY <1>2, <1>8, <4>1, <4>2, LengthsApart
      <4> QED
        BY <1>8, <4>3
    <3> QED
      BY <3>1, <3>2
  <2>6. Get(address, chain) = Nothing
    BY <2>5 DEF Get
  <2> QED
    BY <1>10, <2>3, <2>4, <2>6
<1> QED
  BY <1>9, <1>10

LEMMA AcceptedIsTheTextHolds ==
  ASSUME TextInv
  PROVE  AcceptedIsTheText
<1> SUFFICES ASSUME NEW chain \in Chain
             PROVE  /\ IsValidAddress(ReadAddress(text, chain), chain) =>
                         Base58String(ReadAddress(text, chain).version, ReadAddress(text, chain).data,
                                      chain.check) = WithoutSpaces(text)
                    /\ IsValidSecret(ReadSecret(text, chain), chain) =>
                         Base58String(ReadSecret(text, chain).version,
                                      SecretData(GetKey(ReadSecret(text, chain))),
                                      chain.check) = WithoutSpaces(text)
  BY DEF AcceptedIsTheText
<1>1. {chain.pub, chain.script, chain.priv} \subseteq Versions /\ chain.check \in Octet \ {0}
      /\ text \in Seq(Character)
  BY AddressTextAssumption DEF TextInv
<1>2. /\ Len(chain.pub) \in Nat \ {0} /\ Len(chain.priv) \in Nat \ {0}
      /\ chain.pub # <<>> /\ chain.script # <<>> /\ chain.priv # <<>>
  BY <1>1, VersionsAre
<1>3. ASSUME IsValidAddress(ReadAddress(text, chain), chain)
      PROVE  Base58String(ReadAddress(text, chain).version, ReadAddress(text, chain).data,
                          chain.check) = WithoutSpaces(text)
  <2> DEFINE n == Len(chain.pub)
             check == chain.check
             o == SetString(text, n, check)
  <2>1. ReadAddress(text, chain) = o
    BY DEF ReadAddress
  <2>2. n \in Nat \ {0} /\ check \in Octet \ {0} /\ o.version # <<>>
    BY <1>1, <1>2, <1>3, <2>1 DEF IsValidAddress
  <2> HIDE DEF n, check
  <2>3. Base58String(o.version, o.data, check) = WithoutSpaces(text)
    BY ONLY <1>1, <2>2, ReadIsWritten
  <2> QED
    BY <2>1, <2>3 DEF check
<1>4. ASSUME IsValidSecret(ReadSecret(text, chain), chain)
      PROVE  Base58String(ReadSecret(text, chain).version, SecretData(GetKey(ReadSecret(text, chain))),
                          chain.check) = WithoutSpaces(text)
  <2> DEFINE n == Len(chain.priv)
             check == chain.check
             o == SetString(text, n, check)
  <2>1. ReadSecret(text, chain) = o
    BY DEF ReadSecret
  <2>2. /\ n \in Nat \ {0} /\ check \in Octet \ {0} /\ o.version # <<>>
        /\ Len(o.data) = KeySize \/ (Len(o.data) = KeySize + 1 /\ Last(o.data) = 1)
    BY <1>1, <1>2, <1>4, <2>1 DEF IsValidSecret
  <2> HIDE DEF n, check
  <2>3. o.data \in Seq(Octet) /\ Base58String(o.version, o.data, check) = WithoutSpaces(text)
    BY ONLY <1>1, <2>2, ReadIsWritten
  <2> HIDE DEF o
  <2>4. SecretData(GetKey(o)) = o.data
    BY ONLY <2>2, <2>3, KeyReadBack
  <2> QED
    BY <2>1, <2>3, <2>4 DEF check
<1> QED
  BY <1>3, <1>4

LEMMA ChainsAreApartHolds ==
  ASSUME HashIsOctet, TextInv
  PROVE  ChainsAreApart
<1> SUFFICES ASSUME Intact, NEW chain \in Chain, chain.check # made.chain.check
             PROVE  /\ ~IsValidAddress(ReadAddress(text, chain), chain)
                    /\ ~IsValidSecret(ReadSecret(text, chain), chain)
  BY DEF ChainsAreApart
<1> DEFINE v == VersionOf(made.kind, made.chain)
           data == made.data
           check == made.chain.check
           c == chain.check
<1>1. Writable(made.kind, made.data) /\ IsChain(made.chain) /\ text = Base58String(v, data, check)
  BY IntactIs
<1>2. v \in Versions /\ data \in Seq(Octet) /\ check \in Octet
  BY <1>1 DEF IsChain, VersionOf, Writable
<1>3. IsChain(chain) /\ c \in Octet \ {0} /\ c # check
  BY AddressTextAssumption DEF IsChain
<1>4. Len(chain.pub) \in Nat \ {0} /\ Len(chain.priv) \in Nat \ {0}
  BY <1>3, VersionsAre DEF IsChain
<1>5. v \in Seq(Octet) /\ v # <<>>
  BY <1>2, VersionsAre
<1> HIDE DEF v, data, check, c
<1>6. \A n \in Nat \ {0} : SetString(text, n, c) = Unread
  <2> DEFINE t == Base58String(v, data, check)
  <2>1. \A n \in Nat \ {0} : SetString(t, n, c) = Unread
    BY ONLY HashIsOctet, <1>2, <1>3, <1>5, WrittenIsText
  <2>2. text = t
    BY <1>1
  <2> HIDE DEF t
  <2> QED
    BY ONLY <2>1, <2>2
<1>7. ReadAddress(text, chain) = Unread /\ ReadSecret(text, chain) = Unread
  BY <1>4, <1>6 DEF ReadAddress, ReadSecret, c
<1> QED
  BY <1>3, <1>7, UnreadIsNothing

(* The text and what is written stay as described, whatever is copied.      *)
LEMMA TextIsTyped ==
  ASSUME HashIsOctet
  PROVE  AddressSpec => []TextInv
<1>1. AddressInit => TextInv
  <2>1. <<>> \in Seq(Character)
    OBVIOUS
  <2> QED
    BY <2>1 DEF AddressInit, TextInit, TextInv
<1>2. TextInv /\ [AddressNext]_<<fileVars, textVars>> => TextInv'
  BY TextStep
<1> QED
  BY <1>1, <1>2, PTL DEF AddressSpec

(* What is written under the parameters of a chain and its text stand for   *)
(* each other: it is read as what it is and as nothing else, and every text *)
(* that is accepted, with whatever digits wrong, lost or doubled, is the    *)
(* one that is written for what was read; for versions, hashes, keys and    *)
(* bases of any size and any checksum of one byte (base58.cpp:11-219,       *)
(* bitcoinaddress.cpp:56-81, bitcoinsecret.cpp:3-30).                       *)
THEOREM TextAndKeyAgree ==
  ASSUME HashIsOctet
  PROVE  AddressSpec => []TextIsTheKey
<1>1. TextInv => TextIsTheKey
  BY ReadBackHolds, AcceptedIsTheTextHolds DEF TextIsTheKey
<1> QED
  BY <1>1, TextIsTyped, PTL

(* No text is accepted under the parameters of a chain with another         *)
(* checksum value (base58.cpp:102-137).                                     *)
THEOREM TextsOfChainsAreApart ==
  ASSUME HashIsOctet
  PROVE  AddressSpec => []ChainsAreApart
<1>1. TextInv => ChainsAreApart
  BY ChainsAreApartHolds
<1> QED
  BY <1>1, TextIsTyped, PTL

-----------------------------------------------------------------------------
(* Numbers as bytes, the highest first.                                     *)
Byte == 0 .. 255

LEMMA PowersOf256 ==
  /\ IsPower(256, Power)
  /\ \A n \in Nat : Power[n] \in Nat \ {0} /\ Power[n + 1] = 256 * Power[n]
  /\ Power[0] = 1 /\ Power[1] = 256 /\ \A m, n \in Nat : m < n => Power[m] < Power[n]
<1>1. PICK p : p = [n \in Nat |-> IF n = 0 THEN 1 ELSE 256 * p[n - 1]]
  BY PowersExist
<1>2. Power = [n \in Nat |-> IF n = 0 THEN 1 ELSE 256 * Power[n - 1]]
  BY <1>1, ZenonT(30) DEF Power
<1>3. IsPower(256, Power)
  BY <1>2, PowersAre
<1>4. \A n \in Nat : Power[n] \in Nat \ {0} /\ Power[n + 1] = 256 * Power[n]
  BY <1>3 DEF IsPower
<1>5. Power[0] = 1
  BY <1>3 DEF IsPower
<1>6. Power[1] = 256
  <2>1. Power[0 + 1] = 256 * Power[0]
    BY <1>4
  <2> QED
    BY <1>5, <2>1
<1>7. \A m, n \in Nat : m < n => Power[m] < Power[n]
  BY <1>3, PowersGrow
<1> QED
  BY <1>3, <1>4, <1>5, <1>6, <1>7

LEMMA QuotientUnique ==
  ASSUME NEW v \in Int, NEW n \in Nat \ {0}, NEW q \in Int, NEW r \in 0 .. n - 1, v = n * q + r
  PROVE  v \div n = q
OBVIOUS

LEMMA DividedTwice ==
  ASSUME NEW n \in Nat, NEW P \in Nat \ {0}
  PROVE  (n \div 256) \div P = n \div (256 * P)
<1> DEFINE q == n \div 256
           r == n % 256
           k == q \div P
           x == q % P
<1>1. /\ q \in Int /\ r \in 0 .. 255 /\ n = 256 * q + r
      /\ k \in Int /\ x \in 0 .. P - 1 /\ q = P * k + x
  OBVIOUS
<1> HIDE DEF q, r, k, x
<1>2. n = (256 * P) * k + (256 * x + r)
  BY <1>1
<1>3. 256 * x + r \in 0 .. 256 * P - 1 /\ 256 * P \in Nat \ {0}
  BY <1>1
<1>4. n \div (256 * P) = k
  BY <1>1, <1>2, <1>3, QuotientUnique
<1> QED
  BY <1>4 DEF k, q

AreBytes(b, n, size) ==
  /\ b \in Seq(Byte) /\ Len(b) = size
  /\ \A i \in 1 .. size : b[i] = (n \div Power[size - i]) % 256

LEMMA BytesAre ==
  ASSUME NEW n \in Nat, NEW size \in Nat
  PROVE  AreBytes(Bytes(n, size), n, size)
<1>1. ASSUME NEW i \in 1 .. size PROVE (n \div Power[size - i]) % 256 \in Byte
  <2>1. size - i \in Nat
    OBVIOUS
  <2>2. Power[size - i] \in Nat \ {0}
    BY <2>1, PowersOf256
  <2>3. n \div Power[size - i] \in Int
    BY <2>2
  <2> QED
    BY <2>3 DEF Byte
<1> QED
  BY <1>1 DEF Bytes, AreBytes

(* The lowest byte and those of the rest.                                   *)
LEMMA LowestByte ==
  ASSUME NEW n \in Nat, NEW size \in Nat
  PROVE  Bytes(n, size + 1) = Append(Bytes(n \div 256, size), n % 256)
<1> DEFINE q == n \div 256
           b == Bytes(n, size + 1)
           c == Bytes(q, size)
           P(i) == Power[size - i]
<1>1. q \in Nat /\ n % 256 \in Byte
  BY QuotientAndRest DEF Divided, Byte
<1>2. /\ b \in Seq(Byte) /\ Len(b) = size + 1
      /\ \A i \in 1 .. size + 1 : b[i] = (n \div Power[(size + 1) - i]) % 256
  <2>1. size + 1 \in Nat
    OBVIOUS
  <2>2. AreBytes(b, n, size + 1)
    BY <2>1, BytesAre
  <2> HIDE DEF b
  <2> QED
    BY <2>2 DEF AreBytes
<1>3. c \in Seq(Byte) /\ Len(c) = size /\ \A i \in 1 .. size : c[i] = (q \div P(i)) % 256
  <2>1. AreBytes(c, q, size)
    BY <1>1, BytesAre
  <2> HIDE DEF q, c
  <2> QED
    BY <2>1 DEF AreBytes
<1>4. ASSUME NEW i \in 1 .. size PROVE b[i] = c[i]
  <2>1. size - i \in Nat /\ (size + 1) - i = (size - i) + 1
    OBVIOUS
  <2>2. P(i) \in Nat \ {0} /\ Power[(size + 1) - i] = 256 * P(i)
    BY <2>1, PowersOf256
  <2>3. q \div P(i) = n \div (256 * P(i))
    BY ONLY <2>2, DividedTwice, n \in Nat, SMTT(20)
  <2> QED
    BY ONLY <1>2, <1>3, <2>2, <2>3, i \in 1 .. size, size \in Nat
<1>5. b[size + 1] = n % 256
  <2>1. (size + 1) - (size + 1) = 0 /\ size + 1 \in 1 .. size + 1
    OBVIOUS
  <2>2. n \div Power[0] = n
    BY PowersOf256
  <2> QED
    BY <1>2, <2>1, <2>2
<1> HIDE DEF b, c
<1>6. b = Append(c, n % 256)
  BY <1>1, <1>2, <1>3, <1>4, <1>5
<1> QED
  BY <1>6 DEF b, c

LEMMA BigEndianIs == \A bytes : BigEndian(bytes) = Number(bytes, 256)
BY Zenon DEF BigEndian, Number

LEMMA BytesAreNumbers == Seq(Byte) = Seq(0 .. 256 - 1) /\ Seq(Byte) \subseteq Seq(Nat)
<1>1. Byte = 0 .. 256 - 1
  BY DEF Byte
<1>2. ASSUME NEW d \in Seq(Byte) PROVE d \in Seq(Nat)
  <2>1. 256 \in Nat /\ d \in Seq(0 .. 256 - 1)
    BY <1>1
  <2> QED
    BY ONLY <2>1, DigitsAreNumbers
<1> QED
  BY <1>1, <1>2

(* What is written in enough bytes is read.                                 *)
LEMMA NumberOfBytes ==
  ASSUME NEW size \in Nat, NEW n \in Nat, n < Power[size]
  PROVE  Number(Bytes(n, size), 256) = n
<1> DEFINE T == {k \in Nat : \A m \in Nat : m < Power[k] => Number(Bytes(m, k), 256) = m}
<1>1. 0 \in T
  <2> SUFFICES ASSUME NEW m \in Nat, m < Power[0] PROVE Number(Bytes(m, 0), 256) = m
    OBVIOUS
  <2>1. m = 0
    BY PowersOf256
  <2>2. Bytes(m, 0) = <<>>
    BY BytesAre DEF AreBytes
  <2> QED
    BY <2>1, <2>2, NumberOfNone
<1>2. ASSUME NEW k \in Nat, k \in T PROVE k + 1 \in T
  <2> SUFFICES ASSUME NEW m \in Nat, m < Power[k + 1] PROVE Number(Bytes(m, k + 1), 256) = m
    OBVIOUS
  <2> DEFINE q == m \div 256
             r == m % 256
             N == Number(Bytes(q, k), 256)
  <2>1. q \in Nat /\ r \in 0 .. 255 /\ m = q * 256 + r
    BY QuotientAndRest DEF Divided
  <2>2. Number(Append(Bytes(q, k), r), 256) = N * 256 + r
    <3>1. Bytes(q, k) \in Seq(Nat) /\ r \in Nat
      BY <2>1, BytesAre, BytesAreNumbers DEF AreBytes
    <3> QED
      BY <3>1, NumberAppend
  <2>3. Number(Bytes(m, k + 1), 256) = N * 256 + r
    BY ONLY <2>2, LowestByte, m \in Nat, k \in Nat, ZenonT(40)
  <2>4. q < Power[k]
    <3> HIDE DEF q, r
    <3>1. Power[k] \in Nat /\ Power[k + 1] = 256 * Power[k]
      BY PowersOf256
    <3> QED
      BY <2>1, <3>1
  <2>5. N = q
    BY <1>2, <2>1, <2>4
  <2> HIDE DEF q, r, N
  <2> QED
    BY <2>1, <2>3, <2>5
<1>3. Nat \subseteq T
  <2> HIDE DEF T
  <2> QED
    BY <1>1, <1>2, AllNaturals
<1> QED
  BY <1>3

LEMMA LastByte ==
  ASSUME NEW d \in Seq(Byte), d # <<>>
  PROVE  /\ Front(d) \in Seq(Byte) /\ Number(Front(d), 256) \in Nat
         /\ Last(d) \in 0 .. 255
         /\ Number(d, 256) = Number(Front(d), 256) * 256 + Last(d)
         /\ Len(d) \in Nat /\ Len(Front(d)) = Len(d) - 1 /\ Last(d) = d[Len(d)]
<1>1. 256 \in Nat \ {0} /\ d \in Seq(0 .. 256 - 1)
  BY BytesAreNumbers
<1>2. /\ Front(d) \in Seq(0 .. 256 - 1) /\ Number(Front(d), 256) \in Nat
      /\ Last(d) \in 0 .. 256 - 1
      /\ Number(d, 256) = Number(Front(d), 256) * 256 + Last(d)
  BY ONLY <1>1, d # <<>>, NumberOfLast, ZenonT(40)
<1>3. Len(d) \in Nat /\ Len(Front(d)) = Len(d) - 1 /\ Last(d) = d[Len(d)]
  BY ONLY d \in Seq(Byte), d # <<>>, FrontAndLast
<1>4. Last(d) \in 0 .. 255
  BY <1>2
<1> QED
  BY ONLY <1>2, <1>3, <1>4, BytesAreNumbers

(* Digits with no zero in front show the size of their number.              *)
LEMMA DigitsBound ==
  \A d \in Seq(Byte) : Number(d, 256) < Power[Len(d)]
                       /\ (d # <<>> /\ NoZeroInFront(d) => Number(d, 256) >= Power[Len(d) - 1])
<1> DEFINE Bounded(d) == Number(d, 256) < Power[Len(d)]
                         /\ (d # <<>> /\ NoZeroInFront(d) => Number(d, 256) >= Power[Len(d) - 1])
           T == {k \in Nat : \A d \in Seq(Byte) : Len(d) = k => Bounded(d)}
<1>1. 0 \in T
  <2> SUFFICES ASSUME NEW d \in Seq(Byte), Len(d) = 0 PROVE Bounded(d)
    OBVIOUS
  <2>1. d = <<>>
    BY EmptySeq
  <2>2. Number(d, 256) = 0
    BY <2>1, NumberOfNone
  <2> QED
    BY <2>1, <2>2, PowersOf256
<1>2. ASSUME NEW k \in Nat, k \in T PROVE k + 1 \in T
  <2> SUFFICES ASSUME NEW d \in Seq(Byte), Len(d) = k + 1 PROVE Bounded(d)
    OBVIOUS
  <2> DEFINE f == Front(d)
             x == Last(d)
             N == Number(f, 256)
             M == Number(d, 256)
  <2>0. d # <<>>
    BY EmptySeq
  <2>1. f \in Seq(Byte) /\ N \in Nat /\ x \in 0 .. 255 /\ M = N * 256 + x
    BY <2>0, LastByte
  <2>2. Len(f) = k /\ x = d[k + 1]
    <3>1. Len(f) = Len(d) - 1 /\ x = d[Len(d)]
      BY <2>0, LastByte
    <3> HIDE DEF f, x
    <3> QED
      BY <3>1
  <2>3. Bounded(f)
    BY <1>2, <2>1, <2>2
  <2>4. Power[k] \in Nat \ {0} /\ Power[k + 1] = 256 * Power[k]
    BY PowersOf256
  <2>5. N < Power[k] /\ (f # <<>> /\ NoZeroInFront(f) => N >= Power[k - 1])
    BY <2>2, <2>3
  <2>6. M < Power[k + 1]
    <3> HIDE DEF f, x, N, M
    <3> QED
      BY <2>1, <2>4, <2>5
  <2>7. ASSUME NoZeroInFront(d) PROVE M >= Power[k]
    <3>1. CASE k = 0
      <4>1. x # 0
        BY <2>0, <2>2, <2>7, <3>1 DEF NoZeroInFront
      <4> HIDE DEF f, x, N, M
      <4> QED
        BY <2>1, <3>1, <4>1, PowersOf256
    <3>2. CASE k # 0
      <4>1. f # <<>> /\ NoZeroInFront(f)
        BY <2>0, <2>1, <2>2, <2>7, <3>2, FrontHasNoZero
      <4>2. k - 1 \in Nat /\ (k - 1) + 1 = k
        BY <3>2
      <4>3. Power[k] = 256 * Power[k - 1] /\ Power[k - 1] \in Nat
        <5>1. Power[k - 1] \in Nat /\ Power[(k - 1) + 1] = 256 * Power[k - 1]
          BY ONLY <4>2, PowersOf256
        <5> QED
          BY ONLY <4>2, <5>1
      <4>4. N >= Power[k - 1]
        BY <2>5, <4>1
      <4> HIDE DEF f, x, N, M
      <4> QED
        BY <2>1, <4>3, <4>4
    <3> QED
      BY <3>1, <3>2
  <2>8. Len(d) = k + 1 /\ Len(d) - 1 = k
    OBVIOUS
  <2> HIDE DEF f, x, N
  <2> QED
    BY <2>6, <2>7, <2>8
<1>3. Nat \subseteq T
  <2> HIDE DEF T
  <2> QED
    BY <1>1, <1>2, AllNaturals
<1> SUFFICES ASSUME NEW d \in Seq(Byte) PROVE Bounded(d)
  OBVIOUS
<1>4. Len(d) \in Nat
  OBVIOUS
<1>5. Len(d) \in T
  BY <1>3, <1>4
<1> QED
  BY <1>5

(* Zeros in front are taken away.                                           *)
LEMMA SolidPart ==
  ASSUME NEW k \in Nat, NEW t \in Seq(Byte), NoZeroInFront(t)
  PROVE  Stripped(ZerosOf(k) \o t) = t
<1> DEFINE z == ZerosOf(k)
           s == z \o t
           solid == {i \in DOMAIN s : s[i] # 0}
<1>1. z \in Seq(Nat) /\ t \in Seq(Nat) /\ Len(z) = k /\ Len(t) \in Nat /\ \A i \in 1 .. k : z[i] = 0
  BY ZerosAre, BytesAreNumbers
<1>2. /\ s \in Seq(Nat) /\ Len(s) = k + Len(t) /\ \A i \in 1 .. k : s[i] = 0
      /\ \A i \in 1 .. Len(t) : s[k + i] = t[i]
  <2> DEFINE S == Nat
  <2>0. z \in Seq(S) /\ t \in Seq(S)
    BY <1>1
  <2> HIDE DEF z, S
  <2>1. /\ z \o t \in Seq(S) /\ Len(z \o t) = Len(z) + Len(t)
        /\ \A i \in 1 .. Len(z) : (z \o t)[i] = z[i]
        /\ \A i \in 1 .. Len(t) : (z \o t)[Len(z) + i] = t[i]
    BY ONLY <2>0, ConcatFacts
  <2> USE DEF S
  <2> QED
    BY <1>1, <2>1
<1>3. DOMAIN s = 1 .. k + Len(t)
  <2> HIDE DEF s
  <2> QED
    BY <1>2, LenProperties
<1>4. Stripped(s) = IF solid = {} THEN <<>> ELSE SubSeq(s, Min(solid), Len(s))
  BY DEF Stripped
<1> HIDE DEF s, z
<1>5. CASE t = <<>>
  <2>1. Len(t) = 0
    BY <1>5
  <2>2. solid = {}
    BY <1>1, <1>2, <1>3, <2>1
  <2> HIDE DEF solid
  <2>3. Stripped(s) = <<>>
    BY <1>4, <2>2
  <2> QED
    BY <1>5, <2>3 DEF s, z
<1>6. CASE t # <<>>
  <2>1. 1 \in 1 .. Len(t) /\ t[1] # 0
    BY <1>1, <1>6, EmptySeq DEF NoZeroInFront
  <2>2. s[k + 1] # 0 /\ k + 1 \in DOMAIN s
    BY <1>1, <1>2, <1>3, <2>1
  <2>3. k + 1 \in solid /\ solid \in SUBSET Nat /\ \A i \in solid : i \in 1 .. k + Len(t) /\ s[i] # 0
    BY <1>3, <2>2
  <2> HIDE DEF solid
  <2>4. \A i \in solid : k + 1 <= i
    BY <1>1, <1>2, <2>3
  <2>5. Min(solid) = k + 1
    BY <2>3, <2>4, LeastIs
  <2>6. Stripped(s) = SubSeq(s, k + 1, Len(s))
    BY <1>4, <2>3, <2>5
  <2> DEFINE u == SubSeq(s, k + 1, Len(s))
  <2>7. u \in Seq(Nat) /\ Len(u) = Len(t) /\ \A i \in 1 .. Len(t) : u[i] = s[(k + 1) + i - 1]
    <3>1. k + 1 \in Nat \ {0} /\ Len(s) \in Nat /\ Len(s) <= Len(s) /\ k + 1 <= Len(s)
      BY <1>1, <1>2, <2>1
    <3>2. /\ SubSeq(s, k + 1, Len(s)) \in Seq(Nat)
          /\ Len(SubSeq(s, k + 1, Len(s))) = IF k + 1 <= Len(s) THEN Len(s) - (k + 1) + 1 ELSE 0
          /\ \A i \in 1 .. Len(s) - (k + 1) + 1 : SubSeq(s, k + 1, Len(s))[i] = s[(k + 1) + i - 1]
      BY ONLY <1>2, <3>1, SubSeqIs, ZenonT(40)
    <3>3. Len(s) - (k + 1) + 1 = Len(t)
      BY <1>1, <1>2
    <3> QED
      BY <3>1, <3>2, <3>3
  <2> HIDE DEF u
  <2>8. \A i \in 1 .. Len(t) : u[i] = t[i]
    <3>1. \A i \in 1 .. Len(t) : (k + 1) + i - 1 = k + i
      BY <1>1
    <3> QED
      BY <1>2, <2>7, <3>1
  <2>9. u = t
    BY ONLY <1>1, <2>7, <2>8, SeqEqual
  <2> QED
    BY <2>6, <2>9 DEF s, z, u
<1> QED
  BY <1>5, <1>6

StrippedOf(s, t) ==
  /\ t \in Seq(Byte) /\ NoZeroInFront(t) /\ Len(t) <= Len(s) /\ Number(t, 256) = Number(s, 256)

LEMMA StrippedIs ==
  ASSUME NEW s \in Seq(Byte)
  PROVE  StrippedOf(s, Stripped(s))
<1>1. PICK k \in Nat, t \in Seq(Byte) : NoZeroInFront(t) /\ s = ZerosOf(k) \o t
  <2>1. 256 \in Nat \ {0} /\ s \in Seq(0 .. 256 - 1)
    BY BytesAreNumbers
  <2>2. /\ Zeros(s) \in Nat
        /\ \E t \in Seq(0 .. 256 - 1) : NoZeroInFront(t) /\ s = ZerosOf(Zeros(s)) \o t
    BY ONLY <2>1, ZerosAndRest
  <2> QED
    BY <2>2, BytesAreNumbers
<1>2. Stripped(s) = t
  BY <1>1, SolidPart
<1>3. Number(s, 256) = Number(t, 256)
  BY <1>1, BytesAreNumbers, NumberOfZeros
<1>4. Len(t) <= Len(s)
  <2> DEFINE S == Nat
             z == ZerosOf(k)
  <2>1. z \in Seq(S) /\ t \in Seq(S) /\ Len(z) = k
    BY ZerosAre, BytesAreNumbers
  <2> HIDE DEF S, z
  <2>2. Len(z \o t) = Len(z) + Len(t) /\ Len(t) \in Nat
    BY ONLY <2>1, ConcatFacts
  <2>3. s = z \o t
    BY <1>1 DEF z
  <2> QED
    BY <2>1, <2>2, <2>3
<1> QED
  BY <1>1, <1>2, <1>3, <1>4 DEF StrippedOf

(* Without zeros in front, the length of the digits follows from a bound of *)
(* the number.                                                              *)
LEMMA FewDigits ==
  ASSUME NEW d \in Seq(Byte), NoZeroInFront(d), NEW k \in Nat, Number(d, 256) < Power[k]
  PROVE  Len(d) <= k
<1> DEFINE L == Len(d)
           N == Number(d, 256)
<1> SUFFICES ASSUME k < L PROVE FALSE
  BY LenProperties
<1>1. L \in Nat /\ d # <<>> /\ N \in Nat
  <2>1. d \in Seq(Nat) /\ 256 \in Nat
    BY BytesAreNumbers
  <2>2. N \in Nat
    BY ONLY <2>1, NumberType
  <2>3. L \in Nat /\ (L # 0 => d # <<>>)
    BY ONLY d \in Seq(Byte)
  <2> QED
    BY ONLY <2>2, <2>3, k < L, k \in Nat
<1>2. N >= Power[L - 1]
  BY <1>1, DigitsBound
<1>3. L - 1 \in Nat /\ (k = L - 1 \/ k < L - 1)
  BY <1>1
<1> HIDE DEF L, N
<1>4. Power[k] <= Power[L - 1] /\ Power[k] \in Nat /\ Power[L - 1] \in Nat
  <2>1. k < L - 1 => Power[k] < Power[L - 1]
    BY ONLY <1>3, k \in Nat, PowersOf256
  <2>2. Power[k] \in Nat /\ Power[L - 1] \in Nat
    BY ONLY <1>3, k \in Nat, PowersOf256
  <2> QED
    BY <1>3, <2>1, <2>2
<1>5. N < Power[k]
  BY DEF N
<1> QED
  BY ONLY <1>1, <1>2, <1>4, <1>5

LEMMA InRangeIs ==
  ASSUME NEW d \in Seq(Byte), NoZeroInFront(d)
  PROVE  InRange(d) <=> Number(d, 256) < Order
<1>1. Number(d, 256) \in Nat /\ Order \in Nat /\ NumberSize \in Nat /\ Order < Power[NumberSize]
  <2>1. Order \in Nat /\ NumberSize \in Nat /\ Order < Power[NumberSize]
    BY DerAssumption
  <2>2. 256 \in Nat /\ d \in Seq(Nat)
    BY BytesAreNumbers
  <2>3. Number(d, 256) \in Nat
    BY ONLY <2>2, NumberType
  <2> QED
    BY <2>1, <2>3
<1>2. Power[NumberSize] \in Nat
  BY <1>1, PowersOf256
<1>3. Number(d, 256) < Order => Len(d) <= NumberSize
  BY <1>1, <1>2, FewDigits
<1>4. BigEndian(d) = Number(d, 256)
  BY BigEndianIs
<1> QED
  BY <1>3, <1>4 DEF InRange

SizeFits(n, size) ==
  /\ size \in 0 .. NumberSize + 1 /\ n < Power[size] /\ (n > 0 => size > 0)
  /\ (n < Power[NumberSize] => size <= NumberSize)

LEMMA SizeIs ==
  ASSUME NEW n \in Nat, n < Power[NumberSize + 1]
  PROVE  SizeFits(n, Size(n))
<1> DEFINE b == Bytes(n, NumberSize + 1)
           t == Stripped(b)
<1>1. NumberSize \in Nat /\ NumberSize + 1 \in Nat
  BY DerAssumption
<1>2. b \in Seq(Byte) /\ Len(b) = NumberSize + 1 /\ Number(b, 256) = n
  BY <1>1, BytesAre, NumberOfBytes DEF AreBytes
<1>3. t \in Seq(Byte) /\ NoZeroInFront(t) /\ Len(t) <= NumberSize + 1 /\ Number(t, 256) = n
  BY <1>2, StrippedIs DEF StrippedOf
<1>4. Size(n) = Len(t)
  BY DEF Size
<1> HIDE DEF b, t
<1>5. Len(t) \in Nat /\ n < Power[Len(t)]
  BY <1>3, DigitsBound
<1>6. n > 0 => Len(t) > 0
  <2>1. Len(t) = 0 => Power[Len(t)] = 1
    BY PowersOf256
  <2> QED
    BY <1>5, <2>1
<1>7. n < Power[NumberSize] => Len(t) <= NumberSize
  BY <1>1, <1>3, FewDigits
<1> QED
  BY <1>1, <1>3, <1>4, <1>5, <1>6, <1>7 DEF SizeFits

(* The bytes of a number in its size, with zeros in front or none.          *)
PaddedFits(n, pad, d) ==
  d \in Seq(Byte) /\ Len(d) = Size(n) + pad /\ Number(d, 256) = n

LEMMA PaddedIs ==
  ASSUME NEW n \in Nat, n < Power[NumberSize + 1], NEW pad \in Nat
  PROVE  /\ PaddedFits(n, pad, Padded(n, pad)) /\ PaddedFits(n, 0, Bytes(n, Size(n)))
         /\ Size(n) \in Nat
<1> DEFINE b == Bytes(n, Size(n))
           z == ZerosOf(pad)
<1>1. Size(n) \in Nat /\ n < Power[Size(n)]
  BY SizeIs, DerAssumption DEF SizeFits
<1>2. b \in Seq(Byte) /\ Len(b) = Size(n) /\ Number(b, 256) = n
  BY <1>1, BytesAre, NumberOfBytes DEF AreBytes
<1>3. z \in Seq(Byte) /\ Len(z) = pad
  <2>1. \A i \in 1 .. pad : z[i] \in Byte
    BY DEF ZerosOf, Byte
  <2> QED
    BY <2>1 DEF ZerosOf
<1>4. Padded(n, pad) = z \o b
  BY DEF Padded, ZerosOf
<1>5. Number(z \o b, 256) = Number(b, 256)
  BY <1>2, BytesAreNumbers, NumberOfZeros
<1> HIDE DEF z, b
<1>6. z \o b \in Seq(Byte) /\ Len(z \o b) = Len(z) + Len(b)
  <2> HIDE DEF Byte
  <2> QED
    BY ONLY <1>2, <1>3, ConcatFacts
<1>7. PaddedFits(n, pad, z \o b)
  BY <1>1, <1>2, <1>3, <1>5, <1>6 DEF PaddedFits
<1>8. PaddedFits(n, 0, b)
  BY <1>1, <1>2 DEF PaddedFits
<1> QED
  BY <1>1, <1>4, <1>7, <1>8 DEF b

-----------------------------------------------------------------------------
(* What the lax parser finds where a tag, a size or a number stands.        *)
At(c, pos) == c.pos = pos /\ c.ok = TRUE

LEMMA TagAt ==
  ASSUME NEW b \in Seq(Byte), NEW c, NEW pos \in Nat, At(c, pos), NEW tag, pos < Len(b), b[pos + 1] = tag
  PROVE  At(Tag(b, c, tag), pos + 1)
BY DEF At, Tag, Cursor

IsLength(whole) ==
  /\ whole \in Seq(Byte) /\ Len(whole) \in Nat \ {0}
  /\ Len(whole) = 1 + (IF whole[1] < High THEN 0 ELSE whole[1] - High)

LEMMA SkipLengthAt ==
  ASSUME NEW b \in Seq(Byte), NEW c, NEW pos \in Nat, At(c, pos), NEW whole, IsLength(whole), Holds(b, pos, whole)
  PROVE  At(SkipLength(b, c), pos + Len(whole))
<1>1. /\ pos + Len(whole) <= Len(b) /\ Len(b) \in Nat /\ Len(whole) \in Nat /\ Len(whole) > 0
      /\ b[pos + 1] = whole[1]
  <2>1. 1 \in 1 .. Len(whole)
    BY DEF IsLength
  <2> QED
    BY <2>1 DEF IsLength, Holds
<1>2. whole[1] \in 0 .. 255
  <2>1. whole \in Seq(Byte) /\ 1 \in 1 .. Len(whole)
    BY <1>1 DEF IsLength
  <2>2. whole[1] \in Byte
    BY ONLY <2>1, ElementOfSeq
  <2> QED
    BY <2>2 DEF Byte
<1> DEFINE more == IF b[pos + 1] < High THEN 0 ELSE b[pos + 1] - High
<1>3. Len(whole) = 1 + more
  BY <1>1 DEF IsLength
<1>4. more \in Nat
  <2>1. CASE b[pos + 1] < High
    <3>1. more = 0
      BY <2>1, Zenon
    <3> QED
      BY ONLY <3>1
  <2>2. CASE ~(b[pos + 1] < High)
    <3>1. more = b[pos + 1] - High
      BY <2>2, Zenon
    <3> DEFINE x == b[pos + 1]
    <3>2. x \in 0 .. 255 /\ ~(x < 128) /\ High = 128
      BY <1>1, <1>2, <2>2 DEF High
    <3>3. more = x - 128
      BY <3>1, <3>2
    <3> HIDE DEF x, more
    <3> QED
      BY ONLY <3>2, <3>3
  <2> QED
    BY <2>1, <2>2
<1>5. c.pos = pos /\ c.ok = TRUE /\ pos < Len(b)
  BY <1>1 DEF At
<1>6. SkipLength(b, c) = Cursor((pos + 1) + more, (pos + 1) + more <= Len(b))
  BY <1>5 DEF SkipLength
<1> HIDE DEF more
<1>7. (pos + 1) + more = pos + Len(whole) /\ (pos + 1) + more <= Len(b)
  BY <1>1, <1>3, <1>4
<1>8. SkipLength(b, c) = Cursor(pos + Len(whole), TRUE)
  BY <1>6, <1>7, Zenon
<1> QED
  BY <1>8 DEF At, Cursor

(* The forms of a size.                                                     *)
LongForm(form, size, n) ==
  /\ form \in Seq(Byte) /\ Len(form) = 1 + n /\ form[1] = High + n
  /\ \A i \in 1 .. n : form[1 + i] = Bytes(size, n)[i]

ShortForm(form, size) == form \in Seq(Byte) /\ Len(form) = 1 /\ form[1] = size /\ size < High

LEMMA FormsAre ==
  ASSUME NEW size \in 0 .. 255, NEW form \in LengthForms(size)
  PROVE  ShortForm(form, size) \/ \E n \in {1, 3} : LongForm(form, size, n)
<1>1. CASE \E n \in {1, 3} : form = <<High + n>> \o Bytes(size, n)
  <2>1. PICK n \in {1, 3} : form = <<High + n>> \o Bytes(size, n)
    BY <1>1
  <2> DEFINE h == <<High + n>>
             d == Bytes(size, n)
  <2>2. h \in Seq(Byte) /\ Len(h) = 1 /\ h[1] = High + n
    BY DEF High, Byte
  <2>3. d \in Seq(Byte) /\ Len(d) = n /\ n \in Nat
    <3>1. size \in Nat /\ n \in Nat
      OBVIOUS
    <3>2. AreBytes(d, size, n)
      BY <3>1, BytesAre
    <3> QED
      BY <3>1, <3>2 DEF AreBytes
  <2>4. form = h \o d
    BY <2>1
  <2> HIDE DEF h, d
  <2>5. /\ h \o d \in Seq(Byte) /\ Len(h \o d) = Len(h) + Len(d)
        /\ \A i \in 1 .. Len(h) : (h \o d)[i] = h[i]
        /\ \A i \in 1 .. Len(d) : (h \o d)[Len(h) + i] = d[i]
    <3> DEFINE S == Byte
    <3>1. h \in Seq(S) /\ d \in Seq(S)
      BY <2>2, <2>3
    <3> HIDE DEF S
    <3>2. /\ h \o d \in Seq(S) /\ Len(h \o d) = Len(h) + Len(d)
          /\ \A i \in 1 .. Len(h) : (h \o d)[i] = h[i]
          /\ \A i \in 1 .. Len(d) : (h \o d)[Len(h) + i] = d[i]
      BY ONLY <3>1, ConcatFacts
    <3> QED
      BY ONLY <3>2 DEF S
  <2>6. LongForm(form, size, n)
    BY <2>2, <2>3, <2>4, <2>5 DEF LongForm, d
  <2> QED
    BY <2>6
<1>2. CASE size < High /\ form = <<size>>
  BY <1>2 DEF ShortForm, Byte
<1> QED
  BY <1>1, <1>2 DEF LengthForms

SizedAt(length, pos, size) == length = Sized(pos, size, TRUE)

LEMMA LongSizeIs ==
  ASSUME NEW size \in 0 .. 255, NEW n \in {1, 3}, NEW pos
  PROVE  SizedAt(LongSize(Stripped(Bytes(size, n)), pos), pos, size)
<1> DEFINE d == Bytes(size, n)
           t == Stripped(d)
<1>1. n \in Nat /\ size \in Nat /\ size < Power[n]
  <2>1. Power[1] = 256 /\ Power[1] < Power[3] /\ Power[3] \in Nat
    BY PowersOf256
  <2> QED
    BY <2>1
<1>2. d \in Seq(Byte) /\ Number(d, 256) = size
  <2>1. AreBytes(d, size, n)
    BY <1>1, BytesAre
  <2>2. Number(d, 256) = size
    BY <1>1, NumberOfBytes
  <2> QED
    BY <2>1, <2>2 DEF AreBytes
<1>3. t \in Seq(Byte) /\ NoZeroInFront(t) /\ Number(t, 256) = size
  BY <1>2, StrippedIs DEF StrippedOf
<1> HIDE DEF d, t
<1>4. Len(t) <= 1
  <2>1. Number(t, 256) < Power[1]
    <3>1. Power[1] = 256 /\ size < 256
      BY PowersOf256
    <3> QED
      BY ONLY <1>3, <3>1
  <2> QED
    BY <1>3, <2>1, FewDigits
<1>5. Len(t) < SizeOfSize
  BY <1>3, <1>4, DerAssumption
<1>6. LongSize(t, pos) = Sized(pos, size, TRUE)
  BY <1>3, <1>5, BigEndianIs DEF LongSize
<1> QED
  BY <1>6 DEF SizedAt, d, t

LEMMA ReadLengthAt ==
  ASSUME NEW b \in Seq(Byte), NEW c, NEW pos \in Nat, At(c, pos), NEW size \in 0 .. 255,
         NEW form \in LengthForms(size), Holds(b, pos, form)
  PROVE  /\ form \in Seq(Byte) /\ Len(form) \in Nat
         /\ SizedAt(ReadLength(b, c), pos + Len(form), size)
<1>1. CASE ShortForm(form, size)
  <2>1. /\ pos + 1 <= Len(b) /\ b[pos + 1] = size /\ Len(b) \in Nat
        /\ form \in Seq(Byte) /\ Len(form) = 1
    BY <1>1 DEF ShortForm, Holds
  <2>2. c.pos = pos /\ c.ok = TRUE /\ pos # Len(b) /\ b[pos + 1] < High
    BY <1>1, <2>1 DEF At, ShortForm
  <2>3. ReadLength(b, c) = Sized(pos + 1, size, TRUE)
    BY <2>1, <2>2 DEF ReadLength
  <2> QED
    BY <2>1, <2>3 DEF SizedAt
<1>2. CASE \E n \in {1, 3} : LongForm(form, size, n)
  <2>1. PICK n \in {1, 3} : LongForm(form, size, n)
    BY <1>2
  <2>2. n \in Nat /\ form \in Seq(Byte) /\ Len(form) = 1 + n /\ form[1] = High + n
        /\ \A i \in 1 .. n : form[1 + i] = Bytes(size, n)[i]
    BY <2>1 DEF LongForm
  <2>3. /\ pos + 1 + n <= Len(b) /\ Len(b) \in Nat /\ b[pos + 1] = High + n
        /\ \A i \in 1 .. n : b[(pos + 1) + i] = Bytes(size, n)[i]
    <3>1. \A i \in 1 .. n : 1 + i \in 1 .. Len(form) /\ pos + (1 + i) = (pos + 1) + i
      BY <2>2
    <3>2. 1 \in 1 .. Len(form)
      BY <2>2
    <3> QED
      BY <2>2, <3>1, <3>2 DEF Holds
  <2>4. PartBehind(b, pos + 1, n) = Bytes(size, n)
    <3> DEFINE d == Bytes(size, n)
    <3>1. d \in Seq(Byte) /\ Len(d) = n
      <4>1. size \in Nat /\ n \in Nat
        BY <2>2
      <4>2. AreBytes(d, size, n)
        BY <4>1, BytesAre
      <4> QED
        BY <4>2 DEF AreBytes
    <3>2. \A i \in 1 .. n : b[(pos + 1) + i] = d[i]
      BY <2>3
    <3> HIDE DEF d
    <3>3. Holds(b, pos + 1, d)
      BY <2>3, <3>1, <3>2 DEF Holds
    <3>4. pos + 1 \in Nat /\ (pos + 1) + n <= Len(b)
      BY <2>3
    <3>5. \A p \in Seq(Byte) : Len(p) = n /\ Holds(b, pos + 1, p) => PartBehind(b, pos + 1, n) = p
      BY ONLY <2>2, <3>4, b \in Seq(Byte), PartBehindIs
    <3>6. PartBehind(b, pos + 1, n) = d
      BY <3>1, <3>3, <3>5
    <3> QED
      BY <3>6 DEF d
  <2>5. ReadLong(b, pos + 1, n) = LongSize(Stripped(Bytes(size, n)), (pos + 1) + n)
    BY <2>3, <2>4 DEF ReadLong, PartBehind
  <2>6. c.pos = pos /\ c.ok = TRUE /\ pos # Len(b) /\ ~(b[pos + 1] < High) /\ b[pos + 1] - High = n
    BY <2>2, <2>3 DEF At, High
  <2>7. ReadLength(b, c) = ReadLong(b, pos + 1, n)
    BY <2>6 DEF ReadLength
  <2>8. SizedAt(LongSize(Stripped(Bytes(size, n)), (pos + 1) + n), (pos + 1) + n, size)
    BY LongSizeIs
  <2>9. (pos + 1) + n = pos + Len(form) /\ Len(form) \in Nat
    BY <2>2
  <2> QED
    BY ONLY <2>2, <2>5, <2>7, <2>8, <2>9
<1> QED
  BY <1>1, <1>2, FormsAre

Found(pos, digits) == [pos |-> pos, ok |-> TRUE, digits |-> digits]

LEMMA ContentAt ==
  ASSUME NEW b \in Seq(Byte), NEW pos \in Nat, NEW d \in Seq(Byte), Holds(b, pos, d)
  PROVE  Content(b, Sized(pos, Len(d), TRUE)) = Found(pos + Len(d), Stripped(d))
<1> DEFINE n == Len(d)
<1>1. n \in Nat /\ Len(b) \in Nat /\ pos + n <= Len(b)
  BY DEF Holds
<1>2. PartBehind(b, pos, n) = d
  BY <1>1, PartBehindIs
<1> HIDE DEF n
<1>3. n <= Len(b) - pos
  BY <1>1
<1>4. Content(b, Sized(pos, n, TRUE)) = Found(pos + n, Stripped(PartBehind(b, pos, n)))
  BY <1>3 DEF Content, Sized, Found, PartBehind
<1> QED
  BY <1>2, <1>4 DEF n

(* A number behind its tag and its size.                                    *)
IntegerIn(b, pos, form, d) ==
  /\ form \in LengthForms(Len(d)) /\ d \in Seq(Byte) /\ Len(d) \in 0 .. 255
  /\ Holds(b, pos, <<INTEGER>>) /\ Holds(b, pos + 1, form) /\ Holds(b, pos + 1 + Len(form), d)

LEMMA IntegerAt ==
  ASSUME NEW b \in Seq(Byte), NEW c, NEW pos \in Nat, At(c, pos), NEW form, NEW d, IntegerIn(b, pos, form, d)
  PROVE  /\ form \in Seq(Byte) /\ Len(form) \in Nat
         /\ ReadInteger(b, c) = Found(pos + 1 + Len(form) + Len(d), Stripped(d))
<1>1. pos < Len(b) /\ b[pos + 1] = INTEGER
  <2>1. Len(<<INTEGER>>) = 1 /\ <<INTEGER>>[1] = INTEGER
    OBVIOUS
  <2> QED
    BY <2>1 DEF IntegerIn, Holds
<1>2. At(Tag(b, c, INTEGER), pos + 1)
  BY <1>1, TagAt
<1>3. /\ form \in Seq(Byte) /\ Len(form) \in Nat
      /\ SizedAt(ReadLength(b, Tag(b, c, INTEGER)), pos + 1 + Len(form), Len(d))
  <2>1. pos + 1 \in Nat /\ Len(d) \in 0 .. 255 /\ form \in LengthForms(Len(d)) /\ Holds(b, pos + 1, form)
    <3>1. pos + 1 \in Nat
      BY ONLY pos \in Nat
    <3> QED
      BY <3>1, Zenon DEF IntegerIn
  <2> QED
    BY ONLY <1>2, <2>1, b \in Seq(Byte), ReadLengthAt
<1>4. Content(b, Sized(pos + 1 + Len(form), Len(d), TRUE)) = Found(pos + 1 + Len(form) + Len(d), Stripped(d))
  <2>1. pos + 1 + Len(form) \in Nat /\ d \in Seq(Byte) /\ Holds(b, pos + 1 + Len(form), d)
    <3>1. pos + 1 \in Nat
      BY ONLY pos \in Nat
    <3>2. d \in Seq(Byte) /\ Holds(b, pos + 1 + Len(form), d)
      BY Zenon DEF IntegerIn
    <3> QED
      BY ONLY <1>3, <3>1, <3>2
  <2> QED
    BY ONLY <2>1, b \in Seq(Byte), ContentAt
<1> QED
  BY <1>3, <1>4 DEF SizedAt, ReadInteger

-----------------------------------------------------------------------------
(* A signature, its parts where they stand.                                 *)
FirstNumber(b) == ReadInteger(b, SkipLength(b, Tag(b, Cursor(0, TRUE), SEQUENCE)))
SecondNumber(b) == ReadInteger(b, FirstNumber(b))

Meaning(r, s) == IF r < Order /\ s < Order THEN Signature(r, s) ELSE Signature(0, 0)

PlaceOfSecond(whole, rForm, rDigits) == 1 + Len(whole) + 1 + Len(rForm) + Len(rDigits)

SignatureIn(b, whole, rForm, rDigits, sForm, sDigits) ==
  /\ Holds(b, 0, <<SEQUENCE>>) /\ IsLength(whole) /\ Holds(b, 1, whole)
  /\ IntegerIn(b, 1 + Len(whole), rForm, rDigits)
  /\ IntegerIn(b, PlaceOfSecond(whole, rForm, rDigits), sForm, sDigits)

NumbersIn(b, r, s, end) ==
  /\ ParseDerLax(b) = Meaning(r, s)
  /\ SecondNumber(b).ok = TRUE /\ SecondNumber(b).pos = end

LEMMA SignatureParsed ==
  ASSUME NEW b \in Seq(Byte), NEW whole, NEW rForm, NEW rDigits, NEW sForm, NEW sDigits,
         SignatureIn(b, whole, rForm, rDigits, sForm, sDigits)
  PROVE  NumbersIn(b, Number(rDigits, 256), Number(sDigits, 256),
                   PlaceOfSecond(whole, rForm, rDigits) + 1 + Len(sForm) + Len(sDigits))
<1> DEFINE second == PlaceOfSecond(whole, rForm, rDigits)
           end == second + 1 + Len(sForm) + Len(sDigits)
<1>1. At(Tag(b, Cursor(0, TRUE), SEQUENCE), 1)
  <2>1. Len(<<SEQUENCE>>) = 1 /\ <<SEQUENCE>>[1] = SEQUENCE
    OBVIOUS
  <2>2. 0 < Len(b) /\ b[0 + 1] = SEQUENCE
    BY <2>1 DEF SignatureIn, Holds
  <2>3. At(Cursor(0, TRUE), 0)
    BY DEF At, Cursor
  <2> DEFINE c == Cursor(0, TRUE)
             found == Tag(b, c, SEQUENCE)
  <2> HIDE DEF c
  <2>4. ASSUME NEW pos \in Nat, pos = 0 PROVE At(found, pos + 1)
    <3>1. pos < Len(b) /\ b[pos + 1] = SEQUENCE /\ At(c, pos)
      BY <2>2, <2>3, <2>4 DEF c
    <3> QED
      BY ONLY <3>1, b \in Seq(Byte), pos \in Nat, TagAt
  <2> HIDE DEF found
  <2>5. \A pos \in Nat : pos = 0 => At(found, pos + 1)
    BY <2>4
  <2>6. At(found, 0 + 1) /\ 0 + 1 = 1
    BY ONLY <2>5
  <2>7. At(found, 1)
    BY ONLY <2>6
  <2> QED
    BY <2>7 DEF found, c
<1>2. At(SkipLength(b, Tag(b, Cursor(0, TRUE), SEQUENCE)), 1 + Len(whole)) /\ Len(whole) \in Nat
  <2>1. IsLength(whole) /\ Holds(b, 1, whole) /\ Len(whole) \in Nat
    BY DEF SignatureIn, IsLength
  <2> QED
    BY ONLY <1>1, <2>1, b \in Seq(Byte), 1 \in Nat, SkipLengthAt
<1>3. /\ Len(rForm) \in Nat /\ FirstNumber(b) = Found(second, Stripped(rDigits))
  <2> DEFINE p == 1 + Len(whole)
             c == SkipLength(b, Tag(b, Cursor(0, TRUE), SEQUENCE))
  <2>1. p \in Nat /\ IntegerIn(b, p, rForm, rDigits) /\ At(c, p)
    <3>1. p \in Nat
      BY <1>2
    <3>2. IntegerIn(b, p, rForm, rDigits)
      BY Zenon DEF SignatureIn
    <3>3. At(c, p)
      BY <1>2, Zenon
    <3> QED
      BY <3>1, <3>2, <3>3
  <2>2. FirstNumber(b) = ReadInteger(b, c) /\ second = p + 1 + Len(rForm) + Len(rDigits)
    BY DEF FirstNumber, PlaceOfSecond
  <2> HIDE DEF p, c, second
  <2>3. /\ rForm \in Seq(Byte) /\ Len(rForm) \in Nat
        /\ ReadInteger(b, c) = Found(p + 1 + Len(rForm) + Len(rDigits), Stripped(rDigits))
    BY ONLY <2>1, b \in Seq(Byte), IntegerAt
  <2> QED
    BY ONLY <2>2, <2>3
<1>4. /\ rDigits \in Seq(Byte) /\ Len(rDigits) \in Nat /\ sDigits \in Seq(Byte)
      /\ IntegerIn(b, second, sForm, sDigits)
  <2>1. IntegerIn(b, 1 + Len(whole), rForm, rDigits) /\ IntegerIn(b, second, sForm, sDigits)
    BY Zenon DEF SignatureIn
  <2>2. rDigits \in Seq(Byte) /\ sDigits \in Seq(Byte)
    BY <2>1, Zenon DEF IntegerIn
  <2>3. Len(rDigits) \in Nat
    BY <2>2
  <2> QED
    BY ONLY <2>1, <2>2, <2>3
<1>5. second \in Nat
  BY <1>2, <1>3, <1>4 DEF PlaceOfSecond
<1> HIDE DEF second
<1>6. At(FirstNumber(b), second)
  BY <1>3 DEF At, Found
<1>7. SecondNumber(b) = Found(end, Stripped(sDigits))
  BY ONLY <1>4, <1>5, <1>6, b \in Seq(Byte), IntegerAt DEF SecondNumber
<1>8. ParseDerLax(b) = Numbers(FirstNumber(b), SecondNumber(b))
  BY Zenon DEF ParseDerLax, AfterR, FirstNumber, SecondNumber
<1> DEFINE r == Stripped(rDigits)
           s == Stripped(sDigits)
<1>9. /\ r \in Seq(Byte) /\ NoZeroInFront(r) /\ Number(r, 256) = Number(rDigits, 256)
      /\ s \in Seq(Byte) /\ NoZeroInFront(s) /\ Number(s, 256) = Number(sDigits, 256)
  BY <1>4, StrippedIs DEF StrippedOf
<1> HIDE DEF r, s, end
<1>10. Numbers(Found(second, r), Found(end, s))
         = IF InRange(r) /\ InRange(s) THEN Signature(BigEndian(r), BigEndian(s)) ELSE Signature(0, 0)
  <2>1. /\ Found(end, s).ok = TRUE /\ Found(end, s).digits = s /\ Found(second, r).digits = r
    BY DEF Found
  <2> QED
    BY ONLY <2>1, Zenon DEF Numbers
<1>11. /\ InRange(r) <=> Number(rDigits, 256) < Order
       /\ InRange(s) <=> Number(sDigits, 256) < Order
       /\ BigEndian(r) = Number(rDigits, 256) /\ BigEndian(s) = Number(sDigits, 256)
  BY <1>9, InRangeIs, BigEndianIs
<1>12. ParseDerLax(b) = Meaning(Number(rDigits, 256), Number(sDigits, 256))
  BY ONLY <1>3, <1>7, <1>8, <1>10, <1>11, Zenon DEF r, s, Meaning
<1>13. SecondNumber(b).ok = TRUE /\ SecondNumber(b).pos = end
  BY <1>7 DEF Found
<1> QED
  BY ONLY <1>12, <1>13 DEF NumbersIn, end, second

(* A part of what the parser takes apart, cut behind a place: whatever it   *)
(* finds there it finds in the whole.                                       *)
SameFound(c, d, n) == c.ok = TRUE => d.ok = TRUE /\ d.pos = c.pos /\ c.pos \in 0 .. n

LEMMA CutIs ==
  ASSUME NEW b \in Seq(Byte), NEW n \in 0 .. Len(b)
  PROVE  /\ Cut(b, n) \in Seq(Byte) /\ Len(Cut(b, n)) = n /\ n \in Nat /\ Len(b) \in Nat
         /\ \A i \in 1 .. n : Cut(b, n)[i] = b[i] /\ b[i] \in 0 .. 255
         /\ \A pos, m \in Nat : pos + m <= n => PartBehind(Cut(b, n), pos, m) = PartBehind(b, pos, m)
<1> DEFINE a == Cut(b, n)
<1>1. n \in Nat /\ n <= Len(b) /\ Len(b) \in Nat
  OBVIOUS
<1>2. a \in Seq(Byte) /\ Len(a) = n /\ \A i \in 1 .. n : a[i] = b[i]
  <2>1. /\ SubSeq(b, 1, n) \in Seq(Byte)
        /\ Len(SubSeq(b, 1, n)) = IF 1 <= n THEN n - 1 + 1 ELSE 0
        /\ \A i \in 1 .. n - 1 + 1 : SubSeq(b, 1, n)[i] = b[1 + i - 1]
    BY ONLY <1>1, b \in Seq(Byte), 1 \in Nat \ {0}, SubSeqIs
  <2>2. n - 1 + 1 = n /\ (~(1 <= n) => n = 0) /\ \A i \in 1 .. n : 1 + i - 1 = i
    BY <1>1
  <2> QED
    BY <2>1, <2>2 DEF Cut
<1> HIDE DEF a
<1>3. ASSUME NEW pos \in Nat, NEW m \in Nat, pos + m <= n PROVE PartBehind(a, pos, m) = PartBehind(b, pos, m)
  <2> DEFINE p == PartBehind(a, pos, m)
  <2>1. pos + m <= Len(a) /\ pos + m <= Len(b)
    BY <1>1, <1>2, <1>3
  <2>2. p \in Seq(Byte) /\ Len(p) = m /\ Holds(a, pos, p)
    BY <1>2, <2>1, PartBehindIs
  <2> HIDE DEF p
  <2>3. Holds(b, pos, p)
    <3>1. \A i \in 1 .. m : pos + i \in 1 .. n
      BY <1>1, <1>3
    <3>2. \A i \in 1 .. m : b[pos + i] = p[i]
      BY <1>2, <2>2, <3>1 DEF Holds
    <3> QED
      BY <2>1, <2>2, <3>2 DEF Holds
  <2>4. PartBehind(b, pos, m) = p
    BY <2>1, <2>2, <2>3, PartBehindIs
  <2> QED
    BY <2>4 DEF p
<1>4. \A i \in 1 .. n : b[i] \in 0 .. 255
  <2>1. ASSUME NEW i \in 1 .. n PROVE b[i] \in Byte
    <3>1. i \in 1 .. Len(b)
      BY <1>1
    <3> QED
      BY ONLY <3>1, b \in Seq(Byte), ElementOfSeq
  <2> QED
    BY <2>1 DEF Byte
<1> QED
  BY <1>1, <1>2, <1>3, <1>4 DEF a

LEMMA TagCut ==
  ASSUME NEW b \in Seq(Byte), NEW n \in 0 .. Len(b), NEW c, NEW d, SameFound(c, d, n), NEW tag
  PROVE  SameFound(Tag(Cut(b, n), c, tag), Tag(b, d, tag), n)
<1> DEFINE a == Cut(b, n)
<1>1. /\ Len(a) = n /\ n \in Nat /\ Len(b) \in Nat /\ n <= Len(b)
      /\ \A i \in 1 .. n : a[i] = b[i]
  BY CutIs
<1> HIDE DEF a
<1> SUFFICES ASSUME Tag(a, c, tag).ok = TRUE
             PROVE  /\ Tag(b, d, tag).ok = TRUE /\ Tag(b, d, tag).pos = Tag(a, c, tag).pos
                    /\ Tag(a, c, tag).pos \in 0 .. n
  BY DEF SameFound, a
<1>2. c.ok /\ c.pos < Len(a) /\ a[c.pos + 1] = tag /\ Tag(a, c, tag) = Cursor(c.pos + 1, TRUE)
  <2>1. ~(c.ok /\ c.pos < Len(a) /\ a[c.pos + 1] = tag) => Tag(a, c, tag).ok = FALSE
    BY DEF Tag, Cursor
  <2> QED
    BY <2>1 DEF Tag
<1>3. c.ok = TRUE
  BY <1>2, Zenon
<1>4. d.ok = TRUE /\ d.pos = c.pos /\ c.pos \in 0 .. n
  BY <1>3 DEF SameFound
<1>5. c.pos + 1 \in 1 .. n /\ c.pos < Len(b)
  BY <1>1, <1>2, <1>4
<1>6. b[d.pos + 1] = tag /\ d.pos < Len(b)
  BY <1>1, <1>2, <1>4, <1>5
<1>7. Tag(b, d, tag) = Cursor(c.pos + 1, TRUE)
  BY <1>4, <1>6 DEF Tag
<1> QED
  BY <1>2, <1>5, <1>7 DEF Cursor

LEMMA SkipLengthCut ==
  ASSUME NEW b \in Seq(Byte), NEW n \in 0 .. Len(b), NEW c, NEW d, SameFound(c, d, n)
  PROVE  SameFound(SkipLength(Cut(b, n), c), SkipLength(b, d), n)
<1> DEFINE a == Cut(b, n)
           p == c.pos + 1
           more == IF a[p] < High THEN 0 ELSE a[p] - High
           more2 == IF b[d.pos + 1] < High THEN 0 ELSE b[d.pos + 1] - High
<1>1. /\ Len(a) = n /\ n \in Nat /\ Len(b) \in Nat /\ n <= Len(b)
      /\ \A i \in 1 .. n : a[i] = b[i] /\ b[i] \in 0 .. 255
  BY CutIs
<1> HIDE DEF a
<1> SUFFICES ASSUME SkipLength(a, c).ok = TRUE
             PROVE  /\ SkipLength(b, d).ok = TRUE /\ SkipLength(b, d).pos = SkipLength(a, c).pos
                    /\ SkipLength(a, c).pos \in 0 .. n
  BY DEF SameFound, a
<1>2. c.ok /\ c.pos < Len(a)
  <2>1. ~(c.ok /\ c.pos < Len(a)) => SkipLength(a, c).ok = FALSE
    BY DEF SkipLength, Cursor
  <2> QED
    BY <2>1
<1>3. c.ok = TRUE
  BY <1>2, Zenon
<1>4. d.ok = TRUE /\ d.pos = c.pos /\ c.pos \in 0 .. n
  BY <1>3 DEF SameFound
<1>5. p \in 1 .. n /\ d.pos < Len(b) /\ d.pos + 1 = p
  BY <1>1, <1>2, <1>4
<1>6. a[p] = b[p] /\ b[p] \in 0 .. 255
  BY <1>1, <1>5
<1>7. more \in Nat
  <2> DEFINE x == a[p]
  <2>1. x \in 0 .. 255 /\ more = IF x < High THEN 0 ELSE x - High
    BY <1>6
  <2> HIDE DEF x, more
  <2> QED
    BY <2>1 DEF High
<1>8. more2 = more
  BY <1>5, <1>6
<1>9. SkipLength(a, c) = Cursor(p + more, p + more <= Len(a))
  BY <1>2 DEF SkipLength
<1>10. SkipLength(b, d) = Cursor(d.pos + 1 + more2, d.pos + 1 + more2 <= Len(b))
  BY <1>4, <1>5 DEF SkipLength
<1> HIDE DEF more, more2, p
<1>11. p + more <= n
  <2> SUFFICES ASSUME ~(p + more <= n) PROVE FALSE
    OBVIOUS
  <2>0. (p + more <= Len(a)) = FALSE
    BY <1>1
  <2>1. SkipLength(a, c) = Cursor(p + more, FALSE)
    BY ONLY <1>9, <2>0, Zenon
  <2> QED
    BY <2>1 DEF Cursor
<1>12. p + more <= Len(b) /\ p + more \in 0 .. n
  BY <1>1, <1>5, <1>7, <1>11
<1>13. SkipLength(b, d) = Cursor(p + more, TRUE)
  BY <1>5, <1>8, <1>10, <1>12, Zenon
<1>14. SkipLength(a, c) = Cursor(p + more, TRUE)
  BY <1>1, <1>9, <1>11, Zenon
<1> QED
  BY <1>12, <1>13, <1>14 DEF Cursor

SameSized(l, m, n) == l.ok = TRUE => m = l /\ l.pos \in 0 .. n /\ l.size \in Nat

LEMMA ReadLengthCut ==
  ASSUME NEW b \in Seq(Byte), NEW n \in 0 .. Len(b), NEW c, NEW d, SameFound(c, d, n)
  PROVE  SameSized(ReadLength(Cut(b, n), c), ReadLength(b, d), n)
<1> DEFINE a == Cut(b, n)
           p == c.pos + 1
           l == ReadLength(a, c)
           m == ReadLength(b, d)
<1>1. /\ a \in Seq(Byte) /\ Len(a) = n /\ n \in Nat /\ Len(b) \in Nat /\ n <= Len(b)
      /\ \A i \in 1 .. n : a[i] = b[i] /\ b[i] \in 0 .. 255
      /\ \A pos, k \in Nat : pos + k <= n => PartBehind(a, pos, k) = PartBehind(b, pos, k)
  BY CutIs
<1> HIDE DEF a
<1> SUFFICES ASSUME l.ok = TRUE PROVE m = l /\ l.pos \in 0 .. n /\ l.size \in Nat
  BY DEF SameSized, a
<1>2. c.ok /\ c.pos # Len(a)
  <2>1. ~c.ok \/ c.pos = Len(a) => l.ok = FALSE
    BY DEF ReadLength, Sized
  <2> QED
    BY <2>1
<1>3. c.ok = TRUE
  BY <1>2, Zenon
<1>4. d.ok = TRUE /\ d.pos = c.pos /\ c.pos \in 0 .. n
  BY <1>3 DEF SameFound
<1>5. p \in 1 .. n /\ p \in Nat /\ d.pos # Len(b) /\ d.pos + 1 = p
  BY <1>1, <1>2, <1>4
<1>6. a[p] = b[p] /\ b[p] \in 0 .. 255
  BY <1>1, <1>5
<1>7. l = IF a[p] < High THEN Sized(p, a[p], TRUE) ELSE ReadLong(a, p, a[p] - High)
  BY <1>2 DEF ReadLength
<1>8. m = IF b[p] < High THEN Sized(p, b[p], TRUE) ELSE ReadLong(b, p, b[p] - High)
  BY <1>4, <1>5 DEF ReadLength
<1> HIDE DEF l, m, p
<1>9. CASE a[p] < High
  <2> DEFINE x == a[p]
  <2>0. x \in 0 .. 255 /\ b[p] = x
    BY <1>6
  <2> HIDE DEF x
  <2>1. x \in Nat /\ b[p] = x
    BY ONLY <2>0
  <2>2. l = Sized(p, x, TRUE) /\ m = Sized(p, x, TRUE)
    BY <1>7, <1>8, <1>9, <2>1 DEF x
  <2>3. l.pos = p /\ l.size = x /\ p \in 0 .. n
    BY <1>5, <2>2 DEF Sized
  <2> QED
    BY ONLY <2>1, <2>2, <2>3
<1>10. CASE ~(a[p] < High)
  <2> DEFINE k == a[p] - High
             t == Stripped(PartBehind(a, p, k))
  <2>1. k \in Nat
    <3> DEFINE x == a[p]
    <3>1. x \in 0 .. 255 /\ ~(x < 128) /\ High = 128
      BY <1>6, <1>10 DEF High
    <3> HIDE DEF x
    <3>2. x - High \in Nat
      BY ONLY <3>1
    <3> QED
      BY <3>2 DEF x
  <2>2. l = ReadLong(a, p, k) /\ m = ReadLong(b, p, k)
    BY <1>6, <1>7, <1>8, <1>10
  <2> HIDE DEF k
  <2>3. p + k <= n
    <3>1. ~(p + k <= Len(a)) => l = Sized(p, 0, FALSE)
      BY <2>2 DEF ReadLong
    <3> QED
      BY <1>1, <3>1 DEF Sized
  <2>4. p + k <= Len(a) /\ p + k <= Len(b)
    BY <1>1, <1>5, <2>1, <2>3
  <2>5. PartBehind(b, p, k) = PartBehind(a, p, k)
    BY <1>1, <1>5, <2>1, <2>3
  <2>6. l = LongSize(t, p + k) /\ m = LongSize(t, p + k)
    BY <2>2, <2>4, <2>5 DEF ReadLong, PartBehind
  <2>7. PartBehind(a, p, k) \in Seq(Byte)
    BY <1>1, <1>5, <2>1, <2>4, PartBehindIs
  <2>8. t \in Seq(Nat)
    BY <2>7, StrippedIs, BytesAreNumbers DEF StrippedOf
  <2> HIDE DEF t
  <2>9. BigEndian(t) \in Nat
    BY <2>8, BigEndianIs, NumberType
  <2>10. Len(t) < SizeOfSize
    <3>1. ~(Len(t) < SizeOfSize) => l = Sized(p + k, 0, FALSE)
      BY <2>6 DEF LongSize
    <3> QED
      BY <3>1 DEF Sized
  <2>11. l = Sized(p + k, BigEndian(t), TRUE)
    BY <2>6, <2>10 DEF LongSize
  <2>12. l.pos = p + k /\ l.size = BigEndian(t)
    BY <2>11 DEF Sized
  <2>13. p + k \in 0 .. n
    BY <1>1, <1>5, <2>1, <2>3
  <2> QED
    BY ONLY <2>6, <2>9, <2>12, <2>13
<1> QED
  BY <1>9, <1>10

LEMMA ContentCut ==
  ASSUME NEW b \in Seq(Byte), NEW n \in 0 .. Len(b), NEW l, NEW m, SameSized(l, m, n)
  PROVE  SameFound(Content(Cut(b, n), l), Content(b, m), n)
<1> DEFINE a == Cut(b, n)
<1>1. /\ Len(a) = n /\ n \in Nat /\ Len(b) \in Nat /\ n <= Len(b)
  BY CutIs
<1> HIDE DEF a
<1> SUFFICES ASSUME Content(a, l).ok = TRUE
             PROVE  /\ Content(b, m).ok = TRUE /\ Content(b, m).pos = Content(a, l).pos
                    /\ Content(a, l).pos \in 0 .. n
  BY DEF SameFound, a
<1>2. l.ok /\ l.size <= Len(a) - l.pos
  <2>1. ~(l.ok /\ l.size <= Len(a) - l.pos) => Content(a, l).ok = FALSE
    BY DEF Content
  <2> QED
    BY <2>1
<1>3. l.ok = TRUE
  BY <1>2, Zenon
<1>4. m = l /\ l.pos \in 0 .. n /\ l.size \in Nat
  BY <1>3 DEF SameSized
<1>5. Content(a, l).pos = l.pos + l.size
  BY <1>2 DEF Content
<1>6. l.size <= Len(b) - l.pos /\ l.pos + l.size \in 0 .. n
  BY <1>1, <1>2, <1>4
<1>7. Content(b, l).pos = l.pos + l.size /\ Content(b, l).ok = TRUE
  BY <1>3, <1>6 DEF Content
<1> QED
  BY <1>4, <1>5, <1>6, <1>7

LEMMA IntegerCut ==
  ASSUME NEW b \in Seq(Byte), NEW n \in 0 .. Len(b), NEW c, NEW d, SameFound(c, d, n)
  PROVE  SameFound(ReadInteger(Cut(b, n), c), ReadInteger(b, d), n)
BY TagCut, ReadLengthCut, ContentCut DEF ReadInteger

(* A cut signature is none.                                                 *)
LEMMA CutSignature ==
  ASSUME NEW b \in Seq(Byte), NEW end, SecondNumber(b).pos = end, NEW n \in 0 .. Len(b), n < end
  PROVE  ParseDerLax(Cut(b, n)) = Unparsable
<1> DEFINE a == Cut(b, n)
<1>1. SameFound(Cursor(0, TRUE), Cursor(0, TRUE), n)
  BY DEF SameFound, Cursor
<1>2. SameFound(Tag(a, Cursor(0, TRUE), SEQUENCE), Tag(b, Cursor(0, TRUE), SEQUENCE), n)
  BY <1>1, TagCut
<1>3. SameFound(FirstNumber(a), FirstNumber(b), n)
  BY <1>2, SkipLengthCut, IntegerCut DEF FirstNumber
<1>4. SameFound(SecondNumber(a), SecondNumber(b), n)
  BY <1>3, IntegerCut DEF SecondNumber
<1> HIDE DEF a
<1>5. ~(SecondNumber(a).ok = TRUE)
  BY <1>4 DEF SameFound
<1>6. ~SecondNumber(a).ok
  BY <1>5, Zenon
<1>7. ParseDerLax(a) = Numbers(FirstNumber(a), SecondNumber(a))
  BY Zenon DEF ParseDerLax, AfterR, FirstNumber, SecondNumber
<1>8. ParseDerLax(a) = Unparsable
  BY ONLY <1>6, <1>7, Zenon DEF Numbers
<1> QED
  BY <1>8 DEF a

-----------------------------------------------------------------------------
(* A signature is written with its numbers where they are looked for.       *)
LEMMA PartsAre ==
  ASSUME NEW x \in Seq(Byte), NEW s \in Seq(Byte)
  PROVE  x \o s \in Seq(Byte) /\ Len(x \o s) = Len(x) + Len(s) /\ Len(x) \in Nat /\ Len(s) \in Nat
<1> DEFINE S == Byte
<1>1. x \in Seq(S) /\ s \in Seq(S)
  OBVIOUS
<1> HIDE DEF S
<1>2. x \o s \in Seq(S) /\ Len(x \o s) = Len(x) + Len(s) /\ Len(x) \in Nat /\ Len(s) \in Nat
  BY ONLY <1>1, ConcatFacts
<1> QED
  BY ONLY <1>2 DEF S

LEMMA PartsHold ==
  ASSUME NEW b \in Seq(Byte), NEW x \in Seq(Byte), NEW s \in Seq(Byte)
  PROVE  Holds(b, 0, x \o s) => Holds(b, 0, x) /\ Holds(b, Len(x), s)
<1> DEFINE S == Byte
<1>0. b \in Seq(S) /\ x \in Seq(S) /\ s \in Seq(S)
  OBVIOUS
<1> HIDE DEF S
<1>1. Len(x) \in Nat
  BY ONLY <1>0
<1>2. Holds(b, 0, x \o s) <=> Holds(b, 0, x) /\ Holds(b, 0 + Len(x), s)
  BY ONLY <1>0, 0 \in Nat, HoldsConcat
<1>3. 0 + Len(x) = Len(x)
  BY <1>1
<1> QED
  BY ONLY <1>1, <1>2, <1>3 DEF S

LEMMA WholeHolds ==
  ASSUME NEW b \in Seq(Byte)
  PROVE  Holds(b, 0, b)
<1>1. Len(b) \in Nat
  OBVIOUS
<1> QED
  BY <1>1 DEF Holds

Joined(whole, rForm, rDigits, sForm, sDigits) ==
  <<SEQUENCE>> \o whole \o <<INTEGER>> \o rForm \o rDigits \o <<INTEGER>> \o sForm \o sDigits

LEMMA TagsAreBytes == /\ <<SEQUENCE>> \in Seq(Byte) /\ Len(<<SEQUENCE>>) = 1
                      /\ <<INTEGER>> \in Seq(Byte) /\ Len(<<INTEGER>>) = 1
BY DEF SEQUENCE, INTEGER, Byte

LEMMA JoinedHolds ==
  ASSUME NEW whole, IsLength(whole), NEW rDigits \in Seq(Byte), Len(rDigits) <= 255,
         NEW sDigits \in Seq(Byte), Len(sDigits) <= 255,
         NEW rForm \in LengthForms(Len(rDigits)), NEW sForm \in LengthForms(Len(sDigits)),
         NEW end \in Seq(Byte), NEW b, b = Joined(whole, rForm, rDigits, sForm, sDigits) \o end
  PROVE  /\ b \in Seq(Byte) /\ SignatureIn(b, whole, rForm, rDigits, sForm, sDigits)
         /\ Len(Joined(whole, rForm, rDigits, sForm, sDigits))
              = PlaceOfSecond(whole, rForm, rDigits) + 1 + Len(sForm) + Len(sDigits)
         /\ Len(Joined(whole, rForm, rDigits, sForm, sDigits)) \in 0 .. Len(b)
<1>1. /\ whole \in Seq(Byte) /\ Len(whole) \in Nat /\ Len(rDigits) \in 0 .. 255 /\ Len(sDigits) \in 0 .. 255
  <2>1. whole \in Seq(Byte) /\ Len(whole) \in Nat
    BY DEF IsLength
  <2>2. Len(rDigits) \in Nat /\ Len(sDigits) \in Nat
    OBVIOUS
  <2>3. Len(rDigits) <= 255 /\ Len(sDigits) <= 255
    OBVIOUS
  <2>4. \A n \in Nat : n <= 255 => n \in 0 .. 255
    OBVIOUS
  <2> QED
    BY ONLY <2>1, <2>2, <2>3, <2>4, Zenon
<1>2. /\ rForm \in Seq(Byte) /\ Len(rForm) \in Nat /\ sForm \in Seq(Byte) /\ Len(sForm) \in Nat
  <2>1. ShortForm(rForm, Len(rDigits)) \/ \E n \in {1, 3} : LongForm(rForm, Len(rDigits), n)
    BY ONLY <1>1, rForm \in LengthForms(Len(rDigits)), FormsAre
  <2>2. ShortForm(sForm, Len(sDigits)) \/ \E n \in {1, 3} : LongForm(sForm, Len(sDigits), n)
    BY ONLY <1>1, sForm \in LengthForms(Len(sDigits)), FormsAre
  <2>3. rForm \in Seq(Byte) /\ sForm \in Seq(Byte)
    BY ONLY <2>1, <2>2 DEF ShortForm, LongForm
  <2> QED
    BY <2>3
<1> DEFINE t == <<SEQUENCE>>
           i == <<INTEGER>>
           x1 == t \o whole
           x2 == x1 \o i
           x3 == x2 \o rForm
           x4 == x3 \o rDigits
           x5 == x4 \o i
           x6 == x5 \o sForm
           x7 == x6 \o sDigits
<1>3. t \in Seq(Byte) /\ Len(t) = 1 /\ i \in Seq(Byte) /\ Len(i) = 1
  BY TagsAreBytes
<1>4. b = x7 \o end
  BY DEF Joined
<1>5. x7 = Joined(whole, rForm, rDigits, sForm, sDigits)
  BY DEF Joined
<1> HIDE DEF t, i
<1>6. x1 \in Seq(Byte) /\ Len(x1) = 1 + Len(whole)
  <2>1. t \in Seq(Byte) /\ whole \in Seq(Byte)
    BY <1>1, <1>3
  <2>2. x1 \in Seq(Byte) /\ Len(x1) = Len(t) + Len(whole)
    BY ONLY <2>1, PartsAre
  <2> QED
    BY ONLY <1>3, <2>2
<1> HIDE DEF x1
<1>7. x2 \in Seq(Byte) /\ Len(x2) = 1 + Len(whole) + 1
  BY ONLY <1>1, <1>3, <1>6, PartsAre
<1> HIDE DEF x2
<1>8. x3 \in Seq(Byte) /\ Len(x3) = 1 + Len(whole) + 1 + Len(rForm)
  BY ONLY <1>1, <1>2, <1>7, PartsAre
<1> HIDE DEF x3
<1>9. x4 \in Seq(Byte) /\ Len(x4) = 1 + Len(whole) + 1 + Len(rForm) + Len(rDigits)
  BY ONLY <1>1, <1>2, <1>8, rDigits \in Seq(Byte), PartsAre
<1> HIDE DEF x4
<1>10. x5 \in Seq(Byte) /\ Len(x5) = 1 + Len(whole) + 1 + Len(rForm) + Len(rDigits) + 1
  BY ONLY <1>1, <1>2, <1>3, <1>9, PartsAre
<1> HIDE DEF x5
<1>11. x6 \in Seq(Byte) /\ Len(x6) = 1 + Len(whole) + 1 + Len(rForm) + Len(rDigits) + 1 + Len(sForm)
  BY ONLY <1>1, <1>2, <1>10, PartsAre
<1> HIDE DEF x6
<1>12. x7 \in Seq(Byte) /\ Len(x7) = 1 + Len(whole) + 1 + Len(rForm) + Len(rDigits) + 1 + Len(sForm) + Len(sDigits)
  BY ONLY <1>1, <1>2, <1>11, sDigits \in Seq(Byte), PartsAre
<1> HIDE DEF x7
<1>13. b \in Seq(Byte) /\ Len(b) = Len(x7) + Len(end) /\ Len(end) \in Nat
  BY ONLY <1>4, <1>12, end \in Seq(Byte), PartsAre
<1>14. Holds(b, 0, x7)
  <2>1. Holds(b, 0, x7 \o end)
    BY <1>4, <1>13, WholeHolds
  <2> QED
    BY ONLY <1>12, <1>13, <2>1, end \in Seq(Byte), PartsHold
<1>15. Holds(b, 0, x6) /\ Holds(b, Len(x6), sDigits)
  BY ONLY <1>11, <1>13, <1>14, sDigits \in Seq(Byte), PartsHold DEF x7
<1>16. Holds(b, 0, x5) /\ Holds(b, Len(x5), sForm)
  BY ONLY <1>2, <1>10, <1>13, <1>15, PartsHold DEF x6
<1>17. Holds(b, 0, x4) /\ Holds(b, Len(x4), i)
  BY ONLY <1>3, <1>9, <1>13, <1>16, PartsHold DEF x5
<1>18. Holds(b, 0, x3) /\ Holds(b, Len(x3), rDigits)
  BY ONLY <1>8, <1>13, <1>17, rDigits \in Seq(Byte), PartsHold DEF x4
<1>19. Holds(b, 0, x2) /\ Holds(b, Len(x2), rForm)
  BY ONLY <1>2, <1>7, <1>13, <1>18, PartsHold DEF x3
<1>20. Holds(b, 0, x1) /\ Holds(b, Len(x1), i)
  BY ONLY <1>3, <1>6, <1>13, <1>19, PartsHold DEF x2
<1>21. Holds(b, 0, t) /\ Holds(b, Len(t), whole)
  BY ONLY <1>1, <1>3, <1>13, <1>20, PartsHold DEF x1
<1> DEFINE p == 1 + Len(whole)
           q == PlaceOfSecond(whole, rForm, rDigits)
<1>22. /\ Len(x1) = p /\ Len(x2) = p + 1 /\ Len(x3) = p + 1 + Len(rForm)
       /\ Len(x4) = q /\ Len(x5) = q + 1 /\ Len(x6) = q + 1 + Len(sForm)
       /\ Len(x7) = q + 1 + Len(sForm) + Len(sDigits)
  BY ONLY <1>1, <1>2, <1>6, <1>7, <1>8, <1>9, <1>10, <1>11, <1>12 DEF PlaceOfSecond
<1> HIDE DEF p, q
<1>23. IntegerIn(b, p, rForm, rDigits)
  BY ONLY <1>1, <1>18, <1>19, <1>20, <1>22, rDigits \in Seq(Byte), rForm \in LengthForms(Len(rDigits)), Zenon
     DEF IntegerIn, i
<1>24. IntegerIn(b, q, sForm, sDigits)
  BY ONLY <1>1, <1>15, <1>16, <1>17, <1>22, sDigits \in Seq(Byte), sForm \in LengthForms(Len(sDigits)), Zenon
     DEF IntegerIn, i
<1>25. SignatureIn(b, whole, rForm, rDigits, sForm, sDigits)
  BY ONLY <1>3, <1>21, <1>23, <1>24, IsLength(whole), Zenon DEF SignatureIn, t, p, q
<1>26. Len(x7) \in 0 .. Len(b)
  <2>1. Len(x7) \in Nat
    BY <1>12
  <2> QED
    BY ONLY <1>13, <2>1
<1> QED
  BY ONLY <1>5, <1>13, <1>22, <1>25, <1>26 DEF q

SignatureWritten(e) ==
  /\ e.bytes \in Seq(Byte) /\ e.end \in 0 .. Len(e.bytes)
  /\ NumbersIn(e.bytes, e.r, e.s, e.end)

LEMMA WholesAre ==
  \A whole \in {<<0>>, <<High>>, <<High + 2, 7, INTEGER>>} : IsLength(whole)
<1> TAKE whole \in {<<0>>, <<High>>, <<High + 2, 7, INTEGER>>}
<1>1. CASE whole = <<0>>
  BY <1>1 DEF IsLength, High, Byte
<1>2. CASE whole = <<High>>
  BY <1>2 DEF IsLength, High, Byte
<1>3. CASE whole = <<High + 2, 7, INTEGER>>
  BY <1>3 DEF IsLength, High, Byte, INTEGER
<1> QED
  BY <1>1, <1>2, <1>3

LEMMA ValuesAre ==
  /\ \A n \in Value : n \in Nat /\ n < Power[NumberSize + 1]
  /\ \A pad \in Padding : pad \in Nat /\ NumberSize + 1 + pad < 256
  /\ NumberSize \in Nat
BY KeysAssumption, DerAssumption

LEMMA WriteSignatureStep ==
  ASSUME WriteSignature
  PROVE  encoded'.of = "signature" /\ SignatureWritten(encoded')
<1> DEFINE Made(r, s, pad, whole, rForm, sForm, end) ==
             encoded' = [of |-> "signature", r |-> r, s |-> s,
                         end |-> Len(Joined(whole, rForm, Padded(r, pad), sForm, Bytes(s, Size(s)))),
                         bytes |-> Joined(whole, rForm, Padded(r, pad), sForm, Bytes(s, Size(s))) \o end]
<1>0. PICK r \in Value, s \in Value, pad \in Padding,
           whole \in {<<0>>, <<High>>, <<High + 2, 7, INTEGER>>} :
        \E rForm \in LengthForms(Size(r) + pad), sForm \in LengthForms(Size(s)), end \in {<<>>, <<INTEGER, 1>>} :
          Made(r, s, pad, whole, rForm, sForm, end)
  BY Zenon DEF WriteSignature, Joined
<1>1. PICK rForm \in LengthForms(Size(r) + pad), sForm \in LengthForms(Size(s)), end \in {<<>>, <<INTEGER, 1>>} :
        Made(r, s, pad, whole, rForm, sForm, end)
  BY <1>0, Zenon
<1> DEFINE rDigits == Padded(r, pad)
           sDigits == Bytes(s, Size(s))
           j == Joined(whole, rForm, rDigits, sForm, sDigits)
           b == j \o end
<1>2. /\ r \in Nat /\ s \in Nat /\ r < Power[NumberSize + 1] /\ s < Power[NumberSize + 1]
      /\ pad \in Nat /\ NumberSize + 1 + pad < 256 /\ NumberSize \in Nat
  BY ValuesAre
<1>3. /\ rDigits \in Seq(Byte) /\ Len(rDigits) = Size(r) + pad /\ Number(rDigits, 256) = r
      /\ sDigits \in Seq(Byte) /\ Len(sDigits) = Size(s) + 0 /\ Number(sDigits, 256) = s
      /\ Size(r) \in 0 .. NumberSize + 1 /\ Size(s) \in 0 .. NumberSize + 1
  <2>1. PaddedFits(r, pad, rDigits) /\ SizeFits(r, Size(r))
    BY ONLY <1>2, PaddedIs, SizeIs
  <2>2. PaddedFits(s, 0, sDigits) /\ SizeFits(s, Size(s))
    BY ONLY <1>2, PaddedIs, SizeIs
  <2> HIDE DEF rDigits, sDigits
  <2> QED
    BY ONLY <2>1, <2>2 DEF PaddedFits, SizeFits
<1>4. end \in Seq(Byte)
  <2>1. CASE end = <<>>
    BY <2>1
  <2>2. CASE end = <<INTEGER, 1>>
    BY <2>2 DEF INTEGER, Byte
  <2> QED
    BY <2>1, <2>2
<1> HIDE DEF rDigits, sDigits
<1>5. Len(rDigits) <= 255 /\ Len(sDigits) <= 255 /\ Len(sDigits) = Size(s)
  BY ONLY <1>2, <1>3
<1>6. rForm \in LengthForms(Len(rDigits)) /\ sForm \in LengthForms(Len(sDigits)) /\ IsLength(whole)
  BY <1>3, <1>5, WholesAre
<1>7. /\ b \in Seq(Byte) /\ SignatureIn(b, whole, rForm, rDigits, sForm, sDigits)
      /\ Len(j) = PlaceOfSecond(whole, rForm, rDigits) + 1 + Len(sForm) + Len(sDigits)
      /\ Len(j) \in 0 .. Len(b)
  BY ONLY <1>3, <1>4, <1>5, <1>6, JoinedHolds, ZenonT(40)
<1>8. encoded' = [of |-> "signature", r |-> r, s |-> s, end |-> Len(j), bytes |-> b]
  BY <1>1, Zenon DEF rDigits, sDigits
<1> HIDE DEF j, b
<1>9. NumbersIn(b, r, s, Len(j))
  <2>1. NumbersIn(b, Number(rDigits, 256), Number(sDigits, 256),
                  PlaceOfSecond(whole, rForm, rDigits) + 1 + Len(sForm) + Len(sDigits))
    <3>1. b \in Seq(Byte) /\ SignatureIn(b, whole, rForm, rDigits, sForm, sDigits)
      BY ONLY <1>7
    <3> QED
      BY ONLY <3>1, SignatureParsed
  <2> QED
    BY ONLY <1>3, <1>7, <2>1, Zenon
<1> QED
  BY ONLY <1>7, <1>8, <1>9 DEF SignatureWritten

LEMMA WrittenSignatureIsRead ==
  ASSUME encoded.of = "signature" => SignatureWritten(encoded)
  PROVE  SignatureIsRead
<1> SUFFICES ASSUME encoded.of = "signature"
             PROVE  /\ ParseDerLax(encoded.bytes) = IF encoded.r < Order /\ encoded.s < Order
                                                    THEN Signature(encoded.r, encoded.s) ELSE Signature(0, 0)
                    /\ \A n \in 0 .. encoded.end - 1 : ParseDerLax(Cut(encoded.bytes, n)) = Unparsable
  BY Zenon DEF SignatureIsRead
<1> DEFINE b == encoded.bytes
           end == encoded.end
<1>1. b \in Seq(Byte) /\ end \in 0 .. Len(b) /\ NumbersIn(b, encoded.r, encoded.s, end)
  BY DEF SignatureWritten
<1>2. ParseDerLax(b) = Meaning(encoded.r, encoded.s) /\ SecondNumber(b).pos = end
  BY <1>1 DEF NumbersIn
<1>3. ASSUME NEW n \in 0 .. end - 1 PROVE ParseDerLax(Cut(b, n)) = Unparsable
  <2> HIDE DEF b, end
  <2>1. n \in 0 .. Len(b) /\ n < end
    <3>1. Len(b) \in Nat
      BY <1>1
    <3> QED
      BY <1>1, <3>1
  <2> QED
    BY ONLY <1>1, <1>2, <2>1, CutSignature
<1> QED
  BY <1>2, <1>3, Zenon DEF Meaning

-----------------------------------------------------------------------------
(* A private key, its parts where they stand.                               *)
KeyIn(b, ls, number) ==
  /\ b \in Seq(Byte) /\ ls \in {1, 2} /\ 2 + ls + 5 + NumberSize <= Len(b)
  /\ b[1] = SEQUENCE /\ b[2] = High + ls
  /\ BigEndian(PartBehind(b, 2, ls)) = Len(b) - 2 - ls
  /\ PartBehind(b, 2 + ls, 4) = <<INTEGER, 1, 1, OCTETS>>
  /\ b[2 + ls + 5] = NumberSize
  /\ BigEndian(PartBehind(b, 2 + ls + 5, NumberSize)) = number

LEMMA KeyImported ==
  ASSUME NEW b, NEW ls, NEW number, KeyIn(b, ls, number), IsKey(number)
  PROVE  ImportDer(b) = number
<1> DEFINE start == 2 + ls
           size == Len(b) - 2 - ls
<1>1. /\ ls \in {1, 2} /\ start \in Nat /\ Len(b) \in Nat /\ NumberSize \in Nat
      /\ start + 5 + NumberSize <= Len(b)
  <2>1. ls \in {1, 2} /\ b \in Seq(Byte) /\ start + 5 + NumberSize <= Len(b)
    BY Zenon DEF KeyIn
  <2>2. NumberSize \in Nat
    BY ONLY DerAssumption
  <2> QED
    BY ONLY <2>1, <2>2
<1>2. b[1] = SEQUENCE /\ b[2] - High = ls /\ b[start + 5] = NumberSize
  BY <1>1 DEF KeyIn, High
<1>3. BigEndian(SubSeq(b, 3, start)) = size
  <2>1. 2 + 1 = 3
    OBVIOUS
  <2> QED
    BY <2>1 DEF KeyIn, PartBehind
<1>4. SubSeq(b, start + 1, start + 4) = <<INTEGER, 1, 1, OCTETS>>
  BY Zenon DEF KeyIn, PartBehind
<1>5. BigEndian(SubSeq(b, start + 6, start + 5 + NumberSize)) = number
  <2>1. start + 5 + 1 = start + 6
    BY <1>1
  <2>2. BigEndian(SubSeq(b, start + 5 + 1, start + 5 + NumberSize)) = number
    BY Zenon DEF KeyIn, PartBehind
  <2> QED
    BY ONLY <2>1, <2>2
<1>6. start + size <= Len(b) /\ start + 5 <= Len(b)
  BY <1>1
<1> HIDE DEF start, size
<1>7. ImportContent(b, start, size) = number
  BY <1>1, <1>2, <1>4, <1>5, <1>6 DEF ImportContent
<1>8. Len(b) >= 2 /\ Len(b) >= 2 + ls
  BY <1>1 DEF start
<1> QED
  BY <1>1, <1>2, <1>3, <1>7, <1>8 DEF ImportDer, start

(* The size says how much is to come: a key that is cut is none.            *)
LEMMA CutKey ==
  ASSUME NEW b, NEW ls, NEW number, KeyIn(b, ls, number), NEW n \in 0 .. Len(b), n < Len(b)
  PROVE  ImportDer(Cut(b, n)) = 0
<1> DEFINE a == Cut(b, n)
           more == a[2] - High
<1>0. b \in Seq(Byte) /\ ls \in {1, 2} /\ b[2] = High + ls /\ BigEndian(PartBehind(b, 2, ls)) = Len(b) - 2 - ls
  BY Zenon DEF KeyIn
<1>1. /\ Len(a) = n /\ n \in Nat /\ Len(b) \in Nat
      /\ \A i \in 1 .. n : a[i] = b[i]
      /\ \A pos, m \in Nat : pos + m <= n => PartBehind(a, pos, m) = PartBehind(b, pos, m)
  BY <1>0, CutIs
<1> HIDE DEF a
<1> SUFFICES ASSUME ImportDer(a) # 0 PROVE FALSE
  BY DEF a
<1>2. /\ Len(a) >= 2 /\ more \in {1, 2} /\ Len(a) >= 2 + more
      /\ ImportDer(a) = ImportContent(a, 2 + more, BigEndian(SubSeq(a, 3, 2 + more)))
  BY DEF ImportDer
<1>3. more = ls
  <2>1. 2 \in 1 .. n
    BY <1>1, <1>2
  <2>2. a[2] = b[2]
    BY <1>1, <2>1
  <2> QED
    BY <1>0, <2>2 DEF High
<1> HIDE DEF more
<1>4. BigEndian(SubSeq(a, 3, 2 + ls)) = Len(b) - 2 - ls
  <2>1. 2 + ls <= n /\ ls \in Nat /\ 2 \in Nat
    BY <1>0, <1>1, <1>2, <1>3
  <2>2. PartBehind(a, 2, ls) = PartBehind(b, 2, ls)
    BY ONLY <1>1, <2>1
  <2>3. SubSeq(a, 3, 2 + ls) = PartBehind(a, 2, ls)
    <3>1. 2 + 1 = 3
      OBVIOUS
    <3> QED
      BY ONLY <3>1 DEF PartBehind
  <2> QED
    BY ONLY <1>0, <2>2, <2>3
<1>5. ~((2 + ls) + (Len(b) - 2 - ls) <= Len(a))
  BY <1>0, <1>1
<1>6. ImportContent(a, 2 + ls, Len(b) - 2 - ls) = 0
  BY ONLY <1>5 DEF ImportContent
<1> QED
  BY ONLY <1>2, <1>3, <1>4, <1>6, ImportDer(a) # 0

OnesOf(n) == [i \in 1 .. n |-> 1]
HeadOf(ls) == <<SEQUENCE, High + ls>>
StartOfKey == <<INTEGER, 1, 1, OCTETS, NumberSize>>

LEMMA KeyPartsAre ==
  /\ NumberSize \in Nat /\ ShortTail \in Nat /\ LongTail \in Nat
  /\ \A ls \in {1, 2} : HeadOf(ls) \in Seq(Byte) /\ Len(HeadOf(ls)) = 2
                        /\ HeadOf(ls)[1] = SEQUENCE /\ HeadOf(ls)[2] = High + ls
  /\ StartOfKey \in Seq(Byte) /\ Len(StartOfKey) = 5
  /\ \A n \in Nat : OnesOf(n) \in Seq(Byte) /\ Len(OnesOf(n)) = n
<1>1. NumberSize \in 0 .. 255 /\ ShortTail \in Nat /\ LongTail \in Nat
  <2>1. NumberSize \in Nat /\ ShortTail \in Nat /\ LongTail \in Nat
    BY DerAssumption
  <2>2. NumberSize < 61
    BY SizesAssumption
  <2> QED
    BY ONLY <2>1, <2>2
<1>2. \A ls \in {1, 2} : HeadOf(ls) \in Seq(Byte) /\ Len(HeadOf(ls)) = 2
                         /\ HeadOf(ls)[1] = SEQUENCE /\ HeadOf(ls)[2] = High + ls
  BY DEF HeadOf, SEQUENCE, High, Byte
<1>3. StartOfKey \in Seq(Byte) /\ Len(StartOfKey) = 5
  BY <1>1 DEF StartOfKey, INTEGER, OCTETS, Byte
<1>4. ASSUME NEW n \in Nat PROVE OnesOf(n) \in Seq(Byte) /\ Len(OnesOf(n)) = n
  BY DEF OnesOf, Byte
<1> QED
  BY <1>1, <1>2, <1>3, <1>4

SizeInHead(ls, size) == ls \in {1, 2} /\ size \in Nat /\ size < Power[ls]

LEMMA KeyLaidOut ==
  ASSUME NEW number \in Nat, number < Power[NumberSize], NEW ls, NEW tail \in Nat,
         SizeInHead(ls, 5 + NumberSize + tail), NEW content, NEW b,
         content = StartOfKey \o Bytes(number, NumberSize) \o OnesOf(tail),
         b = HeadOf(ls) \o Bytes(Len(content), ls) \o content
  PROVE  KeyIn(b, ls, number)
<1> DEFINE h == HeadOf(ls)
           k == StartOfKey
           d == Bytes(number, NumberSize)
           o == OnesOf(tail)
           y == k \o d
           l == Bytes(Len(content), ls)
           x == h \o l
<1>1. /\ NumberSize \in Nat /\ ls \in {1, 2} /\ ls \in Nat /\ h \in Seq(Byte) /\ Len(h) = 2
      /\ h[1] = SEQUENCE /\ h[2] = High + ls /\ k \in Seq(Byte) /\ Len(k) = 5
      /\ o \in Seq(Byte) /\ Len(o) = tail
  BY KeyPartsAre DEF SizeInHead
<1>2. d \in Seq(Byte) /\ Len(d) = NumberSize /\ Number(d, 256) = number
  <2>1. number \in Nat /\ NumberSize \in Nat /\ number < Power[NumberSize]
    BY <1>1
  <2>2. AreBytes(d, number, NumberSize) /\ Number(d, 256) = number
    BY ONLY <2>1, BytesAre, NumberOfBytes
  <2> HIDE DEF d
  <2> QED
    BY ONLY <2>2 DEF AreBytes
<1>3. content = y \o o
  OBVIOUS
<1> HIDE DEF h, k, d, o
<1>4. y \in Seq(Byte) /\ Len(y) = 5 + NumberSize
  BY ONLY <1>1, <1>2, PartsAre
<1> HIDE DEF y
<1>5. content \in Seq(Byte) /\ Len(content) = 5 + NumberSize + tail
  BY ONLY <1>1, <1>3, <1>4, PartsAre
<1>6. l \in Seq(Byte) /\ Len(l) = ls /\ Number(l, 256) = Len(content)
  <2>1. Len(content) \in Nat /\ Len(content) < Power[ls] /\ ls \in Nat
    BY <1>1, <1>5 DEF SizeInHead
  <2>2. AreBytes(l, Len(content), ls) /\ Number(l, 256) = Len(content)
    BY ONLY <2>1, BytesAre, NumberOfBytes
  <2> QED
    BY ONLY <2>2 DEF AreBytes
<1>7. b = x \o content
  BY DEF h
<1> HIDE DEF l
<1>8. x \in Seq(Byte) /\ Len(x) = 2 + ls
  <2>1. h \in Seq(Byte) /\ l \in Seq(Byte)
    BY ONLY <1>1, <1>6
  <2>2. x \in Seq(Byte) /\ Len(x) = Len(h) + Len(l)
    BY ONLY <2>1, PartsAre
  <2> QED
    BY ONLY <1>1, <1>6, <2>2
<1> HIDE DEF x
<1>9. b \in Seq(Byte) /\ Len(b) = 2 + ls + Len(content)
  BY ONLY <1>5, <1>7, <1>8, PartsAre
<1>10. Holds(b, 0, x) /\ Holds(b, 2 + ls, content)
  <2>1. Holds(b, 0, x \o content)
    BY <1>7, <1>9, WholeHolds
  <2>2. Holds(b, 0, x) /\ Holds(b, Len(x), content)
    BY ONLY <1>5, <1>8, <1>9, <2>1, PartsHold
  <2> QED
    BY ONLY <1>8, <2>2
<1>11. Holds(b, 0, h) /\ Holds(b, 2, l)
  <2>1. Holds(b, 0, h) /\ Holds(b, Len(h), l)
    BY ONLY <1>1, <1>6, <1>9, <1>10, PartsHold DEF x
  <2> QED
    BY ONLY <1>1, <2>1
<1> DEFINE S == Byte
           p == 2 + ls
<1>12. b \in Seq(S) /\ k \in Seq(S) /\ d \in Seq(S) /\ o \in Seq(S) /\ y \in Seq(S) /\ p \in Nat
  BY ONLY <1>1, <1>2, <1>4, <1>9
<1>13. Holds(b, p, y \o o)
  BY ONLY <1>3, <1>10
<1> HIDE DEF S, p
<1>14. Holds(b, p, y)
  BY ONLY <1>12, <1>13, HoldsConcat
<1>15. Holds(b, p, k) /\ Holds(b, p + 5, d)
  <2>1. Holds(b, p, k) /\ Holds(b, p + Len(k), d)
    BY ONLY <1>12, <1>14, HoldsConcat DEF y
  <2> QED
    BY ONLY <1>1, <2>1
<1>16. b[1] = SEQUENCE /\ b[2] = High + ls
  <2>1. 1 \in 1 .. Len(h) /\ 2 \in 1 .. Len(h)
    BY <1>1
  <2>2. b[0 + 1] = h[1] /\ b[0 + 2] = h[2]
    BY ONLY <1>11, <2>1 DEF Holds
  <2>3. 0 + 1 = 1 /\ 0 + 2 = 2
    OBVIOUS
  <2> QED
    BY ONLY <1>1, <2>2, <2>3
<1>17. PartBehind(b, 2, ls) = l
  <2>1. 2 \in Nat /\ ls \in Nat /\ 2 + ls <= Len(b)
    BY <1>1, <1>5, <1>9
  <2> QED
    BY ONLY <1>6, <1>9, <1>11, <2>1, PartBehindIs
<1>18. p + 5 + NumberSize <= Len(b) /\ Len(content) = Len(b) - 2 - ls
  BY <1>1, <1>5, <1>9 DEF p
<1>19. PartBehind(b, p + 5, NumberSize) = d
  <2>1. p + 5 \in Nat /\ NumberSize \in Nat /\ (p + 5) + NumberSize <= Len(b)
    BY <1>1, <1>12, <1>18
  <2> QED
    BY ONLY <1>2, <1>9, <1>15, <2>1, PartBehindIs
<1>20. /\ b[p + 1] = INTEGER /\ b[p + 2] = 1 /\ b[p + 3] = 1 /\ b[p + 4] = OCTETS /\ b[p + 5] = NumberSize
  <2>1. k[1] = INTEGER /\ k[2] = 1 /\ k[3] = 1 /\ k[4] = OCTETS /\ k[5] = NumberSize
    BY DEF k, StartOfKey
  <2>2. 1 \in 1 .. Len(k) /\ 2 \in 1 .. Len(k) /\ 3 \in 1 .. Len(k) /\ 4 \in 1 .. Len(k) /\ 5 \in 1 .. Len(k)
    BY <1>1
  <2> QED
    BY ONLY <1>15, <2>1, <2>2 DEF Holds
<1>21. PartBehind(b, p, 4) = <<INTEGER, 1, 1, OCTETS>>
  <2> DEFINE four == <<INTEGER, 1, 1, OCTETS>>
  <2>1. /\ four \in Seq(Byte) /\ Len(four) = 4 /\ four[1] = INTEGER /\ four[2] = 1 /\ four[3] = 1 /\ four[4] = OCTETS
    BY DEF INTEGER, OCTETS, Byte
  <2> HIDE DEF four
  <2>2. p \in Nat /\ 4 \in Nat /\ p + 4 <= Len(b)
    BY <1>1, <1>9, <1>12, <1>18
  <2>3. \A i \in 1 .. 4 : b[p + i] = four[i]
    <3>1. \A i \in 1 .. 4 : i = 1 \/ i = 2 \/ i = 3 \/ i = 4
      OBVIOUS
    <3> QED
      BY ONLY <1>20, <2>1, <3>1
  <2>4. Holds(b, p, four)
    BY ONLY <2>1, <2>2, <2>3 DEF Holds
  <2>5. PartBehind(b, p, 4) = four
    BY ONLY <1>9, <2>1, <2>2, <2>4, PartBehindIs
  <2> QED
    BY <2>5 DEF four
<1>22. BigEndian(l) = Len(content) /\ BigEndian(d) = number
  BY ONLY <1>2, <1>6, BigEndianIs
<1> QED
  BY ONLY <1>1, <1>9, <1>16, <1>17, <1>18, <1>19, <1>20, <1>21, <1>22 DEF KeyIn, p

LEMMA KeyExported ==
  ASSUME NEW number \in KeyNumber, NEW compressed \in {0, 1}
  PROVE  /\ \E ls : KeyIn(ExportDer(number, compressed), ls, number)
         /\ IsKey(number)
<1> DEFINE tail == IF compressed # 0 THEN ShortTail ELSE LongTail
           ls == IF compressed # 0 THEN 1 ELSE 2
           content == StartOfKey \o Bytes(number, NumberSize) \o OnesOf(tail)
<1>1. IsKey(number)
  BY KeysAssumption DEF IsKey
<1>2. number \in Nat /\ number < Power[NumberSize]
  <2>1. number \in 1 .. Order - 1 /\ Order \in Nat /\ Order < Power[NumberSize] /\ Power[NumberSize] \in Nat
    BY <1>1, DerAssumption, PowersOf256, KeyPartsAre DEF IsKey
  <2> QED
    BY <2>1
<1>3. tail \in Nat /\ SizeInHead(ls, 5 + NumberSize + tail)
  <2>1. Power[1] = 256 /\ Power[2] = 65536
    <3>1. Power[1 + 1] = 256 * Power[1]
      BY PowersOf256
    <3> QED
      BY <3>1, PowersOf256
  <2>2. NumberSize + 5 + ShortTail < 256 /\ NumberSize + 5 + LongTail < 65536
    BY SizesAssumption
  <2> QED
    BY <2>1, <2>2, KeyPartsAre DEF SizeInHead
<1>4. ExportDer(number, compressed) = HeadOf(ls) \o Bytes(Len(content), ls) \o content
  BY Zenon DEF ExportDer, HeadOf, StartOfKey, OnesOf
<1> HIDE DEF tail, ls
<1>5. KeyIn(ExportDer(number, compressed), ls, number)
  BY <1>2, <1>3, <1>4, KeyLaidOut
<1> QED
  BY <1>1, <1>5

-----------------------------------------------------------------------------
(* A signature in the strict form.                                          *)
StrictDigits(n) == Padded(n, IF Bytes(n, Size(n))[1] < High THEN 0 ELSE 1)

LEMMA StrictDigitsAre ==
  ASSUME NEW n \in 1 .. Order - 1
  PROVE  /\ StrictDigits(n) \in Seq(Byte) /\ Len(StrictDigits(n)) \in 0 .. NumberSize + 1
         /\ Number(StrictDigits(n), 256) = n /\ NumberSize \in Nat /\ NumberSize < 61
<1> DEFINE pad == IF Bytes(n, Size(n))[1] < High THEN 0 ELSE 1
           d == Padded(n, pad)
<1>1. NumberSize \in Nat /\ NumberSize < 61 /\ Order \in Nat /\ Order < Power[NumberSize]
  BY DerAssumption, SizesAssumption
<1>2. Power[NumberSize] \in Nat /\ Power[NumberSize + 1] \in Nat /\ Power[NumberSize] < Power[NumberSize + 1]
  <2>1. NumberSize + 1 \in Nat /\ NumberSize < NumberSize + 1
    BY <1>1
  <2> QED
    BY ONLY <1>1, <2>1, PowersOf256
<1>3. n \in Nat /\ n < Power[NumberSize] /\ n < Power[NumberSize + 1]
  BY <1>1, <1>2
<1>4. pad \in {0, 1}
  OBVIOUS
<1> HIDE DEF pad
<1>5. PaddedFits(n, pad, d) /\ SizeFits(n, Size(n))
  <2>1. pad \in Nat
    BY <1>4
  <2> QED
    BY ONLY <1>3, <2>1, PaddedIs, SizeIs
<1> HIDE DEF d
<1>6. /\ d \in Seq(Byte) /\ Len(d) = Size(n) + pad /\ Number(d, 256) = n
      /\ Size(n) \in 0 .. NumberSize + 1 /\ Size(n) <= NumberSize
  BY ONLY <1>3, <1>5 DEF PaddedFits, SizeFits
<1>7. Len(d) \in 0 .. NumberSize + 1
  BY ONLY <1>1, <1>4, <1>6
<1> QED
  BY ONLY <1>1, <1>6, <1>7 DEF d, pad, StrictDigits

(* Two bytes in front of others.                                            *)
TwoThen(b, p, x, y, d) == Holds(b, p, <<x>>) /\ Holds(b, p + 1, <<y>>) /\ Holds(b, p + 1 + Len(<<y>>), d)

LEMMA TwoInFront ==
  ASSUME NEW b \in Seq(Byte), NEW p \in Nat, NEW x \in Byte, NEW y \in Byte, NEW d \in Seq(Byte)
  PROVE  /\ <<x, y>> \o d \in Seq(Byte) /\ Len(<<x, y>> \o d) = 2 + Len(d)
         /\ Holds(b, p, <<x, y>> \o d) => TwoThen(b, p, x, y, d)
<1> DEFINE S == Byte
           h == <<x, y>>
<1>1. h \in Seq(Byte) /\ Len(h) = 2 /\ h[1] = x /\ h[2] = y
  OBVIOUS
<1> HIDE DEF h
<1>2. h \o d \in Seq(Byte) /\ Len(h \o d) = 2 + Len(d)
  BY ONLY <1>1, d \in Seq(Byte), PartsAre
<1>3. ASSUME Holds(b, p, h \o d) PROVE TwoThen(b, p, x, y, d)
  <2>0. b \in Seq(S) /\ h \in Seq(S) /\ d \in Seq(S)
    BY <1>1
  <2> HIDE DEF S
  <2>1. Holds(b, p, h) /\ Holds(b, p + Len(h), d)
    BY ONLY <1>3, <2>0, p \in Nat, HoldsConcat
  <2>2. p + 2 <= Len(b) /\ b[p + 1] = x /\ b[p + 2] = y
    <3>1. 1 \in 1 .. Len(h) /\ 2 \in 1 .. Len(h)
      BY <1>1
    <3> QED
      BY ONLY <1>1, <2>1, <3>1 DEF Holds
  <2>3. Holds(b, p, <<x>>)
    <3>1. Len(<<x>>) = 1 /\ <<x>>[1] = x
      OBVIOUS
    <3>2. p + 1 <= Len(b)
      BY <2>2
    <3> QED
      BY <2>2, <3>1, <3>2 DEF Holds
  <2>4. Holds(b, p + 1, <<y>>) /\ Len(<<y>>) = 1
    <3>1. Len(<<y>>) = 1 /\ <<y>>[1] = y
      OBVIOUS
    <3>2. (p + 1) + 1 <= Len(b) /\ b[(p + 1) + 1] = y
      BY <2>2
    <3> QED
      BY <3>1, <3>2 DEF Holds
  <2>5. p + Len(h) = p + 1 + Len(<<y>>)
    BY <1>1, <2>4
  <2> QED
    BY ONLY <2>1, <2>3, <2>4, <2>5 DEF TwoThen
<1> QED
  BY ONLY <1>2, <1>3 DEF h

OneByteForm(d) == <<Len(d)>>

LEMMA StrictIntegerIs ==
  ASSUME NEW n \in 1 .. Order - 1, NEW b \in Seq(Byte), NEW p \in Nat
  PROVE  /\ StrictInteger(n) \in Seq(Byte) /\ Len(StrictInteger(n)) = 2 + Len(StrictDigits(n))
         /\ Holds(b, p, StrictInteger(n)) => IntegerIn(b, p, OneByteForm(StrictDigits(n)), StrictDigits(n))
<1> DEFINE d == StrictDigits(n)
           k == Len(d)
<1>1. d \in Seq(Byte) /\ k \in 0 .. NumberSize + 1 /\ NumberSize \in Nat /\ NumberSize < 61
  BY StrictDigitsAre
<1>2. StrictInteger(n) = <<INTEGER, k>> \o d
  BY Zenon DEF StrictInteger, StrictDigits
<1> HIDE DEF d
<1>3. k \in 0 .. 255 /\ k < High
  <2>1. \A n1, k1 \in Nat : n1 < 61 /\ k1 <= n1 + 1 => k1 \in 0 .. 255 /\ k1 < 128
    OBVIOUS
  <2>2. k \in Nat /\ k <= NumberSize + 1
    BY <1>1
  <2> QED
    BY ONLY <1>1, <2>1, <2>2 DEF High
<1>4. INTEGER \in Byte /\ k \in Byte
  BY <1>3 DEF INTEGER, Byte
<1>5. /\ <<INTEGER, k>> \o d \in Seq(Byte) /\ Len(<<INTEGER, k>> \o d) = 2 + Len(d)
      /\ Holds(b, p, <<INTEGER, k>> \o d) => TwoThen(b, p, INTEGER, k, d)
  BY ONLY <1>1, <1>4, b \in Seq(Byte), p \in Nat, TwoInFront
<1>6. <<k>> \in LengthForms(k)
  BY <1>3 DEF LengthForms
<1>7. TwoThen(b, p, INTEGER, k, d) => IntegerIn(b, p, <<k>>, d)
  BY ONLY <1>1, <1>3, <1>6 DEF TwoThen, IntegerIn
<1> QED
  BY ONLY <1>2, <1>5, <1>7 DEF OneByteForm, d

LEMMA StrictIsRead ==
  ASSUME NEW r \in 1 .. Order - 1, NEW s \in 1 .. Order - 1, NEW content, NEW b,
         content = StrictInteger(r) \o StrictInteger(s), b = <<SEQUENCE, Len(content)>> \o content
  PROVE  ParseDerLax(b) = Signature(r, s) /\ b # <<>>
<1> DEFINE d == StrictDigits(r)
           e == StrictDigits(s)
           x == StrictInteger(r)
           y == StrictInteger(s)
           k == Len(content)
           whole == <<k>>
           second == PlaceOfSecond(whole, OneByteForm(d), d)
<1>1. /\ d \in Seq(Byte) /\ Len(d) \in 0 .. NumberSize + 1 /\ Number(d, 256) = r
      /\ e \in Seq(Byte) /\ Len(e) \in 0 .. NumberSize + 1 /\ Number(e, 256) = s
      /\ NumberSize \in Nat /\ NumberSize < 61
  BY StrictDigitsAre
<1>2. <<>> \in Seq(Byte) /\ 0 \in Nat
  OBVIOUS
<1>3. x \in Seq(Byte) /\ Len(x) = 2 + Len(d) /\ y \in Seq(Byte) /\ Len(y) = 2 + Len(e)
  BY ONLY <1>2, r \in 1 .. Order - 1, s \in 1 .. Order - 1, StrictIntegerIs
<1> HIDE DEF x, y, d, e
<1>4. content = x \o y
  BY DEF x, y
<1>5. content \in Seq(Byte) /\ k = Len(x) + Len(y)
  BY ONLY <1>3, <1>4, PartsAre
<1> HIDE DEF k
<1>6. k \in 0 .. 126 /\ k = 4 + Len(d) + Len(e)
  <2> DEFINE n == Len(d)
             m == Len(e)
  <2>1. n \in 0 .. NumberSize + 1 /\ m \in 0 .. NumberSize + 1 /\ k = (2 + n) + (2 + m)
    BY <1>1, <1>3, <1>5
  <2>2. n \in 0 .. 61 /\ m \in 0 .. 61
    <3> HIDE DEF n, m
    <3> QED
      BY ONLY <1>1, <2>1
  <2>3. \A i, j \in 0 .. 61 : (2 + i) + (2 + j) \in 0 .. 126 /\ (2 + i) + (2 + j) = 4 + i + j
    OBVIOUS
  <2> HIDE DEF n, m
  <2>4. k \in 0 .. 126 /\ k = 4 + n + m
    BY ONLY <2>1, <2>2, <2>3
  <2> QED
    BY ONLY <2>4 DEF n, m
<1>7. k \in Byte /\ k < High /\ SEQUENCE \in Byte
  <2>1. k \in 0 .. 126
    BY <1>6
  <2> QED
    BY ONLY <2>1 DEF Byte, High, SEQUENCE
<1>8. b = <<SEQUENCE, k>> \o content
  BY DEF k
<1>9. b \in Seq(Byte) /\ Len(b) = 2 + Len(content)
  BY ONLY <1>2, <1>5, <1>7, <1>8, TwoInFront
<1>10. TwoThen(b, 0, SEQUENCE, k, content)
  <2>1. Holds(b, 0, b)
    BY <1>9, WholeHolds
  <2>2. Holds(b, 0, <<SEQUENCE, k>> \o content)
    BY <1>8, <2>1
  <2> QED
    BY ONLY <1>2, <1>5, <1>7, <1>9, <2>2, TwoInFront
<1>11. Len(whole) = 1 /\ whole[1] = k /\ whole \in Seq(Byte)
  BY <1>7
<1>12. IsLength(whole)
  BY <1>6, <1>11, <1>7 DEF IsLength
<1>13. Holds(b, 0, <<SEQUENCE>>) /\ Holds(b, 1, whole) /\ Holds(b, 2, content)
  <2>1. 0 + 1 = 1 /\ 0 + 1 + Len(<<k>>) = 2
    BY <1>11
  <2> QED
    BY ONLY <1>10, <2>1 DEF TwoThen
<1>14. Holds(b, 2, x) /\ Holds(b, 2 + Len(x), y)
  <2> DEFINE S == Byte
  <2>1. b \in Seq(S) /\ x \in Seq(S) /\ y \in Seq(S) /\ 2 \in Nat
    BY <1>3, <1>9
  <2> HIDE DEF S
  <2>2. Holds(b, 2, x \o y)
    BY ONLY <1>4, <1>13
  <2> QED
    BY ONLY <2>1, <2>2, HoldsConcat
<1>15. IntegerIn(b, 2, OneByteForm(d), d)
  <2>1. 2 \in Nat
    OBVIOUS
  <2> QED
    BY ONLY <1>9, <1>14, <2>1, r \in 1 .. Order - 1, StrictIntegerIs DEF x, d
<1>16. IntegerIn(b, 2 + Len(x), OneByteForm(e), e)
  <2>1. 2 + Len(x) \in Nat
    BY <1>1, <1>3
  <2> QED
    BY ONLY <1>9, <1>14, <2>1, s \in 1 .. Order - 1, StrictIntegerIs DEF y, e
<1>17. 2 + Len(x) = second /\ 1 + Len(whole) = 2
  <2>1. Len(OneByteForm(d)) = 1
    BY DEF OneByteForm
  <2>2. second = 1 + Len(whole) + 1 + 1 + Len(d)
    BY <2>1 DEF PlaceOfSecond
  <2> HIDE DEF second, whole
  <2> QED
    BY ONLY <1>1, <1>3, <1>11, <2>2
<1> HIDE DEF second, whole
<1>18. SignatureIn(b, whole, OneByteForm(d), d, OneByteForm(e), e)
  BY ONLY <1>12, <1>13, <1>15, <1>16, <1>17 DEF SignatureIn, second
<1>19. NumbersIn(b, r, s, second + 1 + Len(OneByteForm(e)) + Len(e))
  <2>1. NumbersIn(b, Number(d, 256), Number(e, 256), second + 1 + Len(OneByteForm(e)) + Len(e))
    BY ONLY <1>9, <1>18, SignatureParsed DEF second
  <2> QED
    BY ONLY <1>1, <2>1
<1>20. ParseDerLax(b) = Meaning(r, s)
  BY ONLY <1>19 DEF NumbersIn
<1>21. r < Order /\ s < Order
  BY OrderIsPositive
<1>22. ParseDerLax(b) = Signature(r, s)
  BY ONLY <1>20, <1>21 DEF Meaning
<1>23. b # <<>>
  BY ONLY <1>5, <1>9
<1> QED
  BY <1>22, <1>23

-----------------------------------------------------------------------------
(* Reading keys.                                                            *)
KeyWritten(e) ==
  /\ e.number \in KeyNumber /\ e.end = Len(e.bytes)
  /\ \E ls : KeyIn(e.bytes, ls, e.number)

LEMMA WriteKeyStep ==
  ASSUME WriteKey
  PROVE  encoded'.of = "key" /\ KeyWritten(encoded')
<1>1. PICK number \in KeyNumber, compressed \in {0, 1} :
        encoded' = [of |-> "key", number |-> number,
                    end |-> Len(ExportDer(number, compressed)), bytes |-> ExportDer(number, compressed)]
  BY Zenon DEF WriteKey
<1> DEFINE b == ExportDer(number, compressed)
<1>2. \E ls : KeyIn(b, ls, number)
  BY KeyExported
<1> HIDE DEF b
<1>3. encoded' = [of |-> "key", number |-> number, end |-> Len(b), bytes |-> b]
  BY <1>1 DEF b
<1> QED
  BY ONLY <1>2, <1>3, number \in KeyNumber DEF KeyWritten

LEMMA PubKeyIs ==
  ASSUME NEW number \in Nat, NEW compressed \in BOOLEAN, NEW pubkey,
         pubkey = GetPubKey([NoKey EXCEPT !.number = number, !.compressed = compressed])
  PROVE  /\ pubkey.number = number /\ IsValidPubKey(pubkey)
         /\ IsCompressed(pubkey) <=> compressed
<1> DEFINE key == [NoKey EXCEPT !.number = number, !.compressed = compressed]
           header == Header(number, compressed)
           size == IF compressed THEN 33 ELSE 65
<1>1. key.number = number /\ key.compressed = compressed
  BY DEF NoKey
<1>2. pubkey = SetPubKey(header, size, number)
  <2> HIDE DEF key
  <2>1. pubkey = GetPubKey(key)
    BY DEF key
  <2> QED
    BY ONLY <1>1, <2>1, Zenon DEF GetPubKey
<1> HIDE DEF header, size
<1>3. CASE compressed
  <2>1. size = 33 /\ header \in {2, 3}
    <3>1. number % 2 \in 0 .. 1
      OBVIOUS
    <3> QED
      BY <1>3, <3>1 DEF size, header, Header
  <2>2. GetLen(header) = 33
    BY <2>1, LengthOfShort
  <2>3. pubkey = [header |-> header, number |-> number]
    BY <1>2, <2>1, <2>2, SetWhole
  <2>4. GetLen(pubkey.header) = 33 /\ pubkey.number = number
    BY <2>2, <2>3
  <2> QED
    BY <1>3, <2>4 DEF IsValidPubKey, IsCompressed
<1>4. CASE ~compressed
  <2>1. size = 65 /\ header = 4
    BY <1>4 DEF size, header, Header
  <2>2. GetLen(header) = 65
    BY <2>1 DEF GetLen
  <2>3. pubkey = [header |-> header, number |-> number]
    BY <1>2, <2>1, <2>2 DEF SetPubKey
  <2>4. GetLen(pubkey.header) = 65 /\ pubkey.number = number
    BY <2>2, <2>3
  <2> QED
    BY <1>4, <2>4 DEF IsValidPubKey, IsCompressed
<1> QED
  BY <1>3, <1>4

(* The signatures of a key are good for its own public key alone.           *)
LEMMA OwnSignatureVerifies ==
  ASSUME NEW key, key.number \in KeyNumber, NEW message \in Message, NEW pubkey, IsValidPubKey(pubkey)
  PROVE  Verify(pubkey, message, SignDer(key, message))
           <=> Verifies(pubkey.number, message, SignatureOf(key.number, message).r, SignatureOf(key.number, message).s)
<1> DEFINE r == SignatureOf(key.number, message).r
           s == SignatureOf(key.number, message).s
           content == StrictInteger(r) \o StrictInteger(s)
           b == <<SEQUENCE, Len(content)>> \o content
<1>1. r \in 1 .. Order - 1 /\ s \in 1 .. Order \div 2 /\ Order \in Nat /\ 1 < Order
  BY KeysAssumption, DerAssumption DEF IsKey
<1>2. s \in 1 .. Order - 1
  <2> HIDE DEF s
  <2> QED
    BY ONLY <1>1
<1>3. SignDer(key, message) = b
  BY Zenon DEF SignDer
<1> HIDE DEF r, s
<1>4. ParseDerLax(b) = Signature(r, s) /\ b # <<>>
  BY ONLY <1>1, <1>2, StrictIsRead
<1> HIDE DEF b
<1> DEFINE parsed == ParseDerLax(b)
<1>5. parsed.r = r /\ parsed.s = s /\ parsed # Unparsable
  <2>1. Signature(r, s).r = r /\ Signature(r, s).s = s /\ Unparsable.r = Order
    BY DEF Signature, Unparsable
  <2>2. r # Order
    BY ONLY <1>1
  <2> QED
    BY ONLY <1>4, <2>1, <2>2
<1>6. Verify(pubkey, message, b) <=> /\ IsValidPubKey(pubkey) /\ b # <<>> /\ parsed # Unparsable
                                     /\ Verifies(pubkey.number, message, parsed.r, parsed.s)
  BY Zenon DEF Verify
<1> HIDE DEF parsed
<1>7. Verify(pubkey, message, b) <=> Verifies(pubkey.number, message, r, s)
  BY ONLY <1>4, <1>5, <1>6, IsValidPubKey(pubkey), Zenon
<1> QED
  BY ONLY <1>3, <1>7, Zenon DEF r, s

LEMMA WrittenKeyIsRead ==
  ASSUME encoded.of = "key" => KeyWritten(encoded)
  PROVE  KeyIsRead
<1> DEFINE b == encoded.bytes
           own == encoded.number
           Pub(number, compressed) == GetPubKey([NoKey EXCEPT !.number = number, !.compressed = compressed])
<1> SUFFICES ASSUME encoded.of = "key",
                    NEW key \in {NoKey, [valid |-> TRUE, compressed |-> FALSE, number |-> 1]}
             PROVE  /\ SetPrivKey(key, b, TRUE) = [valid |-> TRUE, compressed |-> TRUE, number |-> own]
                    /\ \A number \in KeyNumber, compressed \in BOOLEAN :
                         LoadKey(key, b, Pub(number, compressed)).ok <=> number = own
                    /\ \A n \in 0 .. encoded.end - 1 : SetPrivKey(key, Cut(b, n), TRUE) = [key EXCEPT !.number = 0]
  BY Zenon DEF KeyIsRead
<1>1. PICK ls : KeyIn(b, ls, own)
  BY Zenon DEF KeyWritten
<1>2. own \in KeyNumber /\ encoded.end = Len(b)
  BY Zenon DEF KeyWritten
<1>3. IsKey(own) /\ own # 0 /\ own \in Nat
  <2>1. KeyNumber \subseteq 1 .. Order - 1 /\ Order \in Nat
    BY ONLY KeysAssumption, DerAssumption
  <2> HIDE DEF own
  <2>2. own \in 1 .. Order - 1
    BY ONLY <1>2, <2>1, Zenon
  <2> QED
    BY ONLY <2>1, <2>2 DEF IsKey
<1>4. ImportDer(b) = own
  BY <1>1, <1>3, KeyImported
<1>5. b \in Seq(Byte)
  BY <1>1 DEF KeyIn
<1> HIDE DEF b, own
<1>6. \A compressed : SetPrivKey(key, b, compressed) = [valid |-> TRUE, compressed |-> compressed, number |-> own]
  BY <1>3, <1>4, Zenon DEF SetPrivKey
<1>7. ASSUME NEW number \in KeyNumber, NEW compressed \in BOOLEAN
      PROVE  LoadKey(key, b, Pub(number, compressed)).ok <=> number = own
  <2> DEFINE pubkey == Pub(number, compressed)
             loaded == SetPrivKey(key, b, IsCompressed(pubkey))
  <2>1. number \in Nat
    BY KeysAssumption, DerAssumption
  <2>2. pubkey.number = number /\ IsValidPubKey(pubkey)
    BY <2>1, PubKeyIs
  <2>3. loaded = [valid |-> TRUE, compressed |-> IsCompressed(pubkey), number |-> own]
    BY <1>6
  <2>4. loaded.compressed = IsCompressed(pubkey) /\ loaded.number = own
    BY <2>3
  <2>5. LoadKey(key, b, pubkey).ok <=> ImportDer(b) # 0 /\ VerifyPubKey(loaded, pubkey)
    BY DEF LoadKey
  <2> HIDE DEF loaded, pubkey, Pub
  <2>6. LoadKey(key, b, pubkey).ok <=> \A message \in Message : Verify(pubkey, message, SignDer(loaded, message))
    BY ONLY <1>3, <1>4, <2>4, <2>5, Zenon DEF VerifyPubKey
  <2>7. ASSUME NEW message \in Message
        PROVE  Verify(pubkey, message, SignDer(loaded, message))
                 <=> Verifies(number, message, SignatureOf(own, message).r, SignatureOf(own, message).s)
    <3>1. loaded.number \in KeyNumber
      BY <1>2, <2>4
    <3>2. Verify(pubkey, message, SignDer(loaded, message))
            <=> Verifies(pubkey.number, message, SignatureOf(loaded.number, message).r,
                         SignatureOf(loaded.number, message).s)
      BY ONLY <2>2, <3>1, message \in Message, OwnSignatureVerifies
    <3> QED
      BY ONLY <2>2, <2>4, <3>2, Zenon
  <2>8. number = own => \A message \in Message :
          Verifies(number, message, SignatureOf(own, message).r, SignatureOf(own, message).s)
    BY Zenon DEF Verifies
  <2>9. number # own => \E message \in Message :
          ~Verifies(number, message, SignatureOf(own, message).r, SignatureOf(own, message).s)
    BY <1>2, KeysAssumption, Zenon
  <2>10. LoadKey(key, b, pubkey).ok <=> number = own
    BY ONLY <2>6, <2>7, <2>8, <2>9, Zenon
  <2> QED
    BY <2>10, Zenon DEF pubkey
<1>8. ASSUME NEW n \in 0 .. encoded.end - 1
      PROVE  SetPrivKey(key, Cut(b, n), TRUE) = [key EXCEPT !.number = 0]
  <2>1. n \in 0 .. Len(b) /\ n < Len(b)
    <3>1. Len(b) \in Nat
      BY <1>5
    <3> QED
      BY <1>2, <3>1
  <2>2. ImportDer(Cut(b, n)) = 0
    BY ONLY <1>1, <2>1, CutKey
  <2> QED
    BY ONLY <2>2, Zenon DEF SetPrivKey
<1> QED
  BY <1>6, <1>7, <1>8, Zenon

(* What is written stays as it was written.                                 *)
DerInv ==
  /\ encoded.of = "signature" => SignatureWritten(encoded)
  /\ encoded.of = "key" => KeyWritten(encoded)

LEMMA InitDerInv == KeysInit => DerInv
BY DEF KeysInit, DerInv, NoBytes

LEMMA NextDerInv ==
  ASSUME DerInv, [KeysNext]_keysVars
  PROVE  DerInv'
<1>1. CASE WriteSignature
  <2>1. encoded'.of = "signature" /\ SignatureWritten(encoded')
    BY <1>1, WriteSignatureStep
  <2> QED
    BY <2>1 DEF DerInv
<1>2. CASE WriteKey
  <2>1. encoded'.of = "key" /\ KeyWritten(encoded')
    BY <1>2, WriteKeyStep
  <2> QED
    BY <2>1 DEF DerInv
<1>3. CASE UNCHANGED encoded
  BY <1>3 DEF DerInv, SignatureWritten, KeyWritten
<1>4. MakeNewKey \/ Derive \/ UNCHANGED keysVars => UNCHANGED encoded
  BY Zenon DEF MakeNewKey, Derive, keysVars
<1> QED
  BY <1>1, <1>2, <1>3, <1>4, Zenon DEF KeysNext

(* Signatures and private keys are read as they were written, in all the    *)
(* forms of WriteSignature and WriteKey, or refused when they were cut      *)
(* (pubkey.cpp:22-161, key.cpp:12-113, 129-219).                            *)
THEOREM WrittenDerIsRead == KeysSpec => []DerIsReadWhole
<1>1. DerInv => DerIsReadWhole
  BY WrittenSignatureIsRead, WrittenKeyIsRead, Zenon DEF DerInv, DerIsReadWhole
<1> QED
  BY <1>1, InitDerInv, NextDerInv, PTL DEF KeysSpec
=============================================================================
