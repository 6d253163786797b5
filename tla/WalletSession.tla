--------------------------- MODULE WalletSession ---------------------------
(***************************************************************************)
(* The way the SDK is used (moduleTest/src/main.cpp, rpc/example/main.cpp):*)
(* ask the node for the parameters of the chain, list the outputs of an    *)
(* address and choose one, lock and unlock it, ask for the stream or the   *)
(* asset, build and sign a transaction, send it.  A session does this for  *)
(* an item of a stream, then for a payment, or one of them, as main does;  *)
(* sessions share a node.                                                  *)
(*                                                                         *)
(* No one program of the repository does all of this: moduleTest builds a  *)
(* transaction and prints it, and rpc/example sends one of its own.  An    *)
(* application puts the two together, and so does a session.               *)
(*                                                                         *)
(* The node is not in the repository: it is what the calls need it to be.  *)
(* It may refuse a call, die before or after it has done what was asked,   *)
(* and any reply may be cut or lost.                                       *)
(***************************************************************************)
EXTENDS RpcCall, SequencesExt, FiniteSets

CONSTANTS
  Session,      (* the programs that run                                    *)
  Plans,        (* which parts each of them runs, in the possible ways      *)
  Output,       (* the outputs on the chain                                 *)
  Address,      (* the address every session uses                           *)
  Asset,        (* the asset that is paid                                   *)
  Stream        (* the stream that is published to                          *)

(* A part of a session makes one payment: "publish" an item to the stream,  *)
(* or "pay" in the asset.                                                   *)
Parts == {"publish", "pay"}
Payment == Session \X Parts
Kind(p) == p[2]
Id == {output.id : output \in Output}
NoPayment == <<"nobody", "nothing">>

ASSUME WalletAssumption ==
  /\ NoPayment \notin Payment
  /\ "" \notin Id
  /\ Plans \subseteq [Session -> SUBSET Parts]
  /\ \A o1, o2 \in Output : o1.id = o2.id => o1 = o2
  /\ Asset # "" /\ Stream # ""

VARIABLES
  pc,           (* the next step of a part, or how it ended                 *)
  helper,       (* its helper has its parts                                 *)
  unspent,      (* the output it chose and the quantity in it               *)
  about,        (* the stream or asset, as the node names it                *)
  waiting,      (* a call of it has no answer yet                           *)
  requests,     (* its call on the way to the node                          *)
  bytes,        (* what has come back                                       *)
  locked,       (* the node: the outputs that are locked,                   *)
  spentBy       (*           and the payment that spent an output           *)

node == <<locked, spentBy>>
wire == <<waiting, requests, bytes>>
chosen == <<helper, unspent, about>>
vars == <<pc, chosen, wire, node>>

NoUnspent == [id |-> "", qty |-> 0]

Init ==
  /\ \E plan \in Plans :
       pc = [p \in Payment |-> CASE p[2] \notin plan[p[1]] -> "none"
                               [] p[2] = "pay" /\ plan[p[1]] = Parts -> "idle"
                               [] OTHER -> "params"]
  /\ helper = [p \in Payment |-> FALSE]
  /\ unspent = [p \in Payment |-> NoUnspent]
  /\ about = [p \in Payment |-> ""]
  /\ waiting = [p \in Payment |-> FALSE]
  /\ requests = [p \in Payment |-> {}]
  /\ bytes = [p \in Payment |-> {}]
  /\ locked = {}
  /\ spentBy = [id \in Id |-> NoPayment]

-----------------------------------------------------------------------------
(* Calls.                                                                   *)
Steps == {"params", "list", "lock", "unlock", "which", "send"}

(* Variant: the output is locked twice.                                     *)
RequestOf_LockTwice(p) ==
  CASE pc[p] = "params" -> getblockchainparams
    [] pc[p] = "list"   -> listunspentOf(Address)
    [] pc[p] = "lock"   -> lockunspent(FALSE, unspent[p].id)
    [] pc[p] = "unlock" -> lockunspent(FALSE, unspent[p].id)
    [] pc[p] = "which"  -> IF Kind(p) = "publish" THEN liststreams(Stream) ELSE listassets(Asset)
    [] pc[p] = "send"   -> sendrawtx([spends |-> unspent[p], about |-> about[p]])

RequestOf(p) ==
  CASE pc[p] = "params" -> getblockchainparams
    [] pc[p] = "list"   -> listunspentOf(Address)
    [] pc[p] = "lock"   -> lockunspent(FALSE, unspent[p].id)
    [] pc[p] = "unlock" -> lockunspent(TRUE, unspent[p].id)
    [] pc[p] = "which"  -> IF Kind(p) = "publish" THEN liststreams(Stream) ELSE listassets(Asset)
    [] pc[p] = "send"   -> sendrawtx([spends |-> unspent[p], about |-> about[p]])

Call(p) ==
  /\ pc[p] \in Steps /\ ~waiting[p]
  /\ waiting' = [waiting EXCEPT ![p] = TRUE]
  /\ requests' = [requests EXCEPT ![p] = {RequestOf(p)}]
  /\ UNCHANGED <<pc, chosen, bytes, node>>

(* The caller of CallRPC cannot tell a connection that was not made.        *)
CannotConnect(p) ==
  /\ pc[p] \in Steps /\ ~waiting[p]
  /\ waiting' = [waiting EXCEPT ![p] = TRUE]
  /\ bytes' = [bytes EXCEPT ![p] = {NoBytes}]
  /\ UNCHANGED <<pc, chosen, requests, node>>

(* The connection breaks while the call is still to be handled.             *)
LoseConnection(p) ==
  /\ waiting[p] /\ bytes[p] = {}
  /\ bytes' = [bytes EXCEPT ![p] = {NoBytes}]
  /\ UNCHANGED <<pc, chosen, waiting, requests, node>>

(* The answer to the call that is waited for.                               *)
Answered(p, step, end) ==
  /\ pc[p] = step /\ waiting[p]
  /\ \E b \in bytes[p] : rpcResult(b).end = end
  /\ waiting' = [waiting EXCEPT ![p] = FALSE]
  /\ bytes' = [bytes EXCEPT ![p] = {}]
  /\ UNCHANGED <<requests, node>>

Value(p) == rpcResult(CHOOSE b \in bytes[p] : TRUE).value
Outputs(p) == Value(p).outputs

Goto(p, step) == pc' = [pc EXCEPT ![p] = step]

-----------------------------------------------------------------------------
(* A part of a session.  An exception of the library ends the part; a       *)
(* literal that is thrown is not caught by main and ends the session.       *)
Begin(p) ==
  /\ pc[p] = "idle"
  /\ pc[<<p[1], "publish">>] \in {"thrown", "made", "refused", "unsure"}
  /\ Goto(p, "params")
  /\ UNCHANGED <<chosen, wire, node>>

Throw(p) ==
  /\ \E step \in Steps \ {"send"} : Answered(p, step, "thrown")
  /\ Goto(p, "thrown")
  /\ UNCHANGED chosen

(* KeysHelperWithRpc: without an answer there is a helper without parts.    *)
MakeHelper(p) ==
  /\ \E end \in {"true", "false"} :
       /\ Answered(p, "params", end)
       /\ helper' = [helper EXCEPT ![p] = (end = "true")]
  /\ Goto(p, "list")
  /\ UNCHANGED <<unspent, about>>

(* The first output listed that holds nothing, or the asset: any of them,   *)
(* as the node lists in any order.                                          *)
Holds(output, asset) == \E i \in DOMAIN output.assets : output.assets[i].name = asset

Suits(p, output) ==
  IF Kind(p) = "publish" THEN output.assets = <<>> ELSE Holds(output, Asset)

Qty(output, asset) ==
  LET place == SelectInSeq(output.assets, LAMBDA a : a.name = asset)
  IN  IF place = 0 THEN 0 ELSE output.assets[place].qty

(* Variant: the quantity is that of the first asset in the output.          *)
ChooseUnspent_First(p) ==
  /\ Answered(p, "list", "true")
  /\ \/ \E output \in Outputs(p) :
          /\ Suits(p, output)
          /\ unspent' = [unspent EXCEPT ![p] =
               [id |-> output.id, qty |-> IF Kind(p) = "pay" THEN output.assets[1].qty ELSE 0]]
          /\ Goto(p, "lock")
     \/ /\ \A output \in Outputs(p) : ~Suits(p, output)
        /\ Goto(p, "thrown")
        /\ UNCHANGED unspent
  /\ UNCHANGED <<helper, about>>

(* Without such an output "txid" is not a string, and get_str throws.       *)
ChooseUnspent(p) ==
  /\ Answered(p, "list", "true")
  /\ \/ \E output \in Outputs(p) :
          /\ Suits(p, output)
          /\ unspent' = [unspent EXCEPT ![p] =
               [id |-> output.id, qty |-> Qty(output, Asset)]]
          /\ Goto(p, "lock")
     \/ /\ \A output \in Outputs(p) : ~Suits(p, output)
        /\ Goto(p, "thrown")
        /\ UNCHANGED unspent
  /\ UNCHANGED <<helper, about>>

(* Variant: the listing is asked for again.                                 *)
NoListing_Again(p) ==
  /\ Answered(p, "list", "false")
  /\ Goto(p, IF Kind(p) = "publish" THEN "lock" ELSE "list")
  /\ UNCHANGED chosen

(* One part goes on without an output, the other stops the session.         *)
NoListing(p) ==
  /\ Answered(p, "list", "false")
  /\ Goto(p, IF Kind(p) = "publish" THEN "lock" ELSE "terminated")
  /\ UNCHANGED chosen

Lock(p) ==
  /\ Answered(p, "lock", "true")
  /\ Goto(p, "unlock")
  /\ UNCHANGED chosen

Unlock(p) ==
  /\ Answered(p, "unlock", "true")
  /\ Goto(p, "which")
  /\ UNCHANGED chosen

NotLocked(p) ==
  /\ \E step \in {"lock", "unlock"} : Answered(p, step, "false")
  /\ Goto(p, "terminated")
  /\ UNCHANGED chosen

ChooseKind(p) ==
  /\ Answered(p, "which", "true")
  /\ about' = [about EXCEPT ![p] = Value(p).names[1]]
  /\ Goto(p, "build")
  /\ UNCHANGED <<helper, unspent>>

(* One part goes on without the stream, the other stops the session.        *)
NoKind(p) ==
  /\ Answered(p, "which", "false")
  /\ Goto(p, IF Kind(p) = "publish" THEN "build" ELSE "terminated")
  /\ UNCHANGED chosen

(* A helper without parts is a null pointer; a stream that is not known is  *)
(* sixteen bytes from after an empty vector, whatever they are.  A text that*)
(* could not be made is empty and is sent like any other: the node refuses  *)
(* it, as it may refuse every call.                                         *)
Build(p) ==
  /\ pc[p] = "build"
  /\ \/ helper[p] /\ about[p] # "" /\ Goto(p, "send") /\ UNCHANGED about
     \/ /\ helper[p] /\ about[p] = ""
        /\ about' = [about EXCEPT ![p] = "unknown"]
        /\ Goto(p, "send")
     \/ (~helper[p] \/ about[p] = "") /\ Goto(p, "crashed") /\ UNCHANGED about
  /\ UNCHANGED <<helper, unspent, wire, node>>

(* Variant: an exception is taken to mean that nothing was sent.            *)
Sent_Refused(p) ==
  /\ \/ Answered(p, "send", "true") /\ Goto(p, "made")
     \/ Answered(p, "send", "false") /\ Goto(p, "refused")
     \/ Answered(p, "send", "thrown") /\ Goto(p, "refused")
  /\ UNCHANGED chosen

Sent(p) ==
  /\ \/ Answered(p, "send", "true") /\ Goto(p, "made")
     \/ Answered(p, "send", "false") /\ Goto(p, "refused")
     \/ Answered(p, "send", "thrown") /\ Goto(p, "unsure")
  /\ UNCHANGED chosen

-----------------------------------------------------------------------------
(* The node.                                                                *)
WarmUp == -28
Invalid == -8
MissingInputs == -25

Listed(output, addresses) ==
  /\ spentBy[output.id] = NoPayment /\ output.id \notin locked
  /\ addresses = {} \/ output.address \in addresses

Listing(params) ==
  LET addresses == IF Len(params) < 3 THEN {} ELSE ToSet(params[3])
  IN  {output \in Output : Listed(output, addresses)}

(* The streams or assets of these names, or every one.                      *)
Named(names) == IF names = <<>> THEN <<"another", Asset>> ELSE names

(* An input can be spent once, by the owner of the address; what it holds   *)
(* goes to the outputs, to the last unit; an item names a stream.           *)
Acceptable(tx, kind) ==
  \E output \in Output :
    /\ output.id = tx.spends.id
    /\ spentBy[output.id] = NoPayment
    /\ output.address = Address
    /\ Qty(output, Asset) = tx.spends.qty
    /\ tx.about = IF kind = "publish" THEN Stream ELSE Asset

(* What comes back, if the session still listens: all of the reply or a     *)
(* part of it.                                                              *)
Live(p) == waiting[p] /\ bytes[p] = {}

Reply(p, status, body) ==
  /\ requests' = [requests EXCEPT ![p] = {}]
  /\ IF Live(p)
     THEN \E b \in {Whole(status, body), Cut(status, body)} : bytes' = [bytes EXCEPT ![p] = {b}]
     ELSE UNCHANGED bytes
  /\ UNCHANGED <<pc, chosen, waiting>>

ReplyResult(p, value) == Reply(p, HTTP_OK, Result(value))
ReplyError(p, code) == Reply(p, HTTP_INTERNAL_SERVER_ERROR, Error(code))

Asked(p, method) == \E r \in requests[p] : r.method = method
Param(p, i) == (CHOOSE r \in requests[p] : TRUE).params[i]
Params(p) == (CHOOSE r \in requests[p] : TRUE).params

NodeTellsParams(p) ==
  /\ Asked(p, "getblockchainparams")
  /\ ReplyResult(p, Null)
  /\ UNCHANGED node

NodeLists(p) ==
  /\ Asked(p, "listunspent")
  /\ ReplyResult(p, [Null EXCEPT !.outputs = Listing(Params(p))])
  /\ UNCHANGED node

(* Whoever locked an output, anyone can unlock it.                          *)
NodeLocks(p) ==
  /\ Asked(p, "lockunspent")
  /\ LET id == Param(p, 2)[1]
     IN  IF id \notin Id THEN ReplyError(p, Invalid) /\ UNCHANGED locked
         ELSE /\ locked' = IF Param(p, 1) THEN locked \ {id} ELSE locked \cup {id}
              /\ ReplyResult(p, Null)
  /\ UNCHANGED spentBy

NodeNames(p) ==
  /\ \E method \in {"liststreams", "listassets"} : Asked(p, method)
  /\ ReplyResult(p, [Null EXCEPT !.names = Named(Param(p, 1))])
  /\ UNCHANGED node

NodeSpends(p) ==
  /\ Asked(p, "sendrawtx")
  /\ LET tx == Param(p, 1)
     IN  IF Acceptable(tx, Kind(p))
         THEN /\ spentBy' = [spentBy EXCEPT ![tx.spends.id] = p]
              /\ ReplyResult(p, Null)
         ELSE ReplyError(p, MissingInputs) /\ UNCHANGED spentBy
  /\ UNCHANGED locked

NodeRefuses(p) ==
  /\ requests[p] # {}
  /\ ReplyError(p, WarmUp)
  /\ UNCHANGED node

(* No answer, or at the first call that of a node that does not know the    *)
(* user, is busy, or is no node at all.                                     *)
NoAnswer(p) ==
  {NoBytes} \cup
  (IF pc[p] # "params" THEN {}
   ELSE {Whole(HTTP_UNAUTHORIZED, NotJson), Whole(503, NotJson),
         Whole(HTTP_OK, NotJson), Whole(HTTP_OK, EmptyObject)})

NodeFails(p) ==
  /\ requests[p] # {}
  /\ requests' = [requests EXCEPT ![p] = {}]
  /\ \E b \in NoAnswer(p) : bytes' = IF Live(p) THEN [bytes EXCEPT ![p] = {b}] ELSE bytes
  /\ UNCHANGED <<pc, chosen, waiting, node>>

-----------------------------------------------------------------------------
Part(p) ==
  \/ Begin(p) \/ Call(p) \/ Throw(p) \/ MakeHelper(p) \/ ChooseUnspent(p) \/ NoListing(p)
  \/ Lock(p) \/ Unlock(p) \/ NotLocked(p) \/ ChooseKind(p) \/ NoKind(p)
  \/ Build(p) \/ Sent(p)

Node(p) ==
  \/ NodeTellsParams(p) \/ NodeLists(p) \/ NodeLocks(p) \/ NodeNames(p)
  \/ NodeSpends(p) \/ NodeRefuses(p) \/ NodeFails(p)

Next ==
  \E p \in Payment : Part(p) \/ Node(p) \/ CannotConnect(p) \/ LoseConnection(p)

(* Sessions run, and the node ends every call in some way: the code itself  *)
(* waits for ever.                                                          *)
Fairness ==
  \A s \in Session :
    /\ WF_vars(\E p \in Payment : p[1] = s /\ Part(p))
    /\ WF_vars(\E p \in Payment : p[1] = s /\ Live(p) /\ Node(p))

Spec == Init /\ [][Next]_vars /\ Fairness

-----------------------------------------------------------------------------
(* Properties.                                                              *)

TypeOK ==
  /\ pc \in [Payment -> Steps \cup {"none", "idle", "build", "thrown", "terminated", "crashed",
                                    "made", "refused", "unsure"}]
  /\ helper \in [Payment -> BOOLEAN]
  /\ waiting \in [Payment -> BOOLEAN]
  /\ \A p \in Payment :
       /\ unspent[p].id \in Id \cup {""} /\ unspent[p].qty \in Nat
       /\ Cardinality(requests[p]) <= 1 /\ Cardinality(bytes[p]) <= 1
  /\ locked \subseteq Id
  /\ spentBy \in [Id -> Payment \cup {NoPayment}]

(* What a session knows of a payment in the end: after a reply that did not *)
(* come (an exception of CallRPC) nothing, in any other case the truth.     *)
ToldBy(step) ==
  CASE step = "made"                                            -> "made"
    [] step = "unsure"                                          -> "unknown"
    [] step \in {"refused", "thrown", "terminated", "crashed"}  -> "not made"
    [] OTHER                                                    -> "nothing"

told == [p \in Payment |-> ToldBy(pc[p])]

P == INSTANCE Payments

(* No reply that is cut, lost or an error makes a session believe of its    *)
(* payment what is not so, or spends an output twice: only a session whose  *)
(* sendrawtx threw does not know, and its payment may still be made later   *)
(* (rpcclient.cpp:54-83, rpccaller.cpp:11-58).                              *)
PaysOnceAndKnows == P!Spec

(* A transaction that is sent spends an output of the session's address     *)
(* that the node would take but for a payment that came first, and that     *)
(* holds what the transaction says.  Only an item may name no stream, after *)
(* liststreams was refused (main.cpp:83-134, 190-277).                      *)
SentIsAcceptable ==
  \A p \in Payment : Asked(p, "sendrawtx") =>
    LET tx == Param(p, 1)
    IN  /\ \E output \in Output :
             /\ output.id = tx.spends.id /\ output.address = Address
             /\ Qty(output, Asset) = tx.spends.qty
             /\ IF Kind(p) = "pay" THEN Holds(output, Asset) ELSE output.assets = <<>>
        /\ spentBy[tx.spends.id] # p
        /\ \/ tx.about = (IF Kind(p) = "publish" THEN Stream ELSE Asset)
           \/ Kind(p) = "publish" /\ tx.about = "unknown"

(* A lock that stays is that of a part that is about to unlock it or that   *)
(* failed on the way: the locks are the node's, and no other session's      *)
(* failure or success leaves one behind (main.cpp:153-159, 306-312).        *)
LocksAreReleased ==
  \A id \in locked :
    \E p \in Payment :
      unspent[p].id = id /\ pc[p] \in {"lock", "unlock", "thrown", "terminated"}

(* A session goes on to another step only after a whole answer of the node, *)
(* and without the parts of its helper, without an output or without a      *)
(* stream only when that answer was an error: a reply that is cut or lost   *)
(* never makes a null helper or an empty name (rpcprotocol.cpp:64-103,      *)
(* KeysHelperWithRpc.cpp:31-34, main.cpp:85-87, 120-122).                   *)
WholeAnswer(b) == b.arrived = Size /\ b.body.kind = "object" /\ b.status \in {HTTP_OK, HTTP_INTERNAL_SERVER_ERROR}

FollowsWholeAnswers ==
  [][\A p \in Payment :
       pc[p] \in Steps /\ pc'[p] \notin {pc[p], "thrown", "unsure"} =>
         \E b \in bytes[p] :
           /\ WholeAnswer(b)
           /\ \/ b.body.error # NoError
              \/ /\ pc'[p] = "list" => helper'[p]
                 /\ pc'[p] = "lock" => unspent'[p].id \in Id
                 /\ pc'[p] = "build" => about'[p] # ""]_vars

(* Every session ends, whatever the network does, if the node ends every    *)
(* call.                                                                    *)
Over(p) == pc[p] \in {"thrown", "terminated", "crashed", "made", "refused", "unsure"}
SessionsEnd ==
  \A s \in Session :
    (\E p \in Payment : p[1] = s /\ pc[p] = "params") ~>
      (\E p \in Payment :
         /\ p[1] = s
         /\ Over(p)
         /\ Kind(p) = "publish" => pc[<<s, "pay">>] = "none" \/ pc[p] \in {"terminated", "crashed"})
=============================================================================
