------------------------------- MODULE SendTx -------------------------------
(***************************************************************************)
(* createAssetSendTx and createStreamPublishTx of keys/src/hs_keys.cpp:    *)
(* they build a transaction that spends one unspent output, sign it with   *)
(* the key they are given and return it; solver, signN and TemplateSolver  *)
(* of transactions.cpp and standard.cpp decide how the output is signed.   *)
(*                                                                         *)
(* A script is a record: its form, the keys in it, the number of           *)
(* signatures it asks for, the script it is the hash of, and what follows. *)
(* A key is its own hash, and a script its own: hashes do not collide.     *)
(***************************************************************************)
EXTENDS Doubles, Sequences, FiniteSets

CONSTANTS
  SendCall,     (* the arguments of the calls                               *)
  AlmostHalf,   (* 0.499999                                                 *)
  Width         (* quantities in a script are modulo this: 2^64             *)

Forms == {"empty", "pubkey", "keyhash", "scripthash", "multisig", "nulldata", "other"}

(* A script of a form holds what the form has.                              *)
IsScript(script) ==
  /\ script.form \in Forms
  /\ script.form \in {"pubkey", "keyhash"} => script.keys # <<>>
  /\ script.form = "multisig" => Len(script.keys) \in Nat /\ script.required \in Nat

ASSUME SendTxAssumption ==
  /\ AlmostHalf \in Nat /\ 2 * AlmostHalf < One
  /\ Width \in Nat \ {0}
  /\ \A c \in SendCall :
       /\ c.kind \in {"asset", "stream"}
       /\ IsScript(c.spent) /\ IsScript(c.redeem)
       /\ c.multiple \in Nat \ {0} /\ c.unspent \in Nat

VARIABLES
  call,         (* the arguments                                            *)
  stage,        (* what is done next: "pay", "change", "publish", "back",   *)
                (* "sign", "redeem", and at the end "done" or "thrown"      *)
  vout,         (* the outputs of txNew                                     *)
  scriptSig,    (* the script of its input                                  *)
  result        (* "hex" or ""                                              *)

sendVars == <<call, stage, vout, scriptSig, result>>

SendInit ==
  /\ call \in SendCall
  /\ stage = IF call.kind = "asset" THEN "pay" ELSE "publish"
  /\ vout = <<>>
  /\ scriptSig = <<>>
  /\ result = ""

-----------------------------------------------------------------------------
(* Scripts.                                                                 *)
Script(form, keys, required, redeem) ==
  [form |-> form, keys |-> keys, required |-> required, redeem |-> redeem, tail |-> "none"]

EmptyScript == Script("empty", <<>>, 0, <<>>)

(* A destination is <<"key", k>>, <<"script", s>> or none.                  *)
NoDestination == <<"none">>

GetScriptForDestination(dest) ==
  CASE dest[1] = "key"    -> Script("keyhash", <<dest[2]>>, 1, <<>>)
    [] dest[1] = "script" -> Script("scripthash", <<>>, 0, <<dest[2]>>)
    [] dest[1] = "none"   -> EmptyScript

(* The form is data here: OP_RETURN and up to two pushes with OP_DROP ...   *)
IsStandardNullData(script) == script.form = "nulldata"

(* ... or one of the four that can be signed.                               *)
HasDestination(script) == script.form \in {"pubkey", "keyhash", "scripthash", "multisig"}

(* Pushes with OP_DROP may follow an address; after anything else a script  *)
(* is of no known form.  An empty script is one of no form, successfully.   *)
TemplateSolver(script) ==
  IF HasDestination(script) /\ script.tail # "junk"
  THEN [ok |-> TRUE, which |-> script.form]
  ELSE [ok    |-> script.form = "empty",
        which |-> IF IsStandardNullData(script) THEN "nulldata" ELSE "nonstandard"]

(* A looser match: the first bytes decide.                                  *)
ExtractDestinationScriptValid(script) ==
  CASE script.form \in {"keyhash", "pubkey"} -> <<"key", script.keys[1]>>
    [] script.form = "scripthash"            -> <<"script", script.redeem[1]>>
    [] OTHER                                 -> NoDestination

(* What SIGHASH_ALL covers: the script being executed and the outputs (the  *)
(* input is the same in the whole call).                                    *)
SignatureHash(script) == [script |-> script, vout |-> vout]

-----------------------------------------------------------------------------
(* Signing.  The outcome: whether it succeeded or threw, and scriptSig.     *)
Outcome(end, sig) == [end |-> end, sig |-> sig]

(* Variant: it does not stop when enough keys have signed.                  *)
SignN_All(script, hash, sig) ==
  LET mine == {i \in 1 .. Len(script.keys) : script.keys[i] = call.key}
      n == Cardinality(mine)
  IN  IF call.key = "invalid" THEN Outcome("thrown", sig)
      ELSE Outcome(IF n >= script.required THEN "true" ELSE "false",
                   sig \o [i \in 1 .. n |-> <<"sig", call.key, hash>>])

(* One signature for each place the key has in the script, up to the number *)
(* that is asked for.                                                       *)
SignN(script, hash, sig) ==
  LET mine == {i \in 1 .. Len(script.keys) : script.keys[i] = call.key}
      n == IF Cardinality(mine) < script.required THEN Cardinality(mine) ELSE script.required
  IN  IF call.key = "invalid" THEN Outcome("thrown", sig)
      ELSE Outcome(IF n >= script.required THEN "true" ELSE "false",
                   sig \o [i \in 1 .. n |-> <<"sig", call.key, hash>>])

SignOne(script, hash, more) ==
  IF call.key = "invalid" THEN Outcome("thrown", <<>>)
  ELSE IF call.key # script.keys[1] THEN Outcome("false", <<>>)
  ELSE Outcome("true", <<<<"sig", call.key, hash>>>> \o more)

(* The redeem script is not compared with its hash in the output.           *)
Solver(script, hash) ==
  LET which == TemplateSolver(script).which
  IN  CASE ~TemplateSolver(script).ok -> Outcome("false", scriptSig)
        [] which = "nonstandard" /\ TemplateSolver(script).ok -> Outcome("false", <<>>)
        [] which = "pubkey"      -> SignOne(script, hash, <<>>)
        [] which = "keyhash"     -> SignOne(script, hash, <<<<"key", call.key>>>>)
        [] which = "scripthash"  -> Outcome("true", <<<<"script", call.redeem>>>>)
        [] which = "multisig"    -> SignN(script, hash, <<<<"zero">>>>)

-----------------------------------------------------------------------------
Output(dest, data) == [script |-> GetScriptForDestination(dest), data |-> data]

(* Variant: the quantity is cut, not rounded.                               *)
SentQuantity_Cut == Trunc(Times(Decimal(call.asked[1], call.asked[2]), call.multiple))

(* (int64_t)(quantity * multiple + 0.499999)                                *)
SentQuantity ==
  Trunc(Plus(Times(Decimal(call.asked[1], call.asked[2]), call.multiple), AlmostHalf))

(* (int64_t)(unspentQty * multiple - qnt)                                   *)
ChangeQuantity ==
  Trunc(Minus(Times(Decimal(call.unspent, call.multiple), call.multiple),
              SentQuantity * One))

(* The asset goes to the address given, or to nobody if it is not one.      *)
Pay ==
  /\ stage = "pay"
  /\ vout' = <<Output(call.to, <<"asset", SentQuantity % Width>>)>>
  /\ stage' = "change"
  /\ UNCHANGED <<call, scriptSig, result>>

(* The change goes to the signing key.                                      *)
PayChange ==
  /\ stage = "change"
  /\ IF call.key = "invalid"
     THEN stage' = "thrown" /\ UNCHANGED vout
     ELSE /\ vout' = Append(vout, Output(<<"key", call.key>>, <<"asset", ChangeQuantity % Width>>))
          /\ stage' = "sign"
  /\ UNCHANGED <<call, scriptSig, result>>

(* A stream item: the key is left out when SetItemKey refuses it.           *)
Publish ==
  /\ stage = "publish"
  /\ vout' = <<[script |-> Script("nulldata", <<>>, 0, <<>>),
                data |-> IF call.itemKey = "long" THEN <<"entity", "value">>
                         ELSE <<"entity", "key", "value">>]>>
  /\ stage' = "back"
  /\ UNCHANGED <<call, scriptSig, result>>

(* What is left goes back to where the output came from.                    *)
PayBack ==
  /\ stage = "back"
  /\ vout' = Append(vout, Output(ExtractDestinationScriptValid(call.spent), <<>>))
  /\ stage' = "sign"
  /\ UNCHANGED <<call, scriptSig, result>>

Sign ==
  /\ stage = "sign"
  /\ LET solved == Solver(call.spent, SignatureHash(call.spent))
     IN  /\ scriptSig' = solved.sig
         /\ \/ solved.end = "thrown" /\ stage' = "thrown" /\ UNCHANGED result
            \/ solved.end = "false" /\ stage' = "done" /\ UNCHANGED result
            \/ /\ solved.end = "true"
               /\ IF TemplateSolver(call.spent).which = "scripthash"
                  THEN stage' = "redeem" /\ UNCHANGED result
                  ELSE stage' = "done" /\ result' = "hex"
  /\ UNCHANGED <<call, vout>>

(* Variant: the hash of the output's own script is signed again.            *)
SignRedeem_SameHash ==
  /\ stage = "redeem"
  /\ LET subscript == scriptSig[1][2]
         solved == Solver(subscript, SignatureHash(call.spent))
     IN  IF solved.end = "thrown"
         THEN scriptSig' = solved.sig /\ stage' = "thrown" /\ UNCHANGED result
         ELSE scriptSig' = Append(solved.sig, <<"push", subscript>>)
              /\ stage' = "done" /\ result' = "hex"
  /\ UNCHANGED <<call, vout>>

(* The redeem script is signed in its turn and pushed.  Whether it could be *)
(* signed makes no difference: the other signatures may follow later.       *)
SignRedeem ==
  /\ stage = "redeem"
  /\ LET subscript == scriptSig[1][2]
         solved == Solver(subscript, SignatureHash(subscript))
     IN  IF solved.end = "thrown"
         THEN scriptSig' = solved.sig /\ stage' = "thrown" /\ UNCHANGED result
         ELSE /\ scriptSig' = Append(solved.sig, <<"push", subscript>>)
              /\ stage' = "done"
              /\ result' = "hex"
  /\ UNCHANGED <<call, vout>>

SendNext == Pay \/ PayChange \/ Publish \/ PayBack \/ Sign \/ SignRedeem

SendSpec == SendInit /\ [][SendNext]_sendVars

-----------------------------------------------------------------------------
(* Properties.                                                              *)

(* The places of as many keys as have to sign, in the order of the keys.     *)
Places(script) ==
  {by \in [1 .. script.required -> 1 .. Len(script.keys)] :
     \A i, j \in 1 .. script.required : i < j => by[i] < by[j]}

(* What the node checks of an input: it runs the script of the input, then  *)
(* that of the output, and for the hash of a script that script too.  The   *)
(* signatures come in the order of the keys.                                *)
SignedBy(item, key, script) == item = <<"sig", key, SignatureHash(script)>>

Satisfies(items, script) ==
  CASE script.form = "pubkey"  -> Len(items) = 1 /\ SignedBy(items[1], script.keys[1], script)
    [] script.form = "keyhash" ->
         /\ Len(items) = 2
         /\ SignedBy(items[1], script.keys[1], script)
         /\ items[2] = <<"key", script.keys[1]>>
    [] script.form = "multisig" ->
         /\ Len(items) = script.required + 1
         /\ items[1] = <<"zero">>
         /\ \E by \in Places(script) :
              \A i \in 1 .. script.required : SignedBy(items[i + 1], script.keys[by[i]], script)
    [] OTHER -> FALSE

(* A script that is the hash of another one is not opened a second time.    *)
Spends(items, script) ==
  IF script.form = "scripthash"
  THEN /\ items # <<>>
       /\ items[Len(items)] = <<"push", script.redeem[1]>>
       /\ Satisfies(SubSeq(items, 1, Len(items) - 1), script.redeem[1])
  ELSE Satisfies(items, script)

(* The key given is enough for an output, with the redeem script given.     *)
Enough(script) ==
  /\ call.key # "invalid" /\ script.tail # "junk"
  /\ \/ script.form \in {"pubkey", "keyhash"} /\ script.keys[1] = call.key
     \/ /\ script.form = "multisig"
        /\ Cardinality({i \in 1 .. Len(script.keys) : script.keys[i] = call.key})
             >= script.required

Owns ==
  \/ Enough(call.spent)
  \/ /\ call.spent.form = "scripthash" /\ call.spent.tail # "junk"
     /\ call.redeem = call.spent.redeem[1]
     /\ Enough(call.redeem)

(* A call ends with a transaction the node accepts the input of exactly     *)
(* when the key, with the redeem script, is enough to spend the output:     *)
(* every signature covers the outputs as they are in the end and the script *)
(* that is executed (hs_keys.cpp:183-205, transactions.cpp:515).            *)
SpendableIfOwned ==
  stage \in {"done", "thrown"} =>
    ((result = "hex" /\ Spends(scriptSig, call.spent)) <=> Owns)

(* The signatures of the keys at the places by, and those of this key only. *)
InPlaces(script, by) ==
  [i \in 1 .. script.required |-> <<"sig", script.keys[by[i]], SignatureHash(script)>>]

OfKey(script, by) ==
  LET mine == {i \in 1 .. script.required : script.keys[by[i]] = call.key}
  IN  [i \in 1 .. Cardinality(mine) |-> <<"sig", call.key, SignatureHash(script)>>]

Full(signatures, script) == <<<<"zero">>>> \o signatures \o <<<<"push", script>>>>

(* When more signatures are needed than the key can give, the transaction   *)
(* holds those of the key, valid, between OP_0 and the redeem script: with  *)
(* the missing ones put in it can be spent (moduleTest main.cpp:413-460     *)
(* completes one so).                                                       *)
PartialSignaturesAreGood ==
  (/\ stage = "done" /\ call.spent.form = "scripthash" /\ call.spent.tail # "junk"
   /\ call.redeem = call.spent.redeem[1] /\ call.redeem.form = "multisig"
   /\ call.redeem.tail # "junk" /\ call.redeem.required <= Len(call.redeem.keys))
  =>
    /\ result = "hex"
    /\ \E by \in Places(call.redeem) :
         /\ Spends(Full(InPlaces(call.redeem, by), call.redeem), call.spent)
         /\ scriptSig = Full(OfKey(call.redeem, by), call.redeem)

(* The quantity sent is the one asked for, to the nearest unit, and a half  *)
(* is not sent, although the product of the doubles is not exact            *)
(* (hs_keys.cpp:146).                                                       *)
Sent == vout[1].data[2]
Change == vout[2].data[2]
AssetDone == stage = "done" /\ result = "hex" /\ call.kind = "asset"

SendsWhatWasAsked ==
  AssetDone =>
    LET n == call.asked[1] * call.multiple
        d == call.asked[2]
    IN  Sent = (n \div d) + (IF 2 * (n % d) > d THEN 1 ELSE 0)

(* What is sent and the change make up the amount of the output that is     *)
(* spent, or one unit less: the change is cut where a product of doubles    *)
(* falls short.  No unit is made (hs_keys.cpp:146, 166).                    *)
OutputsAddUp ==
  (AssetDone /\ Sent <= call.unspent) => Sent + Change \in {call.unspent, call.unspent - 1}

(* The amounts of both outputs are those asked for and left over, although  *)
(* they come from products of doubles.                                      *)
AmountsAreRight == SendsWhatWasAsked /\ OutputsAddUp

=============================================================================
