------------------------------ MODULE MCSendTx ------------------------------
EXTENDS SendTx

Keys == {"a", "b"}

Multisig(n, keys) == Script("multisig", keys, n, <<>>)
Hash(script) == Script("scripthash", <<>>, 0, <<script>>)
With(script, tail) == [script EXCEPT !.tail = tail]

KeyHash == Script("keyhash", <<"a">>, 1, <<>>)
PubKey == Script("pubkey", <<"b">>, 1, <<>>)
NullData == Script("nulldata", <<>>, 0, <<>>)
Other == Script("other", <<>>, 0, <<>>)

(* More signatures than keys are never enough; one key may have two places. *)
Redeem ==
  {Multisig(1, <<"a", "b">>), Multisig(2, <<"a", "b">>), Multisig(2, <<"a", "a", "b">>),
   Multisig(1, <<"b", "a", "a">>), Multisig(3, <<"a", "b">>), KeyHash, Hash(KeyHash),
   With(Multisig(1, <<"a", "b">>), "junk"), EmptyScript, Other}

Plain ==
  {KeyHash, PubKey, Multisig(1, <<"a", "b">>), Multisig(2, <<"a", "a">>),
   NullData, EmptyScript, Other}

Spent ==
  Plain \cup {With(s, tail) : s \in {KeyHash, PubKey, Hash(KeyHash)}, tail \in {"drops", "junk"}}
        \cup {Hash(r) : r \in Redeem}

To == {<<"key", "b">>, <<"script", Multisig(2, <<"a", "b">>)>>, NoDestination}

CallOf(kind, to, asked, unspent, multiple, spent, redeem, key, itemKey) ==
  [kind |-> kind, to |-> to, asked |-> asked, unspent |-> unspent, multiple |-> multiple,
   spent |-> spent, redeem |-> redeem, key |-> key, itemKey |-> itemKey]

(* Every output, redeem script and key; every quantity in steps of half a   *)
(* unit from every amount of up to sixty units.  With thirteen bits 0.29,   *)
(* 0.57 and 0.58 times 100 fall short, as they do in doubles.               *)
MCCall ==
  {CallOf("asset", to, <<1, 1>>, 3, 1, spent, redeem, key, "") :
     to \in To, spent \in Spent, redeem \in Redeem, key \in Keys \cup {"invalid"}}
  \cup {CallOf("stream", NoDestination, <<0, 1>>, 0, 1, spent, redeem, key, itemKey) :
     spent \in Spent, redeem \in Redeem, key \in Keys \cup {"invalid"},
     itemKey \in {"short", "long"}}
  \cup {CallOf("asset", <<"key", "b">>, <<n, 2 * multiple>>, unspent, multiple, KeyHash, EmptyScript, "a", "") :
     n \in 0 .. 120, unspent \in 0 .. 60, multiple \in {1, 10, 100}}
=============================================================================
