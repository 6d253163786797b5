# Verification of the Hdac SDK

TLA+ models of the C++ wallet SDK in `src/` (keys, scripts, transactions and
RPC client of the Hdac blockchain, a MultiChain/Bitcoin derivative), the TLC
configurations that check them and the TLAPS proofs about them.  Line numbers
are those of the files under `src/`.

## 1. Inventory

The SDK is a set of libraries an application links; it has no process of its
own.  What state it has is process-wide globals (elliptic-curve contexts, the
table of locked pages, the OpenSSL locks), objects the application holds
(helpers, RPC client, scripts, buffers) and values passed by copy.

| Component | State | Operations | Works with | What is hard, what makes it correct |
|---|---|---|---|---|
| ECC contexts (`keys/src/key.cpp`, `pubkey.cpp`, `eccautoinitreleasehandler.cpp`) | `secp256k1_context_sign`, `secp256k1_context_verify`, `refcount` | `ECC_Start`, `ECC_Stop`, handle constructor and destructor, the scope object | every SDK call that signs, verifies or derives a key | unguarded globals, early returns, exceptions, a failing sanity check: no assertion fires, nothing leaks, and a context that was destroyed is not used |
| Locked pages (`utils/include/utils/allocators.h`) | histogram of pages, mutex | `LockRange`, `UnlockRange`, `LockObject`, `UnlockObject`, `secure_allocator` | `CKey`, the seed of `ECC_Start`, `mlock()` | mlock does not stack, threads, mlock failing: a page stays locked exactly while an object needs it |
| Script container (`script/src/hdacscript.cpp`, `mc_Script`) | data buffer, index of elements, current element | `Clear`, `AddElement`, `SetData`, `GetData`, `SetElement`, the typed getters and setters, `SetScript` | metadata builder, transaction classifier | growing buffers, a cursor that reads move: elements stay what was appended |
| Details scripts (`mc_VarInt`, `SetParamValue`, `mc_GetParamFromDetailsScript`, ...) | none | parameters of a name or a code and a value, one after the other | entity identifiers, raw metadata | lengths at the boundaries, truncated input: what was written is read back |
| Typed elements (`mc_Script`'s setters and getters, `entities/src/asset.cpp`) | the current element; the details of an entity | the setters and getters, cached scripts, the accessors of `mc_EntityDetails` | script container, details scripts | kinds that share a letter or a size, getters that accept more than their setter writes |
| Asset quantities (`mc_Script::GetAssetQuantities`, `SetAssetQuantities`, `mc_Buffer`) | row buffer | merging of the assets of an output | transaction classifier, asset send | overflow, flags of one group that leak into the next |
| Transaction building (`keys/src/hs_keys.cpp`, `transactions.cpp`, `standard.cpp`) | transaction under construction | `createAssetSendTx`, `createStreamPublishTx`, `solver`, `signN`, `TemplateSolver` | script container, ECC contexts | amounts and change, early returns, unchecked results |
| Transactions as bytes (`primitives/src`, `serialize.h`, `streams.h`, `script.h`) | a transaction and its hash, the read position of a stream | `EncodeHexTx`, `DecodeHexTx`, `SignatureHash`, `analyzeTx`, `CScript::operator<<`, `GetOp` | solver, RPC client | limits of sizes, texts that end early, `SIGHASH` types, pushes that look like scripts |
| Raw metadata (`keys/src/rawmetadata.cpp`) | parse state: new type, allowed fields, error, details script | `ParseRawMetadata` | script container | order of the fields, sticky errors, mutually exclusive fields |
| Multisig (`keys/src/multisig.cpp`) | none | redeem script, address | ECC contexts | bounds on keys and signatures |
| Addresses and keys (`structs/src/base58.cpp`, `bitcoinaddress.cpp`, `bitcoinsecret.cpp`) | version bytes and data | `SetString`, `ToString`, checks | helpers | interleaved version bytes, checksums: what is written is read back |
| Keys (`keys/src/key.cpp`, `pubkey.cpp`) | bytes of a key, its form, whether it is valid | `SetPrivKey`, `GetPrivKey`, `Load`, `Sign`, `SignCompact`, `Verify`, `RecoverCompact`, `Derive` | ECC contexts, locked pages, solver | the forms of DER, truncated input, two functions that must derive the same pair |
| Signed messages (`hs_keys.cpp`, `utils/src/base64.cpp`) | none | `SignMessage`, `VerifyMessage`, `walletAddrFromPubKey` | keys, addresses | the form of the key travels in a bit of the signature; damaged text: only the signer's address verifies |
| RPC client (`rpc/src`) | connection of one call, last error and result | `CallRPC`, `RpcCaller`, the commands | the node, helpers | error paths; a reply cut short; an error of an earlier call |
| Helpers (`helpers/src`) | chain parameters | construction from the node or from a file, getters | RPC client, keys | construction that half fails; two readers of one file that must agree |
| Wallet session (`moduleTest/src/main.cpp`, `rpc/example`) | unspent outputs chosen and locked | list, lock, build, send | RPC client, helpers, transaction building | two sessions that choose the same output; replies that are lost after the node has acted |
| Random and clock (`utils/src/random.cpp`, `utiltime.cpp`, `util.cpp`) | mock time, OpenSSL locks | `GetRandBytes`, `GetTime` | keys | entropy is out of a model's reach |
| Hashes and big numbers (`crypto`, `structs/uint256`), `tinyformat.h`, `dotnet-lib`, C wrappers, tests, examples | none | pure computations and bindings | all | unchanged Bitcoin code, or no state of their own |

## 2. Modules

In the order of the inventory; the last column says what stands for what.

| Module | Component | State and actions in the code |
|---|---|---|
| `EccContext` | ECC contexts | Each global is a variable. The statements of `ECC_Start`, `ECC_Stop` and of the handle that touch one are actions of their own (`StartAssert`, `StartCreate`, `StartPublish`, `HandleTest`, `HandleCreate`, `HandleDestroy`, `HandleClear`, `StopLoad`, ...), because nothing guards them. A call is its sequence of scoped and unscoped blocks (`createKeyPairs`, `solver`, ...), which may throw or return early (`Return`, `LeaveBody`) |
| `LockedPages` | locked pages | The histogram, the mutex and what the kernel has locked. A loop turn of `LockRange` or `UnlockRange` is a step (`Find`, then `LockPage` or `UnlockPage`); `Fill` is the moment an object gets key material |
| `Elements` | what `mc_Script` promises | a list of byte strings, a cursor and the result of the last read |
| `McScript` | script container | The fields of `mc_Script`, with the allocated arrays and their chunks; each public operation on elements is an action. It implements `Elements` |
| `DetailsScript` | details scripts | The codec as functions on sequences of bytes (`PutVarInt`, `GetParam`, `FindNamed`, ...) and the two setters as actions |
| `EntityDetails` | rows of details | The accessors of `mc_EntityDetails` as functions of the details script: name, multiple, numbers as the `int` they are narrowed to, `NextParam` |
| `TypedElements` | typed elements | A setter gives the set of elements it may append, a getter is a function of the current element; `SetTyped` and `SetEntityDetails` are the calls, `OpenCached` and `AppendCached` the cached scripts |
| `OpDropScript` | parsing of transaction scripts | A turn of the loop of `SetScript` is an action (`Cut`, `GoBack`, `OpReturn`, `OpDrop`, `Other`, `ReturnData`, `SigData`, `Finish`); `ParseOpDropOpReturnScript` is the second parser, as a function |
| `RawMetadata` | metadata builder | A field of the JSON object is an action (`Create`, `For`, `Name`, `Details`, ...), and the checks and the emission at the end are the last ones |
| `AssetQuantities` | asset quantities, row buffer | An item of an element is a step: `AddRow`, `AddToRow`, `RefuseNegative`; `Open` and `Close` are the ends of `GetAssetQuantities`, `Rewrite` is `SetAssetQuantities` |
| `SendTx`, `Doubles` | transaction building, multisignature scripts | The stages of `createAssetSendTx` and `createStreamPublishTx`; `Solver`, `SignN`, `TemplateSolver` as operators. `Doubles` is IEEE arithmetic with a parameter for its precision |
| `ScriptBytes` | `CScript` | The bytes that `operator<<` appends for data, numbers and operations, and `GetOp` over them |
| `TransactionBytes` | transactions as bytes | `AddInput`, `AddOutput`, `Encode` are a `CMutableTransaction` and `EncodeHexTx`; `Damage` is what happens to the text on its way; `DecodeHexTx` reads it field by field over an object that is used again. `SignatureHash` and `AnalyzeScript` are operators |
| `ChainParams` | helpers with a file | A file is lines of tokens; `EditFile` is what its owner does, `KeysHelperWithFileAll` and `KeysHelperWithFileMulti` are the two helpers, `NoFile` a file that cannot be opened |
| `AddressText` | addresses and keys in text | `WriteKeyAddress`, `WriteScriptAddress` and `WriteSecret` write under the parameters a helper gave, `Copy` is somebody's mistake with the text; the readers are operators |
| `Der`, `Keys` | keys | The lax parser goes from place to place with a cursor; `ExportDer` and `ImportDer` are the private key in the form of OpenSSL. `WriteSignature` and `WriteKey` make the texts, `MakeNewKey` and `Derive` a pair on both sides. A point is the number of its key |
| `Base64`, `Messages` | signed messages | `Sign` is `SignMessage` with the text `AddressText` has made, `CopySignature` somebody's mistake with the result; `VerifyMessage` and `WalletAddrFromPubKey` are operators |
| `RpcCall` | RPC client | A call as functions: the request a command makes of its arguments, and what the caller is told of the bytes that came back |
| `Payments` | what a wallet session promises | an output is spent once, a payment made at most once, and what its owner is told is so and stays so |
| `WalletSession` | wallet session | The steps of the two grabbers and of `main` (`MakeHelper`, `ChooseUnspent`, `Lock`, `Unlock`, `ChooseKind`, `Build`, `Sent`, and the early returns `NoListing`, `NotLocked`, `NoKind`), `Call` and `Throw` around them, and a node that is not in the repository (`Node...`). It implements `Payments` |

`RawMetadataProofs`, `AssetQuantitiesProofs` and `WalletSessionProofs` hold the
proofs about the module they are named after, `TypedElementsProofs` those about
it, `EntityDetails` and `DetailsScript`, `MemoryProofs` those about the locked
pages and the container, `LockedPages` and `McScript`, `TransactionProofs` those
about a transaction, as bytes and as the scripts in it, `TransactionBytes`,
`ScriptBytes` and `OpDropScript`, and `KeysProofs` those about `Keys`, the
contexts keys are used with, `EccContext`, what is signed with them, `SendTx`,
and the texts and files they come in, `AddressText` and `ChainParams`.
`BasicLemmas` has what several of them need: induction over numbers, recursive
functions, digits and sums, and sequences that are made up of parts. An `MC` module gives constants their values where a `.cfg` cannot. An
operator named after a definition with a suffix (`SignN_All`) is a *variant*: the same
code with a plausible bug, which breaks a property when it takes the place of
the definition. No specification uses one.

How they fit together: `createAssetSendTx` (`SendTx`) writes its quantities with
`SetAssetQuantities` (`AssetQuantities`) into an `mc_Script` (`McScript`), runs
`solver` inside a scope (`EccContext`) with a key whose bytes are in locked
pages (`LockedPages`); what it signs is `SignatureHash` (`TransactionBytes`).
A transaction that is read is split by `SetScript` (`OpDropScript`) into the
elements of an `mc_Script`, which the getters of `TypedElements` read, and one
that is written from JSON (`RawMetadata`) carries its fields as parameters
(`DetailsScript`), which `EntityDetails` finds again. Modules that are used
directly by another are composed: `TypedElements` extends `EntityDetails` and
`DetailsScript` (the details of an entity are what that module wrote),
`TransactionBytes` extends `ScriptBytes`, `AddressText` extends `ChainParams`
(the versions and the checksum are those a helper has read), `Messages` extends
`AddressText`, `Keys` (which extends `Der`) and `Base64`, `WalletSession`
extends `RpcCall` and refines `Payments`. A session is a composition of two
programs of the repository, as an application would make it: `moduleTest`
builds a transaction and prints it (`main.cpp:165`, 318), and `sendrawtx` is
called in `rpc/example/main.cpp:45` alone, on a fixed text. What it means that a
transaction could not be built, an empty text, is not looked at: such a text is
one that the node refuses. The others meet through a value one
returns and the other takes, and share no state.

## 3. Runs

Two workers need up to two minutes for `TypedElements`, one for
`Messages` and `WalletSession`, half a minute for `TransactionBytes` and
less for the others.

| Run | Bounds | What it shows |
|---|---|---|
| `EccContext` | two threads with one call at a time between them, two addresses the allocator reuses, every call, sanity checks that fail | no assertion fires, nothing leaks or is destroyed twice, no global dangles but for the verify context between the two statements that destroy and forget it, where no body uses it, and a scope has its contexts (`ContextsAreLive`) |
| `LockedPages` | two threads, five objects over four pages of four bytes | key material is only on locked pages or those `mlock` refused, the histogram and the locks are exact (`BookkeepingIsExact`), the mutex is released |
| `McScript` | chunks of two bytes and of one element, up to four bytes and three elements | both arrays grow twice, with data, and the container is a list |
| `TypedElements` | up to three parameters and 272 bytes; four byte values, so that sizes of 14, 15, 254 and 255 lie at the limits of the integers; every setter with arguments on both sides of its limits; up to three cached scripts | what was written is read whole or refused, rows answer with the first value written, each kind is read by its own getter alone, a getter accepts nothing its setter would not write, cached scripts come in order |
| `OpDropScript` | every script of up to five of eleven operations, two of which have a negative size | the flags mean what they say, both parsers agree, a redeem script is opened |
| `RawMetadata` | every object of up to three fields, six sets of permitted kinds | an error is never lost, what is accepted names one kind that is allowed and is complete |
| `RawMetadataCache` (violation) | the same | details before an input cache are dropped (finding below) |
| `SendTx` | 23 outputs, 10 redeem scripts, two keys and an invalid one; quantities in half units up to 60 against amounts up to 60 | a transaction can be spent exactly when the key is enough, partial signatures are good, the amounts add up |
| `AssetQuantities` | outputs of up to two elements of up to two items, quantities of three bits | a row for each asset holds the sum and the kinds of what was read; what is written is read back |
| `WalletSession` | one session that publishes and then pays, or two that pay, over four outputs | what is sent could be spent; locks do not stay; a payment is made once and its owner knows, also when replies are cut, lost or late; nothing follows from half a reply; sessions end |
| `TransactionBytes` | scripts of two operations at the limits of a push; transactions of two inputs and two outputs with scripts at the limits of a size, cut, lengthened or with another form of a size | pushes are read as written, a transaction is decoded as it was encoded and has one encoding, each type of hash covers exactly its parts, a listing shows every element |
| `Messages` | three files with up to two lines added or taken out; every kind of address and key, with any one digit wrong, lost, doubled or surrounded by spaces; two messages, and each signature with any one character wrong, lost or doubled; signatures and keys in every form of DER, whole and cut at any place; pairs derived twice in a row | both helpers read the same parameters, what is written is read back as its kind unless its checksum value is 0, an address has one text, no text passes on another chain, a signature verifies for its signer and message only, DER is read as it was meant or refused, a public key derives what its private key does |

Why the bounds are enough:

* `EccContext` has one counter and two pointers, and threads are alike: two of
  them meet at every pair of statements. Two addresses are needed for a stale
  pointer to look like a new context. There is no bound on the number of calls.
* `LockedPages`: two objects share page 0, one covers the end of a page and the
  next one wholly, one ends on the last byte of a page and one is empty; that is
  every way a range meets a page. The empty one and the end on a page boundary
  are where an off-by-one would show.
* `McScript`: a chunk of two bytes with pieces of zero, one and three bytes
  meets every relation of piece, chunk and remaining room.
* `TypedElements`: the radix of a byte is a parameter. With four values, two
  bytes hold 14 as 0xfffe holds in the code, and four bytes 254; the limits of
  the integers of one, two and four bytes are crossed with sequences TLC can
  hold. Names differ in case or begin with another; three parameters are two
  that are equal and one between or around them. Bodies of 5, 8 and 16 bytes
  make kinds whose elements have the same size, which is where only the letter
  or a later check keeps them apart.
* `OpDropScript`: five operations hold two pieces with `OP_DROP` and an
  `OP_RETURN`, or a multisignature input of two of two; a third piece repeats
  the same turn of the loop. `OpDropAssumption` says what an operation is;
  `RedeemScriptIsOpened` is about signatures and keys that do not themselves
  look like redeem scripts. A size from 2^31 on is negative and takes the pointer
  back: to its own push or two operations before it, which may be in front of
  data or between data and its `OP_DROP`. Where it leads to no operation, or the
  negative number of bytes is copied (in an input script and after `OP_RETURN`),
  the state is `astray` and is not followed, since what happens is undefined.
  Such a loop may add elements for ever; `GoBack` stops when there are more than
  `MaxLength`. `ParseOpDropOpReturnScript` goes back in the same way
  (`hdacscript.cpp:1872`); it is modelled for scripts without such sizes, and
  compared with the first parser where that found the script clean, which
  none with such a size before its `OP_RETURN` is. The proofs have no other bound.
* `RawMetadata`: the rules relate pairs of fields, with a third one between or
  after them. `MaxDetails` and `MaxPairs` bound the custom fields and the
  fields of an object. The proofs have no bound.
* `AssetQuantities`: a row is added to once from each of two elements, or twice
  from one, and refused in the middle of either. Three bits let two quantities
  overflow. The proofs have no bound.
* `SendTx`: a multisignature script has up to three places for two keys, one of
  which may stand twice, and may ask for more than it has. Doubles of 13 bits
  show with quantities up to 60 what those of 53 bits show: 0.29, 0.57 and 0.58
  times 100 fall short, and no other product up to 60 units does.
* `WalletSession`: `Plans` bounds who runs what. One session in two parts shows
  what a first part leaves for the second, two payments from one address show
  one output chosen twice; an output of another address, one without assets and
  two with the asset are each the wrong choice for somebody. Up to one call of a
  payment is under way, as the code has one connection at a time, and it may be
  handled after its caller has given up. The proofs have no bound.
* `TransactionBytes`: bytes have 16 values, so that the markers are 13, 14 and
  15; the fields behind them have one, two and three bytes, `MAX_SIZE` is 16 and
  a script of 12, 13, 16 or 17 bytes is on either side of a limit. Fields of fixed width
  have one byte: they are cut or not, and their width is the same for writer and
  reader. Two inputs and outputs are what "this one" and "the others" of a
  signature hash need. `MaxOps` is 2: a push and what follows it.
* `AddressText`: numbers in base 8 and 6 instead of 256 and 58, identifiers of
  two bytes and keys of four. What the code needs of the true sizes, a key is
  longer than a hash with its version, is an assumption. `Hash` is a constant
  operator that tells apart the texts of the run as a checksum does; `BitXor` is
  the exclusive or of `Bitwise`, of which `ChecksumAssumption` says what a
  checksum needs, and is a constant because no proof can reach that module. So is
  `Int32Le`, the number all bytes of a parameter make, of one byte here as a
  checksum is. A helper may read 0 for it, and the run does. `Token`
  is the words of the run's files. Two edits
  are a line before and one after the one that is read.
* `Keys`, `Messages`: a number has two bytes and `Order` is 3500, so that keys,
  r and s include 1, the last one below `Order`, `Order` itself and one with
  more bytes than fit. `ShortTail` and `LongTail` put the size of a key's text
  into one byte and into two, as in the code. A signature has 5 bytes, which
  leave the same rest by three as 65 do, and that is what the end of a base64
  text depends on. `MaxDepth` is 2: a child and its child, with an index whose
  child does not exist. One wrong character is what a copy changes; keys, which
  need no parameters, are written and derived where no file could be read.

`CHECK_DEADLOCK FALSE` stands where a specification ends: a script, an object
or a transaction is complete, or every session is over.

### Fairness

* `LockedPages`: weak fairness of the thread that holds the mutex, and of it
  alone. It does not block while it holds it. Boost's mutex is not fair, so a
  waiting thread may wait for ever; no property says otherwise.
* `WalletSession`: weak fairness of the steps of a session, a program that only
  blocks in a call, and of the node for a call somebody waits for: it answers,
  refuses or closes the connection in the end. This is an assumption about the
  node that the code makes too, since `CallRPC` waits without a time limit. No
  fairness on failures of the network, nor on a call nobody waits for.

The other modules have no liveness property: a call is a line of statements
without a loop (`EccContext`), or each of its loops has a finite input of which
one element is consumed in each step. The loop that goes back (`OpDropScript`)
is the exception, and no property says that it ends.

### What disagrees with a text of the repository

`RawMetadataCache`, `NotDetailsAndCache`: the error text at
`rawmetadata.cpp:444` says details and an input cache are not allowed in one
object. They are refused in one order only; in the other the details are lost
(`rawmetadata.cpp:96`).

Noted on the way, without a run of their own:

* `key.h:148` forbids to call `ECC_Start` twice without `ECC_Stop`, and
  `key.cpp:251` asserts it. Two threads in `createKeyPairs` do it, and no
  document limits the SDK to one thread: with `Exclusive = FALSE`,
  `NoAssertFails` is violated. `pubkey.h:183` wants users of the module to hold
  a handle; `createMultisigRedeemScript` checks public keys without one
  (`multisig.cpp:107`). A failed sanity check in the constructor of the scope
  leaves its body to run without contexts.
* The "protection from overflow" (`hdacscript.cpp:1619`) follows the addition.
  The overflow of a signed addition is undefined, both numbers are known not to
  be negative, and g++ 12 at -O2 leaves the test out (`Comparison` of
  `AssetQuantities`). Kinds of element leak from one row to the next.
* A transaction whose text ends early leaves its object with new inputs and the
  hash of the old one (`transaction.cpp:171`), where `transaction.h:197-201`
  says that what writes to the constant fields updates the hash as well.
  `DecodesWhatWasEncoded` shows that the next transaction is decoded right.
* `SetAssetDetails` writes names of more than 32 bytes that `GetAssetDetails`
  refuses. A custom field without a name is written in a form that is read as a
  special parameter (`rawmetadata.cpp:464`), and the script under construction
  is not freed when a value has the wrong JSON type (466).
* A listing opens a push of metadata text or of a number above 80 as a script
  when its first two bytes look like operations (`analyzetx.cpp:92`).
  `AnalysisShowsElements` is about data that do not look like that. In a script
  that was opened a hash is not shown as an address (94).
* The four bytes of a size are made an `int` (`hdacscript.cpp:395`, 1872). From
  2^31 on the size is negative, passes the check of the end, and `SetScript`
  reads the same operations again, for ever if there is nothing to stop it.
  `ElementsAreRead` says that it accepts no such script. Numbers of the details
  of an entity are cut in the same way (`asset.cpp:137`, 152, 182), and
  `FieldsAreFirstValues` has them so: from 2^31 on a negative one is read.
* `CBase58Data::SetString` asserts that the checksum value is not 0
  (`base58.cpp:168`), and nothing refuses to write under 0. A parameters file in
  which the name of the value is mentioned earlier can give a 0 (`ReadBack`).
* `key.h:35-37` says of `fValid` that it corresponds to the state of the key. A
  `SetPrivKey` or `Load` that fails has cleared the bytes and leaves `fValid` as
  it was (`key.cpp:16`, 130, 210); `KeyIsRead` states what the code does.
* `GetPrivKey` passes flags of secp256k1 where `ec_privkey_export_der` asks for
  a truth value, and none of today's flags is 0: the short form of 214 bytes is
  written for every key, where `key.h:28-31` speaks of 279.
* `SignMessage` answers an address with an English sentence and a text that is
  no key with the empty one; `walletAddrFromPubKey` gives the address of the
  hash of nothing for a text that is no public key (`hs_keys.cpp:373`).
* `CBitcoinAddress(const char*)` uses a version of one byte whatever the chain
  has.
* The change of `createAssetSendTx` may fall one unit short of what was left,
  since it is cut and not rounded, and always goes to the signing key. A stream
  key of more than 256 bytes is left out without a word (`hs_keys.cpp:250`).

## 4. Proofs

Each argument is an inductive invariant `IInv` with `Init => IInv`,
`IInv /\ [Next]_vars => IInv'` and `IInv => ` the properties. They hold for
every value of the constants that the named assumption of the module allows.

* **`KeysProofs`**, the contexts (with `Exclusive`: one call in flight at a time,
  without which the properties are false). The properties say nothing of the
  statements half done, so `IInv` says for each location of the thread in flight
  which pointers are set, which contexts live and what the count is (`Own`),
  that other threads are idle (`Serial`) and that all is clean between calls.
  `ContextsLive` states `ContextsAreLive` of the run, with the one place where
  the verify context is dead and not yet forgotten (`pubkey.cpp:274-275`);
  `NothingDeadIsUsed` is what makes that place harmless.
* **`MemoryProofs`**, the locked pages, for any threads, objects and page size. The count of
  a page is exact only while the mutex is free; inside a range `CountInv` counts
  in addition the pages the loop has passed and not those it has still to visit
  (`Passed`, `Counted`). `MutexInv` gives the mutual exclusion, `LoopInv` ties
  the cursor to the object's pages, `KernelInv` ties locks to counts and
  `SecretInv` ties secrets to both. It rests on the arithmetic of the page
  bounds (`StartPage`, `EndPage`) and on cardinalities of sets of objects.
* **`MemoryProofs`**, the container. `ContainerInv` adds to the types, the bounds and the tiling that
  elements are ordered by their offsets (`Ordered`), without which growth of the
  last element could overwrite another. `Refinement` shows that every action of
  `McScript` is the one of `Elements` of the same name, or a stutter.
* **`RawMetadataProofs`**, for any callers, texts and numbers of fields. While
  there is no error, the fields so far are valid (`FieldsAreSound`), at most one
  of them creates something (`OneCreate`) and the local variables record which
  (`TypeIsAsked`, `ApprovalIsNoted`); the checks at the end are about these
  variables, and `AcceptedInv` ties them to the script. `ErrorsAlwaysStick` and
  `OneKindAlways` follow. `NewEntityAlwaysComplete` needs in addition what the
  locals and the details hold of the fields so far (`SaidInv`): each custom field
  at its place, and of every other key the value of its last occurrence.
* **`AssetQuantitiesProofs`**, for any outputs, assets and width. `IInv` says of
  every item already read that its asset has a row which knows the kind of its
  element (`Everything`), that the kind of the current element is among those
  found (`AtItem`) and that no kind came from elsewhere (`OnlyWanted`).
  `OverflowIsRefused` and `WrittenReadBack` assume that the comparison is kept;
  the latter adds `ReadingBack`: the rows so far are the first ones of those
  that were written, and each asset comes once. So does `RowsAlwaysSummarise`
  (`RowsSummarise`): `SumInv` says that each row is the sum of the items of its
  asset read so far. The sum is a fold over a set, so the proof needs that it
  does not depend on the order of the elements (`AmountOfOneMore`).
* **`TypedElementsProofs`**, for any radix above 3, names without zeros, codes,
  values and scripts of any length. `IInv` says that the script is the codes of
  the parameters one after the other (`Places` has the ends, which the walk has
  to find again), and `Fits` that their sizes are below `Radix ^ 8`, as the
  assumption on `MaxSize` has it: a size is an `int` in the code, and the longest
  form of an integer has eight bytes. `VarIntIsRead` follows an integer through its four forms
  (`LittleEndian`, byte by byte with `NextDigit` of `BasicLemmas`), `ParamIsRead` a parameter,
  whole or cut, and `VerifiedUpTo` and `WalkIsParams` the loops over them.
  These loops are functions that recur on what a parameter says of the next
  one; that such a function exists, because the offset grows, is
  `DownwardExists`. `ParametersStayWhole` is the property of the run.
  - `FieldsAlwaysFirstValues` (`FieldsAreFirstValues`), with numbers narrowed to
    an `int` as the accessors do (`NumberIsNarrowed`): `FindSpecialIs` and
    `FindNamedIs` say what the two searches return, `KeyIsAt` that a code or name
    is found at a parameter exactly when it is that parameter's and never inside
    a value, and `FirstIsFound` that the search ends at the first (`FieldIs`).
    `EveryParamOnce` is about `NextParam`.
  - `ElementsAreReadByTheirOwn` (`EachReadsItsOwn`) has one lemma for each kind
    (`PermissionIsRead` ... `FollowOnsAreRead`), over what lies where in a body
    (`Part`, `FourParts`, `RowsHold`); `OtherKind` is the rest, and
    `EveryGetterReads` puts them together. `WrittenInv` is the inductive
    invariant: the element is one its call writes from its arguments, or the
    codes of the scripts cached so far (`IsCached`). It takes the arguments to
    have the C types of the calls (`TypedElementsAssumption`): types, approvals
    and hash types are one-byte constants, names have no zeros, and the index of
    a cached script is not negative.
  - `AcceptedIsAlwaysWritable` (`AcceptedIsWritable`) is the other way round, for
    any element whose body is bytes: the digits of a number are determined by it
    (`SameDigit`), so a number read is written with the bytes it came from
    (`WrittenAgain`, signed and unsigned), and what was read side by side is all
    of the body (`FourJoined`, `AllOfIt`; one lemma `...Again` for each getter).
  - `CachedScriptsAreReadInOrder` (`CachedScriptsInOrder`): `CachedFromIs` says
    that the reader's loop is a function, since each step moves the offset on,
    `ScriptIsRead` what one step makes of a script that is whole or cut, and
    `WalkedInOrder` what the loop collects.
* **`WalletSessionProofs`**, for any sessions, plans and outputs. `Refinement`
  proves `PaysOnceAndKnows`, every step of a session or of the node is one of
  `Payments` or a stutter. It needs to know where a call to `sendrawtx` can be
  and what a reply to it can mean: a call is waited for in one step only and
  read before the next one (`WaitsInStep`), it is under way only for a payment
  that was not made (`SendsOnce`), a payment is made in no other step
  (`MadeWhenSent`), and a reply that is whole tells the truth while one that is
  cut or lost throws (`RepliesAreTrue`, with lemmas about `rpcResult`).
  `LocksReleased` proves `LocksAreReleased` over that invariant. Calls are
  handled late, so `LocksInv` says what a call for a lock that is still under
  way asks for (`AsksForItsLock`: once a session unlocks, only an unlock), and
  that every lock has a payment that has not been told it is gone (`Keeps`).
  `WhatIsSentIsAcceptable` (`SentIsAcceptable`) follows an output from the
  listing, in whatever order the node gives it, through the choice to the
  transaction; `WholeAnswersAreFollowed` is `FollowsWholeAnswers`.
* **`TransactionProofs`**, the parsers, for any operations and scripts of any length. What
  `SetScript` knows after `k` operations is stated of the script: before
  `OP_RETURN` (`Searching`) the script is clean so far exactly when its first `k`
  operations are pairs of data and `OP_DROP` (`Pairs`, the last of which may lack
  its `OP_DROP`), and the elements are the dropped data; `Returning`, `Returned`
  and `EndsAt` say the same from the first `OP_RETURN` on. For an input script of
  a multisignature address the elements are the beginning of those wanted,
  before and after its redeem script is opened (`BeforeRedeem`, `InRedeem`).
  A push of negative size keeps the parser before it for good (`Circling`,
  `StillLooping`), so that a script that was accepted was walked forward
  (`Forward`).
  `ParsersAgree` follows the second parser turn by turn: in a clean script each
  turn takes one pair (`OneTurn`).
* **`TransactionProofs`**, transactions as bytes, of `BytesSpec`, for any radix,
  widths, inputs, outputs and scripts. Each reader is shown to follow its writer
  in two directions, each an operator with one lemma for each kind of part: what is
  read is there in the one form in which it is written (`Sound`), and what is
  there is read if it is not too large and refused if it is (`Exact`). They go up
  from the size of a part to a script, an input or output, a vector, by
  induction over the turns of its loop, and the transaction.
  `ReadersFollowWriters` states it for every text and every object that is read
  into. The inductive invariant `BytesInv` is the types and what the object has
  after a text; `EncodedIsDecoded` and `AcceptedHasOneEncoding` follow, the
  refusal of a cut text from `Sound`, since a text has one transaction at its
  beginning and a cut one would have to hold the whole.
* **`TransactionProofs`**, scripts as bytes: `AppendedIsRead` is `PushedIsRead`
  for any data, numbers and operations, in scripts of any length. `ScriptInv`
  says that the script is the appended operations one after the other
  (`Layout`); it is what the walk, which only knows where it stands, has to find
  again. `WalkedFrom` says what a walk from a place returns, by
  `DownwardExists` since each operation moves the place on; that one which is
  cut stops at the last whole operation before the cut (`LastBefore`) is proved
  for each of the four forms of a size, as the cut may lie in the size or in the
  data. A number is the sum of its digits with its sign in the highest bit of
  the last one, and is read from those bytes alone (`ValueOfDigits`,
  `DigitsOfValue`). Assumed are what the C types say: a string has less than
  `Radix ^ 4` bytes and a number fits in eight.
* **`KeysProofs`**, the pairs, for any order of the group, any hash that gives numbers and
  any depth, of `KeysSpec`, the steps of `Keys` by themselves. `PrivateIsKey`
  is what the induction adds to `DerivedPairsMatch`: without a number in range
  and the compressed form the public key that goes into the hash would not be
  the one the other side has. One hash then decides both halves of the child.
* **`KeysProofs`**, keys and signatures in DER, of `KeysSpec`, for numbers of any
  size up to 60 bytes, where the size of a signature is one byte.
  `WrittenDerIsRead` is `DerIsReadWhole`. The inductive invariant `DerInv` says
  what the text was written from (`SignatureWritten`, `KeyWritten`); that the
  parser finds it goes up with the parser: a number and its bytes
  (`NumberOfBytes`), the bytes without zeros in front, whose count says whether
  the number is in range (`StrippedIs`, `InRangeIs`), a size in each of its
  forms (`ReadLengthAt`), a part (`IntegerAt`), the two numbers
  (`SignatureParsed`) and a private key where its parts stand (`KeyLaidOut`,
  `KeyImported`). In a text that is cut each step finds the same or fails
  (`IntegerCut`), so a cut signature is none and a cut key is refused. Assumed
  are the sizes (`DerAssumption`, `SizesAssumption`), that r is less than a byte
  too long and has no more zeros in front than a size of one byte can count, and
  of secp256k1 that its r and s are in range and that two keys are told apart by
  some message: the last one is what makes the signature of a key loaded under
  the public key of another fail (`KeysAssumption`).
* **`KeysProofs`**, signing, of `SendSpec`, for scripts of any number of keys and
  signatures, any outputs and any amounts. The heart is `SolverIsRight`: the solver
  leaves an input that satisfies a script exactly when the key is enough for it
  (`SolvedWell`), whatever was there before. Where the key has several places in
  a multisignature script, the signatures need an increasing choice of places:
  every set of numbers can be listed in order (`PlacesAreListed`), and the places
  of the key are completed to as many as are asked for (`MorePlaces`,
  `OthersFindPlaces`). `SendInv` adds to `SpendableIfOwned` and
  `PartialSignaturesAreGood` what the input is before it is signed
  (`OutputsFirst`) and between the two signatures (`RedeemNext`); a step that
  leaves the outputs alone leaves the hashes alone (`SpendableAfter`).
  `GoodWhenOwned` and `PartialAlwaysGood` follow.

* **`KeysProofs`**, parameters files, of `AddressSpec` (`ChainParams` and
  `AddressText` by themselves), for files of any length and any edits. All the
  invariant has to say is that the file is lines of tokens (`FileInv`); what is
  hard is that one reader sees lines and the other one text. `ParamIs` puts the
  line that assigns a name into the text (`TextIs`, by `FlatExists`): no line
  before it has the name, so the first mention, the next `=` and the next `#` of
  the whole text are those of the line.
* **`KeysProofs`**, addresses and keys in text, of `AddressSpec`, for any bases, versions, hashes,
  keys and parameters of chains. `ConvertBack` is the heart: digits of one base
  turned into another and back are the same, zeros in front included, since a
  number has one sequence of digits that does not start with a zero
  (`OneDigits`) and the digits that are written are it (`DigitsOfIs`).
  `WovenIsRead` and `ReadIsWoven` do the same for the version between the pieces
  of the data, whatever the two sizes are: both sides compute one place for every
  byte (`PlacesAre`). `TextInv` keeps the types of what was written;
  `TextAndKeyAgree` follows with `LengthsApart`, that no key is as long as a
  hash. Under the checksum value 0 the property says that the reader aborts.
  Assumed of the hash is that it gives one byte (`HashIsOctet`), of the
  exclusive or that equal results come from equal values (`ChecksumAssumption`).

What a recursive function computes is proved where it was worth it
(`Dropped`, `DropsFrom`, `Walk`, `Verify`, `GetLE`, `Fill`): the library's
induction theorems take an operator as a parameter, which no prover can
instantiate, so these proofs take the least place where the claim fails
(`LeastNatural`, from the well-foundedness of `<`) or use that the places where
it holds are all of them (`AllNaturals`).

Only model-checked:

* the liveness properties (`MutexIsReleased`, `SessionsEnd`);
* `AmountsAreRight` of `SendTx`, which is about rounding and holds for the
  precision of the doubles and the quantities of the run, not for all;
* `SignatureFixes` and `AnalysisShowsElements` of `TransactionBytes`, which
  depend on which operations a script has after some are selected
  (`SelectSeq`, a recursive operator to the prover), and the second on a table of the
  data of the run (`Expected`);
* `MessageIsTheSigners` of `Messages`: that nobody else's key comes out of a
  damaged signature holds for the numbers, the hash and the signatures of the
  run, which are tables of cases, not for all.

## 5. Not modelled

secp256k1, hashes, OpenSSL and the C library are inputs or uninterpreted
values: a hash is what it is the hash of, so hashes do not collide; a signature
names its key and what it signs. Allocation does not fail. The node is external:
it is modelled by what the calls need of it.

* The index of `mc_Buffer` (`PutRow`, `SetCount`, `Sort`) and the map behind it
  have no caller in the SDK; nor have `mc_Script::GetParamValue`, `GetValueOut`,
  `ComputePriority`, `FindAndDelete` and the counts of signature operations.
* Commands of the RPC client that only push their arguments in order, and the
  second interface over the same `CallRPC` (`rpcapis.cpp`, `cif_rpccall.cpp`).
* The branches of `ParseRawMetadata` for stream items and approvals, which
  cannot be reached because `ParseEntityIdentifier` returns no entity.
* The limits of `createMultisigRedeemScript` on the number of keys and on the
  size of the script: three guards before the scripts `SendTx` has.
* Of keys `CheckLowS`, `Decompress` and `IsFullyValid`, which are calls of
  secp256k1, and the serialization of `CPubKey`, which nothing here calls.
* Random numbers and the clock, hashes, big numbers and formatting: pure
  computations taken over from Bitcoin, or inputs no property could constrain.
  The C and .NET bindings
  convert arguments and keep no state; the tests and examples are calls of the
  SDK, of which `WalletSession` models those that have a protocol.

`PROJECT.json` gives the status and the reason for every component.

## 6. Plan

All modules of the plan are written. What is left, in the order of its worth:

1. A refinement of `AssetQuantities` to a map from assets to amounts, on the
   sums `AssetQuantitiesProofs` now has.
2. The limits of `createMultisigRedeemScript`, together with the sizes of the
   scripts it makes (`ScriptBytes`).
3. `RpcCall` for the commands that are left out, once a program of the
   repository uses them.
