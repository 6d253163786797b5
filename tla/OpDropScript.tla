---------------------------- MODULE OpDropScript ----------------------------
(***************************************************************************)
(* How the data of a transaction script is found.  An output script holds  *)
(* data as  <data> OP_DROP ... OP_RETURN <data>; mc_Script::SetScript      *)
(* walks over it and keeps each piece as an element, and so does, for      *)
(* input scripts, with signatures, keys and the redeem script of a         *)
(* multisignature address.  mc_ParseOpDropOpReturnScript finds the same    *)
(* data a second way (script/src/hdacscript.cpp:336-531, 1823-1960).       *)
(*                                                                         *)
(* A script is a sequence of operations.  A push has its data with it,     *)
(* which is a script too where a redeem script is pushed; "cut" is a push  *)
(* whose data the script ends before.  One step is one turn of the loop.   *)
(*                                                                         *)
(* The size of a push is an int.  Four bytes of it from 2^31 on make it    *)
(* negative: no end of the script is before it, and the pointer goes back. *)
(* "back" is such a push, that leads to the operation `number' places      *)
(* before it; with too large a number it leads out of the script or inside *)
(* an operation, where the parsing is not followed.                        *)
(***************************************************************************)
EXTENDS Integers, Sequences

CONSTANTS
  Operation,     (* the operations scripts are made of                      *)
  MaxLength      (* bound on the operations of a script, and on the elements*)
                 (* of one that goes back over them                         *)

(* op: "push", "small" (OP_1 .. OP_16 with its number, OP_RESERVED),        *)
(* "drop", "return", "other" (the rest), "cut", "back".  It pushes data     *)
(* when its op is push or small; the data of small and OP_0 is empty here.  *)
Pushes(operation) == operation.op \in {"push", "small"}

(* The operations inside pushed data, which can have data in their turn.    *)
Inner == UNION {{o.data[i] : i \in 1 .. Len(o.data)} : o \in Operation}

ASSUME OpDropAssumption ==
  /\ \A o \in Operation : o.data \in Seq(Inner)
  /\ \A o \in Inner : Len(o.data) \in Nat
  /\ \A o \in Operation :
       /\ o.op \in {"push", "small", "drop", "return", "other", "cut", "back"}
       /\ o.op # "push" => o.data = <<>>
       /\ o.op = "small" => o.number \in 0 .. 16
       /\ o.op = "back" => o.number \in Nat
  /\ MaxLength \in Nat

VARIABLES
  source,        (* the script                                              *)
  type,          (* "pubkey" or "sig"                                       *)
  rest,          (* the operations from ptr on                              *)
  isOpReturn,    (* is_op_return                                            *)
  last,          (* the data from ptrPrev on, or none: lastSize < 0         *)
  flags,         (* m_ScriptType                                            *)
  elements,      (* the elements                                            *)
  result         (* "running", "ok", "wrong", "astray" (not followed)       *)

vars == <<source, type, rest, isOpReturn, last, flags, elements, result>>

None == <<>>
Some(data) == <<data>>

Scripts == UNION {[1 .. n -> Operation] : n \in 0 .. MaxLength}

(* Only the last operation of a script can be cut.                          *)
WellCut(script) == \A i \in 1 .. Len(script) - 1 : script[i].op # "cut"

Init ==
  /\ source \in {s \in Scripts : WellCut(s)}
  /\ type \in {"pubkey", "sig"}
  /\ rest = source
  /\ isOpReturn = FALSE
  /\ last = None
  /\ flags = {}
  /\ elements = <<>>
  /\ result = "running"

-----------------------------------------------------------------------------
operation == Head(rest)

Continues == result = "running" /\ rest # <<>>

(* The operations of an output script before ptr.                           *)
Taken == Len(source) - Len(rest)

(* The end of a turn: what lies between ptrPrev and ptr, and what is not    *)
(* data, OP_RETURN or OP_DROP makes the script dirty.                       *)
EndTurn(size0, newReturn, newFlags) ==
  LET noData == ~newReturn /\ size0 /\ ~Pushes(operation)
  IN  /\ last' = IF noData THEN None ELSE Some(IF size0 THEN <<>> ELSE operation.data)
      /\ flags' = newFlags \cup
           (IF noData /\ operation.op = "other" THEN {"dirty"} ELSE {})
      /\ isOpReturn' = newReturn

(* The data of a push is not there: what was found so far stays.            *)
Cut ==
  /\ Continues
  /\ operation.op = "cut"
  /\ result' = "wrong"
  /\ UNCHANGED <<source, type, rest, isOpReturn, last, flags, elements>>

(* A negative size is no data and no OP_DROP, so that the script is dirty,  *)
(* and the loop goes on from an operation it has taken, or from this one.   *)
GoBack ==
  /\ Continues /\ type = "pubkey" /\ ~isOpReturn
  /\ operation.op = "back" /\ operation.number <= Taken
  /\ Len(elements) <= MaxLength
  /\ flags' = flags \cup {"dirty"}
  /\ last' = None
  /\ rest' = SubSeq(source, Taken + 1 - operation.number, Len(source))
  /\ UNCHANGED <<source, type, isOpReturn, elements, result>>

(* It leads to no operation, or the negative number of bytes is copied into *)
(* an element: what becomes of the parser is not defined.                   *)
GoAstray ==
  /\ Continues
  /\ operation.op = "back"
  /\ type = "sig" \/ isOpReturn \/ operation.number > Taken
  /\ result' = "astray"
  /\ UNCHANGED <<source, type, rest, isOpReturn, last, flags, elements>>

(* Data before OP_RETURN was not dropped.                                   *)
OpReturn ==
  /\ Continues /\ type = "pubkey" /\ ~isOpReturn
  /\ operation.op = "return"
  /\ EndTurn(TRUE, TRUE, flags \cup {"return"} \cup (IF last # None THEN {"dirty"} ELSE {}))
  /\ rest' = Tail(rest)
  /\ UNCHANGED <<source, type, elements, result>>

(* OP_DROP takes the data just before it.                                   *)
OpDrop ==
  /\ Continues /\ type = "pubkey" /\ ~isOpReturn
  /\ operation.op = "drop"
  /\ elements' = IF last # None THEN Append(elements, last[1]) ELSE elements
  /\ EndTurn(TRUE, FALSE, flags \cup {"drop"} \cup (IF last = None THEN {"dirty"} ELSE {}))
  /\ rest' = Tail(rest)
  /\ UNCHANGED <<source, type, result>>

(* Variant: two pushes in a row are not noticed.                            *)
Other_NoDirty ==
  /\ Continues /\ type = "pubkey" /\ ~isOpReturn
  /\ operation.op \in {"push", "small", "other"}
  /\ EndTurn(operation.data = <<>>, FALSE, flags)
  /\ rest' = Tail(rest)
  /\ UNCHANGED <<source, type, elements, result>>

(* Anything else: data that follows data makes the script dirty.            *)
Other ==
  /\ Continues /\ type = "pubkey" /\ ~isOpReturn
  /\ operation.op \in {"push", "small", "other"}
  /\ EndTurn(operation.data = <<>>, FALSE, flags \cup (IF last # None THEN {"dirty"} ELSE {}))
  /\ rest' = Tail(rest)
  /\ UNCHANGED <<source, type, elements, result>>

(* The operation after OP_RETURN is its data, and the rest is ignored.      *)
ReturnData ==
  /\ Continues /\ type = "pubkey" /\ isOpReturn
  /\ operation.op \notin {"cut", "back"}
  /\ elements' = Append(elements, operation.data)
  /\ EndTurn(operation.data = <<>>, FALSE, flags)
  /\ rest' = <<>>
  /\ UNCHANGED <<source, type, result>>

(* Variant: one more element is asked for.                                  *)
IsRedeemScript_Late ==
  /\ Len(operation.data) > 1
  /\ operation.data[1].op = "small" /\ operation.data[1].number > 0
  /\ Len(elements) > operation.data[1].number + 1

(* The first byte of pushed data is OP_1 .. OP_16, and more elements were   *)
(* found than this number: a redeem script after OP_0 and its signatures.   *)
IsRedeemScript ==
  /\ Len(operation.data) > 1
  /\ operation.data[1].op = "small" /\ operation.data[1].number > 0
  /\ Len(elements) > operation.data[1].number

(* In an input script every operation is an element, one without data by    *)
(* its own byte; the redeem script is not one, but its operations are.      *)
SigData ==
  /\ Continues /\ type = "sig"
  /\ operation.op \notin {"cut", "back"}
  /\ IF IsRedeemScript
     THEN /\ rest' = operation.data \o Tail(rest)
          /\ EndTurn(TRUE, FALSE, flags)
          /\ UNCHANGED elements
     ELSE /\ elements' =
               Append(elements, IF operation.data = <<>> THEN <<operation>> ELSE operation.data)
          /\ rest' = Tail(rest)
          /\ EndTurn(operation.data = <<>>, FALSE, flags)
  /\ UNCHANGED <<source, type, result>>

(* The end of the script: OP_RETURN without data has an empty element, and  *)
(* only a script with OP_RETURN is dirty.  An empty script returns early.   *)
Finish ==
  /\ result = "running" /\ rest = <<>>
  /\ elements' = IF isOpReturn THEN Append(elements, <<>>) ELSE elements
  /\ flags' = IF "return" \in flags THEN flags ELSE flags \ {"dirty"}
  /\ result' = "ok"
  /\ UNCHANGED <<source, type, rest, isOpReturn, last>>

Next ==
  \/ Cut \/ GoBack \/ GoAstray
  \/ OpReturn \/ OpDrop \/ Other \/ ReturnData \/ SigData \/ Finish

Spec == Init /\ [][Next]_vars

-----------------------------------------------------------------------------
(* mc_ParseOpDropOpReturnScript: the data of the first OP_DROPs, at most    *)
(* count of them, and of OP_RETURN; none without an OP_RETURN.  It takes    *)
(* sizes for negative too; this is of scripts without such ones up to the   *)
(* data of their OP_RETURN, as every script is that SetScript finds clean.  *)

(* Variant: it looks for drops past OP_RETURN.                              *)
DropTurn_PastReturn(script, count, found) ==
  IF Len(found.data) = count \/ found.at > Len(script) THEN found
  ELSE IF Pushes(script[found.at]) /\ found.at < Len(script) /\ script[found.at + 1].op = "drop"
  THEN [data |-> Append(found.data, script[found.at].data), at |-> found.at + 2]
  ELSE [found EXCEPT !.at = @ + 1]

(* One turn of its first loop, with the data found and the place of ptr.    *)
DropTurn(script, count, found) ==
  IF \/ Len(found.data) = count
     \/ found.at > Len(script)
     \/ script[found.at].op = "return"
  THEN found
  ELSE IF Pushes(script[found.at]) /\ found.at < Len(script) /\ script[found.at + 1].op = "drop"
  THEN [data |-> Append(found.data, script[found.at].data), at |-> found.at + 2]
  ELSE [found EXCEPT !.at = @ + 1]

(* Every turn before the last takes an operation.                           *)
DropsFrom(script, count) ==
  LET turns[t \in 0 .. Len(script)] ==
        IF t = 0 THEN [data |-> <<>>, at |-> 1] ELSE DropTurn(script, count, turns[t - 1])
  IN  turns[Len(script)]

ReturnsFrom(script, start) ==
  {i \in start .. Len(script) : script[i].op = "return"}

ParseOpDropOpReturnScript(script, count) ==
  LET found == DropsFrom(script, count)
      returns == ReturnsFrom(script, found.at)
      first == CHOOSE i \in returns : \A j \in returns : i <= j
  IN  IF returns = {} THEN None
      ELSE Some([drops  |-> found.data,
                 return |-> IF first < Len(script) /\ Pushes(script[first + 1])
                            THEN script[first + 1].data ELSE <<>>])

-----------------------------------------------------------------------------
(* Properties.                                                              *)

(* An output script parsed to its end, with OP_RETURN and not dirty.        *)
Clean == result = "ok" /\ type = "pubkey" /\ "return" \in flags /\ "dirty" \notin flags

(* A script is clean exactly when it is  (<data> OP_DROP)* OP_RETURN  with  *)
(* at most data after it: the flags, collected turn by turn, recognise this *)
(* grammar and nothing else (hdacscript.cpp:405-510).                       *)
IsGrammatical(script) ==
  \E n \in 0 .. Len(script) :
    /\ 2 * n + 1 <= Len(script)
    /\ \A i \in 1 .. n : Pushes(script[2 * i - 1]) /\ script[2 * i].op = "drop"
    /\ script[2 * n + 1].op = "return"
    /\ 2 * n + 2 <= Len(script) => script[2 * n + 2].op \in {"push", "small", "drop", "return"}

CleanIsGrammatical ==
  (result = "ok" /\ type = "pubkey") => (Clean <=> IsGrammatical(source))

(* The two parsers find the same data in a clean script, however many       *)
(* drops the second is asked for (hdacscript.cpp:336, 1895).                *)
ParsersAgree ==
  Clean =>
    LET drops == Len(elements) - 1
    IN  \A count \in 0 .. 3 :
          ParseOpDropOpReturnScript(source, count) =
            Some([drops  |-> SubSeq(elements, 1, IF count < drops THEN count ELSE drops),
                  return |-> elements[Len(elements)]])

(* Whether or not it is clean, a script that was accepted has as elements   *)
(* the data right before an OP_DROP, up to the first OP_RETURN, and then    *)
(* the data of that: no element is lost and none is made up.  Nor did the   *)
(* parser go back: one that does so meets the same size again, and does not *)
(* end unless it goes astray (hdacscript.cpp:395, 399, 513).                *)
FirstReturn(script) ==
  LET returns == ReturnsFrom(script, 1)
  IN  IF returns = {} THEN Len(script) + 1
      ELSE CHOOSE i \in returns : \A j \in returns : i <= j

Dropped(script) ==
  LET drops[i \in 0 .. Len(script)] ==
        IF i < 2 THEN <<>>
        ELSE IF script[i].op = "drop" /\ Pushes(script[i - 1])
        THEN Append(drops[i - 1], script[i - 1].data)
        ELSE drops[i - 1]
  IN  IF script = <<>> THEN <<>> ELSE drops[Len(script)]

ElementsAreTheData ==
  (result = "ok" /\ type = "pubkey") =>
    LET at == FirstReturn(source)
    IN  elements = Dropped(SubSeq(source, 1, at - 1)) \o
          (IF at > Len(source) THEN <<>>
           ELSE IF at = Len(source) THEN <<<<>>>> ELSE <<source[at + 1].data>>)

NeverWentBack ==
  (result = "ok" /\ type = "pubkey") =>
    \A i \in 1 .. Len(source) : i <= FirstReturn(source) + 1 => source[i].op # "back"

(* Both parsers find the data of a script, all of it and nothing else.      *)
ElementsAreRead == ParsersAgree /\ ElementsAreTheData /\ NeverWentBack

(* A standard input script of a multisignature address, OP_0, as many       *)
(* signatures as required and the redeem script, becomes these followed by  *)
(* the operations of the redeem script (hdacscript.cpp:446-461).  What is   *)
(* inside a signature or a key does not look like a script.                 *)
IsMultisigInput(script) ==
  /\ Len(script) > 2
  /\ LET redeem == script[Len(script)].data
     IN  /\ script[Len(script)].op = "push"
         /\ Len(redeem) > 1 /\ redeem[1].op = "small"
         /\ redeem[1].number = Len(script) - 2
         /\ \A i \in 2 .. Len(script) - 1 :
              script[i].op = "push" /\ Len(script[i].data) = 1
         /\ \A i \in 1 .. Len(redeem) : Len(redeem[i].data) <= 1
  /\ script[1].op = "push" /\ script[1].data = <<>>

AsElement(o) == IF o.data = <<>> THEN <<o>> ELSE o.data

RedeemScriptIsOpened ==
  (result = "ok" /\ type = "sig" /\ IsMultisigInput(source)) =>
    LET n == Len(source)
        redeem == source[n].data
    IN  elements = [i \in 1 .. n - 1 + Len(redeem) |->
                      AsElement(IF i < n THEN source[i] ELSE redeem[i - n + 1])]

=============================================================================
