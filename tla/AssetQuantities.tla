-------------------------- MODULE AssetQuantities --------------------------
(***************************************************************************)
(* The asset quantities of an output: GetAssetQuantities adds those of one *)
(* script element to a buffer of rows, a row for each asset;               *)
(* FindFollowOnsInScript calls it for every element of an output; and      *)
(* SetAssetQuantities writes the rows as an element.                       *)
(* (script/src/hdacscript.cpp, utilparse.cpp, utils/src/utility.cpp)       *)
(*                                                                         *)
(* Quantities are int64_t: here -Half .. Half - 1.                         *)
(***************************************************************************)
EXTENDS Integers, Sequences, FiniteSets, FiniteSetsExt

CONSTANTS
  Asset,        (* references of assets                                     *)
  Half,         (* 2^63                                                     *)
  Output,       (* the outputs: sequences of elements                       *)
  Wanted,       (* the kinds of element the caller may ask for: sets        *)
  Comparison    (* what builds make of "quantity < 0" after an addition     *)
                (* that overflows: "kept", or "dropped" since the overflow  *)
                (* of a signed addition is undefined and both were >= 0     *)

Kinds == {"transfer", "followon"}
Quantity == -Half .. Half - 1
Row == [asset : Asset, quantity : Quantity, kinds : SUBSET Kinds]

(* The elements of an output: each is of a kind or of none, and its size    *)
(* fits a whole number of items or not.                                     *)
IsOutput(o) ==
  /\ Len(o) \in Nat
  /\ \A e \in 1 .. Len(o) :
       /\ o[e].kind \in Kinds \cup {"other"} /\ o[e].fits \in BOOLEAN
       /\ Len(o[e].items) \in Nat
       /\ \A i \in 1 .. Len(o[e].items) :
            o[e].items[i].asset \in Asset /\ o[e].items[i].quantity \in Quantity

ASSUME AssetQuantitiesAssumption ==
  /\ Half \in Nat \ {0}
  /\ Wanted \subseteq SUBSET Kinds
  /\ Comparison \subseteq {"kept", "dropped"} /\ Comparison # {}
  /\ \A o \in Output : IsOutput(o)

VARIABLES
  output,       (* the elements of the output that is read                  *)
  wanted,       (* script_type                                              *)
  element,      (* m_CurrentElement, from 1                                 *)
  item,         (* the item to be added next, or 0 before the first         *)
  found,        (* found_script_type                                        *)
  rows,         (* amounts                                                  *)
  result,       (* "reading", "done", or "not_allowed"                      *)
  written       (* the rows that were written, or <<>>                      *)

vars == <<output, wanted, element, item, found, rows, result, written>>

Init ==
  /\ output \in Output
  /\ wanted \in Wanted
  /\ element = 1
  /\ item = 0
  /\ found = {}
  /\ rows = <<>>
  /\ result = "reading"
  /\ written = <<>>

-----------------------------------------------------------------------------
Current == output[element]
CurrentItem == Current.items[item]

(* Two's complement.                                                        *)
Wrap(n) == ((n + Half) % (2 * Half)) - Half

(* mc_Buffer::Seek without an index: the first row of the asset.            *)
HasRow(r, asset) ==
  /\ rows[r].asset = asset
  /\ \A s \in 1 .. r - 1 : rows[s].asset # asset

Known(asset) == \E r \in 1 .. Len(rows) : HasRow(r, asset)

NextElement ==
  /\ element' = element + 1
  /\ item' = 0

(* An element that is no list of quantities of a wanted kind is skipped.    *)
Open ==
  /\ result = "reading" /\ element <= Len(output) /\ item = 0
  /\ IF Current.kind \in wanted /\ Current.fits
     THEN found' = {Current.kind} /\ item' = 1 /\ UNCHANGED element
     ELSE NextElement /\ UNCHANGED found
  /\ UNCHANGED <<output, wanted, rows, result, written>>

Adding == result = "reading" /\ element <= Len(output) /\ item > 0

(* The rows filled so far stay as they are when an item is not allowed.     *)
Refuse ==
  /\ result' = "not_allowed"
  /\ UNCHANGED <<output, wanted, element, item, found, rows, written>>

RefuseNegative ==
  /\ Adding /\ item <= Len(Current.items)
  /\ CurrentItem.quantity < 0
  /\ Refuse

AddRow ==
  /\ Adding /\ item <= Len(Current.items)
  /\ CurrentItem.quantity >= 0
  /\ ~Known(CurrentItem.asset)
  /\ rows' = Append(rows, [asset |-> CurrentItem.asset, quantity |-> CurrentItem.quantity,
                           kinds |-> found])
  /\ item' = item + 1
  /\ UNCHANGED <<output, wanted, element, found, result, written>>

(* Variant: the kinds of the row are replaced.                              *)
Merge_Replaces(r) ==
  LET sum == Wrap(CurrentItem.quantity + rows[r].quantity)
  IN  \/ /\ rows[r].quantity >= 0 /\ sum < 0 /\ "kept" \in Comparison
         /\ Refuse
      \/ /\ rows[r].quantity < 0 \/ sum >= 0 \/ "dropped" \in Comparison
         /\ rows' = [rows EXCEPT ![r].quantity = sum, ![r].kinds = found]
         /\ item' = item + 1
         /\ UNCHANGED <<output, wanted, element, found, result, written>>

(* The kinds of the row are added to those of the element, and stay with    *)
(* them for the items that follow.                                          *)
Merge(r) ==
  LET sum == Wrap(CurrentItem.quantity + rows[r].quantity)
  IN  \/ /\ rows[r].quantity >= 0 /\ sum < 0 /\ "kept" \in Comparison
         /\ Refuse
      \/ /\ rows[r].quantity < 0 \/ sum >= 0 \/ "dropped" \in Comparison
         /\ found' = found \cup rows[r].kinds
         /\ rows' = [rows EXCEPT ![r].quantity = sum, ![r].kinds = found']
         /\ item' = item + 1
         /\ UNCHANGED <<output, wanted, element, result, written>>

AddToRow ==
  /\ Adding /\ item <= Len(Current.items)
  /\ CurrentItem.quantity >= 0
  /\ \E r \in 1 .. Len(rows) : HasRow(r, CurrentItem.asset) /\ Merge(r)

Close ==
  /\ Adding /\ item > Len(Current.items)
  /\ NextElement
  /\ UNCHANGED <<output, wanted, found, rows, result, written>>

Finish ==
  /\ result = "reading" /\ element > Len(output)
  /\ result' = "done"
  /\ UNCHANGED <<output, wanted, element, item, found, rows, written>>

(* Variant: the last row is left out.                                       *)
Written_OneLess(kind) ==
  [kind |-> kind, fits |-> TRUE,
   items |-> [r \in 1 .. Len(rows) - 1 |-> [asset    |-> rows[r].asset,
                                            quantity |-> rows[r].quantity]]]

(* SetAssetQuantities, which asks nothing of the quantities.                *)
Written(kind) ==
  [kind |-> kind, fits |-> TRUE,
   items |-> [r \in 1 .. Len(rows) |-> [asset    |-> rows[r].asset,
                                        quantity |-> rows[r].quantity]]]

(* The rows are written as an element of one kind, and that is read.        *)
Rewrite ==
  /\ result = "done" /\ written = <<>> /\ rows # <<>>
  /\ \E kind \in wanted : output' = <<Written(kind)>>
  /\ element' = 1 /\ item' = 0
  /\ rows' = <<>>
  /\ written' = rows
  /\ result' = "reading"
  /\ UNCHANGED <<wanted, found>>

Next ==
  \/ Open \/ RefuseNegative \/ AddRow \/ AddToRow \/ Close
  \/ Finish \/ Rewrite

Spec == Init /\ [][Next]_vars

-----------------------------------------------------------------------------
(* Properties.                                                              *)

TypeOK ==
  /\ IsOutput(output) /\ wanted \subseteq Kinds
  /\ element \in 1 .. Len(output) + 1
  /\ item \in Nat
  /\ found \subseteq Kinds
  /\ rows \in Seq(Row)
  /\ result \in {"reading", "done", "not_allowed"}

(* An asset never has two rows, whatever the order of the items, over any   *)
(* number of elements (hdacscript.cpp:1604-1633): a reader that takes the   *)
(* first row of an asset sees all of it.                                    *)
RowsAreDistinct ==
  \A r, s \in 1 .. Len(rows) : rows[r].asset = rows[s].asset => r = s

(* The items that were added: those of the elements behind the cursor that  *)
(* are asked for, and of the current one those before the item.             *)
Asked(e) == output[e].kind \in wanted /\ output[e].fits

Read(e, i) ==
  /\ e \in 1 .. Len(output) /\ i \in 1 .. Len(output[e].items)
  /\ Asked(e)
  /\ e < element \/ (e = element /\ i < item)

Added(asset) ==
  {p \in UNION {{e} \X (1 .. Len(output[e].items)) : e \in 1 .. Len(output)} :
     Read(p[1], p[2]) /\ output[p[1]].items[p[2]].asset = asset}

Total(asset) == MapThenSumSet(LAMBDA p : output[p[1]].items[p[2]].quantity, Added(asset))

(* A row holds the sum of the items of its asset, over all elements; there  *)
(* is a row for every asset seen; and when an item is not allowed the rows  *)
(* hold the sums before it (hdacscript.cpp:1590-1637).                      *)
TotalsAreSums ==
  \A asset \in Asset :
    IF Added(asset) = {} THEN ~Known(asset)
    ELSE \E r \in 1 .. Len(rows) : HasRow(r, asset) /\ rows[r].quantity = Total(asset)

(* A row knows every kind of element that had its asset, and none the       *)
(* caller did not ask for (hdacscript.cpp:1624-1626).  It may know more:    *)
(* what an earlier item of the element was known as stays.                  *)
KindsAreKept ==
  \A r \in 1 .. Len(rows) :
    /\ \A p \in Added(rows[r].asset) : output[p[1]].kind \in rows[r].kinds
    /\ rows[r].kinds \subseteq wanted

(* A row says all of what was read of its asset, how much and from where,   *)
(* and nothing else (hdacscript.cpp:1590-1637).                             *)
RowsSummarise == TotalsAreSums /\ KindsAreKept

(* What SetAssetQuantities writes, GetAssetQuantities reads: the same rows  *)
(* in the same order (hdacscript.cpp:1642-1695, hs_keys.cpp:86-93).         *)
WrittenIsReadBack ==
  (written # <<>> /\ result # "reading") =>
    /\ result = "done"
    /\ Len(rows) = Len(written)
    /\ \A r \in 1 .. Len(rows) :
         rows[r].asset = written[r].asset /\ rows[r].quantity = written[r].quantity

(* "Protection from overflow" (hdacscript.cpp:1619): a sum that exceeds     *)
(* int64_t is refused and never becomes the quantity of a row.              *)
ProtectedFromOverflow == \A r \in 1 .. Len(rows) : rows[r].quantity >= 0
=============================================================================
