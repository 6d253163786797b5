----------------------- MODULE AssetQuantitiesProofs -----------------------
(***************************************************************************)
(* What holds of the buffer of asset quantities for every output, set of   *)
(* kinds and width of the integers.                                        *)
(***************************************************************************)
EXTENDS AssetQuantities, FiniteSetTheorems, BasicLemmas, TLAPS

(* What is known of an item that was added: its asset has a row, which      *)
(* knows the kind of its element.                                           *)
Seen(e, i) ==
  \E r \in 1 .. Len(rows) :
    rows[r].asset = output[e].items[i].asset /\ output[e].kind \in rows[r].kinds

Everything == \A e, i : Read(e, i) => Seen(e, i)

(* While items are added, the kind of the element is among those found.     *)
AtItem == item > 0 => element <= Len(output) /\ Asked(element) /\ Current.kind \in found

OnlyWanted == found \subseteq wanted /\ \A r \in 1 .. Len(rows) : rows[r].kinds \subseteq wanted

IInv == TypeOK /\ RowsAreDistinct /\ Everything /\ AtItem /\ OnlyWanted

(* Two's complement is in range.                                            *)
LEMMA WrapType ==
  ASSUME NEW n \in Int PROVE Wrap(n) \in Quantity
<1>1. Half \in Nat \ {0}  BY AssetQuantitiesAssumption
<1> DEFINE m == (n + Half) % (2 * Half)
<1>2. m \in 0 .. 2 * Half - 1  BY <1>1
<1> HIDE DEF m
<1>3. m - Half \in -Half .. Half - 1  BY <1>1, <1>2
<1> QED  BY <1>3 DEF Wrap, Quantity, m

(* The current item is one of the output's.                                 *)
LEMMA CurrentItemType ==
  ASSUME TypeOK, Adding, item <= Len(Current.items)
  PROVE  /\ element \in 1 .. Len(output) /\ item \in 1 .. Len(output[element].items)
         /\ CurrentItem = output[element].items[item]
         /\ CurrentItem.asset \in Asset /\ CurrentItem.quantity \in Quantity
BY DEF TypeOK, Adding, Current, CurrentItem, IsOutput

(* A new row keeps the buffer well typed and its assets distinct.           *)
LEMMA AddRowRows ==
  ASSUME TypeOK, RowsAreDistinct, AddRow
  PROVE  TypeOK' /\ RowsAreDistinct'
<1> DEFINE new == [asset |-> CurrentItem.asset, quantity |-> CurrentItem.quantity, kinds |-> found]
<1>1. new \in Row  BY CurrentItemType DEF AddRow, Row, TypeOK
<1>2. rows' = Append(rows, new) /\ rows \in Seq(Row)  BY DEF AddRow, TypeOK
<1> HIDE DEF new
<1>3. /\ rows' \in Seq(Row) /\ Len(rows') = Len(rows) + 1
      /\ rows'[Len(rows) + 1] = new
      /\ \A r \in 1 .. Len(rows) : rows'[r] = rows[r]
  BY <1>1, <1>2
<1>4. TypeOK'  BY <1>3 DEF TypeOK, AddRow, IsOutput
<1>5. \A r \in 1 .. Len(rows) : rows[r].asset # new.asset
  <2> SUFFICES ASSUME NEW r \in 1 .. Len(rows), rows[r].asset = new.asset PROVE FALSE
    OBVIOUS
  <2>1. ~Known(new.asset)  BY DEF AddRow, new
  <2>2. \A s \in 1 .. r - 1 : s \in 1 .. Len(rows)  BY <1>2
  <2>3. \A s \in 1 .. r - 1 : rows[s].asset # rows[r].asset  BY <2>2 DEF RowsAreDistinct
  <2> QED  BY <2>1, <2>3 DEF Known, HasRow
<1>6. RowsAreDistinct'
  <2> SUFFICES ASSUME NEW r \in 1 .. Len(rows) + 1, NEW s \in 1 .. Len(rows) + 1,
                      rows'[r].asset = rows'[s].asset
               PROVE  r = s
    BY <1>3 DEF RowsAreDistinct
  <2>1. Len(rows) \in Nat  BY <1>2
  <2>2. CASE r \in 1 .. Len(rows) /\ s \in 1 .. Len(rows)  BY <2>2, <1>3 DEF RowsAreDistinct
  <2>3. CASE r = Len(rows) + 1 /\ s \in 1 .. Len(rows)  BY <2>3, <1>3, <1>5
  <2>4. CASE s = Len(rows) + 1 /\ r \in 1 .. Len(rows)  BY <2>4, <1>3, <1>5
  <2>5. CASE r = Len(rows) + 1 /\ s = Len(rows) + 1  BY <2>5
  <2> QED  BY <2>1, <2>2, <2>3, <2>4, <2>5
<1> QED  BY <1>4, <1>6

(* So does an addition to a row; and every row keeps its asset and what it  *)
(* knows.                                                                   *)
LEMMA AddToRowRows ==
  ASSUME TypeOK, RowsAreDistinct, AddToRow, result' = "reading",
         NEW r \in 1 .. Len(rows), rows[r].asset = CurrentItem.asset
  PROVE  /\ TypeOK' /\ RowsAreDistinct'
         /\ found' = found \cup rows[r].kinds
         /\ Len(rows') = Len(rows)
         /\ rows'[r].kinds = found'
         /\ \A s \in 1 .. Len(rows) : /\ rows'[s].asset = rows[s].asset
                                      /\ s # r => rows'[s].kinds = rows[s].kinds
<1>1. PICK q \in 1 .. Len(rows) : HasRow(q, CurrentItem.asset) /\ Merge(q)  BY DEF AddToRow
<1>2. q = r  BY <1>1 DEF HasRow, RowsAreDistinct
<1> DEFINE sum == Wrap(CurrentItem.quantity + rows[r].quantity)
<1>3. rows \in Seq(Row)  BY DEF TypeOK
<1>4. rows[r] \in Row  BY <1>3
<1>5. sum \in Quantity
  <2>1. CurrentItem.quantity \in Int /\ rows[r].quantity \in Int
    BY <1>4, CurrentItemType, AssetQuantitiesAssumption DEF AddToRow, Row, Quantity
  <2> QED  BY <2>1, WrapType
<1>6. /\ found' = found \cup rows[r].kinds
      /\ rows' = [rows EXCEPT ![r].quantity = sum, ![r].kinds = found']
      /\ item' = item + 1
      /\ UNCHANGED <<output, wanted, element, result, written>>
  BY <1>1, <1>2 DEF Merge, Refuse
<1> HIDE DEF sum
<1> DEFINE new == [rows[r] EXCEPT !.quantity = sum, !.kinds = found']
<1>7. found' \subseteq Kinds  BY <1>4, <1>6 DEF TypeOK, Row
<1>8. new \in Row /\ new.asset = rows[r].asset /\ new.kinds = found'
  BY <1>4, <1>5, <1>7 DEF Row
<1>9. rows' = [rows EXCEPT ![r] = new]  BY <1>3, <1>6
<1> HIDE DEF new
<1>10. /\ rows' \in Seq(Row) /\ Len(rows') = Len(rows)
       /\ rows'[r] = new /\ \A s \in 1 .. Len(rows) : s # r => rows'[s] = rows[s]
  BY <1>3, <1>8, <1>9
<1>11. TypeOK'  BY <1>6, <1>7, <1>10 DEF TypeOK, IsOutput
<1>12. \A s \in 1 .. Len(rows) : rows'[s].asset = rows[s].asset  BY <1>8, <1>10
<1>13. RowsAreDistinct'  BY <1>10, <1>12 DEF RowsAreDistinct
<1> QED  BY <1>6, <1>8, <1>10, <1>11, <1>12, <1>13

(* Only the current item is added in a step that moves to the next one.     *)
LEMMA ReadOneMore ==
  ASSUME TypeOK, Adding, item <= Len(Current.items), item' = item + 1,
         UNCHANGED <<output, wanted, element>>,
         NEW e, NEW i, Read(e, i)'
  PROVE  Read(e, i) \/ (e = element /\ i = item)
BY DEF Read, TypeOK, Asked, IsOutput

(* In the other steps that read, no item is added.                          *)
LEMMA ReadNoMore ==
  ASSUME TypeOK, Open \/ Close, NEW e, NEW i, Read(e, i)'
  PROVE  Read(e, i)
<1>1. UNCHANGED <<output, wanted>> /\ e \in 1 .. Len(output) /\ i \in 1 .. Len(output[e].items)
      /\ Asked(e)
  BY DEF Open, Close, Read, Asked
<1>2. element \in Nat /\ Len(output) \in Nat /\ Len(output[e].items) \in Nat /\ item \in Nat
  BY <1>1 DEF TypeOK, IsOutput
<1>3. CASE Open
  <2>1. CASE Asked(element)
    <3>1. item' = 1 /\ element' = element  BY <1>3, <2>1 DEF Open, Asked, Current
    <3> QED  BY <1>1, <1>2, <3>1 DEF Read
  <2>2. CASE ~Asked(element)
    <3>1. item' = 0 /\ element' = element + 1
      BY <1>3, <2>2 DEF Open, Asked, Current, NextElement
    <3>2. e # element  BY <1>1, <2>2
    <3> QED  BY <1>1, <1>2, <3>1, <3>2 DEF Read
  <2> QED  BY <2>1, <2>2
<1>4. CASE Close
  <2>1. item' = 0 /\ element' = element + 1 /\ item > Len(output[element].items)
    BY <1>4 DEF Close, NextElement, Current
  <2> QED  BY <1>1, <1>2, <2>1 DEF Read
<1> QED  BY <1>3, <1>4

-----------------------------------------------------------------------------
(* The invariant is inductive.                                              *)

LEMMA InitIInv == Init => IInv
<1> SUFFICES ASSUME Init PROVE IInv  OBVIOUS
<1>1. TypeOK
  <2>1. IsOutput(output) /\ Len(output) \in Nat
    BY AssetQuantitiesAssumption DEF Init, IsOutput
  <2>2. wanted \subseteq Kinds  BY AssetQuantitiesAssumption DEF Init
  <2> QED  BY <2>1, <2>2 DEF Init, TypeOK
<1>2. Len(rows) = 0  BY DEF Init
<1>3. \A e, i : ~Read(e, i)
  <2> SUFFICES ASSUME NEW e, NEW i, Read(e, i) PROVE FALSE  OBVIOUS
  <2>1. e \in 1 .. Len(output) /\ i \in 1 .. Len(output[e].items) /\ element = 1 /\ item = 0
        /\ (e < element \/ (e = element /\ i < item))
    BY DEF Init, Read
  <2>2. Len(output) \in Nat /\ Len(output[e].items) \in Nat
    BY <1>1, <2>1 DEF TypeOK, IsOutput
  <2>3. e \in Nat /\ e >= 1 /\ i \in Nat /\ i >= 1  BY <2>1, <2>2
  <2>4. ~(e < element) /\ ~(i < item)  BY <2>1, <2>3
  <2> QED  BY <2>1, <2>4
<1>4. RowsAreDistinct /\ OnlyWanted  BY <1>2 DEF RowsAreDistinct, OnlyWanted, Init
<1>5. Everything  BY <1>3 DEF Everything
<1>6. AtItem  BY DEF AtItem, Init
<1> QED  BY <1>1, <1>4, <1>5, <1>6 DEF IInv

(* A step that leaves the rows and adds no item leaves what is seen.        *)
LEMMA KeepEverything ==
  ASSUME Everything, UNCHANGED <<output, rows>>,
         \A e, i : Read(e, i)' => Read(e, i)
  PROVE  Everything'
BY DEF Everything, Seen

LEMMA OpenIInv == ASSUME IInv, Open PROVE IInv'
<1>1. TypeOK  BY DEF IInv
<1>2. UNCHANGED <<output, wanted, rows, result, written>>  BY DEF Open
<1>3. TypeOK'
  <2>1. IsOutput(output)'  BY <1>1, <1>2 DEF TypeOK, IsOutput
  <2>2. element' \in 1 .. Len(output) + 1 /\ item' \in Nat /\ found' \subseteq Kinds
    BY <1>1 DEF TypeOK, Open, NextElement, IsOutput
  <2> QED  BY <1>1, <1>2, <2>1, <2>2 DEF TypeOK
<1>4. RowsAreDistinct'  BY <1>2 DEF IInv, RowsAreDistinct
<1>5. Everything'  BY <1>1, <1>2, ReadNoMore, KeepEverything DEF IInv
<1>6. AtItem'
  BY <1>1 DEF AtItem, Open, Asked, Current, NextElement, TypeOK
<1>7. OnlyWanted'  BY <1>2 DEF IInv, OnlyWanted, Open
<1> QED  BY <1>3, <1>4, <1>5, <1>6, <1>7 DEF IInv

LEMMA CloseIInv == ASSUME IInv, Close PROVE IInv'
<1>1. TypeOK  BY DEF IInv
<1>2. UNCHANGED <<output, wanted, found, rows, result, written>>
      /\ element' = element + 1 /\ item' = 0
  BY DEF Close, NextElement
<1>3. TypeOK'
  <2>1. IsOutput(output)'  BY <1>1, <1>2 DEF TypeOK, IsOutput
  <2>2. element' \in 1 .. Len(output) + 1
    BY <1>1, <1>2 DEF TypeOK, Close, Adding, IsOutput
  <2> QED  BY <1>1, <1>2, <2>1, <2>2 DEF TypeOK
<1>4. RowsAreDistinct'  BY <1>2 DEF IInv, RowsAreDistinct
<1>5. Everything'  BY <1>1, <1>2, ReadNoMore, KeepEverything DEF IInv
<1>6. AtItem'  BY <1>2 DEF AtItem
<1>7. OnlyWanted'  BY <1>2 DEF IInv, OnlyWanted
<1> QED  BY <1>3, <1>4, <1>5, <1>6, <1>7 DEF IInv

(* A refusal, the end and a step that changes nothing.                      *)
LEMMA StillIInv ==
  ASSUME IInv, UNCHANGED <<output, wanted, element, item, found, rows, written>>,
         result' \in {"reading", "done", "not_allowed"}
  PROVE  IInv'
<1>1. TypeOK'  BY DEF IInv, TypeOK, IsOutput
<1>2. RowsAreDistinct'  BY DEF IInv, RowsAreDistinct
<1>3. Everything'  BY DEF IInv, Everything, Seen, Read, Asked
<1>4. AtItem'  BY DEF IInv, AtItem, Asked, Current
<1>5. OnlyWanted'  BY DEF IInv, OnlyWanted
<1> QED  BY <1>1, <1>2, <1>3, <1>4, <1>5 DEF IInv

LEMMA AddRowIInv == ASSUME IInv, AddRow PROVE IInv'
<1>1. TypeOK /\ RowsAreDistinct  BY DEF IInv
<1>2. TypeOK' /\ RowsAreDistinct'  BY <1>1, AddRowRows
<1>3. Adding /\ item <= Len(Current.items) /\ item' = item + 1
      /\ UNCHANGED <<output, wanted, element, found>>
  BY DEF AddRow
<1> DEFINE new == [asset |-> CurrentItem.asset, quantity |-> CurrentItem.quantity, kinds |-> found]
<1>4. /\ Len(rows) \in Nat /\ Len(rows') = Len(rows) + 1
      /\ rows'[Len(rows) + 1] = new
      /\ \A r \in 1 .. Len(rows) : rows'[r] = rows[r]
  <2>1. rows \in Seq(Row)  BY <1>1 DEF TypeOK
  <2>2. new \in Row  BY <1>1, CurrentItemType DEF AddRow, Row, TypeOK
  <2>3. rows' = Append(rows, new)  BY DEF AddRow
  <2> HIDE DEF new
  <2> QED  BY <2>1, <2>2, <2>3
<1>5. new.asset = output[element].items[item].asset /\ new.kinds = found
  BY <1>1, <1>3, CurrentItemType
<1> HIDE DEF new
<1>6. output[element].kind \in found  BY <1>3 DEF IInv, AtItem, Adding, Current
<1>7. Everything'
  <2> SUFFICES ASSUME NEW e, NEW i, Read(e, i)' PROVE Seen(e, i)'
    BY DEF Everything
  <2>1. CASE Read(e, i)
    <3>1. PICK r \in 1 .. Len(rows) :
            rows[r].asset = output[e].items[i].asset /\ output[e].kind \in rows[r].kinds
      BY <2>1 DEF IInv, Everything, Seen
    <3>2. r \in 1 .. Len(rows') /\ rows'[r] = rows[r]  BY <1>4
    <3> QED  BY <1>3, <3>1, <3>2 DEF Seen
  <2>2. CASE e = element /\ i = item
    <3>1. Len(rows) + 1 \in 1 .. Len(rows')  BY <1>4
    <3> QED  BY <1>3, <1>4, <1>5, <1>6, <2>2, <3>1 DEF Seen
  <2> QED  BY <1>1, <1>3, <2>1, <2>2, ReadOneMore
<1>8. AtItem'  BY <1>3 DEF IInv, AtItem, Adding, Asked, Current
<1>9. OnlyWanted'
  <2>1. \A r \in 1 .. Len(rows') : r \in 1 .. Len(rows) \/ r = Len(rows) + 1  BY <1>4
  <2> QED  BY <1>3, <1>4, <1>5, <2>1 DEF IInv, OnlyWanted
<1> QED  BY <1>2, <1>7, <1>8, <1>9 DEF IInv

LEMMA AddToRowIInv == ASSUME IInv, AddToRow, result' = "reading" PROVE IInv'
<1>1. TypeOK /\ RowsAreDistinct /\ OnlyWanted  BY DEF IInv
<1>2. PICK r \in 1 .. Len(rows) : HasRow(r, CurrentItem.asset) /\ Merge(r)  BY DEF AddToRow
<1>3. rows[r].asset = CurrentItem.asset  BY <1>2 DEF HasRow
<1>4. Adding /\ item <= Len(Current.items) /\ item' = item + 1
      /\ UNCHANGED <<output, wanted, element>>
  BY <1>2 DEF AddToRow, Merge, Refuse
<1>5. /\ TypeOK' /\ RowsAreDistinct'
      /\ found' = found \cup rows[r].kinds
      /\ Len(rows') = Len(rows)
      /\ rows'[r].kinds = found'
      /\ \A s \in 1 .. Len(rows) : /\ rows'[s].asset = rows[s].asset
                                   /\ s # r => rows'[s].kinds = rows[s].kinds
  BY <1>1, <1>3, AddToRowRows
<1>6. output[element].kind \in found  BY <1>4 DEF IInv, AtItem, Adding, Current
<1>7. \A s \in 1 .. Len(rows) : rows[s].kinds \subseteq rows'[s].kinds  BY <1>5
<1>8. Everything'
  <2> SUFFICES ASSUME NEW e, NEW i, Read(e, i)' PROVE Seen(e, i)'
    BY DEF Everything
  <2>1. CASE Read(e, i)
    <3>1. PICK s \in 1 .. Len(rows) :
            rows[s].asset = output[e].items[i].asset /\ output[e].kind \in rows[s].kinds
      BY <2>1 DEF IInv, Everything, Seen
    <3> QED  BY <1>4, <1>5, <1>7, <3>1 DEF Seen
  <2>2. CASE e = element /\ i = item
    <3>1. rows'[r].asset = output[element].items[item].asset
      BY <1>1, <1>3, <1>4, <1>5, CurrentItemType
    <3>2. output[element].kind \in rows'[r].kinds  BY <1>5, <1>6
    <3> QED  BY <1>4, <1>5, <2>2, <3>1, <3>2 DEF Seen
  <2> QED  BY <1>1, <1>4, <2>1, <2>2, ReadOneMore
<1>9. AtItem'  BY <1>4, <1>5 DEF IInv, AtItem, Adding, Asked, Current
<1>10. OnlyWanted'  BY <1>1, <1>4, <1>5 DEF OnlyWanted
<1> QED  BY <1>5, <1>8, <1>9, <1>10 DEF IInv

LEMMA RewriteIInv == ASSUME IInv, Rewrite PROVE IInv'
<1>1. TypeOK  BY DEF IInv
<1>2. PICK kind \in wanted : output' = <<Written(kind)>>  BY DEF Rewrite
<1>3. element' = 1 /\ item' = 0 /\ rows' = <<>> /\ result' = "reading"
      /\ UNCHANGED <<wanted, found>>
  BY DEF Rewrite
<1>4. Len(output') = 1 /\ output'[1] = Written(kind)  BY <1>2
<1>5. Written(kind).kind \in Kinds /\ Written(kind).fits = TRUE
  BY <1>1 DEF Written, TypeOK
<1>6. /\ Len(Written(kind).items) \in Nat
      /\ \A i \in 1 .. Len(Written(kind).items) :
           Written(kind).items[i].asset \in Asset /\ Written(kind).items[i].quantity \in Quantity
  <2> DEFINE items == [r \in 1 .. Len(rows) |-> [asset    |-> rows[r].asset,
                                                quantity |-> rows[r].quantity]]
  <2>1. rows \in Seq(Row) /\ Len(rows) \in Nat  BY <1>1 DEF TypeOK
  <2>2. \A r \in 1 .. Len(rows) : rows[r].asset \in Asset /\ rows[r].quantity \in Quantity
    <3> TAKE r \in 1 .. Len(rows)
    <3>1. rows[r] \in Row  BY <2>1
    <3> QED  BY <3>1 DEF Row
  <2>3. Len(items) = Len(rows)  BY <2>1
  <2>4. Written(kind).items = items  BY DEF Written
  <2> QED  BY <2>1, <2>2, <2>3, <2>4
<1>7. IsOutput(output')
  <2>1. \A e \in 1 .. Len(output') : output'[e] = Written(kind)  BY <1>4
  <2>2. Len(output') \in Nat  BY <1>4
  <2> HIDE DEF Written
  <2> QED  BY <1>5, <1>6, <2>1, <2>2 DEF IsOutput
<1>8. TypeOK'
  <2>1. rows' \in Seq(Row)  BY <1>3
  <2> QED  BY <1>1, <1>3, <1>4, <1>7, <2>1 DEF TypeOK, IsOutput
<1>9. \A e, i : ~Read(e, i)'
  <2> SUFFICES ASSUME NEW e, NEW i, Read(e, i)' PROVE FALSE  OBVIOUS
  <2>1. e \in 1 .. 1 /\ i \in 1 .. Len(output'[e].items) /\ (e < 1 \/ (e = 1 /\ i < 0))
    BY <1>3, <1>4 DEF Read
  <2> QED  BY <1>4, <1>6, <2>1
<1>10. Everything'  BY <1>9 DEF Everything
<1>11. Len(rows') = 0  BY <1>3
<1>12. RowsAreDistinct' /\ AtItem' /\ OnlyWanted'
  BY <1>3, <1>11 DEF IInv, RowsAreDistinct, AtItem, OnlyWanted
<1> QED  BY <1>8, <1>10, <1>12 DEF IInv

LEMMA NextIInv == IInv /\ [Next]_vars => IInv'
<1> SUFFICES ASSUME IInv, [Next]_vars PROVE IInv'  OBVIOUS
<1>1. CASE Open  BY <1>1, OpenIInv
<1>2. CASE RefuseNegative  BY <1>2, StillIInv DEF RefuseNegative, Refuse
<1>3. CASE AddRow  BY <1>3, AddRowIInv
<1>4. CASE AddToRow
  <2>1. CASE result' = "reading"  BY <1>4, <2>1, AddToRowIInv
  <2>2. CASE result' # "reading"
    <3>1. Refuse  BY <1>4, <2>2 DEF AddToRow, Merge, Adding
    <3> QED  BY <3>1, StillIInv DEF Refuse
  <2> QED  BY <2>1, <2>2
<1>5. CASE Close  BY <1>5, CloseIInv
<1>6. CASE Finish  BY <1>6, StillIInv DEF Finish
<1>7. CASE Rewrite  BY <1>7, RewriteIInv
<1>8. CASE UNCHANGED vars  BY <1>8, StillIInv DEF vars, IInv, TypeOK
<1> QED  BY <1>1, <1>2, <1>3, <1>4, <1>5, <1>6, <1>7, <1>8 DEF Next

LEMMA AlwaysIInv == Spec => []IInv
BY InitIInv, NextIInv, PTL DEF Spec

-----------------------------------------------------------------------------
(* The types of the buffer, the cursor and the kinds found, for every       *)
(* output (hdacscript.cpp:1525-1640).                                       *)
THEOREM TypesHold == Spec => []TypeOK
<1>1. IInv => TypeOK  BY DEF IInv
<1> QED  BY <1>1, AlwaysIInv, PTL

(* No asset ever has two rows, whatever is read and in which order.         *)
THEOREM DistinctRows == Spec => []RowsAreDistinct
<1>1. IInv => RowsAreDistinct  BY DEF IInv
<1> QED  BY <1>1, AlwaysIInv, PTL

(* A row knows every kind of element its asset was read from, and none that *)
(* was not asked for, for any number of elements and items.                 *)
THEOREM KindsKept == Spec => []KindsAreKept
<1>1. IInv => KindsAreKept
  <2> SUFFICES ASSUME IInv, NEW r \in 1 .. Len(rows)
               PROVE  /\ \A p \in Added(rows[r].asset) : output[p[1]].kind \in rows[r].kinds
                      /\ rows[r].kinds \subseteq wanted
    BY DEF KindsAreKept
  <2>1. ASSUME NEW p \in Added(rows[r].asset) PROVE output[p[1]].kind \in rows[r].kinds
    <3>1. Read(p[1], p[2]) /\ output[p[1]].items[p[2]].asset = rows[r].asset
      BY <2>1 DEF Added
    <3>2. PICK s \in 1 .. Len(rows) :
            rows[s].asset = output[p[1]].items[p[2]].asset /\ output[p[1]].kind \in rows[s].kinds
      BY <3>1 DEF IInv, Everything, Seen
    <3> QED  BY <3>1, <3>2 DEF IInv, RowsAreDistinct
  <2> QED  BY <2>1 DEF IInv, OnlyWanted
<1> QED  BY <1>1, AlwaysIInv, PTL

(* In builds that keep the comparison after the addition, a sum that        *)
(* exceeds int64_t never becomes the quantity of a row                      *)
(* (hdacscript.cpp:1616-1623).                                              *)
THEOREM OverflowIsRefused ==
  ASSUME Comparison = {"kept"}
  PROVE  Spec => []ProtectedFromOverflow
<1> DEFINE J == IInv /\ ProtectedFromOverflow
<1>1. Init => J  BY InitIInv DEF Init, ProtectedFromOverflow
<1>2. J /\ [Next]_vars => J'
  <2> SUFFICES ASSUME IInv, ProtectedFromOverflow, [Next]_vars PROVE ProtectedFromOverflow'
    BY NextIInv
  <2>1. rows \in Seq(Row)  BY DEF IInv, TypeOK
  <2>2. CASE AddRow
    <3> DEFINE new == [asset |-> CurrentItem.asset, quantity |-> CurrentItem.quantity,
                       kinds |-> found]
    <3>1. new \in Row /\ rows' = Append(rows, new) /\ new.quantity >= 0
      BY <2>2, CurrentItemType DEF AddRow, Row, TypeOK, IInv
    <3> HIDE DEF new
    <3> QED  BY <2>1, <3>1 DEF ProtectedFromOverflow
  <2>3. CASE AddToRow
    <3>1. PICK r \in 1 .. Len(rows) : Merge(r)  BY <2>3 DEF AddToRow
    <3>2. CASE Refuse  BY <3>2 DEF Refuse, ProtectedFromOverflow
    <3>3. CASE ~Refuse
      <4> DEFINE sum == Wrap(CurrentItem.quantity + rows[r].quantity)
      <4>1. rows[r].quantity >= 0  BY DEF ProtectedFromOverflow
      <4>2. rows[r] \in Row  BY <2>1
      <4>3. rows[r].quantity \in Int  BY <4>2, AssetQuantitiesAssumption DEF Row, Quantity
      <4>4. sum >= 0 /\ rows' = [rows EXCEPT ![r].quantity = sum, ![r].kinds = found']
        BY <3>1, <3>3, <4>1, <4>3 DEF Merge
      <4> HIDE DEF sum
      <4>5. \A s \in 1 .. Len(rows) : rows'[s].quantity = IF s = r THEN sum ELSE rows[s].quantity
        BY <2>1, <4>4 DEF Row
      <4>6. Len(rows') = Len(rows)  BY <2>1, <4>4
      <4> QED  BY <4>4, <4>5, <4>6 DEF ProtectedFromOverflow
    <3> QED  BY <3>2, <3>3
  <2>4. CASE Rewrite  BY <2>4 DEF Rewrite, ProtectedFromOverflow
  <2>5. CASE UNCHANGED rows  BY <2>5 DEF ProtectedFromOverflow
  <2> QED
    BY <2>2, <2>3, <2>4, <2>5 DEF Next, Open, RefuseNegative, Refuse, Close, Finish, vars
<1>3. J => ProtectedFromOverflow  OBVIOUS
<1> QED  BY <1>1, <1>2, <1>3, PTL DEF Spec

-----------------------------------------------------------------------------
(* After the rows were written, those read again are a beginning of them.   *)
WrittenIs(rs) ==
  /\ rs \in Seq(Row)
  /\ \A r, s \in 1 .. Len(rs) : rs[r].asset = rs[s].asset => r = s
  /\ \A r \in 1 .. Len(rs) : rs[r].quantity >= 0

OutputIsWritten ==
  /\ Len(output) = 1 /\ Asked(1)
  /\ Len(output[1].items) = Len(written)
  /\ \A i \in 1 .. Len(written) :
       output[1].items[i].asset = written[i].asset /\ output[1].items[i].quantity = written[i].quantity

RowsBegin ==
  /\ result = "reading" \/ (result = "done" /\ element = 2)
  /\ \/ element = 1 /\ item = 0 /\ Len(rows) = 0
     \/ element = 1 /\ item \in 1 .. Len(written) + 1 /\ Len(rows) = item - 1
     \/ element = 2 /\ item = 0 /\ Len(rows) = Len(written)
  /\ \A r \in 1 .. Len(rows) :
       rows[r].asset = written[r].asset /\ rows[r].quantity = written[r].quantity

ReadingBack == written # <<>> => WrittenIs(written) /\ OutputIsWritten /\ RowsBegin

LEMMA RewriteReadingBack ==
  ASSUME IInv, ProtectedFromOverflow, Rewrite PROVE ReadingBack'
<1>1. PICK kind \in wanted : output' = <<Written(kind)>>  BY DEF Rewrite
<1>2. element' = 1 /\ item' = 0 /\ rows' = <<>> /\ result' = "reading" /\ written' = rows
      /\ UNCHANGED wanted
  BY DEF Rewrite
<1>3. Len(output') = 1 /\ output'[1] = Written(kind)  BY <1>1
<1>4. WrittenIs(written')  BY <1>2 DEF WrittenIs, IInv, TypeOK, RowsAreDistinct, ProtectedFromOverflow
<1>5. OutputIsWritten'
  <2> DEFINE items == [r \in 1 .. Len(rows) |-> [asset    |-> rows[r].asset,
                                                quantity |-> rows[r].quantity]]
  <2>1. Len(rows) \in Nat  BY DEF IInv, TypeOK
  <2>2. Len(items) = Len(rows)
        /\ \A r \in 1 .. Len(rows) : items[r].asset = rows[r].asset /\ items[r].quantity = rows[r].quantity
    BY <2>1
  <2>3. Written(kind).items = items /\ Written(kind).kind = kind /\ Written(kind).fits = TRUE
    BY DEF Written
  <2>4. output'[1].items = items /\ output'[1].kind = kind /\ output'[1].fits = TRUE
    BY <1>3, <2>3
  <2> HIDE DEF items
  <2> QED  BY <1>2, <1>3, <2>2, <2>4 DEF OutputIsWritten, Asked
<1>6. Len(rows') = 0  BY <1>2
<1>7. RowsBegin'  BY <1>2, <1>6 DEF RowsBegin
<1> QED  BY <1>4, <1>5, <1>7 DEF ReadingBack

(* The items of the written element: none is negative or has a row yet.     *)
LEMMA ItemIsWritten ==
  ASSUME IInv, ReadingBack, written # <<>>, Adding, item <= Len(Current.items)
  PROVE  /\ element = 1 /\ item \in 1 .. Len(written) /\ Len(rows) = item - 1
         /\ CurrentItem.asset = written[item].asset /\ CurrentItem.quantity = written[item].quantity
         /\ written[item].quantity >= 0 /\ ~Known(CurrentItem.asset)
<1>1. element = 1 /\ item > 0 /\ item <= Len(output[1].items) /\ CurrentItem = output[1].items[item]
  BY DEF Adding, Current, CurrentItem, ReadingBack, OutputIsWritten, RowsBegin, IInv, TypeOK
<1>2. item \in 1 .. Len(written) /\ Len(rows) = item - 1
  BY <1>1 DEF ReadingBack, OutputIsWritten, RowsBegin
<1>3. CurrentItem.asset = written[item].asset /\ CurrentItem.quantity = written[item].quantity
      /\ written[item].quantity >= 0
  BY <1>1, <1>2 DEF ReadingBack, OutputIsWritten, WrittenIs
<1>4. ASSUME NEW r \in 1 .. Len(rows) PROVE rows[r].asset # CurrentItem.asset
  <2>1. r \in 1 .. Len(written) /\ r # item /\ rows[r].asset = written[r].asset
    BY <1>2 DEF ReadingBack, RowsBegin, WrittenIs
  <2> QED  BY <1>2, <1>3, <2>1 DEF ReadingBack, WrittenIs
<1>5. ~Known(CurrentItem.asset)  BY <1>4 DEF Known, HasRow
<1> QED  BY <1>1, <1>2, <1>3, <1>5

LEMMA AddRowReadingBack ==
  ASSUME IInv, ReadingBack, written # <<>>, AddRow PROVE ReadingBack'
<1> DEFINE new == [asset |-> CurrentItem.asset, quantity |-> CurrentItem.quantity, kinds |-> found]
<1>1. rows' = Append(rows, new) /\ rows \in Seq(Row) /\ new \in Row
      /\ item' = item + 1 /\ UNCHANGED <<output, wanted, element, result, written>>
  BY CurrentItemType DEF AddRow, IInv, TypeOK, Row
<1>2. /\ element = 1 /\ item \in 1 .. Len(written) /\ Len(rows) = item - 1
      /\ new.asset = written[item].asset /\ new.quantity = written[item].quantity
  BY ItemIsWritten DEF AddRow
<1> HIDE DEF new
<1>3. /\ Len(rows') = item /\ rows'[item] = new
      /\ \A r \in 1 .. Len(rows) : rows'[r] = rows[r]
  BY <1>1, <1>2
<1>4. WrittenIs(written) /\ OutputIsWritten /\ RowsBegin  BY DEF ReadingBack
<1>5. OutputIsWritten'  BY <1>1, <1>4 DEF OutputIsWritten, Asked
<1>6. RowsBegin'
  <2>1. Len(written) \in Nat  BY <1>4 DEF WrittenIs
  <2>2. element' = 1 /\ item' \in 1 .. Len(written') + 1 /\ Len(rows') = item' - 1
    BY <1>1, <1>2, <1>3, <2>1
  <2>3. result' = "reading"  BY <1>1 DEF AddRow, Adding
  <2>4. ASSUME NEW r \in 1 .. Len(rows')
        PROVE  rows'[r].asset = written'[r].asset /\ rows'[r].quantity = written'[r].quantity
    <3>1. r = item \/ r \in 1 .. Len(rows)  BY <1>2, <1>3
    <3> QED  BY <1>1, <1>2, <1>3, <1>4, <3>1 DEF RowsBegin
  <2> QED  BY <2>2, <2>3, <2>4 DEF RowsBegin
<1>7. WrittenIs(written')  BY <1>1, <1>4 DEF WrittenIs
<1> QED  BY <1>5, <1>6, <1>7 DEF ReadingBack

LEMMA NextReadingBack ==
  ASSUME IInv, ProtectedFromOverflow, ReadingBack, [Next]_vars PROVE ReadingBack'
<1>1. CASE Rewrite  BY <1>1, RewriteReadingBack
<1>2. CASE ~Rewrite
  <2>1. UNCHANGED written
    BY <1>2 DEF Next, Open, RefuseNegative, Refuse, AddRow, AddToRow, Merge, Close, Finish, vars
  <2>2. CASE written = <<>>  BY <2>1, <2>2 DEF ReadingBack
  <2>3. CASE written # <<>>
    <3>1. WrittenIs(written) /\ OutputIsWritten /\ RowsBegin  BY <2>3 DEF ReadingBack
    <3>2. Len(written) \in Nat /\ Len(rows) \in Nat  BY <3>1 DEF WrittenIs, IInv, TypeOK
    <3>3. CASE AddRow  BY <2>3, <3>3, AddRowReadingBack
    <3>4. CASE RefuseNegative \/ AddToRow
      <4>1. Adding /\ item <= Len(Current.items)  BY <3>4 DEF RefuseNegative, AddToRow
      <4>2. ~(CurrentItem.quantity < 0)
        <5>1. CurrentItem.quantity = written[item].quantity /\ item \in 1 .. Len(written)
              /\ written[item].quantity >= 0
          BY <2>3, <4>1, ItemIsWritten
        <5>2. CurrentItem.quantity \in Int
          BY <4>1, CurrentItemType, AssetQuantitiesAssumption DEF IInv, Quantity
        <5> QED  BY <5>1, <5>2
      <4>3. ~Known(CurrentItem.asset)  BY <2>3, <4>1, ItemIsWritten
      <4> QED  BY <3>4, <4>2, <4>3 DEF RefuseNegative, AddToRow, Known
    <3>5. CASE Open
      <4>1. element = 1 /\ item = 0 /\ Len(rows) = 0 /\ result = "reading"
        BY <3>1, <3>5 DEF Open, OutputIsWritten, RowsBegin
      <4>2. Current.kind \in wanted /\ Current.fits
        BY <3>1, <4>1 DEF Current, OutputIsWritten, Asked
      <4>3. item' = 1 /\ UNCHANGED <<output, wanted, element, rows, result>>
        BY <3>5, <4>2 DEF Open
      <4>4. RowsBegin' /\ OutputIsWritten'
        BY <2>1, <3>1, <3>2, <4>1, <4>3 DEF RowsBegin, OutputIsWritten, Asked
      <4> QED  BY <2>1, <3>1, <4>4 DEF ReadingBack, WrittenIs
    <3>6. CASE Close
      <4>1. element = 1 /\ item > 0 /\ item > Len(output[1].items) /\ result = "reading"
        BY <3>1, <3>6 DEF Close, Adding, Current, OutputIsWritten, RowsBegin
      <4>2. Len(rows) = Len(written)  BY <3>1, <3>2, <4>1 DEF OutputIsWritten, RowsBegin
      <4>3. element' = 2 /\ item' = 0 /\ UNCHANGED <<output, wanted, rows, result>>
        BY <3>6, <4>1 DEF Close, NextElement
      <4>4. RowsBegin' /\ OutputIsWritten'
        BY <2>1, <3>1, <4>1, <4>2, <4>3 DEF RowsBegin, OutputIsWritten, Asked
      <4> QED  BY <2>1, <3>1, <4>4 DEF ReadingBack, WrittenIs
    <3>7. CASE Finish
      <4>1. element = 2 /\ result' = "done" /\ UNCHANGED <<output, wanted, rows, element, item>>
        BY <3>1, <3>7 DEF Finish, OutputIsWritten, RowsBegin
      <4>2. RowsBegin' /\ OutputIsWritten'
        BY <2>1, <3>1, <4>1 DEF RowsBegin, OutputIsWritten, Asked
      <4> QED  BY <2>1, <3>1, <4>2 DEF ReadingBack, WrittenIs
    <3>8. CASE UNCHANGED vars
      BY <3>8 DEF vars, ReadingBack, WrittenIs, RowsBegin, OutputIsWritten, Asked
    <3> QED  BY <1>2, <3>3, <3>4, <3>5, <3>6, <3>7, <3>8 DEF Next
  <2> QED  BY <2>2, <2>3
<1> QED  BY <1>1, <1>2

(* In such builds what SetAssetQuantities writes is read back row by row,   *)
(* for any number of rows (hdacscript.cpp:1642-1695).                       *)
THEOREM WrittenReadBack ==
  ASSUME Comparison = {"kept"}
  PROVE  Spec => []WrittenIsReadBack
<1>1. Init => ReadingBack  BY DEF Init, ReadingBack
<1>2. ReadingBack => WrittenIsReadBack  BY DEF ReadingBack, RowsBegin, WrittenIsReadBack
<1>3. Spec => []ProtectedFromOverflow  BY OverflowIsRefused
<1> QED  BY <1>1, <1>2, <1>3, AlwaysIInv, NextReadingBack, PTL DEF Spec

-----------------------------------------------------------------------------
(* The sum of a finite set of items does not depend on the order in which   *)
(* they are taken.                                                          *)
Amount(o, p) == o[p[1]].items[p[2]].quantity

AmountOf(o, S) == MapThenSumSet(LAMBDA p : o[p[1]].items[p[2]].quantity, S)

SumStep(o, sum, s) ==
  IF s = {} THEN 0 ELSE LET x == CHOOSE x \in s : TRUE IN Amount(o, x) + sum[s \ {x}]

Sums(o, sets, sum) == sum = [s \in sets |-> SumStep(o, sum, s)]

AllSums(o, S, sum) == Sums(o, SUBSET S, sum)

LEMMA SumsAt ==
  ASSUME NEW o, NEW sets, NEW sum, Sums(o, sets, sum), NEW s \in sets
  PROVE  /\ s = {} => sum[s] = 0
         /\ s # {} => \E x \in s : sum[s] = Amount(o, x) + sum[s \ {x}]
<1>1. sum[s] = SumStep(o, sum, s)
  BY DEF Sums
<1>2. s = {} => sum[s] = 0
  BY <1>1 DEF SumStep
<1>3. ASSUME s # {} PROVE \E x \in s : sum[s] = Amount(o, x) + sum[s \ {x}]
  <2> DEFINE x == CHOOSE x \in s : TRUE
  <2>1. x \in s
    BY <1>3
  <2>2. sum[s] = Amount(o, x) + sum[s \ {x}]
    BY <1>1, <1>3 DEF SumStep
  <2> QED
    BY <2>1, <2>2
<1> QED
  BY <1>2, <1>3

LEMMA SmallerSet ==
  ASSUME NEW S, IsFiniteSet(S), NEW s \in SUBSET S, NEW x \in s
  PROVE  /\ s \ {x} \in SUBSET S /\ IsFiniteSet(s)
         /\ Cardinality(s) \in Nat /\ Cardinality(s \ {x}) \in Nat
         /\ Cardinality(s \ {x}) = Cardinality(s) - 1
         /\ Cardinality(s) <= Cardinality(S)
<1>1. IsFiniteSet(s) /\ Cardinality(s) <= Cardinality(S)
  BY FS_Subset
<1>2. Cardinality(s) \in Nat /\ IsFiniteSet(s \ {x}) /\ Cardinality(s \ {x}) = Cardinality(s) - 1
  BY <1>1, FS_CardinalityType, FS_RemoveElement
<1>3. Cardinality(s \ {x}) \in Nat
  BY <1>2, FS_CardinalityType
<1> QED
  BY <1>1, <1>2, <1>3

LEMMA SumsExist ==
  ASSUME NEW o, NEW S, IsFiniteSet(S)
  PROVE  \E sum : AllSums(o, S, sum)
<1> DEFINE Upto(k) == {s \in SUBSET S : Cardinality(s) <= k}
           T == {k \in Nat : ~ \E sum : Sums(o, Upto(k), sum)}
<1>1. T = {}
  <2> SUFFICES ASSUME T # {} PROVE FALSE
    OBVIOUS
  <2>1. T \in SUBSET Nat
    OBVIOUS
  <2>2. PICK m \in T : \A k \in T : m <= k
    BY <2>1, LeastNatural
  <2>3. m \in Nat /\ ~ \E sum : Sums(o, Upto(m), sum)
    OBVIOUS
  <2>4. CASE m = 0
    <3> DEFINE e == [s \in Upto(0) |-> 0]
    <3>1. \A s \in Upto(0) : s = {}
      <4> SUFFICES ASSUME NEW s \in SUBSET S, Cardinality(s) <= 0, NEW x \in s PROVE FALSE
        OBVIOUS
      <4>1. Cardinality(s) \in Nat /\ Cardinality(s) - 1 \in Nat
        <5>1. /\ Cardinality(s) \in Nat /\ Cardinality(s \ {x}) \in Nat
              /\ Cardinality(s \ {x}) = Cardinality(s) - 1
          BY SmallerSet
        <5> QED
          BY <5>1
      <4> QED
        BY <4>1
    <3>2. \A s \in Upto(0) : e[s] = SumStep(o, e, s)
      BY <3>1 DEF SumStep
    <3>3. e = [s \in Upto(0) |-> e[s]]
      OBVIOUS
    <3> HIDE DEF e, Upto
    <3>4. Sums(o, Upto(0), e)
      BY <3>2, <3>3 DEF Sums
    <3> QED
      BY <2>3, <2>4, <3>4
  <2>5. CASE m # 0
    <3>1. m - 1 \in Nat /\ m - 1 \notin T
      <4> HIDE DEF T
      <4> QED
        BY <2>2, <2>3, <2>5
    <3>2. PICK d : Sums(o, Upto(m - 1), d)
      BY <3>1
    <3> DEFINE e == [s \in Upto(m) |-> IF s \in Upto(m - 1) THEN d[s] ELSE SumStep(o, d, s)]
    <3>3. Upto(m - 1) \subseteq Upto(m)
      <4> SUFFICES ASSUME NEW s \in SUBSET S, Cardinality(s) <= m - 1 PROVE Cardinality(s) <= m
        OBVIOUS
      <4>1. IsFiniteSet(s) /\ Cardinality(s) \in Nat
        BY FS_Subset, FS_CardinalityType
      <4> QED
        BY <2>3, <4>1
    <3>4. \A s \in Upto(m) : e[s] = SumStep(o, d, s)
      <4>1. \A s \in Upto(m - 1) : d[s] = SumStep(o, d, s)
        BY <3>2 DEF Sums
      <4> QED
        BY <4>1
    <3>5. \A s \in Upto(m - 1) : e[s] = d[s]
      BY <3>3
    <3>6. e = [s \in Upto(m) |-> e[s]]
      OBVIOUS
    <3>7. ASSUME NEW s \in Upto(m), NEW x \in s PROVE s \ {x} \in Upto(m - 1)
      <4>1. s \in SUBSET S /\ Cardinality(s) <= m
        OBVIOUS
      <4>2. s \ {x} \in SUBSET S /\ Cardinality(s \ {x}) = Cardinality(s) - 1 /\ Cardinality(s) \in Nat
        BY <4>1, SmallerSet
      <4> QED
        BY <2>3, <4>1, <4>2
    <3> HIDE DEF e, Upto
    <3>8. ASSUME NEW s \in Upto(m) PROVE SumStep(o, d, s) = SumStep(o, e, s)
      <4>1. CASE s = {}
        BY <4>1 DEF SumStep
      <4>2. CASE s # {}
        <5> DEFINE x == CHOOSE x \in s : TRUE
        <5>1. x \in s
          BY <4>2
        <5>2. d[s \ {x}] = e[s \ {x}]
          BY <3>5, <3>7, <5>1
        <5> QED
          BY <5>2 DEF SumStep
      <4> QED
        BY <4>1, <4>2
    <3>9. Sums(o, Upto(m), e)
      BY <3>4, <3>6, <3>8 DEF Sums
    <3> QED
      BY <2>3, <3>9
  <2> QED
    BY <2>4, <2>5
<1>2. Cardinality(S) \in Nat
  BY FS_CardinalityType
<1>3. Upto(Cardinality(S)) = SUBSET S
  BY FS_Subset
<1> HIDE DEF Upto
<1>4. \E sum : Sums(o, Upto(Cardinality(S)), sum)
  BY <1>1, <1>2
<1> QED
  BY <1>3, <1>4 DEF AllSums

(* Any item can be taken first.                                             *)
LEMMA AnyFirst ==
  ASSUME NEW o, NEW S, IsFiniteSet(S), \A p \in S : Amount(o, p) \in Int,
         NEW sum, AllSums(o, S, sum)
  PROVE  \A s \in SUBSET S : sum[s] \in Int /\ \A x \in s : sum[s] = Amount(o, x) + sum[s \ {x}]
<1> DEFINE Good(s) == sum[s] \in Int /\ \A x \in s : sum[s] = Amount(o, x) + sum[s \ {x}]
           T == {n \in Nat : \E s \in SUBSET S : Cardinality(s) = n /\ ~Good(s)}
<1>1. \A s \in SUBSET S : Cardinality(s) \in Nat
  BY FS_Subset, FS_CardinalityType
<1>2. T = {}
  <2> SUFFICES ASSUME T # {} PROVE FALSE
    OBVIOUS
  <2>1. T \in SUBSET Nat
    OBVIOUS
  <2>2. PICK n \in T : \A k \in T : n <= k
    BY <2>1, LeastNatural
  <2>3. PICK s \in SUBSET S : Cardinality(s) = n /\ ~Good(s)
    OBVIOUS
  <2>4. n \in Nat
    OBVIOUS
  <2>5. ASSUME NEW t \in SUBSET S, Cardinality(t) < n PROVE Good(t)
    <3>1. Cardinality(t) \in Nat /\ Cardinality(t) \notin T
      BY <1>1, <2>2, <2>4, <2>5
    <3> QED
      BY <3>1
  <2>6. CASE s = {}
    BY <2>3, <2>6, SumsAt DEF AllSums
  <2>7. CASE s # {}
    <3>1. PICK y \in s : sum[s] = Amount(o, y) + sum[s \ {y}]
      BY <2>7, SumsAt DEF AllSums
    <3>2. \A x \in s : s \ {x} \in SUBSET S /\ Cardinality(s \ {x}) < n
      BY <2>3, SmallerSet
    <3>3. \A x \in s : Good(s \ {x})
      BY <2>5, <3>2
    <3>4. sum[s \ {y}] \in Int /\ Amount(o, y) \in Int
      BY <3>3
    <3>5. sum[s] \in Int
      BY <3>1, <3>4
    <3>6. ASSUME NEW x \in s PROVE sum[s] = Amount(o, x) + sum[s \ {x}]
      <4>1. CASE x = y
        BY <3>1, <4>1
      <4>2. CASE x # y
        <5>1. sum[s \ {y}] = Amount(o, x) + sum[(s \ {y}) \ {x}]
          BY <3>3, <4>2
        <5>2. sum[s \ {x}] = Amount(o, y) + sum[(s \ {x}) \ {y}]
          BY <3>3, <4>2
        <5>3. (s \ {y}) \ {x} = (s \ {x}) \ {y}
          OBVIOUS
        <5>4. (s \ {x}) \ {y} \in SUBSET S /\ Cardinality((s \ {x}) \ {y}) < n
          <6>1. s \ {x} \in SUBSET S /\ y \in s \ {x} /\ Cardinality(s \ {x}) < n
            BY <3>2, <4>2
          <6> DEFINE t == s \ {x}
          <6>2. t \in SUBSET S /\ y \in t /\ Cardinality(t) < n
            BY <6>1
          <6> HIDE DEF t
          <6>3. /\ t \ {y} \in SUBSET S /\ Cardinality(t \ {y}) = Cardinality(t) - 1
                /\ Cardinality(t) \in Nat
            BY <6>2, SmallerSet
          <6>4. Cardinality(t \ {y}) < n
            BY <2>4, <6>2, <6>3
          <6> QED
            BY <6>3, <6>4 DEF t
        <5>5. sum[(s \ {x}) \ {y}] \in Int
          BY <2>5, <5>4
        <5>6. Amount(o, x) \in Int
          OBVIOUS
        <5> DEFINE z == sum[(s \ {x}) \ {y}]
        <5>7. sum[s \ {y}] = Amount(o, x) + z /\ sum[s \ {x}] = Amount(o, y) + z /\ z \in Int
          BY <5>1, <5>2, <5>3, <5>5
        <5> HIDE DEF z
        <5> QED
          BY <3>1, <3>4, <5>6, <5>7
      <4> QED
        BY <4>1, <4>2
    <3> QED
      BY <2>3, <3>5, <3>6
  <2> QED
    BY <2>6, <2>7
<1>3. \A s \in SUBSET S : Good(s)
  BY <1>1, <1>2
<1> QED
  BY <1>3

(* The sums of a set do not depend on what is around it.                    *)
LEMMA SumsAgree ==
  ASSUME NEW o, NEW S, IsFiniteSet(S), NEW R, R \subseteq S,
         NEW sum, AllSums(o, S, sum), NEW other, AllSums(o, R, other)
  PROVE  sum[R] = other[R]
<1> DEFINE T == {n \in Nat : \E s \in SUBSET R : Cardinality(s) = n /\ sum[s] # other[s]}
<1>1. \A s \in SUBSET R : Cardinality(s) \in Nat /\ s \in SUBSET S
  BY FS_Subset, FS_CardinalityType
<1>2. T = {}
  <2> SUFFICES ASSUME T # {} PROVE FALSE
    OBVIOUS
  <2>1. T \in SUBSET Nat
    OBVIOUS
  <2>2. PICK n \in T : \A k \in T : n <= k
    BY <2>1, LeastNatural
  <2>3. PICK s \in SUBSET R : Cardinality(s) = n /\ sum[s] # other[s]
    OBVIOUS
  <2>4. sum[s] = SumStep(o, sum, s) /\ other[s] = SumStep(o, other, s)
    BY <1>1 DEF Sums, AllSums
  <2>5. ASSUME NEW x \in s PROVE sum[s \ {x}] = other[s \ {x}]
    <3>1. s \in SUBSET S
      BY <1>1
    <3>2. s \ {x} \in SUBSET R /\ Cardinality(s \ {x}) \in Nat /\ Cardinality(s \ {x}) < n
      BY <2>3, <3>1, SmallerSet
    <3>3. Cardinality(s \ {x}) \notin T
      BY <2>2, <3>2
    <3> QED
      BY <3>2, <3>3
  <2>6. SumStep(o, sum, s) = SumStep(o, other, s)
    <3>1. CASE s = {}
      BY <3>1 DEF SumStep
    <3>2. CASE s # {}
      <4> DEFINE x == CHOOSE x \in s : TRUE
      <4>1. x \in s
        BY <3>2
      <4>2. sum[s \ {x}] = other[s \ {x}]
        BY <2>5, <4>1
      <4> QED
        BY <4>2 DEF SumStep
    <3> QED
      BY <3>1, <3>2
  <2> QED
    BY <2>3, <2>4, <2>6
<1> QED
  BY <1>1, <1>2

LEMMA AmountIs ==
  ASSUME NEW o, NEW S, IsFiniteSet(S)
  PROVE  \E sum : AllSums(o, S, sum) /\ AmountOf(o, S) = sum[S]
<1> DEFINE iter[s \in SUBSET S] ==
      IF s = {} THEN 0
      ELSE LET x == CHOOSE x \in s : TRUE IN o[x[1]].items[x[2]].quantity + iter[s \ {x}]
<1>1. AmountOf(o, S) = iter[S]
  BY DEF AmountOf, MapThenSumSet, MapThenFoldSet
<1>2. \E sum : AllSums(o, S, sum)
  BY SumsExist
<1>3. AllSums(o, S, iter)
  BY <1>2 DEF AllSums, Sums, SumStep, Amount
<1> QED
  BY <1>1, <1>3

LEMMA AmountOfNone == ASSUME NEW o PROVE AmountOf(o, {}) = 0
<1>1. IsFiniteSet({})
  BY FS_EmptySet
<1>2. PICK sum : AllSums(o, {}, sum) /\ AmountOf(o, {}) = sum[{}]
  BY <1>1, AmountIs
<1>3. {} \in SUBSET {}
  OBVIOUS
<1>4. sum[{}] = 0
  BY <1>2, <1>3, SumsAt DEF AllSums
<1> QED
  BY <1>2, <1>4

LEMMA AmountOfOneMore ==
  ASSUME NEW o, NEW S, IsFiniteSet(S), NEW x, x \notin S, \A p \in S \cup {x} : Amount(o, p) \in Int
  PROVE  AmountOf(o, S \cup {x}) = Amount(o, x) + AmountOf(o, S)
<1> DEFINE M == S \cup {x}
<1>1. IsFiniteSet(M)
  BY FS_AddElement
<1>2. PICK sum : AllSums(o, M, sum) /\ AmountOf(o, M) = sum[M]
  BY <1>1, AmountIs
<1>3. PICK other : AllSums(o, S, other) /\ AmountOf(o, S) = other[S]
  BY AmountIs
<1>4. M \ {x} = S /\ x \in M /\ S \in SUBSET M /\ M \in SUBSET M
  OBVIOUS
<1>5. \A p \in M : Amount(o, p) \in Int
  OBVIOUS
<1> HIDE DEF M
<1>6. sum[M] = Amount(o, x) + sum[S]
  BY <1>1, <1>2, <1>4, <1>5, AnyFirst
<1>7. sum[S] = other[S]
  BY <1>1, <1>2, <1>3, <1>4, SumsAgree
<1> QED
  BY <1>2, <1>3, <1>6, <1>7 DEF M

(* Of every asset: what was read of it is finite, and its row, if it was    *)
(* seen, holds the sum.                                                     *)
RowIsSum(a) ==
  IF Added(a) = {} THEN \A r \in 1 .. Len(rows) : rows[r].asset # a
  ELSE \E r \in 1 .. Len(rows) : rows[r].asset = a /\ rows[r].quantity = AmountOf(output, Added(a))

SumInv == \A a \in Asset : IsFiniteSet(Added(a)) /\ RowIsSum(a)

LEMMA HasRowIs ==
  ASSUME TypeOK, RowsAreDistinct, NEW a, NEW r \in 1 .. Len(rows)
  PROVE  HasRow(r, a) <=> rows[r].asset = a
<1>1. Len(rows) \in Nat
  BY DEF TypeOK
<1>2. ASSUME rows[r].asset = a, NEW s \in 1 .. r - 1 PROVE rows[s].asset # a
  <2>1. s \in 1 .. Len(rows) /\ s # r
    BY <1>1
  <2> QED
    BY <1>2, <2>1 DEF RowsAreDistinct
<1> QED
  BY <1>2 DEF HasRow

LEMMA AddedWhere ==
  ASSUME NEW a, NEW p
  PROVE  p \in Added(a) <=>
           p = <<p[1], p[2]>> /\ Read(p[1], p[2]) /\ output[p[1]].items[p[2]].asset = a
<1>1. ASSUME p \in Added(a)
      PROVE  p = <<p[1], p[2]>> /\ Read(p[1], p[2]) /\ output[p[1]].items[p[2]].asset = a
  <2>1. PICK e \in 1 .. Len(output) : p \in {e} \X (1 .. Len(output[e].items))
    BY <1>1 DEF Added
  <2>2. p = <<p[1], p[2]>>
    BY <2>1
  <2> QED
    BY <1>1, <2>2 DEF Added
<1>2. ASSUME p = <<p[1], p[2]>>, Read(p[1], p[2]), output[p[1]].items[p[2]].asset = a
      PROVE  p \in Added(a)
  <2>1. p[1] \in 1 .. Len(output) /\ p[2] \in 1 .. Len(output[p[1]].items)
    BY <1>2 DEF Read
  <2>2. p \in {p[1]} \X (1 .. Len(output[p[1]].items))
    BY <1>2, <2>1
  <2>3. p \in UNION {{e} \X (1 .. Len(output[e].items)) : e \in 1 .. Len(output)}
    BY <2>1, <2>2
  <2> QED
    BY <1>2, <2>3 DEF Added
<1> QED
  BY <1>1, <1>2

LEMMA AddedWhereNext ==
  ASSUME NEW a, NEW p
  PROVE  (p \in Added(a) <=>
            p = <<p[1], p[2]>> /\ Read(p[1], p[2]) /\ output[p[1]].items[p[2]].asset = a)'
<1>1. p \in Added(a) <=>
        p = <<p[1], p[2]>> /\ Read(p[1], p[2]) /\ output[p[1]].items[p[2]].asset = a
  BY AddedWhere
<1> QED
  BY <1>1, PTL

LEMMA AddedAmounts ==
  ASSUME TypeOK, NEW a, NEW p \in Added(a)
  PROVE  Amount(output, p) \in Int
<1>1. p[1] \in 1 .. Len(output) /\ p[2] \in 1 .. Len(output[p[1]].items)
  BY AddedWhere DEF Read
<1>2. output[p[1]].items[p[2]].quantity \in Quantity
  BY <1>1 DEF TypeOK, IsOutput
<1> QED
  BY <1>2, AssetQuantitiesAssumption DEF Amount, Quantity

(* What a step adds: the current item, or nothing.                          *)
Place == <<element, item>>

LEMMA AddedOneMore ==
  ASSUME IInv, Adding, item <= Len(Current.items), item' = item + 1,
         UNCHANGED <<output, wanted, element>>, NEW a
  PROVE  /\ Place \notin Added(a)
         /\ Added(a)' = IF a = CurrentItem.asset THEN Added(a) \cup {Place} ELSE Added(a)
         /\ Amount(output, Place) = CurrentItem.quantity /\ CurrentItem.quantity \in Int
<1>1. TypeOK /\ AtItem
  BY DEF IInv
<1>2. /\ element \in 1 .. Len(output) /\ item \in 1 .. Len(output[element].items)
      /\ CurrentItem = output[element].items[item] /\ CurrentItem.quantity \in Quantity
  BY <1>1, CurrentItemType
<1>3. element \in Int /\ item \in Nat
  BY <1>1, <1>2 DEF TypeOK, IsOutput
<1>4. Place \notin Added(a)
  <2>1. ~Read(element, item)
    BY <1>3 DEF Read
  <2> QED
    BY <2>1, AddedWhere DEF Place
<1>5. \A e, i : e = element /\ i = item => Read(e, i)'
  <2>1. Asked(element)
    BY <1>1 DEF AtItem, Adding
  <2> QED
    BY <1>2, <1>3, <2>1 DEF Read, Asked
<1>6. \A e, i : Read(e, i) => Read(e, i)'
  <2> SUFFICES ASSUME NEW e, NEW i, Read(e, i) PROVE Read(e, i)'
    OBVIOUS
  <2>1. i \in 1 .. Len(output[e].items) /\ Len(output[e].items) \in Nat
    BY <1>1 DEF Read, TypeOK, IsOutput
  <2> QED
    BY <1>3, <2>1 DEF Read, Asked
<1>7. \A p : p \in Added(a)' <=>
        p = <<p[1], p[2]>> /\ Read(p[1], p[2])' /\ output[p[1]].items[p[2]].asset = a
  BY AddedWhereNext
<1>8. \A p : p \in Added(a)' <=> p \in Added(a) \/ (p = Place /\ a = CurrentItem.asset)
  <2> TAKE p
  <2>1. ASSUME p \in Added(a)' PROVE p \in Added(a) \/ (p = Place /\ a = CurrentItem.asset)
    <3>1. p = <<p[1], p[2]>> /\ Read(p[1], p[2])' /\ output[p[1]].items[p[2]].asset = a
      BY <1>7, <2>1
    <3>2. Read(p[1], p[2]) \/ (p[1] = element /\ p[2] = item)
      BY <1>1, <3>1, ReadOneMore
    <3> QED
      BY <1>2, <3>1, <3>2, AddedWhere DEF Place
  <2>2. p \in Added(a) => p \in Added(a)'
    BY <1>6, <1>7, AddedWhere
  <2>3. p = Place /\ a = CurrentItem.asset => p \in Added(a)'
    BY <1>2, <1>5, <1>7 DEF Place
  <2> QED
    BY <2>1, <2>2, <2>3
<1>9. Amount(output, Place) = CurrentItem.quantity /\ CurrentItem.quantity \in Int
  BY <1>2, AssetQuantitiesAssumption DEF Amount, Place, Quantity
<1> QED
  BY <1>4, <1>8, <1>9

LEMMA AddedNoMore ==
  ASSUME TypeOK, Open \/ Close, NEW a
  PROVE  Added(a)' = Added(a)
<1>1. UNCHANGED <<output, wanted>>
  BY DEF Open, Close
<1>2. \A e, i : Read(e, i) => Read(e, i)'
  <2> SUFFICES ASSUME NEW e, NEW i, Read(e, i) PROVE Read(e, i)'
    OBVIOUS
  <2>1. /\ e \in 1 .. Len(output) /\ i \in 1 .. Len(output[e].items) /\ Asked(e)
        /\ e < element \/ (e = element /\ i < item)
    BY DEF Read
  <2>2. element \in Nat /\ Len(output) \in Nat /\ Len(output[e].items) \in Nat /\ item \in Nat
    BY <2>1 DEF TypeOK, IsOutput
  <2>3. Asked(e)'
    BY <1>1, <2>1 DEF Asked
  <2>4. (e < element \/ (e = element /\ i < item))'
    <3>1. CASE Close
      BY <2>1, <2>2, <3>1 DEF Close, NextElement
    <3>2. CASE Open
      <4>1. item = 0
        BY <3>2 DEF Open
      <4>2. e < element
        BY <2>1, <2>2, <4>1
      <4>3. element' = element \/ element' = element + 1
        BY <3>2 DEF Open, NextElement
      <4> QED
        BY <2>1, <2>2, <4>2, <4>3
    <3> QED
      BY <3>1, <3>2
  <2> QED
    BY <1>1, <2>1, <2>3, <2>4 DEF Read
<1>3. \A p : p \in Added(a)' <=> p \in Added(a)
  <2> TAKE p
  <2>1. Read(p[1], p[2])' <=> Read(p[1], p[2])
    BY <1>2, ReadNoMore
  <2> QED
    BY <1>1, <2>1, AddedWhere, AddedWhereNext
<1> QED
  BY <1>3

LEMMA StillSums ==
  ASSUME SumInv, UNCHANGED <<output, rows>>, \A a \in Asset : Added(a)' = Added(a)
  PROVE  SumInv'
BY DEF SumInv, RowIsSum

(* The addition that was not refused did not overflow.                      *)
LEMMA WrapIsSum ==
  ASSUME NEW m \in Quantity, NEW n \in Quantity, m >= 0, n >= 0, Wrap(m + n) >= 0
  PROVE  Wrap(m + n) = m + n
<1>1. Half \in Nat \ {0} /\ m \in Int /\ n \in Int /\ m < Half /\ n < Half
  BY AssetQuantitiesAssumption DEF Quantity
<1> DEFINE x == m + n + Half
           w == 2 * Half
<1>2. x \in Int /\ w \in Nat \ {0} /\ x >= 0 /\ x < 2 * w /\ w = 2 * Half
  BY <1>1
<1>3. x < w => x % w = x
  <2> HIDE DEF x, w
  <2> QED
    BY <1>2
<1>4. x >= w => x % w = x - w
  <2> HIDE DEF x, w
  <2> QED
    BY <1>2
<1>5. Wrap(m + n) = (x % w) - Half
  BY DEF Wrap
<1>6. ~(x >= w)
  <2>1. x >= w => Wrap(m + n) = m + n + Half - 2 * Half - Half
    BY <1>1, <1>4, <1>5
  <2>2. m + n + Half - 2 * Half - Half < 0
    BY <1>1
  <2>3. x >= w => Wrap(m + n) < 0
    BY <2>1, <2>2
  <2>4. Wrap(m + n) \in Int
    BY <1>1, <1>2, <1>5
  <2> HIDE DEF x, w
  <2> DEFINE z == Wrap(m + n)
  <2>5. z \in Int /\ z >= 0
    BY <2>4
  <2>6. x >= w => z < 0
    BY <2>3
  <2> HIDE DEF z
  <2> QED
    BY <2>5, <2>6
<1>7. x < w
  BY <1>2, <1>6
<1> QED
  BY <1>1, <1>3, <1>5, <1>7

LEMMA AddRowSums ==
  ASSUME IInv, SumInv, AddRow PROVE SumInv'
<1> DEFINE new == [asset |-> CurrentItem.asset, quantity |-> CurrentItem.quantity, kinds |-> found]
<1>1. TypeOK /\ RowsAreDistinct /\ Adding /\ item <= Len(Current.items)
      /\ item' = item + 1 /\ UNCHANGED <<output, wanted, element>>
  BY DEF IInv, AddRow
<1>2. /\ Len(rows) \in Nat /\ Len(rows') = Len(rows) + 1
      /\ rows'[Len(rows) + 1] = new
      /\ \A r \in 1 .. Len(rows) : rows'[r] = rows[r]
  <2>1. rows \in Seq(Row)
    BY <1>1 DEF TypeOK
  <2>2. new \in Row
    BY <1>1, CurrentItemType DEF Row, TypeOK
  <2>3. rows' = Append(rows, new)
    BY DEF AddRow
  <2> HIDE DEF new
  <2> QED
    BY <2>1, <2>2, <2>3
<1>3. new.asset = CurrentItem.asset /\ new.quantity = CurrentItem.quantity
  OBVIOUS
<1> HIDE DEF new
<1>4. \A r \in 1 .. Len(rows) : rows[r].asset # CurrentItem.asset
  BY <1>1, HasRowIs DEF AddRow, Known
<1> SUFFICES ASSUME NEW a \in Asset PROVE IsFiniteSet(Added(a)') /\ RowIsSum(a)'
  BY DEF SumInv
<1>5. IsFiniteSet(Added(a)) /\ RowIsSum(a)
  BY DEF SumInv
<1>6. /\ Place \notin Added(a)
      /\ Added(a)' = IF a = CurrentItem.asset THEN Added(a) \cup {Place} ELSE Added(a)
      /\ Amount(output, Place) = CurrentItem.quantity /\ CurrentItem.quantity \in Int
  BY <1>1, AddedOneMore
<1>7. CASE a = CurrentItem.asset
  <2>1. Added(a) = {}
    BY <1>4, <1>5, <1>7 DEF RowIsSum
  <2>2. Added(a)' = {Place}
    BY <1>6, <1>7, <2>1
  <2>3. IsFiniteSet({Place})
    BY FS_Singleton
  <2>4. AmountOf(output, {Place}) = CurrentItem.quantity
    <3>1. IsFiniteSet({}) /\ {} \cup {Place} = {Place}
      BY FS_EmptySet
    <3>2. AmountOf(output, {} \cup {Place}) = Amount(output, Place) + AmountOf(output, {})
      BY <1>6, <3>1, AmountOfOneMore
    <3> QED
      BY <1>6, <3>1, <3>2, AmountOfNone
  <2>5. Len(rows) + 1 \in 1 .. Len(rows')
    BY <1>2
  <2> QED
    BY <1>1, <1>2, <1>3, <1>7, <2>2, <2>3, <2>4, <2>5 DEF RowIsSum
<1>8. CASE a # CurrentItem.asset
  <2>1. Added(a)' = Added(a) /\ AmountOf(output, Added(a))' = AmountOf(output, Added(a))
    BY <1>1, <1>6, <1>8
  <2>2. CASE Added(a) = {}
    <3>1. \A r \in 1 .. Len(rows') : r \in 1 .. Len(rows) \/ r = Len(rows) + 1
      BY <1>2
    <3>2. \A r \in 1 .. Len(rows') : rows'[r].asset # a
      BY <1>2, <1>3, <1>5, <1>8, <2>2, <3>1 DEF RowIsSum
    <3> QED
      BY <1>5, <2>1, <2>2, <3>2 DEF RowIsSum
  <2>3. CASE Added(a) # {}
    <3>1. PICK r \in 1 .. Len(rows) : rows[r].asset = a /\ rows[r].quantity = AmountOf(output, Added(a))
      BY <1>5, <2>3 DEF RowIsSum
    <3>2. r \in 1 .. Len(rows') /\ rows'[r] = rows[r]
      BY <1>2
    <3> QED
      BY <1>5, <2>1, <2>3, <3>1, <3>2 DEF RowIsSum
  <2> QED
    BY <2>2, <2>3
<1> QED
  BY <1>7, <1>8

LEMMA AddToRowSums ==
  ASSUME IInv, SumInv, ProtectedFromOverflow, Comparison = {"kept"}, AddToRow, result' = "reading"
  PROVE  SumInv'
<1>1. TypeOK /\ RowsAreDistinct /\ rows \in Seq(Row)
  BY DEF IInv, TypeOK
<1>2. PICK r \in 1 .. Len(rows) : HasRow(r, CurrentItem.asset) /\ Merge(r)
  BY DEF AddToRow
<1> DEFINE sum == Wrap(CurrentItem.quantity + rows[r].quantity)
<1>3. /\ Adding /\ item <= Len(Current.items) /\ item' = item + 1
      /\ UNCHANGED <<output, wanted, element>>
      /\ rows' = [rows EXCEPT ![r].quantity = sum, ![r].kinds = found']
      /\ rows[r].quantity < 0 \/ sum >= 0
  BY <1>2 DEF AddToRow, Merge, Refuse
<1>4. rows[r].asset = CurrentItem.asset
  BY <1>2 DEF HasRow
<1>5. rows[r].quantity \in Quantity /\ rows[r].quantity >= 0 /\ rows[r].quantity \in Int
  <2>1. rows[r] \in Row
    BY <1>1
  <2> QED
    BY <2>1, AssetQuantitiesAssumption DEF ProtectedFromOverflow, Row, Quantity
<1>6. CurrentItem.quantity \in Quantity /\ CurrentItem.quantity >= 0
  BY <1>1, <1>3, CurrentItemType DEF AddToRow
<1>7. sum = CurrentItem.quantity + rows[r].quantity
  BY <1>3, <1>5, <1>6, WrapIsSum
<1> HIDE DEF sum
<1>8. /\ Len(rows') = Len(rows) /\ rows'[r].quantity = sum
      /\ \A s \in 1 .. Len(rows) : /\ rows'[s].asset = rows[s].asset
                                   /\ s # r => rows'[s].quantity = rows[s].quantity
  BY <1>1, <1>3 DEF Row
<1> SUFFICES ASSUME NEW a \in Asset PROVE IsFiniteSet(Added(a)') /\ RowIsSum(a)'
  BY DEF SumInv
<1>9. IsFiniteSet(Added(a)) /\ RowIsSum(a)
  BY DEF SumInv
<1>10. /\ Place \notin Added(a)
       /\ Added(a)' = IF a = CurrentItem.asset THEN Added(a) \cup {Place} ELSE Added(a)
       /\ Amount(output, Place) = CurrentItem.quantity /\ CurrentItem.quantity \in Int
  BY <1>3, AddedOneMore
<1>11. CASE a = CurrentItem.asset
  <2>1. Added(a) # {}
    BY <1>4, <1>9, <1>11 DEF RowIsSum
  <2>2. rows[r].quantity = AmountOf(output, Added(a))
    BY <1>1, <1>4, <1>9, <1>11, <2>1 DEF RowIsSum, RowsAreDistinct
  <2>3. Added(a)' = Added(a) \cup {Place}
    BY <1>10, <1>11
  <2>4. IsFiniteSet(Added(a) \cup {Place})
    BY <1>9, FS_AddElement
  <2>5. AmountOf(output, Added(a) \cup {Place}) = CurrentItem.quantity + rows[r].quantity
    <3> DEFINE S == Added(a)
    <3>1. \A p \in S \cup {Place} : Amount(output, p) \in Int
      BY <1>1, <1>10, AddedAmounts
    <3>2. IsFiniteSet(S) /\ Place \notin S
      BY <1>9, <1>10
    <3> HIDE DEF S
    <3>3. AmountOf(output, S \cup {Place}) = Amount(output, Place) + AmountOf(output, S)
      BY <3>1, <3>2, AmountOfOneMore
    <3> QED
      BY <1>10, <2>2, <3>3 DEF S
  <2>6. r \in 1 .. Len(rows') /\ rows'[r].asset = a /\ rows'[r].quantity = AmountOf(output, Added(a) \cup {Place})
    BY <1>4, <1>7, <1>8, <1>11, <2>5
  <2> QED
    BY <1>3, <2>3, <2>4, <2>6 DEF RowIsSum
<1>12. CASE a # CurrentItem.asset
  <2>1. Added(a)' = Added(a) /\ AmountOf(output, Added(a))' = AmountOf(output, Added(a))
    BY <1>3, <1>10, <1>12
  <2>2. CASE Added(a) = {}
    BY <1>8, <1>9, <2>1, <2>2 DEF RowIsSum
  <2>3. CASE Added(a) # {}
    <3>1. PICK s \in 1 .. Len(rows) : rows[s].asset = a /\ rows[s].quantity = AmountOf(output, Added(a))
      BY <1>9, <2>3 DEF RowIsSum
    <3>2. s \in 1 .. Len(rows') /\ rows'[s].asset = a /\ rows'[s].quantity = rows[s].quantity
      BY <1>4, <1>8, <1>12, <3>1
    <3> QED
      BY <1>9, <2>1, <2>3, <3>1, <3>2 DEF RowIsSum
  <2> QED
    BY <2>2, <2>3
<1> QED
  BY <1>11, <1>12

LEMMA NextSums ==
  ASSUME IInv, SumInv, ProtectedFromOverflow, Comparison = {"kept"}, [Next]_vars
  PROVE  SumInv'
<1>1. TypeOK
  BY DEF IInv
<1>2. CASE AddRow
  BY <1>2, AddRowSums
<1>3. CASE AddToRow /\ result' = "reading"
  BY <1>3, AddToRowSums
<1>4. CASE Open \/ Close
  BY <1>1, <1>4, AddedNoMore, StillSums DEF Open, Close
<1>5. CASE UNCHANGED <<output, wanted, element, item, rows>>
  <2>1. \A a \in Asset : Added(a)' = Added(a)
    BY <1>5 DEF Added, Read, Asked
  <2> QED
    BY <1>5, <2>1, StillSums
<1>6. CASE Rewrite
  <2>1. element' = 1 /\ item' = 0 /\ rows' = <<>>
    BY <1>6 DEF Rewrite
  <2>2. IInv'
    BY NextIInv
  <2>3. \A a : Added(a)' = {}
    <3> SUFFICES ASSUME NEW a, NEW p \in Added(a)' PROVE FALSE
      OBVIOUS
    <3>1. Read(p[1], p[2])'
      BY AddedWhereNext
    <3>2. p[1] \in 1 .. Len(output') /\ p[2] \in 1 .. Len(output'[p[1]].items)
          /\ (p[1] < 1 \/ p[2] < 0)
      BY <2>1, <3>1 DEF Read
    <3>3. Len(output') \in Nat /\ Len(output'[p[1]].items) \in Nat
      BY <2>2, <3>2 DEF IInv, TypeOK, IsOutput
    <3> QED
      BY <3>2, <3>3
  <2>4. IsFiniteSet({}) /\ Len(rows') = 0
    BY <2>1, FS_EmptySet
  <2>5. \A a \in Asset : IsFiniteSet(Added(a)')
    BY <2>3, <2>4
  <2>6. ~ \E k \in 1 .. Len(rows') : TRUE
    BY <2>4
  <2>7. \A a \in Asset : RowIsSum(a)'
    BY <2>3, <2>6 DEF RowIsSum
  <2> QED
    BY <2>5, <2>7 DEF SumInv
<1>7. AddToRow /\ result' # "reading" => Refuse
  BY DEF AddToRow, Merge, Adding
<1> QED
  BY <1>2, <1>3, <1>4, <1>5, <1>6, <1>7 DEF Next, RefuseNegative, Refuse, Finish, vars

(* In builds that keep the comparison, the rows say all of what was read,   *)
(* for any number of elements, items and assets: a row for every asset seen *)
(* and for no other, with the sum of its items, the kinds of all elements   *)
(* that had it and none that was not asked for (hdacscript.cpp:1590-1637).  *)
THEOREM RowsAlwaysSummarise ==
  ASSUME Comparison = {"kept"}
  PROVE  Spec => []RowsSummarise
<1>1. Init => SumInv
  <2> SUFFICES ASSUME Init PROVE SumInv
    OBVIOUS
  <2>1. TypeOK /\ element = 1 /\ item = 0 /\ Len(rows) = 0
    BY InitIInv DEF IInv, Init
  <2>2. \A a : Added(a) = {}
    <3> SUFFICES ASSUME NEW a, NEW p \in Added(a) PROVE FALSE
      OBVIOUS
    <3>1. Read(p[1], p[2])
      BY AddedWhere
    <3>2. p[1] \in 1 .. Len(output) /\ p[2] \in 1 .. Len(output[p[1]].items)
          /\ (p[1] < 1 \/ p[2] < 0)
      BY <2>1, <3>1 DEF Read
    <3>3. Len(output) \in Nat /\ Len(output[p[1]].items) \in Nat
      BY <2>1, <3>2 DEF TypeOK, IsOutput
    <3> QED
      BY <3>2, <3>3
  <2> QED
    BY <2>1, <2>2, FS_EmptySet DEF SumInv, RowIsSum
<1>2. IInv /\ SumInv => TotalsAreSums
  <2> SUFFICES ASSUME IInv, SumInv, NEW a \in Asset
               PROVE  IF Added(a) = {} THEN ~Known(a)
                      ELSE \E r \in 1 .. Len(rows) : HasRow(r, a) /\ rows[r].quantity = Total(a)
    BY DEF TotalsAreSums
  <2>1. RowIsSum(a) /\ \A r \in 1 .. Len(rows) : HasRow(r, a) <=> rows[r].asset = a
    BY HasRowIs DEF IInv, SumInv
  <2>2. Total(a) = AmountOf(output, Added(a))
    BY DEF Total, AmountOf
  <2> QED
    BY <2>1, <2>2 DEF RowIsSum, Known
<1>3. Spec => []ProtectedFromOverflow
  BY OverflowIsRefused
<1>4. Spec => []KindsAreKept
  BY KindsKept
<1>5. TotalsAreSums /\ KindsAreKept => RowsSummarise
  BY DEF RowsSummarise
<1> QED
  BY <1>1, <1>2, <1>3, <1>4, <1>5, AlwaysIInv, NextSums, PTL DEF Spec
=============================================================================
