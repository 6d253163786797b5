------------------------------ MODULE Elements ------------------------------
(***************************************************************************)
(* What mc_Script promises its clients: a list of byte strings that grows  *)
(* at its end, and a reader that gets back what was appended.              *)
(***************************************************************************)
EXTENDS Integers, Sequences

CONSTANTS
  Byte,   (* the bytes clients append                                       *)
  Piece   (* the byte strings they append in one call                       *)

VARIABLES
  elements,  (* the elements, each the concatenation of its pieces          *)
  cursor,    (* the element read last or being written, 0-based; -1: none   *)
  got        (* what the last GetData returned                              *)

vars == <<elements, cursor, got>>

(* The reader has not asked, or asked for an element that does not exist.   *)
Nothing == <<>>
Something(bytes) == <<bytes>>

Init == elements = <<>> /\ cursor = -1 /\ got = Nothing

Clear == elements' = <<>> /\ cursor' = -1 /\ UNCHANGED got

(* Only a client whose cursor is on the last element (or that has none)     *)
(* grows the list.                                                          *)
AtEnd == cursor = Len(elements) - 1

AddElement ==
  /\ AtEnd
  /\ elements' = Append(elements, <<>>)
  /\ cursor' = Len(elements)
  /\ UNCHANGED got

SetData(src) ==
  /\ AtEnd
  /\ elements # <<>>
  /\ elements' = [elements EXCEPT ![Len(elements)] = @ \o src]
  /\ UNCHANGED <<cursor, got>>

SetElement(e) ==
  /\ e < Len(elements)
  /\ cursor' = e
  /\ UNCHANGED <<elements, got>>

GetData(e) ==
  \/ /\ e < Len(elements)
     /\ cursor' = e
     /\ got' = Something(elements[e + 1])
     /\ UNCHANGED elements
  \/ /\ e >= Len(elements)
     /\ got' = Nothing
     /\ UNCHANGED <<elements, cursor>>

Next ==
  \/ Clear
  \/ AddElement
  \/ \E src \in Piece : SetData(src)
  \/ \E e \in 0 .. Len(elements) : SetElement(e) \/ GetData(e)

Spec == Init /\ [][Next]_vars

=============================================================================
