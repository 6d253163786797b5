---------------------------- MODULE MCLockedPages ----------------------------
(***************************************************************************)
(* Five ranges over pages of four bytes: two objects that share page 0,    *)
(* one of them reaching into page 1, one that fills the rest of page 1 and *)
(* page 2, one that ends on the last byte of page 3, and an empty one.     *)
(***************************************************************************)
EXTENDS LockedPages

MCObject ==
  {[base |-> 0, size |-> 2], [base |-> 2, size |-> 4], [base |-> 6, size |-> 6],
   [base |-> 12, size |-> 4], [base |-> 14, size |-> 0]}

MCPage == 0 .. 4

=============================================================================
