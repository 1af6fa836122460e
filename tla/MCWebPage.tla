------------------------------ MODULE MCWebPage ------------------------------
(***************************************************************************)
(* A reader of two cases with an event each, of one case with three        *)
(* events, of a case over a file of his own, and one who uploads three     *)
(* files into two slots and two datasets.                                  *)
(***************************************************************************)
EXTENDS WebPage

MCSessions == {
  [cases |-> 2, events |-> 1, uploads |-> 0], [cases |-> 1, events |-> 3, uploads |-> 0],
  [cases |-> 1, events |-> 0, uploads |-> 1], [cases |-> 0, events |-> 0, uploads |-> 3] }
=============================================================================
