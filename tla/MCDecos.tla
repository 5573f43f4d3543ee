------------------------------ MODULE MCDecos ------------------------------
(***************************************************************************)
(* Constants of Decos for TLC: function 1 is async, and its local 2 is     *)
(* what it is resumed with; function 2 has two locals to select.           *)
(***************************************************************************)
EXTENDS Decos

MCResume == {[fn_id |-> 1, id |-> 2]}
=============================================================================
