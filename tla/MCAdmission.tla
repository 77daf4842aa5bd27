---------------------------- MODULE MCAdmission ----------------------------
(***************************************************************************)
(* Instances of Admission for TLC: two peers, that is one transport.       *)
(* Nonempty passwords are interchangeable.                                 *)
(***************************************************************************)
EXTENDS Admission, TLC

CONSTANTS none, x, y

NoPasswords == {none}
SamePassword == {x}
OnePassword == {none, x}
TwoPasswords == {none, x, y}

Symmetry == Permutations({x, y})
=============================================================================
