------------------------------- MODULE MCCrud -------------------------------
(***************************************************************************)
(* CrudService for TLC: requests are interchangeable.                      *)
(***************************************************************************)
EXTENDS CrudService, TLC

\* Two rows in either order, and a list that names a row twice.
BothOrders == {<<1, 2>>, <<2, 1>>, <<1, 1>>}

\* A generic update that changes a column and one that may not, and of a state
\* field one by a verb and one outside of it.
OneOfEach ==
    {<<"title", 1, FALSE>>, <<"title", 0, FALSE>>, <<"status", 1, TRUE>>, <<"status", 1, FALSE>>}

Symmetry == Permutations(Requests)
=============================================================================
