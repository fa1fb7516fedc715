----------------------------- MODULE MCWriteTx -----------------------------
(***************************************************************************)
(* Bounds for model-checking WriteTx.                                      *)
(***************************************************************************)
EXTENDS WriteTx

\* The search stops where a unit was dropped alone inside finish or its
\* rollback was overtaken: what may follow is open-ended, and the properties
\* of write_tx except those behaviours.
BeforeStray == ~stray
=============================================================================
