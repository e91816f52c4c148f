------------------------------ MODULE MCTypes ------------------------------
(* Small instances of Types: char and float are the basic types.       *)
EXTENDS Types

MCBasic == {-2, -3}
=============================================================================
