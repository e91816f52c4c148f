------------------------------ MODULE MCScopes ------------------------------
(* Small instances of Scopes: spellings 1 (main), 2 (a builtin), 3 and up.   *)
EXTENDS Scopes

MCReprs == 1..3

\* After an error, tables one record shorter are explored: most properties are
\* decided when it is reported.
ShortAfterError == errors => Len(identifiers) < MaxIds
=============================================================================
