---------------------------- MODULE MCOperations ----------------------------
(***************************************************************************)
(* The operator's side of the server and the file cache, for model         *)
(* checking: two overlapping calls of the tools' endpoints, a user who     *)
(* edits the same files, and one setting of his own.                       *)
(***************************************************************************)
EXTENDS Operations, TLC

MCEnvTokens == <<"env">>
MCEnvKeys == <<>>

\* The calls differ in nothing but their names.
AnyCall == Permutations(Calls)
============================================================================
