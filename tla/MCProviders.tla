---------------------------- MODULE MCProviders -----------------------------
(***************************************************************************)
(* Instances of Providers: besides ProvDef a plugin that answers and is    *)
(* named before it, a plugin of the same name that does not answer, and a  *)
(* provider of the client that answers and is named behind it.  Chromos    *)
(* and documents are interchangeable.                                      *)
(***************************************************************************)
EXTENDS Providers, TLC

CONSTANTS early, quiet, late

Names == early :> 1 @@ quiet :> 1 @@ Def :> 2 @@ late :> 3

Interchangeable == Permutations(Obj) \cup Permutations(Doc)

=============================================================================
