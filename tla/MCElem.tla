------------------------------- MODULE MCElem -------------------------------
(***************************************************************************)
(* Small instances of Elem for TLC: mutations of each kind the states tell *)
(* apart, and the batches made of them.                                    *)
(***************************************************************************)
EXTENDS Elem, TLC

CONSTANTS r, a

\* desa steps St_Bmut of r again when its value changed, that of a it does not.
Steps == r :> TRUE @@ a :> FALSE

\* Mutations: a node to add, one whose parent does not parse, one to remove,
\* one to rename.
add == [type |-> "ENt_Node",   id |-> "x", parent |-> "anchored"]
bad == [type |-> "ENt_Node",   id |-> "y", parent |-> "failing"]
rm  == [type |-> "ENt_Rm",     id |-> "x", parent |-> "anchored"]
ren == [type |-> "ENt_Rename", id |-> "x", parent |-> "anchored"]

\* An empty batch, a batch of one mutation, one that fills MaxBatch, and one
\* with a mutation that aborts.
SomeBatches == {<< >>, <<add>>, <<ren, rm>>, <<bad>>}

=============================================================================
