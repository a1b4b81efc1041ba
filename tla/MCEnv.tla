------------------------------- MODULE MCEnv -------------------------------
(***************************************************************************)
(* Files for Env: chromos of one, two and three mutations, one of which    *)
(* aborts, a file that cannot be read and one that holds no node.          *)
(***************************************************************************)
EXTENDS Env, TLC

CONSTANTS r, a, c, one, two, three, aborts, missing, other

add  == [type |-> "ENt_Node", id |-> "x", parent |-> "anchored"]
root == [type |-> "ENt_Node", id |-> NoName, parent |-> "empty"]
rm   == [type |-> "ENt_Rm",   id |-> "x", parent |-> "anchored"]
cont == [type |-> "ENt_Cont", id |-> "x", parent |-> "upper"]
bad  == [type |-> "ENt_Node", id |-> "y", parent |-> "failing"]

Chromos == {<<add>>, <<add, rm>>, <<root, cont, rm>>, <<rm, bad>>}

\* desa steps St_Bmut of r and a again when its value changed, not that of c.
Steps == r :> TRUE @@ a :> TRUE @@ c :> FALSE

Files == one :> <<add>> @@ two :> <<add, rm>> @@ three :> <<root, cont, rm>>
         @@ aborts :> <<rm, bad>> @@ missing :> Unreadable @@ other :> NoRootNode

=============================================================================
