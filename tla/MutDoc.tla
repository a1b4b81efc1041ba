------------------------------- MODULE MutDoc -------------------------------
(***************************************************************************)
(* What a chromo promises as a document of mutations, whatever else the    *)
(* file it was read from holds: every mutation has an ordered list of      *)
(* mutations under it, and a call changes one list, or two when it moves a *)
(* mutation, in one place, and leaves the order of everything else alone,  *)
(* or it empties one list.                                                 *)
(***************************************************************************)
EXTENDS SequencesExt

VARIABLE doc   \* doc[n]: the mutations under n, for every mutation n in the
               \* document

\* What stays in the document has the list it had, but for the nodes in S.
OthersKept(before, after, S) ==
  \A n \in (DOMAIN before \cap DOMAIN after) \ S : after[n] = before[n]

\* A mutation comes in under p, with what is under it.
Graft(before, after, p) ==
  /\ DOMAIN before \subseteq DOMAIN after
  /\ OthersKept(before, after, {p})
  /\ \E i \in 1 .. Len(before[p]) + 1, n \in DOMAIN after \ DOMAIN before :
       after[p] = InsertAt(before[p], i, n)

\* A mutation leaves p, with what is under it.
Prune(before, after, p) ==
  /\ DOMAIN after \subseteq DOMAIN before
  /\ p \in DOMAIN after
  /\ OthersKept(before, after, {p})
  /\ \E i \in 1 .. Len(before[p]) :
       before[p][i] \notin DOMAIN after /\ after[p] = RemoveAt(before[p], i)

\* A mutation moves from p to q, or to another place under p.
Move(before, after, p, q) ==
  /\ DOMAIN after = DOMAIN before
  /\ OthersKept(before, after, {p, q})
  /\ \E i \in 1 .. Len(before[p]) :
       LET left == [before EXCEPT ![p] = RemoveAt(@, i)]
       IN  \E j \in 1 .. Len(left[q]) + 1 :
             after = [left EXCEPT ![q] = InsertAt(@, j, before[p][i])]

\* All that is under p leaves it.
Clear(before, after, p) ==
  /\ DOMAIN after \subseteq DOMAIN before
  /\ p \in DOMAIN after
  /\ OthersKept(before, after, {p})
  /\ \A i \in 1 .. Len(before[p]) : before[p][i] \notin DOMAIN after
  /\ after[p] = << >>

Changes(before, after) ==
  \E p \in DOMAIN before :
    \/ Clear(before, after, p)
    \/ Graft(before, after, p)
    \/ Prune(before, after, p)
    \/ \E q \in DOMAIN before : Move(before, after, p, q)

\* The two documents are bound to names so that each is made once a step.
Next == \E before \in {doc}, after \in {doc'} : Changes(before, after)

Spec == [][Next]_doc

=============================================================================
