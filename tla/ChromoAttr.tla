----------------------------- MODULE ChromoAttr -----------------------------
(***************************************************************************)
(* The mutations in the tree of a chromo (src/src/chromo.cpp, chromox.cpp, *)
(* chromo.h): the attributes of its nodes, how agents append a mutation    *)
(* and read it back by its index, how mutations are switched off and on,   *)
(* and the lookups by name and path.  Copies have the attributes of what   *)
(* they are copies of.                                                     *)
(***************************************************************************)
EXTENDS ChromoTree

CONSTANTS
  Part,       \* texts without a slash, "" among them
  Value,      \* values of attributes, the empty text among them
  Mut,        \* the mutations that are appended: type and attributes
  FirstAttrs, \* FirstAttrs[n]: attributes of the node n of the document read
  Settable,   \* bound: the nodes whose attributes are set and removed
  Names       \* bound: the names that are set

Attr == {"ENa_Id", "ENa_Inactive"}

\* A text is the sequence of its parts between the slashes, one more than there
\* are slashes.  So two texts with a slash between them are u \o v.
NoText == <<"">>

NoSlash(text) == Len(text) = 1

\* Attributes: a function from some of them to their values.
AttrMap == UNION {[own -> Value] : own \in SUBSET Attr}

NoAttrs == [a \in {} |-> NoText]

ASSUME AttrAssumption ==
  /\ "" \in Part
  /\ NoText \in Value
  /\ \A v \in Value : v \in Seq(Part) /\ v # << >>
  /\ Mut \subseteq [type : Type \cup {"ENt_Unknown"}, attrs : AttrMap]
  /\ FirstAttrs \in [Node -> AttrMap]
  /\ Settable \subseteq Node
  /\ Names \subseteq Value

VARIABLE
  attrs   \* attrs[n]: the attributes of the node n

attrVars == <<vars, attrs>>

AttrInit == Init /\ attrs = FirstAttrs

-----------------------------------------------------------------------------
\* Attributes.

AttrExists(n, a) == a \in DOMAIN attrs[n]

\* ChromoNode::Attr and Name: what is not there is empty.
AttrOf(n, a) == IF AttrExists(n, a) THEN attrs[n][a] ELSE NoText

Name(n) == AttrOf(n, "ENa_Id")

\* TMut(const ChromoNode&).
ToMut(n) == [type |-> kind[n], attrs |-> attrs[n]]

Without(a, n) == [b \in DOMAIN attrs[n] \ {a} |-> attrs[n][b]]

\* What is freed has no attributes any more.
FreedLose == attrs' = [n \in Node |-> IF kind'[n] = "freed" THEN NoAttrs ELSE attrs[n]]

-----------------------------------------------------------------------------
\* Lookups: every loop goes from the first mutation to the next one.

First(p) == GetFirstChild(p, "ENt_Unknown")
NextMut(n) == NextSibling(n, "ENt_Unknown")

\* on[k]: where the loop is after k mutations, from n on.
Walk(n) == LET on[k \in Nat] == IF k = 0 THEN n
                               ELSE IF on[k - 1] = NoNode THEN NoNode ELSE NextMut(on[k - 1])
           IN  on

\* Slip: the first mutation is not counted.
At_FromOne(p, i) == Walk(First(p))[i + 1]

\* ChromoNode::At.
At(p, i) == Walk(First(p))[i]

\* The loop of ChromoNode::Find, which in the const Find is all there is: it
\* stops at its end or at the first mutation that has the type and the name.
FindName(p, t, name) ==
  LET Stops(n) == n = NoNode \/ (kind[n] = t /\ Name(n) = name)
  IN  At(p, Min({i \in 0 .. Len(kids[p]) : Stops(At(p, i))}))

\* Slip: the path is searched everywhere from the start.
Find_Top(p, t, text) ==
  LET into[i \in Nat] ==
        IF i = 0 THEN p
        ELSE IF into[i - 1] = NoNode THEN NoNode ELSE FindName(p, t, <<text[i]>>)
  IN  into[Len(text)]

\* ChromoNode::Find takes its text apart at the slashes, a part at a time: the
\* first mutation that has the part as its name is gone into for the rest.
Find(p, t, text) ==
  LET into[i \in Nat] ==
        IF i = 0 THEN p
        ELSE IF into[i - 1] = NoNode THEN NoNode ELSE FindName(into[i - 1], t, <<text[i]>>)
  IN  into[Len(text)]

\* ChromoNode::Root: the node that n is under and that has no parent.
RootOf(n) == CHOOSE r \in Node \ {Document} : n \in Below(r) /\ Parent(r) = NoNode

-----------------------------------------------------------------------------
\* Operations.

\* Slip: the mutation is put before the others.
AddMut_First(p, mut, n) ==
  /\ ~undefined
  /\ p \in Handles /\ kind[n] = "unused"
  /\ kind' = [kind EXCEPT ![n] = IF mut.type \in Type THEN mut.type ELSE "text"]
  /\ kids' = [kids EXCEPT ![p] = <<n>> \o @]
  /\ Disturb({})
  /\ attrs' = [attrs EXCEPT ![n] = mut.attrs]

\* AddChild of a TMut.  A TMut without a type makes an element whose name is
\* empty, which is no mutation.
AddMut(p, mut, n) ==
  /\ AddChildNew(p, IF mut.type \in Type THEN mut.type ELSE "text", n)
  /\ attrs' = [attrs EXCEPT ![n] = mut.attrs]

\* AddChild, AddNext and AddPrev of a copy.
AddCopyOf(d, n, how, f) ==
  /\ AddCopy(d, n, how, f)
  /\ attrs' = [m \in Node |->
                 IF \E a \in DOMAIN f : f[a] = m
                   THEN attrs[CHOOSE a \in DOMAIN f : f[a] = m] ELSE attrs[m]]

\* The other changes of the tree.
Rearrange ==
  /\ \/ \E n, d \in Node : \/ \E t \in Type : AddNextNew(d, t, n)
                           \/ AddDetached(d, n)
                           \/ \E after \in {0, 1} : MoveTo(n, d, after)
     \/ ChangeOne
  /\ FreedLose

\* A call that changes attributes alone.
Setting(n) ==
  /\ ~undefined /\ n \in Handles
  /\ UNCHANGED vars

\* SetAttr and RmAttr.
SetAttr(n, a, v) ==
  /\ Setting(n)
  /\ attrs' = [attrs EXCEPT ![n] = [b \in DOMAIN @ \cup {a} |-> IF b = a THEN v ELSE @[b]]]

RmAttr(n, a) ==
  /\ Setting(n)
  /\ AttrExists(n, a)
  /\ attrs' = [attrs EXCEPT ![n] = Without(a, n)]

Deactivate(n) == SetAttr(n, "ENa_Inactive", NoText)

\* The mutations Activate comes to from n: it goes on under an ENt_Node.
Visited(n) ==
  LET through == [m \in Node |-> IF kind[m] = "ENt_Node" THEN kids[m] ELSE << >>]
  IN  Reach(through, n) \cap Handles

\* Slip: only what is right under the node is activated with it.
Activate_Children(n) ==
  /\ Setting(n)
  /\ attrs' = [m \in Node |->
                 IF m = n \/ (kind[n] = "ENt_Node" /\ m \in Children(n) \cap Handles)
                   THEN Without("ENa_Inactive", m) ELSE attrs[m]]

Activate(n) ==
  /\ Setting(n)
  /\ LET visited == Visited(n)
     IN  attrs' = [m \in Node |-> IF m \in visited THEN Without("ENa_Inactive", m)
                                                   ELSE attrs[m]]

SetAttrs ==
  \/ \E n \in Settable : \/ \E v \in Names : SetAttr(n, "ENa_Id", v)
                          \/ \E a \in Attr : RmAttr(n, a)
                          \/ Deactivate(n)
  \/ \E n \in Node : Activate(n)

AttrNext ==
  \/ \E p, n \in Node, mut \in Mut : AddMut(p, mut, n)
  \/ \E n \in Node, r \in BOOLEAN : \E f \in Copies(n, r) :
       \E d \in Node, how \in {"under", "after", "before"} : AddCopyOf(d, n, how, f)
  \/ Rearrange
  \/ SetAttrs

AttrSpec == AttrInit /\ [][AttrNext]_attrVars

-----------------------------------------------------------------------------
\* Properties.

\* The list of mutations MutDoc has for p, and the mutations in it as they are
\* read by index.
Listed(p) == Only(kids[p], Handles)
Muts(p) == [i \in DOMAIN Listed(p) |-> ToMut(At(p, i - 1))]

\* At counts the mutations of the document and nothing else, up to the end of
\* the list: what StateBmut walks is the list, whatever lies between.
AtIsIndex ==
  \A p \in Handles :
    /\ \A i \in DOMAIN Listed(p) : At(p, i - 1) = Listed(p)[i]
    /\ At(p, Len(Listed(p))) = NoNode

\* A TMut with a type that an agent appends is read back as it was by the index
\* behind the last one, and the mutations before it as they were; one without a
\* type gets lost.
MutsAppended ==
  [][\A p, n \in Node, mut \in Mut :
       AddMut(p, mut, n) =>
         Muts(p)' = IF mut.type \in Type THEN Append(Muts(p), mut) ELSE Muts(p)]_attrVars

\* The siblings before n with its type and its name.
Twins(n) == {m \in Handles : /\ m \in ToSet(Siblings(n)) /\ Place(m) < Place(n)
                             /\ kind[m] = kind[n] /\ Name(m) = Name(n)}

\* Find can lead to n from its parent by its name: nothing before n has it, and
\* it is not taken for a path.
IsFound(n) == Twins(n) = {} /\ NoSlash(Name(n))

\* Going up from a mutation (Parent) and down again by its name, or by that of
\* its parent, a slash and its own, ends where it began exactly if no twin comes
\* before one on the way and no name holds a slash itself; the const Find minds
\* the twins only.
PathLeadsBack ==
  \A n \in Handles : LET p == Parent(n) IN p # NoNode =>
    /\ FindName(p, kind[n], Name(n)) = n <=> Twins(n) = {}
    /\ Find(p, kind[n], Name(n)) = n <=> IsFound(n)
    /\ LET q == Parent(p) IN
         q # NoNode /\ kind[p] = kind[n] =>
           (Find(q, kind[n], Name(p) \o Name(n)) = n <=> IsFound(n) /\ IsFound(p))
    /\ RootOf(n) = RootOf(p)

\* After Activate nothing is inactive under the node but what is under a
\* mutation that is not an ENt_Node.
ActivateReaches ==
  [][\A n \in Node : Activate(n) =>
       \A m \in Below(n) \cap Handles :
         AttrExists(m, "ENa_Inactive")' =>
           \E a \in Below(n) : a # m /\ m \in Below(a) /\ kind[a] # "ENt_Node"]_attrVars

=============================================================================
