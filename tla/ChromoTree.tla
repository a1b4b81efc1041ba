----------------------------- MODULE ChromoTree -----------------------------
(***************************************************************************)
(* The nodes of a chromo (src/src/chromox.cpp, chromo.cpp, chromo.h): a    *)
(* tree of XML nodes of which only the elements with the name of a type of *)
(* mutation count.  Text, comments, the DTD and elements of other names    *)
(* are siblings like any other to libxml2, and are stepped over by the     *)
(* navigation of ChromoMdlX.                                               *)
(*                                                                         *)
(* A client changes the tree while it holds an iterator.  The functions of *)
(* libxml2 are external and modelled from their use.  As the code does not *)
(* check it, the client never moves or adds a node next to or under itself *)
(* or one of its own descendants, and adds without copying only nodes it   *)
(* has detached.                                                           *)
(***************************************************************************)
EXTENDS Integers, FiniteSets, SequencesExt

CONSTANTS
  Node,      \* XML nodes
  Root,      \* the root element
  Document,  \* the parent of the root element
  NoNode,    \* NULL
  Type,      \* the types of mutations, one of them "ENt_Node"
  FirstKind, \* FirstKind[n]: kind of the node n of the document that was read
  FirstKids  \* FirstKids[n]: its children

\* What a node is: the document, an element with the name of a type, anything
\* else; not made yet; freed.
Kind == Type \cup {"document", "text", "unused", "freed"}

\* A node and everything under it, by the lists of children ks: the least set
\* that has n and with a node its children.
Reach(ks, n) ==
  LET closed == {S \in SUBSET Node : n \in S /\ \A m \in S : ToSet(ks[m]) \subseteq S}
  IN  {m \in Node : \A S \in closed : m \in S}

\* Each node is in one place at most, nothing that is not made or freed is in a
\* tree, and no node is under itself.
Forest(kd, ks) ==
  /\ \A p \in Node : \A i, j \in 1 .. Len(ks[p]) : ks[p][i] = ks[p][j] => i = j
  /\ \A p, q \in Node : p # q => ToSet(ks[p]) \cap ToSet(ks[q]) = {}
  /\ \A p \in Node : \A n \in ToSet(ks[p]) :
       kd[n] \notin {"unused", "freed"} /\ kd[p] \notin {"unused", "freed"}
  /\ \A p \in Node : \A n \in ToSet(ks[p]) : p \notin Reach(ks, n)

\* What libxml2 has read is a tree: the document and under it the root.
ASSUME TreeAssumption ==
  /\ Root \in Node /\ Document \in Node \ {Root} /\ NoNode \notin Node
  /\ "ENt_Node" \in Type
  /\ {"document", "text", "unused", "freed", "ENt_Unknown"} \cap Type = {}
  /\ FirstKind \in [Node -> Kind]
  /\ FirstKids \in [Node -> Seq(Node)]
  /\ Forest(FirstKind, FirstKids)
  /\ FirstKind[Document] = "document" /\ Root \in ToSet(FirstKids[Document])
  /\ \A p \in Node : Document \notin ToSet(FirstKids[p])

VARIABLES
  kind, kids,   \* the nodes and their children
  it,           \* an iterator: the node it is at, over the children of which
                \* node, forward or not, and for which type
  seen,         \* the ones among stays that it has been at
  stays,        \* children that were there when it began and have not moved
  disturbed,    \* the node it was at has been moved, detached or freed
  undefined     \* a NULL or freed node was read

iteration == <<it, seen, stays, disturbed>>

vars == <<kind, kids, iteration, undefined>>

AtEnd == [at |-> NoNode, over |-> Root, fwd |-> TRUE, want |-> "ENt_Unknown"]

Init ==
  /\ kind = FirstKind
  /\ kids = FirstKids
  /\ it = AtEnd
  /\ seen = {}
  /\ stays = {}
  /\ disturbed = FALSE
  /\ undefined = FALSE

-----------------------------------------------------------------------------
\* Navigation.

Children(n) == ToSet(kids[n])

\* The position of n among its siblings, and their list.
Siblings(n) == LET p == CHOOSE m \in Node : n \in Children(m) IN kids[p]

Place(n) == CHOOSE i \in 1 .. Len(Siblings(n)) : Siblings(n)[i] = n

Attached(n) == \E m \in Node : n \in Children(m)

\* A node and everything under it.
Below(n) == Reach(kids, n)

\* Slip: what is not a mutation is stepped over only if a type is asked for.
Matches_AnyNode(n, t) == IF t = "ENt_Unknown" THEN TRUE ELSE kind[n] = t

\* Is n what a navigation for type t stops at?
Matches(n, t) == IF t = "ENt_Unknown" THEN kind[n] \in Type ELSE kind[n] = t

\* The first matching node of a list, the last one.
FirstOf(s, t) ==
  LET i == SelectInSeq(s, LAMBDA n : Matches(n, t)) IN IF i = 0 THEN NoNode ELSE s[i]

LastOf(s, t) ==
  LET i == SelectLastInSeq(s, LAMBDA n : Matches(n, t)) IN IF i = 0 THEN NoNode ELSE s[i]

\* ChromoMdlX::GetFirstChild and Next.  A node that has been detached has no
\* siblings.
GetFirstChild(p, t) == FirstOf(kids[p], t)

\* Slip: the next sibling is skipped.
NextSibling_Skips(n, t) ==
  IF Attached(n) THEN FirstOf(SubSeq(Siblings(n), Place(n) + 2, Len(Siblings(n))), t)
                 ELSE NoNode

NextSibling(n, t) ==
  IF Attached(n) THEN FirstOf(SubSeq(Siblings(n), Place(n) + 1, Len(Siblings(n))), t)
                 ELSE NoNode

\* ChromoMdlX::Prev and GetLastChild.  The loop of Prev asks for the type of
\* the node it has come to without looking if there is one: when it runs past
\* the first sibling it reads NULL.
PrevSibling(n, t) ==
  IF Attached(n) THEN LastOf(SubSeq(Siblings(n), 1, Place(n) - 1), t) ELSE NoNode

PrevReadsNull(n, t) == Attached(n) /\ Place(n) > 1 /\ PrevSibling(n, t) = NoNode

GetLastChild(p, t) == LastOf(kids[p], t)

LastReadsNull(p, t) == Len(kids[p]) > 1 /\ GetLastChild(p, t) = NoNode

\* ChromoMdlX::Parent: the document is none.
Parent(n) ==
  IF Attached(n)
    THEN LET p == CHOOSE m \in Node : n \in Children(m)
         IN  IF p = Document THEN NoNode ELSE p
    ELSE NoNode

\* The nodes a handle can be got to: mutations that have not been freed.
Handles == {n \in Node : kind[n] \in Type}

-----------------------------------------------------------------------------
\* The iterators of ChromoNode.

\* Begin(), or Find(t) to go on with FindNextSibling(t).
Begin(p, t) ==
  /\ ~undefined
  /\ p \in Handles
  /\ it' = [at |-> GetFirstChild(p, t), over |-> p, fwd |-> TRUE, want |-> t]
  /\ seen' = {}
  /\ stays' = {n \in Children(p) : Matches(n, t)}
  /\ disturbed' = FALSE
  /\ UNCHANGED <<kind, kids, undefined>>

\* Rbegin().
Rbegin(p) ==
  /\ ~undefined
  /\ p \in Handles
  /\ it' = [at |-> GetLastChild(p, "ENt_Unknown"), over |-> p, fwd |-> FALSE,
            want |-> "ENt_Unknown"]
  /\ seen' = {}
  /\ stays' = {n \in Children(p) : Matches(n, "ENt_Unknown")}
  /\ disturbed' = FALSE
  /\ undefined' = LastReadsNull(p, "ENt_Unknown")
  /\ UNCHANGED <<kind, kids>>

\* ++ of an iterator that is not at its end.
Advance ==
  /\ ~undefined
  /\ it.at # NoNode
  /\ seen' = seen \cup ({it.at} \cap stays)
  /\ IF kind[it.at] = "freed"
       THEN undefined' = TRUE /\ UNCHANGED it
       ELSE IF it.fwd
         THEN it' = [it EXCEPT !.at = NextSibling(@, it.want)] /\ UNCHANGED undefined
         ELSE /\ it' = [it EXCEPT !.at = PrevSibling(@, it.want)]
              /\ undefined' = PrevReadsNull(it.at, it.want)
  /\ UNCHANGED <<kind, kids, stays, disturbed>>

\* What the iterator is told of the nodes in S being moved or freed: nothing.
\* When it is at one of them there is nothing left that it has to pass.
Disturb(S) ==
  /\ disturbed' = (disturbed \/ it.at \in S)
  /\ stays' = IF disturbed' THEN {} ELSE stays \ S
  /\ seen' = seen \cap stays'
  /\ UNCHANGED <<it, undefined>>

-----------------------------------------------------------------------------
\* libxml2 on lists of children.

Unlink(k, n) == [m \in Node |-> RemoveFirst(k[m], n)]

Beside(k, dest, n, after) ==
  [m \in Node |->
     IF dest \in ToSet(k[m])
       THEN InsertAt(k[m], SelectInSeq(k[m], LAMBDA x : x = dest) + after, n)
       ELSE k[m]]

Under(k, p, n) == [k EXCEPT ![p] = Append(@, n)]

\* The ways to copy n with all that is under it, or alone: to new nodes.
Copies(n, recursively) ==
  LET S == IF recursively THEN Below(n) ELSE {n}
  IN  {f \in [S -> {m \in Node : kind[m] = "unused"}] :
         \A a, b \in S : f[a] = f[b] => a = b}

\* A copy of n by f: the nodes get the kinds and children of those they
\* are copies of.
Copied(f) ==
  LET From(m) == CHOOSE a \in DOMAIN f : f[a] = m
      new     == {f[a] : a \in DOMAIN f}
  IN  [kind |-> [m \in Node |-> IF m \in new THEN kind[From(m)] ELSE kind[m]],
       kids |-> [m \in Node |->
                   IF m \notin new THEN kids[m]
                   ELSE IF Children(From(m)) \subseteq DOMAIN f
                     THEN [i \in DOMAIN kids[From(m)] |-> f[kids[From(m)][i]]]
                     ELSE << >>]]

-----------------------------------------------------------------------------
\* The calls of ChromoNode that change the tree.

\* AddChild of a type, or of a TMut, whose attributes are set then; AddNext of
\* a type.
AddChildNew(p, t, n) ==
  /\ ~undefined
  /\ p \in Handles
  /\ kind[n] = "unused"
  /\ kind' = [kind EXCEPT ![n] = t]
  /\ kids' = Under(kids, p, n)
  /\ Disturb({})

AddNextNew(d, t, n) ==
  /\ ~undefined
  /\ d \in Handles \ {Root} /\ Attached(d)
  /\ kind[n] = "unused"
  /\ kind' = [kind EXCEPT ![n] = t]
  /\ kids' = Beside(kids, d, n, 1)
  /\ Disturb({})

\* AddChild, AddNext and AddPrev of a node that is copied by f, AddNext and
\* AddPrev always with what is under it.
AddCopy(d, n, how, f) ==
  /\ ~undefined
  /\ d \in Handles /\ n \in Handles
  /\ how = "under" \/ (d # Root /\ Attached(d) /\ DOMAIN f = Below(n))
  /\ LET c == Copied(f)
     IN  /\ kind' = c.kind
         /\ kids' = CASE how = "under" -> Under(c.kids, d, f[n])
                      [] how = "after"  -> Beside(c.kids, d, f[n], 1)
                      [] how = "before" -> Beside(c.kids, d, f[n], 0)
  /\ Disturb({})

\* AddChild of a node that is not copied but has been detached.
AddDetached(p, n) ==
  /\ ~undefined
  /\ p \in Handles /\ n \in Handles
  /\ ~Attached(n) /\ p \notin Below(n)
  /\ kids' = Under(kids, p, n)
  /\ UNCHANGED kind
  /\ Disturb({n})

\* Slip: the node is not taken out first.
MoveTo_NoUnlink(n, d, after) ==
  /\ ~undefined
  /\ n \in Handles \ {Root} /\ d \in Handles \ {Root}
  /\ Attached(d) /\ d \notin Below(n)
  /\ kids' = Beside(kids, d, n, after)
  /\ UNCHANGED kind
  /\ Disturb({n})

\* MoveNextTo and MovePrevTo, and AddNext and AddPrev without copying: the node
\* is taken from where it is, if it is attached.
MoveTo(n, d, after) ==
  /\ ~undefined
  /\ n \in Handles \ {Root} /\ d \in Handles \ {Root}
  /\ Attached(d) /\ d \notin Below(n)
  /\ kids' = Beside(Unlink(kids, n), d, n, after)
  /\ UNCHANGED kind
  /\ Disturb({n})

\* MoveToEnd: behind the last sibling, if it has any sibling behind it.
MoveToEnd(n) ==
  /\ ~undefined
  /\ n \in Handles \ {Root} /\ Attached(n)
  /\ Place(n) < Len(Siblings(n))
  /\ kids' = [m \in Node |-> IF n \in Children(m) THEN Append(RemoveFirst(kids[m], n), n)
                                                  ELSE kids[m]]
  /\ UNCHANGED kind
  /\ Disturb({n})

\* RmChild with aDeattachOnly.
Detach(n) ==
  /\ ~undefined
  /\ n \in Handles \ {Root} /\ Attached(n)
  /\ kids' = Unlink(kids, n)
  /\ UNCHANGED kind
  /\ Disturb({n})

\* Slip: the siblings behind it are freed with it.
Rm_List(n) ==
  /\ ~undefined
  /\ n \in Handles \ {Root} /\ Attached(n)
  /\ LET behind == SubSeq(Siblings(n), Place(n), Len(Siblings(n)))
         gone   == UNION {Below(m) : m \in ToSet(behind)}
     IN  /\ kind' = [m \in Node |-> IF m \in gone THEN "freed" ELSE kind[m]]
         /\ kids' = [m \in Node |-> IF m \in gone THEN << >>
                                     ELSE SelectSeq(kids[m], LAMBDA x : x \notin gone)]
         /\ Disturb(gone)

\* RmChild and Rm: freed with all that is under it.
Rm(n) ==
  /\ ~undefined
  /\ n \in Handles \ {Root}
  /\ LET gone == Below(n)
     IN  /\ kind' = [m \in Node |-> IF m \in gone THEN "freed" ELSE kind[m]]
         /\ kids' = [m \in Node |-> IF m \in gone THEN << >> ELSE RemoveFirst(kids[m], n)]
         /\ Disturb(gone)

\* SetContent: all that is under the node is freed, and a text put there unless
\* it is empty.
SetContent(p, text) ==
  /\ ~undefined
  /\ p \in Handles
  /\ text \in {n \in Node : kind[n] = "unused"} \cup {NoNode}
  /\ LET gone == Below(p) \ {p}
     IN  /\ kind' = [m \in Node |-> IF m \in gone THEN "freed"
                                    ELSE IF m = text THEN "text" ELSE kind[m]]
         /\ kids' = [m \in Node |-> IF m \in gone THEN << >>
                                    ELSE IF m # p THEN kids[m]
                                    ELSE IF text = NoNode THEN << >> ELSE <<text>>]
         /\ Disturb(gone)

Change ==
  \E n \in Node :
    \/ \E d \in Node, t \in Type : AddChildNew(d, t, n) \/ AddNextNew(d, t, n)
    \/ \E r \in BOOLEAN : \E f \in Copies(n, r) :
         \E d \in Node, how \in {"under", "after", "before"} : AddCopy(d, n, how, f)
    \/ \E d \in Node : AddDetached(d, n)
    \/ \E d \in Node, after \in {0, 1} : MoveTo(n, d, after)

ChangeOne ==
  \E n \in Node :
    \/ MoveToEnd(n) \/ Detach(n) \/ Rm(n)
    \/ \E text \in Node \cup {NoNode} : SetContent(n, text)

Iterate ==
  \/ \E p \in Node, t \in Type \cup {"ENt_Unknown"} : Begin(p, t)
  \/ \E p \in Node : Rbegin(p)
  \/ Advance

Next == Change \/ ChangeOne \/ Iterate

Spec == Init /\ [][Next]_vars

-----------------------------------------------------------------------------
\* Properties.

\* Types; an iterator is only ever at a mutation, or where one was.
TypeOK ==
  /\ kind \in [Node -> Kind]
  /\ kids \in [Node -> Seq(Node)]
  /\ it.at # NoNode => it.at \in Node /\ kind[it.at] \in Type \cup {"freed"}
  /\ it.over \in Node
  /\ seen \subseteq Node /\ stays \subseteq Node
  /\ disturbed \in BOOLEAN /\ undefined \in BOOLEAN

\* However the nodes are moved, copied and detached, each is in one place at
\* most, nothing that is freed is in the tree, and none is under itself.
IsForest == Forest(kind, kids)

\* An iterator whose own node is left alone passes every child it should that
\* has stayed in its place, exactly once and in order, whatever is added,
\* moved or removed around it meanwhile, and forward reads nothing it must not:
\* at any time what it has been at is what lies behind it.
PassesAll ==
  LET IsBehind(n) == \/ it.at = NoNode
                     \/ it.fwd /\ Place(n) < Place(it.at)
                     \/ ~it.fwd /\ Place(it.at) < Place(n)
  IN  ~disturbed =>
        /\ it.fwd => ~undefined
        /\ ~undefined => seen = {n \in stays : IsBehind(n)}

\* The nodes in a list that are in the set.
Only(s, nodes) ==
  FlattenSeq([i \in DOMAIN s |-> IF s[i] \in nodes THEN <<s[i]>> ELSE << >>])

\* The mutations under a mutation.
MutKids == [n \in Node |-> IF n \in Handles THEN Only(kids[n], Handles) ELSE << >>]

\* The mutations of the document: what the navigation comes to from the root.
InDoc == (UNION {Reach(ks, Root) : ks \in {MutKids}}) \cap Handles

\* The chromo is a document of mutations, as MutDoc has it: whatever else is
\* among the nodes makes no difference.
Doc == INSTANCE MutDoc WITH doc <- [n \in InDoc |-> Only(kids[n], Handles)]

DocSpec == Doc!Spec

\* "NULL point to the past-of-the-end element" (Reverse_Iterator): a reverse
\* iterator that nobody disturbs gets there.
ReverseEnds == ~it.fwd /\ ~disturbed => ~undefined

=============================================================================
