-------------------------- MODULE ChromoAttrProofs --------------------------
(***************************************************************************)
(* Proof that the mutations in the tree are read by index and by name as they *)
(* were put there, and switched on as Activate says, for any document, any *)
(* mutations and values of attributes, and any order of the calls.         *)
(***************************************************************************)
EXTENDS ChromoAttr, ChromoTreeProofs

-----------------------------------------------------------------------------
\* The tree.

\* What the calls of ChromoAttr do to the nodes keeps the invariant of the tree.
LEMMA AttrNextTree == TreeIInv /\ [AttrNext]_attrVars => TreeIInv'
<1> SUFFICES ASSUME TreeIInv, [AttrNext]_attrVars PROVE TreeIInv'
  OBVIOUS
<1>1. TreeInv
  BY DEF TreeIInv, TypeInv
<1>2. ASSUME NEW p \in Node, NEW n \in Node, NEW mut \in Mut, AddMut(p, mut, n)
      PROVE  TreeIInv'
  <2> DEFINE t == IF mut.type \in Type THEN mut.type ELSE "text"
  <2>1. AddChildNew(p, t, n) /\ t \in Type \cup {"text"}
    BY <1>2 DEF AddMut
  <2> HIDE DEF t
  <2>2. Changed({})
    BY <1>1, <2>1, AddChildNewChanges
  <2>3. QED
    BY <2>2, ChangedKeeps
<1>3. ASSUME NEW n \in Node, NEW r \in BOOLEAN, NEW f \in Copies(n, r), NEW d \in Node,
             NEW how \in {"under", "after", "before"}, AddCopyOf(d, n, how, f)
      PROVE  TreeIInv'
  <2>1. AddCopy(d, n, how, f)
    BY <1>3 DEF AddCopyOf
  <2>2. Changed({})
    BY <1>1, <2>1, AddCopyChanges
  <2>3. QED
    BY <2>2, ChangedKeeps
<1>4. CASE Rearrange
  <2>1. ASSUME NEW n \in Node, NEW d \in Node, NEW t \in Type, AddNextNew(d, t, n)
        PROVE  TreeIInv'
    BY <1>1, <2>1, AddNextNewChanges, ChangedKeeps
  <2>2. ASSUME NEW n \in Node, NEW d \in Node, AddDetached(d, n)
        PROVE  TreeIInv'
    BY <1>1, <2>2, AddDetachedChanges, ChangedKeeps
  <2>3. ASSUME NEW n \in Node, NEW d \in Node, NEW after \in {0, 1}, MoveTo(n, d, after)
        PROVE  TreeIInv'
    BY <1>1, <2>3, MoveToChanges, ChangedKeeps
  <2>4. CASE ChangeOne
    BY <2>4, ChangeOneKeeps
  <2>5. QED
    BY <1>4, <2>1, <2>2, <2>3, <2>4 DEF Rearrange
<1>5. CASE UNCHANGED vars
  BY <1>5 DEF vars, iteration, TreeIInv, TypeInv, TreeInv, IsForest, PassInv, Behind,
              Children, Matches
<1>6. CASE SetAttrs
  <2>1. \E n \in Node : Setting(n)
    BY <1>6, AttrAssumption DEF SetAttrs, SetAttr, RmAttr, Deactivate, Activate
  <2>2. QED
    BY <1>5, <2>1 DEF Setting
<1>7. QED
  BY <1>2, <1>3, <1>4, <1>5, <1>6 DEF AttrNext, attrVars

-----------------------------------------------------------------------------
\* The attributes.

\* Every node has attributes.
AttrTypeInv == attrs \in [Node -> AttrMap]

\* Attributes are functions from some of Attr to Value.
LEMMA AttrMapIs ==
  /\ \A a : a \in AttrMap <=> /\ a \in [DOMAIN a -> Value] /\ DOMAIN a \subseteq Attr
  /\ NoAttrs \in AttrMap
<1>1. ASSUME NEW a
      PROVE  a \in AttrMap <=> a \in [DOMAIN a -> Value] /\ DOMAIN a \subseteq Attr
  <2>1. a \in AttrMap => a \in [DOMAIN a -> Value] /\ DOMAIN a \subseteq Attr
    BY DEF AttrMap
  <2>2. a \in [DOMAIN a -> Value] /\ DOMAIN a \subseteq Attr => a \in AttrMap
    BY DEF AttrMap
  <2>3. QED
    BY <2>1, <2>2
<1>2. NoAttrs \in AttrMap
  <2>1. NoAttrs \in [{} -> Value] /\ {} \in SUBSET Attr
    BY DEF NoAttrs
  <2>2. QED
    BY <2>1 DEF AttrMap
<1>3. QED
  BY <1>1, <1>2

\* What is left when an attribute is removed.
LEMMA WithoutIs ==
  ASSUME AttrTypeInv, NEW n \in Node, NEW a
  PROVE  Without(a, n) \in AttrMap /\ DOMAIN Without(a, n) = DOMAIN attrs[n] \ {a}
<1>1. attrs[n] \in [DOMAIN attrs[n] -> Value] /\ DOMAIN attrs[n] \subseteq Attr
  BY AttrMapIs DEF AttrTypeInv
<1>2. DOMAIN Without(a, n) = DOMAIN attrs[n] \ {a}
      /\ \A b \in DOMAIN Without(a, n) : Without(a, n)[b] = attrs[n][b]
  BY DEF Without
<1>3. Without(a, n) \in [DOMAIN attrs[n] \ {a} -> Value]
  BY <1>1 DEF Without
<1>4. QED
  BY <1>1, <1>2, <1>3, AttrMapIs

\* SetAttr leaves attributes.
LEMMA SetAttrTyped ==
  ASSUME AttrTypeInv, NEW n \in Node, NEW a \in Attr, NEW v \in Value, SetAttr(n, a, v)
  PROVE  AttrTypeInv'
<1>1. attrs[n] \in [DOMAIN attrs[n] -> Value] /\ DOMAIN attrs[n] \subseteq Attr
  BY AttrMapIs DEF AttrTypeInv
<1> DEFINE new == [b \in DOMAIN attrs[n] \cup {a} |-> IF b = a THEN v ELSE attrs[n][b]]
<1>2. new \in [DOMAIN attrs[n] \cup {a} -> Value] /\ DOMAIN new = DOMAIN attrs[n] \cup {a}
  BY <1>1
<1>3. attrs' = [attrs EXCEPT ![n] = new]
  BY DEF SetAttr
<1> HIDE DEF new
<1>4. new \in AttrMap
  BY <1>1, <1>2, AttrMapIs
<1>5. QED
  BY <1>3, <1>4 DEF AttrTypeInv

\* Every call leaves attributes of the type.
LEMMA AttrNextTyped == TreeInv /\ AttrTypeInv /\ [AttrNext]_attrVars => AttrTypeInv'
<1> SUFFICES ASSUME TreeInv, AttrTypeInv, [AttrNext]_attrVars PROVE AttrTypeInv'
  OBVIOUS
<1>1. ASSUME NEW p \in Node, NEW n \in Node, NEW mut \in Mut, AddMut(p, mut, n)
      PROVE  AttrTypeInv'
  <2>1. mut.attrs \in AttrMap
    BY AttrAssumption
  <2>2. QED
    BY <1>1, <2>1 DEF AddMut, AttrTypeInv
<1>2. ASSUME NEW n \in Node, NEW r \in BOOLEAN, NEW f \in Copies(n, r), NEW d \in Node,
             NEW how \in {"under", "after", "before"}, AddCopyOf(d, n, how, f)
      PROVE  AttrTypeInv'
  <2>1. DOMAIN f \subseteq Node
    BY DEF Copies, Below, Reach
  <2>2. ASSUME NEW m \in Node, \E a \in DOMAIN f : f[a] = m
        PROVE  (CHOOSE a \in DOMAIN f : f[a] = m) \in Node
    BY <2>1, <2>2
  <2>3. QED
    BY <1>2, <2>2 DEF AddCopyOf, AttrTypeInv
<1>3. CASE Rearrange
  BY <1>3, AttrMapIs DEF Rearrange, FreedLose, AttrTypeInv
<1>4. CASE SetAttrs
  <2>1. ASSUME NEW n \in Settable, NEW v \in Names, SetAttr(n, "ENa_Id", v)
        PROVE  AttrTypeInv'
    BY <2>1, AttrAssumption, SetAttrTyped DEF Attr
  <2>2. ASSUME NEW n \in Settable, NEW a \in Attr, RmAttr(n, a)
        PROVE  AttrTypeInv'
    <3>1. n \in Node /\ Without(a, n) \in AttrMap
      BY AttrAssumption, WithoutIs
    <3>2. QED
      BY <2>2, <3>1 DEF RmAttr, AttrTypeInv
  <2>3. ASSUME NEW n \in Settable, Deactivate(n)
        PROVE  AttrTypeInv'
    <3>1. n \in Node /\ "ENa_Inactive" \in Attr /\ NoText \in Value
      BY AttrAssumption DEF Attr
    <3>2. QED
      BY <2>3, <3>1, SetAttrTyped DEF Deactivate
  <2>4. ASSUME NEW n \in Node, Activate(n)
        PROVE  AttrTypeInv'
    <3>1. PICK S : attrs' = [m \in Node |-> IF m \in S THEN Without("ENa_Inactive", m) ELSE attrs[m]]
      BY <2>4 DEF Activate
    <3>2. \A m \in Node : Without("ENa_Inactive", m) \in AttrMap
      BY WithoutIs
    <3>3. QED
      BY <3>1, <3>2 DEF AttrTypeInv
  <2>5. QED
    BY <1>4, <2>1, <2>2, <2>3, <2>4 DEF SetAttrs
<1>5. CASE UNCHANGED attrVars
  BY <1>5 DEF attrVars, AttrTypeInv
<1>6. QED
  BY <1>1, <1>2, <1>3, <1>4, <1>5 DEF AttrNext

\* The inductive invariant.
AttrIInv == TreeIInv /\ AttrTypeInv

\* The two hold in every reachable state.
LEMMA AttrInductive == AttrSpec => []AttrIInv
<1>1. AttrInit => AttrIInv
  BY InitTree, AttrAssumption DEF AttrInit, AttrIInv, AttrTypeInv
<1>2. AttrIInv /\ [AttrNext]_attrVars => AttrIInv'
  BY AttrNextTree, AttrNextTyped DEF AttrIInv, TreeIInv, TypeInv
<1>3. QED
  BY <1>1, <1>2, PTL DEF AttrSpec

-----------------------------------------------------------------------------
\* Reading by index.

\* The mutations under p, in their order.
LEMMA ListedIs ==
  ASSUME TreeInv, NEW p \in Node
  PROVE  LET t == Listed(p)
         IN  /\ t \in Seq(Node) /\ Once(t)
             /\ \A n : n \in ToSet(t) <=> n \in Children(p) /\ n \in Handles
             /\ \A i, j \in 1 .. Len(t) : i < j <=> Ahead(kids[p], t[i], t[j])
             /\ Len(t) <= Len(kids[p])
<1> DEFINE s == kids[p]
           t == Listed(p)
<1>1. s \in Seq(Node) /\ Once(s)
  BY ForestIs DEF TreeInv, IsForest, Lists
<1>2. /\ t \in Seq(Node) /\ Once(t) /\ ToSet(t) = ToSet(s) \cap Handles
      /\ \A x, y : Ahead(t, x, y) <=> Ahead(s, x, y) /\ x \in Handles /\ y \in Handles
      /\ Len(t) <= Len(s)
  BY <1>1, OnlyKeeps DEF Listed
<1> HIDE DEF s, t
<1>3. \A i \in 1 .. Len(t) : t[i] \in Handles
  BY <1>2, ToSetOfSeq
<1>4. ASSUME NEW i \in 1 .. Len(t), NEW j \in 1 .. Len(t)
      PROVE  i < j <=> Ahead(t, t[i], t[j])
  BY <1>2 DEF Ahead, Once
<1>5. QED
  BY <1>2, <1>3, <1>4 DEF Children, s, t

\* Asked for any mutation, a loop stops at those that have handles.
LEMMA AnyMatches ==
  ASSUME NEW n \in Node
  PROVE  Matches(n, "ENt_Unknown") <=> n \in Handles
  BY DEF Matches, Handles

\* The navigation goes along the list.
LEMMA FirstIs ==
  ASSUME TreeInv, NEW p \in Node
  PROVE  First(p) = IF Len(Listed(p)) = 0 THEN NoNode ELSE Listed(p)[1]
<1> DEFINE t == Listed(p)
           r == First(p)
<1>1. /\ t \in Seq(Node) /\ Once(t)
      /\ \A n : n \in ToSet(t) <=> n \in Children(p) /\ n \in Handles
      /\ \A i, j \in 1 .. Len(t) : i < j <=> Ahead(kids[p], t[i], t[j])
  BY ListedIs
<1>2. \/ r = NoNode /\ \A m \in Children(p) : ~Matches(m, "ENt_Unknown")
      \/ /\ r \in Children(p) /\ Matches(r, "ENt_Unknown")
         /\ \A m \in Children(p) : Ahead(kids[p], m, r) => ~Matches(m, "ENt_Unknown")
  BY FirstChildIs DEF First
<1>3. \A n \in Children(p) : n \in Node
  BY ChildIsNode
<1> HIDE DEF t, r
<1>4. Len(t) \in Nat /\ (\A i \in 1 .. Len(t) : t[i] \in ToSet(t))
      /\ \A x \in ToSet(t) : \E i \in 1 .. Len(t) : t[i] = x
  BY <1>1, ToSetOfSeq
<1>5. CASE r = NoNode /\ \A m \in Children(p) : ~Matches(m, "ENt_Unknown")
  <2>1. ToSet(t) = {}
    BY <1>1, <1>3, <1>5, AnyMatches
  <2>2. Len(t) = 0
    BY <1>4, <2>1
  <2>3. QED
    BY <1>5, <2>2 DEF t, r
<1>6. CASE /\ r \in Children(p) /\ Matches(r, "ENt_Unknown")
           /\ \A m \in Children(p) : Ahead(kids[p], m, r) => ~Matches(m, "ENt_Unknown")
  <2>1. r \in ToSet(t)
    BY <1>1, <1>3, <1>6, AnyMatches
  <2>2. PICK i \in 1 .. Len(t) : t[i] = r
    BY <1>4, <2>1
  <2>3. 1 \in 1 .. Len(t)
    BY <1>4, <2>2
  <2>4. t[1] \in Children(p) /\ Matches(t[1], "ENt_Unknown")
    BY <1>1, <1>3, <1>4, <2>3, AnyMatches
  <2>5. ~(1 < i)
    BY <1>1, <1>6, <2>2, <2>3, <2>4
  <2>6. i = 1 /\ Len(t) # 0
    BY <1>4, <2>2, <2>5
  <2>7. QED
    BY <2>2, <2>6 DEF t, r
<1>7. QED
  BY <1>2, <1>5, <1>6

\* The loop goes from one mutation of the list to the next.
LEMMA NextMutIs ==
  ASSUME TreeInv, NEW p \in Node, NEW i \in 1 .. Len(Listed(p))
  PROVE  NextMut(Listed(p)[i]) = IF i = Len(Listed(p)) THEN NoNode ELSE Listed(p)[i + 1]
<1> DEFINE t == Listed(p)
           n == t[i]
           r == NextMut(n)
<1>1. /\ t \in Seq(Node) /\ Once(t)
      /\ \A m : m \in ToSet(t) <=> m \in Children(p) /\ m \in Handles
      /\ \A j, k \in 1 .. Len(t) : j < k <=> Ahead(kids[p], t[j], t[k])
  BY ListedIs
<1>2. Len(t) \in Nat /\ (\A j \in 1 .. Len(t) : t[j] \in ToSet(t))
      /\ \A x \in ToSet(t) : \E j \in 1 .. Len(t) : t[j] = x
  BY <1>1, ToSetOfSeq
<1>3. n \in Children(p)
  BY <1>1, <1>2
<1>4. \/ /\ r = NoNode
         /\ \A m \in Children(p) : Ahead(kids[p], n, m) => ~Matches(m, "ENt_Unknown")
      \/ /\ r \in Children(p) /\ Matches(r, "ENt_Unknown") /\ Ahead(kids[p], n, r)
         /\ \A m \in Children(p) :
              Ahead(kids[p], n, m) /\ Ahead(kids[p], m, r) => ~Matches(m, "ENt_Unknown")
  BY <1>3, NextIs DEF NextMut
<1>5. \A m \in Children(p) : m \in Node /\ (m \in ToSet(t) <=> Matches(m, "ENt_Unknown"))
  BY <1>1, ChildIsNode, AnyMatches
<1>6. i \in 1 .. Len(t) /\ (i = Len(t) \/ i + 1 \in 1 .. Len(t))
  BY <1>2
<1> HIDE DEF t, r
<1>7. i # Len(t) => /\ t[i + 1] \in Children(p) /\ Matches(t[i + 1], "ENt_Unknown")
                    /\ Ahead(kids[p], n, t[i + 1])
  <2>1. i # Len(t) => i + 1 \in 1 .. Len(t) /\ i < i + 1
    BY <1>6
  <2>2. QED
    BY <1>1, <1>2, <1>5, <1>6, <2>1
<1>8. CASE /\ r = NoNode
           /\ \A m \in Children(p) : Ahead(kids[p], n, m) => ~Matches(m, "ENt_Unknown")
  <2>1. i = Len(t)
    BY <1>7, <1>8
  <2>2. QED
    BY <1>8, <2>1 DEF t, r
<1>9. CASE /\ r \in Children(p) /\ Matches(r, "ENt_Unknown") /\ Ahead(kids[p], n, r)
           /\ \A m \in Children(p) :
                Ahead(kids[p], n, m) /\ Ahead(kids[p], m, r) => ~Matches(m, "ENt_Unknown")
  <2>1. PICK j \in 1 .. Len(t) : t[j] = r
    BY <1>2, <1>5, <1>9
  <2>2. i < j
    BY <1>1, <1>6, <1>9, <2>1
  <2>3. i + 1 \in 1 .. Len(t) /\ i # Len(t)
    BY <1>2, <1>6, <2>1, <2>2
  <2>4. ~(i + 1 < j)
    BY <1>1, <1>7, <1>9, <2>1, <2>3
  <2>5. j = i + 1
    BY <1>2, <2>1, <2>2, <2>4
  <2>6. QED
    BY <2>1, <2>3, <2>5 DEF t, r
<1>10. QED
  BY <1>4, <1>8, <1>9

\* The loop that goes on to the next mutation.
LEMMA WalkIs ==
  ASSUME TreeInv, NEW n \in Node \cup {NoNode}
  PROVE  /\ Walk(n) \in [Nat -> Node \cup {NoNode}]
         /\ Walk(n)[0] = n
         /\ \A k \in Nat : Walk(n)[k + 1] = IF Walk(n)[k] = NoNode THEN NoNode
                                           ELSE NextMut(Walk(n)[k])
<1> DEFINE V == Node \cup {NoNode}
           next(m) == IF m = NoNode THEN NoNode ELSE NextMut(m)
           step == [z \in Nat \X V |-> next(z[2])]
           Is(w) == w = [k \in Nat |-> IF k = 0 THEN n ELSE IF w[k - 1] = NoNode THEN NoNode ELSE NextMut(w[k - 1])]
<1>1. \A m \in V : next(m) \in V
  <2> SUFFICES ASSUME NEW m \in Node PROVE NextMut(m) \in V
    OBVIOUS
  <2>1. CASE Attached(m)
    <3>1. PICK p \in Node : m \in Children(p)
      BY <2>1 DEF Attached
    <3>2. NextMut(m) = NoNode \/ NextMut(m) \in Children(p)
      BY <3>1, NextIs DEF NextMut
    <3>3. QED
      BY <3>2, ChildIsNode
  <2>2. CASE ~Attached(m)
    BY <2>2 DEF NextMut, NextSibling
  <2>3. QED
    BY <2>1, <2>2
<1> HIDE DEF next
<1>2. step \in [Nat \X V -> V]
  BY <1>1
<1>3. \A k \in Nat, m \in V : step[<<k, m>>] = next(m)
  OBVIOUS
<1>4. PICK f : Iterates(f, V, n, step)
  <2> HIDE DEF step, V
  <2>1. n \in V
    BY DEF V
  <2>2. QED
    BY <1>2, <2>1, Iterated
<1>5. f \in [Nat -> V] /\ f[0] = n /\ \A k \in Nat : f[k + 1] = next(f[k])
  BY <1>3, <1>4 DEF Iterates
<1> HIDE DEF step
<1>6. Is(f)
  <2>1. \A k \in Nat : f[k] = IF k = 0 THEN n ELSE next(f[k - 1])
    <3> SUFFICES ASSUME NEW k \in Nat, k # 0 PROVE f[k] = next(f[k - 1])
      BY <1>5
    <3>1. k - 1 \in Nat /\ (k - 1) + 1 = k
      OBVIOUS
    <3>2. QED
      BY <1>5, <3>1
  <2>2. QED
    BY <1>5, <2>1 DEF next
<1>7. Is(Walk(n))
  <2>1. Walk(n) = CHOOSE w : Is(w)
    BY DEF Walk
  <2>2. QED
    BY <1>6, <2>1
<1> DEFINE w == Walk(n)
<1> HIDE DEF w
<1>8. w[0] = n /\ \A k \in Nat : w[k + 1] = next(w[k])
  <2>1. w = [k \in Nat |-> IF k = 0 THEN n ELSE next(w[k - 1])]
    BY <1>7 DEF w, next
  <2>2. w[0] = n
    BY <2>1
  <2>3. ASSUME NEW k \in Nat
        PROVE  w[k + 1] = next(w[k])
    <3>1. k + 1 \in Nat /\ k + 1 # 0 /\ (k + 1) - 1 = k
      OBVIOUS
    <3>2. w[k + 1] = IF k + 1 = 0 THEN n ELSE next(w[(k + 1) - 1])
      BY <2>1, <3>1
    <3>3. QED
      BY <3>1, <3>2
  <2>4. QED
    BY <2>2, <2>3
<1>9. \A k \in Nat : w[k] \in V
  <2> DEFINE I == {k \in Nat : w[k] \in V}
  <2>1. 0 \in I
    BY <1>8
  <2>2. \A k \in I : k + 1 \in I
    BY <1>1, <1>8
  <2> HIDE DEF I
  <2>3. I \in SUBSET Nat
    BY DEF I
  <2>4. \A k \in Nat : k \in I
    BY <2>1, <2>2, <2>3, NatInduced
  <2>5. QED
    BY <2>4 DEF I
<1>10. w = [k \in Nat |-> w[k]]
  <2>1. w = [k \in Nat |-> IF k = 0 THEN n ELSE next(w[k - 1])]
    BY <1>7 DEF w, next
  <2>2. QED
    BY <2>1
<1>11. w \in [Nat -> V]
  BY <1>9, <1>10
<1>12. QED
  BY <1>8, <1>11 DEF w, next


\* At is the index into the list.
LEMMA AtIs ==
  ASSUME TreeInv, NEW p \in Node, NEW k \in Nat
  PROVE  At(p, k) = IF k < Len(Listed(p)) THEN Listed(p)[k + 1] ELSE NoNode
<1> DEFINE t == Listed(p)
           w == Walk(First(p))
           I == {j \in Nat : w[j] = IF j < Len(t) THEN t[j + 1] ELSE NoNode}
<1>1. t \in Seq(Node) /\ Len(t) \in Nat
  BY ListedIs
<1>2. First(p) = IF Len(t) = 0 THEN NoNode ELSE t[1]
  BY FirstIs
<1>3. First(p) \in Node \cup {NoNode}
  BY <1>1, <1>2
<1>4. w[0] = First(p) /\ \A j \in Nat : w[j + 1] = IF w[j] = NoNode THEN NoNode ELSE NextMut(w[j])
  BY <1>3, WalkIs
<1>5. \A i \in 1 .. Len(t) : NextMut(t[i]) = IF i = Len(t) THEN NoNode ELSE t[i + 1]
  BY NextMutIs
<1>6. \A i \in 1 .. Len(t) : t[i] # NoNode
  BY <1>1, TreeAssumption
<1> HIDE DEF t, w
<1>7. 0 \in I
  <2>1. w[0] = IF Len(t) = 0 THEN NoNode ELSE t[1]
    BY <1>2, <1>4
  <2>2. (0 < Len(t) <=> Len(t) # 0) /\ 0 + 1 = 1 /\ 0 \in Nat
    BY <1>1
  <2>3. w[0] = IF 0 < Len(t) THEN t[0 + 1] ELSE NoNode
    BY <2>1, <2>2
  <2>4. QED
    BY <2>2, <2>3
<1>8. ASSUME NEW j \in I
      PROVE  j + 1 \in I
  <2>1. j \in Nat /\ j + 1 \in Nat
    OBVIOUS
  <2>2. CASE j < Len(t)
    <3>1. j + 1 \in 1 .. Len(t)
      BY <1>1, <2>1, <2>2
    <3>2. w[j] = t[j + 1]
      BY <2>2
    <3>3. w[j + 1] = IF j + 1 = Len(t) THEN NoNode ELSE t[j + 1 + 1]
      BY <1>4, <1>5, <1>6, <2>1, <3>1, <3>2
    <3>4. (j + 1 < Len(t)) <=> ~(j + 1 = Len(t))
      BY <1>1, <2>1, <2>2
    <3>5. QED
      BY <2>1, <3>3, <3>4
  <2>3. CASE ~(j < Len(t))
    <3>1. w[j] = NoNode
      BY <2>3
    <3>2. w[j + 1] = NoNode
      BY <1>4, <2>1, <3>1
    <3>3. ~(j + 1 < Len(t))
      BY <1>1, <2>1, <2>3
    <3>4. QED
      BY <2>1, <3>2, <3>3
  <2>4. QED
    BY <2>2, <2>3
<1> HIDE DEF I
<1>9. I \in SUBSET Nat
  BY DEF I
<1>10. k \in I
  BY <1>7, <1>8, <1>9, NatInduced
<1>11. QED
  BY <1>10 DEF At, I, t, w

\* Hence At counts the mutations of the list and nothing else.
LEMMA IndexIs == TreeInv => AtIsIndex
<1> SUFFICES ASSUME TreeInv, NEW p \in Handles
             PROVE  /\ \A i \in DOMAIN Listed(p) : At(p, i - 1) = Listed(p)[i]
                    /\ At(p, Len(Listed(p))) = NoNode
  BY DEF AtIsIndex
<1>1. p \in Node
  BY DEF Handles
<1> DEFINE t == Listed(p)
<1>2. t \in Seq(Node) /\ Len(t) \in Nat /\ DOMAIN t = 1 .. Len(t)
  BY <1>1, ListedIs
<1>3. \A k \in Nat : At(p, k) = IF k < Len(t) THEN t[k + 1] ELSE NoNode
  BY <1>1, AtIs
<1> HIDE DEF t
<1>4. ASSUME NEW i \in 1 .. Len(t)
      PROVE  At(p, i - 1) = t[i]
  <2>1. i - 1 \in Nat /\ i - 1 < Len(t) /\ (i - 1) + 1 = i
    BY <1>2
  <2>2. QED
    BY <1>3, <2>1
<1>5. At(p, Len(t)) = NoNode
  BY <1>2, <1>3
<1>6. QED
  BY <1>2, <1>4, <1>5 DEF t

-----------------------------------------------------------------------------
\* Reading by name.

\* What a loop of Find stops at.
Named(m, t, name) == kind[m] = t /\ Name(m) = name

\* Find of a name comes to the first child that has the type and the name.
LEMMA FindNameIs ==
  ASSUME TreeInv, NEW p \in Node, NEW t \in Type, NEW name
  PROVE  LET r == FindName(p, t, name)
         IN  \/ r = NoNode /\ \A m \in Children(p) : ~Named(m, t, name)
             \/ /\ r \in Children(p) /\ Named(r, t, name)
                /\ \A m \in Children(p) : Ahead(kids[p], m, r) => ~Named(m, t, name)
<1> DEFINE s == Listed(p)
           Stops(n) == n = NoNode \/ (kind[n] = t /\ Name(n) = name)
           D == {i \in 0 .. Len(kids[p]) : Stops(At(p, i))}
           r == FindName(p, t, name)
<1>1. /\ s \in Seq(Node)
      /\ \A n : n \in ToSet(s) <=> n \in Children(p) /\ n \in Handles
      /\ \A i, j \in 1 .. Len(s) : i < j <=> Ahead(kids[p], s[i], s[j])
      /\ Len(s) <= Len(kids[p])
  BY ListedIs
<1>2. Len(s) \in Nat /\ Len(kids[p]) \in Nat
      /\ (\A i \in 1 .. Len(s) : s[i] \in ToSet(s))
      /\ \A x \in ToSet(s) : \E i \in 1 .. Len(s) : s[i] = x
  BY <1>1, ToSetOfSeq DEF TreeInv, Lists
<1>3. \A k \in Nat : At(p, k) = IF k < Len(s) THEN s[k + 1] ELSE NoNode
  BY AtIs
<1>4. D \in SUBSET Nat /\ Len(s) \in D
  BY <1>1, <1>2, <1>3
<1>5. r = At(p, Min(D))
  BY DEF FindName
<1>6. Min(D) \in D /\ \A j \in D : Min(D) <= j
  <2> HIDE DEF D
  <2>1. QED
    BY <1>4, MinIsLeast
<1>7. PICK i \in Nat : /\ i \in 0 .. Len(kids[p]) /\ Stops(At(p, i)) /\ r = At(p, i)
                       /\ \A j \in Nat : j < i => ~(j \in D)
  <2>1. PICK i : i = Min(D)
    OBVIOUS
  <2>2. i \in D /\ r = At(p, i) /\ \A j \in D : i <= j
    BY <1>5, <1>6, <2>1
  <2>3. i \in Nat /\ i \in 0 .. Len(kids[p]) /\ Stops(At(p, i))
    BY <1>2, <2>2
  <2>4. \A j \in Nat : j < i => ~(j \in D)
    <3> HIDE DEF D
    <3>1. QED
      BY <2>2, <2>3
  <2>5. QED
    BY <2>2, <2>3, <2>4
<1>8. i <= Len(s)
  BY <1>2, <1>4, <1>7
<1>9. \A m \in Children(p) : m \in Node /\ (m \in ToSet(s) <=> kind[m] \in Type)
  BY <1>1, ChildIsNode DEF Handles
<1>10. \A n \in Node : Stops(n) <=> Named(n, t, name)
  BY TreeAssumption DEF Named
<1>11. ASSUME NEW m \in Children(p), Named(m, t, name)
       PROVE  \E k \in 1 .. Len(s) : s[k] = m /\ i <= k - 1
  <2>1. PICK k \in 1 .. Len(s) : s[k] = m
    BY <1>2, <1>9, <1>11 DEF Named
  <2>2. k - 1 \in Nat /\ k - 1 < Len(s) /\ (k - 1) + 1 = k /\ k - 1 \in 0 .. Len(kids[p])
    BY <1>1, <1>2
  <2>3. At(p, k - 1) = m
    BY <1>3, <2>1, <2>2
  <2>4. k - 1 \in D
    BY <1>9, <1>10, <1>11, <2>2, <2>3
  <2>5. i <= k - 1
    BY <1>7, <2>2, <2>4
  <2>6. QED
    BY <2>1, <2>5
<1> HIDE DEF s, D, r
<1>12. CASE i = Len(s)
  <2>1. r = NoNode
    BY <1>2, <1>3, <1>7, <1>12
  <2>2. \A m \in Children(p) : ~Named(m, t, name)
    BY <1>2, <1>11, <1>12
  <2>3. QED
    BY <2>1, <2>2 DEF r
<1>13. CASE i < Len(s)
  <2>1. i + 1 \in 1 .. Len(s) /\ r = s[i + 1]
    BY <1>2, <1>3, <1>7, <1>13
  <2>2. r \in ToSet(s) /\ r \in Node /\ r \in Children(p)
    BY <1>1, <1>2, <2>1
  <2>3. Named(r, t, name)
    BY <1>7, <1>10, <2>2
  <2>4. ASSUME NEW m \in Children(p), Named(m, t, name), Ahead(kids[p], m, r)
        PROVE  FALSE
    <3>1. PICK k \in 1 .. Len(s) : s[k] = m /\ i <= k - 1
      BY <1>11, <2>4
    <3>2. k < i + 1
      BY <1>1, <2>1, <2>4, <3>1
    <3>3. QED
      BY <1>7, <3>1, <3>2
  <2>5. QED
    BY <2>2, <2>3, <2>4 DEF r
<1>14. QED
  BY <1>2, <1>7, <1>8, <1>12, <1>13

\* w: where Find is after each part of its text.
GoesDown(w, p, t, text) ==
  /\ w \in [Nat -> Node \cup {NoNode}]
  /\ w[0] = p /\ Find(p, t, text) = w[Len(text)]
  /\ \A k \in Nat : w[k + 1] = IF w[k] = NoNode THEN NoNode
                               ELSE FindName(w[k], t, <<text[k + 1]>>)
  /\ \A k \in Nat : w[k + 1] # p

\* Find goes down one level for each part of its text, and never comes back to
\* where it began.
LEMMA FindIs ==
  ASSUME TreeInv, NEW p \in Node, NEW t \in Type, NEW text
  PROVE  \E w : GoesDown(w, p, t, text)
<1> DEFINE V == Node \cup {NoNode}
           next(k, m) == IF m = NoNode THEN NoNode ELSE FindName(m, t, <<text[k]>>)
           step == [z \in Nat \X V |-> next(z[1] + 1, z[2])]
           Is(w) == w = [i \in Nat |-> IF i = 0 THEN p
                                      ELSE IF w[i - 1] = NoNode THEN NoNode
                                      ELSE FindName(w[i - 1], t, <<text[i]>>)]
<1>1. \A k, m : m \in V => next(k, m) \in V
                          /\ (next(k, m) # NoNode => m # NoNode /\ next(k, m) \in Children(m))
  <2> SUFFICES ASSUME NEW k, NEW m \in Node
               PROVE  FindName(m, t, <<text[k]>>) \in V
                      /\ (FindName(m, t, <<text[k]>>) # NoNode
                            => FindName(m, t, <<text[k]>>) \in Children(m))
    BY TreeAssumption
  <2> DEFINE name == <<text[k]>>
  <2> HIDE DEF name
  <2>1. FindName(m, t, name) = NoNode \/ FindName(m, t, name) \in Children(m)
    BY FindNameIs
  <2>2. QED
    BY <2>1, ChildIsNode DEF name
<1> HIDE DEF next
<1>2. step \in [Nat \X V -> V]
  BY <1>1
<1>3. \A k \in Nat, m \in V : step[<<k, m>>] = next(k + 1, m)
  OBVIOUS
<1>4. PICK f : Iterates(f, V, p, step)
  <2>1. p \in V
    OBVIOUS
  <2> HIDE DEF step, V
  <2>2. QED
    BY <1>2, <2>1, Iterated
<1>5. f \in [Nat -> V] /\ f[0] = p /\ \A k \in Nat : f[k + 1] = next(k + 1, f[k])
  BY <1>3, <1>4 DEF Iterates
<1> HIDE DEF step
<1>6. Is(f)
  <2>1. \A k \in Nat : f[k] = IF k = 0 THEN p ELSE next(k, f[k - 1])
    <3> SUFFICES ASSUME NEW k \in Nat, k # 0 PROVE f[k] = next(k, f[k - 1])
      BY <1>5
    <3>1. k - 1 \in Nat /\ (k - 1) + 1 = k
      OBVIOUS
    <3>2. QED
      BY <1>5, <3>1
  <2>2. QED
    BY <1>5, <2>1 DEF next
<1> DEFINE w == CHOOSE g : Is(g)
<1>7. Is(w)
  BY <1>6
<1>8. Find(p, t, text) = w[Len(text)]
  BY DEF Find
<1>9. w = [k \in Nat |-> IF k = 0 THEN p ELSE next(k, w[k - 1])]
  BY <1>7 DEF next
<1> HIDE DEF w, Is
<1>10. w[0] = p /\ \A k \in Nat : w[k + 1] = next(k + 1, w[k])
  <2>1. \A k \in Nat : k + 1 \in Nat /\ k + 1 # 0 /\ (k + 1) - 1 = k
    OBVIOUS
  <2>2. QED
    BY <1>9, <2>1
\* Everything it comes to is under a child of p, and so is not p.
<1> DEFINE Under1(m) == \E c \in Children(p) : m \in Below(c)
           J == {k \in Nat : w[k] \in V /\ (w[k + 1] = NoNode \/ Under1(w[k + 1]))}
<1>11. kids \in Lists /\ Acyclic(kids)
  BY ForestIs DEF TreeInv, IsForest
<1>12. p \in V /\ p # NoNode
  BY TreeAssumption
<1>13. \A k \in Nat : k \in J
  <2>1. 0 \in J
    <3>1. w[0 + 1] = next(0 + 1, w[0]) /\ w[0] = p
      BY <1>10
    <3>2. w[0 + 1] = NoNode \/ (w[0 + 1] \in Children(p) /\ w[0 + 1] \in Node)
      BY <1>1, <1>12, <3>1, ChildIsNode
    <3>3. QED
      BY <1>11, <1>12, <3>1, <3>2, ReachIsClosed DEF Below
  <2>2. ASSUME NEW k \in J PROVE k + 1 \in J
    <3>1. k + 1 \in Nat /\ w[k] \in V /\ (w[k + 1] = NoNode \/ Under1(w[k + 1]))
          /\ w[k + 1] = next(k + 1, w[k]) /\ w[(k + 1) + 1] = next((k + 1) + 1, w[k + 1])
      BY <1>10, <2>2
    <3>2. w[k + 1] \in V
      BY <1>1, <3>1
    <3>3. w[(k + 1) + 1] = NoNode
          \/ (w[k + 1] # NoNode /\ w[(k + 1) + 1] \in Children(w[k + 1]))
      BY <1>1, <3>1, <3>2
    <3>4. ASSUME NEW c \in Children(p), w[k + 1] \in Below(c),
                 w[(k + 1) + 1] \in Children(w[k + 1])
          PROVE  w[(k + 1) + 1] \in Below(c)
      <4>1. c \in Node
        BY ChildIsNode
      <4>2. QED
        BY <1>11, <3>4, <4>1, ReachIsClosed DEF Below, Closed, Children
    <3>5. QED
      BY <3>1, <3>2, <3>3, <3>4
  <2>3. J \in SUBSET Nat
    OBVIOUS
  <2> HIDE DEF J
  <2>4. QED
    BY <2>1, <2>2, <2>3, NatInduced
<1>14. \A k \in Nat : w[k] \in V /\ w[k + 1] # p
  <2>1. ~Under1(p)
    BY <1>11 DEF Acyclic, Below, Children
  <2>2. QED
    BY <1>12, <1>13, <2>1
<1>15. w \in [Nat -> V]
  BY <1>9, <1>14
<1>16. QED
  BY <1>8, <1>10, <1>14, <1>15 DEF next, GoesDown

\* The node a node is the child of.
LEMMA ParentIs ==
  ASSUME TreeInv, NEW n \in Node, Parent(n) # NoNode
  PROVE  /\ Parent(n) \in Node /\ n \in Children(Parent(n))
         /\ \A m \in Node : n \in Children(m) => m = Parent(n)
<1>1. Attached(n)
  BY DEF Parent
<1>2. PICK p \in Node : n \in Children(p) /\ \A m \in Node : n \in Children(m) => m = p
  BY <1>1, OneParent DEF Children
<1>3. Parent(n) = p
  BY <1>1, <1>2 DEF Parent
<1>4. QED
  BY <1>2, <1>3

\* A name leads from the parent to the child unless a twin comes first.
LEMMA NameLeadsBack ==
  ASSUME TreeInv, NEW n \in Handles, Parent(n) # NoNode
  PROVE  FindName(Parent(n), kind[n], Name(n)) = n <=> Twins(n) = {}
<1> DEFINE p == Parent(n)
           r == FindName(p, kind[n], Name(n))
<1>1. n \in Node /\ kind[n] \in Type
  BY DEF Handles
<1>2. p \in Node /\ n \in Children(p)
  BY <1>1, ParentIs
<1>3. \/ r = NoNode /\ \A m \in Children(p) : ~Named(m, kind[n], Name(n))
      \/ /\ r \in Children(p) /\ Named(r, kind[n], Name(n))
         /\ \A m \in Children(p) : Ahead(kids[p], m, r) => ~Named(m, kind[n], Name(n))
  BY <1>1, <1>2, FindNameIs
<1> HIDE DEF r
<1>4. /\ Siblings(n) = kids[p] /\ kids[p] \in Seq(Node) /\ Once(kids[p])
  BY <1>2, PlaceIs
<1>5. r \in Children(p) /\ Named(r, kind[n], Name(n))
      /\ \A m \in Children(p) : Ahead(kids[p], m, r) => ~Named(m, kind[n], Name(n))
  BY <1>2, <1>3 DEF Named
<1>6. \A m \in Children(p) : m \in Node /\ (Named(m, kind[n], Name(n)) => m \in Handles)
  BY <1>1, <1>2, ChildIsNode DEF Named, Handles
<1>7. \A m : m \in Twins(n) <=> /\ m \in Children(p) /\ Named(m, kind[n], Name(n))
                                /\ Ahead(kids[p], m, n)
  <2> SUFFICES ASSUME NEW m \in Children(p)
               PROVE  m \in Twins(n) <=> Named(m, kind[n], Name(n)) /\ Ahead(kids[p], m, n)
    BY <1>4 DEF Twins, Children
  <2>1. Ahead(kids[p], m, n) <=> Place(m) < Place(n)
    BY <1>2, AheadByPlace
  <2>2. m \in Twins(n) <=> Named(m, kind[n], Name(n)) /\ Place(m) < Place(n)
    BY <1>4, <1>6 DEF Twins, Named, Children
  <2>3. QED
    BY <2>1, <2>2
<1>8. /\ r # n => Ahead(kids[p], r, n) \/ Ahead(kids[p], n, r)
      /\ ~Ahead(kids[p], r, r)
  BY <1>2, <1>4, <1>5, AheadIsTotal DEF Children
<1>9. Twins(n) = {} => r = n
  BY <1>2, <1>5, <1>7, <1>8 DEF Named
<1>10. r = n => Twins(n) = {}
  BY <1>5, <1>7
<1>11. QED
  BY <1>9, <1>10 DEF r

\* Whatever has no parent and is over a node, is over its parent too.
LEMMA RootIsShared ==
  ASSUME TreeInv, NEW n \in Node, Parent(n) # NoNode
  PROVE  RootOf(n) = RootOf(Parent(n))
<1> DEFINE p == Parent(n)
           Over(m) == {r \in Node \ {Document} : m \in Below(r) /\ Parent(r) = NoNode}
<1>1. p \in Node /\ n \in Children(p) /\ \A m \in Node : n \in Children(m) => m = p
  BY ParentIs
<1>2. kids \in Lists
  BY DEF TreeInv
<1>3. ASSUME NEW r \in Node, Parent(r) = NoNode
      PROVE  n \in Below(r) <=> p \in Below(r)
  <2>1. p \in Below(r) => n \in Below(r)
    BY <1>1, <1>2, ReachIsClosed DEF Below, Closed, Children
  <2>2. ASSUME n \in Below(r)
        PROVE  p \in Below(r)
    <3>1. n # r
      BY <1>3
    <3>2. PICK q \in Reach(kids, r) : n \in ToSet(kids[q])
      BY <1>2, <2>2, <3>1, ReachByParent DEF Below
    <3>3. q \in Node
      BY <1>2, <3>2, ReachIsClosed
    <3>4. QED
      BY <1>1, <3>2, <3>3 DEF Below, Children
  <2>3. QED
    BY <2>1, <2>2
<1> HIDE DEF p
<1>4. \A r \in Node \ {Document} : (n \in Below(r) /\ Parent(r) = NoNode) <=> (p \in Below(r) /\ Parent(r) = NoNode)
  BY <1>3
<1>5. (CHOOSE r \in Node \ {Document} : n \in Below(r) /\ Parent(r) = NoNode)
       = (CHOOSE r \in Node \ {Document} : p \in Below(r) /\ Parent(r) = NoNode)
  BY <1>4
<1>6. QED
  BY <1>5 DEF RootOf, p

\* Names are texts.
LEMMA NameIsText ==
  ASSUME AttrTypeInv, NEW n \in Node
  PROVE  Name(n) \in Seq(Part) /\ Len(Name(n)) \in Nat /\ Len(Name(n)) >= 1
<1>1. attrs[n] \in [DOMAIN attrs[n] -> Value]
  BY AttrMapIs DEF AttrTypeInv
<1>2. Name(n) \in Value
  BY <1>1, AttrAssumption DEF Name, AttrOf, AttrExists
<1>3. Name(n) \in Seq(Part) /\ Name(n) # << >>
  BY <1>2, AttrAssumption
<1>4. QED
  BY <1>3

\* A text without a slash is its only part.
LEMMA OnlyPart ==
  ASSUME NEW text \in Seq(Part)
  PROVE  NoSlash(text) => <<text[1]>> = text
BY DEF NoSlash

\* Find comes to a node from its parent only.
LEMMA FoundFrom ==
  ASSUME TreeInv, NEW t \in Type, NEW x \in Node \cup {NoNode}, NEW name,
         NEW m \in Node, Parent(m) # NoNode,
         m = IF x = NoNode THEN NoNode ELSE FindName(x, t, name)
  PROVE  x = Parent(m)
<1>1. x \in Node /\ m # NoNode /\ m = FindName(x, t, name)
  BY TreeAssumption
<1>2. m \in Children(x)
  BY <1>1, FindNameIs
<1>3. QED
  BY <1>1, <1>2, ParentIs

\* Hence the names on the way up lead back, if they are not taken for paths.
LEMMA LeadsBack == TreeInv /\ AttrTypeInv => PathLeadsBack
<1> SUFFICES ASSUME TreeInv, AttrTypeInv, NEW n \in Handles, Parent(n) # NoNode
             PROVE  LET p == Parent(n)
                        q == Parent(p)
                    IN  /\ FindName(p, kind[n], Name(n)) = n <=> Twins(n) = {}
                        /\ Find(p, kind[n], Name(n)) = n <=> IsFound(n)
                        /\ q # NoNode /\ kind[p] = kind[n] =>
                             (Find(q, kind[n], Name(p) \o Name(n)) = n
                                <=> IsFound(n) /\ IsFound(p))
                        /\ RootOf(n) = RootOf(p)
  BY DEF PathLeadsBack
<1> DEFINE p == Parent(n)
           q == Parent(p)
<1>1. n \in Node /\ kind[n] \in Type /\ n # NoNode
  BY TreeAssumption DEF Handles
<1>2. p \in Node /\ n \in Children(p) /\ \A m \in Node : n \in Children(m) => m = p
  BY <1>1, ParentIs
<1>3. FindName(p, kind[n], Name(n)) = n <=> Twins(n) = {}
  BY NameLeadsBack
<1>4. Find(p, kind[n], Name(n)) = n <=> IsFound(n)
  <2>1. PICK text \in Seq(Part) : text = Name(n)
    BY <1>1, NameIsText
  <2>2. Len(text) \in Nat /\ Len(text) >= 1
    BY <1>1, <2>1, NameIsText
  <2>3. PICK w : GoesDown(w, p, kind[n], text)
    BY <1>1, <1>2, FindIs
  <2>4. CASE Len(text) = 1
    <3>1. w[0 + 1] = FindName(p, kind[n], <<text[0 + 1]>>)
      BY <1>2, <2>3, TreeAssumption DEF GoesDown
    <3>2. <<text[1]>> = text
      BY <2>4, OnlyPart DEF NoSlash
    <3>3. Find(p, kind[n], text) = FindName(p, kind[n], text)
      BY <2>3, <2>4, <3>1, <3>2 DEF GoesDown
    <3>4. QED
      BY <1>3, <2>1, <2>4, <3>3 DEF IsFound, NoSlash
  <2>5. CASE Len(text) # 1
    <3>1. PICK k \in Nat : Len(text) = (k + 1) + 1
      <4> DEFINE len == Len(text)
      <4>1. len \in Nat /\ len >= 1 /\ len # 1
        BY <2>2, <2>5
      <4> HIDE DEF len
      <4>2. len - 2 \in Nat /\ len = ((len - 2) + 1) + 1
        BY <4>1
      <4>3. QED
        BY <4>2 DEF len
    <3>2. w[(k + 1) + 1] # n
      <4>1. w[(k + 1) + 1] = IF w[k + 1] = NoNode THEN NoNode
                             ELSE FindName(w[k + 1], kind[n], <<text[(k + 1) + 1]>>)
        BY <2>3 DEF GoesDown
      <4>2. w[k + 1] \in Node \cup {NoNode} /\ w[k + 1] # p
        BY <2>3 DEF GoesDown
      <4>3. QED
        BY <1>1, <4>1, <4>2, FoundFrom
    <3>3. QED
      BY <2>1, <2>3, <2>5, <3>1, <3>2 DEF IsFound, NoSlash, GoesDown
  <2>6. QED
    BY <2>4, <2>5
<1>5. ASSUME q # NoNode, kind[p] = kind[n]
      PROVE  Find(q, kind[n], Name(p) \o Name(n)) = n <=> IsFound(n) /\ IsFound(p)
  <2>1. p \in Handles /\ q \in Node
    BY <1>1, <1>2, <1>5, ParentIs DEF Handles
  <2>2. PICK u \in Seq(Part), v \in Seq(Part) : u = Name(p) /\ v = Name(n)
    BY <1>1, <1>2, NameIsText
  <2>3. Len(u) \in Nat /\ Len(u) >= 1 /\ Len(v) \in Nat /\ Len(v) >= 1
    BY <1>1, <1>2, <2>2, NameIsText
  <2>4. PICK text : text = u \o v
    OBVIOUS
  <2>5. text \in Seq(Part) /\ Len(text) = Len(u) + Len(v)
    BY <2>4
  <2>6. PICK w : GoesDown(w, q, kind[n], text)
    BY <1>1, <2>1, FindIs
  <2>7. CASE Len(u) = 1 /\ Len(v) = 1
    <3> DEFINE r == FindName(q, kind[n], u)
    <3>1. <<text[1]>> = u /\ <<text[2]>> = v /\ Len(text) = 2
      <4>1. text[1] = u[1] /\ text[2] = v[1] /\ Len(text) = 2
        <5>1. \A i \in 1 .. Len(u) + Len(v) :
                (u \o v)[i] = IF i <= Len(u) THEN u[i] ELSE v[i - Len(u)]
          OBVIOUS
        <5>2. QED
          BY <2>4, <2>5, <2>7, <5>1
      <4>2. QED
        BY <2>7, <4>1, OnlyPart DEF NoSlash
    <3>2. w[0 + 1] = r
      <4>1. w[0 + 1] = FindName(q, kind[n], <<text[0 + 1]>>)
        BY <2>1, <2>6, TreeAssumption DEF GoesDown
      <4>2. QED
        BY <3>1, <4>1
    <3>3. w[1 + 1] = IF r = NoNode THEN NoNode ELSE FindName(r, kind[n], v)
      <4>1. w[1 + 1] = IF w[1] = NoNode THEN NoNode
                       ELSE FindName(w[1], kind[n], <<text[1 + 1]>>)
        BY <2>6 DEF GoesDown
      <4>2. w[1] = r
        BY <3>2
      <4>3. QED
        BY <3>1, <4>1, <4>2
    <3>4. Find(q, kind[n], text) = IF r = NoNode THEN NoNode ELSE FindName(r, kind[n], v)
      BY <2>6, <3>1, <3>3 DEF GoesDown
    <3>5. r = p <=> Twins(p) = {}
      BY <1>5, <2>1, <2>2, NameLeadsBack
    <3>6. r \in Node \cup {NoNode}
      BY <2>6, <3>2 DEF GoesDown
    <3>7. Find(q, kind[n], text) = n => r = p
      BY <1>1, <3>4, <3>6, FoundFrom
    <3>8. Find(q, kind[n], text) = n <=> Twins(n) = {} /\ Twins(p) = {}
      <4>1. p # NoNode
        OBVIOUS
      <4> HIDE DEF r, p
      <4>2. QED
        BY <1>3, <2>2, <3>4, <3>5, <3>7, <4>1
    <3>9. QED
      BY <2>2, <2>4, <2>7, <3>8 DEF IsFound, NoSlash
  <2>8. CASE ~(Len(u) = 1 /\ Len(v) = 1)
    <3>1. PICK k \in Nat : Len(text) = ((k + 1) + 1) + 1
      <4> DEFINE len == Len(text)
      <4>1. len \in Nat /\ len >= 3
        <5>1. PICK lu, lv : lu = Len(u) /\ lv = Len(v)
          OBVIOUS
        <5>2. /\ lu \in Nat /\ lu >= 1 /\ lv \in Nat /\ lv >= 1
              /\ ~(lu = 1 /\ lv = 1) /\ len = lu + lv
          BY <2>3, <2>5, <2>8, <5>1
        <5> HIDE DEF len
        <5>3. QED
          BY <5>2
      <4> HIDE DEF len
      <4>2. len - 3 \in Nat /\ len = (((len - 3) + 1) + 1) + 1
        BY <4>1
      <4>3. QED
        BY <4>2 DEF len
    <3> DEFINE i == k + 1
               j == i + 1
    <3>2. i \in Nat /\ j \in Nat /\ w[i] # q /\ w[i] \in Node \cup {NoNode}
          /\ w[j] \in Node \cup {NoNode}
      BY <2>6 DEF GoesDown
    <3>3. /\ w[j] = IF w[i] = NoNode THEN NoNode
                    ELSE FindName(w[i], kind[n], <<text[j]>>)
          /\ w[j + 1] = IF w[j] = NoNode THEN NoNode
                        ELSE FindName(w[j], kind[n], <<text[j + 1]>>)
      BY <2>6, <3>2 DEF GoesDown
    <3> HIDE DEF i, j
    <3>4. w[j + 1] # n
      <4>1. w[j + 1] = n => w[j] = p
        BY <1>1, <3>2, <3>3, FoundFrom
      <4>2. w[j] = p => w[i] = q
        BY <1>1, <1>2, <1>5, <3>2, <3>3, FoundFrom
      <4>3. QED
        BY <3>2, <4>1, <4>2
    <3>5. Find(q, kind[n], text) # n
      BY <2>6, <3>1, <3>4 DEF i, j, GoesDown
    <3>6. QED
      BY <2>2, <2>4, <2>8, <3>5 DEF IsFound, NoSlash
  <2>9. QED
    BY <2>7, <2>8
<1>6. RootOf(n) = RootOf(p)
  BY <1>1, RootIsShared
<1>7. QED
  BY <1>3, <1>4, <1>5, <1>6

-----------------------------------------------------------------------------
\* Activate.

\* Activate comes to whatever is under n with nothing but ENt_Node between: if m
\* is still inactive, a node on the way that is no ENt_Node has kept it from it.
LEMMA ActivateStep ==
  ASSUME TreeInv, AttrTypeInv, NEW n \in Node, Activate(n),
         NEW m \in Below(n) \cap Handles, AttrExists(m, "ENa_Inactive")'
  PROVE  \E a \in Below(n) : a # m /\ m \in Below(a) /\ kind[a] # "ENt_Node"
<1> DEFINE through == [x \in Node |-> IF kind[x] = "ENt_Node" THEN kids[x] ELSE << >>]
           T == {x \in Below(n) : m \in Below(x) => x \in Reach(through, n)}
<1>1. /\ kids \in Lists /\ Acyclic(kids)
  BY ForestIs DEF TreeInv, IsForest
<1>2. through \in Lists
  BY <1>1 DEF Lists
<1>3. m \in Node /\ m \in Handles /\ m \in Below(n) /\ Below(n) \subseteq Node
  BY DEF Below, Reach
<1>4. m \notin Reach(through, n)
  <2>1. attrs' = [x \in Node |-> IF x \in Visited(n) THEN Without("ENa_Inactive", x) ELSE attrs[x]]
    BY DEF Activate
  <2>2. "ENa_Inactive" \in DOMAIN (attrs'[m])
    BY DEF AttrExists
  <2>3. "ENa_Inactive" \notin DOMAIN Without("ENa_Inactive", m)
    BY <1>3, WithoutIs
  <2>4. m \notin Visited(n)
    BY <1>3, <2>1, <2>2, <2>3
  <2>5. QED
    BY <1>3, <2>4 DEF Visited
<1> HIDE DEF through
<1> SUFFICES ASSUME \A a \in Below(n) : a # m /\ m \in Below(a) => kind[a] = "ENt_Node"
             PROVE  FALSE
  OBVIOUS
<1>5. n \in T /\ T \in SUBSET Node
  BY <1>1, <1>2, <1>3, ReachIsClosed DEF Below
<1>6. Closed(kids, T)
  <2> SUFFICES ASSUME NEW x \in T, NEW y \in ToSet(kids[x]) PROVE y \in T
    BY DEF Closed
  <2>1. x \in Node /\ x \in Below(n) /\ y \in Node
    BY <1>1, <1>5, ToSetOfSeq DEF Lists
  <2>2. y \in Below(n)
    BY <1>1, <2>1, ReachIsClosed DEF Below, Closed
  <2>3. ASSUME m \in Below(y)
        PROVE  y \in Reach(through, n)
    <3>1. y \in Below(x)
      BY <1>1, <2>1, ReachIsClosed DEF Below, Closed
    <3>2. m \in Below(x)
      BY <1>1, <2>1, <2>3, <3>1, ReachIsTransitive DEF Below
    <3>3. x # m
      BY <1>1, <2>1, <2>3 DEF Acyclic, Below
    <3>4. kind[x] = "ENt_Node" /\ x \in Reach(through, n)
      BY <2>1, <3>2, <3>3
    <3>5. y \in ToSet(through[x])
      BY <2>1, <3>4 DEF through
    <3>6. QED
      BY <1>2, <3>4, <3>5, ReachIsClosed DEF Closed
  <2>4. QED
    BY <2>2, <2>3
<1>7. m \in T
  <2> HIDE DEF T
  <2>1. Below(n) \subseteq T
    BY <1>5, <1>6, ReachIsLeast DEF Below
  <2>2. QED
    BY <1>3, <2>1
<1>8. m \in Below(m)
  BY <1>1, <1>3, ReachIsClosed DEF Below
<1>9. QED
  BY <1>4, <1>7, <1>8

-----------------------------------------------------------------------------
\* Appending.

\* Only what is in the list decides.
LEMMA OnlySame ==
  ASSUME NEW S, NEW s \in Seq(S), NEW M, NEW N, \A x \in ToSet(s) : x \in M <=> x \in N
  PROVE  Only(s, M) = Only(s, N)
<1> DEFINE one(x, K) == IF x \in K THEN <<x>> ELSE << >>
<1>1. \A i \in DOMAIN s : one(s[i], M) = one(s[i], N)
  BY ToSetOfSeq
<1> HIDE DEF one
<1>2. [i \in DOMAIN s |-> one(s[i], M)] = [i \in DOMAIN s |-> one(s[i], N)]
  BY <1>1
<1>3. QED
  BY <1>2 DEF Only, one

\* The mutations of a node are those of its list, in its order.
MutsAre == \A p \in Node : Muts(p) = [i \in DOMAIN Listed(p) |-> ToMut(Listed(p)[i])]

\* Read by index, the mutations of a node are those of its list.
LEMMA MutsIs == TreeInv => MutsAre
<1> SUFFICES ASSUME TreeInv, NEW p \in Node
             PROVE  Muts(p) = [i \in DOMAIN Listed(p) |-> ToMut(Listed(p)[i])]
  BY DEF MutsAre
<1>1. Listed(p) \in Seq(Node) /\ Len(Listed(p)) \in Nat
  BY ListedIs
<1>2. ASSUME NEW i \in DOMAIN Listed(p)
      PROVE  At(p, i - 1) = Listed(p)[i]
  <2>1. i \in 1 .. Len(Listed(p))
    BY <1>1
  <2>2. i - 1 \in Nat /\ i - 1 < Len(Listed(p)) /\ (i - 1) + 1 = i
    BY <1>1, <2>1
  <2>3. QED
    BY <2>2, AtIs
<1>3. QED
  BY <1>2 DEF Muts

\* AddMut puts the mutation behind those of the list, where At counts it last.
LEMMA AddMutStep ==
  ASSUME TreeInv, AttrTypeInv, MutsAre, MutsAre', NEW p \in Node, NEW n \in Node, NEW mut \in Mut,
         AddMut(p, mut, n)
  PROVE  Muts(p)' = IF mut.type \in Type THEN Append(Muts(p), mut) ELSE Muts(p)
<1> DEFINE t == IF mut.type \in Type THEN mut.type ELSE "text"
<1>1. AddChildNew(p, t, n) /\ attrs' = [attrs EXCEPT ![n] = mut.attrs]
  BY DEF AddMut
<1>2. /\ kind[n] = "unused" /\ kind \in [Node -> Kind] /\ kind' = [kind EXCEPT ![n] = t]
      /\ kids \in Lists /\ kids' = [kids EXCEPT ![p] = Append(@, n)]
  BY <1>1 DEF AddChildNew, Under, TreeInv
<1>3. mut.type \in Type \cup {"ENt_Unknown"} /\ mut = [type |-> mut.type, attrs |-> mut.attrs]
  BY AttrAssumption
<1> HIDE DEF t
<1>4. PICK s, s2, H, H2 : /\ s = kids[p] /\ s2 = Listed(p) /\ H = Handles
                          /\ H2 = {m \in Node : kind'[m] \in Type}
  OBVIOUS
<1>5. s \in Seq(Node) /\ s2 \in Seq(Node) /\ s2 = Only(s, H)
  BY <1>2, <1>4, ListedIs DEF Lists, Listed
<1>6. /\ n \notin H /\ n \notin ToSet(s)
      /\ \A m \in Node : m # n => (m \in H <=> m \in H2)
      /\ n \in H2 <=> mut.type \in Type
  <2>1. n \notin ToSet(s)
    BY <1>2, <1>4, ForestIs DEF TreeInv, IsForest, IsMade
  <2>2. t \in Type <=> mut.type \in Type
    BY <1>3, TreeAssumption DEF t
  <2>3. QED
    BY <1>2, <1>4, <2>1, <2>2, TreeAssumption DEF Handles
<1>7. Only(s, H2) = s2
  <2>1. \A x \in ToSet(s) : x \in H <=> x \in H2
    BY <1>5, <1>6, ToSetOfSeq
  <2>2. QED
    BY <1>5, <2>1, OnlySame
<1>8. Listed(p)' = IF n \in H2 THEN Append(s2, n) ELSE s2
  <2>1. Listed(p)' = Only(Append(s, n), H2)
    BY <1>2, <1>4 DEF Listed, Handles, Lists
  <2>2. Only(Append(s, n), H2) = IF n \in H2 THEN Append(Only(s, H2), n) ELSE Only(s, H2)
    BY <1>5, OnlyOf
  <2>3. QED
    BY <1>7, <2>1, <2>2
<1>9. \A i \in DOMAIN s2 : s2[i] \in Node /\ s2[i] \in H
  <2>1. \A m \in ToSet(s2) : m \in Handles
    BY <1>4, ListedIs
  <2>2. QED
    BY <1>4, <1>5, <2>1, ToSetOfSeq
<1> DEFINE u(m) == [type |-> kind[m], attrs |-> attrs[m]]
           v(m) == [type |-> kind'[m], attrs |-> attrs'[m]]
<1>10. \A m \in Node : m # n => v(m) = u(m)
  BY <1>1, <1>2 DEF AttrTypeInv
<1>11. mut.type \in Type => v(n) = mut
  BY <1>1, <1>2, <1>3 DEF AttrTypeInv, t
<1>12. Muts(p) = [i \in DOMAIN s2 |-> u(s2[i])]
  BY <1>4 DEF MutsAre, ToMut
<1>13. Muts(p)' = [i \in DOMAIN (Listed(p)') |-> v(Listed(p)'[i])]
  BY DEF MutsAre, ToMut
<1> HIDE DEF u, v
<1>14. \A i \in DOMAIN s2 : v(s2[i]) = u(s2[i])
  BY <1>6, <1>9, <1>10
<1>15. CASE mut.type \notin Type
  <2>1. Listed(p)' = s2
    BY <1>6, <1>8, <1>15
  <2>2. Muts(p)' = [i \in DOMAIN s2 |-> u(s2[i])]
    BY <1>13, <1>14, <2>1
  <2>3. QED
    BY <1>12, <1>15, <2>2
<1>16. CASE mut.type \in Type
  <2>1. PICK a, b : a = Append(s2, n) /\ b = [i \in DOMAIN s2 |-> u(s2[i])]
    OBVIOUS
  <2>2. /\ a \in Seq(Node) /\ Len(a) = Len(s2) + 1 /\ Len(s2) \in Nat
        /\ \A i \in 1 .. Len(s2) : a[i] = s2[i]
        /\ a[Len(s2) + 1] = n
    BY <1>5, <2>1
  <2>3. Muts(p)' = [i \in 1 .. Len(s2) + 1 |-> v(a[i])]
    BY <1>6, <1>8, <1>13, <1>16, <2>1, <2>2
  <2>4. /\ b \in Seq({u(m) : m \in Node}) /\ Len(b) = Len(s2)
        /\ \A i \in 1 .. Len(s2) : b[i] = u(s2[i])
    BY <1>5, <1>9, <2>1
  <2>5. Append(b, mut) = [i \in 1 .. Len(s2) + 1 |-> IF i = Len(s2) + 1 THEN mut ELSE b[i]]
    <3>1. PICK c, B : c = Append(b, mut) /\ B = {u(m) : m \in Node} \cup {mut}
      OBVIOUS
    <3>2. b \in Seq(B) /\ mut \in B
      BY <2>4, <3>1
    <3>3. /\ c \in Seq(B) /\ Len(c) = Len(s2) + 1 /\ c[Len(s2) + 1] = mut
          /\ \A i \in 1 .. Len(s2) : c[i] = b[i]
      BY <2>4, <3>1, <3>2
    <3>4. c = [i \in 1 .. Len(s2) + 1 |-> c[i]]
      BY <2>2, <3>3
    <3>5. \A i \in 1 .. Len(s2) + 1 : c[i] = IF i = Len(s2) + 1 THEN mut ELSE b[i]
      BY <2>2, <3>3
    <3>6. QED
      BY <3>1, <3>4, <3>5
  <2>6. ASSUME NEW i \in 1 .. Len(s2) + 1
        PROVE  v(a[i]) = IF i = Len(s2) + 1 THEN mut ELSE b[i]
    <3>1. CASE i = Len(s2) + 1
      BY <1>11, <1>16, <2>2, <3>1
    <3>2. CASE i # Len(s2) + 1
      <4>1. i \in 1 .. Len(s2) /\ i \in DOMAIN s2
        BY <1>5, <2>2, <3>2
      <4>2. QED
        BY <1>14, <2>2, <2>4, <3>2, <4>1
    <3>3. QED
      BY <3>1, <3>2
  <2>7. Muts(p)' = Append(b, mut)
    BY <2>3, <2>5, <2>6
  <2>8. QED
    BY <1>12, <1>16, <2>1, <2>7
<1>17. QED
  BY <1>15, <1>16

-----------------------------------------------------------------------------
\* The theorems.

\* What is appended, copied, moved and freed leaves a tree, for any document
\* and any mutations.
THEOREM AttrIsForest == AttrSpec => []IsForest
<1>1. AttrIInv => IsForest
  BY TreeIInvImplies DEF AttrIInv
<1>2. QED
  BY <1>1, AttrInductive, PTL

\* At(i), with which StateBmut reads the file on and on, is the mutation number
\* i of the node, and NoNode behind the last one.
THEOREM AttrAtIsIndex == AttrSpec => []AtIsIndex
<1>1. AttrIInv => AtIsIndex
  BY IndexIs DEF AttrIInv, TreeIInv, TypeInv
<1>2. QED
  BY <1>1, AttrInductive, PTL

\* The names on the way up from a mutation lead down to it again, unless one
\* before it, or before its parent, has the same type and name.
THEOREM AttrPathLeadsBack == AttrSpec => []PathLeadsBack
<1>1. AttrIInv => PathLeadsBack
  BY LeadsBack DEF AttrIInv, TreeIInv, TypeInv
<1>2. QED
  BY <1>1, AttrInductive, PTL

\* After Activate nothing is inactive under the node, but what is under a
\* mutation that is no ENt_Node.
THEOREM AttrActivateReaches == AttrSpec => ActivateReaches
<1>1. AttrIInv => (\A n \in Node : Activate(n) =>
         \A m \in Below(n) \cap Handles :
           AttrExists(m, "ENa_Inactive")' =>
             \E a \in Below(n) : a # m /\ m \in Below(a) /\ kind[a] # "ENt_Node")
  BY ActivateStep DEF AttrIInv, TreeIInv, TypeInv
<1>2. QED
  BY <1>1, AttrInductive, PTL DEF ActivateReaches

\* A TMut that is appended is read back as it was by the next index, and those
\* before it stay as they were.
THEOREM AttrMutsAppended == AttrSpec => MutsAppended
<1>1. AttrIInv => MutsAre
  BY MutsIs DEF AttrIInv, TreeIInv, TypeInv
<1>2. AttrIInv /\ MutsAre /\ MutsAre' =>
        \A p, n \in Node, mut \in Mut :
          AddMut(p, mut, n) =>
            Muts(p)' = IF mut.type \in Type THEN Append(Muts(p), mut) ELSE Muts(p)
  BY AddMutStep DEF AttrIInv, TreeIInv, TypeInv
<1>3. QED
  BY <1>1, <1>2, AttrInductive, PTL DEF MutsAppended

=============================================================================
