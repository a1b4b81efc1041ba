-------------------------- MODULE ChromoTreeProofs --------------------------
(***************************************************************************)
(* Proof that the calls of ChromoNode keep the nodes a tree, and that an   *)
(* iterator passes every child that stays, for any document, any number of *)
(* nodes and types, and any order of the calls.  The changes are looked at *)
(* once each, for what they move: the order of everything else stays, which *)
(* is all that an iterator depends on.                                     *)
(***************************************************************************)
EXTENDS ChromoTree, ListLemmas

-----------------------------------------------------------------------------
\* What is under a node.

\* S has with a node its children.
Closed(ks, S) == \A m \in S : ToSet(ks[m]) \subseteq S

Lists == [Node -> Seq(Node)]

\* No node is under itself.
Acyclic(ks) == \A p \in Node : \A n \in ToSet(ks[p]) : p \notin Reach(ks, n)

\* What is under n is in every set that has n and with a node its children.
LEMMA ReachIsLeast ==
  ASSUME NEW ks, NEW n \in Node, NEW S \in SUBSET Node, n \in S, Closed(ks, S)
  PROVE  Reach(ks, n) \subseteq S
  BY DEF Reach, Closed

\* It is such a set itself.
LEMMA ReachIsClosed ==
  ASSUME NEW ks \in Lists, NEW n \in Node
  PROVE  /\ n \in Reach(ks, n) /\ Reach(ks, n) \subseteq Node
         /\ Closed(ks, Reach(ks, n))
<1>1. n \in Reach(ks, n) /\ Reach(ks, n) \subseteq Node
  BY DEF Reach
<1>2. ASSUME NEW m \in Reach(ks, n), NEW x \in ToSet(ks[m])
      PROVE  x \in Reach(ks, n)
  <2>1. x \in Node
    BY <1>1, <1>2, ToSetOfSeq DEF Lists
  <2>2. ASSUME NEW S \in SUBSET Node, n \in S, \A y \in S : ToSet(ks[y]) \subseteq S
        PROVE  x \in S
    BY <2>2, <1>2 DEF Reach
  <2>3. QED
    BY <2>1, <2>2 DEF Reach
<1>3. QED
  BY <1>1, <1>2 DEF Closed

\* Whatever is under n but n itself is the child of something under n.
LEMMA ReachByParent ==
  ASSUME NEW ks \in Lists, NEW n \in Node, NEW m \in Reach(ks, n), m # n
  PROVE  \E p \in Reach(ks, n) : m \in ToSet(ks[p])
<1> DEFINE S == {x \in Reach(ks, n) : x = n \/ \E p \in Reach(ks, n) : x \in ToSet(ks[p])}
<1>1. n \in S /\ S \in SUBSET Node
  BY ReachIsClosed
<1>2. Closed(ks, S)
  BY ReachIsClosed DEF Closed
<1> HIDE DEF S
<1>3. m \in S
  BY <1>1, <1>2, ReachIsLeast
<1>4. QED
  BY <1>3 DEF S

\* What is under something that is under n is under n.
LEMMA ReachIsTransitive ==
  ASSUME NEW ks \in Lists, NEW n \in Node, NEW m \in Reach(ks, n)
  PROVE  Reach(ks, m) \subseteq Reach(ks, n)
  BY ReachIsClosed, ReachIsLeast

\* Taking children away makes no cycle.
LEMMA FewerChildren ==
  ASSUME NEW ks \in Lists, NEW ks2 \in Lists,
         \A m \in Node : ToSet(ks2[m]) \subseteq ToSet(ks[m])
  PROVE  /\ \A n \in Node : Reach(ks2, n) \subseteq Reach(ks, n)
         /\ Acyclic(ks) => Acyclic(ks2)
<1>1. ASSUME NEW n \in Node
      PROVE  Reach(ks2, n) \subseteq Reach(ks, n)
  <2> DEFINE S == Reach(ks, n)
  <2>1. n \in S /\ S \in SUBSET Node /\ Closed(ks, S)
    BY ReachIsClosed
  <2> HIDE DEF S
  <2>2. Closed(ks2, S)
    BY <2>1 DEF Closed
  <2>3. QED
    BY <2>1, <2>2, ReachIsLeast DEF S
<1>2. ASSUME Acyclic(ks)
      PROVE  Acyclic(ks2)
  <2> SUFFICES ASSUME NEW p \in Node, NEW n \in ToSet(ks2[p])
               PROVE  p \notin Reach(ks2, n)
    BY DEF Acyclic
  <2>1. n \in ToSet(ks[p]) /\ n \in Node
    BY ToSetOfSeq DEF Lists
  <2>2. QED
    BY <1>1, <1>2, <2>1 DEF Acyclic
<1>3. QED
  BY <1>1, <1>2

\* Nor does putting n under p, when p is not under n.
LEMMA OneMoreChild ==
  ASSUME NEW ks \in Lists, NEW ks2 \in Lists, NEW p \in Node, NEW n \in Node,
         \A m \in Node \ {p} : ToSet(ks2[m]) \subseteq ToSet(ks[m]),
         ToSet(ks2[p]) \subseteq ToSet(ks[p]) \cup {n},
         p \notin Reach(ks, n), Acyclic(ks)
  PROVE  Acyclic(ks2)
<1> SUFFICES ASSUME NEW q \in Node, NEW m \in ToSet(ks2[q])
             PROVE  q \notin Reach(ks2, m)
  BY DEF Acyclic
<1>1. m \in Node
  BY ToSetOfSeq DEF Lists
<1> DEFINE N == Reach(ks, n)
           S == Reach(ks, m)
<1>2. /\ n \in N /\ N \in SUBSET Node /\ Closed(ks, N)
      /\ m \in S /\ S \in SUBSET Node /\ Closed(ks, S)
  BY <1>1, ReachIsClosed
<1>3. m \in ToSet(ks[q]) => q \notin S
  BY DEF Acyclic
<1>4. p \notin N
  OBVIOUS
<1> HIDE DEF N, S
<1>5. Closed(ks2, N)
  BY <1>2, <1>4 DEF Closed
<1>6. CASE m \in N
  <2>1. Closed(ks2, N \cap S)
    BY <1>2, <1>4 DEF Closed
  <2>2. Reach(ks2, m) \subseteq N \cap S
    BY <1>1, <1>2, <1>6, <2>1, ReachIsLeast
  <2>3. CASE m \in ToSet(ks[q])
    BY <1>3, <2>2, <2>3
  <2>4. CASE m \notin ToSet(ks[q])
    <3>1. q = p
      BY <2>4
    <3>2. QED
      BY <1>4, <2>2, <3>1
  <2>5. QED
    BY <2>3, <2>4
<1>7. CASE m \notin N
  <2>1. m \in ToSet(ks[q])
    BY <1>2, <1>7
  <2>2. q \notin S /\ q \notin N
    BY <1>2, <1>3, <1>7, <2>1 DEF Closed
  <2>3. Closed(ks2, N \cup S)
    BY <1>2 DEF Closed
  <2>4. Reach(ks2, m) \subseteq N \cup S
    BY <1>1, <1>2, <2>3, ReachIsLeast
  <2>5. QED
    BY <2>2, <2>4
<1>8. QED
  BY <1>6, <1>7

\* The node is in use: it was read or made, and is not freed.
IsMade(kd, n) == kd[n] \notin {"unused", "freed"}

\* The parts of Forest by name.
LEMMA ForestIs ==
  ASSUME NEW kd, NEW ks
  PROVE  Forest(kd, ks) <=>
           /\ \A p \in Node : Once(ks[p])
           /\ \A p, q \in Node : p # q => ToSet(ks[p]) \cap ToSet(ks[q]) = {}
           /\ \A p \in Node : \A n \in ToSet(ks[p]) : IsMade(kd, n) /\ IsMade(kd, p)
           /\ Acyclic(ks)
  BY DEF Forest, Once, Acyclic, IsMade

-----------------------------------------------------------------------------
\* Trees.

\* A tree stays one when kinds change but for those of the nodes in it.
LEMMA ForestKinds ==
  ASSUME NEW kd, NEW kd2, NEW ks \in Lists, Forest(kd, ks),
         \A n \in Node : IsMade(kd, n) => IsMade(kd2, n)
  PROVE  Forest(kd2, ks)
<1>1. \A p \in Node : ToSet(ks[p]) \subseteq Node
  BY ToSetOfSeq DEF Lists
<1>2. QED
  BY <1>1, ForestIs

\* Putting n, which is nobody's child, into the list of p leaves a tree when p is
\* not under n.
LEMMA ForestAdd ==
  ASSUME NEW kd, NEW ks \in Lists, Forest(kd, ks), NEW p \in Node, NEW n \in Node,
         NEW s \in Seq(Node), Once(s), ToSet(s) = ToSet(ks[p]) \cup {n},
         \A m \in Node : n \notin ToSet(ks[m]),
         p \notin Reach(ks, n), IsMade(kd, p), IsMade(kd, n)
  PROVE  Forest(kd, [ks EXCEPT ![p] = s])
<1> DEFINE ks2 == [ks EXCEPT ![p] = s]
<1>1. /\ ks2 \in Lists
      /\ \A m \in Node : ks2[m] = IF m = p THEN s ELSE ks[m]
  BY DEF Lists
<1> HIDE DEF ks2
<1>2. Acyclic(ks)
  BY ForestIs
<1>3. Acyclic(ks2)
  BY <1>1, <1>2, OneMoreChild
<1>4. \A q \in Node : Once(ks2[q])
  BY <1>1, ForestIs
<1>5. \A q \in Node : ToSet(ks2[q]) = IF q = p THEN ToSet(ks[p]) \cup {n} ELSE ToSet(ks[q])
  BY <1>1
<1>6. \A q, r \in Node : q # r => ToSet(ks2[q]) \cap ToSet(ks2[r]) = {}
  BY <1>5, ForestIs
<1>7. \A q \in Node : \A m \in ToSet(ks2[q]) : IsMade(kd, m) /\ IsMade(kd, q)
  BY <1>5, ForestIs
<1>8. QED
  BY <1>3, <1>4, <1>6, <1>7, ForestIs DEF ks2

-----------------------------------------------------------------------------
\* What a change of the lists keeps.

\* Nothing but what is in S leaves its list or changes its place among the others.
Kept(ks, ks2, S) ==
  /\ \A m \in Node : ToSet(ks[m]) \ S \subseteq ToSet(ks2[m])
  /\ \A m \in Node : \A x, y \in Node \ S : Ahead(ks[m], x, y) => Ahead(ks2[m], x, y)

\* A change of one list, by which S leaves it or moves in it.
LEMMA KeptInOne ==
  ASSUME NEW ks \in Lists, NEW p \in Node, NEW s, NEW S,
         ToSet(ks[p]) \ S \subseteq ToSet(s),
         \A x, y \in Node \ S : Ahead(ks[p], x, y) => Ahead(s, x, y)
  PROVE  Kept(ks, [ks EXCEPT ![p] = s], S)
<1> DEFINE ks2 == [ks EXCEPT ![p] = s]
<1>1. \A m \in Node : ks2[m] = IF m = p THEN s ELSE ks[m]
  BY DEF Lists
<1> HIDE DEF ks2
<1>2. \A m \in Node : ToSet(ks[m]) \ S \subseteq ToSet(ks2[m])
  BY <1>1
<1>3. \A m \in Node : \A x, y \in Node \ S : Ahead(ks[m], x, y) => Ahead(ks2[m], x, y)
  BY <1>1
<1>4. QED
  BY <1>2, <1>3 DEF Kept, ks2

\* One such change after the other.
LEMMA KeptAgain ==
  ASSUME NEW ks, NEW ks2, NEW ks3, NEW S, NEW T,
         Kept(ks, ks2, S), Kept(ks2, ks3, T)
  PROVE  Kept(ks, ks3, S \cup T)
  BY DEF Kept

\* A tree stays one when nodes leave their lists, and those that stay are made.
LEMMA FewerNodes ==
  ASSUME NEW kd, NEW kd2, NEW ks \in Lists, NEW ks2 \in Lists, Forest(kd, ks),
         \A m \in Node : Once(ks2[m]) /\ ToSet(ks2[m]) \subseteq ToSet(ks[m]),
         \A m \in Node : \A x \in ToSet(ks2[m]) : IsMade(kd2, m) /\ IsMade(kd2, x)
  PROVE  Forest(kd2, ks2)
<1>1. Acyclic(ks2)
  BY FewerChildren, ForestIs
<1>2. \A q, r \in Node : q # r => ToSet(ks2[q]) \cap ToSet(ks2[r]) = {}
  BY ForestIs
<1>3. QED
  BY <1>1, <1>2, ForestIs

\* Unlink leaves a tree, in which n is nobody's child any more.
LEMMA UnlinkMakes ==
  ASSUME NEW kd, NEW ks \in Lists, Forest(kd, ks), NEW n \in Node
  PROVE  /\ Unlink(ks, n) \in Lists
         /\ Forest(kd, Unlink(ks, n))
         /\ \A m \in Node : ToSet(Unlink(ks, n)[m]) = ToSet(ks[m]) \ {n}
         /\ Kept(ks, Unlink(ks, n), {n})
<1> DEFINE ks2 == Unlink(ks, n)
<1>1. \A m \in Node : ks2[m] = RemoveFirst(ks[m], n)
  BY DEF Unlink
<1>2. ASSUME NEW m \in Node
      PROVE  /\ ks2[m] \in Seq(Node) /\ Once(ks2[m]) /\ ToSet(ks2[m]) = ToSet(ks[m]) \ {n}
             /\ \A x, y : Ahead(ks[m], x, y) /\ x # n /\ y # n => Ahead(ks2[m], x, y)
  <2>1. ks[m] \in Seq(Node) /\ Once(ks[m])
    BY ForestIs DEF Lists
  <2>2. QED
    BY <1>1, <2>1, Removed
<1>3. ks2 \in Lists
  BY <1>2 DEF Unlink, Lists
<1> HIDE DEF ks2
<1>4. Forest(kd, ks2)
  <2>1. \A m \in Node : \A x \in ToSet(ks2[m]) : IsMade(kd, m) /\ IsMade(kd, x)
    BY <1>2, ForestIs
  <2>2. \A m \in Node : Once(ks2[m]) /\ ToSet(ks2[m]) \subseteq ToSet(ks[m])
    BY <1>2
  <2>3. QED
    BY <1>3, <2>1, <2>2, FewerNodes
<1>5. Kept(ks, ks2, {n})
  BY <1>2 DEF Kept
<1>6. QED
  BY <1>2, <1>3, <1>4, <1>5 DEF ks2

\* n is nobody's child, and p not under it.
\* n can be put under p without making a cycle, or beside a child of p.
CanPut(kd, ks, p, n) ==
  /\ \A m \in Node : n \notin ToSet(ks[m])
  /\ p \notin Reach(ks, n)
  /\ IsMade(kd, p) /\ IsMade(kd, n)

\* A node that is not attached and not over p can be put under p.
LEMMA UnderMakes ==
  ASSUME NEW kd, NEW ks \in Lists, Forest(kd, ks), NEW p \in Node, NEW n \in Node,
         CanPut(kd, ks, p, n)
  PROVE  /\ Under(ks, p, n) \in Lists
         /\ Forest(kd, Under(ks, p, n))
         /\ Kept(ks, Under(ks, p, n), {})
<1> DEFINE s == Append(ks[p], n)
<1>1. ks[p] \in Seq(Node) /\ Once(ks[p]) /\ n \notin ToSet(ks[p])
  BY ForestIs DEF CanPut, Lists
<1>2. /\ s \in Seq(Node) /\ Once(s) /\ ToSet(s) = ToSet(ks[p]) \cup {n}
      /\ \A x, y : Ahead(ks[p], x, y) => Ahead(s, x, y)
  BY <1>1, Appended
<1>3. Under(ks, p, n) = [ks EXCEPT ![p] = s]
  BY DEF Under, Lists
<1> HIDE DEF s
<1>4. [ks EXCEPT ![p] = s] \in Lists
  BY <1>2 DEF Lists
<1>5. Forest(kd, [ks EXCEPT ![p] = s])
  BY <1>2, ForestAdd DEF CanPut
<1>6. Kept(ks, [ks EXCEPT ![p] = s], {})
  BY <1>2, KeptInOne
<1>7. QED
  BY <1>3, <1>4, <1>5, <1>6

\* And before or behind a child d of p.
LEMMA BesideMakes ==
  ASSUME NEW kd, NEW ks \in Lists, Forest(kd, ks), NEW p \in Node, NEW n \in Node,
         NEW d \in ToSet(ks[p]), NEW after \in {0, 1}, CanPut(kd, ks, p, n)
  PROVE  /\ Beside(ks, d, n, after) \in Lists
         /\ Forest(kd, Beside(ks, d, n, after))
         /\ Kept(ks, Beside(ks, d, n, after), {})
<1> DEFINE at == SelectInSeq(ks[p], LAMBDA x : x = d)
           s  == InsertAt(ks[p], at + after, n)
<1>1. ks[p] \in Seq(Node) /\ Once(ks[p]) /\ n \notin ToSet(ks[p])
  BY ForestIs DEF CanPut, Lists
<1>2. at \in 1 .. Len(ks[p])
  BY <1>1, Position
<1>3. \A m \in Node : d \in ToSet(ks[m]) <=> m = p
  BY ForestIs
<1>4. Beside(ks, d, n, after) = [ks EXCEPT ![p] = s]
  BY <1>3 DEF Beside, Lists
<1> HIDE DEF at
<1>5. at + after \in 1 .. Len(ks[p]) + 1
  BY <1>1, <1>2
<1>6. /\ s \in Seq(Node) /\ Once(s) /\ ToSet(s) = ToSet(ks[p]) \cup {n}
      /\ \A x, y : Ahead(ks[p], x, y) => Ahead(s, x, y)
  BY <1>1, <1>5, InsertedOnce
<1> HIDE DEF s
<1>7. [ks EXCEPT ![p] = s] \in Lists
  BY <1>6 DEF Lists
<1>8. Forest(kd, [ks EXCEPT ![p] = s])
  BY <1>6, ForestAdd DEF CanPut
<1>9. Kept(ks, [ks EXCEPT ![p] = s], {})
  BY <1>6, KeptInOne
<1>10. QED
  BY <1>4, <1>7, <1>8, <1>9

-----------------------------------------------------------------------------
\* Copies.

\* A node that is not in the tree has nothing under it and is nobody's child.
LEMMA NotMade ==
  ASSUME NEW kd, NEW ks \in Lists, Forest(kd, ks), NEW n \in Node, ~IsMade(kd, n)
  PROVE  /\ \A m \in Node : n \notin ToSet(ks[m])
         /\ ToSet(ks[n]) = {}
         /\ Reach(ks, n) = {n}
<1>1. (\A m \in Node : n \notin ToSet(ks[m])) /\ ToSet(ks[n]) = {}
  BY ForestIs
<1>2. Closed(ks, {n})
  BY <1>1 DEF Closed
<1>3. Reach(ks, n) = {n}
  BY <1>2, ReachIsLeast, ReachIsClosed
<1>4. QED
  BY <1>1, <1>3

\* f copies some nodes to new ones, one to each.
Copying(f) ==
  /\ DOMAIN f \subseteq Node
  /\ f \in [DOMAIN f -> {m \in Node : kind[m] = "unused"}]
  /\ \A a, b \in DOMAIN f : f[a] = f[b] => a = b

\* What a copy has: a new node the kind of the one it is a copy of, and copies of
\* its children, if all of them are copied.
LEMMA CopiedIs ==
  ASSUME NEW f, Copying(f), kids \in Lists
  PROVE  LET new == {f[a] : a \in DOMAIN f}
         IN  /\ \A m \in Node \ new : Copied(f).kind[m] = kind[m] /\ Copied(f).kids[m] = kids[m]
             /\ \A a \in DOMAIN f :
                  /\ Copied(f).kind[f[a]] = kind[a]
                  /\ Copied(f).kids[f[a]] = IF Children(a) \subseteq DOMAIN f
                                              THEN [i \in DOMAIN kids[a] |-> f[kids[a][i]]]
                                              ELSE << >>
<1> DEFINE From(m) == CHOOSE a \in DOMAIN f : f[a] = m
           new == {f[a] : a \in DOMAIN f}
<1>1. \A a \in DOMAIN f : From(f[a]) = a
  BY DEF Copying
<1>2. Copied(f) =
        [kind |-> [m \in Node |-> IF m \in new THEN kind[From(m)] ELSE kind[m]],
         kids |-> [m \in Node |->
                     IF m \notin new THEN kids[m]
                     ELSE IF Children(From(m)) \subseteq DOMAIN f
                       THEN [i \in DOMAIN kids[From(m)] |-> f[kids[From(m)][i]]]
                       ELSE << >>]]
  BY DEF Copied
<1>3. \A a \in DOMAIN f : f[a] \in new /\ f[a] \in Node
  BY DEF Copying
<1> HIDE DEF From, new
<1>4. \A m \in Node \ new : Copied(f).kind[m] = kind[m] /\ Copied(f).kids[m] = kids[m]
  BY <1>2
<1>5. \A a \in DOMAIN f :
        /\ Copied(f).kind[f[a]] = kind[a]
        /\ Copied(f).kids[f[a]] = IF Children(a) \subseteq DOMAIN f
                                    THEN [i \in DOMAIN kids[a] |-> f[kids[a][i]]]
                                    ELSE << >>
  BY <1>1, <1>2, <1>3
<1>6. QED
  BY <1>4, <1>5 DEF new

\* A copy leaves a tree, and what is under the copies are copies.
LEMMA CopiedMakes ==
  ASSUME NEW f, Copying(f), kind \in [Node -> Kind], kids \in Lists, Forest(kind, kids),
         \A a \in DOMAIN f : IsMade(kind, a)
  PROVE  LET new == {f[a] : a \in DOMAIN f}
         IN  /\ Copied(f).kind \in [Node -> Kind] /\ Copied(f).kids \in Lists
             /\ Forest(Copied(f).kind, Copied(f).kids)
             /\ Kept(kids, Copied(f).kids, {})
             /\ \A a \in DOMAIN f : IsMade(Copied(f).kind, f[a])
             /\ \A a \in DOMAIN f : Reach(Copied(f).kids, f[a]) \subseteq new
             /\ \A p \in Node : \A n \in ToSet(Copied(f).kids[p]) :
                  \/ p \notin new /\ n \notin new /\ n \in ToSet(kids[p])
                  \/ \E a, b \in DOMAIN f : p = f[a] /\ n = f[b] /\ b \in Children(a)
<1> DEFINE new == {f[a] : a \in DOMAIN f}
           kd == Copied(f).kind
           ks == Copied(f).kids
           tail(a) == IF Children(a) \subseteq DOMAIN f
                        THEN [i \in DOMAIN kids[a] |-> f[kids[a][i]]] ELSE << >>
<1>1. /\ \A m \in Node \ new : kd[m] = kind[m] /\ ks[m] = kids[m]
      /\ \A a \in DOMAIN f : kd[f[a]] = kind[a] /\ ks[f[a]] = tail(a)
  BY CopiedIs
<1>2. kd = [m \in Node |-> kd[m]] /\ ks = [m \in Node |-> ks[m]]
  BY DEF Copied
<1>3. /\ \A a \in DOMAIN f : a \in Node /\ f[a] \in new
      /\ \A m \in new : m \in Node /\ kind[m] = "unused" /\ \E a \in DOMAIN f : m = f[a]
      /\ \A a, b \in DOMAIN f : f[a] = f[b] => a = b
  BY DEF Copying
<1> HIDE DEF kd, ks, new
<1>4. ASSUME NEW a \in DOMAIN f
      PROVE  /\ tail(a) \in Seq(Node) /\ Once(tail(a))
             /\ \A x \in ToSet(tail(a)) : \E b \in DOMAIN f : b \in Children(a) /\ x = f[b]
  <2>1. kids[a] \in Seq(Node) /\ Once(kids[a]) /\ DOMAIN kids[a] = 1 .. Len(kids[a])
    BY <1>3, ForestIs DEF Lists
  <2>2. CASE Children(a) \subseteq DOMAIN f
    <3> DEFINE t == [i \in 1 .. Len(kids[a]) |-> f[kids[a][i]]]
    <3>1. tail(a) = t
      BY <2>1, <2>2
    <3>2. \A i \in 1 .. Len(kids[a]) : kids[a][i] \in Children(a) /\ kids[a][i] \in DOMAIN f
      BY <2>1, <2>2 DEF Children, ToSet
    <3>3. \A i \in 1 .. Len(kids[a]) : f[kids[a][i]] \in Node
      BY <1>3, <3>2
    <3>4. t \in Seq(Node) /\ Len(t) = Len(kids[a])
      BY <2>1, <3>3
    <3>5. Once(t)
      BY <1>3, <2>1, <3>2, <3>4 DEF Once
    <3>6. \A x \in ToSet(t) : \E b \in DOMAIN f : b \in Children(a) /\ x = f[b]
      BY <3>2 DEF ToSet
    <3>7. QED
      BY <3>1, <3>4, <3>5, <3>6
  <2>3. CASE ~(Children(a) \subseteq DOMAIN f)
    BY <2>3 DEF Once, ToSet
  <2>4. QED
    BY <2>2, <2>3
<1>5. kd \in [Node -> Kind] /\ ks \in Lists
  <2>1. \A m \in Node : kd[m] \in Kind /\ ks[m] \in Seq(Node)
    <3> SUFFICES ASSUME NEW m \in Node
                 PROVE  kd[m] \in Kind /\ ks[m] \in Seq(Node)
      OBVIOUS
    <3>1. CASE m \in new
      <4>1. PICK a \in DOMAIN f : m = f[a]
        BY <1>3, <3>1
      <4>2. kind[a] \in Kind /\ ks[m] = tail(a) /\ kd[m] = kind[a]
        BY <1>1, <1>3, <4>1
      <4>3. QED
        BY <1>4, <4>2
    <3>2. CASE m \notin new
      BY <1>1, <3>2 DEF Lists
    <3>3. QED
      BY <3>1, <3>2
  <2>2. QED
    BY <1>2, <2>1 DEF Lists
<1> HIDE DEF tail
<1>6. \A m \in new : \A n \in Node : n \notin ToSet(kids[m]) /\ m \notin ToSet(kids[n])
  BY <1>3, NotMade DEF IsMade
<1>7. \A p \in Node : \A n \in ToSet(ks[p]) :
        \/ p \notin new /\ n \notin new /\ n \in ToSet(kids[p])
        \/ \E a, b \in DOMAIN f : p = f[a] /\ n = f[b] /\ b \in Children(a)
  BY <1>1, <1>3, <1>4, <1>6
<1>8. \A p \in Node : Once(ks[p])
  BY <1>1, <1>3, <1>4, ForestIs
<1>9. \A p, q \in Node : p # q => ToSet(ks[p]) \cap ToSet(ks[q]) = {}
  <2> SUFFICES ASSUME NEW p \in Node, NEW q \in Node, NEW n, n \in ToSet(ks[p]), n \in ToSet(ks[q])
               PROVE  p = q
    OBVIOUS
  <2>1. CASE n \in new
    <3>1. PICK a, b \in DOMAIN f : p = f[a] /\ n = f[b] /\ b \in Children(a)
      BY <1>7, <2>1
    <3>2. PICK c, d \in DOMAIN f : q = f[c] /\ n = f[d] /\ d \in Children(c)
      BY <1>7, <2>1
    <3>3. b = d
      BY <1>3, <3>1, <3>2
    <3>4. a \in Node /\ c \in Node /\ b \in ToSet(kids[a]) /\ b \in ToSet(kids[c])
      BY <1>3, <3>1, <3>2, <3>3 DEF Children
    <3>5. a = c
      BY <3>4, ForestIs
    <3>6. QED
      BY <3>1, <3>2, <3>5
  <2>2. CASE n \notin new
    <3>1. n \in ToSet(kids[p]) /\ n \in ToSet(kids[q])
      BY <1>3, <1>7, <2>2
    <3>2. QED
      BY <3>1, ForestIs
  <2>3. QED
    BY <2>1, <2>2
<1>10. \A a \in DOMAIN f : IsMade(kd, f[a])
  BY <1>1 DEF IsMade
<1>11. \A p \in Node : \A n \in ToSet(ks[p]) : IsMade(kd, n) /\ IsMade(kd, p)
  <2> SUFFICES ASSUME NEW p \in Node, NEW n \in ToSet(ks[p])
               PROVE  IsMade(kd, n) /\ IsMade(kd, p)
    OBVIOUS
  <2>1. CASE p \notin new /\ n \notin new /\ n \in ToSet(kids[p])
    <3>1. n \in Node /\ IsMade(kind, n) /\ IsMade(kind, p)
      BY <2>1, ToSetOfSeq, ForestIs DEF Lists
    <3>2. QED
      BY <1>1, <2>1, <3>1 DEF IsMade
  <2>2. CASE \E a, b \in DOMAIN f : p = f[a] /\ n = f[b]
    BY <1>10, <2>2
  <2>3. QED
    BY <1>7, <2>1, <2>2
<1>12. \A a \in DOMAIN f : Reach(ks, f[a]) \subseteq new
  <2>1. Closed(ks, new)
    BY <1>3, <1>7 DEF Closed
  <2>2. new \in SUBSET Node
    BY <1>3
  <2>3. QED
    BY <1>3, <2>1, <2>2, ReachIsLeast
<1>13. Acyclic(ks)
  <2> SUFFICES ASSUME NEW p \in Node, NEW n \in ToSet(ks[p])
               PROVE  p \notin Reach(ks, n)
    BY DEF Acyclic
  <2>1. CASE p \notin new /\ n \notin new /\ n \in ToSet(kids[p])
    <3> DEFINE S == Reach(kids, n) \ new
    <3>1. n \in Node
      BY <2>1, ToSetOfSeq DEF Lists
    <3>2. n \in S /\ S \in SUBSET Node /\ p \notin S
      BY <2>1, <3>1, ReachIsClosed, ForestIs DEF Acyclic
    <3>3. Closed(ks, S)
      <4>1. Closed(kids, Reach(kids, n))
        BY <3>1, ReachIsClosed
      <4>2. ASSUME NEW x \in S, NEW y \in ToSet(ks[x])
            PROVE  y \in S
        <5>1. y \notin new /\ y \in ToSet(kids[x])
          BY <1>3, <1>7, <3>2
        <5>2. QED
          BY <4>1, <5>1 DEF Closed
      <4>3. QED
        BY <4>2 DEF Closed
    <3>4. QED
      BY <3>1, <3>2, <3>3, ReachIsLeast
  <2>2. CASE \E a, b \in DOMAIN f : p = f[a] /\ n = f[b] /\ b \in Children(a)
    <3>1. PICK a, b \in DOMAIN f : p = f[a] /\ n = f[b] /\ b \in Children(a)
      BY <2>2
    <3> DEFINE S == {m \in new : \E c \in DOMAIN f : c \in Reach(kids, b) /\ m = f[c]}
    <3>2. a \in Node /\ b \in Node /\ a \notin Reach(kids, b)
      BY <1>3, <3>1, ForestIs DEF Acyclic, Children
    <3>3. b \in Reach(kids, b) /\ Closed(kids, Reach(kids, b))
      BY <3>2, ReachIsClosed
    <3>4. n \in S /\ S \in SUBSET Node /\ p \notin S
      BY <1>3, <3>1, <3>2, <3>3
    <3>5. Closed(ks, S)
      <4>1. ASSUME NEW x \in S, NEW y \in ToSet(ks[x])
            PROVE  y \in S
        <5>1. PICK c \in DOMAIN f : c \in Reach(kids, b) /\ x = f[c]
          OBVIOUS
        <5>2. x \in Node /\ x \in new
          BY <1>3
        <5>3. PICK d, e \in DOMAIN f : x = f[d] /\ y = f[e] /\ e \in Children(d)
          BY <1>7, <5>2
        <5>4. d = c
          BY <1>3, <5>1, <5>3
        <5>5. e \in Reach(kids, b)
          BY <3>3, <5>1, <5>3, <5>4 DEF Closed, Children
        <5>6. QED
          BY <1>3, <5>3, <5>5
      <4>2. QED
        BY <4>1 DEF Closed
    <3> HIDE DEF S
    <3>6. n \in Node
      BY <3>4
    <3>7. QED
      BY <3>4, <3>5, <3>6, ReachIsLeast
  <2>3. QED
    BY <1>7, <2>1, <2>2
<1>14. Forest(kd, ks)
  BY <1>8, <1>9, <1>11, <1>13, ForestIs
<1>15. Kept(kids, ks, {})
  <2>1. \A m \in Node \ new : ks[m] = kids[m]
    BY <1>1
  <2>2. \A m \in new : ToSet(kids[m]) = {} /\ \A x, y : ~Ahead(kids[m], x, y)
    <3>1. \A m \in new : ToSet(kids[m]) = {}
      BY <1>3, NotMade DEF IsMade
    <3>2. \A m \in new : \A i \in 1 .. Len(kids[m]) : kids[m][i] \in ToSet(kids[m])
      BY <1>3, ToSetOfSeq DEF Lists
    <3>3. QED
      BY <3>1, <3>2 DEF Ahead
  <2>3. QED
    BY <2>1, <2>2 DEF Kept
<1>16. QED
  BY <1>5, <1>7, <1>10, <1>12, <1>14, <1>15 DEF kd, ks, new

-----------------------------------------------------------------------------
\* The calls: what each of them moves.

\* The nodes are a tree.
TreeInv == kind \in [Node -> Kind] /\ kids \in Lists /\ IsForest

\* A change of the tree that moves or frees no more than S, and what the
\* iterator is told of it.
Changed(S) ==
  /\ kind' \in [Node -> Kind] /\ kids' \in Lists /\ Forest(kind', kids')
  /\ S \in SUBSET Node
  /\ Kept(kids, kids', S)
  /\ \A n \in Node : \/ kind[n] = "unused" \/ kind'[n] = kind[n]
                     \/ n \in S /\ kind'[n] = "freed"
  /\ Disturb(S)
  /\ ~undefined

\* More may have moved.
LEMMA KeptMore ==
  ASSUME NEW ks, NEW ks2, NEW S, NEW T, S \subseteq T, Kept(ks, ks2, S)
  PROVE  Kept(ks, ks2, T)
  BY DEF Kept

\* What has a handle is in use.
LEMMA HandleIsMade ==
  ASSUME NEW n \in Handles
  PROVE  n \in Node /\ IsMade(kind, n)
  BY TreeAssumption DEF Handles, IsMade

\* An attached node has one parent.
LEMMA OneParent ==
  ASSUME TreeInv, NEW d \in Node, Attached(d)
  PROVE  \E p \in Node : /\ d \in ToSet(kids[p]) /\ IsMade(kind, p) /\ IsMade(kind, d)
                         /\ \A m \in Node : d \in ToSet(kids[m]) => m = p
  BY ForestIs DEF TreeInv, IsForest, Attached, Children

\* AddChild of a type or of a TMut moves nothing.
LEMMA AddChildNewChanges ==
  ASSUME TreeInv, NEW p \in Node, NEW n \in Node, NEW t \in Type \cup {"text"},
         AddChildNew(p, t, n)
  PROVE  Changed({})
<1> DEFINE kd == [kind EXCEPT ![n] = t]
<1>1. /\ p \in Handles /\ kind[n] = "unused" /\ kind' = kd /\ kids' = Under(kids, p, n)
      /\ Disturb({}) /\ ~undefined
  BY DEF AddChildNew
<1>2. t \in Kind \ {"unused", "freed"}
  BY TreeAssumption DEF Kind
<1>3. kd \in [Node -> Kind] /\ \A m \in Node : kd[m] = IF m = n THEN t ELSE kind[m]
  BY <1>2 DEF TreeInv
<1> HIDE DEF kd
<1>4. Forest(kd, kids)
  BY <1>2, <1>3, ForestKinds DEF TreeInv, IsForest, IsMade
<1>5. CanPut(kd, kids, p, n)
  <2>1. ~IsMade(kind, n) /\ IsMade(kind, p) /\ p # n
    BY <1>1, HandleIsMade DEF IsMade
  <2>2. IsMade(kd, n) /\ IsMade(kd, p)
    BY <1>2, <1>3, <2>1 DEF IsMade
  <2>3. QED
    BY <2>1, <2>2, NotMade DEF TreeInv, IsForest, CanPut
<1>6. Under(kids, p, n) \in Lists /\ Forest(kd, Under(kids, p, n)) /\ Kept(kids, Under(kids, p, n), {})
  BY <1>4, <1>5, UnderMakes DEF TreeInv
<1>7. QED
  BY <1>1, <1>3, <1>6 DEF Changed

\* Nor does AddNext.
LEMMA AddNextNewChanges ==
  ASSUME TreeInv, NEW d \in Node, NEW n \in Node, NEW t \in Type, AddNextNew(d, t, n)
  PROVE  Changed({})
<1> DEFINE kd == [kind EXCEPT ![n] = t]
<1>1. /\ Attached(d) /\ kind[n] = "unused" /\ kind' = kd /\ kids' = Beside(kids, d, n, 1)
      /\ Disturb({}) /\ ~undefined
  BY DEF AddNextNew
<1>2. t \in Kind \ {"unused", "freed"}
  BY TreeAssumption DEF Kind
<1>3. kd \in [Node -> Kind] /\ \A m \in Node : kd[m] = IF m = n THEN t ELSE kind[m]
  BY <1>2 DEF TreeInv
<1> HIDE DEF kd
<1>4. Forest(kd, kids)
  BY <1>2, <1>3, ForestKinds DEF TreeInv, IsForest, IsMade
<1>5. PICK p \in Node : d \in ToSet(kids[p]) /\ IsMade(kind, p)
  BY <1>1, OneParent
<1>6. CanPut(kd, kids, p, n)
  <2>1. ~IsMade(kind, n) /\ p # n
    BY <1>1, <1>5 DEF IsMade
  <2>2. IsMade(kd, n) /\ IsMade(kd, p)
    BY <1>2, <1>3, <1>5 DEF IsMade
  <2>3. QED
    BY <2>1, <2>2, NotMade DEF TreeInv, IsForest, CanPut
<1> DEFINE ks == Beside(kids, d, n, 1)
<1>7. ks \in Lists /\ Forest(kd, ks) /\ Kept(kids, ks, {})
  BY <1>4, <1>5, <1>6, BesideMakes DEF TreeInv
<1>8. QED
  BY <1>1, <1>3, <1>7 DEF Changed

\* The ways to copy n are copies of n and of nodes under it, all of them in use.
LEMMA CopiesAre ==
  ASSUME TreeInv, NEW n \in Node, n \in Handles, NEW r \in BOOLEAN, NEW f \in Copies(n, r)
  PROVE  /\ Copying(f) /\ n \in DOMAIN f /\ DOMAIN f \subseteq Below(n)
         /\ \A a \in DOMAIN f : IsMade(kind, a)
<1> DEFINE S == IF r THEN Below(n) ELSE {n}
<1>1. n \in Below(n) /\ Below(n) \subseteq Node
  BY ReachIsClosed DEF Below, TreeInv
<1>2. f \in [S -> {m \in Node : kind[m] = "unused"}] /\ \A a, b \in S : f[a] = f[b] => a = b
  BY DEF Copies
<1>3. DOMAIN f = S /\ n \in S /\ S \subseteq Below(n)
  BY <1>1, <1>2
<1>4. \A a \in Below(n) : IsMade(kind, a)
  <2>1. ASSUME NEW a \in Below(n), a # n
        PROVE  \E p \in Below(n) : a \in ToSet(kids[p])
    BY <2>1, ReachByParent DEF Below, TreeInv
  <2>2. QED
    BY <1>1, <2>1, HandleIsMade, ForestIs DEF TreeInv, IsForest
<1> HIDE DEF S
<1>5. Copying(f)
  BY <1>1, <1>2, <1>3 DEF Copying
<1>6. QED
  BY <1>3, <1>4, <1>5

\* To add a copy moves nothing.
LEMMA AddCopyChanges ==
  ASSUME TreeInv, NEW d \in Node, NEW n \in Node, NEW how \in {"under", "after", "before"},
         NEW r \in BOOLEAN, NEW f \in Copies(n, r), AddCopy(d, n, how, f)
  PROVE  Changed({})
<1> DEFINE new == {f[a] : a \in DOMAIN f}
           kd == Copied(f).kind
           ks == Copied(f).kids
           ks2 == CASE how = "under"  -> Under(ks, d, f[n])
                    [] how = "after"  -> Beside(ks, d, f[n], 1)
                    [] how = "before" -> Beside(ks, d, f[n], 0)
<1>1. /\ d \in Handles /\ n \in Handles /\ (how = "under" \/ Attached(d))
      /\ kind' = kd /\ kids' = ks2 /\ Disturb({}) /\ ~undefined
  BY DEF AddCopy
<1>2. /\ Copying(f) /\ n \in DOMAIN f /\ DOMAIN f \subseteq Below(n)
      /\ \A a \in DOMAIN f : IsMade(kind, a)
  BY <1>1, CopiesAre
<1>3. /\ kd \in [Node -> Kind] /\ ks \in Lists /\ Forest(kd, ks) /\ Kept(kids, ks, {})
      /\ IsMade(kd, f[n]) /\ Reach(ks, f[n]) \subseteq new
      /\ \A p \in Node : \A x \in ToSet(ks[p]) :
           \/ x \notin new
           \/ \E a, b \in DOMAIN f : x = f[b] /\ b \in Children(a)
  BY <1>2, CopiedMakes DEF TreeInv, IsForest
<1>4. \A m \in Node \ new : kd[m] = kind[m] /\ ks[m] = kids[m]
  BY <1>2, CopiedIs DEF TreeInv
<1>5. /\ \A a \in DOMAIN f : f[a] \in new
      /\ \A m \in new : m \in Node /\ kind[m] = "unused"
      /\ \A a, b \in DOMAIN f : f[a] = f[b] => a = b
  BY <1>2 DEF Copying
<1> HIDE DEF kd, ks, new
<1>6. \A m \in Node : f[n] \notin ToSet(ks[m])
  <2> SUFFICES ASSUME NEW m \in Node, f[n] \in ToSet(ks[m])
               PROVE  FALSE
    OBVIOUS
  <2>1. PICK a, b \in DOMAIN f : f[n] = f[b] /\ b \in Children(a)
    BY <1>2, <1>3, <1>5
  <2>2. n \in ToSet(kids[a]) /\ a \in Node
    BY <1>2, <1>5, <2>1 DEF Children, Copying
  <2>3. a \in Reach(kids, n)
    BY <1>2 DEF Below
  <2>4. QED
    BY <2>2, <2>3, ForestIs DEF TreeInv, IsForest, Acyclic
<1>7. ASSUME NEW p \in Node, IsMade(kind, p)
      PROVE  p \notin new /\ CanPut(kd, ks, p, f[n])
  <2>1. p \notin new
    BY <1>5, <1>7 DEF IsMade
  <2>2. IsMade(kd, p)
    BY <1>4, <1>7, <2>1 DEF IsMade
  <2>3. QED
    BY <1>3, <1>6, <2>1, <2>2 DEF CanPut
<1>8. f[n] \in Node
  BY <1>2, <1>5
<1>9. ks2 \in Lists /\ Forest(kd, ks2) /\ Kept(ks, ks2, {})
  <2>1. CASE how = "under"
    <3>1. CanPut(kd, ks, d, f[n])
      BY <1>1, <1>7, HandleIsMade
    <3> DEFINE u == Under(ks, d, f[n])
    <3>2. u \in Lists /\ Forest(kd, u) /\ Kept(ks, u, {})
      BY <1>3, <1>8, <3>1, UnderMakes
    <3>3. ks2 = u
      BY <2>1
    <3>4. QED
      BY <3>2, <3>3
  <2>2. CASE how # "under"
    <3>1. PICK p \in Node : d \in ToSet(kids[p]) /\ IsMade(kind, p)
      BY <1>1, <2>2, OneParent
    <3>2. CanPut(kd, ks, p, f[n]) /\ d \in ToSet(ks[p])
      BY <1>4, <1>7, <3>1
    <3> DEFINE u(after) == Beside(ks, d, f[n], after)
    <3>3. \A after \in {0, 1} : u(after) \in Lists /\ Forest(kd, u(after)) /\ Kept(ks, u(after), {})
      BY <1>3, <1>8, <3>2, BesideMakes
    <3>4. ks2 = u(0) \/ ks2 = u(1)
      BY <2>2
    <3> HIDE DEF u
    <3>5. QED
      BY <3>3, <3>4
  <2>3. QED
    BY <2>1, <2>2
<1>10. Kept(kids, ks2, {})
  <2>1. Kept(kids, ks2, {} \cup {})
    BY <1>3, <1>9, KeptAgain
  <2>2. QED
    BY <2>1
<1>11. \A m \in Node : kind[m] = "unused" \/ kd[m] = kind[m]
  BY <1>4, <1>5
<1> HIDE DEF ks2
<1>12. QED
  BY <1>1, <1>3, <1>9, <1>10, <1>11 DEF Changed

\* To add what has been detached moves that alone.
LEMMA AddDetachedChanges ==
  ASSUME TreeInv, NEW p \in Node, NEW n \in Node, AddDetached(p, n)
  PROVE  Changed({n})
<1>1. /\ p \in Handles /\ n \in Handles /\ ~Attached(n) /\ p \notin Reach(kids, n)
      /\ kids' = Under(kids, p, n) /\ kind' = kind /\ Disturb({n}) /\ ~undefined
  BY DEF AddDetached, Below
<1>2. CanPut(kind, kids, p, n)
  BY <1>1, HandleIsMade DEF CanPut, Attached, Children
<1> DEFINE ks == Under(kids, p, n)
<1>3. ks \in Lists /\ Forest(kind, ks) /\ Kept(kids, ks, {})
  BY <1>2, UnderMakes DEF TreeInv, IsForest
<1> HIDE DEF ks
<1>4. Kept(kids, ks, {n})
  BY <1>3, KeptMore
<1>5. QED
  BY <1>1, <1>3, <1>4 DEF Changed, TreeInv, ks

\* Taken out and put beside d, or behind its siblings.
LEMMA UnlinkedCanPut ==
  ASSUME TreeInv, NEW n \in Node, NEW p \in Node, IsMade(kind, n), IsMade(kind, p),
         p \notin Reach(kids, n)
  PROVE  CanPut(kind, Unlink(kids, n), p, n)
<1> DEFINE ks == Unlink(kids, n)
<1>1. ks \in Lists /\ \A m \in Node : ToSet(ks[m]) = ToSet(kids[m]) \ {n}
  BY UnlinkMakes DEF TreeInv, IsForest
<1> HIDE DEF ks
<1>2. Reach(ks, n) \subseteq Reach(kids, n)
  BY <1>1, FewerChildren DEF TreeInv
<1>3. QED
  BY <1>1, <1>2 DEF CanPut, ks

\* MoveNextTo and MovePrevTo move n.
LEMMA MoveToChanges ==
  ASSUME TreeInv, NEW n \in Node, NEW d \in Node, NEW after \in {0, 1}, MoveTo(n, d, after)
  PROVE  Changed({n})
<1> DEFINE ks == Unlink(kids, n)
           ks2 == Beside(ks, d, n, after)
<1>1. /\ n \in Handles /\ Attached(d) /\ d \notin Reach(kids, n)
      /\ kids' = ks2 /\ kind' = kind /\ Disturb({n}) /\ ~undefined
  BY DEF MoveTo, Below
<1>2. PICK p \in Node : d \in ToSet(kids[p]) /\ IsMade(kind, p)
  BY <1>1, OneParent
<1>3. n \in Reach(kids, n) /\ Closed(kids, Reach(kids, n))
  BY ReachIsClosed DEF TreeInv
<1>4. d # n /\ p \notin Reach(kids, n)
  BY <1>1, <1>2, <1>3 DEF Closed
<1>5. /\ ks \in Lists /\ Forest(kind, ks) /\ Kept(kids, ks, {n})
      /\ d \in ToSet(ks[p])
  BY <1>2, <1>4, UnlinkMakes DEF TreeInv, IsForest
<1>6. CanPut(kind, ks, p, n)
  BY <1>1, <1>2, <1>4, HandleIsMade, UnlinkedCanPut
<1> HIDE DEF ks
<1>7. ks2 \in Lists /\ Forest(kind, ks2) /\ Kept(ks, ks2, {})
  BY <1>5, <1>6, BesideMakes
<1> HIDE DEF ks2
<1>8. Kept(kids, ks2, {n})
  <2>1. Kept(kids, ks2, {n} \cup {})
    BY <1>5, <1>7, KeptAgain
  <2>2. QED
    BY <2>1
<1>9. QED
  BY <1>1, <1>7, <1>8 DEF Changed, TreeInv

\* MoveToEnd moves n.
LEMMA MoveToEndChanges ==
  ASSUME TreeInv, NEW n \in Node, MoveToEnd(n)
  PROVE  Changed({n})
<1> DEFINE ks == Unlink(kids, n)
<1>1. /\ n \in Handles /\ Attached(n)
      /\ kids' = [m \in Node |-> IF n \in Children(m) THEN Append(RemoveFirst(kids[m], n), n)
                                                      ELSE kids[m]]
      /\ kind' = kind /\ Disturb({n}) /\ ~undefined
  BY DEF MoveToEnd
<1>2. PICK p \in Node : /\ n \in ToSet(kids[p]) /\ IsMade(kind, p)
                        /\ \A m \in Node : n \in ToSet(kids[m]) => m = p
  BY <1>1, OneParent
<1>3. p \notin Reach(kids, n)
  BY <1>2, ForestIs DEF TreeInv, IsForest, Acyclic
<1>4. ks \in Lists /\ Forest(kind, ks) /\ Kept(kids, ks, {n})
  BY UnlinkMakes DEF TreeInv, IsForest
<1>5. CanPut(kind, ks, p, n)
  BY <1>1, <1>2, <1>3, HandleIsMade, UnlinkedCanPut
<1>6. kids' = Under(ks, p, n)
  <2>1. ASSUME NEW m \in Node, m # p
        PROVE  ks[m] = kids[m]
    <3>1. ~\E i \in 1 .. Len(kids[m]) : kids[m][i] = n
      BY <1>2, <2>1 DEF ToSet, TreeInv, Lists
    <3>2. QED
      BY <3>1 DEF Unlink, RemoveFirst
  <2>2. ks[p] = RemoveFirst(kids[p], n)
    BY DEF Unlink
  <2>3. \A m \in Node : n \in Children(m) <=> m = p
    BY <1>2 DEF Children
  <2>4. kids' = [m \in Node |-> IF m = p THEN Append(ks[p], n) ELSE ks[m]]
    BY <1>1, <2>1, <2>2, <2>3
  <2>5. Under(ks, p, n) = [m \in Node |-> IF m = p THEN Append(ks[p], n) ELSE ks[m]]
    BY <1>4 DEF Under, Lists
  <2>6. QED
    BY <2>4, <2>5
<1> HIDE DEF ks
<1> DEFINE ks2 == Under(ks, p, n)
<1>7. ks2 \in Lists /\ Forest(kind, ks2) /\ Kept(ks, ks2, {})
  BY <1>4, <1>5, UnderMakes
<1> HIDE DEF ks2
<1>8. Kept(kids, ks2, {n})
  <2>1. Kept(kids, ks2, {n} \cup {})
    BY <1>4, <1>7, KeptAgain
  <2>2. QED
    BY <2>1
<1>9. QED
  BY <1>1, <1>6, <1>7, <1>8 DEF Changed, TreeInv, ks2

\* RmChild of a node that is to be detached moves n.
LEMMA DetachChanges ==
  ASSUME TreeInv, NEW n \in Node, Detach(n)
  PROVE  Changed({n})
<1> DEFINE ks == Unlink(kids, n)
<1>1. kids' = ks /\ kind' = kind /\ Disturb({n}) /\ ~undefined
  BY DEF Detach
<1>2. ks \in Lists /\ Forest(kind, ks) /\ Kept(kids, ks, {n})
  BY UnlinkMakes DEF TreeInv, IsForest
<1>3. QED
  BY <1>1, <1>2 DEF Changed, TreeInv

\* What is attached to a node that is not under n is not under n either, but
\* for n itself.
LEMMA OutsideStaysOutside ==
  ASSUME TreeInv, NEW n \in Node, NEW m \in Node, m \notin Below(n),
         NEW x \in ToSet(kids[m]), x # n
  PROVE  x \notin Below(n)
<1> SUFFICES ASSUME x \in Below(n) PROVE FALSE
  OBVIOUS
<1>1. PICK p \in Below(n) : x \in ToSet(kids[p])
  BY ReachByParent DEF Below, TreeInv
<1>2. p \in Node
  BY ReachIsClosed DEF Below, TreeInv
<1>3. p = m
  BY <1>1, <1>2, ForestIs DEF TreeInv, IsForest
<1>4. QED
  BY <1>1, <1>3

\* Rm and RmChild free n and all that is under it.
LEMMA RmChanges ==
  ASSUME TreeInv, NEW n \in Node, Rm(n)
  PROVE  Changed(Below(n))
<1> DEFINE gone == Below(n)
           kd == [m \in Node |-> IF m \in gone THEN "freed" ELSE kind[m]]
           ks == [m \in Node |-> IF m \in gone THEN << >> ELSE RemoveFirst(kids[m], n)]
<1>1. kind' = kd /\ kids' = ks /\ Disturb(gone) /\ ~undefined
  BY DEF Rm
<1>2. gone \in SUBSET Node /\ n \in gone /\ Closed(kids, gone)
  BY ReachIsClosed DEF Below, TreeInv
<1>3. \A m \in Node \ gone : \A x \in ToSet(kids[m]) : x # n => x \notin gone
  BY OutsideStaysOutside
<1> HIDE DEF gone
<1>4. ASSUME NEW m \in Node, m \notin gone
      PROVE  /\ ks[m] \in Seq(Node) /\ Once(ks[m]) /\ ToSet(ks[m]) = ToSet(kids[m]) \ {n}
             /\ \A x, y : Ahead(kids[m], x, y) /\ x # n /\ y # n => Ahead(ks[m], x, y)
  <2>1. kids[m] \in Seq(Node) /\ Once(kids[m])
    BY ForestIs DEF TreeInv, IsForest, Lists
  <2>2. ks[m] = RemoveFirst(kids[m], n)
    BY <1>4
  <2>3. QED
    BY <2>1, <2>2, Removed
<1>5. \A m \in gone : ks[m] = << >> /\ ToSet(ks[m]) = {} /\ Once(ks[m])
  BY <1>2 DEF ToSet, Once
<1>6. kd \in [Node -> Kind]
  BY DEF Kind, TreeInv
<1>7. ks \in Lists
  BY <1>4, <1>5 DEF Lists
<1>8. \A m \in Node : kd[m] = IF m \in gone THEN "freed" ELSE kind[m]
  OBVIOUS
<1> HIDE DEF kd, ks
<1>9. Forest(kd, ks)
  <2>1. \A m \in Node : Once(ks[m]) /\ ToSet(ks[m]) \subseteq ToSet(kids[m])
    BY <1>4, <1>5
  <2>2. \A m \in Node : \A x \in ToSet(ks[m]) : IsMade(kd, m) /\ IsMade(kd, x)
    <3> SUFFICES ASSUME NEW m \in Node, NEW x \in ToSet(ks[m])
                 PROVE  IsMade(kd, m) /\ IsMade(kd, x)
      OBVIOUS
    <3>1. m \notin gone /\ x \in ToSet(kids[m]) /\ x # n
      BY <1>4, <1>5
    <3>2. IsMade(kind, m) /\ IsMade(kind, x) /\ x \in Node
      BY <3>1, ForestIs, ToSetOfSeq DEF TreeInv, IsForest, Lists
    <3>3. x \notin gone
      BY <1>3, <3>1
    <3>4. QED
      BY <1>8, <3>1, <3>2, <3>3 DEF IsMade
  <2>3. QED
    BY <1>7, <2>1, <2>2, FewerNodes DEF TreeInv, IsForest
<1>10. Kept(kids, ks, gone)
  <2>1. \A m \in gone : ToSet(kids[m]) \subseteq gone /\ \A x, y : Ahead(kids[m], x, y) => x \in gone
    <3>1. \A m \in gone : ToSet(kids[m]) \subseteq gone
      BY <1>2 DEF Closed
    <3>2. \A m \in gone : \A i \in 1 .. Len(kids[m]) : kids[m][i] \in ToSet(kids[m])
      BY <1>2, ToSetOfSeq DEF TreeInv, Lists
    <3>3. QED
      BY <3>1, <3>2 DEF Ahead
  <2>2. \A m \in Node : ToSet(kids[m]) \ gone \subseteq ToSet(ks[m])
    BY <1>2, <1>4, <2>1
  <2>3. \A m \in Node : \A x, y \in Node \ gone : Ahead(kids[m], x, y) => Ahead(ks[m], x, y)
    BY <1>2, <1>4, <2>1
  <2>4. QED
    BY <2>2, <2>3 DEF Kept
<1>11. Changed(gone)
  BY <1>1, <1>2, <1>6, <1>7, <1>8, <1>9, <1>10 DEF Changed
<1>12. QED
  BY <1>11 DEF gone

\* SetContent frees all that is under p.
LEMMA SetContentChanges ==
  ASSUME TreeInv, NEW p \in Node, NEW text \in Node \cup {NoNode}, SetContent(p, text)
  PROVE  Changed(Below(p) \ {p})
<1> DEFINE gone == Below(p) \ {p}
           ks == [m \in Node |-> IF m \in Below(p) THEN << >> ELSE kids[m]]
           kd == [m \in Node |-> IF m \in gone THEN "freed"
                                 ELSE IF m = text THEN "text" ELSE kind[m]]
           ks2 == [m \in Node |-> IF m \in gone THEN << >>
                                  ELSE IF m # p THEN kids[m]
                                  ELSE IF text = NoNode THEN << >> ELSE <<text>>]
<1>1. /\ p \in Handles /\ (text = NoNode \/ kind[text] = "unused")
      /\ kind' = kd /\ kids' = ks2 /\ Disturb(gone) /\ ~undefined
  BY DEF SetContent
<1>2. Below(p) \in SUBSET Node /\ p \in Below(p) /\ Closed(kids, Below(p))
  BY ReachIsClosed DEF Below, TreeInv
<1>3. \A m \in Below(p) : ToSet(kids[m]) \subseteq gone
  <2>1. \A m \in Below(p) : ToSet(kids[m]) \subseteq Below(p)
    BY <1>2 DEF Closed
  <2>2. \A m \in Below(p) : p \notin ToSet(kids[m])
    BY <1>2, ForestIs DEF TreeInv, IsForest, Acyclic, Below
  <2>3. QED
    BY <2>1, <2>2
<1>4. \A m \in Node \ Below(p) : \A x \in ToSet(kids[m]) : x \notin gone
  BY OutsideStaysOutside
<1>5. IsMade(kind, p)
  BY <1>1, HandleIsMade
<1>6. /\ kd \in [Node -> Kind] /\ ks \in Lists
      /\ \A m \in Node : kd[m] = IF m \in gone THEN "freed"
                                 ELSE IF m = text THEN "text" ELSE kind[m]
      /\ \A m \in Node : ks[m] = IF m \in Below(p) THEN << >> ELSE kids[m]
  BY DEF Kind, TreeInv, Lists
<1>7. Kept(kids, ks, gone)
  <2>1. \A m \in Below(p) : \A x, y : Ahead(kids[m], x, y) => x \in gone
    <3>1. \A m \in Below(p) : \A i \in 1 .. Len(kids[m]) : kids[m][i] \in ToSet(kids[m])
      BY <1>2, ToSetOfSeq DEF TreeInv, Lists
    <3>2. QED
      BY <1>3, <3>1 DEF Ahead
  <2>2. \A m \in Node : ToSet(kids[m]) \ gone \subseteq ToSet(ks[m])
    BY <1>3, <1>6
  <2>3. \A m \in Node : \A x, y \in Node \ gone : Ahead(kids[m], x, y) => Ahead(ks[m], x, y)
    BY <1>6, <2>1
  <2>4. QED
    BY <2>2, <2>3 DEF Kept
<1>8. ks2 = [m \in Node |-> IF m = p /\ text # NoNode THEN <<text>> ELSE ks[m]]
  BY <1>2
<1>9. \A m \in Below(p) : m # text
  <2>1. \A m \in Below(p) : m # p => \E q \in Below(p) : m \in ToSet(kids[q])
    BY ReachByParent DEF Below, TreeInv
  <2>2. \A m \in Below(p) : IsMade(kind, m)
    BY <1>2, <1>5, <2>1, ForestIs DEF TreeInv, IsForest
  <2>3. QED
    BY <1>1, <1>2, <2>2, TreeAssumption DEF IsMade
<1>10. text \in Node => \A m \in Node : text \notin ToSet(kids[m])
  <2>1. text \in Node => ~IsMade(kind, text)
    BY <1>1, TreeAssumption DEF IsMade
  <2>2. QED
    BY <2>1, NotMade DEF TreeInv, IsForest
<1> HIDE DEF kd, ks, ks2, gone
<1>11. Forest(kd, ks)
  <2>1. \A m \in Below(p) : ToSet(ks[m]) = {} /\ Once(ks[m])
    BY <1>2, <1>6 DEF ToSet, Once
  <2>2. \A m \in Node : Once(ks[m]) /\ ToSet(ks[m]) \subseteq ToSet(kids[m])
    BY <1>6, <2>1, ForestIs DEF TreeInv, IsForest
  <2>3. \A m \in Node : \A x \in ToSet(ks[m]) : IsMade(kd, m) /\ IsMade(kd, x)
    <3> SUFFICES ASSUME NEW m \in Node, NEW x \in ToSet(ks[m])
                 PROVE  IsMade(kd, m) /\ IsMade(kd, x)
      OBVIOUS
    <3>1. m \notin Below(p) /\ x \in ToSet(kids[m])
      BY <1>6, <2>1
    <3>2. IsMade(kind, m) /\ IsMade(kind, x) /\ x \in Node
      BY <3>1, ForestIs, ToSetOfSeq DEF TreeInv, IsForest, Lists
    <3>3. x \notin gone /\ m \notin gone
      BY <1>4, <3>1 DEF gone
    <3>4. QED
      BY <1>6, <3>2, <3>3 DEF IsMade
  <2>4. QED
    BY <1>6, <2>2, <2>3, FewerNodes DEF TreeInv, IsForest
<1>12. CASE text = NoNode
  <2>1. ks2 = ks
    BY <1>6, <1>8, <1>12 DEF Lists
  <2>2. \A m \in Node : kd[m] = IF m \in gone THEN "freed" ELSE kind[m]
    BY <1>6, <1>12, TreeAssumption
  <2>3. Changed(gone)
    BY <1>1, <1>2, <1>6, <1>7, <1>11, <2>1, <2>2 DEF Changed, gone
  <2>4. QED
    BY <2>3 DEF gone
<1>13. CASE text # NoNode
  <2>1. ks2 = Under(ks, p, text)
    <3>1. Append(ks[p], text) = <<text>>
      <4>1. ks[p] = << >>
        BY <1>2, <1>6
      <4>2. Append(<< >>, text) = <<text>>
        OBVIOUS
      <4>3. QED
        BY <4>1, <4>2
    <3>2. QED
      BY <1>6, <1>8, <1>13, <3>1 DEF Under, Lists
  <2>2. CanPut(kd, ks, p, text)
    <3>1. text \in Node
      BY <1>13
    <3>2. \A m \in Node : text \notin ToSet(ks[m])
      BY <1>6, <1>10, <3>1 DEF ToSet
    <3>3. Closed(ks, {text})
      <4>1. ToSet(kids[text]) = {}
        BY <1>1, <1>13, <3>1, NotMade DEF TreeInv, IsForest, IsMade
      <4>2. ToSet(<< >>) = {}
        BY DEF ToSet
      <4>3. ToSet(ks[text]) = {}
        BY <1>6, <3>1, <4>1, <4>2
      <4>4. QED
        BY <4>3 DEF Closed
    <3>4. Reach(ks, text) \subseteq {text}
      BY <3>1, <3>3, ReachIsLeast
    <3>5. p # text /\ text \notin gone /\ p \notin gone
      BY <1>2, <1>9 DEF gone
    <3>6. IsMade(kd, p) /\ IsMade(kd, text)
      BY <1>5, <1>6, <3>1, <3>5 DEF IsMade
    <3>7. QED
      BY <3>2, <3>4, <3>5, <3>6 DEF CanPut
  <2> DEFINE u == Under(ks, p, text)
  <2>3. u \in Lists /\ Forest(kd, u) /\ Kept(ks, u, {})
    BY <1>6, <1>11, <1>13, <2>2, UnderMakes
  <2> HIDE DEF u
  <2>4. Kept(kids, u, gone)
    <3>1. Kept(kids, u, gone \cup {})
      BY <1>7, <2>3, KeptAgain
    <3>2. QED
      BY <3>1
  <2>5. \A m \in Node : \/ kind[m] = "unused" \/ kd[m] = kind[m]
                        \/ m \in gone /\ kd[m] = "freed"
    BY <1>1, <1>6, <1>13
  <2>6. Changed(gone)
    BY <1>1, <1>2, <1>6, <2>1, <2>3, <2>4, <2>5 DEF Changed, gone, u
  <2>7. QED
    BY <2>6 DEF gone
<1>14. QED
  BY <1>12, <1>13

-----------------------------------------------------------------------------
\* The invariant, and what the navigation finds.

\* What an iterator can be asked for.
Wanted == Type \cup {"ENt_Unknown"}

\* The types, with those of the iterator in full.
TypeInv ==
  /\ TreeInv
  /\ it \in [at : Node \cup {NoNode}, over : Node, fwd : BOOLEAN, want : Wanted]
  /\ it.at # NoNode => kind[it.at] \in Type \cup {"freed"}
  /\ seen \subseteq Node /\ stays \subseteq Node
  /\ disturbed \in BOOLEAN /\ undefined \in BOOLEAN

\* What lies behind the iterator when it is at n.
Behind(n) ==
  {m \in stays : \/ n = NoNode
                 \/ it.fwd /\ Ahead(kids[it.over], m, n)
                 \/ ~it.fwd /\ Ahead(kids[it.over], n, m)}

\* An undisturbed iterator is at a child that it is for, if at any, and so is
\* all that it is to pass.
PassInv ==
  ~disturbed =>
    /\ it.fwd => ~undefined
    /\ it.at # NoNode => it.at \in Children(it.over) /\ Matches(it.at, it.want)
    /\ \A n \in stays : n \in Children(it.over) /\ Matches(n, it.want)
    /\ ~undefined => seen = Behind(it.at)

\* The inductive invariant.
TreeIInv == TypeInv /\ PassInv

\* The first and the last match of a list.
LEMMA FirstOfIs ==
  ASSUME NEW s \in Seq(Node), NEW t
  PROVE  \/ /\ FirstOf(s, t) = NoNode
            /\ \A j \in 1 .. Len(s) : ~Matches(s[j], t)
         \/ \E i \in 1 .. Len(s) : /\ FirstOf(s, t) = s[i] /\ Matches(s[i], t)
                                   /\ \A j \in 1 .. i - 1 : ~Matches(s[j], t)
<1> DEFINE I == {i \in 1 .. Len(s) : Matches(s[i], t)}
           f == SelectInSeq(s, LAMBDA n : Matches(n, t))
<1>1. f = IF I # {} THEN Min(I) ELSE 0
  BY DEF SelectInSeq
<1>2. FirstOf(s, t) = IF f = 0 THEN NoNode ELSE s[f]
  BY DEF FirstOf
<1> HIDE DEF f
<1>3. CASE I = {}
  BY <1>1, <1>2, <1>3
<1>4. CASE I # {}
  <2>1. f \in I /\ \A j \in I : f <= j
    <3>1. I \in SUBSET Nat
      OBVIOUS
    <3> HIDE DEF I
    <3>2. Min(I) \in I /\ \A j \in I : Min(I) <= j
      BY <1>4, <3>1, MinIsLeast
    <3>3. QED
      BY <1>1, <1>4, <3>2
  <2>2. f \in 1 .. Len(s) /\ Matches(s[f], t) /\ f # 0 /\ Len(s) \in Nat
    BY <2>1
  <2>3. \A j \in 1 .. f - 1 : ~Matches(s[j], t)
    BY <2>1, <2>2
  <2>4. QED
    BY <1>2, <2>2, <2>3
<1>5. QED
  BY <1>3, <1>4

\* The last match of a list, if there is one.
LEMMA LastOfIs ==
  ASSUME NEW s \in Seq(Node), NEW t
  PROVE  \/ /\ LastOf(s, t) = NoNode
            /\ \A j \in 1 .. Len(s) : ~Matches(s[j], t)
         \/ \E i \in 1 .. Len(s) : /\ LastOf(s, t) = s[i] /\ Matches(s[i], t)
                                   /\ \A j \in i + 1 .. Len(s) : ~Matches(s[j], t)
<1> DEFINE I == {i \in 1 .. Len(s) : Matches(s[i], t)}
           f == SelectLastInSeq(s, LAMBDA n : Matches(n, t))
<1>1. f = IF I # {} THEN Max(I) ELSE 0
  BY DEF SelectLastInSeq
<1>2. LastOf(s, t) = IF f = 0 THEN NoNode ELSE s[f]
  BY DEF LastOf
<1> HIDE DEF f
<1>3. CASE I = {}
  BY <1>1, <1>2, <1>3
<1>4. CASE I # {}
  <2>1. f \in I /\ \A j \in I : j <= f
    <3>1. I \in SUBSET (1 .. Len(s)) /\ Len(s) \in Nat
      OBVIOUS
    <3> HIDE DEF I
    <3>2. Max(I) \in I /\ \A j \in I : j <= Max(I)
      BY <1>4, <3>1, MaxIsGreatest
    <3>3. QED
      BY <1>1, <1>4, <3>2
  <2>2. f \in 1 .. Len(s) /\ Matches(s[f], t) /\ f # 0 /\ Len(s) \in Nat
    BY <2>1
  <2>3. \A j \in f + 1 .. Len(s) : ~Matches(s[j], t)
    BY <2>1, <2>2
  <2>4. QED
    BY <1>2, <2>2, <2>3
<1>5. QED
  BY <1>3, <1>4

\* The place of a child among its siblings.
LEMMA PlaceIs ==
  ASSUME TreeInv, NEW p \in Node, NEW n \in Children(p)
  PROVE  /\ n \in Node /\ Attached(n) /\ Siblings(n) = kids[p]
         /\ kids[p] \in Seq(Node) /\ Once(kids[p])
         /\ Place(n) \in 1 .. Len(kids[p]) /\ kids[p][Place(n)] = n
<1>1. \A m \in Node : n \in Children(m) <=> m = p
  BY ForestIs DEF TreeInv, IsForest, Children
<1>2. Siblings(n) = kids[p] /\ Attached(n)
  BY <1>1 DEF Siblings, Attached
<1>3. kids[p] \in Seq(Node) /\ Once(kids[p])
  BY ForestIs DEF TreeInv, IsForest, Lists
<1>4. \E i \in 1 .. Len(kids[p]) : kids[p][i] = n
  BY <1>3, ToSetOfSeq DEF Children
<1>5. Place(n) \in 1 .. Len(kids[p]) /\ kids[p][Place(n)] = n
  BY <1>2, <1>4 DEF Place
<1>6. n \in Node
  BY <1>3, <1>5, ToSetOfSeq
<1>7. QED
  BY <1>2, <1>3, <1>5, <1>6

\* A child is ahead of another when its place is.
LEMMA AheadByPlace ==
  ASSUME TreeInv, NEW p \in Node, NEW m \in Children(p), NEW n \in Children(p)
  PROVE  Ahead(kids[p], m, n) <=> Place(m) < Place(n)
  BY PlaceIs DEF Ahead, Once

\* Whatever is asked for, what is found is a mutation.
LEMMA MatchesType ==
  ASSUME NEW n, NEW t \in Wanted, Matches(n, t)
  PROVE  kind[n] \in Type
  BY DEF Matches, Wanted

\* Whatever the change, the iterator is none the worse for it.
LEMMA ChangedKeeps ==
  ASSUME TreeIInv, NEW S, Changed(S)
  PROVE  TreeIInv'
<1>1. /\ kind' \in [Node -> Kind] /\ kids' \in Lists /\ Forest(kind', kids')
      /\ S \in SUBSET Node /\ Kept(kids, kids', S) /\ ~undefined
      /\ \A n \in Node : \/ kind[n] = "unused" \/ kind'[n] = kind[n]
                         \/ n \in S /\ kind'[n] = "freed"
      /\ disturbed' = (disturbed \/ it.at \in S)
      /\ stays' = (IF disturbed' THEN {} ELSE stays \ S)
      /\ seen' = seen \cap stays'
      /\ it' = it /\ undefined' = undefined
  BY DEF Changed, Disturb
<1>2. TreeInv'
  BY <1>1 DEF TreeInv, IsForest
<1>3. TypeInv'
  <2>1. it.at # NoNode => kind'[it.at] \in Type \cup {"freed"}
    BY <1>1, TreeAssumption DEF TreeIInv, TypeInv
  <2>2. QED
    BY <1>1, <1>2, <2>1 DEF TreeIInv, TypeInv
<1>4. ASSUME ~disturbed'
      PROVE  /\ it.at # NoNode => it.at \in Children(it.over)' /\ Matches(it.at, it.want)'
             /\ \A n \in stays' : n \in Children(it.over)' /\ Matches(n, it.want)'
             /\ seen' = Behind(it.at)'
  <2> DEFINE s == kids[it.over]
             t == kids'[it.over]
  <2>1. /\ ~disturbed /\ it.at \notin S /\ stays' = stays \ S /\ seen' = seen \cap stays'
        /\ it \in [at : Node \cup {NoNode}, over : Node, fwd : BOOLEAN, want : Wanted]
        /\ it.at # NoNode => it.at \in ToSet(s) /\ Matches(it.at, it.want)
        /\ \A n \in stays : n \in ToSet(s) /\ Matches(n, it.want)
        /\ seen = Behind(it.at) /\ stays \subseteq Node
    BY <1>1, <1>4 DEF TreeIInv, TypeInv, PassInv, Children
  <2>2. /\ s \in Seq(Node) /\ Once(s) /\ t \in Seq(Node) /\ Once(t)
        /\ ToSet(s) \ S \subseteq ToSet(t)
        /\ \A x, y \in Node \ S : Ahead(s, x, y) => Ahead(t, x, y)
    BY <1>1, <2>1, ForestIs DEF TreeIInv, TypeInv, TreeInv, IsForest, Lists, Kept
  <2> HIDE DEF s, t
  <2>3. ASSUME NEW n \in Node, n \in ToSet(s), n \notin S, Matches(n, it.want)
        PROVE  n \in ToSet(t) /\ Matches(n, it.want)'
    <3>1. kind[n] \in Type
      BY <2>1, <2>3, MatchesType
    <3>2. kind'[n] = kind[n]
      BY <1>1, <2>3, <3>1, TreeAssumption
    <3>3. QED
      BY <1>1, <2>2, <2>3, <3>2 DEF Matches
  <2>4. it.at # NoNode => it.at \in Children(it.over)' /\ Matches(it.at, it.want)'
    BY <1>1, <2>1, <2>3 DEF Children, t
  <2>5. \A n \in stays' : n \in Children(it.over)' /\ Matches(n, it.want)'
    <3>1. \A n \in stays' : n \in ToSet(t) /\ Matches(n, it.want)'
      BY <2>1, <2>3
    <3>2. QED
      BY <1>1, <3>1 DEF Children, t
  <2>6. ASSUME NEW m \in stays', it.at # NoNode
        PROVE  /\ Ahead(t, m, it.at) <=> Ahead(s, m, it.at)
               /\ Ahead(t, it.at, m) <=> Ahead(s, it.at, m)
    <3>1. /\ m \in Node \ S /\ m \in ToSet(s) /\ m \in ToSet(t)
          /\ it.at \in Node \ S /\ it.at \in ToSet(s) /\ it.at \in ToSet(t)
      BY <2>1, <2>3, <2>6
    <3>2. /\ Ahead(s, m, it.at) => Ahead(t, m, it.at)
          /\ Ahead(s, it.at, m) => Ahead(t, it.at, m)
      BY <2>2, <3>1
    <3>3. /\ m # it.at => Ahead(s, m, it.at) \/ Ahead(s, it.at, m)
          /\ ~(Ahead(t, m, it.at) /\ Ahead(t, it.at, m)) /\ ~Ahead(t, m, m)
      BY <2>2, <3>1, AheadIsTotal
    <3>4. QED
      BY <3>2, <3>3
  <2>7. Behind(it.at)' = {m \in stays' : \/ it.at = NoNode
                                         \/ it.fwd /\ Ahead(t, m, it.at)
                                         \/ ~it.fwd /\ Ahead(t, it.at, m)}
    BY <1>1 DEF Behind, t
  <2>8. Behind(it.at) = {m \in stays : \/ it.at = NoNode
                                       \/ it.fwd /\ Ahead(s, m, it.at)
                                       \/ ~it.fwd /\ Ahead(s, it.at, m)}
    BY DEF Behind, s
  <2>9. seen' = Behind(it.at)'
    BY <2>1, <2>6, <2>7, <2>8
  <2>10. QED
    BY <2>4, <2>5, <2>9
<1>5. PassInv'
  <2>1. disturbed' \/ ~disturbed
    BY <1>1
  <2>2. QED
    BY <1>1, <1>4 DEF PassInv
<1>6. QED
  BY <1>3, <1>5 DEF TreeIInv

\* The next match behind a child, the one before it.
LEMMA NextIs ==
  ASSUME TreeInv, NEW p \in Node, NEW n \in Children(p), NEW t
  PROVE  LET r == NextSibling(n, t)
         IN  \/ /\ r = NoNode
                /\ \A m \in Children(p) : Ahead(kids[p], n, m) => ~Matches(m, t)
             \/ /\ r \in Children(p) /\ Matches(r, t) /\ Ahead(kids[p], n, r)
                /\ \A m \in Children(p) :
                     Ahead(kids[p], n, m) /\ Ahead(kids[p], m, r) => ~Matches(m, t)
<1> DEFINE s == kids[p]
           i == Place(n)
           b == SubSeq(s, i + 1, Len(s))
           r == FirstOf(b, t)
<1>1. /\ n \in Node /\ Attached(n) /\ Siblings(n) = s
      /\ s \in Seq(Node) /\ Once(s) /\ i \in 1 .. Len(s) /\ s[i] = n
  BY PlaceIs
<1>2. NextSibling(n, t) = r
  BY <1>1 DEF NextSibling
<1> HIDE DEF i
<1>3. /\ b \in Seq(Node) /\ Len(b) = Len(s) - i
      /\ \A k \in 1 .. Len(s) - i : b[k] = s[i + k]
  BY <1>1
<1>4. \/ /\ r = NoNode
         /\ \A j \in 1 .. Len(b) : ~Matches(b[j], t)
      \/ \E k \in 1 .. Len(b) : /\ r = b[k] /\ Matches(b[k], t)
                                /\ \A j \in 1 .. k - 1 : ~Matches(b[j], t)
  BY <1>3, FirstOfIs
<1>5. Children(p) = ToSet(s) /\ \A k \in 1 .. Len(s) : s[k] \in ToSet(s)
  BY <1>1, ToSetOfSeq DEF Children
<1> HIDE DEF b, r, s
<1>6. ASSUME NEW m \in Children(p), Ahead(s, n, m)
      PROVE  \E k \in 1 .. Len(s) - i : s[i + k] = m /\ b[k] = m
  <2>1. PICK h, j \in 1 .. Len(s) : h < j /\ s[h] = n /\ s[j] = m
    BY <1>6 DEF Ahead
  <2>2. h = i
    BY <1>1, <2>1 DEF Once
  <2>3. j - i \in 1 .. Len(s) - i /\ i + (j - i) = j
    BY <1>1, <2>1, <2>2
  <2>4. QED
    BY <1>3, <2>1, <2>3
<1>7. CASE r = NoNode /\ \A j \in 1 .. Len(b) : ~Matches(b[j], t)
  <2>1. \A m \in Children(p) : Ahead(s, n, m) => ~Matches(m, t)
    BY <1>3, <1>6, <1>7
  <2>2. QED
    BY <1>2, <1>7, <2>1 DEF s
<1>8. CASE \E k \in 1 .. Len(b) : /\ r = b[k] /\ Matches(b[k], t)
                                  /\ \A j \in 1 .. k - 1 : ~Matches(b[j], t)
  <2>1. PICK k \in 1 .. Len(b) : /\ r = b[k] /\ Matches(b[k], t)
                                 /\ \A j \in 1 .. k - 1 : ~Matches(b[j], t)
    BY <1>8
  <2>2. i + k \in 1 .. Len(s) /\ i < i + k /\ r = s[i + k] /\ k \in 1 .. Len(s) - i
    BY <1>1, <1>3, <2>1
  <2>3. r \in Children(p) /\ Matches(r, t) /\ Ahead(s, n, r)
    BY <1>1, <1>5, <2>1, <2>2 DEF Ahead
  <2>4. ASSUME NEW m \in Children(p), Ahead(s, n, m), Ahead(s, m, r)
        PROVE  ~Matches(m, t)
    <3>1. PICK l \in 1 .. Len(s) - i : s[i + l] = m /\ b[l] = m
      BY <1>6, <2>4
    <3>2. PICK g, h \in 1 .. Len(s) : g < h /\ s[g] = m /\ s[h] = r
      BY <2>4 DEF Ahead
    <3>3. i + l \in 1 .. Len(s)
      BY <1>1, <3>1
    <3>4. g = i + l /\ h = i + k
      BY <1>1, <2>2, <3>1, <3>2, <3>3 DEF Once
    <3>5. l \in 1 .. k - 1
      BY <1>1, <2>2, <3>1, <3>2, <3>4
    <3>6. QED
      BY <2>1, <3>1, <3>5
  <2>5. QED
    BY <1>2, <2>3, <2>4 DEF s
<1>9. QED
  BY <1>4, <1>7, <1>8

\* The next match before a child, and when Prev runs past the first sibling.
LEMMA PrevIs ==
  ASSUME TreeInv, NEW p \in Node, NEW n \in Children(p), NEW t
  PROVE  LET r == PrevSibling(n, t)
         IN  \/ /\ r = NoNode
                /\ \A m \in Children(p) : Ahead(kids[p], m, n) => ~Matches(m, t)
             \/ /\ r \in Children(p) /\ Matches(r, t) /\ Ahead(kids[p], r, n)
                /\ \A m \in Children(p) :
                     Ahead(kids[p], r, m) /\ Ahead(kids[p], m, n) => ~Matches(m, t)
<1> DEFINE s == kids[p]
           i == Place(n)
           b == SubSeq(s, 1, i - 1)
           r == LastOf(b, t)
<1>1. /\ n \in Node /\ Attached(n) /\ Siblings(n) = s
      /\ s \in Seq(Node) /\ Once(s) /\ i \in 1 .. Len(s) /\ s[i] = n
  BY PlaceIs
<1>2. PrevSibling(n, t) = r
  BY <1>1 DEF PrevSibling
<1> HIDE DEF i
<1>3. b \in Seq(Node) /\ Len(b) = i - 1 /\ \A k \in 1 .. i - 1 : b[k] = s[k]
  BY <1>1
<1>4. \/ /\ r = NoNode
         /\ \A j \in 1 .. Len(b) : ~Matches(b[j], t)
      \/ \E k \in 1 .. Len(b) : /\ r = b[k] /\ Matches(b[k], t)
                                /\ \A j \in k + 1 .. Len(b) : ~Matches(b[j], t)
  BY <1>3, LastOfIs
<1>5. Children(p) = ToSet(s) /\ \A k \in 1 .. Len(s) : s[k] \in ToSet(s)
  BY <1>1, ToSetOfSeq DEF Children
<1> HIDE DEF b, r, s
<1>6. ASSUME NEW m \in Children(p), Ahead(s, m, n)
      PROVE  \E k \in 1 .. i - 1 : s[k] = m /\ b[k] = m
  <2>1. PICK h, j \in 1 .. Len(s) : h < j /\ s[h] = m /\ s[j] = n
    BY <1>6 DEF Ahead
  <2>2. j = i
    BY <1>1, <2>1 DEF Once
  <2>3. h \in 1 .. i - 1
    BY <1>1, <2>1, <2>2
  <2>4. QED
    BY <1>3, <2>1, <2>3
<1>7. CASE r = NoNode /\ \A j \in 1 .. Len(b) : ~Matches(b[j], t)
  <2>1. \A m \in Children(p) : Ahead(s, m, n) => ~Matches(m, t)
    BY <1>3, <1>6, <1>7
  <2>2. QED
    BY <1>2, <1>7, <2>1 DEF s
<1>8. CASE \E k \in 1 .. Len(b) : /\ r = b[k] /\ Matches(b[k], t)
                                  /\ \A j \in k + 1 .. Len(b) : ~Matches(b[j], t)
  <2>1. PICK k \in 1 .. Len(b) : /\ r = b[k] /\ Matches(b[k], t)
                                 /\ \A j \in k + 1 .. Len(b) : ~Matches(b[j], t)
    BY <1>8
  <2>2. k \in 1 .. Len(s) /\ k < i /\ r = s[k]
    BY <1>1, <1>3, <2>1
  <2>3. r \in Children(p) /\ Matches(r, t) /\ Ahead(s, r, n)
    BY <1>1, <1>5, <2>1, <2>2 DEF Ahead
  <2>4. ASSUME NEW m \in Children(p), Ahead(s, r, m), Ahead(s, m, n)
        PROVE  ~Matches(m, t)
    <3>1. PICK l \in 1 .. i - 1 : s[l] = m /\ b[l] = m
      BY <1>6, <2>4
    <3>2. PICK g, h \in 1 .. Len(s) : g < h /\ s[g] = r /\ s[h] = m
      BY <2>4 DEF Ahead
    <3>3. l \in 1 .. Len(s)
      BY <1>1, <3>1
    <3>4. h = l /\ g = k
      BY <1>1, <2>2, <3>1, <3>2, <3>3 DEF Once
    <3>5. l \in k + 1 .. Len(b)
      BY <1>1, <1>3, <2>2, <3>1, <3>2, <3>4
    <3>6. QED
      BY <2>1, <3>1, <3>5
  <2>5. QED
    BY <1>2, <2>3, <2>4 DEF s
<1>9. QED
  BY <1>4, <1>7, <1>8

\* The first match under a node.
LEMMA FirstChildIs ==
  ASSUME TreeInv, NEW p \in Node, NEW t
  PROVE  LET r == GetFirstChild(p, t)
         IN  \/ r = NoNode /\ \A m \in Children(p) : ~Matches(m, t)
             \/ /\ r \in Children(p) /\ Matches(r, t)
                /\ \A m \in Children(p) : Ahead(kids[p], m, r) => ~Matches(m, t)
<1> DEFINE s == kids[p]
           r == FirstOf(s, t)
<1>1. s \in Seq(Node) /\ Once(s)
  BY ForestIs DEF TreeInv, IsForest, Lists
<1>2. \/ /\ r = NoNode
         /\ \A j \in 1 .. Len(s) : ~Matches(s[j], t)
      \/ \E i \in 1 .. Len(s) : /\ r = s[i] /\ Matches(s[i], t)
                                /\ \A j \in 1 .. i - 1 : ~Matches(s[j], t)
  BY <1>1, FirstOfIs
<1>3. GetFirstChild(p, t) = r /\ Children(p) = ToSet(s)
  BY DEF GetFirstChild, Children
<1> HIDE DEF r, s
<1>4. CASE r = NoNode /\ \A j \in 1 .. Len(s) : ~Matches(s[j], t)
  BY <1>1, <1>3, <1>4, ToSetOfSeq
<1>5. CASE \E i \in 1 .. Len(s) : /\ r = s[i] /\ Matches(s[i], t)
                                  /\ \A j \in 1 .. i - 1 : ~Matches(s[j], t)
  <2>1. PICK i \in 1 .. Len(s) : /\ r = s[i] /\ Matches(s[i], t)
                                 /\ \A j \in 1 .. i - 1 : ~Matches(s[j], t)
    BY <1>5
  <2>2. r \in Children(p) /\ Matches(r, t)
    BY <1>1, <1>3, <2>1, ToSetOfSeq
  <2>3. ASSUME NEW m \in Children(p), Ahead(s, m, r)
        PROVE  ~Matches(m, t)
    <3>1. PICK g, h \in 1 .. Len(s) : g < h /\ s[g] = m /\ s[h] = r
      BY <2>3 DEF Ahead
    <3>2. h = i
      BY <1>1, <2>1, <3>1 DEF Once
    <3>3. g \in 1 .. i - 1
      BY <1>1, <3>1, <3>2
    <3>4. QED
      BY <2>1, <3>1, <3>3
  <2>4. QED
    BY <1>3, <2>2, <2>3 DEF s
<1>6. QED
  BY <1>2, <1>4, <1>5

\* The last match under a node, and when GetLastChild runs past the first.
LEMMA LastChildIs ==
  ASSUME TreeInv, NEW p \in Node, NEW t
  PROVE  LET r == GetLastChild(p, t)
         IN  \/ r = NoNode /\ \A m \in Children(p) : ~Matches(m, t)
             \/ /\ r \in Children(p) /\ Matches(r, t)
                /\ \A m \in Children(p) : Ahead(kids[p], r, m) => ~Matches(m, t)
<1> DEFINE s == kids[p]
           r == LastOf(s, t)
<1>1. s \in Seq(Node) /\ Once(s)
  BY ForestIs DEF TreeInv, IsForest, Lists
<1>2. \/ /\ r = NoNode
         /\ \A j \in 1 .. Len(s) : ~Matches(s[j], t)
      \/ \E i \in 1 .. Len(s) : /\ r = s[i] /\ Matches(s[i], t)
                                /\ \A j \in i + 1 .. Len(s) : ~Matches(s[j], t)
  BY <1>1, LastOfIs
<1>3. GetLastChild(p, t) = r /\ Children(p) = ToSet(s)
  BY DEF GetLastChild, Children
<1> HIDE DEF r, s
<1>4. CASE r = NoNode /\ \A j \in 1 .. Len(s) : ~Matches(s[j], t)
  BY <1>1, <1>3, <1>4, ToSetOfSeq
<1>5. CASE \E i \in 1 .. Len(s) : /\ r = s[i] /\ Matches(s[i], t)
                                  /\ \A j \in i + 1 .. Len(s) : ~Matches(s[j], t)
  <2>1. PICK i \in 1 .. Len(s) : /\ r = s[i] /\ Matches(s[i], t)
                                 /\ \A j \in i + 1 .. Len(s) : ~Matches(s[j], t)
    BY <1>5
  <2>2. r \in Children(p) /\ Matches(r, t)
    BY <1>1, <1>3, <2>1, ToSetOfSeq
  <2>3. ASSUME NEW m \in Children(p), Ahead(s, r, m)
        PROVE  ~Matches(m, t)
    <3>1. PICK g, h \in 1 .. Len(s) : g < h /\ s[g] = r /\ s[h] = m
      BY <2>3 DEF Ahead
    <3>2. g = i
      BY <1>1, <2>1, <3>1 DEF Once
    <3>3. h \in i + 1 .. Len(s)
      BY <1>1, <3>1, <3>2
    <3>4. QED
      BY <2>1, <3>1, <3>3
  <2>4. QED
    BY <1>3, <2>2, <2>3 DEF s
<1>6. QED
  BY <1>2, <1>4, <1>5

\* The iterators.
Iterator == [at : Node \cup {NoNode}, over : Node, fwd : BOOLEAN, want : Wanted]

\* A child is a node.
LEMMA ChildIsNode ==
  ASSUME TreeInv, NEW p \in Node, NEW n \in Children(p)
  PROVE  n \in Node /\ n # NoNode
  BY PlaceIs, TreeAssumption

-----------------------------------------------------------------------------
\* The steps of the iterator.

\* An iterator that begins is behind nothing that it is to pass.
LEMMA BeginKeeps ==
  ASSUME TreeIInv, NEW p \in Node, NEW t \in Wanted, Begin(p, t)
  PROVE  TreeIInv'
<1>0. PICK r : r = GetFirstChild(p, t)
  OBVIOUS
<1>1. /\ it' = [at |-> r, over |-> p, fwd |-> TRUE, want |-> t]
      /\ seen' = {} /\ stays' = {n \in Children(p) : Matches(n, t)}
      /\ disturbed' = FALSE /\ kind' = kind /\ kids' = kids
      /\ undefined' = undefined /\ ~undefined
  BY <1>0 DEF Begin
<1>2. \/ r = NoNode /\ \A m \in Children(p) : ~Matches(m, t)
      \/ /\ r \in Children(p) /\ r # NoNode /\ Matches(r, t)
         /\ \A m \in Children(p) : Ahead(kids[p], m, r) => ~Matches(m, t)
  BY <1>0, FirstChildIs, ChildIsNode DEF TreeIInv, TypeInv
<1>3. r # NoNode => r \in Children(p) /\ r \in Node /\ Matches(r, t) /\ kind[r] \in Type
  BY <1>2, ChildIsNode, MatchesType DEF TreeIInv, TypeInv
<1>4. it' \in Iterator /\ it'.at = r /\ it'.over = p /\ it'.fwd = TRUE /\ it'.want = t
  BY <1>1, <1>3 DEF Iterator
<1>5. TreeInv'
  BY <1>1 DEF TreeIInv, TypeInv, TreeInv, IsForest
<1>6. stays' \subseteq Node
  BY <1>1, ChildIsNode DEF TreeIInv, TypeInv
<1>7. TypeInv'
  BY <1>1, <1>3, <1>4, <1>5, <1>6 DEF TreeIInv, TypeInv, Iterator
<1>8. \A n : /\ n \in Children(p)' <=> n \in Children(p)
             /\ Matches(n, t)' <=> Matches(n, t)
  BY <1>1 DEF Children, Matches
<1>9. Behind(r)' = {}
  <2>1. Behind(r)' = {m \in stays' : r = NoNode \/ Ahead(kids[p], m, r)}
    BY <1>1, <1>4 DEF Behind
  <2>2. ASSUME NEW m \in stays'
        PROVE  r # NoNode /\ ~Ahead(kids[p], m, r)
    <3>1. m \in Children(p) /\ Matches(m, t)
      BY <1>1
    <3>2. QED
      BY <1>2, <1>3, <3>1
  <2>3. QED
    BY <2>1, <2>2
<1>10. PassInv'
  BY <1>1, <1>3, <1>4, <1>8, <1>9 DEF PassInv
<1>11. QED
  BY <1>7, <1>10 DEF TreeIInv

\* The same of a reverse iterator.
LEMMA RbeginKeeps ==
  ASSUME TreeIInv, NEW p \in Node, Rbegin(p)
  PROVE  TreeIInv'
<1> DEFINE t == "ENt_Unknown"
<1>0. PICK r : r = GetLastChild(p, t)
  OBVIOUS
<1>1. /\ it' = [at |-> r, over |-> p, fwd |-> FALSE, want |-> t]
      /\ seen' = {} /\ stays' = {n \in Children(p) : Matches(n, t)}
      /\ disturbed' = FALSE /\ kind' = kind /\ kids' = kids
      /\ undefined' \in BOOLEAN
  BY <1>0 DEF Rbegin, LastReadsNull
<1>2. \/ r = NoNode /\ \A m \in Children(p) : ~Matches(m, t)
      \/ /\ r \in Children(p) /\ r # NoNode /\ Matches(r, t)
         /\ \A m \in Children(p) : Ahead(kids[p], r, m) => ~Matches(m, t)
  BY <1>0, LastChildIs, ChildIsNode DEF TreeIInv, TypeInv
<1>3. t \in Wanted
  BY DEF Wanted
<1> HIDE DEF t
<1>4. r # NoNode => r \in Children(p) /\ r \in Node /\ Matches(r, t) /\ kind[r] \in Type
  BY <1>2, <1>3, ChildIsNode, MatchesType DEF TreeIInv, TypeInv
<1>5. it' \in Iterator /\ it'.at = r /\ it'.over = p /\ it'.fwd = FALSE /\ it'.want = t
  BY <1>1, <1>3, <1>4 DEF Iterator
<1>6. TreeInv'
  BY <1>1 DEF TreeIInv, TypeInv, TreeInv, IsForest
<1>7. stays' \subseteq Node
  BY <1>1, ChildIsNode DEF TreeIInv, TypeInv
<1>8. TypeInv'
  BY <1>1, <1>4, <1>5, <1>6, <1>7 DEF TreeIInv, TypeInv, Iterator
<1>9. \A n : /\ n \in Children(p)' <=> n \in Children(p)
             /\ Matches(n, t)' <=> Matches(n, t)
  BY <1>1 DEF Children, Matches
<1>10. Behind(r)' = {}
  <2>1. Behind(r)' = {m \in stays' : r = NoNode \/ Ahead(kids[p], r, m)}
    BY <1>1, <1>5 DEF Behind
  <2>2. ASSUME NEW m \in stays'
        PROVE  r # NoNode /\ ~Ahead(kids[p], r, m)
    <3>1. m \in Children(p) /\ Matches(m, t)
      BY <1>1
    <3>2. QED
      BY <1>2, <1>4, <3>1
  <2>3. QED
    BY <2>1, <2>2
<1>11. PassInv'
  BY <1>1, <1>4, <1>5, <1>9, <1>10 DEF PassInv
<1>12. QED
  BY <1>8, <1>11 DEF TreeIInv

\* One step of the iterator passes the node it was at and no other.
LEMMA AdvanceKeeps ==
  ASSUME TreeIInv, Advance
  PROVE  TreeIInv'
<1>0. PICK n, p, t, fwd : it = [at |-> n, over |-> p, fwd |-> fwd, want |-> t]
  BY DEF TreeIInv, TypeInv
<1>00. PICK r : r = IF fwd THEN NextSibling(n, t) ELSE PrevSibling(n, t)
  OBVIOUS
<1>1. /\ ~undefined /\ n # NoNode /\ n \in Node /\ p \in Node /\ t \in Wanted
      /\ it \in Iterator /\ TreeInv /\ stays \subseteq Node /\ seen \subseteq Node
      /\ kind[n] \in Type \cup {"freed"} /\ disturbed \in BOOLEAN /\ undefined \in BOOLEAN
      /\ it.at = n /\ it.over = p /\ it.fwd = fwd /\ it.want = t /\ fwd \in BOOLEAN
  BY <1>0 DEF Advance, TreeIInv, TypeInv, Iterator
<1>2. /\ seen' = seen \cup ({n} \cap stays)
      /\ kind' = kind /\ kids' = kids /\ stays' = stays /\ disturbed' = disturbed
  BY <1>1 DEF Advance
<1>3. TreeInv'
  BY <1>1, <1>2 DEF TreeInv, IsForest
<1>4. \A m : /\ m \in Children(p)' <=> m \in Children(p)
             /\ Matches(m, t)' <=> Matches(m, t)
  BY <1>2 DEF Children, Matches
<1>5. CASE kind[n] = "freed"
  <2>1. undefined' = TRUE /\ it' = it
    BY <1>1, <1>5 DEF Advance
  <2>2. disturbed
    <3>1. ~disturbed => Matches(n, t)
      BY <1>1 DEF TreeIInv, PassInv
    <3>2. QED
      BY <1>1, <1>5, <3>1, MatchesType, TreeAssumption
  <2>3. TypeInv' /\ disturbed'
    BY <1>1, <1>2, <1>3, <2>1, <2>2 DEF TypeInv, Iterator
  <2>4. QED
    BY <2>3 DEF TreeIInv, PassInv
<1>6. CASE kind[n] # "freed"
  <2>1. /\ it' = [it EXCEPT !.at = r]
        /\ undefined' = (IF fwd THEN undefined ELSE PrevReadsNull(n, t))
    BY <1>00, <1>1, <1>6 DEF Advance
  <2>2. it' = [at |-> r, over |-> p, fwd |-> fwd, want |-> t] /\ undefined' \in BOOLEAN
    <3>1. it' = [at |-> r, over |-> p, fwd |-> fwd, want |-> t]
      BY <1>0, <2>1
    <3>2. undefined' \in BOOLEAN
      BY <1>1, <2>1 DEF PrevReadsNull
    <3>3. QED
      BY <3>1, <3>2
  <2>3. CASE ~Attached(n)
    <3>1. r = NoNode
      BY <1>00, <2>3 DEF NextSibling, PrevSibling
    <3>2. it' \in Iterator /\ it'.at = NoNode /\ undefined' \in BOOLEAN
      BY <1>1, <2>2, <3>1 DEF Iterator
    <3>3. disturbed
      BY <1>1, <2>3 DEF TreeIInv, PassInv, Attached
    <3>4. TypeInv' /\ disturbed'
      BY <1>1, <1>2, <1>3, <3>2, <3>3 DEF TypeInv, Iterator
    <3>5. QED
      BY <3>4 DEF TreeIInv, PassInv
  <2>4. CASE Attached(n)
    <3>1. PICK q \in Node : n \in Children(q)
      BY <2>4 DEF Attached
    <3>2. \/ r = NoNode
          \/ r \in Children(q) /\ Matches(r, t)
      BY <1>00, <1>1, <3>1, NextIs, PrevIs
    <3>3. r # NoNode => r \in Node /\ kind[r] \in Type
      BY <1>1, <3>2, ChildIsNode, MatchesType
    <3>4. /\ it' \in Iterator /\ it'.at = r /\ it'.over = p /\ it'.fwd = fwd /\ it'.want = t
          /\ undefined' \in BOOLEAN
      BY <1>1, <2>2, <3>3 DEF Iterator
    <3>5. TypeInv'
      BY <1>1, <1>2, <1>3, <3>3, <3>4 DEF TypeInv, Iterator
    <3>6. ASSUME ~disturbed
          PROVE  /\ r # NoNode => r \in Children(p) /\ Matches(r, t)
                 /\ \A m \in stays : m \in Children(p) /\ Matches(m, t)
                 /\ seen' = Behind(r)'
      <4> DEFINE s == kids[p]
      <4>1. /\ n \in Children(p) /\ seen = Behind(n)
            /\ \A m \in stays : m \in Children(p) /\ Matches(m, t)
        BY <1>1, <3>6 DEF TreeIInv, PassInv
      <4>2. /\ s \in Seq(Node) /\ Once(s) /\ Children(p) = ToSet(s)
        BY <1>1, ForestIs DEF TreeInv, IsForest, Lists, Children
      <4>3. Behind(n) = {m \in stays : \/ fwd /\ Ahead(s, m, n)
                                       \/ ~fwd /\ Ahead(s, n, m)}
        BY <1>1 DEF Behind
      <4>4. Behind(r)' = {m \in stays : \/ r = NoNode
                                        \/ fwd /\ Ahead(s, m, r)
                                        \/ ~fwd /\ Ahead(s, r, m)}
        BY <1>2, <3>4 DEF Behind
      <4>5. CASE fwd
        <5>1. \/ r = NoNode /\ \A m \in Children(p) : Ahead(s, n, m) => ~Matches(m, t)
              \/ /\ r \in Children(p) /\ r # NoNode /\ Matches(r, t) /\ Ahead(s, n, r)
                 /\ \A m \in Children(p) : Ahead(s, n, m) /\ Ahead(s, m, r) => ~Matches(m, t)
          BY <1>1, <4>1, <4>5, <1>00, NextIs, ChildIsNode
        <5> HIDE DEF s
        <5>2. ASSUME NEW m \in stays
              PROVE  (r = NoNode \/ Ahead(s, m, r)) <=> Ahead(s, m, n) \/ m = n
          <6>1. m \in ToSet(s) /\ n \in ToSet(s) /\ Matches(m, t)
            BY <4>1, <4>2
          <6>2. m # n => Ahead(s, m, n) \/ Ahead(s, n, m)
            BY <4>2, <6>1, AheadIsTotal
          <6>3. Ahead(s, m, n) /\ r # NoNode => Ahead(s, m, r)
            BY <4>2, <5>1, AheadIsTransitive
          <6>4. QED
            BY <4>1, <5>1, <6>1, <6>2, <6>3
        <5>3. QED
          BY <1>2, <4>1, <4>3, <4>4, <4>5, <5>1, <5>2
      <4>6. CASE ~fwd
        <5>1. \/ r = NoNode /\ \A m \in Children(p) : Ahead(s, m, n) => ~Matches(m, t)
              \/ /\ r \in Children(p) /\ r # NoNode /\ Matches(r, t) /\ Ahead(s, r, n)
                 /\ \A m \in Children(p) : Ahead(s, r, m) /\ Ahead(s, m, n) => ~Matches(m, t)
          BY <1>1, <4>1, <4>6, <1>00, PrevIs, ChildIsNode
        <5> HIDE DEF s
        <5>2. ASSUME NEW m \in stays
              PROVE  (r = NoNode \/ Ahead(s, r, m)) <=> Ahead(s, n, m) \/ m = n
          <6>1. m \in ToSet(s) /\ n \in ToSet(s) /\ Matches(m, t)
            BY <4>1, <4>2
          <6>2. m # n => Ahead(s, m, n) \/ Ahead(s, n, m)
            BY <4>2, <6>1, AheadIsTotal
          <6>3. Ahead(s, n, m) /\ r # NoNode => Ahead(s, r, m)
            BY <4>2, <5>1, AheadIsTransitive
          <6>4. QED
            BY <4>1, <5>1, <6>1, <6>2, <6>3
        <5>3. QED
          BY <1>2, <4>1, <4>3, <4>4, <4>6, <5>1, <5>2
      <4>7. QED
        BY <4>5, <4>6
    <3>7. PassInv'
      <4>1. fwd => ~undefined'
        BY <1>1, <2>1
      <4>2. QED
        BY <1>2, <1>4, <3>4, <3>6, <4>1 DEF PassInv
    <3>8. QED
      BY <3>5, <3>7 DEF TreeIInv
  <2>5. QED
    BY <2>3, <2>4
<1>7. QED
  BY <1>5, <1>6

-----------------------------------------------------------------------------
\* The invariant holds, and what follows from it.

\* The document that was read is a tree, and no iterator has begun.
LEMMA InitTree == Init => TreeIInv
<1> SUFFICES ASSUME Init PROVE TreeIInv
  OBVIOUS
<1>1. TreeInv
  BY TreeAssumption DEF Init, TreeInv, IsForest, Lists
<1>2. it \in Iterator /\ it.at = NoNode
  BY TreeAssumption DEF Init, AtEnd, Iterator, Wanted
<1>3. TypeInv
  BY <1>1, <1>2 DEF Init, TypeInv, Iterator
<1>4. PassInv
  BY <1>2 DEF Init, PassInv, Behind
<1>5. QED
  BY <1>3, <1>4 DEF TreeIInv

\* The calls of ChromoNode that change the tree keep the invariant.
LEMMA ChangeKeeps ==
  ASSUME TreeIInv, Change
  PROVE  TreeIInv'
<1>1. TreeInv
  BY DEF TreeIInv, TypeInv
<1>2. PICK n \in Node :
        \/ \E d \in Node, t \in Type : AddChildNew(d, t, n) \/ AddNextNew(d, t, n)
        \/ \E r \in BOOLEAN : \E f \in Copies(n, r) :
             \E d \in Node, how \in {"under", "after", "before"} : AddCopy(d, n, how, f)
        \/ \E d \in Node : AddDetached(d, n)
        \/ \E d \in Node, after \in {0, 1} : MoveTo(n, d, after)
  BY DEF Change
<1>3. ASSUME NEW d \in Node, NEW t \in Type, AddChildNew(d, t, n)
      PROVE  TreeIInv'
  BY <1>1, <1>3, AddChildNewChanges, ChangedKeeps
<1>4. ASSUME NEW d \in Node, NEW t \in Type, AddNextNew(d, t, n)
      PROVE  TreeIInv'
  BY <1>1, <1>4, AddNextNewChanges, ChangedKeeps
<1>5. ASSUME NEW r \in BOOLEAN, NEW f \in Copies(n, r), NEW d \in Node,
             NEW how \in {"under", "after", "before"}, AddCopy(d, n, how, f)
      PROVE  TreeIInv'
  BY <1>1, <1>5, AddCopyChanges, ChangedKeeps
<1>6. ASSUME NEW d \in Node, AddDetached(d, n)
      PROVE  TreeIInv'
  BY <1>1, <1>6, AddDetachedChanges, ChangedKeeps
<1>7. ASSUME NEW d \in Node, NEW after \in {0, 1}, MoveTo(n, d, after)
      PROVE  TreeIInv'
  BY <1>1, <1>7, MoveToChanges, ChangedKeeps
<1>8. QED
  BY <1>2, <1>3, <1>4, <1>5, <1>6, <1>7

\* And those about one node.
LEMMA ChangeOneKeeps ==
  ASSUME TreeIInv, ChangeOne
  PROVE  TreeIInv'
<1>1. TreeInv
  BY DEF TreeIInv, TypeInv
<1>2. PICK n \in Node : \/ MoveToEnd(n) \/ Detach(n) \/ Rm(n)
                        \/ \E text \in Node \cup {NoNode} : SetContent(n, text)
  BY DEF ChangeOne
<1>3. CASE MoveToEnd(n)
  BY <1>1, <1>3, MoveToEndChanges, ChangedKeeps
<1>4. CASE Detach(n)
  BY <1>1, <1>4, DetachChanges, ChangedKeeps
<1>5. CASE Rm(n)
  BY <1>1, <1>5, RmChanges, ChangedKeeps
<1>6. ASSUME NEW text \in Node \cup {NoNode}, SetContent(n, text)
      PROVE  TreeIInv'
  BY <1>1, <1>6, SetContentChanges, ChangedKeeps
<1>7. QED
  BY <1>2, <1>3, <1>4, <1>5, <1>6

\* Every step keeps it.
LEMMA NextTree == TreeIInv /\ [Next]_vars => TreeIInv'
<1> SUFFICES ASSUME TreeIInv, [Next]_vars PROVE TreeIInv'
  OBVIOUS
<1>1. CASE Change
  BY <1>1, ChangeKeeps
<1>2. CASE ChangeOne
  BY <1>2, ChangeOneKeeps
<1>3. ASSUME NEW p \in Node, NEW t \in Type \cup {"ENt_Unknown"}, Begin(p, t)
      PROVE  TreeIInv'
  BY <1>3, BeginKeeps DEF Wanted
<1>4. ASSUME NEW p \in Node, Rbegin(p)
      PROVE  TreeIInv'
  BY <1>4, RbeginKeeps
<1>5. CASE Advance
  BY <1>5, AdvanceKeeps
<1>6. CASE UNCHANGED vars
  BY <1>6 DEF vars, iteration, TreeIInv, TypeInv, TreeInv, IsForest, PassInv, Behind,
              Children, Matches
<1>7. QED
  BY <1>1, <1>2, <1>3, <1>4, <1>5, <1>6 DEF Next, Iterate

\* The invariant gives the types, the tree and what the iterator has passed.
LEMMA TreeIInvImplies == TreeIInv => TypeOK /\ IsForest /\ PassesAll
<1> SUFFICES ASSUME TreeIInv PROVE TypeOK /\ IsForest /\ PassesAll
  OBVIOUS
<1>1. TypeOK
  BY DEF TreeIInv, TypeInv, TreeInv, Lists, TypeOK
<1>2. IsForest
  BY DEF TreeIInv, TypeInv, TreeInv
<1>3. PassesAll
  <2> DEFINE IsBehind(m) == \/ it.at = NoNode
                            \/ it.fwd /\ Place(m) < Place(it.at)
                            \/ ~it.fwd /\ Place(it.at) < Place(m)
  <2> SUFFICES ASSUME ~disturbed
               PROVE  /\ it.fwd => ~undefined
                      /\ ~undefined => seen = {m \in stays : IsBehind(m)}
    BY DEF PassesAll
  <2>1. /\ TreeInv /\ it.over \in Node
        /\ it.fwd => ~undefined
        /\ it.at # NoNode => it.at \in Children(it.over)
        /\ \A m \in stays : m \in Children(it.over)
        /\ ~undefined => seen = Behind(it.at)
    BY DEF TreeIInv, TypeInv, PassInv
  <2>2. ASSUME NEW m \in stays, it.at # NoNode
        PROVE  /\ Ahead(kids[it.over], m, it.at) <=> Place(m) < Place(it.at)
               /\ Ahead(kids[it.over], it.at, m) <=> Place(it.at) < Place(m)
    BY <2>1, <2>2, AheadByPlace
  <2> HIDE DEF IsBehind
  <2>3. ASSUME NEW m \in stays
        PROVE  m \in Behind(it.at) <=> IsBehind(m)
    BY <2>2 DEF Behind, IsBehind
  <2>4. Behind(it.at) = {m \in stays : IsBehind(m)}
    BY <2>3 DEF Behind
  <2>5. QED
    BY <2>1, <2>4
<1>4. QED
  BY <1>1, <1>2, <1>3

\* The invariant holds in every reachable state.
LEMMA TreeInductive == Spec => []TreeIInv
  BY InitTree, NextTree, PTL DEF Spec

\* An iterator is only ever at a mutation, or where one was that is freed.
THEOREM TreeTypeOK == Spec => []TypeOK
  BY TreeInductive, TreeIInvImplies, PTL

\* Whatever is added, copied, moved, detached and freed, each node is in one
\* place at most, and none is under itself, for any document that was read.
THEOREM TreeIsForest == Spec => []IsForest
  BY TreeInductive, TreeIInvImplies, PTL

\* An iterator whose own node is left alone passes every child that stays, once
\* and in order, whatever is changed around it while it is on its way.
THEOREM TreePassesAll == Spec => []PassesAll
  BY TreeInductive, TreeIInvImplies, PTL

-----------------------------------------------------------------------------
\* The mutations among the nodes of a list.

\* Only as what is flattened.
OneOf(x, N) == IF x \in N THEN <<x>> ELSE << >>
OnesOf(t, N) == [i \in DOMAIN t |-> OneOf(t[i], N)]

\* It is a list of lists with one element or none.
LEMMA OnesOfIs ==
  ASSUME NEW S, NEW t \in Seq(S), NEW N
  PROVE  /\ OnesOf(t, N) \in Seq(Seq(S)) /\ Len(OnesOf(t, N)) = Len(t)
         /\ \A i \in 1 .. Len(t) : OnesOf(t, N)[i] = OneOf(t[i], N)
         /\ Only(t, N) = FlattenSeq(OnesOf(t, N))
<1>1. \A x \in S : OneOf(x, N) \in Seq(S)
  BY DEF OneOf
<1>2. DOMAIN t = 1 .. Len(t) /\ Len(t) \in Nat /\ \A i \in 1 .. Len(t) : t[i] \in S
  OBVIOUS
<1>3. OnesOf(t, N) = [i \in 1 .. Len(t) |-> OneOf(t[i], N)]
  BY <1>2 DEF OnesOf
<1>4. \A i \in 1 .. Len(t) : OneOf(t[i], N) \in Seq(S)
  BY <1>1, <1>2
<1>5. Only(t, N) = FlattenSeq(OnesOf(t, N))
  BY DEF Only, OnesOf, OneOf
<1>6. QED
  BY <1>2, <1>3, <1>4, <1>5

\* What Only makes of two lists, one after the other.
LEMMA OnlyConcat ==
  ASSUME NEW S, NEW s \in Seq(S), NEW t \in Seq(S), NEW N
  PROVE  Only(s \o t, N) = Only(s, N) \o Only(t, N)
<1> DEFINE a == OnesOf(s, N)
           b == OnesOf(t, N)
           c == OnesOf(s \o t, N)
<1>1. /\ s \o t \in Seq(S) /\ Len(s \o t) = Len(s) + Len(t) /\ Len(s) \in Nat /\ Len(t) \in Nat
      /\ \A i \in 1 .. Len(s) + Len(t) : (s \o t)[i] = IF i <= Len(s) THEN s[i] ELSE t[i - Len(s)]
  BY ConcatProperties
<1>2. /\ a \in Seq(Seq(S)) /\ b \in Seq(Seq(S)) /\ c \in Seq(Seq(S))
      /\ Len(a) = Len(s) /\ Len(b) = Len(t) /\ Len(c) = Len(s) + Len(t)
      /\ \A i \in 1 .. Len(s) : a[i] = OneOf(s[i], N)
      /\ \A i \in 1 .. Len(t) : b[i] = OneOf(t[i], N)
      /\ \A i \in 1 .. Len(s) + Len(t) : c[i] = OneOf((s \o t)[i], N)
  BY <1>1, OnesOfIs
<1>3. /\ Only(s, N) = FlattenSeq(a) /\ Only(t, N) = FlattenSeq(b)
      /\ Only(s \o t, N) = FlattenSeq(c)
  BY <1>1, OnesOfIs
<1> HIDE DEF a, b, c
<1>4. /\ a \o b \in Seq(Seq(S)) /\ Len(a \o b) = Len(s) + Len(t)
      /\ \A i \in 1 .. Len(s) + Len(t) : (a \o b)[i] = IF i <= Len(s) THEN a[i] ELSE b[i - Len(s)]
  BY <1>1, <1>2, ConcatProperties
<1>5. ASSUME NEW i \in 1 .. Len(s) + Len(t)
      PROVE  (a \o b)[i] = c[i]
  <2>1. CASE i <= Len(s)
    BY <1>1, <1>2, <1>4, <2>1
  <2>2. CASE ~(i <= Len(s))
    <3>1. i - Len(s) \in 1 .. Len(t)
      BY <1>1, <2>2
    <3>2. QED
      BY <1>1, <1>2, <1>4, <2>2, <3>1
  <2>3. QED
    BY <2>1, <2>2
<1>6. a \o b = c
  BY <1>2, <1>4, <1>5, SeqEqual
<1>7. FlattenSeq(a \o b) = FlattenSeq(a) \o FlattenSeq(b)
  BY <1>2, FlattenConcat
<1>8. QED
  BY <1>3, <1>6, <1>7

\* And of a list and an element, with no other ones.
LEMMA OnlyOf ==
  ASSUME NEW S, NEW s \in Seq(S), NEW N
  PROVE  /\ Only(s, N) \in Seq(S)
         /\ Only(<< >>, N) = << >>
         /\ \A x \in S : Only(Append(s, x), N)
                           = IF x \in N THEN Append(Only(s, N), x) ELSE Only(s, N)
<1>1. Only(s, N) \in Seq(S)
  BY OnesOfIs, FlattenAppend
<1>2. Only(<< >>, N) = << >>
  <2>1. << >> \in Seq(S) /\ Len(<< >>) = 0
    OBVIOUS
  <2>2. /\ OnesOf(<< >>, N) \in Seq(Seq(S)) /\ Len(OnesOf(<< >>, N)) = 0
        /\ Only(<< >>, N) = FlattenSeq(OnesOf(<< >>, N))
    BY <2>1, OnesOfIs
  <2>3. OnesOf(<< >>, N) = << >>
    BY <2>2
  <2>4. FlattenSeq(<< >>) = << >>
    BY DEF FlattenSeq
  <2>5. QED
    BY <2>2, <2>3, <2>4
<1>3. ASSUME NEW x \in S
      PROVE  Only(Append(s, x), N) = IF x \in N THEN Append(Only(s, N), x) ELSE Only(s, N)
  <2>1. <<x>> \in Seq(S) /\ Append(s, x) = s \o <<x>>
    BY AppendIsConcat
  <2>2. Only(s \o <<x>>, N) = Only(s, N) \o Only(<<x>>, N)
    <3>1. PICK e \in Seq(S) : e = <<x>>
      BY <2>1
    <3>2. Only(s \o e, N) = Only(s, N) \o Only(e, N)
      BY OnlyConcat
    <3>3. QED
      BY <3>1, <3>2
  <2>3. Only(<<x>>, N) = OneOf(x, N)
    <3>1. PICK t \in Seq(S) : t = <<x>> /\ Len(t) = 1 /\ t[1] = x
      BY <2>1
    <3>2. /\ OnesOf(t, N) \in Seq(Seq(S)) /\ Len(OnesOf(t, N)) = 1
          /\ \A i \in 1 .. 1 : OnesOf(t, N)[i] = OneOf(t[i], N)
          /\ Only(t, N) = FlattenSeq(OnesOf(t, N))
      BY <3>1, OnesOfIs
    <3>3. OnesOf(t, N)[1] = OneOf(x, N)
      BY <3>1, <3>2
    <3>4. OneOf(x, N) \in Seq(S)
      BY DEF OneOf
    <3>5. OnesOf(t, N) = Append(<< >>, OneOf(x, N)) /\ << >> \in Seq(Seq(S))
      BY <3>2, <3>3, <3>4
    <3>6. FlattenSeq(Append(<< >>, OneOf(x, N))) = FlattenSeq(<< >>) \o OneOf(x, N)
      BY <3>4, <3>5, FlattenAppend
    <3>7. FlattenSeq(<< >>) = << >>
      BY DEF FlattenSeq
    <3>8. << >> \o OneOf(x, N) = OneOf(x, N)
      BY <3>4
    <3>9. QED
      BY <3>1, <3>2, <3>5, <3>6, <3>7, <3>8
  <2>4. CASE x \in N
    <3>1. OneOf(x, N) = <<x>>
      BY <2>4 DEF OneOf
    <3>2. Append(Only(s, N), x) = Only(s, N) \o <<x>>
      BY <1>1, AppendIsConcat
    <3>3. QED
      BY <2>1, <2>2, <2>3, <2>4, <3>1, <3>2
  <2>5. CASE x \notin N
    <3>1. OneOf(x, N) = << >>
      BY <2>5 DEF OneOf
    <3>2. Only(s, N) \o << >> = Only(s, N)
      BY <1>1
    <3>3. QED
      BY <2>1, <2>2, <2>3, <2>5, <3>1, <3>2
  <2>6. QED
    BY <2>4, <2>5
<1>4. QED
  BY <1>1, <1>2, <1>3

\* Only keeps what is in N, in its order.
LEMMA OnlyKeeps ==
  ASSUME NEW S, NEW s \in Seq(S), NEW N, Once(s)
  PROVE  LET t == Only(s, N)
         IN  /\ t \in Seq(S) /\ Once(t) /\ ToSet(t) = ToSet(s) \cap N
             /\ \A x, y : Ahead(t, x, y) <=> Ahead(s, x, y) /\ x \in N /\ y \in N
             /\ Len(t) <= Len(s)
<1> DEFINE Keeps(u) == LET t == Only(u, N)
                       IN  /\ t \in Seq(S) /\ Once(t) /\ ToSet(t) = ToSet(u) \cap N
                           /\ \A x, y : Ahead(t, x, y) <=> Ahead(u, x, y) /\ x \in N /\ y \in N
                           /\ Len(t) <= Len(u)
           J == {u \in Seq(S) : Once(u) => Keeps(u)}
<1>1. << >> \in J
  <2>1. << >> \in Seq(S) /\ Only(<< >>, N) = << >>
    BY OnlyOf
  <2>2. Once(<< >>) /\ ToSet(<< >>) = {} /\ \A x, y : ~Ahead(<< >>, x, y)
    BY DEF Once, ToSet, Ahead
  <2>3. Len(<< >>) <= Len(<< >>)
    OBVIOUS
  <2>4. QED
    BY <2>1, <2>2, <2>3
<1>2. ASSUME NEW k \in 1 .. Len(s), SubSeq(s, 1, k - 1) \in J
      PROVE  SubSeq(s, 1, k) \in J
  <2>1. PICK u, e : u = SubSeq(s, 1, k - 1) /\ e = s[k]
    OBVIOUS
  <2>2. u \in Seq(S) /\ e \in S /\ SubSeq(s, 1, k) = Append(u, e)
    BY <2>1, PrefixGrows
  <2>3. Once(u) => Keeps(u)
    BY <1>2, <2>1
  <2> DEFINE v == Append(u, e)
             t == Only(u, N)
  <2>4. /\ v \in Seq(S) /\ ToSet(v) = ToSet(u) \cup {e}
        /\ Once(v) <=> Once(u) /\ e \notin ToSet(u)
        /\ \A x, y : Ahead(v, x, y) <=> Ahead(u, x, y) \/ (x \in ToSet(u) /\ y = e)
    BY <2>2, AppendedIs
  <2>5. Only(v, N) = IF e \in N THEN Append(t, e) ELSE t
    BY <2>2, OnlyOf
  <2> HIDE DEF v, t
  <2>6. ASSUME Once(v)
        PROVE  Keeps(v)
    <3>1. /\ t \in Seq(S) /\ Once(t) /\ ToSet(t) = ToSet(u) \cap N
          /\ \A x, y : Ahead(t, x, y) <=> Ahead(u, x, y) /\ x \in N /\ y \in N
          /\ Len(t) <= Len(u) /\ Len(t) \in Nat /\ Len(u) \in Nat
      BY <2>2, <2>3, <2>4, <2>6 DEF t
    <3>0. Len(v) = Len(u) + 1 /\ Len(Append(t, e)) = Len(t) + 1
      BY <2>2, <3>1 DEF v
    <3>2. \A x, y : Ahead(u, x, y) => x \in ToSet(u) /\ y \in ToSet(u)
      BY <2>2, ToSetOfSeq DEF Ahead
    <3>3. CASE e \in N
      <4> DEFINE w == Append(t, e)
      <4>1. /\ w \in Seq(S) /\ ToSet(w) = ToSet(t) \cup {e}
            /\ Once(w) <=> Once(t) /\ e \notin ToSet(t)
            /\ \A x, y : Ahead(w, x, y) <=> Ahead(t, x, y) \/ (x \in ToSet(t) /\ y = e)
        BY <2>2, <3>1, AppendedIs
      <4>2. Only(v, N) = w
        BY <2>5, <3>3
      <4> HIDE DEF w
      <4>3. \A x, y : Ahead(w, x, y) <=> Ahead(v, x, y) /\ x \in N /\ y \in N
        BY <2>4, <3>1, <3>3, <4>1
      <4>4. QED
        BY <2>4, <2>6, <3>0, <3>1, <3>3, <4>1, <4>2, <4>3 DEF w
    <3>4. CASE e \notin N
      <4>1. Only(v, N) = t
        BY <2>5, <3>4
      <4>2. ToSet(t) = ToSet(v) \cap N
        BY <2>4, <3>1, <3>4
      <4>3. \A x, y : Ahead(t, x, y) <=> Ahead(v, x, y) /\ x \in N /\ y \in N
        BY <2>4, <3>1, <3>4
      <4>4. QED
        BY <3>0, <3>1, <4>1, <4>2, <4>3
    <3>5. QED
      BY <3>3, <3>4
  <2> HIDE DEF Keeps
  <2>7. v \in J
    BY <2>4, <2>6
  <2>8. QED
    BY <2>2, <2>7 DEF v
<1> HIDE DEF J
<1>3. J \in SUBSET Seq(S)
  BY DEF J
<1>4. s \in J
  BY <1>1, <1>2, <1>3, PrefixInduced
<1>5. QED
  BY <1>4 DEF J

=============================================================================
