-------------------------- MODULE ProvidersProofs ---------------------------
(***************************************************************************)
(* Proofs about chromos, documents and the providers that make and keep    *)
(* them, for any number of each.                                           *)
(*                                                                         *)
(* ChromoX: its three rules suffice.  Once its client has broken a rule    *)
(* there is nothing left to show, so every step is taken with sound'       *)
(* assumed: then sound holds before the step, and with it that nothing     *)
(* dangles and that no other chromo has the document of an owner.          *)
(* ChromoUse: the program keeps to the rules: what is copied does not own  *)
(* its document, and what a root node refers to is itself or the chromo of *)
(* ConstructSystem, which is never deleted.  Providers: its rules carry a  *)
(* client through.                                                         *)
(***************************************************************************)
EXTENDS Providers, TLAPS

-----------------------------------------------------------------------------
\* Any client.

\* The types are right at first.
LEMMA DocTypeInit == DocInit => TypeOK
BY DocAssumption DEF DocInit, TypeOK

\* Every call keeps the types.
LEMMA DocTypeStep == TypeOK /\ [Next]_vars => TypeOK'
<1>. SUFFICES ASSUME TypeOK, [Next]_vars PROVE TypeOK'
  OBVIOUS
<1>. USE DEF TypeOK
<1>1. ASSUME NEW o \in Obj, New(o) PROVE TypeOK'
  BY <1>1 DEF New
<1>2. ASSUME NEW o \in Obj, NEW d \in Doc, Init(o, d) PROVE TypeOK'
  BY <1>2 DEF Init
<1>3. ASSUME NEW o \in Obj PROVE AfterReset(o) \in [Doc -> {"unused", "live", "freed"}]
  BY DEF AfterReset, Frees
<1>4. ASSUME NEW o \in Obj, NEW d \in Doc, NEW h \in BOOLEAN, NEW k \in BOOLEAN,
             Set(o, d, h, k)
      PROVE TypeOK'
  <2>1. UNCHANGED <<objs, rootMdl, sound, aborted>>
    BY <1>4 DEF Set
  <2>2. heap' \in [Doc -> {"unused", "live", "freed"}]
    BY <1>3, <1>4 DEF Set
  <2>3. undefined' \in BOOLEAN
    BY <1>4 DEF Set, Frees, Freed
  <2>4. /\ iDoc' \in [Obj -> Doc \cup {NoDoc}]
        /\ iDocOwned' \in [Obj -> BOOLEAN]
        /\ rootDoc' \in [Obj -> Doc \cup {NoDoc}]
        /\ stale' \in [Obj -> BOOLEAN]
    BY <1>4 DEF Set
  <2>. QED  BY <2>1, <2>2, <2>3, <2>4
<1>5. ASSUME NEW o \in Obj, SetAbort(o) PROVE TypeOK'
  BY <1>3, <1>5 DEF SetAbort, Frees, Freed
<1>6. ASSUME NEW o \in Obj, NEW p \in Obj, NEW d \in Doc, SetFromNode(o, p, d)
      PROVE TypeOK'
  BY <1>6 DEF SetFromNode, Call, Freed
<1>7. ASSUME NEW o \in Obj, Reset(o) PROVE TypeOK'
  BY <1>3, <1>7 DEF Reset, Frees, Freed
<1>8. ASSUME NEW o \in Obj, UseRoot(o) PROVE TypeOK'
  BY <1>8 DEF UseRoot, Freed
<1>9. ASSUME NEW o \in Obj, NEW b \in BOOLEAN, Write(o, b) PROVE TypeOK'
  BY <1>9 DEF Write, Freed
<1>10. ASSUME NEW o \in Obj, NEW c \in Obj, Copy(o, c) PROVE TypeOK'
  BY <1>10 DEF Copy, Frees
<1>11. ASSUME NEW o \in Obj, NEW c \in Obj, Assign(o, c) PROVE TypeOK'
  BY <1>11 DEF Assign, Frees
<1>12. ASSUME NEW o \in Obj, Destroy(o) PROVE TypeOK'
  BY <1>3, <1>12 DEF Destroy, Frees, Freed
<1>13. CASE UNCHANGED vars
  BY <1>13 DEF vars
<1>. QED
  BY <1>1, <1>2, <1>4, <1>5, <1>6, <1>7, <1>8, <1>9, <1>10, <1>11, <1>12, <1>13 DEF Next

\* What holds as long as the client has kept to the rules.
Safe == ~undefined /\ NothingDangles /\ OwnersExclusive

\* Every call that keeps to the rules leaves nothing dangling and no owned
\* document shared.
LEMMA SafeStep ==
  ASSUME TypeOK, TypeOK', Safe, [Next]_vars, sound'
  PROVE  Safe'
<1>. USE DEF TypeOK, Safe, NothingDangles, OwnersExclusive, Frees, Freed
<1>1. ASSUME NEW o \in Obj, New(o) PROVE Safe'
  BY <1>1 DEF New
<1>2. ASSUME NEW o \in Obj, NEW d \in Doc, Init(o, d) PROVE Safe'
  BY <1>2, DocAssumption DEF Init, Call, Unused
<1>3. ASSUME NEW o \in Obj, NEW d \in Doc, NEW h \in BOOLEAN, NEW k \in BOOLEAN,
             Set(o, d, h, k)
      PROVE Safe'
  BY <1>3, DocAssumption DEF Set, Call, Unused, AfterReset
<1>4. ASSUME NEW o \in Obj, SetAbort(o) PROVE Safe'
  BY <1>4, DocAssumption DEF SetAbort, Call, AfterReset
<1>5. ASSUME NEW o \in Obj, NEW p \in Obj, NEW d \in Doc, SetFromNode(o, p, d)
      PROVE Safe'
  BY <1>5, DocAssumption DEF SetFromNode, Call, Unused
<1>6. ASSUME NEW o \in Obj, Reset(o) PROVE Safe'
  BY <1>6, DocAssumption DEF Reset, Call, AfterReset
<1>7. ASSUME NEW o \in Obj, UseRoot(o) PROVE Safe'
  BY <1>7 DEF UseRoot, Call
<1>8. ASSUME NEW o \in Obj, NEW b \in BOOLEAN, Write(o, b) PROVE Safe'
  BY <1>8 DEF Write, Call
<1>9. ASSUME NEW o \in Obj, NEW c \in Obj, Copy(o, c) PROVE Safe'
  BY <1>9 DEF Copy, Call
<1>10. ASSUME NEW o \in Obj, NEW c \in Obj, Assign(o, c) PROVE Safe'
  BY <1>10 DEF Assign, Call
<1>11. ASSUME NEW o \in Obj, Destroy(o) PROVE Safe'
  BY <1>11, DocAssumption DEF Destroy, Call, AfterReset
<1>12. CASE UNCHANGED vars
  BY <1>12 DEF vars
<1>. QED
  BY <1>1, <1>2, <1>3, <1>4, <1>5, <1>6, <1>7, <1>8, <1>9, <1>10, <1>11, <1>12 DEF Next

\* A rule that has been broken stays broken.
LEMMA SoundStep == TypeOK /\ [Next]_vars /\ sound' => sound
<1>. SUFFICES ASSUME TypeOK, [Next]_vars, sound' PROVE sound
  OBVIOUS
<1>. USE DEF TypeOK
<1>. QED
  BY DEF Next, vars, New, Init, Set, SetAbort, SetFromNode, Reset, UseRoot, Write, Copy,
         Assign, Destroy

\* The inductive invariant of ChromoX holds in every reachable state.
THEOREM DocInvariance == Spec => []DocIInv
<1>1. DocInit => DocIInv
  BY DocTypeInit DEF DocInit, DocIInv, NothingDangles, OwnersExclusive
<1>2. DocIInv /\ [Next]_vars => DocIInv'
  <2>. SUFFICES ASSUME DocIInv, [Next]_vars PROVE DocIInv'
    OBVIOUS
  <2>1. TypeOK /\ TypeOK'
    BY DocTypeStep DEF DocIInv
  <2>2. ASSUME sound' PROVE Safe'
    BY <2>1, <2>2, SoundStep, SafeStep DEF DocIInv, Safe
  <2>. QED  BY <2>1, <2>2 DEF DocIInv, Safe
<1>. QED  BY <1>1, <1>2, PTL DEF Spec

\* A client that keeps to the three rules never frees a document twice and
\* never reads what has been freed, whatever it calls in whatever order
\* (ChromoMdlX::Reset, Set, Init and the compiler's copies).
THEOREM DocRulesAreEnough == Spec => []RulesSuffice
<1>1. DocIInv => RulesSuffice
  BY DEF DocIInv, RulesSuffice
<1>. QED  BY <1>1, DocInvariance, PTL

-----------------------------------------------------------------------------
\* The program.

\* The invariant holds at first.
LEMMA UseInitially == UseInit => UseIInv
BY DocAssumption
   DEF UseInit, DocInit, UseIInv, UseTypeOK, TypeOK, Role, RolesLive, KeepsRules,
       NothingDangles, OwnersExclusive, FilesNotOwned, ModelsStay, RootsThere, LeaksOnlyFiles, Keeps

\* Every step keeps the types.
LEMMA UseTypeStep == UseIInv /\ [UseNext]_useVars => UseTypeOK'
<1>. SUFFICES ASSUME UseIInv, [UseNext]_useVars PROVE UseTypeOK'
  OBVIOUS
<1>. USE DEF UseIInv, UseTypeOK, TypeOK, Role, Becomes
<1>1. ASSUME NEW o \in Obj, NEW r \in {"elem0", "spec0"}, CreateChromo(o, r)
      PROVE UseTypeOK'
  BY <1>1 DEF CreateChromo, New
<1>2. ASSUME NEW o \in Obj, NewData(o) PROVE UseTypeOK'
  BY <1>2 DEF NewData, New
<1>3. ASSUME NEW o \in Obj, NEW d \in Doc, InitElem(o, d) PROVE UseTypeOK'
  BY <1>3 DEF InitElem, Init
<1>4. ASSUME NEW o \in Obj PROVE AfterReset(o) \in [Doc -> {"unused", "live", "freed"}]
  BY DEF AfterReset, Frees
<1>5. ASSUME NEW o \in Obj, NEW d \in Doc, NEW h \in BOOLEAN, SetSpec(o, d, h)
      PROVE UseTypeOK'
  <2>1. UNCHANGED <<objs, rootMdl, sound, aborted>> /\ role' \in [Obj -> Role]
    BY <1>5 DEF SetSpec, Set
  <2>2. heap' \in [Doc -> {"unused", "live", "freed"}]
    BY <1>4, <1>5 DEF SetSpec, Set
  <2>3. undefined' \in BOOLEAN
    BY <1>5 DEF SetSpec, Set, Frees, Freed
  <2>4. /\ iDoc' \in [Obj -> Doc \cup {NoDoc}]
        /\ iDocOwned' \in [Obj -> BOOLEAN]
        /\ rootDoc' \in [Obj -> Doc \cup {NoDoc}]
        /\ stale' \in [Obj -> BOOLEAN]
    BY <1>5 DEF SetSpec, Set
  <2>. QED  BY <2>1, <2>2, <2>3, <2>4
<1>6. ASSUME NEW o \in Obj, SetSpecAbort(o) PROVE UseTypeOK'
  BY <1>4, <1>6 DEF SetSpecAbort, SetAbort, Frees, Freed
<1>7. ASSUME NEW o \in Obj, ReadSpec(o) \/ Work(o) PROVE UseTypeOK'
  BY <1>7 DEF ReadSpec, Work, UseRoot, Freed
<1>8. ASSUME NEW o \in Obj, NEW c \in Obj, Deliver(o, c) PROVE UseTypeOK'
  <2>1. role' \in [Obj -> Role]
    BY <1>8 DEF Deliver
  <2>2. CASE Copy(o, c)
    <3>1. /\ objs' \subseteq Obj
          /\ UNCHANGED <<heap, undefined, aborted>>
          /\ sound' \in BOOLEAN
      BY <2>2 DEF Copy, Frees
    <3>2. /\ iDoc' \in [Obj -> Doc \cup {NoDoc}]
          /\ rootDoc' \in [Obj -> Doc \cup {NoDoc}]
      BY <2>2 DEF Copy
    <3>3. /\ iDocOwned' \in [Obj -> BOOLEAN]
          /\ rootMdl' \in [Obj -> Obj]
          /\ stale' \in [Obj -> BOOLEAN]
      BY <2>2 DEF Copy
    <3>. QED  BY <2>1, <3>1, <3>2, <3>3
  <2>3. CASE Assign(o, c)
    <3>1. /\ UNCHANGED <<objs, rootMdl, heap, undefined, aborted>>
          /\ sound' \in BOOLEAN
      BY <2>3 DEF Assign, Frees
    <3>2. /\ iDoc' \in [Obj -> Doc \cup {NoDoc}]
          /\ rootDoc' \in [Obj -> Doc \cup {NoDoc}]
      BY <2>3 DEF Assign
    <3>3. /\ iDocOwned' \in [Obj -> BOOLEAN]
          /\ stale' \in [Obj -> BOOLEAN]
      BY <2>3 DEF Assign
    <3>. QED  BY <2>1, <3>1, <3>2, <3>3
  <2>. QED  BY <1>8, <2>2, <2>3 DEF Deliver
<1>9. ASSUME NEW o \in Obj, NEW b \in BOOLEAN, Save(o, b) PROVE UseTypeOK'
  BY <1>9 DEF Save, Write, Freed
<1>10. ASSUME NEW o \in Obj, Delete(o) PROVE UseTypeOK'
  BY <1>4, <1>10 DEF Delete, Destroy, Frees, Freed
<1>11. ASSUME NEW o \in Obj, Forget(o) PROVE UseTypeOK'
  BY <1>11 DEF Forget, vars
<1>12. CASE UNCHANGED useVars
  BY <1>12 DEF useVars, vars
<1>. QED
  BY <1>1, <1>2, <1>3, <1>5, <1>6, <1>7, <1>8, <1>9, <1>10, <1>11, <1>12 DEF UseNext

\* The chromo that accounts for a document.
Keeper(o, d) == o \in objs /\ iDoc[o] = d /\ Keeps(o)

\* Documents may be freed, and those that are not keep the chromos that account
\* for them.
LEMMA SameKeepers ==
  ASSUME objs \subseteq Obj, objs' \subseteq Obj, LeaksOnlyFiles,
         \A d \in Doc : heap'[d] = "live" =>
           heap[d] = "live" /\ \A o \in Obj : Keeper(o, d)' <=> Keeper(o, d)
  PROVE  LeaksOnlyFiles'
<1>. SUFFICES ASSUME NEW d \in Doc, heap'[d] = "live"
              PROVE  (\E o \in objs : \A p \in objs : iDoc[p] = d /\ Keeps(p) <=> p = o)'
  BY DEF LeaksOnlyFiles
<1>1. PICK o \in objs : \A p \in objs : iDoc[p] = d /\ Keeps(p) <=> p = o
  BY DEF LeaksOnlyFiles
<1>2. Keeper(o, d)'
  BY <1>1 DEF Keeper
<1>3. ASSUME NEW p \in objs' PROVE (iDoc[p] = d /\ Keeps(p))' <=> p = o
  <2>1. (iDoc[p] = d /\ Keeps(p))' <=> Keeper(p, d)'
    BY <1>3 DEF Keeper
  <2>2. Keeper(p, d)' <=> Keeper(p, d)
    BY <1>3
  <2>3. Keeper(p, d) <=> p = o
    BY <1>1 DEF Keeper
  <2>. QED  BY <2>1, <2>2, <2>3
<1>. QED  BY <1>2, <1>3 DEF Keeper

\* A new document is for one chromo, which had none to account for.
LEMMA NewKeeper ==
  ASSUME objs' = objs, LeaksOnlyFiles, NothingDangles,
         NEW o \in objs, NEW d \in Doc, heap[d] = "unused", heap' = [heap EXCEPT ![d] = "live"],
         heap \in [Doc -> {"unused", "live", "freed"}], objs \subseteq Obj,
         ~Keeps(o) \/ iDoc[o] = NoDoc, iDoc \in [Obj -> Doc \cup {NoDoc}],
         iDoc' = [iDoc EXCEPT ![o] = d], Keeps(o)',
         \A p \in objs \ {o} : Keeps(p)' <=> Keeps(p)
  PROVE  LeaksOnlyFiles'
<1>. USE DocAssumption
<1>1. \A p \in objs \ {o} : iDoc'[p] = iDoc[p] /\ iDoc[p] # d
  BY DEF NothingDangles
<1>2. iDoc'[o] = d
  OBVIOUS
<1>. SUFFICES ASSUME NEW e \in Doc, heap'[e] = "live"
              PROVE  \E k \in objs : \A p \in objs : iDoc'[p] = e /\ Keeps(p)' <=> p = k
  BY DEF LeaksOnlyFiles
<1>3. CASE e = d
  <2>1. \A p \in objs : iDoc'[p] = e /\ Keeps(p)' <=> p = o
    BY <1>1, <1>2, <1>3
  <2>. QED  BY <2>1
<1>4. CASE e # d
  <2>1. PICK k \in objs : \A p \in objs : iDoc[p] = e /\ Keeps(p) <=> p = k
    BY <1>4 DEF LeaksOnlyFiles
  <2>2. k # o
    BY <2>1
  <2>3. \A p \in objs : iDoc'[p] = e /\ Keeps(p)' <=> p = k
    BY <1>1, <1>2, <1>4, <2>1, <2>2
  <2>. QED  BY <2>3
<1>. QED  BY <1>3, <1>4

\* Every step keeps the rest of the invariant.
LEMMA UseStep ==
  ASSUME UseIInv, UseTypeOK', [UseNext]_useVars
  PROVE  UseIInv'
<1>. USE DocAssumption
     DEF UseIInv, UseTypeOK, TypeOK, Becomes, RolesLive, KeepsRules, NothingDangles,
         OwnersExclusive, FilesNotOwned, ModelsStay, RootsThere,
         Call, Unused, Frees, Freed
<1>1. ASSUME NEW o \in Obj, NEW r \in {"elem0", "spec0"}, CreateChromo(o, r)
      PROVE UseIInv'
  <2>1. LeaksOnlyFiles'
    BY <1>1, SameKeepers DEF CreateChromo, New, Keeper, Keeps
  <2>. QED  BY <1>1, <2>1 DEF CreateChromo, New
<1>2. ASSUME NEW o \in Obj, NewData(o) PROVE UseIInv'
  <2>1. LeaksOnlyFiles'
    BY <1>2, SameKeepers DEF NewData, New, Keeper, Keeps
  <2>. QED  BY <1>2, <2>1 DEF NewData, New
<1>3. ASSUME NEW o \in Obj, NEW d \in Doc, InitElem(o, d) PROVE UseIInv'
  <2>1. LeaksOnlyFiles'
    <3>1. o \in objs /\ heap[d] = "unused" /\ iDoc[o] = NoDoc
      BY <1>3 DEF InitElem, Init
    <3>2. /\ objs' = objs /\ heap' = [heap EXCEPT ![d] = "live"]
          /\ iDoc' = [iDoc EXCEPT ![o] = d]
      BY <1>3 DEF InitElem, Init
    <3>3. Keeps(o)' /\ \A p \in objs \ {o} : Keeps(p)' <=> Keeps(p)
      BY <1>3 DEF InitElem, Init, Keeps
    <3>. QED  BY <3>1, <3>2, <3>3, NewKeeper
  <2>. QED  BY <1>3, <2>1 DEF InitElem, Init
<1>4. ASSUME NEW o \in Obj, NEW d \in Doc, NEW h \in BOOLEAN, SetSpec(o, d, h)
      PROVE UseIInv'
  <2>1. heap' = [heap EXCEPT ![d] = "live"]
    BY <1>4 DEF SetSpec, Set, AfterReset
  <2>2. RolesLive' /\ KeepsRules'
    BY <1>4, <2>1 DEF SetSpec, Set
  <2>3. NothingDangles'
    BY <1>4, <2>1 DEF SetSpec, Set
  <2>4. OwnersExclusive'
    BY <1>4, <2>1 DEF SetSpec, Set
  <2>5. FilesNotOwned'
    BY <1>4, <2>1 DEF SetSpec, Set
  <2>6. ModelsStay'
    BY <1>4, <2>1 DEF SetSpec, Set
  <2>7. RootsThere'
    BY <1>4, <2>1 DEF SetSpec, Set
  <2>8. LeaksOnlyFiles'
    <3>1. o \in objs /\ heap[d] = "unused" /\ iDoc[o] = NoDoc
      BY <1>4 DEF SetSpec, Set
    <3>2. objs' = objs /\ iDoc' = [iDoc EXCEPT ![o] = d]
      BY <1>4 DEF SetSpec, Set
    <3>3. Keeps(o)' /\ \A p \in objs \ {o} : Keeps(p)' <=> Keeps(p)
      BY <1>4 DEF SetSpec, Set, Keeps
    <3>. QED  BY <2>1, <3>1, <3>2, <3>3, NewKeeper
  <2>. QED  BY <2>2, <2>3, <2>4, <2>5, <2>6, <2>7, <2>8
<1>5. ASSUME NEW o \in Obj, SetSpecAbort(o) PROVE UseIInv'
  <2>1. iDoc[o] = NoDoc /\ ~Frees(o)
    BY <1>5 DEF SetSpecAbort, SetAbort
  <2>2. /\ UNCHANGED <<objs, iDocOwned, rootMdl, rootDoc, heap, sound, role>>
        /\ iDoc' = iDoc /\ undefined' = FALSE /\ aborted' = TRUE
        /\ stale' = [stale EXCEPT ![o] = TRUE]
    BY <1>5, <2>1 DEF SetSpecAbort, SetAbort, AfterReset
  <2>3. RolesLive' /\ KeepsRules' /\ NothingDangles' /\ OwnersExclusive'
    BY <2>2
  <2>4. FilesNotOwned' /\ ModelsStay' /\ RootsThere'
    BY <2>2
  <2>5. LeaksOnlyFiles'
    BY <2>2, SameKeepers DEF Keeper, Keeps
  <2>. QED  BY <2>3, <2>4, <2>5
<1>6. ASSUME NEW o \in Obj, ReadSpec(o) PROVE UseIInv'
  <2>1. sound' /\ ~undefined'
    BY <1>6 DEF ReadSpec, UseRoot
  <2>2. RolesLive' /\ NothingDangles' /\ OwnersExclusive'
    BY <1>6 DEF ReadSpec, UseRoot
  <2>3. FilesNotOwned'
    BY <1>6 DEF ReadSpec, UseRoot
  <2>4. ModelsStay'
    BY <1>6 DEF ReadSpec, UseRoot
  <2>5. RootsThere'
    BY <1>6 DEF ReadSpec, UseRoot
  <2>6. LeaksOnlyFiles'
    BY <1>6, SameKeepers DEF ReadSpec, UseRoot, Keeper, Keeps
  <2>. QED  BY <2>1, <2>2, <2>3, <2>4, <2>5, <2>6
<1>7. ASSUME NEW o \in Obj, Work(o) PROVE UseIInv'
  <2>1. sound' /\ ~undefined'
    BY <1>7 DEF Work, UseRoot
  <2>2. RolesLive' /\ NothingDangles' /\ OwnersExclusive'
    BY <1>7 DEF Work, UseRoot
  <2>3. FilesNotOwned' /\ ModelsStay'
    BY <1>7 DEF Work, UseRoot
  <2>4. RootsThere'
    BY <1>7 DEF Work, UseRoot
  <2>5. LeaksOnlyFiles'
    BY <1>7, SameKeepers DEF Work, UseRoot, Keeper, Keeps
  <2>. QED  BY <2>1, <2>2, <2>3, <2>4, <2>5
<1>8. ASSUME NEW o \in Obj, NEW c \in Obj, Deliver(o, c) PROVE UseIInv'
  <2>1. CASE Copy(o, c)
    <3>1. RolesLive' /\ KeepsRules'
      <4>1. ~Frees(o) /\ role[c] = "none"
        BY <1>8, <2>1 DEF Deliver, Copy
      <4>2. sound' /\ ~undefined'
        BY <2>1, <4>1 DEF Copy
      <4>3. RolesLive'
        BY <1>8, <2>1 DEF Deliver, Copy
      <4>. QED  BY <4>2, <4>3
    <3>2. NothingDangles'
      BY <1>8, <2>1 DEF Deliver, Copy
    <3>3. OwnersExclusive'
      BY <1>8, <2>1 DEF Deliver, Copy
    <3>4. FilesNotOwned'
      BY <1>8, <2>1 DEF Deliver, Copy
    <3>5. ModelsStay'
      BY <1>8, <2>1 DEF Deliver, Copy
    <3>6. RootsThere'
      BY <1>8, <2>1 DEF Deliver, Copy
    <3>7. LeaksOnlyFiles'
      BY <1>8, <2>1, SameKeepers DEF Deliver, Copy, Keeper, Keeps
    <3>. QED  BY <3>1, <3>2, <3>3, <3>4, <3>5, <3>6, <3>7
  <2>2. CASE role[c] \in {"data0", "data"} /\ Assign(o, c)
    <3>1. RolesLive' /\ KeepsRules'
      <4>1. ~Frees(o)
        BY <1>8, <2>2 DEF Deliver, Assign
      <4>2. sound' /\ ~undefined'
        BY <2>2, <4>1 DEF Assign
      <4>3. RolesLive'
        BY <1>8, <2>2 DEF Deliver, Assign
      <4>. QED  BY <4>2, <4>3
    <3>2. NothingDangles'
      BY <1>8, <2>2 DEF Deliver, Assign
    <3>3. OwnersExclusive'
      BY <1>8, <2>2 DEF Deliver, Assign
    <3>4. FilesNotOwned'
      BY <1>8, <2>2 DEF Deliver, Assign
    <3>5. ModelsStay'
      BY <1>8, <2>2 DEF Deliver, Assign
    <3>6. RootsThere'
      BY <1>8, <2>2 DEF Deliver, Assign
    <3>7. LeaksOnlyFiles'
      BY <1>8, <2>2, SameKeepers DEF Deliver, Assign, Keeper, Keeps
    <3>. QED  BY <3>1, <3>2, <3>3, <3>4, <3>5, <3>6, <3>7
  <2>. QED  BY <1>8, <2>1, <2>2 DEF Deliver
<1>9. ASSUME NEW o \in Obj, NEW b \in BOOLEAN, Save(o, b) PROVE UseIInv'
  <2>1. sound' /\ ~undefined'
    BY <1>9 DEF Save, Write
  <2>2. RolesLive' /\ NothingDangles' /\ OwnersExclusive'
    BY <1>9 DEF Save, Write
  <2>3. FilesNotOwned' /\ ModelsStay'
    BY <1>9 DEF Save, Write
  <2>4. RootsThere'
    BY <1>9 DEF Save, Write
  <2>5. LeaksOnlyFiles'
    BY <1>9, SameKeepers DEF Save, Write, Keeper, Keeps
  <2>. QED  BY <2>1, <2>2, <2>3, <2>4, <2>5
<1>10. ASSUME NEW o \in Obj, Delete(o) PROVE UseIInv'
  <2>1. RolesLive' /\ KeepsRules'
    <3>1. \A p \in objs \ {o} : rootMdl[p] # o
      BY <1>10 DEF Delete
    <3>2. sound' /\ ~undefined'
      BY <1>10, <3>1 DEF Delete, Destroy
    <3>3. RolesLive'
      BY <1>10 DEF Delete, Destroy
    <3>. QED  BY <3>2, <3>3
  <2>2. NothingDangles'
    BY <1>10 DEF Delete, Destroy, AfterReset
  <2>3. OwnersExclusive'
    BY <1>10 DEF Delete, Destroy, AfterReset
  <2>4. FilesNotOwned'
    BY <1>10 DEF Delete, Destroy, AfterReset
  <2>5. ModelsStay'
    BY <1>10 DEF Delete, Destroy, AfterReset
  <2>6. RootsThere'
    BY <1>10 DEF Delete, Destroy, AfterReset
  <2>7. LeaksOnlyFiles'
    <3>1. ASSUME NEW d \in Doc, heap'[d] = "live"
          PROVE  heap[d] = "live" /\ ~Keeper(o, d)
      BY <1>10, <3>1 DEF Delete, Destroy, AfterReset, Keeper, Keeps
    <3>2. \A p \in Obj \ {o}, d \in Doc : Keeper(p, d)' <=> Keeper(p, d)
      BY <1>10 DEF Delete, Destroy, Keeper, Keeps
    <3>3. \A d \in Doc : ~Keeper(o, d)'
      BY <1>10 DEF Delete, Destroy, Keeper
    <3>. QED  BY <3>1, <3>2, <3>3, SameKeepers
  <2>. QED  BY <2>1, <2>2, <2>3, <2>4, <2>5, <2>6, <2>7
<1>11. ASSUME NEW o \in Obj, Forget(o) PROVE UseIInv'
  <2>1. /\ UNCHANGED vars /\ role[o] \in {"spec0", "ready"} /\ o \in objs
        /\ role' = [role EXCEPT ![o] = "lost"]
    BY <1>11 DEF Forget
  <2>2. RolesLive' /\ KeepsRules' /\ NothingDangles' /\ OwnersExclusive'
    BY <2>1 DEF vars
  <2>3. FilesNotOwned' /\ ModelsStay' /\ RootsThere'
    BY <2>1 DEF vars
  <2>4. LeaksOnlyFiles'
    BY <2>1, SameKeepers DEF vars, Keeper, Keeps
  <2>. QED  BY <2>2, <2>3, <2>4
<1>12. CASE UNCHANGED useVars
  <2>1. LeaksOnlyFiles'
    BY <1>12, SameKeepers DEF useVars, vars, Keeper, Keeps
  <2>. QED  BY <1>12, <2>1 DEF useVars, vars
<1>. QED
  BY <1>1, <1>2, <1>3, <1>4, <1>5, <1>6, <1>7, <1>8, <1>9, <1>10, <1>11, <1>12 DEF UseNext

\* The inductive invariant holds in every reachable state.
THEOREM UseInvariance == UseSpec => []UseIInv
<1>1. UseIInv /\ [UseNext]_useVars => UseIInv'
  BY UseTypeStep, UseStep
<1>. QED  BY <1>1, UseInitially, PTL DEF UseSpec

\* The program keeps to the rules of ChromoX and so never frees a document
\* twice nor reads one that is freed, although all copies share it.
THEOREM RulesKept == UseSpec => []KeepsRules
<1>1. UseIInv => KeepsRules
  BY DEF UseIInv
<1>. QED  BY <1>1, UseInvariance, PTL

\* The root nodes the states of an agent work on are there.
THEOREM RootsStayUsable == UseSpec => []RootsUsable
<1>1. UseIInv => RootsUsable
  BY DEF UseIInv, RootsUsable, RootsThere, NothingDangles, ModelsStay
<1>. QED  BY <1>1, UseInvariance, PTL

\* What leaks is what ConstructSystem has made, and nothing else: a document
\* that is not freed is that of one agent, who frees it, or of one call of
\* ConstructSystem, whose chromo nobody deletes.
THEOREM OnlyFilesLeak == UseSpec => []LeaksOnlyFiles
<1>1. UseIInv => LeaksOnlyFiles
  BY DEF UseIInv
<1>. QED  BY <1>1, UseInvariance, PTL

-----------------------------------------------------------------------------
\* The chromos.

\* Every step is one of ChromoUse or leaves the chromos alone.
LEMMA ChromoSteps == [ProvNext]_allVars => [UseNext]_useVars
<1>. SUFFICES ASSUME [ProvNext]_allVars PROVE [UseNext]_useVars
  OBVIOUS
<1>1. ASSUME NEW o \in Obj, NEW r \in {"elem0", "spec0"}, MakeChromo(o, r)
      PROVE [UseNext]_useVars
  BY <1>1 DEF MakeChromo, UseNext
<1>2. ASSUME NEW o \in Obj, UseChromo(o) PROVE UseNext
  BY <1>2 DEF UseChromo, UseNext
<1>3. CASE NewEnv \/ DeleteEnv \/ Query \/ ModulesPath \/ \E set \in BOOLEAN : SetEnv(set)
  BY <1>3 DEF NewEnv, DeleteEnv, Query, ModulesPath, SetEnv
<1>4. ASSUME NEW p \in Prov,
             \/ \E init \in BOOLEAN : LoadPlugin(p, init)
             \/ NewProvider(p) \/ AddProvider(p) \/ RemoveProvider(p) \/ DeleteProvider(p)
      PROVE UNCHANGED useVars
  BY <1>4 DEF LoadPlugin, NewProvider, AddProvider, RemoveProvider, DeleteProvider
<1>5. CASE UNCHANGED allVars
  BY <1>5 DEF allVars
<1>. QED  BY <1>1, <1>2, <1>3, <1>4, <1>5 DEF ProvNext

\* So the chromos go through the same states as without the table.
LEMMA ProvidersUse == ProvSpec => UseSpec
<1>1. ProvInit => UseInit
  BY DEF ProvInit
<1>. QED  BY <1>1, ChromoSteps, PTL DEF ProvSpec, UseSpec

\* What ChromoUse keeps is kept while plugins, providers and environments come
\* and go, whatever the client does to the table.
THEOREM ProvidersKeepRules == ProvSpec => []UseIInv
BY ProvidersUse, UseInvariance, PTL

-----------------------------------------------------------------------------
\* The providers.

\* Names are the names of providers.
LEMMA NamesKnown == /\ \A p \in Prov : NameOf[p] \in Name /\ NameOf[p] \in Int
                    /\ Def \in Prov
BY ProvAssumption DEF Name

\* The invariant holds before there is an environment.
LEMMA ProvInitially == ProvInit => ProvIInv
<1>. SUFFICES ASSUME ProvInit PROVE ProvIInv
  OBVIOUS
<1>1. ProvTypeOK /\ PluginsMapped /\ HeldLive
  BY NamesKnown, ProvAssumption DEF ProvInit, ProvTypeOK, PluginsMapped, HeldLive
<1>2. Present = {} /\ Answering = {}
  BY DEF ProvInit, Present, Answering
<1>3. TableInOrder
  BY <1>2, NamesKnown DEF ProvInit, TableInOrder
<1>4. OwnedOnce
  BY NamesKnown, ProvAssumption DEF ProvInit, OwnedOnce
<1>. QED  BY <1>1, <1>3, <1>4 DEF ProvInit, ProvIInv, RulesCarry

\* What AddProvider leaves behind.
LEMMA EnterKeeps ==
  ASSUME ProvTypeOK, NEW p \in Prov, Enter(p)
  PROVE  /\ iProviders' \in [Name -> Prov \cup {NoProv}]
         /\ tame' \in BOOLEAN
         /\ failure' \in {failure, "assert"}
         /\ tame' => /\ tame /\ failure' = failure
                     /\ iProviders[NameOf[p]] = NoProv
                     /\ iProviders' = [iProviders EXCEPT ![NameOf[p]] = p]
BY NamesKnown DEF ProvTypeOK, Enter, Present

\* Every step keeps the types.
LEMMA ProvTypeStep == ProvTypeOK /\ [ProvNext]_allVars => ProvTypeOK'
<1>. SUFFICES ASSUME ProvTypeOK, [ProvNext]_allVars PROVE ProvTypeOK'
  OBVIOUS
<1>. USE NamesKnown
<1>1. CASE NewEnv
  BY <1>1 DEF NewEnv, ProvTypeOK
<1>2. CASE DeleteEnv
  BY <1>2 DEF DeleteEnv, AfterDelete, ProvTypeOK
<1>3. ASSUME NEW p \in Prov, NEW init \in BOOLEAN, LoadPlugin(p, init) PROVE ProvTypeOK'
  <2>1. CASE init
    BY <1>3, <2>1, EnterKeeps DEF LoadPlugin, Opened, ProvTypeOK
  <2>2. CASE ~init
    BY <1>3, <2>2 DEF LoadPlugin, ProvTypeOK
  <2>. QED  BY <2>1, <2>2
<1>4. ASSUME NEW p \in Prov, NewProvider(p) PROVE ProvTypeOK'
  BY <1>4 DEF NewProvider, ProvTypeOK
<1>5. ASSUME NEW p \in Prov, AddProvider(p) PROVE ProvTypeOK'
  BY <1>5, EnterKeeps DEF AddProvider, ProvTypeOK
<1>6. ASSUME NEW p \in Prov, RemoveProvider(p) PROVE ProvTypeOK'
  BY <1>6 DEF RemoveProvider, ProvTypeOK
<1>7. ASSUME NEW p \in Prov, DeleteProvider(p) PROVE ProvTypeOK'
  BY <1>7 DEF DeleteProvider, ProvTypeOK
<1>8. ASSUME NEW set \in BOOLEAN, SetEnv(set) PROVE ProvTypeOK'
  BY <1>8 DEF SetEnv, ProvTypeOK
<1>9. ASSUME NEW o \in Obj, NEW r \in {"elem0", "spec0"}, MakeChromo(o, r)
      PROVE  ProvTypeOK'
  BY <1>9 DEF MakeChromo, ProvTypeOK
<1>10. ASSUME NEW o \in Obj, UseChromo(o) PROVE ProvTypeOK'
  BY <1>10 DEF UseChromo, provVars, ProvTypeOK
<1>11. CASE Query \/ ModulesPath
  BY <1>11 DEF Query, ModulesPath, ProvTypeOK
<1>12. CASE UNCHANGED allVars
  BY <1>12 DEF allVars, provVars, ProvTypeOK
<1>. QED
  BY <1>1, <1>2, <1>3, <1>4, <1>5, <1>6, <1>7, <1>8, <1>9, <1>10, <1>11, <1>12 DEF ProvNext

\* Where the rules are kept, an entry of the table is a provider alive of that
\* name, and not the client's.
InTable(n) ==
  /\ iProviders[n] \in Prov
  /\ NameOf[iProviders[n]] = n
  /\ provs[iProviders[n]] = "live"
  /\ iProviders[n] \notin held

\* What is found in the table under a name.
LEMMA Lookups ==
  ASSUME ProvIInv, tame
  PROVE  /\ \A n \in Present : InTable(n)
         /\ \A n \in Name \ Present : iProviders[n] = NoProv
         /\ env # "alive" => Present = {}
<1>. USE NamesKnown
<1>. SUFFICES ASSUME NEW n \in Present PROVE InTable(n)
  BY DEF ProvIInv, TableInOrder, Present
<1>1. iProviders[n] \in Prov /\ NameOf[iProviders[n]] = n
  BY DEF ProvIInv, ProvTypeOK, TableInOrder, Present
<1>2. provs[iProviders[n]] = "live" /\ iProviders[n] \notin held
  BY <1>1 DEF ProvIInv, ProvTypeOK, HeldLive, OwnedOnce
<1>. QED  BY <1>1, <1>2 DEF InTable

\* Then nothing that is asked is deleted, and if ProvDef is first, it answers.
LEMMA Answered ==
  ASSUME ProvIInv, tame
  PROVE  /\ ~Dead(Present)
         /\ env = "alive" => Answer # "dead"
         /\ env = "alive" /\ DefFirst => /\ NameOf[Def] \in Present
                                        /\ Answer = "chromo"
<1>. USE NamesKnown
<1>1. ~Dead(Present)
  BY Lookups DEF Dead, InTable
<1>2. ~Dead(Asked)
  BY Lookups DEF Dead, InTable, Asked
<1>3. env = "alive" => Answer # "dead"
  BY <1>2 DEF Answer
<1>4. SUFFICES ASSUME env = "alive", DefFirst
               PROVE  NameOf[Def] \in Present /\ Answer = "chromo"
  BY <1>1, <1>3
<1>5. iProviders[NameOf[Def]] = Def /\ Def # NoProv
  BY <1>4, ProvAssumption DEF DefFirst
<1>6. NameOf[Def] \in Answering /\ NameOf[Def] \in Present
  BY <1>5, ProvAssumption DEF Answering, Present
<1>7. NameOf[Def] \in Asked
  BY <1>4, <1>6 DEF Asked, DefFirst
<1>. QED  BY <1>2, <1>4, <1>5, <1>6, <1>7 DEF Answer

\* What the rules mean, entry by entry and provider by provider.
Kept ==
  /\ RulesCarry
  /\ env = "none" => provs[Def] = "unused"
  /\ env # "alive" => Present = {}
  /\ \A n \in Present : InTable(n)
  /\ \A p \in held : provs[p] = "live"
  /\ \A p \in Prov : provs[p] = "live" => p \in held \/ iProviders[NameOf[p]] = p

\* The invariant, entry by entry,
LEMMA IInvIsKept == ASSUME ProvIInv, tame PROVE Kept
<1>. QED
  BY Lookups, NamesKnown DEF ProvIInv, ProvTypeOK, HeldLive, TableInOrder, OwnedOnce, Kept

\* and back.
LEMMA KeptIsIInv ==
  ASSUME ProvTypeOK, PluginsMapped, tame => Kept
  PROVE  ProvIInv
<1>. USE NamesKnown
<1>. SUFFICES ASSUME tame PROVE RulesCarry /\ TableInOrder /\ HeldLive /\ OwnedOnce
  BY DEF ProvIInv, OwnedOnce, RulesCarry
<1>1. TableInOrder
  BY DEF Kept, TableInOrder, InTable
<1>2. ASSUME NEW p \in Prov, iProviders[NameOf[p]] = p
      PROVE  provs[p] = "live" /\ p \notin held
  BY <1>2, ProvAssumption DEF Kept, Present, InTable
<1>3. OwnedOnce
  BY <1>2 DEF OwnedOnce, Kept, ProvTypeOK
<1>. QED  BY <1>1, <1>3 DEF Kept, HeldLive

\* Libraries stay open.
LEMMA MappedStep ==
  ASSUME ProvTypeOK, PluginsMapped, [ProvNext]_allVars
  PROVE  PluginsMapped'
<1>. SUFFICES ASSUME NEW q \in Plugins, provs'[q] = "live" PROVE q \in mapped'
  BY DEF PluginsMapped
<1>. USE ProvAssumption
<1>1. ASSUME mapped' = mapped, provs'[q] = "live" => provs[q] = "live"
      PROVE  q \in mapped'
  BY <1>1 DEF PluginsMapped
<1>2. CASE NewEnv
  BY <1>1, <1>2 DEF NewEnv, ProvTypeOK
<1>3. CASE DeleteEnv
  BY <1>1, <1>3 DEF DeleteEnv, AfterDelete, ProvTypeOK
<1>4. ASSUME NEW p \in Prov, NEW init \in BOOLEAN, LoadPlugin(p, init)
      PROVE  q \in mapped'
  <2>1. CASE init
    BY <1>4, <2>1 DEF LoadPlugin, Opened, ProvTypeOK, PluginsMapped
  <2>2. CASE ~init
    BY <1>1, <1>4, <2>2 DEF LoadPlugin
  <2>. QED  BY <2>1, <2>2
<1>5. ASSUME NEW p \in Prov, NewProvider(p) PROVE q \in mapped'
  BY <1>1, <1>5 DEF NewProvider, ProvTypeOK
<1>6. ASSUME NEW p \in Prov, AddProvider(p) \/ RemoveProvider(p) PROVE q \in mapped'
  BY <1>1, <1>6 DEF AddProvider, RemoveProvider
<1>7. ASSUME NEW p \in Prov, DeleteProvider(p) PROVE q \in mapped'
  BY <1>1, <1>7 DEF DeleteProvider, ProvTypeOK
<1>8. ASSUME NEW o \in Obj, NEW r \in {"elem0", "spec0"}, MakeChromo(o, r)
      PROVE  q \in mapped'
  BY <1>1, <1>8 DEF MakeChromo
<1>9. CASE \/ Query \/ ModulesPath \/ UNCHANGED allVars
           \/ \E set \in BOOLEAN : SetEnv(set)
           \/ \E o \in Obj : UseChromo(o)
  BY <1>1, <1>9 DEF Query, ModulesPath, SetEnv, UseChromo, allVars, provVars
<1>. QED
  BY <1>2, <1>3, <1>4, <1>5, <1>6, <1>7, <1>8, <1>9 DEF ProvNext

\* A provider is entered in the table.
LEMMA EnterKept ==
  ASSUME ProvTypeOK, Kept, failure = "none", env = "alive", env' = env,
         NEW p \in Prov, Enter(p), tame',
         provs'[p] = "live", p \notin held',
         \A q \in Prov \ {p} : provs'[q] = provs[q],
         held' = held \ {p}
  PROVE  Kept'
<1>. USE NamesKnown
<1>1. /\ failure' = failure /\ iProviders[NameOf[p]] = NoProv
      /\ iProviders' = [iProviders EXCEPT ![NameOf[p]] = p]
  BY EnterKeeps
<1>2. /\ iProviders'[NameOf[p]] = p
      /\ \A n \in Name \ {NameOf[p]} : iProviders'[n] = iProviders[n]
  BY <1>1 DEF ProvTypeOK
<1>3. RulesCarry'
  BY <1>1 DEF RulesCarry
<1>4. ASSUME NEW n \in Present' PROVE InTable(n)'
  <2>1. CASE n = NameOf[p]
    BY <1>1, <1>2, <2>1 DEF InTable
  <2>2. CASE n # NameOf[p]
    <3>1. n \in Present /\ iProviders'[n] = iProviders[n]
      BY <1>2, <1>4, <2>2 DEF Present
    <3>2. InTable(n) /\ iProviders[n] # p
      BY <2>2, <3>1 DEF Kept, InTable
    <3>. QED  BY <3>1, <3>2 DEF InTable
  <2>. QED  BY <2>1, <2>2
<1>5. ASSUME NEW q \in Prov, provs'[q] = "live"
      PROVE  q \in held' \/ iProviders'[NameOf[q]] = q
  <2>1. CASE q # p
    <3>1. q \in held \/ iProviders[NameOf[q]] = q
      BY <1>5, <2>1 DEF Kept
    <3>2. iProviders[NameOf[q]] = q => NameOf[q] # NameOf[p]
      BY <1>1, ProvAssumption
    <3>. QED  BY <1>2, <2>1, <3>1, <3>2
  <2>. QED  BY <1>2, <2>1
<1>6. \A q \in held' : provs'[q] = "live"
  BY DEF Kept, ProvTypeOK
<1>. QED  BY <1>1, <1>3, <1>4, <1>5, <1>6 DEF Kept

\* The steps that change no provider, no entry and no owner.
LEMMA OthersKept ==
  ASSUME Kept, UNCHANGED <<env, iProviders, provs, held>>, RulesCarry'
  PROVE  Kept'
BY DEF Kept, Present, InTable

\* No step that keeps the rules breaks what they mean.
LEMMA KeptStep ==
  ASSUME ProvIInv, [ProvNext]_allVars, tame'
  PROVE  Kept'
<1>. USE NamesKnown
<1>0. tame /\ ProvTypeOK /\ Kept
  <2>1. tame
    BY DEF ProvNext, NewEnv, DeleteEnv, LoadPlugin, NewProvider, AddProvider, RemoveProvider,
           DeleteProvider, SetEnv, MakeChromo, UseChromo, Query, ModulesPath, Enter,
           allVars, provVars
  <2>. QED  BY <2>1, IInvIsKept DEF ProvIInv
<1>00. SUFFICES ASSUME failure = "none" PROVE Kept'
  <2>1. CASE failure # "none"
    <3>1. UNCHANGED provVars
      BY <2>1 DEF ProvNext, NewEnv, DeleteEnv, LoadPlugin, NewProvider, AddProvider,
             RemoveProvider, DeleteProvider, SetEnv, MakeChromo, UseChromo, Query,
             ModulesPath, Call_Mgr, Running, allVars
    <3>2. RulesCarry'
      BY <1>0, <3>1 DEF Kept, RulesCarry, DefFirst, Answering, Present, provVars
    <3>. QED  BY <1>0, <3>1, <3>2, OthersKept DEF provVars
  <2>. QED  BY <1>00, <2>1
<1>a. failure' = "none" => RulesCarry'
  BY DEF RulesCarry
<1>1. CASE NewEnv
  <2>1. /\ env = "none" /\ env' = "alive" /\ failure' = failure /\ held' = held
        /\ iProviders' = [iProviders EXCEPT ![NameOf[Def]] = Def]
        /\ provs' = [provs EXCEPT ![Def] = "live"]
    BY <1>1 DEF NewEnv
  <2>2. /\ iProviders'[NameOf[Def]] = Def
        /\ \A n \in Name \ {NameOf[Def]} : iProviders'[n] = NoProv
        /\ provs'[Def] = "live" /\ \A p \in Prov \ {Def} : provs'[p] = provs[p]
    BY <1>0, <2>1 DEF ProvTypeOK, Kept, Present
  <2>3. Def \notin held
    BY <1>0, <2>1 DEF Kept
  <2>4. ASSUME NEW n \in Present' PROVE InTable(n)'
    BY <2>1, <2>2, <2>3, <2>4 DEF InTable, Present
  <2>5. ASSUME NEW p \in Prov, provs'[p] = "live"
        PROVE  p \in held' \/ iProviders'[NameOf[p]] = p
    BY <1>0, <2>1, <2>2, <2>5, ProvAssumption DEF Kept, Present
  <2>6. \A p \in held' : provs'[p] = "live"
    BY <1>0, <2>1, <2>2 DEF Kept, ProvTypeOK
  <2>. QED  BY <1>00, <1>a, <2>1, <2>4, <2>5, <2>6 DEF Kept
<1>2. CASE DeleteEnv
  <2>1. /\ env = "alive" /\ env' = "gone" /\ held' = held
        /\ failure' = IF Dead(Present) THEN "dead" ELSE failure
        /\ provs' = [p \in Prov |-> AfterDelete(p)]
        /\ iProviders' = [n \in Name |-> NoProv]
    BY <1>2 DEF DeleteEnv, Call_Mgr
  <2>2. RulesCarry'
    BY <1>0, <1>00, <1>a, <2>1, Answered
  <2>3. Present' = {}
    BY <2>1 DEF Present
  <2>4. ASSUME NEW p \in held' PROVE provs'[p] = "live"
    <3>1. p \in Prov /\ provs[p] = "live"
      BY <1>0, <2>1, <2>4 DEF Kept, ProvTypeOK
    <3>2. \A n \in Name : iProviders[n] # p
      BY <1>0, <2>1, <2>4, <3>1, ProvAssumption DEF Kept, Present, InTable
    <3>. QED  BY <2>1, <3>1, <3>2 DEF AfterDelete
  <2>5. ASSUME NEW p \in Prov, provs'[p] = "live" PROVE p \in held'
    <3>1. provs[p] = "live" /\ \A n \in Name : iProviders[n] # p
      BY <2>1, <2>5 DEF AfterDelete
    <3>. QED  BY <1>0, <2>1, <3>1 DEF Kept
  <2>. QED  BY <2>1, <2>2, <2>3, <2>4, <2>5 DEF Kept
<1>3. ASSUME NEW p \in Prov, NEW init \in BOOLEAN, LoadPlugin(p, init)
      PROVE  Kept'
  <2>1. CASE init
    <3>1. /\ env = "alive" /\ env' = env /\ held' = held
          /\ provs[p] = "unused" /\ provs' = [provs EXCEPT ![p] = "live"] /\ Enter(p)
      BY <1>3, <2>1 DEF LoadPlugin, Call_Mgr
    <3>2. provs'[p] = "live" /\ \A q \in Prov \ {p} : provs'[q] = provs[q]
      BY <1>0, <3>1 DEF ProvTypeOK
    <3>3. p \notin held /\ held' = held \ {p}
      BY <1>0, <3>1 DEF Kept
    <3>. QED  BY <1>0, <1>00, <3>1, <3>2, <3>3, EnterKept
  <2>2. CASE ~init
    BY <1>0, <1>00, <1>a, <1>3, <2>2, OthersKept DEF LoadPlugin
  <2>. QED  BY <2>1, <2>2
<1>4. ASSUME NEW p \in Prov, NewProvider(p) PROVE Kept'
  <2>1. /\ p # Def /\ provs[p] = "unused" /\ provs' = [provs EXCEPT ![p] = "live"]
        /\ held' = held \cup {p} /\ UNCHANGED <<env, iProviders, failure>>
    BY <1>4 DEF NewProvider
  <2>2. provs'[p] = "live" /\ \A q \in Prov \ {p} : provs'[q] = provs[q]
    BY <1>0, <2>1 DEF ProvTypeOK
  <2>3. ASSUME NEW n \in Present' PROVE InTable(n)'
    <3>1. InTable(n)
      BY <1>0, <2>1, <2>3 DEF Kept, Present
    <3>2. iProviders[n] # p
      BY <2>1, <3>1 DEF InTable
    <3>. QED  BY <2>1, <2>2, <3>1, <3>2 DEF InTable
  <2>4. \A q \in held' : provs'[q] = "live"
    BY <1>0, <2>1, <2>2 DEF Kept, ProvTypeOK
  <2>5. \A q \in Prov : provs'[q] = "live" => q \in held' \/ iProviders'[NameOf[q]] = q
    BY <1>0, <2>1, <2>2 DEF Kept
  <2>6. RulesCarry' /\ (env' = "none" => provs'[Def] = "unused")
    BY <1>0, <1>00, <1>a, <2>1, <2>2 DEF Kept
  <2>7. env' # "alive" => Present' = {}
    BY <1>0, <2>1 DEF Kept, Present
  <2>. QED  BY <2>3, <2>4, <2>5, <2>6, <2>7 DEF Kept
<1>5. ASSUME NEW p \in Prov, AddProvider(p) PROVE Kept'
  <2>1. /\ env = "alive" /\ env' = env /\ held' = held \ {p} /\ p \in held
        /\ provs' = provs /\ Enter(p)
    BY <1>5 DEF AddProvider, Call_Mgr
  <2>2. provs'[p] = "live"
    BY <1>0, <2>1 DEF Kept
  <2>. QED  BY <1>0, <1>00, <2>1, <2>2, EnterKept
<1>6. ASSUME NEW p \in Prov, RemoveProvider(p) PROVE Kept'
  <2>1. /\ provs[p] = "live" /\ iProviders[NameOf[p]] = p /\ env = "alive"
        /\ UNCHANGED <<env, provs>>
    BY <1>6 DEF RemoveProvider, Call_Mgr
  <2>2. NameOf[p] \in Present
    BY <2>1, ProvAssumption DEF Present
  <2>3. /\ iProviders' = [iProviders EXCEPT ![NameOf[p]] = NoProv]
        /\ held' = held \cup {p} /\ failure' = failure
    BY <1>6, <2>2 DEF RemoveProvider
  <2>4. /\ iProviders'[NameOf[p]] = NoProv
        /\ \A n \in Name \ {NameOf[p]} : iProviders'[n] = iProviders[n]
    BY <1>0, <2>3 DEF ProvTypeOK
  <2>5. ASSUME NEW n \in Present' PROVE InTable(n)'
    <3>1. n # NameOf[p] /\ n \in Present /\ iProviders'[n] = iProviders[n]
      BY <2>4, <2>5 DEF Present
    <3>2. InTable(n) /\ iProviders[n] # p
      BY <1>0, <3>1 DEF Kept, InTable
    <3>. QED  BY <2>1, <2>3, <3>1, <3>2 DEF InTable
  <2>6. Present' \subseteq Present
    BY <2>4 DEF Present
  <2>7. RulesCarry'
    BY <1>00, <1>a, <2>3
  <2>8. \A q \in held' : provs'[q] = "live"
    BY <1>0, <2>1, <2>3 DEF Kept
  <2>9. \A q \in Prov : provs'[q] = "live" => q \in held' \/ iProviders'[NameOf[q]] = q
    BY <1>0, <2>1, <2>3, <2>4 DEF Kept
  <2>. QED  BY <1>0, <2>1, <2>3, <2>5, <2>6, <2>7, <2>8, <2>9 DEF Kept
<1>7. ASSUME NEW p \in Prov, DeleteProvider(p) PROVE Kept'
  <2>1. /\ p \in held /\ held' = held \ {p} /\ UNCHANGED <<env, iProviders>>
        /\ provs' = [provs EXCEPT ![p] = "deleted"]
        /\ failure' = IF provs[p] = "deleted" THEN "dead" ELSE failure
    BY <1>7 DEF DeleteProvider
  <2>2. RulesCarry'
    BY <1>0, <1>00, <1>a, <2>1 DEF Kept
  <2>3. provs'[p] = "deleted" /\ \A q \in Prov \ {p} : provs'[q] = provs[q]
    BY <1>0, <2>1 DEF ProvTypeOK
  <2>4. ASSUME NEW n \in Present' PROVE InTable(n)'
    <3>1. InTable(n)
      BY <1>0, <2>1, <2>4 DEF Kept, Present
    <3>2. iProviders[n] # p
      BY <2>1, <3>1 DEF InTable
    <3>. QED  BY <2>1, <2>3, <3>1, <3>2 DEF InTable
  <2>5. env' = "none" => provs'[Def] = "unused"
    BY <1>0, <2>1, <2>3 DEF Kept
  <2>6. env' # "alive" => Present' = {}
    BY <1>0, <2>1 DEF Kept, Present
  <2>7. \A q \in held' : provs'[q] = "live"
    BY <1>0, <2>1, <2>3 DEF Kept, ProvTypeOK
  <2>8. \A q \in Prov : provs'[q] = "live" => q \in held' \/ iProviders'[NameOf[q]] = q
    BY <1>0, <2>1, <2>3 DEF Kept
  <2>. QED  BY <1>0, <2>2, <2>4, <2>5, <2>6, <2>7, <2>8 DEF Kept
<1>8. ASSUME NEW set \in BOOLEAN, SetEnv(set) PROVE Kept'
  BY <1>0, <1>00, <1>a, <1>8, OthersKept DEF SetEnv
<1>9. ASSUME NEW o \in Obj, NEW r \in {"elem0", "spec0"}, MakeChromo(o, r)
      PROVE  Kept'
  <2>1. /\ env = "alive" /\ UNCHANGED <<env, iProviders, provs, held>>
        /\ Answer = "chromo" => failure' = failure
        /\ failure' \in {failure, "foreign", Answer}
        /\ Answer \in {"dead", "null", "chromo", "foreign"}
    BY <1>9 DEF MakeChromo, Answer
  <2>2. DefFirst' = DefFirst
    BY <2>1 DEF DefFirst, Answering, Present
  <2>3. CASE Answer = "chromo"
    BY <1>0, <1>00, <1>a, <2>1, <2>3, OthersKept
  <2>4. CASE Answer # "chromo"
    <3>1. ~DefFirst /\ Answer # "dead"
      BY <1>0, <2>1, <2>4, Answered
    <3>2. RulesCarry'
      BY <1>00, <2>1, <2>2, <2>4, <3>1 DEF RulesCarry
    <3>. QED  BY <1>0, <2>1, <3>2, OthersKept
  <2>. QED  BY <2>3, <2>4
<1>10. ASSUME NEW o \in Obj, UseChromo(o) PROVE Kept'
  BY <1>0, <1>00, <1>a, <1>10, OthersKept DEF UseChromo, provVars
<1>11. CASE Query
  BY <1>0, <1>00, <1>a, <1>11, Answered, OthersKept DEF Query
<1>12. CASE ModulesPath
  <2>1. ~Dead({NameOf[Def]}) \/ NameOf[Def] \notin Present
    BY <1>0, Answered DEF Dead
  <2>2. /\ env = "alive" /\ UNCHANGED <<env, iProviders, provs, held>>
        /\ failure' = IF NameOf[Def] \notin Present THEN "throws" ELSE failure
    BY <1>12, <2>1 DEF ModulesPath, Call_Mgr
  <2>3. CASE NameOf[Def] \in Present
    BY <1>0, <1>00, <1>a, <2>2, <2>3, OthersKept
  <2>4. CASE NameOf[Def] \notin Present
    <3>1. ~DefFirst
      BY <1>0, <2>2, <2>4, Answered
    <3>2. ~DefFirst'
      BY <2>2, <3>1 DEF DefFirst, Answering, Present
    <3>3. RulesCarry'
      BY <2>2, <2>4, <3>2 DEF RulesCarry
    <3>. QED  BY <1>0, <2>2, <3>3, OthersKept
  <2>. QED  BY <2>3, <2>4
<1>13. CASE UNCHANGED allVars
  BY <1>0, <1>00, <1>a, <1>13, OthersKept DEF allVars, provVars
<1>. QED
  BY <1>1, <1>2, <1>3, <1>4, <1>5, <1>6, <1>7, <1>8, <1>9, <1>10, <1>11, <1>12, <1>13
     DEF ProvNext

-----------------------------------------------------------------------------
\* The theorems.

\* The inductive invariant: as long as the client keeps to the rules, the table
\* and the client share the providers that are alive.
THEOREM ProvInvariance == ProvSpec => []ProvIInv
<1>1. ProvTypeOK /\ PluginsMapped /\ (tame => Kept) => ProvIInv
  BY KeptIsIInv
<1>2. ProvIInv /\ [ProvNext]_allVars => ProvTypeOK' /\ PluginsMapped' /\ (tame' => Kept')
  BY ProvTypeStep, MappedStep, KeptStep DEF ProvIInv
<1>. QED  BY ProvInitially, <1>1, <1>2, PTL DEF ProvSpec

\* A client that keeps to the rules meets no assertion and no deleted provider,
\* in whatever order it calls; and no exception, NULL or foreign chromo either
\* if ProvDef is the first to answer when it asks.
THEOREM RulesAreEnough == ProvSpec => []RulesCarry
<1>1. ProvIInv => RulesCarry
  BY DEF ProvIInv
<1>. QED  BY ProvInvariance, <1>1, PTL

\* Each provider alive is owned by the client or by the table, never by both.
THEOREM OneOwnerEach == ProvSpec => []OwnedOnce
<1>1. ProvIInv => OwnedOnce
  BY DEF ProvIInv
<1>. QED  BY ProvInvariance, <1>1, PTL

=============================================================================
