----------------------------- MODULE EnvProofs ------------------------------
(***************************************************************************)
(* Proofs about agents and the environment that constructs their system,   *)
(* for all sets of agents, all batches and files and all bounds.           *)
(*                                                                         *)
(* Elem: its types, its inductive invariant, the safety properties that    *)
(* follow from it, and that it implements MutLog.  Env: a system           *)
(* constructed from a file applies exactly the walk of the file, and       *)
(* nothing if there is none, for any number of calls of ConstructSystem.   *)
(* The steps of the agents are taken from the first part: the invariant,   *)
(* and that Elem implements MutLog, from which the walk follows without    *)
(* looking at the cycle again.                                             *)
(***************************************************************************)
EXTENDS Env, TLAPS

-----------------------------------------------------------------------------
\* Types.

\* The mutation at an index of a batch is a mutation, and a missing one is
\* told from it by comparing with the null node.
LEMMA AtType ==
  ASSUME NEW b \in Batches, NEW i \in Nat
  PROVE  /\ i < Len(b) => At(b, i) \in Mut /\ At(b, i) # NoData /\ i \in -1 .. MaxBatch - 1
         /\ i >= Len(b) => At(b, i) = NoData
<1>1. b \in Seq(Mut) /\ Len(b) <= MaxBatch /\ MaxBatch \in Nat /\ NoData \notin Mut
  BY ElemAssumption
<1>2. Len(b) \in Nat
  BY <1>1
<1>3. CASE i < Len(b)
  <2>1. i + 1 \in 1 .. Len(b)
    BY <1>2, <1>3
  <2>2. b[i + 1] \in Mut
    BY <1>1, <2>1
  <2>. QED  BY <1>1, <1>2, <1>3, <2>2 DEF At
<1>4. CASE i >= Len(b)
  BY <1>2, <1>4 DEF At
<1>. QED  BY <1>2, <1>3, <1>4

\* The initial values have their types.
LEMMA InitType ==
  /\ NullMut \in Mut
  /\ InitData \in StateData
  /\ NoInput \in InputData
<1>1. NullMut \in Mut
  BY ElemAssumption DEF NullMut, Mut, NodeType, UriForm
<1>2. [first |-> -1, second |-> NullMut] \in BmutData
  BY <1>1, ElemAssumption DEF BmutData
<1>. QED  BY <1>1, <1>2 DEF InitData, StateData, NoInput, InputData, TAChange, UriForm

\* Init establishes the types.
LEMMA TypeInit == Init => TypeOK
<1>. SUFFICES ASSUME Init PROVE TypeOK
  OBVIOUS
<1>1. conf \in [ElemId -> StateData] /\ upd \in [ElemId -> StateData]
  BY InitType DEF Init
<1>2. inp \in [ElemId -> InputData]
  BY InitType DEF Init
<1>3. chromo \in [ElemId -> Seq(Mut)]
  BY DEF Init
<1>. QED  BY <1>1, <1>2, <1>3 DEF Init, TypeOK

\* A field of the data of one agent takes a value of its type.
LEMMA StateField ==
  ASSUME NEW f \in [ElemId -> StateData], NEW e \in ElemId
  PROVE  /\ \A v \in BmutData : [f EXCEPT ![e].bmut = v] \in [ElemId -> StateData]
         /\ \A v \in TAChange : [f EXCEPT ![e].chg = v] \in [ElemId -> StateData]
         /\ \A v \in BOOLEAN : [f EXCEPT ![e].appr = v] \in [ElemId -> StateData]
         /\ \A v \in UriForm : [f EXCEPT ![e].appl = v] \in [ElemId -> StateData]
BY DEF StateData

\* So does a field of its inputs.
LEMMA InputField ==
  ASSUME NEW f \in [ElemId -> InputData], NEW e \in ElemId
  PROVE  /\ \A v \in BmutData : /\ [f EXCEPT ![e].applMut = v] \in [ElemId -> InputData]
                                /\ [f EXCEPT ![e].chgMut = v] \in [ElemId -> InputData]
         /\ \A v \in BOOLEAN : [f[e] EXCEPT !.appr = v] \in InputData
         /\ \A c \in ElemId, v \in TAChange :
              [f EXCEPT ![e].change[c] = v] \in [ElemId -> InputData]
BY DEF InputData

\* What a Trans does to the bookkeeping of the cycle keeps its type.
LEMMA UpdatingType ==
  ASSUME TypeOK, NEW e \in ElemId, NEW s \in State, Updating(e, s)
  PROVE  /\ active' \in [ElemId -> SUBSET State]
         /\ updated' \in [ElemId -> SUBSET State]
         /\ phase' \in {"update", "confirm"}
BY DEF Updating, TypeOK

\* So does a confirmation.
LEMMA ConfirmingType ==
  ASSUME TypeOK, NEW e \in ElemId, NEW s \in State, Confirming(e, s)
  PROVE  /\ updated' \in [ElemId -> SUBSET State]
         /\ phase' \in {"update", "confirm"}
BY DEF Confirming, TypeOK

\* Every step keeps the types; the interesting part is that the counter of
\* St_Bmut stays below MaxBatch although the batch may have been replaced.
LEMMA TypeStep == TypeOK /\ [Next]_vars => TypeOK'
<1>. SUFFICES ASSUME TypeOK, [Next]_vars PROVE TypeOK'
  OBVIOUS
<1>. USE DEF TypeOK
<1>1. CASE UNCHANGED vars
  BY <1>1 DEF vars
<1>2. ASSUME NEW e \in ElemId, NEW r \in BOOLEAN, NewElem(e, r)
      PROVE  TypeOK'
  BY <1>2 DEF NewElem
<1>3. ASSUME NEW e \in ElemId, NEW c \in ElemId, AddElem(e, c)
      PROVE  TypeOK'
  BY <1>3 DEF AddElem
<1>4. ASSUME NEW e \in ElemId, AddElemAbort(e)
      PROVE  TypeOK'
  BY <1>4 DEF AddElemAbort
<1>5. ASSUME NEW e \in ElemId, NEW b \in Batches, OnChromo(e, b)
      PROVE  TypeOK'
  BY <1>5 DEF OnChromo, InputData, State
<1>6. ASSUME NEW e \in ElemId, StateBmut_Trans(e)
      PROVE  TypeOK'
  <2>1. Updating(e, "St_Bmut") /\ "St_Bmut" \in State
    BY <1>6 DEF StateBmut_Trans, State
  <2> DEFINE cnt == IF conf[e].bmut.first = -1 THEN 0 ELSE conf[e].bmut.first + 1
             mut == At(inp[e].bmut, cnt)
  <2>2. cnt \in Nat
    BY ElemAssumption DEF StateData, BmutData
  <2>3. inp[e].bmut \in Batches
    BY <2>1 DEF Updating, HasData, InputData
  <2>4. mut # NoData => mut \in Mut /\ cnt \in -1 .. MaxBatch - 1
    <3>1. Len(inp[e].bmut) \in Nat
      BY <2>3, ElemAssumption
    <3>. QED  BY <2>2, <2>3, <3>1, AtType
  <2>5. upd' \in [ElemId -> StateData]
    <3>1. upd' = [upd EXCEPT ![e].bmut =
                    IF mut = NoData THEN [@ EXCEPT !.first = -1]
                                    ELSE [first |-> cnt, second |-> mut]]
      BY <1>6 DEF StateBmut_Trans
    <3>2. upd[e].bmut \in BmutData
      BY DEF StateData
    <3>3. [upd[e].bmut EXCEPT !.first = -1] \in BmutData
      <4>1. -1 \in -1 .. MaxBatch - 1
        BY ElemAssumption
      <4>. QED  BY <3>2, <4>1 DEF BmutData
    <3>4. mut # NoData => [first |-> cnt, second |-> mut] \in BmutData
      BY <2>4 DEF BmutData
    <3>. HIDE DEF mut, cnt
    <3>. QED  BY <3>1, <3>3, <3>4 DEF StateData
  <2>. QED  BY <1>6, <2>1, <2>5, UpdatingType DEF StateBmut_Trans, structure
<1>7. ASSUME NEW e \in ElemId, StateChangeSt_Trans(e)
      PROVE  TypeOK'
  <2>1. Updating(e, "St_Chg") /\ "St_Chg" \in State
    BY <1>7 DEF StateChangeSt_Trans, State
  <2>2. upd' \in [ElemId -> StateData]
    <3>1. upd' = [upd EXCEPT ![e].chg = ChangeStatus(inp[e].chgMut.second.type, upd[e].chg)]
      BY <1>7 DEF StateChangeSt_Trans
    <3>2. upd[e].chg \in TAChange
      BY DEF StateData
    <3>3. ChangeStatus(inp[e].chgMut.second.type, upd[e].chg) \in TAChange
      BY <3>2 DEF ChangeStatus, TAChange
    <3>. QED  BY <3>1, <3>3, StateField
  <2>. QED  BY <1>7, <2>1, <2>2, UpdatingType DEF StateChangeSt_Trans, structure
<1>8. ASSUME NEW e \in ElemId, StateChangeAppr_Trans(e)
      PROVE  TypeOK'
  <2>1. Updating(e, "St_Appr") /\ "St_Appr" \in State
    BY <1>8 DEF StateChangeAppr_Trans, State
  <2>2. upd' \in [ElemId -> StateData]
    BY <1>8 DEF StateChangeAppr_Trans, StateData
  <2>. QED  BY <1>8, <2>1, <2>2, UpdatingType DEF StateChangeAppr_Trans, structure
<1>9. ASSUME NEW e \in ElemId, StateChangeAppl_Trans(e)
      PROVE  TypeOK'
  <2>1. Updating(e, "St_Appl") /\ "St_Appl" \in State
    BY <1>9 DEF StateChangeAppl_Trans, State
  <2>2. inp[e].applMut \in BmutData
    BY <2>1 DEF Updating, HasData, InputData
  <2>3. inp[e].applMut.second \in Mut /\ inp[e].applMut.second.parent \in UriForm
    BY <2>2 DEF BmutData, Mut
  <2>4. upd' \in [ElemId -> StateData]
    <3>1. \/ upd' = upd
          \/ upd' = [upd EXCEPT ![e].appl = inp[e].applMut.second.parent]
      BY <1>9 DEF StateChangeAppl_Trans
    <3>2. [upd EXCEPT ![e].appl = inp[e].applMut.second.parent] \in [ElemId -> StateData]
      BY <2>3, StateField
    <3>. QED  BY <3>1, <3>2
  <2>5. chromo' \in [ElemId -> Seq(Mut)]
    BY <1>9, <2>3 DEF StateChangeAppl_Trans
  <2>. QED  BY <1>9, <2>1, <2>4, <2>5, UpdatingType DEF StateChangeAppl_Trans, structure
<1>10. ASSUME NEW e \in ElemId, StateChangeAppl_Abort(e)
       PROVE  TypeOK'
  BY <1>10 DEF StateChangeAppl_Abort, structure
<1>11. ASSUME NEW e \in ElemId, StateBmut_Confirm(e)
       PROVE  TypeOK'
  <2>1. Confirming(e, "St_Bmut") /\ "St_Bmut" \in State
    BY <1>11 DEF StateBmut_Confirm, State
  <2>2. upd[e].bmut \in BmutData
    BY DEF StateData
  <2>3. conf' \in [ElemId -> StateData]
    <3>1. conf' = [conf EXCEPT ![e].bmut = upd[e].bmut]
      BY <1>11 DEF StateBmut_Confirm
    <3>. QED  BY <2>2, <3>1, StateField
  <2>4. inp' \in [ElemId -> InputData]
    <3>1. \/ inp' = inp
          \/ inp' = [inp EXCEPT ![e].applMut = upd[e].bmut]
          \/ inp' = [inp EXCEPT ![e].chgMut = upd[e].bmut]
      BY <1>11 DEF StateBmut_Confirm
    <3>2. /\ [inp EXCEPT ![e].applMut = upd[e].bmut] \in [ElemId -> InputData]
          /\ [inp EXCEPT ![e].chgMut = upd[e].bmut] \in [ElemId -> InputData]
      BY <2>2, InputField
    <3>. QED  BY <3>1, <3>2
  <2>5. active' \in [ElemId -> SUBSET State]
    <3>1. \/ active' = active
          \/ \E S \in SUBSET State : active' = [active EXCEPT ![e] = @ \cup S]
      <4>1. {IF AppliesItself(e) THEN "St_Appl" ELSE "St_Chg"} \cup
              (IF SelfStep[e] THEN {"St_Bmut"} ELSE {}) \in SUBSET State
        BY DEF State
      <4>2. \/ active' = active
            \/ active' = [active EXCEPT ![e] = @ \cup
                  ({IF AppliesItself(e) THEN "St_Appl" ELSE "St_Chg"} \cup
                   (IF SelfStep[e] THEN {"St_Bmut"} ELSE {}))]
        BY <1>11 DEF StateBmut_Confirm
      <4>. QED  BY <4>1, <4>2
    <3>. QED  BY <3>1
  <2>. QED  BY <1>11, <2>1, <2>3, <2>4, <2>5, ConfirmingType DEF StateBmut_Confirm, structure
<1>12. ASSUME NEW e \in ElemId, StateChangeSt_Confirm(e)
       PROVE  TypeOK'
  <2>1. Confirming(e, "St_Chg") /\ "St_Chg" \in State
    BY <1>12 DEF StateChangeSt_Confirm, State
  <2>2. upd[e].chg \in TAChange
    BY DEF StateData
  <2>3. conf' \in [ElemId -> StateData]
    <3>1. conf' = [conf EXCEPT ![e].chg = upd[e].chg]
      BY <1>12 DEF StateChangeSt_Confirm
    <3>. QED  BY <2>2, <3>1, StateField
  <2>4. inp' \in [ElemId -> InputData]
    <3>1. \/ inp' = inp
          \/ owner[e] \in ElemId /\ inp' = [inp EXCEPT ![owner[e]].change[e] = upd[e].chg]
      BY <1>12 DEF StateChangeSt_Confirm
    <3>2. owner[e] \in ElemId =>
            [inp EXCEPT ![owner[e]].change[e] = upd[e].chg] \in [ElemId -> InputData]
      BY <2>2, InputField
    <3>. QED  BY <3>1, <3>2
  <2>5. active' \in [ElemId -> SUBSET State]
    BY <1>12 DEF StateChangeSt_Confirm, State
  <2>. QED  BY <1>12, <2>1, <2>3, <2>4, <2>5, ConfirmingType DEF StateChangeSt_Confirm, structure
<1>13. ASSUME NEW e \in ElemId, StateChangeAppr_Confirm(e)
       PROVE  TypeOK'
  <2>1. Confirming(e, "St_Appr") /\ "St_Appr" \in State
    BY <1>13 DEF StateChangeAppr_Confirm, State
  <2>2. upd[e].appr \in BOOLEAN
    BY DEF StateData
  <2>3. conf' \in [ElemId -> StateData]
    <3>1. conf' = [conf EXCEPT ![e].appr = upd[e].appr]
      BY <1>13 DEF StateChangeAppr_Confirm
    <3>. QED  BY <2>2, <3>1, StateField
  <2>4. inp' \in [ElemId -> InputData]
    <3>1. \A c \in ElemId : [inp[c] EXCEPT !.appr = upd[e].appr] \in InputData
      BY <2>2, InputField
    <3>2. \/ inp' = inp
          \/ inp' = [c \in ElemId |-> IF owner[c] = e
                                       THEN [inp[c] EXCEPT !.appr = upd[e].appr]
                                       ELSE inp[c]]
      BY <1>13 DEF StateChangeAppr_Confirm
    <3>. QED  BY <3>1, <3>2
  <2>5. active' \in [ElemId -> SUBSET State]
    <3>1. \/ active' = active
          \/ active' = [c \in ElemId |-> IF owner[c] = e THEN active[c] \cup {"St_Appl"}
                                                          ELSE active[c]]
      BY <1>13 DEF StateChangeAppr_Confirm
    <3>2. \A c \in ElemId : active[c] \cup {"St_Appl"} \in SUBSET State
      BY DEF State
    <3>. QED  BY <3>1, <3>2
  <2>. QED  BY <1>13, <2>1, <2>3, <2>4, <2>5, ConfirmingType DEF StateChangeAppr_Confirm, structure
<1>14. ASSUME NEW e \in ElemId, StateChangeAppl_Confirm(e)
       PROVE  TypeOK'
  <2>1. Confirming(e, "St_Appl") /\ "St_Appl" \in State
    BY <1>14 DEF StateChangeAppl_Confirm, State
  <2>2. conf' \in [ElemId -> StateData]
    <3>1. conf' = [conf EXCEPT ![e].appl = upd[e].appl]
      BY <1>14 DEF StateChangeAppl_Confirm
    <3>2. upd[e].appl \in UriForm
      BY DEF StateData
    <3>. QED  BY <3>1, <3>2, StateField
  <2>. QED  BY <1>14, <2>1, <2>2, ConfirmingType DEF StateChangeAppl_Confirm, structure
<1>. QED
  BY <1>1, <1>2, <1>3, <1>4, <1>5, <1>6, <1>7, <1>8, <1>9, <1>10, <1>11, <1>12,
     <1>13, <1>14 DEF Next, Client, Cycle, Update, Confirm

\* The type invariant of every behaviour of Elem.
THEOREM TypeCorrect == Spec => []TypeOK
BY TypeInit, TypeStep, PTL DEF Spec

-----------------------------------------------------------------------------
\* The parts of the inductive invariant, one lemma each.

\* Init establishes them all.
LEMMA IInvInit == Init => IInv
<1>. SUFFICES ASSUME Init PROVE IInv
  OBVIOUS
<1>1. TypeOK
  BY TypeInit
<1>2. Wired /\ Inert /\ Unanswered
  BY DEF Init, Wired, Inert, Unanswered, InitData, NoInput
<1>3. OnlyRootsApply /\ DataThere /\ StatusKept
  BY DEF Init, OnlyRootsApply, DataThere, StatusKept, InitData
<1>4. OwnerInSync
  BY DEF Init, OwnerInSync, InitData, NoInput
<1>5. InPhase /\ Walking
  BY DEF Init, InPhase, Walking
<1>. QED  BY <1>1, <1>2, <1>3, <1>4, <1>5 DEF IInv

\* Only creating an agent changes the structure.
LEMMA StructureSteps ==
  ASSUME [Next]_vars
  PROVE  \/ UNCHANGED structure
         \/ \E e \in ElemId, r \in BOOLEAN : NewElem(e, r)
         \/ \E e, c \in ElemId : AddElem(e, c)
BY DEF Next, Client, Cycle, Update, Confirm, vars, structure, AddElemAbort, OnChromo,
       StateBmut_Trans, StateChangeSt_Trans, StateChangeAppr_Trans,
       StateChangeAppl_Trans, StateChangeAppl_Abort, StateBmut_Confirm,
       StateChangeSt_Confirm, StateChangeAppr_Confirm, StateChangeAppl_Confirm

\* What is wired stays wired: agents are only added.
LEMMA WiredStep == IInv /\ [Next]_vars => Wired'
<1>. SUFFICES ASSUME IInv, [Next]_vars PROVE Wired'
  OBVIOUS
<1>. USE DEF IInv
<1>1. CASE UNCHANGED structure
  BY <1>1 DEF Wired, structure
<1>2. ASSUME NEW e \in ElemId, NEW r \in BOOLEAN, NewElem(e, r)
      PROVE  Wired'
  BY <1>2 DEF NewElem, Wired, TypeOK
<1>3. ASSUME NEW e \in ElemId, NEW c \in ElemId, AddElem(e, c)
      PROVE  Wired'
  BY <1>3 DEF AddElem, Wired, TypeOK
<1>. QED  BY <1>1, <1>2, <1>3, StructureSteps

\* Structure only grows.
LEMMA StructureGrows ==
  ASSUME IInv, [Next]_vars
  PROVE  /\ elems \subseteq elems'
         /\ \A e \in ElemId : isRoot[e] => isRoot'[e]
         /\ \A e \in elems : owner'[e] = owner[e]
<1>1. ASSUME NEW e \in ElemId, NEW r \in BOOLEAN, NewElem(e, r)
      PROVE  /\ elems \subseteq elems'
             /\ \A x \in ElemId : isRoot[x] => isRoot'[x]
             /\ owner' = owner
  BY <1>1 DEF NewElem, Wired, TypeOK, IInv
<1>2. ASSUME NEW e \in ElemId, NEW c \in ElemId, AddElem(e, c)
      PROVE  /\ elems \subseteq elems'
             /\ isRoot' = isRoot
             /\ \A x \in elems : owner'[x] = owner[x]
  BY <1>2 DEF AddElem, TypeOK, IInv
<1>. QED  BY <1>1, <1>2, StructureSteps DEF structure

\* An agent that a cycle works on exists.
LEMMA InertStep == IInv /\ [Next]_vars => Inert'
<1>. SUFFICES ASSUME IInv, [Next]_vars, NEW x \in ElemId, x \notin elems'
              PROVE  /\ active'[x] = {} /\ updated'[x] = {}
                     /\ conf'[x].chg = "EAc_None" /\ inp'[x].bmut = NoData
  BY DEF Inert
<1>0. /\ x \notin elems
      /\ active[x] = {} /\ updated[x] = {}
      /\ conf[x].chg = "EAc_None" /\ inp[x].bmut = NoData
  BY StructureGrows DEF IInv, Inert
<1>. USE <1>0 DEF IInv, TypeOK
<1>1. CASE UNCHANGED vars \/ \E e \in ElemId : AddElemAbort(e) \/ StateChangeAppl_Abort(e)
  BY <1>1 DEF vars, AddElemAbort, StateChangeAppl_Abort
<1>2. ASSUME NEW e \in ElemId, NEW r \in BOOLEAN, NewElem(e, r)
      PROVE  UNCHANGED <<active, updated, conf, inp>>
  BY <1>2 DEF NewElem
<1>3. ASSUME NEW e \in ElemId, NEW c \in ElemId, AddElem(e, c)
      PROVE  UNCHANGED <<active, updated, conf, inp>>
  BY <1>3 DEF AddElem
<1>4. ASSUME NEW e \in ElemId, NEW b \in Batches, OnChromo(e, b)
      PROVE  /\ e # x /\ UNCHANGED <<updated, conf>>
             /\ active'[x] = active[x] /\ inp'[x] = inp[x]
  BY <1>4 DEF OnChromo
<1>5. ASSUME NEW e \in ElemId, NEW s \in State, Updating(e, s)
      PROVE  active'[x] = active[x] /\ updated'[x] = updated[x]
  BY <1>5 DEF Updating
<1>6. ASSUME NEW e \in ElemId, \/ StateBmut_Trans(e)
                               \/ StateChangeSt_Trans(e)
                               \/ StateChangeAppr_Trans(e)
                               \/ StateChangeAppl_Trans(e)
      PROVE  /\ \E s \in State : Updating(e, s)
             /\ UNCHANGED <<conf, inp>>
  BY <1>6 DEF StateBmut_Trans, StateChangeSt_Trans, StateChangeAppr_Trans,
              StateChangeAppl_Trans, State
<1>7. ASSUME NEW e \in ElemId, NEW s \in State, Confirming(e, s)
      PROVE  e # x /\ updated'[x] = updated[x]
  BY <1>7 DEF Confirming
<1>8. ASSUME NEW e \in ElemId, StateBmut_Confirm(e)
      PROVE  /\ \E s \in State : Confirming(e, s)
             /\ conf'[x] = conf[x] /\ inp'[x] = inp[x] /\ active'[x] = active[x]
  <2>1. "St_Bmut" \in State /\ Confirming(e, "St_Bmut") /\ e # x
    BY <1>7, <1>8 DEF StateBmut_Confirm, State
  <2>. QED  BY <1>8, <2>1 DEF StateBmut_Confirm
<1>9. ASSUME NEW e \in ElemId, StateChangeSt_Confirm(e)
      PROVE  /\ \E s \in State : Confirming(e, s)
             /\ conf'[x] = conf[x] /\ inp'[x] = inp[x] /\ active'[x] = active[x]
  <2>1. "St_Chg" \in State /\ Confirming(e, "St_Chg") /\ e # x
    BY <1>7, <1>9 DEF StateChangeSt_Confirm, State
  <2>2. owner[e] # NoElem => owner[e] \in ElemId /\ owner[e] # x
    BY DEF Wired
  <2>. QED  BY <1>9, <2>1, <2>2 DEF StateChangeSt_Confirm
<1>10. ASSUME NEW e \in ElemId, StateChangeAppr_Confirm(e)
       PROVE  /\ \E s \in State : Confirming(e, s)
              /\ conf'[x] = conf[x] /\ inp'[x] = inp[x] /\ active'[x] = active[x]
  <2>1. "St_Appr" \in State /\ Confirming(e, "St_Appr") /\ e # x
    BY <1>7, <1>10 DEF StateChangeAppr_Confirm, State
  <2>. QED  BY <1>10, <2>1 DEF StateChangeAppr_Confirm, Unanswered
<1>11. ASSUME NEW e \in ElemId, StateChangeAppl_Confirm(e)
       PROVE  /\ \E s \in State : Confirming(e, s)
              /\ conf'[x] = conf[x] /\ inp'[x] = inp[x] /\ active'[x] = active[x]
  <2>1. "St_Appl" \in State /\ Confirming(e, "St_Appl") /\ e # x
    BY <1>7, <1>11 DEF StateChangeAppl_Confirm, State
  <2>. QED  BY <1>11, <2>1 DEF StateChangeAppl_Confirm
<1>. QED
  BY <1>1, <1>2, <1>3, <1>4, <1>5, <1>6, <1>7, <1>8, <1>9, <1>10, <1>11
     DEF Next, Client, Cycle, Update, Confirm

\* St_Appr never answers yes, so it never has a change to deliver.
LEMMA UnansweredStep == IInv /\ [Next]_vars => Unanswered'
<1>. SUFFICES ASSUME IInv, [Next]_vars, NEW x \in ElemId
              PROVE  /\ conf'[x].appr = FALSE
                     /\ upd'[x].appr = FALSE
                     /\ inp'[x].appr = NoData
  BY DEF Unanswered
<1>0. conf[x].appr = FALSE /\ upd[x].appr = FALSE /\ inp[x].appr = NoData
  BY DEF IInv, Unanswered
<1>. USE <1>0 DEF IInv, TypeOK, StateData, InputData
<1>1. CASE UNCHANGED <<conf, upd, inp>>
  BY <1>1
<1>2. ASSUME NEW e \in ElemId, \/ \E r \in BOOLEAN : NewElem(e, r)
                               \/ \E c \in ElemId : AddElem(e, c)
                               \/ AddElemAbort(e)
                               \/ StateChangeAppl_Abort(e)
      PROVE  UNCHANGED <<conf, upd, inp>>
  BY <1>2 DEF NewElem, AddElem, AddElemAbort, StateChangeAppl_Abort
<1>3. ASSUME NEW e \in ElemId, NEW b \in Batches, OnChromo(e, b)
      PROVE  UNCHANGED <<conf, upd>> /\ inp'[x].appr = inp[x].appr
  BY <1>3 DEF OnChromo
<1>4. ASSUME NEW e \in ElemId, StateBmut_Trans(e)
      PROVE  UNCHANGED <<conf, inp>> /\ upd'[x].appr = upd[x].appr
  BY <1>4 DEF StateBmut_Trans
<1>5. ASSUME NEW e \in ElemId, StateChangeSt_Trans(e)
      PROVE  UNCHANGED <<conf, inp>> /\ upd'[x].appr = upd[x].appr
  BY <1>5 DEF StateChangeSt_Trans
<1>6. ASSUME NEW e \in ElemId, StateChangeAppr_Trans(e)
      PROVE  UNCHANGED <<conf, inp>> /\ upd'[x].appr = FALSE
  BY <1>6 DEF StateChangeAppr_Trans
<1>7. ASSUME NEW e \in ElemId, StateChangeAppl_Trans(e)
      PROVE  UNCHANGED <<conf, inp>> /\ upd'[x].appr = upd[x].appr
  <2>1. \/ upd' = upd
        \/ upd' = [upd EXCEPT ![e].appl = inp[e].applMut.second.parent]
    BY <1>7 DEF StateChangeAppl_Trans
  <2>2. UNCHANGED <<conf, inp>>
    BY <1>7 DEF StateChangeAppl_Trans
  <2>3. [upd EXCEPT ![e].appl = inp[e].applMut.second.parent][x].appr = upd[x].appr
    OBVIOUS
  <2>. QED  BY <2>1, <2>2, <2>3
<1>8. ASSUME NEW e \in ElemId, StateBmut_Confirm(e)
      PROVE  /\ upd' = upd /\ conf'[x].appr = conf[x].appr
             /\ inp'[x].appr = inp[x].appr
  BY <1>8 DEF StateBmut_Confirm
<1>9. ASSUME NEW e \in ElemId, StateChangeSt_Confirm(e)
      PROVE  /\ upd' = upd /\ conf'[x].appr = conf[x].appr
             /\ inp'[x].appr = inp[x].appr
  <2>1. upd' = upd /\ conf' = [conf EXCEPT ![e].chg = upd[e].chg]
    BY <1>9 DEF StateChangeSt_Confirm
  <2>2. inp' = inp \/ inp' = [inp EXCEPT ![owner[e]].change[e] = upd[e].chg]
    BY <1>9 DEF StateChangeSt_Confirm
  <2>3. conf'[x].appr = conf[x].appr
    BY <2>1
  <2>4. [inp EXCEPT ![owner[e]].change[e] = upd[e].chg][x].appr = inp[x].appr
    OBVIOUS
  <2>. QED  BY <2>1, <2>2, <2>3, <2>4
<1>10. ASSUME NEW e \in ElemId, StateChangeAppr_Confirm(e)
       PROVE  /\ upd' = upd /\ conf'[x].appr = FALSE
              /\ inp' = inp
  BY <1>10 DEF StateChangeAppr_Confirm, Unanswered
<1>11. ASSUME NEW e \in ElemId, StateChangeAppl_Confirm(e)
       PROVE  /\ upd' = upd /\ conf'[x].appr = conf[x].appr
              /\ inp' = inp
  BY <1>11 DEF StateChangeAppl_Confirm
<1>. QED
  BY <1>1, <1>2, <1>3, <1>4, <1>5, <1>6, <1>7, <1>8, <1>9, <1>10, <1>11
     DEF Next, Client, Cycle, Update, Confirm, vars

\* What each step may make active, and from which inputs.
LEMMA Activations ==
  ASSUME IInv, [Next]_vars, NEW x \in ElemId, NEW s \in active'[x], s \notin active[x]
  PROVE  \/ s = "St_Bmut" /\ inp'[x].bmut # NoData
         \/ s = "St_Chg"  /\ inp'[x].chgMut # NoData
         \/ s = "St_Appr" /\ \E c \in ElemId : inp'[x].change[c] # NoData
         \/ s = "St_Appl" /\ inp'[x].applMut # NoData /\ isRoot[x]
<1>. USE DEF IInv, TypeOK
<1>1. ASSUME UNCHANGED active
      PROVE  FALSE
  BY <1>1
<1>2. ASSUME NEW e \in ElemId, \/ \E r \in BOOLEAN : NewElem(e, r)
                               \/ \E c \in ElemId : AddElem(e, c)
                               \/ AddElemAbort(e)
                               \/ StateChangeAppl_Abort(e)
                               \/ StateChangeAppl_Confirm(e)
      PROVE  FALSE
  <2>1. UNCHANGED active
    BY <1>2 DEF NewElem, AddElem, AddElemAbort, StateChangeAppl_Abort,
                StateChangeAppl_Confirm
  <2>. QED  BY <1>1, <2>1
<1>3. ASSUME NEW e \in ElemId, NEW b \in Batches, OnChromo(e, b)
      PROVE  s = "St_Bmut" /\ inp'[x].bmut # NoData
  <2>1. s = "St_Bmut" /\ x = e
    BY <1>3 DEF OnChromo
  <2>2. inp'[e].bmut = b
    BY <1>3 DEF OnChromo, InputData
  <2>. QED  BY <2>1, <2>2, ElemAssumption
<1>4. ASSUME NEW e \in ElemId, NEW t \in State, Updating(e, t)
      PROVE  FALSE
  BY <1>4 DEF Updating
<1>5. ASSUME NEW e \in ElemId, \/ StateBmut_Trans(e)
                               \/ StateChangeSt_Trans(e)
                               \/ StateChangeAppr_Trans(e)
                               \/ StateChangeAppl_Trans(e)
      PROVE  FALSE
  <2>1. \E t \in State : Updating(e, t)
    BY <1>5 DEF StateBmut_Trans, StateChangeSt_Trans, StateChangeAppr_Trans,
                StateChangeAppl_Trans, State
  <2>. QED  BY <1>4, <2>1
<1>6. ASSUME NEW e \in ElemId, StateBmut_Confirm(e)
      PROVE  \/ s = "St_Bmut" /\ inp'[x].bmut # NoData
             \/ s = "St_Chg"  /\ inp'[x].chgMut # NoData
             \/ s = "St_Appl" /\ inp'[x].applMut # NoData /\ isRoot[x]
  <2>1. upd[e].bmut # NoData
    BY ElemAssumption DEF StateData
  <2>2. inp[e].bmut # NoData
    BY <1>6, ElemAssumption DEF StateBmut_Confirm, Confirming, Walking
  <2>3. upd[e].bmut # conf[e].bmut
    BY <1>1, <1>6 DEF StateBmut_Confirm
  <2>4. x = e /\ s \in {"St_Bmut", IF isRoot[e] THEN "St_Appl" ELSE "St_Chg"}
    BY <1>6, <2>3 DEF StateBmut_Confirm, AppliesItself
  <2>5. inp' = IF isRoot[e] THEN [inp EXCEPT ![e].applMut = upd[e].bmut]
                            ELSE [inp EXCEPT ![e].chgMut = upd[e].bmut]
    BY <1>6, <2>3 DEF StateBmut_Confirm, AppliesItself
  <2>6. /\ inp'[e].bmut = inp[e].bmut
        /\ isRoot[e] => inp'[e].applMut = upd[e].bmut
        /\ ~isRoot[e] => inp'[e].chgMut = upd[e].bmut
    BY <2>5 DEF InputData
  <2>. QED  BY <2>1, <2>2, <2>4, <2>6
<1>7. ASSUME NEW e \in ElemId, StateChangeSt_Confirm(e)
      PROVE  s = "St_Appr" /\ \E c \in ElemId : inp'[x].change[c] # NoData
  <2>1. owner[e] # NoElem
    BY <1>1, <1>7 DEF StateChangeSt_Confirm
  <2>2. x = owner[e] /\ s = "St_Appr"
    BY <1>1, <1>7, <2>1 DEF StateChangeSt_Confirm
  <2>3. inp' = [inp EXCEPT ![owner[e]].change[e] = upd[e].chg]
    BY <1>1, <1>7 DEF StateChangeSt_Confirm
  <2>4. inp'[x].change[e] = upd[e].chg
    BY <2>2, <2>3 DEF InputData
  <2>5. upd[e].chg # NoData
    BY ElemAssumption DEF StateData
  <2>. QED  BY <2>2, <2>4, <2>5
<1>8. ASSUME NEW e \in ElemId, StateChangeAppr_Confirm(e)
      PROVE  FALSE
  BY <1>1, <1>8 DEF StateChangeAppr_Confirm, Unanswered
<1>. QED
  BY <1>1, <1>2, <1>3, <1>5, <1>6, <1>7, <1>8
     DEF Next, Client, Cycle, Update, Confirm, vars

\* An input never loses what it has received.
InputsStayAt(x) ==
  /\ inp[x].bmut # NoData => inp'[x].bmut # NoData
  /\ inp[x].chgMut # NoData => inp'[x].chgMut # NoData
  /\ inp[x].applMut # NoData => inp'[x].applMut # NoData
  /\ \A c \in ElemId : inp[x].change[c] # NoData => inp'[x].change[c] # NoData

\* No step of the program empties an input.
LEMMA InputsStay ==
  ASSUME IInv, [Next]_vars, NEW x \in ElemId
  PROVE  InputsStayAt(x)
<1>. USE DEF IInv, TypeOK, InputData, StateData, InputsStayAt
<1>0. /\ upd[x].bmut # NoData
      /\ \A e \in ElemId : upd[e].chg # NoData
      /\ \A b \in Batches : b # NoData
  BY ElemAssumption
<1>1. ASSUME inp' = inp
      PROVE  InputsStayAt(x)
  BY <1>1
<1>2. ASSUME NEW e \in ElemId, \/ \E r \in BOOLEAN : NewElem(e, r)
                               \/ \E c \in ElemId : AddElem(e, c)
                               \/ AddElemAbort(e)
                               \/ Update(e)
                               \/ StateChangeAppl_Confirm(e)
      PROVE  inp' = inp
  BY <1>2 DEF NewElem, AddElem, AddElemAbort, Update, StateChangeAppl_Abort,
              StateChangeAppl_Confirm, StateBmut_Trans, StateChangeSt_Trans,
              StateChangeAppr_Trans, StateChangeAppl_Trans
<1>3. ASSUME NEW e \in ElemId, NEW b \in Batches, inp' = [inp EXCEPT ![e].bmut = b]
      PROVE  InputsStayAt(x)
  BY <1>0, <1>3
<1>4. ASSUME NEW e \in ElemId, inp' = [inp EXCEPT ![e].applMut = upd[e].bmut]
      PROVE  InputsStayAt(x)
  BY <1>0, <1>4
<1>5. ASSUME NEW e \in ElemId, inp' = [inp EXCEPT ![e].chgMut = upd[e].bmut]
      PROVE  InputsStayAt(x)
  BY <1>0, <1>5
<1>6. ASSUME NEW e \in ElemId, NEW o \in ElemId,
             inp' = [inp EXCEPT ![o].change[e] = upd[e].chg]
      PROVE  InputsStayAt(x)
  BY <1>0, <1>6
<1>7. ASSUME NEW e \in ElemId, NEW b \in Batches, OnChromo(e, b)
      PROVE  inp' = [inp EXCEPT ![e].bmut = b]
  BY <1>7 DEF OnChromo
<1>8. ASSUME NEW e \in ElemId, StateBmut_Confirm(e)
      PROVE  \/ inp' = inp
             \/ inp' = [inp EXCEPT ![e].applMut = upd[e].bmut]
             \/ inp' = [inp EXCEPT ![e].chgMut = upd[e].bmut]
  BY <1>8 DEF StateBmut_Confirm
<1>9. ASSUME NEW e \in ElemId, StateChangeSt_Confirm(e)
      PROVE  \/ inp' = inp
             \/ \E o \in ElemId : inp' = [inp EXCEPT ![o].change[e] = upd[e].chg]
  BY <1>9 DEF StateChangeSt_Confirm
<1>10. ASSUME NEW e \in ElemId, StateChangeAppr_Confirm(e)
       PROVE  inp' = inp
  BY <1>10 DEF StateChangeAppr_Confirm, Unanswered
<1>11. CASE UNCHANGED vars
  BY <1>1, <1>11 DEF vars
<1>12. CASE Client
  <2>. HIDE DEF InputsStayAt
  <2>. QED  BY <1>1, <1>2, <1>3, <1>7, <1>12 DEF Client
<1>13. CASE Cycle
  <2>. HIDE DEF InputsStayAt
  <2>1. PICK e \in ElemId : Update(e) \/ Confirm(e)
    BY <1>13 DEF Cycle
  <2>2. CASE Update(e) \/ StateChangeAppl_Confirm(e) \/ StateChangeAppr_Confirm(e)
    BY <1>1, <1>2, <1>10, <2>2
  <2>3. CASE StateBmut_Confirm(e)
    BY <1>1, <1>4, <1>5, <1>8, <2>3
  <2>4. CASE StateChangeSt_Confirm(e)
    BY <1>1, <1>6, <1>9, <2>4
  <2>. QED  BY <2>1, <2>2, <2>3, <2>4 DEF Confirm
<1>. QED  BY <1>11, <1>12, <1>13 DEF Next

\* A state becomes active only with data in its input.
LEMMA DataThereStep == IInv /\ [Next]_vars => DataThere'
<1>. SUFFICES ASSUME IInv, [Next]_vars, NEW x \in ElemId, NEW s \in active'[x]
              PROVE  HasData(x, s)'
  BY DEF DataThere
<1>1. s \in State
  BY TypeStep DEF IInv, TypeOK
<1>2. CASE s \in active[x]
  <2>1. HasData(x, s)
    BY <1>2 DEF IInv, DataThere
  <2>. QED  BY <1>1, <2>1, InputsStay DEF InputsStayAt, HasData, State
<1>3. CASE s \notin active[x]
  BY <1>1, <1>3, Activations DEF HasData, State
<1>. QED  BY <1>2, <1>3

\* Only St_Appl writes to a chromo.
LEMMA ChromoSteps ==
  ASSUME [Next]_vars
  PROVE  \/ chromo' = chromo
         \/ \E e \in ElemId : StateChangeAppl_Trans(e)
BY DEF Next, Client, Cycle, Update, Confirm, vars, NewElem, AddElem, AddElemAbort, OnChromo,
       StateBmut_Trans, StateChangeSt_Trans, StateChangeAppr_Trans, StateChangeAppl_Abort,
       StateBmut_Confirm, StateChangeSt_Confirm, StateChangeAppr_Confirm,
       StateChangeAppl_Confirm

\* St_Appl gets active, and appends, only where the agent is a root.
LEMMA OnlyRootsApplyStep == IInv /\ [Next]_vars => OnlyRootsApply'
<1>. SUFFICES ASSUME IInv, [Next]_vars, NEW x \in ElemId,
                     "St_Appl" \in active'[x] \/ chromo'[x] # << >>
              PROVE  isRoot[x]
  BY StructureGrows DEF OnlyRootsApply
<1>. USE DEF IInv, TypeOK, OnlyRootsApply
<1>1. CASE "St_Appl" \in active'[x]
  BY <1>1, Activations
<1>2. CASE chromo'[x] # << >>
  <2>1. ASSUME NEW e \in ElemId, StateChangeAppl_Trans(e)
        PROVE  "St_Appl" \in active[e] /\ (chromo'[x] = chromo[x] \/ x = e)
    BY <2>1 DEF StateChangeAppl_Trans, Updating
  <2>. QED  BY <1>2, <2>1, ChromoSteps
<1>. QED  BY <1>1, <1>2

\* Which steps change the values of the states, and how.
LEMMA UpdSteps ==
  ASSUME [Next]_vars
  PROVE  \/ upd' = upd
         \/ \E e \in ElemId : StateBmut_Trans(e)
         \/ \E e \in ElemId : StateChangeSt_Trans(e)
         \/ \E e \in ElemId : StateChangeAppr_Trans(e)
         \/ \E e \in ElemId : upd' = [upd EXCEPT ![e].appl = inp[e].applMut.second.parent]
BY DEF Next, Client, Cycle, Update, Confirm, vars, NewElem, AddElem, AddElemAbort, OnChromo,
       StateChangeAppl_Trans, StateChangeAppl_Abort, StateBmut_Confirm,
       StateChangeSt_Confirm, StateChangeAppr_Confirm, StateChangeAppl_Confirm

\* Only the confirm of a state changes what is confirmed.
LEMMA ConfSteps ==
  ASSUME [Next]_vars
  PROVE  \/ conf' = conf
         \/ \E e \in ElemId : StateBmut_Confirm(e)
         \/ \E e \in ElemId : StateChangeSt_Confirm(e)
         \/ \E e \in ElemId : StateChangeAppr_Confirm(e)
         \/ \E e \in ElemId : StateChangeAppl_Confirm(e)
BY DEF Next, Client, Cycle, Update, Confirm, vars, NewElem, AddElem, AddElemAbort, OnChromo,
       StateBmut_Trans, StateChangeSt_Trans, StateChangeAppr_Trans,
       StateChangeAppl_Trans, StateChangeAppl_Abort

\* The status of an agent changes in its own St_Chg only.
LEMMA StatusSteps ==
  ASSUME IInv, [Next]_vars, NEW x \in ElemId
  PROVE  /\ \/ upd'[x].chg = upd[x].chg
            \/ \E t \in NodeType : upd'[x].chg = ChangeStatus(t, upd[x].chg)
         /\ \/ conf'[x].chg = conf[x].chg
            \/ StateChangeSt_Confirm(x)
<1>. USE DEF IInv, TypeOK, StateData
<1>1. \/ upd'[x].chg = upd[x].chg
      \/ \E t \in NodeType : upd'[x].chg = ChangeStatus(t, upd[x].chg)
  <2>1. ASSUME NEW e \in ElemId, StateBmut_Trans(e)
        PROVE  upd'[x].chg = upd[x].chg
    BY <2>1 DEF StateBmut_Trans
  <2>2. ASSUME NEW e \in ElemId, StateChangeSt_Trans(e)
        PROVE  \/ upd'[x].chg = upd[x].chg
               \/ \E t \in NodeType : upd'[x].chg = ChangeStatus(t, upd[x].chg)
    <3>1. inp[e].chgMut.second.type \in NodeType
      BY <2>2 DEF StateChangeSt_Trans, Updating, HasData, InputData, BmutData, Mut
    <3>2. upd' = [upd EXCEPT ![e].chg = ChangeStatus(inp[e].chgMut.second.type, upd[e].chg)]
      BY <2>2 DEF StateChangeSt_Trans
    <3>3. CASE x = e
      BY <3>1, <3>2, <3>3
    <3>4. CASE x # e
      BY <3>2, <3>4
    <3>. QED  BY <3>3, <3>4
  <2>3. ASSUME NEW e \in ElemId, StateChangeAppr_Trans(e)
        PROVE  upd'[x].chg = upd[x].chg
    BY <2>3 DEF StateChangeAppr_Trans
  <2>4. ASSUME NEW e \in ElemId,
               upd' = [upd EXCEPT ![e].appl = inp[e].applMut.second.parent]
        PROVE  upd'[x].chg = upd[x].chg
    BY <2>4
  <2>. QED  BY <2>1, <2>2, <2>3, <2>4, UpdSteps
<1>2. conf'[x].chg = conf[x].chg \/ StateChangeSt_Confirm(x)
  <2>1. ASSUME NEW e \in ElemId, StateBmut_Confirm(e)
        PROVE  conf'[x].chg = conf[x].chg
    BY <2>1 DEF StateBmut_Confirm
  <2>2. ASSUME NEW e \in ElemId, StateChangeSt_Confirm(e), e # x
        PROVE  conf'[x].chg = conf[x].chg
    BY <2>2 DEF StateChangeSt_Confirm
  <2>3. ASSUME NEW e \in ElemId, StateChangeAppr_Confirm(e)
        PROVE  conf'[x].chg = conf[x].chg
    BY <2>3 DEF StateChangeAppr_Confirm
  <2>4. ASSUME NEW e \in ElemId, StateChangeAppl_Confirm(e)
        PROVE  conf'[x].chg = conf[x].chg
    BY <2>4 DEF StateChangeAppl_Confirm
  <2>. QED  BY <2>1, <2>2, <2>3, <2>4, ConfSteps
<1>. QED  BY <1>1, <1>2

\* A status does not get back to EAc_None.
LEMMA StatusKeptStep == IInv /\ [Next]_vars => StatusKept'
<1>. SUFFICES ASSUME IInv, [Next]_vars, NEW x \in ElemId, upd'[x].chg = "EAc_None"
              PROVE  conf'[x].chg = "EAc_None"
  BY DEF StatusKept
<1>1. upd[x].chg = "EAc_None"
  BY StatusSteps DEF ChangeStatus
<1>2. conf[x].chg = "EAc_None"
  BY <1>1 DEF IInv, StatusKept
<1>3. ASSUME StateChangeSt_Confirm(x)
      PROVE  conf'[x].chg = upd[x].chg
  BY <1>3 DEF StateChangeSt_Confirm, IInv, TypeOK, StateData
<1>. QED  BY <1>1, <1>2, <1>3, StatusSteps

\* Only St_Chg of a component writes to the change input of its owner.
LEMMA ChangeSteps ==
  ASSUME IInv, [Next]_vars, NEW x \in ElemId, NEW c \in ElemId
  PROVE  \/ inp'[x].change[c] = inp[x].change[c]
         \/ StateChangeSt_Confirm(c)
<1>. USE DEF IInv, TypeOK, InputData
<1>. DEFINE Same == inp'[x].change[c] = inp[x].change[c]
<1>1. ASSUME inp' = inp PROVE Same
  BY <1>1
<1>2. ASSUME NEW e \in ElemId, NEW b \in Batches, OnChromo(e, b)
      PROVE  Same
  BY <1>2 DEF OnChromo
<1>3. ASSUME NEW e \in ElemId, StateBmut_Confirm(e)
      PROVE  Same
  <2>1. \/ inp' = inp
        \/ inp' = [inp EXCEPT ![e].applMut = upd[e].bmut]
        \/ inp' = [inp EXCEPT ![e].chgMut = upd[e].bmut]
    BY <1>3 DEF StateBmut_Confirm
  <2>2. /\ [inp EXCEPT ![e].applMut = upd[e].bmut][x].change = inp[x].change
        /\ [inp EXCEPT ![e].chgMut = upd[e].bmut][x].change = inp[x].change
    OBVIOUS
  <2>. QED  BY <2>1, <2>2
<1>4. ASSUME NEW e \in ElemId, StateChangeSt_Confirm(e), e # c
      PROVE  Same
  <2>1. \/ inp' = inp
        \/ inp' = [inp EXCEPT ![owner[e]].change[e] = upd[e].chg]
    BY <1>4 DEF StateChangeSt_Confirm
  <2>2. [inp EXCEPT ![owner[e]].change[e] = upd[e].chg][x].change[c] = inp[x].change[c]
    BY <1>4
  <2>. QED  BY <2>1, <2>2
<1>5. ASSUME NEW e \in ElemId, StateChangeAppr_Confirm(e)
      PROVE  Same
  BY <1>1, <1>5 DEF StateChangeAppr_Confirm, Unanswered
<1>6. ASSUME NEW e \in ElemId, \/ \E r \in BOOLEAN : NewElem(e, r)
                               \/ \E a \in ElemId : AddElem(e, a)
                               \/ AddElemAbort(e)
                               \/ Update(e)
                               \/ StateChangeAppl_Confirm(e)
      PROVE  inp' = inp
  BY <1>6 DEF NewElem, AddElem, AddElemAbort, Update, StateChangeAppl_Abort,
              StateChangeAppl_Confirm, StateBmut_Trans, StateChangeSt_Trans,
              StateChangeAppr_Trans, StateChangeAppl_Trans
<1>. HIDE DEF Same
<1>7. ASSUME UNCHANGED vars PROVE Same
  BY <1>1, <1>7 DEF vars
<1>8. ASSUME Client PROVE Same
  BY <1>1, <1>2, <1>6, <1>8 DEF Client
<1>9. ASSUME Cycle PROVE Same \/ StateChangeSt_Confirm(c)
  BY <1>1, <1>3, <1>4, <1>5, <1>6, <1>9 DEF Cycle, Confirm
<1>. QED  BY <1>7, <1>8, <1>9 DEF Next, Same

\* What changes of a status is delivered to the owner in the same step.
LEMMA OwnerInSyncStep == IInv /\ [Next]_vars => OwnerInSync'
<1>. SUFFICES ASSUME IInv, [Next]_vars, NEW x \in ElemId, NEW c \in ElemId
              PROVE  inp'[x].change[c] = IF owner'[c] = x /\ conf'[c].chg # "EAc_None"
                                           THEN conf'[c].chg ELSE NoData
  BY DEF OwnerInSync
<1>0. inp[x].change[c] = IF owner[c] = x /\ conf[c].chg # "EAc_None"
                           THEN conf[c].chg ELSE NoData
  BY DEF IInv, OwnerInSync
<1>1. CASE StateChangeSt_Confirm(c)
  <2>. USE DEF IInv, TypeOK, InputData, StateData
  <2>1. owner' = owner /\ conf'[c].chg = upd[c].chg
    BY <1>1 DEF StateChangeSt_Confirm, structure
  <2>2. CASE upd[c].chg = conf[c].chg
    <3>1. inp' = inp
      BY <1>1, <2>2 DEF StateChangeSt_Confirm
    <3>. QED  BY <1>0, <2>1, <2>2, <3>1
  <2>3. CASE owner[c] = NoElem
    <3>1. inp' = inp /\ owner[c] # x
      BY <1>1, <2>3, ElemAssumption DEF StateChangeSt_Confirm
    <3>. QED  BY <1>0, <2>1, <2>3, <3>1
  <2>4. CASE upd[c].chg # conf[c].chg /\ owner[c] # NoElem
    <3>1. inp' = [inp EXCEPT ![owner[c]].change[c] = upd[c].chg]
      BY <1>1, <2>4 DEF StateChangeSt_Confirm
    <3>2. upd[c].chg # "EAc_None"
      BY <2>4 DEF StatusKept
    <3>3. CASE owner[c] = x
      BY <2>1, <3>1, <3>2, <3>3
    <3>4. CASE owner[c] # x
      BY <1>0, <2>1, <3>1, <3>4
    <3>. QED  BY <3>3, <3>4
  <2>. QED  BY <2>2, <2>3, <2>4
<1>2. CASE ~StateChangeSt_Confirm(c)
  <2>1. inp'[x].change[c] = inp[x].change[c] /\ conf'[c].chg = conf[c].chg
    BY <1>2, ChangeSteps, StatusSteps
  <2>2. owner'[c] = owner[c] \/ conf[c].chg = "EAc_None"
    <3>1. CASE c \in elems
      BY <3>1, StructureGrows
    <3>2. CASE c \notin elems
      BY <3>2 DEF IInv, Inert
    <3>. QED  BY <3>1, <3>2
  <2>. QED  BY <1>0, <2>1, <2>2
<1>. QED  BY <1>1, <1>2

\* A step of the client happens between two cycles and leaves the updates alone.
LEMMA ClientSteps ==
  ASSUME Client
  PROVE  /\ BetweenCycles
         /\ UNCHANGED <<conf, upd, chromo, updated, phase>>
BY DEF Client, NewElem, AddElem, AddElemAbort, OnChromo

\* What is updated in a phase has read what was delivered in the one before.
LEMMA InPhaseStep == IInv /\ [Next]_vars => InPhase'
<1>. SUFFICES ASSUME IInv, [Next]_vars, NEW x \in ElemId
              PROVE  /\ phase' = "update" => active'[x] \cap updated'[x] = {}
                     /\ phase' = "confirm" /\ "St_Bmut" \in updated'[x]
                          => "St_Appl" \notin active'[x] /\ "St_Chg" \notin active'[x]
  BY DEF InPhase
<1>. USE DEF IInv, TypeOK
<1>1. CASE UNCHANGED <<active, updated, phase>>
  BY <1>1 DEF InPhase
<1>2. CASE Client
  BY <1>2, ClientSteps DEF BetweenCycles
<1>3. ASSUME NEW e \in ElemId, NEW s \in State, Updating(e, s)
      PROVE  /\ phase' = "update" => active'[x] \cap updated'[x] = {}
             /\ phase' = "confirm" => active'[x] = {}
  BY <1>3 DEF Updating, InPhase
<1>4. ASSUME NEW e \in ElemId, Update(e)
      PROVE  \/ \E s \in State : Updating(e, s)
             \/ UNCHANGED <<active, updated, phase>>
  BY <1>4 DEF Update, StateBmut_Trans, StateChangeSt_Trans, StateChangeAppr_Trans,
              StateChangeAppl_Trans, StateChangeAppl_Abort, State
<1>5. ASSUME NEW e \in ElemId, NEW s \in State, Confirming(e, s)
      PROVE  /\ phase = "confirm"
             /\ phase' = "update" => updated'[x] = {}
             /\ updated'[x] \subseteq updated[x]
             /\ e = x => s \notin updated'[x]
  BY <1>5 DEF Confirming
<1>6. ASSUME NEW e \in ElemId, StateBmut_Confirm(e)
      PROVE  /\ Confirming(e, "St_Bmut")
             /\ e # x => active'[x] = active[x]
  BY <1>6 DEF StateBmut_Confirm
<1>7. ASSUME NEW e \in ElemId, \/ StateChangeSt_Confirm(e)
                               \/ StateChangeAppr_Confirm(e)
                               \/ StateChangeAppl_Confirm(e)
      PROVE  /\ \E s \in State : Confirming(e, s)
             /\ active'[x] \subseteq active[x] \cup {"St_Appr"}
  <2>1. CASE StateChangeSt_Confirm(e)
    BY <2>1 DEF StateChangeSt_Confirm, State
  <2>2. CASE StateChangeAppr_Confirm(e)
    BY <2>2 DEF StateChangeAppr_Confirm, State, Unanswered
  <2>3. CASE StateChangeAppl_Confirm(e)
    BY <2>3 DEF StateChangeAppl_Confirm, State
  <2>. QED  BY <1>7, <2>1, <2>2, <2>3
<1>8. ASSUME NEW e \in ElemId, Confirm(e)
      PROVE  /\ phase' = "update" => active'[x] \cap updated'[x] = {}
             /\ phase' = "confirm" /\ "St_Bmut" \in updated'[x]
                  => "St_Appl" \notin active'[x] /\ "St_Chg" \notin active'[x]
  <2>1. CASE StateBmut_Confirm(e)
    BY <1>5, <1>6, <2>1 DEF InPhase, State
  <2>2. CASE ~StateBmut_Confirm(e)
    BY <1>5, <1>7, <1>8, <2>2 DEF InPhase, Confirm
  <2>. QED  BY <2>1, <2>2
<1>. QED  BY <1>1, <1>2, <1>3, <1>4, <1>8 DEF Next, Cycle, vars

\* St_Bmut takes the step of the walk that MutLog defines.
LEMMA TransIsSucc ==
  ASSUME IInv, NEW e \in ElemId, StateBmut_Trans(e)
  PROVE  /\ inp[e].bmut \in Batches
         /\ upd'[e].bmut = Log!Succ(inp[e].bmut, conf[e].bmut)
<1>. USE DEF IInv, TypeOK
<1>1. Updating(e, "St_Bmut")
  BY DEF StateBmut_Trans
<1>2. inp[e].bmut \in Batches
  BY <1>1 DEF Updating, HasData, InputData
<1>3. upd[e].bmut = conf[e].bmut
  BY <1>1 DEF Updating, InPhase, Walking
<1>. DEFINE b == inp[e].bmut
            c == conf[e].bmut
            cnt == IF c.first = -1 THEN 0 ELSE c.first + 1
<1>4. c \in BmutData
  BY DEF StateData
<1>5. cnt \in Nat /\ cnt = c.first + 1
  BY <1>4, ElemAssumption DEF BmutData
<1>6. upd'[e].bmut = IF At(b, cnt) = NoData THEN [c EXCEPT !.first = -1]
                                            ELSE [first |-> cnt, second |-> At(b, cnt)]
  BY <1>3 DEF StateBmut_Trans, StateData
<1>7. [c EXCEPT !.first = -1] = [first |-> -1, second |-> c.second]
  <2>. HIDE DEF c
  <2>. QED  BY <1>4 DEF BmutData
<1>8. Len(b) \in Nat
  BY <1>2, ElemAssumption
<1>. HIDE DEF b, c, cnt
<1>9. upd'[e].bmut = Log!Succ(b, c)
  <2>1. CASE cnt < Len(b)
    <3>1. At(b, cnt) # NoData /\ At(b, cnt) = b[cnt + 1]
      BY <1>2, <1>5, <2>1, AtType DEF At, b
    <3>. QED  BY <1>5, <1>6, <2>1, <3>1 DEF Log!Succ
  <2>2. CASE cnt >= Len(b)
    <3>1. At(b, cnt) = NoData
      BY <1>2, <1>5, <2>2, AtType DEF b
    <3>2. ~(c.first + 1 < Len(b))
      BY <1>5, <1>8, <2>2
    <3>. QED  BY <1>6, <1>7, <3>1, <3>2 DEF Log!Succ
  <2>. QED  BY <1>5, <1>8, <2>1, <2>2
<1>. QED  BY <1>2, <1>9 DEF b, c

\* The walk of an agent moves in its own St_Bmut only.
LEMMA WalkSteps ==
  ASSUME IInv, [Next]_vars, NEW x \in ElemId
  PROVE  /\ upd'[x].bmut = upd[x].bmut \/ StateBmut_Trans(x)
         /\ conf'[x].bmut = conf[x].bmut \/ StateBmut_Confirm(x)
<1>. USE DEF IInv, TypeOK, StateData
<1>1. upd'[x].bmut = upd[x].bmut \/ StateBmut_Trans(x)
  <2>1. ASSUME NEW e \in ElemId, StateBmut_Trans(e), e # x
        PROVE  upd'[x].bmut = upd[x].bmut
    BY <2>1 DEF StateBmut_Trans
  <2>2. ASSUME NEW e \in ElemId, StateChangeSt_Trans(e)
        PROVE  upd'[x].bmut = upd[x].bmut
    BY <2>2 DEF StateChangeSt_Trans
  <2>3. ASSUME NEW e \in ElemId, StateChangeAppr_Trans(e)
        PROVE  upd'[x].bmut = upd[x].bmut
    BY <2>3 DEF StateChangeAppr_Trans
  <2>4. ASSUME NEW e \in ElemId,
               upd' = [upd EXCEPT ![e].appl = inp[e].applMut.second.parent]
        PROVE  upd'[x].bmut = upd[x].bmut
    BY <2>4
  <2>. QED  BY <2>1, <2>2, <2>3, <2>4, UpdSteps
<1>2. conf'[x].bmut = conf[x].bmut \/ StateBmut_Confirm(x)
  <2>1. ASSUME NEW e \in ElemId, StateBmut_Confirm(e), e # x
        PROVE  conf'[x].bmut = conf[x].bmut
    BY <2>1 DEF StateBmut_Confirm
  <2>2. ASSUME NEW e \in ElemId, StateChangeSt_Confirm(e)
        PROVE  conf'[x].bmut = conf[x].bmut
    BY <2>2 DEF StateChangeSt_Confirm
  <2>3. ASSUME NEW e \in ElemId, StateChangeAppr_Confirm(e)
        PROVE  conf'[x].bmut = conf[x].bmut
    BY <2>3 DEF StateChangeAppr_Confirm
  <2>4. ASSUME NEW e \in ElemId, StateChangeAppl_Confirm(e)
        PROVE  conf'[x].bmut = conf[x].bmut
    BY <2>4 DEF StateChangeAppl_Confirm
  <2>. QED  BY <2>1, <2>2, <2>3, <2>4, ConfSteps
<1>. QED  BY <1>1, <1>2

\* Batches arrive between cycles, and only then.
LEMMA BatchSteps ==
  ASSUME IInv, [Next]_vars, NEW x \in ElemId
  PROVE  \/ inp'[x].bmut = inp[x].bmut
         \/ \E b \in Batches : OnChromo(x, b)
<1>. USE DEF IInv, TypeOK, InputData
<1>. DEFINE Same == inp'[x].bmut = inp[x].bmut
<1>1. ASSUME inp' = inp PROVE Same
  BY <1>1
<1>2. ASSUME NEW e \in ElemId, NEW b \in Batches, OnChromo(e, b), e # x
      PROVE  Same
  BY <1>2 DEF OnChromo
<1>3. ASSUME NEW e \in ElemId, StateBmut_Confirm(e)
      PROVE  Same
  <2>1. \/ inp' = inp
        \/ inp' = [inp EXCEPT ![e].applMut = upd[e].bmut]
        \/ inp' = [inp EXCEPT ![e].chgMut = upd[e].bmut]
    BY <1>3 DEF StateBmut_Confirm
  <2>2. /\ [inp EXCEPT ![e].applMut = upd[e].bmut][x].bmut = inp[x].bmut
        /\ [inp EXCEPT ![e].chgMut = upd[e].bmut][x].bmut = inp[x].bmut
    OBVIOUS
  <2>. QED  BY <2>1, <2>2
<1>4. ASSUME NEW e \in ElemId, StateChangeSt_Confirm(e)
      PROVE  Same
  <2>1. \/ inp' = inp
        \/ inp' = [inp EXCEPT ![owner[e]].change[e] = upd[e].chg]
    BY <1>4 DEF StateChangeSt_Confirm
  <2>2. [inp EXCEPT ![owner[e]].change[e] = upd[e].chg][x].bmut = inp[x].bmut
    OBVIOUS
  <2>. QED  BY <2>1, <2>2
<1>5. ASSUME NEW e \in ElemId, StateChangeAppr_Confirm(e)
      PROVE  Same
  BY <1>1, <1>5 DEF StateChangeAppr_Confirm, Unanswered
<1>6. ASSUME NEW e \in ElemId, \/ \E r \in BOOLEAN : NewElem(e, r)
                               \/ \E a \in ElemId : AddElem(e, a)
                               \/ AddElemAbort(e)
                               \/ Update(e)
                               \/ StateChangeAppl_Confirm(e)
      PROVE  inp' = inp
  BY <1>6 DEF NewElem, AddElem, AddElemAbort, Update, StateChangeAppl_Abort,
              StateChangeAppl_Confirm, StateBmut_Trans, StateChangeSt_Trans,
              StateChangeAppr_Trans, StateChangeAppl_Trans
<1>. HIDE DEF Same
<1>7. ASSUME UNCHANGED vars PROVE Same
  BY <1>1, <1>7 DEF vars
<1>8. ASSUME Client PROVE Same \/ \E b \in Batches : OnChromo(x, b)
  BY <1>1, <1>2, <1>6, <1>8 DEF Client
<1>9. ASSUME Cycle PROVE Same
  BY <1>1, <1>3, <1>4, <1>5, <1>6, <1>9 DEF Cycle, Confirm
<1>. QED  BY <1>7, <1>8, <1>9 DEF Next, Same

\* St_Bmut is moved between active and updated by its own agent only.
LEMMA UpdatedSteps ==
  ASSUME IInv, [Next]_vars, NEW x \in ElemId
  PROVE  \/ "St_Bmut" \in updated'[x] <=> "St_Bmut" \in updated[x]
         \/ StateBmut_Trans(x)
         \/ StateBmut_Confirm(x)
<1>. USE DEF IInv, TypeOK
<1>1. CASE UNCHANGED updated
  BY <1>1
<1>2. CASE Client
  BY <1>2, ClientSteps
<1>3. ASSUME NEW e \in ElemId, NEW s \in State, Updating(e, s) \/ Confirming(e, s),
             e # x \/ s # "St_Bmut"
      PROVE  "St_Bmut" \in updated'[x] <=> "St_Bmut" \in updated[x]
  BY <1>3 DEF Updating, Confirming
<1>4. ASSUME NEW e \in ElemId, Update(e) \/ Confirm(e)
      PROVE  \/ UNCHANGED updated
             \/ StateBmut_Trans(e) /\ Updating(e, "St_Bmut")
             \/ StateBmut_Confirm(e) /\ Confirming(e, "St_Bmut")
             \/ \E s \in State \ {"St_Bmut"} : Updating(e, s) \/ Confirming(e, s)
  BY <1>4 DEF Update, Confirm, StateBmut_Trans, StateChangeSt_Trans,
              StateChangeAppr_Trans, StateChangeAppl_Trans, StateChangeAppl_Abort,
              StateBmut_Confirm, StateChangeSt_Confirm, StateChangeAppr_Confirm,
              StateChangeAppl_Confirm, State
<1>5. "St_Bmut" \in State
  BY DEF State
<1>6. CASE Cycle
  BY <1>1, <1>3, <1>4, <1>5, <1>6 DEF Cycle
<1>. QED  BY <1>1, <1>2, <1>6 DEF Next, vars

\* What St_Bmut is about to become is behind what it is.
LEMMA WalkingStep == IInv /\ [Next]_vars => Walking'
<1>. SUFFICES ASSUME IInv, [Next]_vars, NEW x \in ElemId
              PROVE  IF "St_Bmut" \in updated'[x]
                       THEN /\ inp'[x].bmut \in Batches
                            /\ upd'[x].bmut = Log!Succ(inp'[x].bmut, conf'[x].bmut)
                       ELSE upd'[x].bmut = conf'[x].bmut
  BY DEF Walking, Log!Succ
<1>. USE DEF IInv, TypeOK
<1>1. CASE StateBmut_Trans(x)
  <2>1. UNCHANGED <<conf, inp>> /\ "St_Bmut" \in updated'[x]
    BY <1>1 DEF StateBmut_Trans, Updating
  <2>. QED  BY <1>1, <2>1, TransIsSucc
<1>2. CASE StateBmut_Confirm(x)
  <2>1. upd' = upd /\ "St_Bmut" \notin updated'[x]
    BY <1>2 DEF StateBmut_Confirm, Confirming
  <2>2. conf'[x].bmut = upd[x].bmut
    BY <1>2 DEF StateBmut_Confirm, StateData
  <2>. QED  BY <2>1, <2>2
<1>3. CASE ~StateBmut_Trans(x) /\ ~StateBmut_Confirm(x)
  <2>1. /\ upd'[x].bmut = upd[x].bmut
        /\ conf'[x].bmut = conf[x].bmut
        /\ "St_Bmut" \in updated'[x] <=> "St_Bmut" \in updated[x]
    BY <1>3, WalkSteps, UpdatedSteps
  <2>2. "St_Bmut" \in updated[x] => inp'[x].bmut = inp[x].bmut
    BY BatchSteps DEF OnChromo, BetweenCycles
  <2>. QED  BY <2>1, <2>2 DEF Walking
<1>. QED  BY <1>1, <1>2, <1>3

-----------------------------------------------------------------------------
\* The invariant, and what follows from it.

\* IInv is an invariant of every behaviour of Elem.
THEOREM Invariance == Spec => []IInv
<1>1. IInv /\ [Next]_vars => IInv'
  BY TypeStep, WiredStep, InertStep, UnansweredStep, OnlyRootsApplyStep,
     DataThereStep, StatusKeptStep, OwnerInSyncStep, InPhaseStep, WalkingStep
     DEF IInv
<1>. QED  BY <1>1, IInvInit, PTL DEF Spec

\* What a state works on is there, and the one input that is read empty, the
\* approval of an agent that has no owner, has no say in what happens.
THEOREM EmptyReadsAreHarmless == Spec => []EmptyReadHarmless
<1>1. ASSUME IInv, NEW e \in ElemId, NEW s \in active[e]
      PROVE  HasInput(e, s) \/ (s = "St_Appl" /\ HasData(e, s) /\ Approvals(e) = {TRUE})
  <2>1. HasData(e, s)
    BY <1>1 DEF IInv, DataThere
  <2>2. CASE s # "St_Appl"
    BY <2>1, <2>2 DEF HasInput
  <2>3. CASE s = "St_Appl"
    <3>1. owner[e] = NoElem
      BY <1>1, <2>3 DEF IInv, OnlyRootsApply, Wired
    <3>2. Approvals(e) = {TRUE}
      <4>1. ~IsConnected(e)
        BY <3>1 DEF IsConnected
      <4>2. \A answer \in BOOLEAN : (answer \/ ~IsConnected(e)) = TRUE
        BY <4>1
      <4>3. inp[e].appr \in BOOLEAN \cup {NoData}
        BY <1>1 DEF IInv, TypeOK, InputData
      <4>. DEFINE read == IF inp[e].appr = NoData THEN BOOLEAN ELSE {inp[e].appr}
      <4>4. read # {} /\ read \subseteq BOOLEAN
        BY <4>3
      <4>5. Approvals(e) = {answer \/ ~IsConnected(e) : answer \in read}
        BY DEF Approvals
      <4>. HIDE DEF read
      <4>. QED  BY <4>2, <4>4, <4>5
    <3>. QED  BY <2>1, <2>3, <3>2
  <2>. QED  BY <2>2, <2>3
<1>2. IInv => EmptyReadHarmless
  BY <1>1 DEF EmptyReadHarmless
<1>. QED  BY <1>2, Invariance, PTL

\* The chromo of a component never changes.
THEOREM ComponentsStayFrozen == Spec => []ComponentsFrozen
<1>1. IInv => ComponentsFrozen
  BY DEF IInv, OnlyRootsApply, Wired, ComponentsFrozen
<1>. QED  BY <1>1, Invariance, PTL

\* The owner of a component knows the status it has confirmed last.
THEOREM OwnerStaysInSync == Spec => []OwnerInSync
<1>1. IInv => OwnerInSync
  BY DEF IInv
<1>. QED  BY <1>1, Invariance, PTL

-----------------------------------------------------------------------------
\* Handing over mutations.

\* The mutation inputs are written by St_Bmut of the same agent only.
LEMMA MutInputSteps ==
  ASSUME IInv, [Next]_vars, NEW x \in ElemId
  PROVE  \/ /\ inp'[x].applMut = inp[x].applMut
            /\ inp'[x].chgMut = inp[x].chgMut
         \/ StateBmut_Confirm(x)
<1>. USE DEF IInv, TypeOK, InputData
<1>. DEFINE Same == /\ inp'[x].applMut = inp[x].applMut
                    /\ inp'[x].chgMut = inp[x].chgMut
<1>1. ASSUME inp' = inp PROVE Same
  BY <1>1
<1>2. ASSUME NEW e \in ElemId, NEW b \in Batches, OnChromo(e, b)
      PROVE  Same
  BY <1>2 DEF OnChromo
<1>3. ASSUME NEW e \in ElemId, StateBmut_Confirm(e), e # x
      PROVE  Same
  <2>1. \/ inp' = inp
        \/ inp' = [inp EXCEPT ![e].applMut = upd[e].bmut]
        \/ inp' = [inp EXCEPT ![e].chgMut = upd[e].bmut]
    BY <1>3 DEF StateBmut_Confirm
  <2>. QED  BY <1>3, <2>1
<1>4. ASSUME NEW e \in ElemId, StateChangeSt_Confirm(e)
      PROVE  Same
  <2>1. \/ inp' = inp
        \/ inp' = [inp EXCEPT ![owner[e]].change[e] = upd[e].chg]
    BY <1>4 DEF StateChangeSt_Confirm
  <2>2. /\ [inp EXCEPT ![owner[e]].change[e] = upd[e].chg][x].applMut = inp[x].applMut
        /\ [inp EXCEPT ![owner[e]].change[e] = upd[e].chg][x].chgMut = inp[x].chgMut
    OBVIOUS
  <2>. QED  BY <2>1, <2>2
<1>5. ASSUME NEW e \in ElemId, StateChangeAppr_Confirm(e)
      PROVE  Same
  BY <1>1, <1>5 DEF StateChangeAppr_Confirm, Unanswered
<1>6. ASSUME NEW e \in ElemId, \/ \E r \in BOOLEAN : NewElem(e, r)
                               \/ \E a \in ElemId : AddElem(e, a)
                               \/ AddElemAbort(e)
                               \/ Update(e)
                               \/ StateChangeAppl_Confirm(e)
      PROVE  inp' = inp
  BY <1>6 DEF NewElem, AddElem, AddElemAbort, Update, StateChangeAppl_Abort,
              StateChangeAppl_Confirm, StateBmut_Trans, StateChangeSt_Trans,
              StateChangeAppr_Trans, StateChangeAppl_Trans
<1>. HIDE DEF Same
<1>7. ASSUME UNCHANGED vars PROVE Same
  BY <1>1, <1>7 DEF vars
<1>8. ASSUME Client PROVE Same
  BY <1>1, <1>2, <1>6, <1>8 DEF Client
<1>9. ASSUME Cycle PROVE Same \/ StateBmut_Confirm(x)
  BY <1>1, <1>3, <1>4, <1>5, <1>6, <1>9 DEF Cycle, Confirm
<1>. QED  BY <1>7, <1>8, <1>9 DEF Next, Same

\* A mutation is not overwritten before it has been used.
THEOREM NothingOverwritten == Spec => NoOverwrite
<1>1. ASSUME IInv, [Next]_vars, NEW e \in ElemId
      PROVE  /\ inp'[e].applMut # inp[e].applMut => "St_Appl" \notin active[e]
             /\ inp'[e].chgMut # inp[e].chgMut => "St_Chg" \notin active[e]
  <2>1. ASSUME StateBmut_Confirm(e)
        PROVE  "St_Appl" \notin active[e] /\ "St_Chg" \notin active[e]
    BY <1>1, <2>1 DEF StateBmut_Confirm, Confirming, IInv, InPhase
  <2>. QED  BY <1>1, <2>1, MutInputSteps
<1>2. IInv /\ [Next]_vars =>
        [\A e \in ElemId :
           /\ inp'[e].applMut # inp[e].applMut => "St_Appl" \notin active[e]
           /\ inp'[e].chgMut # inp[e].chgMut => "St_Chg" \notin active[e]]_vars
  BY <1>1
<1>. QED  BY <1>2, Invariance, PTL DEF Spec, NoOverwrite

-----------------------------------------------------------------------------
\* Elem implements MutLog.

\* St_Appl is made active by St_Bmut of its agent, and by nothing else.
LEMMA ApplActiveSteps ==
  ASSUME IInv, [Next]_vars, NEW x \in ElemId
  PROVE  \/ "St_Appl" \in active'[x] <=> "St_Appl" \in active[x]
         \/ StateBmut_Confirm(x)
         \/ StateChangeAppl_Trans(x)
<1>. USE DEF IInv, TypeOK
<1>. DEFINE Same == "St_Appl" \in active'[x] <=> "St_Appl" \in active[x]
<1>1. ASSUME active' = active PROVE Same
  BY <1>1
<1>2. ASSUME NEW e \in ElemId, NEW b \in Batches, OnChromo(e, b)
      PROVE  Same
  BY <1>2 DEF OnChromo
<1>3. ASSUME NEW e \in ElemId, NEW s \in State, Updating(e, s),
             s # "St_Appl" \/ e # x
      PROVE  Same
  BY <1>3 DEF Updating
<1>4. ASSUME NEW e \in ElemId, Update(e)
      PROVE  \/ active' = active
             \/ StateChangeAppl_Trans(e) /\ Updating(e, "St_Appl")
             \/ \E s \in State \ {"St_Appl"} : Updating(e, s)
  BY <1>4 DEF Update, StateBmut_Trans, StateChangeSt_Trans, StateChangeAppr_Trans,
              StateChangeAppl_Trans, StateChangeAppl_Abort, State
<1>5. ASSUME NEW e \in ElemId, StateBmut_Confirm(e), e # x
      PROVE  Same
  BY <1>5 DEF StateBmut_Confirm
<1>6. ASSUME NEW e \in ElemId, StateChangeSt_Confirm(e)
      PROVE  Same
  <2>1. \/ active' = active
        \/ active' = [active EXCEPT ![owner[e]] = @ \cup {"St_Appr"}]
    BY <1>6 DEF StateChangeSt_Confirm
  <2>2. "St_Appl" \in [active EXCEPT ![owner[e]] = @ \cup {"St_Appr"}][x]
          <=> "St_Appl" \in active[x]
    OBVIOUS
  <2>. QED  BY <2>1, <2>2, <1>1
<1>7. ASSUME NEW e \in ElemId, \/ StateChangeAppr_Confirm(e)
                               \/ StateChangeAppl_Confirm(e)
                               \/ \E r \in BOOLEAN : NewElem(e, r)
                               \/ \E c \in ElemId : AddElem(e, c)
                               \/ AddElemAbort(e)
      PROVE  active' = active
  BY <1>7 DEF StateChangeAppr_Confirm, StateChangeAppl_Confirm, NewElem, AddElem,
              AddElemAbort, Unanswered
<1>. HIDE DEF Same
<1>8. ASSUME UNCHANGED vars PROVE Same
  BY <1>1, <1>8 DEF vars
<1>9. ASSUME Client PROVE Same
  BY <1>1, <1>2, <1>7, <1>9 DEF Client
<1>10. ASSUME NEW e \in ElemId, Update(e)
       PROVE  Same \/ StateChangeAppl_Trans(x)
  <2>1. "St_Appl" \in State
    BY DEF State
  <2>. QED  BY <1>1, <1>3, <1>4, <1>10, <2>1
<1>11. ASSUME NEW e \in ElemId, Confirm(e)
       PROVE  Same \/ StateBmut_Confirm(x)
  BY <1>1, <1>5, <1>6, <1>7, <1>11 DEF Confirm
<1>. QED  BY <1>8, <1>9, <1>10, <1>11 DEF Next, Cycle, Same

\* What an agent has applied grows by the mutation that its St_Bmut has reached,
\* if it is a root, at the moment St_Bmut delivers it; St_Appl changes nothing.
LEMMA AppliedSteps ==
  ASSUME IInv, [Next]_vars, NEW x \in ElemId
  PROVE  \/ Applied(x)' = Applied(x)
         \/ /\ StateBmut_Confirm(x)
            /\ isRoot[x] /\ upd[x].bmut # conf[x].bmut
            /\ Applied(x)' = Append(Applied(x), upd[x].bmut.second)
<1>. USE DEF IInv, TypeOK
<1>1. CASE StateChangeAppl_Trans(x)
  <2>. DEFINE m == inp[x].applMut.second
  <2>1. "St_Appl" \in active[x] /\ "St_Appl" \notin active'[x]
    BY <1>1 DEF StateChangeAppl_Trans, Updating
  <2>2. chromo'[x] = Append(chromo[x], m)
    BY <1>1 DEF StateChangeAppl_Trans
  <2>3. Applied(x) = chromo[x] \o <<m>> /\ Applied(x)' = chromo'[x] \o << >>
    BY <2>1 DEF Applied
  <2>4. chromo[x] \in Seq(Mut) /\ m \in Mut
    BY <1>1 DEF StateChangeAppl_Trans, Updating, HasData, InputData, BmutData
  <2>. HIDE DEF m
  <2>5. Append(chromo[x], m) \o << >> = chromo[x] \o <<m>>
    BY <2>4
  <2>. QED  BY <2>2, <2>3, <2>5
<1>2. CASE StateBmut_Confirm(x) /\ isRoot[x] /\ upd[x].bmut # conf[x].bmut
  <2>. DEFINE m == upd[x].bmut.second
  <2>1. "St_Appl" \notin active[x]
    BY <1>2 DEF StateBmut_Confirm, Confirming, InPhase
  <2>2. "St_Appl" \in active'[x] /\ chromo' = chromo
    BY <1>2 DEF StateBmut_Confirm, AppliesItself
  <2>3. inp' = [inp EXCEPT ![x].applMut = upd[x].bmut]
    BY <1>2 DEF StateBmut_Confirm, AppliesItself
  <2>4. inp'[x].applMut = upd[x].bmut
    BY <2>3 DEF InputData
  <2>5. Applied(x) = chromo[x] \o << >> /\ Applied(x)' = chromo[x] \o <<m>>
    BY <2>1, <2>2, <2>4 DEF Applied
  <2>6. chromo[x] \in Seq(Mut) /\ m \in Mut
    BY DEF StateData, BmutData
  <2>. HIDE DEF m
  <2>7. chromo[x] \o <<m>> = Append(chromo[x] \o << >>, m)
    BY <2>6
  <2>. QED  BY <1>2, <2>5, <2>7 DEF m
<1>3. CASE StateBmut_Confirm(x) /\ ~(isRoot[x] /\ upd[x].bmut # conf[x].bmut)
  <2>1. chromo' = chromo
    BY <1>3 DEF StateBmut_Confirm
  <2>2. CASE isRoot[x]
    <3>1. UNCHANGED <<inp, active>>
      BY <1>3, <2>2 DEF StateBmut_Confirm
    <3>. QED  BY <2>1, <3>1 DEF Applied
  <2>3. CASE ~isRoot[x]
    <3>1. "St_Appl" \notin active[x] /\ "St_Appl" \notin active'[x]
      BY <1>3, <2>3, Activations DEF OnlyRootsApply
    <3>. QED  BY <2>1, <3>1 DEF Applied
  <2>. QED  BY <2>2, <2>3
<1>4. CASE ~StateChangeAppl_Trans(x) /\ ~StateBmut_Confirm(x)
  <2>1. "St_Appl" \in active'[x] <=> "St_Appl" \in active[x]
    BY <1>4, ApplActiveSteps
  <2>2. inp'[x].applMut = inp[x].applMut
    BY <1>4, MutInputSteps
  <2>3. chromo'[x] = chromo[x]
    <3>1. ASSUME NEW e \in ElemId, StateChangeAppl_Trans(e)
          PROVE  chromo'[x] = chromo[x]
      <4>1. chromo' = [chromo EXCEPT ![e] = Append(@, inp[e].applMut.second)]
        BY <3>1 DEF StateChangeAppl_Trans
      <4>2. e # x
        BY <1>4, <3>1
      <4>. QED  BY <4>1, <4>2
    <3>. QED  BY <3>1, ChromoSteps
  <2>. QED  BY <2>1, <2>2, <2>3 DEF Applied
<1>. QED  BY <1>1, <1>2, <1>3, <1>4

\* Nothing that MutLog sees changes.
LEMMA LogStutters ==
  ASSUME \A x \in ElemId : /\ isRoot'[x] = isRoot[x]
                            /\ inp'[x].bmut = inp[x].bmut
                            /\ conf'[x].bmut = conf[x].bmut
                            /\ Applied(x)' = Applied(x)
  PROVE  UNCHANGED Log!vars
BY DEF Log!vars, AppliesItself

\* The initial states of Elem are initial states of MutLog.
LEMMA LogInit == Init => Log!Init
<1>. SUFFICES ASSUME Init PROVE Log!Init
  OBVIOUS
<1>1. ASSUME NEW e \in ElemId
      PROVE  /\ AppliesItself(e) = FALSE
             /\ inp[e].bmut = NoData
             /\ conf[e].bmut = Log!Start
             /\ Applied(e) = << >>
  BY DEF Init, AppliesItself, NoInput, InitData, Log!Start, Applied
<1>. QED  BY <1>1 DEF Log!Init

\* Every step of Elem is a step of MutLog or leaves it as it is.
LEMMA LogStep == IInv /\ [Next]_vars => [Log!Next]_(Log!vars)
<1>. SUFFICES ASSUME IInv, [Next]_vars, ~UNCHANGED Log!vars
              PROVE  Log!Next
  OBVIOUS
<1>. USE DEF IInv, TypeOK
<1>1. ASSUME NEW e \in ElemId, NEW r \in BOOLEAN, NewElem(e, r)
      PROVE  Log!Appoint(e)
  <2>1. UNCHANGED <<inp, conf, chromo, active>> /\ isRoot' = [isRoot EXCEPT ![e] = r]
    BY <1>1 DEF NewElem
  <2>2. ~isRoot[e] /\ inp[e].bmut = NoData
    BY <1>1 DEF NewElem, Wired, Inert
  <2>3. \A x \in ElemId : Applied(x)' = Applied(x)
    BY <2>1 DEF Applied
  <2>4. r = TRUE
    <3>1. r = FALSE => isRoot' = isRoot
      BY <2>1, <2>2
    <3>. QED  BY <2>1, <2>3, <3>1, LogStutters
  <2>. QED  BY <2>1, <2>2, <2>3, <2>4 DEF Log!Appoint, AppliesItself
<1>2. ASSUME NEW e \in ElemId, NEW b \in Batches, OnChromo(e, b)
      PROVE  Log!Load(e, b)
  <2>1. /\ UNCHANGED <<isRoot, conf, chromo>>
        /\ inp' = [inp EXCEPT ![e].bmut = b]
        /\ \A x \in ElemId : "St_Appl" \in active'[x] <=> "St_Appl" \in active[x]
    BY <1>2 DEF OnChromo
  <2>2. \A x \in ElemId : /\ inp'[x].bmut = IF x = e THEN b ELSE inp[x].bmut
                          /\ inp'[x].applMut = inp[x].applMut
    BY <2>1 DEF InputData
  <2>3. \A x \in ElemId : Applied(x)' = Applied(x)
    BY <2>1, <2>2 DEF Applied
  <2>. QED  BY <2>1, <2>2, <2>3 DEF Log!Load, AppliesItself
<1>3. ASSUME NEW e \in ElemId, StateBmut_Confirm(e)
      PROVE  Log!Step(e)
  <2>1. /\ isRoot' = isRoot
        /\ conf' = [conf EXCEPT ![e].bmut = upd[e].bmut]
    BY <1>3 DEF StateBmut_Confirm, structure
  <2>2. \A x \in ElemId : conf'[x].bmut = IF x = e THEN upd[e].bmut ELSE conf[x].bmut
    BY <2>1 DEF StateData
  <2>3. /\ inp[e].bmut \in Batches
        /\ upd[e].bmut = Log!Succ(inp[e].bmut, conf[e].bmut)
    BY <1>3 DEF StateBmut_Confirm, Confirming, Walking
  <2>4. \A x \in ElemId : inp'[x].bmut = inp[x].bmut
    <3>1. \A x \in ElemId, b \in Batches : ~OnChromo(x, b)
      BY <1>3 DEF StateBmut_Confirm, Confirming, OnChromo, BetweenCycles
    <3>. QED  BY <3>1, BatchSteps
  <2>5. \A x \in ElemId : x # e => Applied(x)' = Applied(x)
    BY <1>3 DEF StateBmut_Confirm, Applied
  <2>6. upd[e].bmut # conf[e].bmut
    <3>1. upd[e].bmut = conf[e].bmut => Applied(e)' = Applied(e)
      BY <1>3 DEF StateBmut_Confirm, Applied
    <3>. QED  BY <2>1, <2>2, <2>4, <2>5, <3>1, LogStutters
  <2>7. Applied(e)' = IF isRoot[e] THEN Append(Applied(e), upd[e].bmut.second)
                                   ELSE Applied(e)
    <3>1. CASE isRoot[e]
      <4>1. "St_Appl" \notin active[e] /\ "St_Appl" \in active'[e] /\ chromo' = chromo
        BY <1>3, <2>6, <3>1 DEF StateBmut_Confirm, Confirming, InPhase, AppliesItself
      <4>2. Len(Applied(e)') # Len(Applied(e))
        BY <4>1 DEF Applied
      <4>. QED  BY <3>1, <4>2, AppliedSteps
    <3>2. CASE ~isRoot[e]
      BY <3>2, AppliedSteps
    <3>. QED  BY <3>1, <3>2
  <2>8. Log!Step(e)!1 /\ Log!Step(e)!2
    BY <2>3, <2>6 DEF Log!Step
  <2>9. Log!Step(e)!3
    BY <2>2, <2>3 DEF Log!Step
  <2>10. Log!Step(e)!4
    BY <2>2, <2>5, <2>7 DEF Log!Step, AppliesItself
  <2>11. Log!Step(e)!5
    BY <2>1, <2>4 DEF Log!Step, AppliesItself
  <2>. QED
    BY <2>8, <2>9, <2>10, <2>11 DEF Log!Step
<1>4. CASE ~ \E e \in ElemId : \/ \E r \in BOOLEAN : NewElem(e, r)
                               \/ \E b \in Batches : OnChromo(e, b)
                               \/ StateBmut_Confirm(e)
  <2>1. isRoot' = isRoot
    BY <1>4, StructureSteps DEF AddElem, structure
  <2>2. \A x \in ElemId : /\ inp'[x].bmut = inp[x].bmut
                          /\ conf'[x].bmut = conf[x].bmut
                          /\ Applied(x)' = Applied(x)
    BY <1>4, BatchSteps, WalkSteps, AppliedSteps
  <2>. QED  BY <2>1, <2>2, LogStutters
<1>. QED  BY <1>1, <1>2, <1>3, <1>4 DEF Log!Next

\* Elem implements MutLog: an agent applies the mutations its walk reaches, in
\* that order, each exactly once, and only a root agent applies any.
THEOREM ImplementsMutLog == Spec => LogSpec
<1>1. Init => Log!Init
  BY LogInit
<1>2. IInv /\ [Next]_vars => [Log!Next]_(Log!vars)
  BY LogStep
<1>. QED  BY <1>1, <1>2, Invariance, PTL DEF Spec, LogSpec, Log!Spec

-----------------------------------------------------------------------------
\* The invariant of Elem in a system that an environment constructs.

\* The steps of Elem keep its invariant.
LEMMA ElemStep == IInv /\ [Next]_vars => IInv'
BY TypeStep, WiredStep, InertStep, UnansweredStep, OnlyRootsApplyStep, DataThereStep,
   StatusKeptStep, OwnerInSyncStep, InPhaseStep, WalkingStep DEF IInv

\* Every step of EnvNext but two is one of Elem.
LEMMA EnvSteps ==
  ASSUME IInv, Observing, [EnvNext]_allVars
  PROVE  \/ \E e \in ElemId : ConstructSystem(e)
         \/ ConstructAbort
         \/ [Next]_vars
<1>1. ASSUME NEW e \in ElemId, ConstructEmpty(e) PROVE Next
  BY <1>1 DEF ConstructEmpty, Next, Client
<1>2. ASSUME NEW c \in ElemId, mRoot # NoElem, AddElem(mRoot, c) PROVE Next
  <2>1. mRoot \in ElemId
    BY <1>2 DEF Observing, IInv, TypeOK
  <2>. QED  BY <1>2, <2>1 DEF Next, Client
<1>3. CASE Run
  BY <1>3 DEF Run, Next
<1>4. CASE UNCHANGED allVars
  BY <1>4 DEF allVars, vars
<1>. QED  BY <1>1, <1>2, <1>3, <1>4 DEF EnvNext

\* What the delivery of the file changes at an agent.
LEMMA Delivery ==
  ASSUME IInv, NEW e \in ElemId, ConstructSystem(e), observers \subseteq ElemId,
         NEW a \in ElemId
  PROVE  /\ inp'[a] = IF a \in observers \cup {e} THEN [inp[a] EXCEPT !.bmut = File]
                                                  ELSE inp[a]
         /\ active'[a] = IF a \in observers \cup {e} THEN active[a] \cup {"St_Bmut"}
                                                     ELSE active[a]
         /\ \A s : s \in active'[a] <=>
                     s \in active[a] \/ (s = "St_Bmut" /\ a \in observers \cup {e})
         /\ \A s : s \in active'[a] <=>
                     s \in active[a] \/ (s = "St_Bmut" /\ a \in observers \cup {e})
         /\ inp'[a].bmut = IF a \in observers \cup {e} THEN File ELSE inp[a].bmut
         /\ inp'[a].chgMut = inp[a].chgMut
         /\ inp'[a].change = inp[a].change
         /\ inp'[a].applMut = inp[a].applMut
         /\ inp'[a].appr = inp[a].appr
<1>1. inp[a] \in InputData
  BY DEF IInv, TypeOK
<1>2. /\ inp'[a] = IF a \in observers \cup {e} THEN [inp[a] EXCEPT !.bmut = File]
                                               ELSE inp[a]
      /\ active'[a] = IF a \in observers \cup {e} THEN active[a] \cup {"St_Bmut"}
                                                  ELSE active[a]
  BY DEF ConstructSystem, Deliver
<1>3. \A s : s \in active'[a] <=>
               s \in active[a] \/ (s = "St_Bmut" /\ a \in observers \cup {e})
  <2>1. CASE a \in observers \cup {e}
    BY <1>2, <2>1
  <2>2. CASE a \notin observers \cup {e}
    BY <1>2, <2>2
  <2>. QED  BY <2>1, <2>2
<1>4. inp'[a].bmut = IF a \in observers \cup {e} THEN File ELSE inp[a].bmut
  BY <1>1, <1>2 DEF InputData
<1>5. UNCHANGED <<inp[a].chgMut, inp[a].change, inp[a].applMut, inp[a].appr>>
  BY <1>1, <1>2 DEF InputData
<1>. QED  BY <1>2, <1>3, <1>4, <1>5

\* ConstructSystem keeps the invariant of Elem: it gives only St_Bmut something
\* to do, and something to read.
LEMMA ConstructKeeps ==
  ASSUME IInv, Observing, NEW e \in ElemId, ConstructSystem(e)
  PROVE  IInv'
<1>1. /\ observers \subseteq ElemId
      /\ File \in Batches
      /\ e \notin elems
      /\ elems' = elems \cup {e}
      /\ isRoot' = [isRoot EXCEPT ![e] = TRUE]
      /\ UNCHANGED <<owner, conf, upd, chromo, updated, phase, aborted>>
      /\ phase = "update"
      /\ \A a \in ElemId : updated[a] = {}
  BY DEF Observing, ConstructSystem, BetweenCycles
<1>2. \A a \in ElemId :
         /\ \A s : s \in active'[a] <=>
                     s \in active[a] \/ (s = "St_Bmut" /\ a \in observers \cup {e})
         /\ inp'[a].bmut = IF a \in observers \cup {e} THEN File ELSE inp[a].bmut
         /\ inp'[a].chgMut = inp[a].chgMut
         /\ inp'[a].change = inp[a].change
         /\ inp'[a].applMut = inp[a].applMut
         /\ inp'[a].appr = inp[a].appr
  BY <1>1, Delivery
<1>3. TypeOK'
  <2>1. inp' \in [ElemId -> InputData]
    <3>1. ASSUME NEW a \in ElemId
          PROVE  inp[a] \in InputData /\ [inp[a] EXCEPT !.bmut = File] \in InputData
      BY <1>1 DEF IInv, TypeOK, InputData
    <3>. QED  BY <3>1 DEF ConstructSystem, Deliver
  <2>2. active' \in [ElemId -> SUBSET State]
    BY DEF IInv, TypeOK, State, ConstructSystem, Deliver
  <2>. QED  BY <1>1, <2>1, <2>2 DEF IInv, TypeOK
<1>4. Wired'
  BY <1>1 DEF IInv, TypeOK, Wired
<1>5. observers \subseteq elems
  BY DEF Observing, IInv, Wired
<1>6. Inert'
  <2>. SUFFICES ASSUME NEW a \in ElemId, a \notin elems, a # e
                PROVE  /\ active'[a] = {} /\ updated'[a] = {}
                       /\ conf'[a].chg = "EAc_None" /\ inp'[a].bmut = NoData
    BY <1>1 DEF Inert
  <2>1. a \notin observers
    BY <1>5
  <2>. QED  BY <1>1, <2>1, <1>2 DEF IInv, Inert
<1>7. Unanswered'
  BY <1>1, <1>2 DEF IInv, Unanswered
<1>8. OnlyRootsApply'
  <2>. SUFFICES ASSUME NEW a \in ElemId, "St_Appl" \in active'[a] \/ chromo'[a] # << >>
                PROVE  isRoot'[a]
    BY DEF OnlyRootsApply
  <2>1. "St_Appl" \in active[a] \/ chromo[a] # << >>
    BY <1>1, <1>2
  <2>. QED  BY <1>1, <2>1 DEF IInv, TypeOK, OnlyRootsApply
<1>9. DataThere'
  <2>. SUFFICES ASSUME NEW a \in ElemId, NEW s \in active'[a]
                PROVE  HasData(a, s)'
    BY DEF DataThere
  <2>1. File # NoData
    BY <1>1, ElemAssumption
  <2>2. CASE s \in active[a]
    <3>1. HasData(a, s)
      BY <2>2 DEF IInv, DataThere
    <3>2. s \in State
      BY <2>2 DEF IInv, TypeOK
    <3>. QED  BY <1>1, <2>1, <3>1, <3>2, <1>2 DEF HasData, State
  <2>3. CASE s \notin active[a]
    <3>1. s = "St_Bmut" /\ a \in observers \cup {e}
      BY <1>1, <2>3, <1>2
    <3>. QED  BY <1>1, <2>1, <3>1, <1>2 DEF HasData
  <2>. QED  BY <2>2, <2>3
<1>10. StatusKept'
  BY <1>1 DEF IInv, StatusKept
<1>11. OwnerInSync'
  <2>. SUFFICES ASSUME NEW a \in ElemId, NEW c \in ElemId
                PROVE  inp'[a].change[c] = IF owner[c] = a /\ conf[c].chg # "EAc_None"
                                             THEN conf[c].chg ELSE NoData
    BY <1>1 DEF OwnerInSync
  <2>1. inp[a].change[c] = IF owner[c] = a /\ conf[c].chg # "EAc_None"
                             THEN conf[c].chg ELSE NoData
    BY DEF IInv, OwnerInSync
  <2>2. inp'[a].change = inp[a].change
    BY <1>2
  <2>. QED  BY <2>1, <2>2
<1>12. InPhase'
  BY <1>1 DEF InPhase
<1>13. Walking'
  BY <1>1 DEF IInv, Walking
<1>. QED
  BY <1>3, <1>4, <1>6, <1>7, <1>8, <1>9, <1>10, <1>11, <1>12, <1>13 DEF IInv

\* ConstructAbort touches nothing of Elem but the process.
LEMMA AbortKeeps == IInv /\ ConstructAbort => IInv'
<1>. SUFFICES ASSUME IInv, ConstructAbort PROVE IInv'
  OBVIOUS
<1>1. /\ UNCHANGED <<elems, isRoot, owner, conf, upd, inp, chromo, active, updated, phase>>
      /\ aborted' = TRUE
  BY DEF ConstructAbort, structure
<1>2. TypeOK' /\ Wired' /\ Inert' /\ Unanswered' /\ OnlyRootsApply'
  BY <1>1 DEF IInv, TypeOK, Wired, Inert, Unanswered, OnlyRootsApply
<1>3. DataThere' /\ StatusKept' /\ OwnerInSync' /\ InPhase' /\ Walking'
  BY <1>1 DEF IInv, DataThere, HasData, StatusKept, OwnerInSync, InPhase, Walking
<1>. QED  BY <1>2, <1>3 DEF IInv

\* So every step of the environment keeps it.
LEMMA EnvKeepsElem == IInv /\ Observing /\ [EnvNext]_allVars => IInv'
BY ElemStep, EnvSteps, ConstructKeeps, AbortKeeps

-----------------------------------------------------------------------------
\* Observers and all others.

\* A cycle touches neither the structure nor the file of any agent.
LEMMA CycleSteps ==
  ASSUME IInv, Cycle
  PROVE  /\ [Next]_vars
         /\ UNCHANGED structure
         /\ \A e \in ElemId : inp'[e].bmut = inp[e].bmut
<1>1. [Next]_vars
  BY DEF Next
<1>2. UNCHANGED structure
  BY DEF Cycle, Update, Confirm,
         StateBmut_Trans, StateChangeSt_Trans, StateChangeAppr_Trans,
         StateChangeAppl_Trans, StateChangeAppl_Abort, StateBmut_Confirm,
         StateChangeSt_Confirm, StateChangeAppr_Confirm, StateChangeAppl_Confirm, structure
<1>3. ASSUME NEW e \in ElemId, Update(e) PROVE inp' = inp
  BY <1>3 DEF Update, StateBmut_Trans, StateChangeSt_Trans, StateChangeAppr_Trans,
         StateChangeAppl_Trans, StateChangeAppl_Abort
<1>4. ASSUME NEW e \in ElemId, Confirm(e) PROVE phase = "confirm"
  BY <1>4 DEF Confirm, Confirming, StateBmut_Confirm, StateChangeSt_Confirm,
         StateChangeAppr_Confirm, StateChangeAppl_Confirm
<1>5. inp' = inp \/ phase = "confirm"
  BY <1>3, <1>4 DEF Cycle
<1>. QED  BY <1>1, <1>2, <1>5, BatchSteps DEF OnChromo, BetweenCycles

\* Observers stay roots that have the file.
LEMMA ObservingStep == IInv /\ Observing /\ [EnvNext]_allVars => Observing'
<1>. SUFFICES ASSUME IInv, Observing, [EnvNext]_allVars PROVE Observing'
  OBVIOUS
<1>. USE DEF Observing
<1>1. elems \subseteq ElemId /\ observers \subseteq elems
  BY DEF IInv, TypeOK, Wired
<1>2. ASSUME NEW e \in ElemId, ConstructEmpty(e) PROVE Observing'
  BY <1>1, <1>2 DEF ConstructEmpty, NewElem, File
<1>3. ASSUME NEW e \in ElemId, ConstructSystem(e) PROVE Observing'
  <2>1. /\ observers' = observers \cup {e}
        /\ isRoot' = [isRoot EXCEPT ![e] = TRUE]
        /\ mRoot' = e /\ elems' = elems \cup {e}
        /\ mChromoPath # NoPath /\ mChromoPath' = mChromoPath
        /\ File \in Batches /\ File' = File
    BY <1>3 DEF ConstructSystem, Deliver, File
  <2>2. ASSUME NEW a \in observers' PROVE isRoot'[a] /\ inp'[a].bmut = File'
    <3>1. a \in ElemId /\ a \in observers \cup {e}
      BY <1>1, <2>1
    <3>2. observers \subseteq ElemId
      OBVIOUS
    <3>3. inp'[a].bmut = File
      <4>. HIDE DEF Observing
      <4>. QED  BY <1>3, <3>1, <3>2, Delivery
    <3>. QED  BY <2>1, <3>1, <3>3 DEF IInv, TypeOK
  <2>. QED  BY <1>1, <2>1, <2>2
<1>4. CASE ConstructAbort
  BY <1>4 DEF ConstructAbort, structure, envVars, File
<1>5. ASSUME NEW c \in ElemId, mRoot # NoElem, AddElem(mRoot, c), UNCHANGED envVars
      PROVE  Observing'
  BY <1>5 DEF AddElem, envVars, File
<1>6. CASE Run
  <2>1. Cycle /\ UNCHANGED envVars
    BY <1>6 DEF Run
  <2>. QED  BY <2>1, CycleSteps DEF structure, envVars, File
<1>7. CASE UNCHANGED allVars
  BY <1>7 DEF allVars, vars, envVars, File
<1>. QED  BY <1>2, <1>3, <1>4, <1>5, <1>6, <1>7 DEF EnvNext

\* A cycle leaves an agent alone that has nothing to do and is no owner of an
\* agent that has.
LEMMA CycleElsewhere ==
  ASSUME IInv, Observing, Idle, Cycle, NEW a \in ElemId \ observers
  PROVE  active'[a] = active[a] /\ updated'[a] = updated[a]
<1>. USE DEF IInv, TypeOK
<1>1. active[a] = {} /\ updated[a] = {}
  BY DEF Idle
<1>2. ASSUME NEW e \in ElemId, NEW s, Updating(e, s)
      PROVE  active'[a] = active[a] /\ updated'[a] = updated[a]
  BY <1>1, <1>2 DEF Updating
<1>3. ASSUME NEW e \in ElemId, NEW s, Confirming(e, s)
      PROVE  /\ e \in observers /\ owner[e] = NoElem
             /\ updated'[a] = updated[a]
  BY <1>1, <1>3 DEF Confirming, Idle, Observing, Wired
<1>4. ASSUME NEW e \in ElemId, Update(e)
      PROVE  active'[a] = active[a] /\ updated'[a] = updated[a]
  <2>1. CASE StateChangeAppl_Abort(e)
    BY <2>1 DEF StateChangeAppl_Abort
  <2>. QED  BY <1>2, <1>4, <2>1 DEF Update, StateBmut_Trans, StateChangeSt_Trans,
              StateChangeAppr_Trans, StateChangeAppl_Trans
<1>5. ASSUME NEW e \in ElemId, Confirm(e)
      PROVE  active'[a] = active[a] /\ updated'[a] = updated[a]
  <2>1. CASE StateBmut_Confirm(e)
    BY <1>3, <2>1 DEF StateBmut_Confirm
  <2>2. CASE StateChangeSt_Confirm(e)
    BY <1>3, <2>2 DEF StateChangeSt_Confirm
  <2>3. CASE StateChangeAppr_Confirm(e)
    BY <1>3, <2>3 DEF StateChangeAppr_Confirm, Unanswered
  <2>4. CASE StateChangeAppl_Confirm(e)
    BY <1>3, <2>4 DEF StateChangeAppl_Confirm
  <2>. QED  BY <1>5, <2>1, <2>2, <2>3, <2>4 DEF Confirm
<1>. QED  BY <1>4, <1>5 DEF Cycle

\* All others stay idle.
LEMMA IdleStep == IInv /\ Observing /\ Idle /\ [EnvNext]_allVars => Idle'
<1>. SUFFICES ASSUME IInv, Observing, Idle, [EnvNext]_allVars,
                     NEW a \in ElemId, a \notin observers'
              PROVE  /\ active'[a] = {} /\ updated'[a] = {}
                     /\ chromo'[a] = << >> /\ conf'[a].bmut = Log!Start
  BY DEF Idle, Log!Start
<1>1. a \notin observers
  BY DEF EnvNext, ConstructEmpty, ConstructSystem, Deliver, ConstructAbort, Run, allVars, envVars
<1>2. /\ active[a] = {} /\ updated[a] = {}
      /\ chromo[a] = << >> /\ conf[a].bmut = Log!Start
  BY <1>1 DEF Idle
<1>3. ASSUME NEW e \in ElemId, ConstructEmpty(e) \/ (mRoot # NoElem /\ AddElem(mRoot, e))
      PROVE  UNCHANGED <<active, updated, chromo, conf>>
  BY <1>3 DEF ConstructEmpty, NewElem, AddElem
<1>4. ASSUME NEW e \in ElemId, ConstructSystem(e)
      PROVE  active'[a] = active[a] /\ UNCHANGED <<updated, chromo, conf>>
  <2>1. observers' = observers \cup {e}
    BY <1>4 DEF ConstructSystem, Deliver
  <2>. QED  BY <1>4, <2>1, Delivery DEF ConstructSystem, Observing
<1>5. ASSUME Run
      PROVE  /\ active'[a] = active[a] /\ updated'[a] = updated[a]
             /\ chromo'[a] = chromo[a] /\ conf'[a].bmut = conf[a].bmut
  <2>1. Cycle /\ [Next]_vars
    BY <1>5, CycleSteps DEF Run
  <2>2. active'[a] = active[a] /\ updated'[a] = updated[a]
    BY <1>1, <2>1, CycleElsewhere
  <2>3. conf'[a].bmut = conf[a].bmut
    BY <1>2, <2>1, WalkSteps DEF StateBmut_Confirm, Confirming
  <2>4. chromo'[a] = chromo[a]
    <3>1. ASSUME NEW e \in ElemId, StateChangeAppl_Trans(e) PROVE chromo'[a] = chromo[a]
      BY <1>2, <3>1 DEF StateChangeAppl_Trans, Updating
    <3>. QED  BY <2>1, <3>1, ChromoSteps
  <2>. QED  BY <2>2, <2>3, <2>4
<1>6. CASE ConstructAbort \/ UNCHANGED allVars
  BY <1>2, <1>6 DEF ConstructAbort, allVars, vars
<1>. QED  BY <1>2, <1>3, <1>4, <1>5, <1>6 DEF EnvNext

-----------------------------------------------------------------------------
\* The walk.

\* What an agent does in a cycle, seen from MutLog: nothing, or one step of the
\* walk, which a root agent logs.
LEMMA WalkAbstract ==
  ASSUME IInv, [Next]_vars, NEW e \in ElemId
  PROVE  \/ conf'[e].bmut = conf[e].bmut /\ Applied(e)' = Applied(e)
         \/ /\ inp[e].bmut \in Batches
            /\ conf'[e].bmut = Log!Succ(inp[e].bmut, conf[e].bmut)
            /\ conf'[e].bmut # conf[e].bmut
            /\ isRoot[e] => Applied(e)' = Append(Applied(e), conf'[e].bmut.second)
<1>1. [Log!Next]_(Log!vars)
  BY LogStep
<1>2. ASSUME UNCHANGED Log!vars \/ (\E x \in ElemId : Log!Appoint(x))
             \/ (\E x \in ElemId, b \in Batches : Log!Load(x, b))
      PROVE  conf'[e].bmut = conf[e].bmut /\ Applied(e)' = Applied(e)
  <2>1. /\ [x \in ElemId |-> conf'[x].bmut] = [x \in ElemId |-> conf[x].bmut]
        /\ [x \in ElemId |-> Applied(x)'] = [x \in ElemId |-> Applied(x)]
    BY <1>2 DEF Log!vars, Log!Appoint, Log!Load
  <2>2. /\ [x \in ElemId |-> conf'[x].bmut][e] = [x \in ElemId |-> conf[x].bmut][e]
        /\ [x \in ElemId |-> Applied(x)'][e] = [x \in ElemId |-> Applied(x)][e]
    BY <2>1
  <2>. QED  BY <2>2
<1>3. ASSUME NEW x \in ElemId, Log!Step(x)
      PROVE  \/ conf'[e].bmut = conf[e].bmut /\ Applied(e)' = Applied(e)
             \/ /\ inp[e].bmut \in Batches
                /\ conf'[e].bmut = Log!Succ(inp[e].bmut, conf[e].bmut)
                /\ conf'[e].bmut # conf[e].bmut
                /\ isRoot[e] => Applied(e)' = Append(Applied(e), conf'[e].bmut.second)
  <2>1. /\ inp[x].bmut \in Batches
        /\ Log!Succ(inp[x].bmut, conf[x].bmut) # conf[x].bmut
    BY <1>3 DEF Log!Step
  <2>2. conf'[e].bmut = IF e = x THEN Log!Succ(inp[x].bmut, conf[x].bmut)
                                 ELSE conf[e].bmut
    BY <1>3 DEF Log!Step
  <2>3. conf'[x].bmut = Log!Succ(inp[x].bmut, conf[x].bmut)
    BY <1>3 DEF Log!Step
  <2>4. Applied(e)' = IF e = x /\ isRoot[x]
                        THEN Append(Applied(e), conf'[x].bmut.second)
                        ELSE Applied(e)
    BY <1>3 DEF Log!Step, AppliesItself
  <2>. QED  BY <2>1, <2>2, <2>3, <2>4
<1>. QED  BY <1>1, <1>2, <1>3 DEF Log!Next

\* A step of the walk keeps the log a walk.
LEMMA RoundStep ==
  ASSUME NEW b \in Seq(Mut), NEW pos \in BmutData, NEW log \in Seq(Mut),
         InRound(b, pos, log),
         \A k \in 1 .. Len(log) : IsWalkAt(b, log, k),
         NEW nxt, nxt = Log!Succ(b, pos), nxt # pos,
         NEW log2, log2 = Append(log, nxt.second), nxt.second \in Mut
  PROVE  /\ InRound(b, nxt, log2)
         /\ \A k \in 1 .. Len(log2) : IsWalkAt(b, log2, k)
<1>. DEFINE n == Len(b)
            L == Len(log)
            m == DoneOf(b, pos)
            m2 == DoneOf(b, nxt)
<1>1. /\ n \in Nat /\ L \in Nat
      /\ pos.first \in Int /\ pos.first >= -1
      /\ log2 \in Seq(Mut) /\ Len(log2) = L + 1
      /\ log2[L + 1] = nxt.second
      /\ \A j \in 1 .. L : log2[j] = log[j]
  BY ElemAssumption DEF BmutData
<1>2. b # << >> <=> n > 0
  BY <1>1
<1>3. log # << >> <=> L > 0
  BY <1>1
\* Where the step leads.
<1>4. /\ log2 # << >> /\ n > 0 /\ nxt.first < n
      /\ m2 \in 1 .. n + 1 /\ nxt.second = OfRound(b, m2)
      /\ IF log = << >> \/ pos.first = -1 THEN m2 = 1 ELSE m2 = m + 1
  <2>1. CASE log = << >>
    <3>1. pos.first = -1 /\ pos = [first |-> -1, second |-> NullMut]
      BY <2>1 DEF InRound, Log!Start
    <3>2. n > 0 /\ nxt = [first |-> 0, second |-> b[1]]
      BY <1>1, <3>1 DEF Log!Succ
    <3>. QED  BY <1>1, <2>1, <3>2 DEF DoneOf, OfRound
  <2>2. CASE log # << >> /\ pos.first = -1
    <3>1. n > 0 /\ nxt = [first |-> 0, second |-> b[1]]
      BY <1>1, <1>2, <2>2 DEF Log!Succ, InRound
    <3>. QED  BY <1>1, <2>2, <3>1 DEF DoneOf, OfRound
  <2>3. CASE log # << >> /\ pos.first # -1
    <3>1. n > 0 /\ pos.first < n /\ m = pos.first + 1 /\ m \in 1 .. n
          /\ pos.second = OfRound(b, m)
      BY <1>1, <1>2, <2>3 DEF InRound, DoneOf
    <3>2. CASE m < n
      <4>1. nxt = [first |-> m, second |-> b[m + 1]]
        BY <1>1, <3>1, <3>2 DEF Log!Succ
      <4>. QED  BY <1>1, <2>3, <3>1, <3>2, <4>1 DEF DoneOf, OfRound
    <3>3. CASE m = n
      <4>1. nxt = [first |-> -1, second |-> b[n]]
        BY <1>1, <3>1, <3>3 DEF Log!Succ, OfRound
      <4>. QED  BY <1>1, <2>3, <3>1, <3>3, <4>1 DEF DoneOf, OfRound
    <3>. QED  BY <1>1, <3>1, <3>2, <3>3
  <2>. QED  BY <2>1, <2>2, <2>3
\* The first round, a new round, and the next mutation of a later one.
<1>5. ASSUME NEW k \in Nat, L + 1 - m2 = k,
             \A j \in 1 .. m2 - 1 : log[k + j] = OfRound(b, j),
             k = 0 \/ (k > n /\ \A j \in 1 .. n + 1 : log[k - n - 1 + j] = OfRound(b, j))
      PROVE  /\ InRound(b, nxt, log2)
             /\ \A i \in 1 .. Len(log2) : IsWalkAt(b, log2, i)
  <2>. HIDE DEF m2
  <2>1. m2 \in Int /\ k + m2 = L + 1
    BY <1>1, <1>4, <1>5
  <2>2. RoundAt(b, log2, k, m2)
    <3>. SUFFICES ASSUME NEW j \in 1 .. m2 PROVE log2[k + j] = OfRound(b, j)
      BY DEF RoundAt
    <3>1. CASE j < m2
      <4>1. k + j \in 1 .. L /\ j \in 1 .. m2 - 1
        BY <1>1, <2>1, <3>1
      <4>. QED  BY <1>1, <1>5, <4>1
    <3>2. CASE j = m2
      BY <1>1, <1>4, <2>1, <3>2
    <3>. QED  BY <2>1, <3>1, <3>2
  <2>3. k # 0 => k > n /\ RoundAt(b, log2, k - n - 1, n + 1)
    <3>. SUFFICES ASSUME k # 0, NEW j \in 1 .. n + 1
                  PROVE  k > n /\ log2[k - n - 1 + j] = OfRound(b, j)
      BY <1>5 DEF RoundAt
    <3>1. k > n /\ k - n - 1 + j \in 1 .. L
      BY <1>1, <1>4, <1>5, <2>1
    <3>. QED  BY <1>1, <1>5, <3>1
  <2>4. InRound(b, nxt, log2)
    <3>1. Len(log2) - DoneOf(b, nxt) = k
      BY <1>1, <2>1 DEF m2
    <3>. QED  BY <1>2, <1>4, <2>2, <2>3, <3>1 DEF InRound, m2
  <2>5. ASSUME NEW i \in 1 .. L PROVE IsWalkAt(b, log2, i)
    <3>1. IsWalkAt(b, log, i)
      OBVIOUS
    <3>2. i > n + 1 => i - n - 1 \in 1 .. L
      BY <1>1
    <3>. QED  BY <1>1, <3>1, <3>2 DEF IsWalkAt
  <2>6. IsWalkAt(b, log2, L + 1)
    <3>1. CASE k = 0
      <4>1. L + 1 = m2
        BY <2>1, <3>1
      <4>2. L + 1 <= n + 1
        BY <1>1, <1>4, <4>1
      <4>. QED  BY <1>1, <1>4, <4>1, <4>2 DEF IsWalkAt, OfRound
    <3>2. CASE k # 0
      <4>1. /\ k > n /\ L + 1 > n + 1
            /\ m2 \in 1 .. n + 1
            /\ L + 1 - n - 1 = k - n - 1 + m2
            /\ k - n - 1 + m2 \in 1 .. L
        BY <1>1, <1>4, <1>5, <2>1, <3>2
      <4>2. log[k - n - 1 + m2] = OfRound(b, m2)
        BY <1>5, <3>2, <4>1
      <4>3. log2[L + 1] = log2[L + 1 - n - 1]
        BY <1>1, <1>4, <4>1, <4>2
      <4>. QED  BY <1>1, <4>1, <4>3 DEF IsWalkAt
    <3>. QED  BY <3>1, <3>2
  <2>. QED  BY <1>1, <2>4, <2>5, <2>6
<1>6. CASE log = << >>
  BY <1>1, <1>3, <1>4, <1>5, <1>6
<1>7. CASE log # << >> /\ pos.first = -1
  <2>1. /\ m = n + 1
        /\ L - m = 0 \/ L - m > n
        /\ \A j \in 1 .. m : log[L - m + j] = OfRound(b, j)
    BY <1>1, <1>7 DEF InRound, DoneOf, RoundAt
  <2>2. L \in Nat /\ L + 1 - m2 = L /\ L > n
    BY <1>1, <1>4, <1>7, <2>1
  <2>3. \A j \in 1 .. n + 1 : log[L - n - 1 + j] = OfRound(b, j)
    <3>. SUFFICES ASSUME NEW j \in 1 .. n + 1
                  PROVE  log[L - n - 1 + j] = OfRound(b, j)
      OBVIOUS
    <3>. HIDE DEF m, n, L
    <3>1. j \in 1 .. m /\ L - m + j = L - n - 1 + j
      BY <1>1, <2>1
    <3>. QED  BY <2>1, <3>1
  <2>4. 1 .. m2 - 1 = {}
    BY <1>4, <1>7
  <2>. QED  BY <1>5, <2>2, <2>3, <2>4
<1>8. CASE log # << >> /\ pos.first # -1
  <2>1. /\ m = pos.first + 1 /\ m2 = m + 1
        /\ \A j \in 1 .. m : log[L - m + j] = OfRound(b, j)
        /\ \/ L - m = 0
           \/ /\ L - m > n
              /\ \A j \in 1 .. n + 1 : log[L - m - n - 1 + j] = OfRound(b, j)
    BY <1>1, <1>4, <1>8 DEF InRound, DoneOf, RoundAt
  <2>2. L - m \in Nat /\ L + 1 - m2 = L - m /\ m2 - 1 = m
    <3>. HIDE DEF m, m2, L, n
    <3>1. m \in Int /\ n \in Int /\ L \in Int
      BY <1>1, <2>1
    <3>2. L - m >= 0
      BY <1>1, <2>1, <3>1
    <3>. QED  BY <2>1, <3>1, <3>2
  <2>. QED  BY <1>5, <2>1, <2>2
<1>. QED  BY <1>6, <1>7, <1>8

\* What an agent has applied, and is about to apply, are mutations.
LEMMA AppliedType ==
  ASSUME IInv, NEW e \in ElemId
  PROVE  /\ Applied(e) \in Seq(Mut)
         /\ Len(Applied(e)) >= Len(chromo[e])
         /\ \A k \in 1 .. Len(chromo[e]) : Applied(e)[k] = chromo[e][k]
<1>1. chromo[e] \in Seq(Mut)
  BY DEF IInv, TypeOK
<1>2. ASSUME "St_Appl" \in active[e] PROVE inp[e].applMut.second \in Mut
  <2>1. inp[e].applMut # NoData
    BY <1>2 DEF IInv, DataThere, HasData
  <2>2. inp[e].applMut \in BmutData \cup {NoData}
    BY DEF IInv, TypeOK, InputData
  <2>. QED  BY <2>1, <2>2 DEF BmutData
<1>3. CASE "St_Appl" \in active[e]
  <2>. DEFINE x == inp[e].applMut.second
  <2>1. Applied(e) = chromo[e] \o <<x>> /\ x \in Mut
    BY <1>2, <1>3 DEF Applied
  <2>. HIDE DEF x
  <2>. QED  BY <1>1, <2>1
<1>4. CASE "St_Appl" \notin active[e]
  <2>1. Applied(e) = chromo[e] \o << >>
    BY <1>4 DEF Applied
  <2>. QED  BY <1>1, <2>1
<1>. QED  BY <1>3, <1>4

\* The mutations applied by observers stay the walk.
LEMMA WalkOnStep ==
  IInv /\ IInv' /\ Observing /\ Observing' /\ Idle /\ WalkOn /\ [EnvNext]_allVars => WalkOn'
<1>. SUFFICES ASSUME IInv, IInv', Observing, Observing', Idle, WalkOn, [EnvNext]_allVars,
                     NEW e \in observers'
              PROVE  /\ InRound(File', conf'[e].bmut, Applied(e)')
                     /\ \A k \in 1 .. Len(Applied(e)') : IsWalkAt(File', Applied(e)', k)
  BY DEF WalkOn, InRound, DoneOf, RoundAt, OfRound, IsWalkAt
<1>1. e \in ElemId /\ File' = File
  BY DEF Observing, EnvNext, ConstructEmpty, ConstructSystem, ConstructAbort, Run,
         allVars, envVars, File
<1>2. e \in observers => /\ InRound(File, conf[e].bmut, Applied(e))
                          /\ \A k \in 1 .. Len(Applied(e)) : IsWalkAt(File, Applied(e), k)
  BY DEF WalkOn
<1>3. CASE conf'[e].bmut = conf[e].bmut /\ Applied(e)' = Applied(e) /\ e \in observers
  BY <1>1, <1>2, <1>3
<1>4. ASSUME NEW x \in ElemId, ConstructSystem(x)
      PROVE  conf'[e].bmut = conf[e].bmut /\ Applied(e)' = Applied(e)
  <2>1. chromo' = chromo /\ conf' = conf
    BY <1>4 DEF ConstructSystem
  <2>4. observers \subseteq ElemId
    BY DEF Observing
  <2>2. "St_Appl" \in active'[e] <=> "St_Appl" \in active[e]
    <3>1. \A s : s \in active'[e] <=>
                 s \in active[e] \/ (s = "St_Bmut" /\ e \in observers \cup {x})
      BY <1>1, <1>4, <2>4, Delivery
    <3>. QED  BY <3>1
  <2>3. inp'[e].applMut = inp[e].applMut
    BY <1>1, <1>4, <2>4, Delivery
  <2>. QED  BY <2>1, <2>2, <2>3 DEF Applied
<1>5. CASE e \notin observers
  <2>1. ConstructSystem(e)
    BY <1>5 DEF EnvNext, ConstructEmpty, ConstructSystem, Deliver, ConstructAbort, Run,
                allVars, envVars
  <2>2. conf[e].bmut = Log!Start /\ Applied(e) = << >>
    BY <1>1, <1>5 DEF Idle, Applied
  <2>3. conf'[e].bmut = Log!Start /\ Applied(e)' = << >>
    BY <1>1, <1>4, <2>1, <2>2
  <2>. QED  BY <2>3 DEF InRound
<1>6. ASSUME e \in observers, [Next]_vars
      PROVE  /\ InRound(File', conf'[e].bmut, Applied(e)')
             /\ \A k \in 1 .. Len(Applied(e)') : IsWalkAt(File', Applied(e)', k)
  <2>1. CASE conf'[e].bmut = conf[e].bmut /\ Applied(e)' = Applied(e)
    BY <1>3, <1>6, <2>1
  <2>2. CASE ~(conf'[e].bmut = conf[e].bmut /\ Applied(e)' = Applied(e))
    <3>1. inp[e].bmut = File /\ isRoot[e] /\ File \in Batches
      BY <1>6 DEF Observing
    <3>2. /\ conf'[e].bmut = Log!Succ(File, conf[e].bmut)
          /\ conf'[e].bmut # conf[e].bmut
          /\ Applied(e)' = Append(Applied(e), conf'[e].bmut.second)
      BY <1>1, <1>6, <2>2, <3>1, WalkAbstract
    <3>3. /\ File \in Seq(Mut)
          /\ conf[e].bmut \in BmutData /\ conf'[e].bmut \in BmutData
          /\ conf'[e].bmut.second \in Mut
      BY <1>1, <3>1, ElemAssumption DEF IInv, TypeOK, StateData, BmutData
    <3>4. Applied(e) \in Seq(Mut)
      BY <1>1, AppliedType
    <3>. QED  BY <1>1, <1>2, <1>6, <3>2, <3>3, <3>4, RoundStep
  <2>. QED  BY <2>1, <2>2
<1>7. CASE ConstructAbort /\ e \in observers
  <2>1. conf' = conf /\ Applied(e)' = Applied(e)
    BY <1>7 DEF ConstructAbort, Applied
  <2>. QED  BY <1>3, <1>7, <2>1
<1>. QED  BY <1>3, <1>4, <1>5, <1>6, <1>7, EnvSteps

-----------------------------------------------------------------------------
\* The invariant, and what follows from it.

\* The invariant holds before the environment is constructed.
LEMMA EnvInitially == EnvInit => EnvIInv
<1>. SUFFICES ASSUME EnvInit PROVE EnvIInv
  OBVIOUS
<1>1. IInv
  BY IInvInit DEF EnvInit
<1>2. Observing
  BY DEF EnvInit, Init, Observing
<1>3. Idle
  BY DEF EnvInit, Init, Idle, InitData, Log!Start
<1>4. WalkOn
  BY DEF EnvInit, WalkOn
<1>. QED  BY <1>1, <1>2, <1>3, <1>4 DEF EnvIInv

\* The inductive invariant holds in every reachable state.
THEOREM EnvInvariance == EnvSpec => []EnvIInv
<1>1. EnvIInv /\ [EnvNext]_allVars => EnvIInv'
  BY EnvKeepsElem, ObservingStep, IdleStep, WalkOnStep DEF EnvIInv
<1>. QED  BY <1>1, EnvInitially, PTL DEF EnvSpec

\* Where no chromo was delivered nothing is applied, and where the file cannot
\* be used there is no agent: ConstructSystem fails before it has done anything.
THEOREM NothingIsApplied == EnvSpec => []NothingToApply
<1>1. EnvIInv => NothingToApply
  BY DEF EnvIInv, Idle, Observing, NothingToApply
<1>. QED  BY <1>1, EnvInvariance, PTL

\* The chromo of a root agent is the walk of the file, for every file, however
\* long the agent runs and however often the file is delivered to it.
THEOREM ChromoStaysWalk == EnvSpec => []ChromoIsWalk
<1>1. EnvIInv => ChromoIsWalk
  <2>. SUFFICES ASSUME EnvIInv, NEW e \in observers, NEW k \in 1 .. Len(chromo[e])
                PROVE  IsWalkAt(File, chromo[e], k)
    BY DEF ChromoIsWalk
  <2>1. e \in ElemId /\ chromo[e] \in Seq(Mut) /\ File \in Seq(Mut)
    BY ElemAssumption DEF EnvIInv, Observing, IInv, TypeOK
  <2>2. /\ \A j \in 1 .. Len(chromo[e]) : Applied(e)[j] = chromo[e][j]
        /\ k \in 1 .. Len(Applied(e))
    BY <2>1, AppliedType DEF EnvIInv
  <2>3. IsWalkAt(File, Applied(e), k)
    BY <2>2 DEF EnvIInv, WalkOn
  <2>4. k > Len(File) + 1 => k - Len(File) - 1 \in 1 .. Len(chromo[e])
    BY <2>1
  <2>. QED  BY <2>1, <2>2, <2>3, <2>4 DEF IsWalkAt
<1>. QED  BY <1>1, EnvInvariance, PTL

=============================================================================
