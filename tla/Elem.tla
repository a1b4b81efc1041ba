-------------------------------- MODULE Elem --------------------------------
(***************************************************************************)
(* The agent of the framework (src/src/elem.cpp) as the discrete event     *)
(* system it is built as.  An Elem owns four states that compute           *)
(*                                                                         *)
(*   St_Bmut  walks the batch of mutations on input Inp_BMut               *)
(*   St_Chg   turns a proposed mutation into a change status for the owner *)
(*   St_Appr  answers the change status of the components                  *)
(*   St_Appl  applies a mutation: appends it to the agent's chromo         *)
(*                                                                         *)
(* (St_True is a constant with a dangling output and is left out.)  The    *)
(* root agent has St_Bmut wired to St_Appl, every other agent has it wired *)
(* to St_Chg, whose output goes to the owner's St_Appr; the output of the  *)
(* owner's St_Appr goes to the St_Appl of every component.                 *)
(*                                                                         *)
(* The states run on the library desa, which is not part of the            *)
(* repository: TState, StateInput, System and Connect are modelled from    *)
(* their use here and marked external.  A cycle updates every active state *)
(* (its Trans computes mUpd from mConf and the input buffers), then        *)
(* confirms every updated state: mUpd becomes mConf and, if it differs, is *)
(* delivered to the connected inputs, whose states become active.          *)
(***************************************************************************)
EXTENDS Integers, Sequences

CONSTANTS
  ElemId,     \* agents that can exist
  Name,       \* values of an id attribute
  NoName,     \* the empty one, which also stands for a missing attribute
  NoElem,     \* "no owner"
  NoData,     \* "no entry in Data()": an input that never received a value
  Batches,    \* the chromos a client can deliver, each the sequence of the
              \* mutations under its root node
  MaxBatch,   \* bound: length of a batch
  MaxChromo,  \* bound: mutations an agent's chromo can hold
  SelfStep    \* SelfStep[e]: does desa step St_Bmut of e again after its value
              \* changed, which no connection asks for, or only when it receives
              \* a chromo?  Unknown; for each agent, so that an instance has both

NodeType == {"ENt_Unknown", "ENt_Node", "ENt_Move", "ENt_Rm", "ENt_Rename",
             "ENt_Cont", "ENt_Import"}

TAChange == {"EAc_None", "EAc_Add", "EAc_Rm", "EAc_Content", "EAc_Change"}

\* What Uri::Parse makes of the text of a parent attribute: no units at all,
\* units behind a relation symbol, the error ".." or the end of the program,
\* by the assertion on a name without a relation symbol or by an offset that is
\* out of range (module Uri).
UriForm == {"empty", "anchored", "upper", "failing"}

\* A mutation: its type, and of its attributes the name and the parent.
Mut == [type : NodeType, id : Name, parent : UriForm]

NullMut == [type |-> "ENt_Unknown", id |-> NoName, parent |-> "empty"]

\* The data of St_Bmut: counter and current mutation.
BmutData == [first : -1 .. MaxBatch - 1, second : Mut]

State == {"St_Bmut", "St_Chg", "St_Appr", "St_Appl"}

ASSUME ElemAssumption ==
  /\ NoElem \notin ElemId
  /\ NoName \in Name
  /\ MaxBatch \in Nat
  /\ MaxChromo \in Nat
  /\ SelfStep \in [ElemId -> BOOLEAN]
  /\ \A b \in Batches : b \in Seq(Mut) /\ Len(b) <= MaxBatch
  /\ NoData \notin Batches
  /\ NoData \notin Mut
  /\ NoData \notin BmutData
  /\ NoData \notin TAChange
  /\ NoData \notin BOOLEAN

VARIABLES
  elems,      \* the agents that have been created
  isRoot,     \* isRoot[e]: the aIsRoot that e was created with
  owner,      \* owner[e]: the agent that e is a component of
  conf,       \* conf[e]: mConf of the states of e
  upd,        \* upd[e]: mUpd of the states of e
  inp,        \* inp[e]: what the inputs of the states of e have received
  chromo,     \* chromo[e]: the mutations under the root of mChromo of e
  active,     \* active[e]: states of e to be updated
  updated,    \* updated[e]: states of e updated and not yet confirmed
  phase,      \* "update" or "confirm"
  aborted     \* an assertion failed: the process is gone

vars == <<elems, isRoot, owner, conf, upd, inp, chromo, active, updated,
          phase, aborted>>

structure == <<elems, isRoot, owner>>

-----------------------------------------------------------------------------

StateData == [bmut : BmutData, chg : TAChange, appr : BOOLEAN, appl : UriForm]

InputData == [bmut    : Batches \cup {NoData},
              chgMut  : BmutData \cup {NoData},
              change  : [ElemId -> TAChange \cup {NoData}],
              applMut : BmutData \cup {NoData},
              appr    : BOOLEAN \cup {NoData}]

\* The initial values of the states, and inputs that have received nothing.
InitData == [bmut |-> [first |-> -1, second |-> NullMut],
             chg  |-> "EAc_None",
             appr |-> FALSE,
             appl |-> "empty"]

NoInput == [bmut    |-> NoData,
            chgMut  |-> NoData,
            change  |-> [e \in ElemId |-> NoData],
            applMut |-> NoData,
            appr    |-> NoData]

Init ==
  /\ elems   = {}
  /\ isRoot  = [e \in ElemId |-> FALSE]
  /\ owner   = [e \in ElemId |-> NoElem]
  /\ conf    = [e \in ElemId |-> InitData]
  /\ upd     = [e \in ElemId |-> InitData]
  /\ inp     = [e \in ElemId |-> NoInput]
  /\ chromo  = [e \in ElemId |-> << >>]
  /\ active  = [e \in ElemId |-> {}]
  /\ updated = [e \in ElemId |-> {}]
  /\ phase   = "update"
  /\ aborted = FALSE

\* Slip: every agent is wired like the root.
AppliesItself_Always(e) == e \in elems

\* St_Bmut is wired to St_Appl in a root agent, to St_Chg elsewhere.
AppliesItself(e) == isRoot[e]

\* Does the approval input of St_Appl have an approver behind it?
IsConnected(e) == owner[e] # NoElem

\* No state has been updated yet in this cycle.
BetweenCycles ==
  /\ ~aborted
  /\ phase = "update"
  /\ \A e \in ElemId : updated[e] = {}

-----------------------------------------------------------------------------
\* Calls of the client, made while the system is not in a cycle.

\* new Elem(name, env, aIsRoot): the states are created and wired, the chromo
\* is initialised with an empty root node.
NewElem(e, aIsRoot) ==
  /\ BetweenCycles
  /\ e \notin elems
  /\ elems' = elems \cup {e}
  /\ isRoot' = [isRoot EXCEPT ![e] = aIsRoot]
  /\ UNCHANGED <<owner, conf, upd, inp, chromo, active, updated, phase, aborted>>

\* AddElem on agent e: component c is created, its Out_Chg connected to
\* Inp_CompChg of e and Out_Chg_Appr of e to its Inp_Appr.
AddElem(e, c) ==
  /\ BetweenCycles
  /\ e \in elems
  /\ c \in ElemId \ elems
  /\ elems' = elems \cup {c}
  /\ owner' = [owner EXCEPT ![c] = e]
  /\ UNCHANGED <<isRoot, conf, upd, inp, chromo, active, updated, phase, aborted>>

\* AddElem with a mutation that does not add a node: the assertion fails.
AddElemAbort(e) ==
  /\ BetweenCycles
  /\ e \in elems
  /\ aborted' = TRUE
  /\ UNCHANGED <<elems, isRoot, owner, conf, upd, inp, chromo, active, updated, phase>>

\* A chromo is delivered on Inp_BMut: St_Bmut keeps it and becomes active.
OnChromo(e, b) ==
  /\ BetweenCycles
  /\ e \in elems
  /\ inp' = [inp EXCEPT ![e].bmut = b]
  /\ active' = [active EXCEPT ![e] = @ \cup {"St_Bmut"}]
  /\ UNCHANGED <<elems, isRoot, owner, conf, upd, chromo, updated, phase, aborted>>

-----------------------------------------------------------------------------
\* The cycle of desa, as far as the states of Elem depend on it.

\* The input whose value state s of e works on has an entry.
HasData(e, s) ==
  CASE s = "St_Bmut" -> inp[e].bmut # NoData
    [] s = "St_Chg"  -> inp[e].chgMut # NoData
    [] s = "St_Appr" -> \E c \in ElemId : inp[e].change[c] # NoData
    [] s = "St_Appl" -> inp[e].applMut # NoData

\* Every input that Trans of state s of e dereferences without looking has an
\* entry: St_Appl also reads its approval, connected or not.
HasInput(e, s) == HasData(e, s) /\ (s = "St_Appl" => inp[e].appr # NoData)

\* Slip: confirmation does not wait for the other active states.
Updating_NoBarrier(e, s) ==
  /\ ~aborted
  /\ s \in active[e]
  /\ HasData(e, s)
  /\ active' = [active EXCEPT ![e] = @ \ {s}]
  /\ updated' = [updated EXCEPT ![e] = @ \cup {s}]
  /\ phase' = "confirm"

\* Trans of state s of e runs.  To work on an empty input is undefined and has
\* no step here, as no run gets there (EmptyReadHarmless).  What St_Appl reads
\* from an empty approval input is arbitrary (Approvals).
Updating(e, s) ==
  /\ ~aborted
  /\ phase = "update"
  /\ s \in active[e]
  /\ HasData(e, s)
  /\ active' = [active EXCEPT ![e] = @ \ {s}]
  /\ updated' = [updated EXCEPT ![e] = @ \cup {s}]
  /\ phase' = IF \A a \in ElemId : active'[a] = {} THEN "confirm" ELSE "update"

\* State s of e is confirmed; after the last one the next cycle starts.
Confirming(e, s) ==
  /\ ~aborted
  /\ phase = "confirm"
  /\ s \in updated[e]
  /\ updated' = [updated EXCEPT ![e] = @ \ {s}]
  /\ phase' = IF \A a \in ElemId : updated'[a] = {} THEN "update" ELSE "confirm"

-----------------------------------------------------------------------------
\* The states of Elem: one Trans each.

\* ChromoNode::At: the child of the root node at an index, or the null node.
At(b, i) == IF i < Len(b) THEN b[i + 1] ELSE NoData

\* Slip: past the last mutation the walk starts over at once.
StateBmut_Wraps(e) ==
  /\ Updating(e, "St_Bmut")
  /\ LET cnt == conf[e].bmut.first + 1
         mut == At(inp[e].bmut, cnt)
     IN  upd' = [upd EXCEPT ![e].bmut =
                   IF mut = NoData THEN [@ EXCEPT !.first = 0]
                                   ELSE [first |-> cnt, second |-> mut]]
  /\ UNCHANGED <<structure, conf, inp, chromo, aborted>>

\* Slip: past the last mutation the counter goes on.
StateBmut_NoEnd(e) ==
  /\ Updating(e, "St_Bmut")
  /\ LET cnt == conf[e].bmut.first + 1
         mut == At(inp[e].bmut, cnt)
     IN  upd' = [upd EXCEPT ![e].bmut =
                   IF mut = NoData THEN [@ EXCEPT !.first = cnt]
                                   ELSE [first |-> cnt, second |-> mut]]
  /\ UNCHANGED <<structure, conf, inp, chromo, aborted>>

\* St_Bmut: on to the next mutation.  Past the last one the counter becomes
\* -1 and the mutation stays.
StateBmut_Trans(e) ==
  /\ Updating(e, "St_Bmut")
  /\ LET cnt == IF conf[e].bmut.first = -1 THEN 0 ELSE conf[e].bmut.first + 1
         mut == At(inp[e].bmut, cnt)
     IN  upd' = [upd EXCEPT ![e].bmut =
                   IF mut = NoData THEN [@ EXCEPT !.first = -1]
                                   ELSE [first |-> cnt, second |-> mut]]
  /\ UNCHANGED <<structure, conf, inp, chromo, aborted>>

\* The status of a proposed mutation of type t, or the old one if the code
\* has none for t.
ChangeStatus(t, old) ==
  CASE t = "ENt_Node" -> "EAc_Add"
    [] t = "ENt_Rm"   -> "EAc_Rm"
    [] t = "ENt_Cont" -> "EAc_Content"
    [] OTHER          -> old

\* St_Chg: the status of the mutation proposed to the owner.
StateChangeSt_Trans(e) ==
  /\ Updating(e, "St_Chg")
  /\ upd' = [upd EXCEPT ![e].chg = ChangeStatus(inp[e].chgMut.second.type, @)]
  /\ UNCHANGED <<structure, conf, inp, chromo, aborted>>

\* St_Appr: whatever a component proposes, the answer is no.
StateChangeAppr_Trans(e) ==
  /\ Updating(e, "St_Appr")
  /\ upd' = [upd EXCEPT ![e].appr = FALSE]
  /\ UNCHANGED <<structure, conf, inp, chromo, aborted>>

\* Is the mutation that St_Appl of e has received taken as approved?  Where the
\* approval input has received nothing the value read is arbitrary.
Approvals(e) ==
  {answer \/ ~IsConnected(e) :
     answer \in IF inp[e].appr = NoData THEN BOOLEAN ELSE {inp[e].appr}}

\* Slip: only the mutations that set the state go to the chromo.
StateChangeAppl_NodesOnly(e) ==
  /\ Len(chromo[e]) < MaxChromo
  /\ Updating(e, "St_Appl")
  /\ LET mut == inp[e].applMut.second
     IN  \E approved \in Approvals(e) :
           IF approved /\ mut.type = "ENt_Node"
             THEN /\ mut.parent # "failing"
                  /\ upd' = [upd EXCEPT ![e].appl = mut.parent]
                  /\ chromo' = [chromo EXCEPT ![e] = Append(@, mut)]
             ELSE UNCHANGED <<upd, chromo>>
  /\ UNCHANGED <<structure, conf, inp, aborted>>

\* St_Appl, the parent parsed: the state becomes the parent of an approved node
\* to add, and the mutation, approved or not, goes to the chromo.
StateChangeAppl_Trans(e) ==
  /\ Len(chromo[e]) < MaxChromo
  /\ Updating(e, "St_Appl")
  /\ LET mut == inp[e].applMut.second
     IN  /\ \E approved \in Approvals(e) :
              IF approved /\ mut.type = "ENt_Node"
                THEN /\ mut.parent # "failing"
                     /\ upd' = [upd EXCEPT ![e].appl = mut.parent]
                ELSE upd' = upd
         /\ chromo' = [chromo EXCEPT ![e] = Append(@, mut)]
  /\ UNCHANGED <<structure, conf, inp, aborted>>

\* St_Appl, the parent does not parse: the assertion in Uri::getRel fails or
\* substr throws what nobody catches.
StateChangeAppl_Abort(e) ==
  /\ ~aborted
  /\ phase = "update"
  /\ "St_Appl" \in active[e]
  /\ HasData(e, "St_Appl")
  /\ TRUE \in Approvals(e)
  /\ inp[e].applMut.second.type = "ENt_Node"
  /\ inp[e].applMut.second.parent = "failing"
  /\ aborted' = TRUE
  /\ UNCHANGED <<structure, conf, upd, inp, chromo, active, updated, phase>>

-----------------------------------------------------------------------------
\* Confirmation: what the wiring of Elem delivers when a value has changed.

\* St_Bmut to St_Appl in the root agent, to St_Chg in the others.
StateBmut_Confirm(e) ==
  /\ Confirming(e, "St_Bmut")
  /\ conf' = [conf EXCEPT ![e].bmut = upd[e].bmut]
  /\ IF upd[e].bmut = conf[e].bmut
       THEN UNCHANGED <<inp, active>>
       ELSE LET dest == IF AppliesItself(e) THEN "St_Appl" ELSE "St_Chg"
                self == IF SelfStep[e] THEN {"St_Bmut"} ELSE {}
            IN  /\ inp' = IF AppliesItself(e)
                            THEN [inp EXCEPT ![e].applMut = upd[e].bmut]
                            ELSE [inp EXCEPT ![e].chgMut = upd[e].bmut]
                /\ active' = [active EXCEPT ![e] = @ \cup {dest} \cup self]
  /\ UNCHANGED <<structure, upd, chromo, aborted>>

\* Slip: the value is delivered before it is replaced.
StateChangeSt_ConfirmOld(e) ==
  /\ Confirming(e, "St_Chg")
  /\ conf' = [conf EXCEPT ![e].chg = upd[e].chg]
  /\ IF upd[e].chg = conf[e].chg \/ owner[e] = NoElem
       THEN UNCHANGED <<inp, active>>
       ELSE /\ inp' = [inp EXCEPT ![owner[e]].change[e] = conf[e].chg]
            /\ active' = [active EXCEPT ![owner[e]] = @ \cup {"St_Appr"}]
  /\ UNCHANGED <<structure, upd, chromo, aborted>>

\* St_Chg by Out_Chg to Inp_CompChg of the owner and its St_Appr.
StateChangeSt_Confirm(e) ==
  /\ Confirming(e, "St_Chg")
  /\ conf' = [conf EXCEPT ![e].chg = upd[e].chg]
  /\ IF upd[e].chg = conf[e].chg \/ owner[e] = NoElem
       THEN UNCHANGED <<inp, active>>
       ELSE /\ inp' = [inp EXCEPT ![owner[e]].change[e] = upd[e].chg]
            /\ active' = [active EXCEPT ![owner[e]] = @ \cup {"St_Appr"}]
  /\ UNCHANGED <<structure, upd, chromo, aborted>>

\* St_Appr by Out_Chg_Appr to Inp_Appr of every component and its St_Appl.
StateChangeAppr_Confirm(e) ==
  /\ Confirming(e, "St_Appr")
  /\ conf' = [conf EXCEPT ![e].appr = upd[e].appr]
  /\ IF upd[e].appr = conf[e].appr
       THEN UNCHANGED <<inp, active>>
       ELSE /\ inp' = [c \in ElemId |->
                          IF owner[c] = e
                            THEN [inp[c] EXCEPT !.appr = upd[e].appr]
                            ELSE inp[c]]
            /\ active' = [c \in ElemId |->
                             IF owner[c] = e THEN active[c] \cup {"St_Appl"}
                                             ELSE active[c]]
  /\ UNCHANGED <<structure, upd, chromo, aborted>>

\* The output of St_Appl is dangling.
StateChangeAppl_Confirm(e) ==
  /\ Confirming(e, "St_Appl")
  /\ conf' = [conf EXCEPT ![e].appl = upd[e].appl]
  /\ UNCHANGED <<structure, upd, inp, chromo, active, aborted>>

-----------------------------------------------------------------------------

Update(e) ==
  \/ StateBmut_Trans(e)
  \/ StateChangeSt_Trans(e)
  \/ StateChangeAppr_Trans(e)
  \/ StateChangeAppl_Trans(e)
  \/ StateChangeAppl_Abort(e)

Confirm(e) ==
  \/ StateBmut_Confirm(e)
  \/ StateChangeSt_Confirm(e)
  \/ StateChangeAppr_Confirm(e)
  \/ StateChangeAppl_Confirm(e)

\* What desa does on its own, and what the client does.
Cycle == \E e \in ElemId : Update(e) \/ Confirm(e)

Client ==
  \/ \E e \in ElemId, aIsRoot \in BOOLEAN : NewElem(e, aIsRoot)
  \/ \E e, c \in ElemId : AddElem(e, c)
  \/ \E e \in ElemId : AddElemAbort(e)
  \/ \E e \in ElemId, b \in Batches : OnChromo(e, b)

Next == Cycle \/ Client

Spec == Init /\ [][Next]_vars

-----------------------------------------------------------------------------
\* Properties.

\* Types.  The counter of St_Bmut never leaves the batch it was taken from for
\* more than one step, whatever batch replaces the one being walked.
TypeOK ==
  /\ elems \in SUBSET ElemId
  /\ isRoot \in [ElemId -> BOOLEAN]
  /\ owner \in [ElemId -> ElemId \cup {NoElem}]
  /\ conf \in [ElemId -> StateData]
  /\ upd \in [ElemId -> StateData]
  /\ inp \in [ElemId -> InputData]
  /\ chromo \in [ElemId -> Seq(Mut)]
  /\ active \in [ElemId -> SUBSET State]
  /\ updated \in [ElemId -> SUBSET State]
  /\ phase \in {"update", "confirm"}
  /\ aborted \in BOOLEAN

\* Every Trans dereferences Data().begin() without looking.  The only input that
\* is ever empty then is the approval of an agent without an owner, of whom the
\* value read is not asked: whatever it is, the mutation counts as approved.
EmptyReadHarmless ==
  \A e \in ElemId : \A s \in active[e] :
    \/ HasInput(e, s)
    \/ s = "St_Appl" /\ HasData(e, s) /\ Approvals(e) = {TRUE}

\* A component only proposes mutations to its owner, and as the owner's
\* St_Appr approves none, the component's own chromo never changes.
ComponentsFrozen == \A e \in ElemId : owner[e] # NoElem => chromo[e] = << >>

\* What the owner has received from a component is the status the component's
\* St_Chg has confirmed last: no status is lost, none arrives out of order.
OwnerInSync ==
  \A e, c \in ElemId :
    inp[e].change[c] = IF owner[c] = e /\ conf[c].chg # "EAc_None"
                         THEN conf[c].chg
                         ELSE NoData

\* A mutation handed from St_Bmut to St_Appl or St_Chg is used before the next
\* one overwrites it, although St_Bmut does not wait for either.
NoOverwrite ==
  [][\A e \in ElemId :
       /\ inp'[e].applMut # inp[e].applMut => "St_Appl" \notin active[e]
       /\ inp'[e].chgMut # inp[e].chgMut => "St_Chg" \notin active[e]]_vars

\* The chromo of an agent together with the mutation on its way to St_Appl is
\* the log of the walk through its batches, in order and without gaps: Elem
\* implements MutLog.
Applied(e) ==
  chromo[e] \o IF "St_Appl" \in active[e] THEN <<inp[e].applMut.second>> ELSE << >>

Log == INSTANCE MutLog WITH
         NoBatch <- NoData,
         applies <- [e \in ElemId |-> AppliesItself(e)],
         batch   <- [e \in ElemId |-> inp[e].bmut],
         at      <- [e \in ElemId |-> conf[e].bmut],
         log     <- [e \in ElemId |-> Applied(e)]

LogSpec == Log!Spec

\* "Generates status of change from proposed mutation" (StateChangeSt): when
\* St_Chg has dealt with a proposal, its value EAc_Add stands for a node to add.
StatusOfProposal ==
  \A e \in ElemId :
    (/\ inp[e].chgMut # NoData
     /\ {"St_Chg"} \cap (active[e] \cup updated[e]) = {}
     /\ conf[e].chg = "EAc_Add")
      => inp[e].chgMut.second.type = "ENt_Node"

-----------------------------------------------------------------------------
\* The inductive invariant behind the properties, in named parts.

\* Root agents have no owner; agents in an owner relation exist.
Wired ==
  \A e \in ElemId :
    /\ isRoot[e] => e \in elems /\ owner[e] = NoElem
    /\ owner[e] # NoElem => e \in elems /\ owner[e] \in elems

\* A state that is active has got a value to work on.
DataThere == \A e \in ElemId : \A s \in active[e] : HasData(e, s)

\* An agent that does not exist has no data and no work.
Inert ==
  \A e \in ElemId \ elems :
    /\ active[e] = {}
    /\ updated[e] = {}
    /\ conf[e].chg = "EAc_None"
    /\ inp[e].bmut = NoData

\* St_Appr never changes, so no component ever receives an answer.
Unanswered ==
  \A e \in ElemId :
    /\ conf[e].appr = FALSE
    /\ upd[e].appr = FALSE
    /\ inp[e].appr = NoData

\* Only root agents have work for St_Appl, or mutations in their chromo.
OnlyRootsApply ==
  \A e \in ElemId : "St_Appl" \in active[e] \/ chromo[e] # << >> => isRoot[e]

\* A status never goes back to EAc_None.
StatusKept ==
  \A e \in ElemId : upd[e].chg = "EAc_None" => conf[e].chg = "EAc_None"

\* No state is updated twice in a cycle, and while St_Bmut waits to be
\* confirmed, nothing it delivered before is still unread.
InPhase ==
  \A e \in ElemId :
    /\ phase = "update" => active[e] \cap updated[e] = {}
    /\ phase = "confirm" /\ "St_Bmut" \in updated[e]
         => "St_Appl" \notin active[e] /\ "St_Chg" \notin active[e]

\* What St_Bmut is about to become is the next step of its walk.
Walking ==
  \A e \in ElemId :
    IF "St_Bmut" \in updated[e]
      THEN /\ inp[e].bmut \in Batches
           /\ upd[e].bmut = Log!Succ(inp[e].bmut, conf[e].bmut)
      ELSE upd[e].bmut = conf[e].bmut

\* Together: inductive, and strong enough for every property above.
IInv ==
  /\ TypeOK
  /\ Wired
  /\ Inert
  /\ Unanswered
  /\ OnlyRootsApply
  /\ DataThere
  /\ StatusKept
  /\ OwnerInSync
  /\ InPhase
  /\ Walking

=============================================================================
