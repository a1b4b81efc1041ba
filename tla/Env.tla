-------------------------------- MODULE Env --------------------------------
(***************************************************************************)
(* The environment (src/src/env.cpp): ConstructSystem reads the chromo the *)
(* path names, creates the root agent and delivers the chromo to it; then  *)
(* the client runs the root agent.  Composes with Elem, whose states do    *)
(* the rest.                                                               *)
(*                                                                         *)
(* Nothing keeps a client from calling ConstructSystem again: it makes     *)
(* another root agent, connects it to the same output, forgets the one     *)
(* before and delivers the chromo to both.  The client delivers no chromo  *)
(* of its own; it may add components to the root.                          *)
(***************************************************************************)
EXTENDS Elem

CONSTANTS
  Paths,        \* what the environment can be created with
  NoPath,       \* the empty path
  Unreadable,   \* content: there is no such file, or it is not XML
  NoRootNode,   \* content: XML whose root element is not a node
  Content,      \* Content[p]: what the file p holds, for a chromo its batch
  MaxEarlier    \* bound: mutations that earlier root agents have applied when
                \* another one is constructed

ASSUME EnvAssumption ==
  /\ NoPath \in Paths
  /\ Unreadable \notin Batches
  /\ NoRootNode \notin Batches
  /\ \A p \in Paths \ {NoPath} :
       Content[p] \in Batches \cup {Unreadable, NoRootNode}

VARIABLES
  mChromoPath,  \* the path the environment was created with
  mRoot,        \* the root agent; NoElem while the pointer is not set
  observers     \* the agents connected to mOutChromo

envVars == <<mChromoPath, mRoot, observers>>

allVars == <<vars, envVars>>

EnvInit ==
  /\ Init
  /\ mChromoPath \in Paths
  /\ mRoot = NoElem
  /\ observers = {}

\* ConstructSystem without a chromo: the root agent is not wired to apply.
ConstructEmpty(e) ==
  /\ mChromoPath = NoPath
  /\ NewElem(e, FALSE)
  /\ mRoot' = e
  /\ UNCHANGED <<mChromoPath, observers>>

\* What the path names.
File == Content[mChromoPath]

\* Slip: the new root agent is connected after the chromo is delivered.
Deliver_Early(e) ==
  /\ observers' = observers \cup {e}
  /\ inp' = [a \in ElemId |-> IF a \in observers THEN [inp[a] EXCEPT !.bmut = File]
                                                ELSE inp[a]]
  /\ active' = [a \in ElemId |-> IF a \in observers THEN active[a] \cup {"St_Bmut"}
                                                   ELSE active[a]]

\* The agent is connected to mOutChromo, and every observer of mOutChromo gets
\* the chromo.
Deliver(e) ==
  /\ observers' = observers \cup {e}
  /\ inp' = [a \in ElemId |-> IF a \in observers' THEN [inp[a] EXCEPT !.bmut = File]
                                                 ELSE inp[a]]
  /\ active' = [a \in ElemId |-> IF a \in observers' THEN active[a] \cup {"St_Bmut"}
                                                    ELSE active[a]]

\* ConstructSystem with a chromo: a root agent.
ConstructSystem(e) ==
  /\ BetweenCycles
  /\ mChromoPath # NoPath /\ File \in Batches
  /\ e \notin elems
  /\ \A a \in observers : Len(chromo[a]) <= MaxEarlier
  /\ elems' = elems \cup {e}
  /\ isRoot' = [isRoot EXCEPT ![e] = TRUE]
  /\ Deliver(e)
  /\ mRoot' = e
  /\ UNCHANGED <<owner, conf, upd, chromo, updated, phase, aborted, mChromoPath>>

\* spec->Set: the document cannot be read.
SetFails == File = Unreadable

\* root.Attr(ENa_Parent): it has no root node to take the attribute from.
AttrFails == File = NoRootNode

\* Slip: the root agent is created before the chromo is looked at.
ConstructAbort_Late ==
  /\ BetweenCycles
  /\ mChromoPath # NoPath /\ (SetFails \/ AttrFails)
  /\ aborted' = TRUE
  /\ elems' = elems \cup {CHOOSE e \in ElemId : TRUE}
  /\ UNCHANGED <<isRoot, owner, conf, upd, inp, chromo, active, updated, phase, envVars>>

\* An assertion fails before the root agent exists.
ConstructAbort ==
  /\ BetweenCycles
  /\ mChromoPath # NoPath /\ (SetFails \/ AttrFails)
  /\ aborted' = TRUE
  /\ UNCHANGED <<structure, conf, upd, inp, chromo, active, updated, phase, envVars>>

\* Root()->Run(): the cycles of desa.  Root agents have nothing in common, so
\* that those of earlier calls may as well go through their cycles with it.
Run == mRoot # NoElem /\ Cycle /\ UNCHANGED envVars

EnvNext ==
  \/ \E e \in ElemId : ConstructEmpty(e) \/ ConstructSystem(e)
  \/ ConstructAbort
  \/ \E c \in ElemId : mRoot # NoElem /\ AddElem(mRoot, c) /\ UNCHANGED envVars
  \/ Run

EnvSpec == EnvInit /\ [][EnvNext]_allVars

\* desa goes on with its cycles as long as a state is active or updated.
EnvFairSpec == EnvSpec /\ WF_allVars(Run)

-----------------------------------------------------------------------------
\* Properties.

\* The chromo of e starts with the mutations of the file, or at least with the
\* first if desa does not step St_Bmut of e again.
HasApplied(e) ==
  \A k \in 1 .. Len(File) :
    SelfStep[e] \/ k = 1 => k <= Len(chromo[e]) /\ chromo[e][k] = File[k]

\* A chromo that has been delivered is applied: if desa steps St_Bmut after each
\* of its changes all mutations end up in the chromo of the root agent, in order
\* and before anything else, and if it does not, the first of them; unless one
\* of them aborts the process or another root agent takes its place (the client
\* need not run the one before any more).
BatchApplied ==
  \A e \in ElemId :
    e \in observers ~> \/ aborted
                       \/ mRoot # e
                       \/ e \in observers /\ HasApplied(e)

\* The k-th mutation of a log is that of an endless walk through the batch b:
\* first the batch, then its last mutation again (the step to -1 changes the
\* value of St_Bmut, which applies it once more), and so round after round.
IsWalkAt(b, log, k) ==
  LET n == Len(b)
  IN  log[k] = IF k <= n THEN b[k] ELSE IF k = n + 1 THEN b[n] ELSE log[k - n - 1]

\* The chromo of a root agent is exactly that walk, as far as it has gone,
\* however often ConstructSystem delivers the chromo to it again.
ChromoIsWalk ==
  \A e \in observers : \A k \in 1 .. Len(chromo[e]) : IsWalkAt(File, chromo[e], k)

\* A process that was given no chromo, or none that it can read, applies
\* nothing, and in the second case has no root agent to run.
NothingToApply ==
  observers = {} => /\ \A e \in ElemId : chromo[e] = << >> /\ active[e] = {}
                    /\ mChromoPath # NoPath => elems = {}

\* "State data is the counter of muations applied.  Count value -1 indicates
\* that all mutations are applied" (StateBmut): at -1 the mutations handed to
\* St_Appl are those of the batch.
AllAppliedAtEnd ==
  \A e \in observers :
    conf[e].bmut.first = -1 /\ Applied(e) # << >> => Applied(e) = File

-----------------------------------------------------------------------------
\* The inductive invariant behind the safety properties, on top of IInv of Elem.

\* Observers are root agents that have the file, if there is one, and then any
\* agent is an observer or a component of one.
Observing ==
  /\ observers \subseteq ElemId
  /\ \A e \in observers : isRoot[e] /\ inp[e].bmut = File
  /\ observers # {} => mChromoPath # NoPath /\ File \in Batches
  /\ mRoot \in elems \cup {NoElem}
  /\ mChromoPath # NoPath /\ elems # {} => observers # {}

\* All others have nothing to do.
Idle ==
  \A e \in ElemId \ observers :
    /\ active[e] = {} /\ updated[e] = {}
    /\ chromo[e] = << >>
    /\ conf[e].bmut = Log!Start

\* The j-th mutation of a round through the batch b.
OfRound(b, j) == b[IF j <= Len(b) THEN j ELSE Len(b)]

\* How many mutations of the round have been handed over at the position pos.
DoneOf(b, pos) == IF pos.first = -1 THEN Len(b) + 1 ELSE pos.first + 1

\* In the log, the m mutations from behind k on are the first m of a round.
RoundAt(b, log, k, m) == \A j \in 1 .. m : log[k + j] = OfRound(b, j)

\* The log ends with what is done of this round and, before that, the round
\* before, if there was one.
InRound(b, pos, log) ==
  LET m == DoneOf(b, pos)
      k == Len(log) - m
  IN  IF log = << >>
        THEN pos = Log!Start
        ELSE /\ b # << >>
             /\ pos.first < Len(b)
             /\ pos.second = OfRound(b, m)
             /\ RoundAt(b, log, k, m)
             /\ \/ k = 0      \* the first round
                \/ k > Len(b) /\ RoundAt(b, log, k - Len(b) - 1, Len(b) + 1)

\* The mutations applied, with the one on its way to St_Appl, are the walk.
WalkOn ==
  \A e \in observers :
    /\ InRound(File, conf[e].bmut, Applied(e))
    /\ \A k \in 1 .. Len(Applied(e)) : IsWalkAt(File, Applied(e), k)

EnvIInv ==
  /\ IInv
  /\ Observing
  /\ Idle
  /\ WalkOn

=============================================================================
