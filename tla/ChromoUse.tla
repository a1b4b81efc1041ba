------------------------------ MODULE ChromoUse ------------------------------
(***************************************************************************)
(* The chromos of a running system: how env.cpp and elem.cpp use ChromoX.  *)
(* ConstructSystem creates a chromo, reads the file into it and delivers   *)
(* it; it keeps the pointer in a local variable only and does not delete   *)
(* what it points to.  desa keeps a copy in the data of the input it is    *)
(* delivered to, and that copy refers to the model of the chromo that is   *)
(* lost.  Every agent creates the chromo it appends mutations to, and      *)
(* deletes it.                                                             *)
(***************************************************************************)
EXTENDS ChromoX

VARIABLE
  role   \* role[o]: what the chromo o is for, and how far its making has come

\* An agent's own chromo, made and initialised; that of ConstructSystem, made,
\* set from the file, read and, after the call, lost; the data of an input.
Role == {"none", "elem0", "elem", "spec0", "spec", "ready", "lost", "data0", "data"}

useVars == <<vars, role>>

Becomes(o, r) == role' = [role EXCEPT ![o] = r]

UseInit == DocInit /\ role = [o \in Obj |-> "none"]

\* ProvDef::CreateChromo for the constructor of Elem and for ConstructSystem.
CreateChromo(o, r) == New(o) /\ Becomes(o, r)

\* The constructor of Elem initialises its chromo.
InitElem(o, d) == role[o] = "elem0" /\ Init(o, d) /\ Becomes(o, "elem")

\* ConstructSystem sets its chromo from the file, which may hold no node, ...
SetSpec(o, d, hasRoot) ==
  role[o] = "spec0" /\ Set(o, d, hasRoot, FALSE) /\ Becomes(o, "spec")

SetSpecAbort(o) == role[o] = "spec0" /\ SetAbort(o) /\ UNCHANGED role

\* ... and reads the parent attribute of its root.
ReadSpec(o) == role[o] = "spec" /\ UseRoot(o) /\ Becomes(o, "ready")

\* desa keeps what it is delivered: a new copy, or an assignment to a chromo it
\* has made before, or to the one from the last delivery.
Deliver(o, c) ==
  /\ role[o] = "ready"
  /\ \/ Copy(o, c)
     \/ role[c] \in {"data0", "data"} /\ Assign(o, c)
  /\ Becomes(c, "data")

\* ConstructSystem returns, with a path or without one: nothing points to its
\* chromo any more.
Forget(o) ==
  /\ ~aborted /\ ~undefined
  /\ role[o] \in {"spec0", "ready"}
  /\ Becomes(o, "lost")
  /\ UNCHANGED vars

NewData(c) == New(c) /\ Becomes(c, "data0")

\* The states of an agent read the delivered chromo (At) and append to its own.
Work(o) == role[o] \in {"elem", "data"} /\ UseRoot(o) /\ UNCHANGED role

\* A client saves or prints the chromo of an agent.
Save(o, withDoc) == role[o] = "elem" /\ Write(o, withDoc) /\ UNCHANGED role

\* Slip: the chromo that ConstructSystem has made is deleted, too.
Delete_Spec(o) == Destroy(o) /\ Becomes(o, "none")

\* An agent is deleted, and with it its chromo and the data of its inputs.
Delete(o) == role[o] \in {"elem", "data"} /\ Destroy(o) /\ Becomes(o, "none")

UseNext ==
  \E o \in Obj :
    \/ \E r \in {"elem0", "spec0"} : CreateChromo(o, r)
    \/ NewData(o)
    \/ \E d \in Doc : InitElem(o, d)
    \/ \E d \in Doc, hasRoot \in BOOLEAN : SetSpec(o, d, hasRoot)
    \/ SetSpecAbort(o)
    \/ ReadSpec(o)
    \/ \E c \in Obj : Deliver(o, c)
    \/ Forget(o)
    \/ Work(o)
    \/ \E withDoc \in BOOLEAN : Save(o, withDoc)
    \/ Delete(o)

UseSpec == UseInit /\ [][UseNext]_useVars

-----------------------------------------------------------------------------
\* Properties.

\* The program keeps to the rules of ChromoX, although its copies share one
\* document: the chromo that is copied does not own it, and since nobody has
\* a pointer to it, it outlives the copies that refer to its model.
KeepsRules == sound /\ ~undefined

\* The nodes the states of an agent work on are there, and so is the model.
RootsUsable ==
  ~aborted => \A o \in objs :
    role[o] \in {"elem", "data"} =>
      /\ rootDoc[o] # NoDoc /\ heap[rootDoc[o]] = "live"
      /\ rootMdl[o] \in objs

\* Does the document of o stay until o is deleted, or for ever?  The chromo of
\* an agent frees its own.  That of ConstructSystem frees none, and after the
\* call ("lost") nothing can delete it: it leaks, with the document it has.
Keeps(o) == iDocOwned[o] \/ role[o] \in {"spec", "ready", "lost"}

\* What leaks are the chromos of ConstructSystem, with one document each, and
\* nothing else: a document that is not freed has one chromo to account for it,
\* that of the agent who frees it or that of one call of ConstructSystem.
LeaksOnlyFiles ==
  \A d \in Doc : heap[d] = "live" =>
    \E o \in objs : \A p \in objs : iDoc[p] = d /\ Keeps(p) <=> p = o

-----------------------------------------------------------------------------
\* The inductive invariant behind the properties, in named parts.

UseTypeOK == TypeOK /\ role \in [Obj -> Role]

\* A chromo is alive as long as it is for something.
RolesLive == \A o \in Obj : role[o] # "none" <=> o \in objs

\* What is read from a file, and the copies of it, own nothing; what is only
\* just made has nothing.
FilesNotOwned ==
  \A o \in objs :
    /\ role[o] # "elem" => ~iDocOwned[o]
    /\ role[o] \in {"elem0", "spec0", "data0"} => iDoc[o] = NoDoc

\* A root node refers to its own model, or to that of a chromo that is never
\* deleted.
ModelsStay ==
  \A o \in objs :
    /\ stale[o] => aborted
    /\ rootMdl[o] = o \/ role[rootMdl[o]] \in {"ready", "lost"}

\* Chromos that are worked on, or being delivered, have a root node.
RootsThere ==
  ~aborted => \A o \in objs :
    role[o] \in {"elem", "ready", "data"} => rootDoc[o] # NoDoc

UseIInv ==
  /\ UseTypeOK
  /\ RolesLive
  /\ KeepsRules
  /\ NothingDangles
  /\ OwnersExclusive
  /\ FilesNotOwned
  /\ ModelsStay
  /\ RootsThere
  /\ LeaksOnlyFiles

=============================================================================
