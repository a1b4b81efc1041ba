------------------------------- MODULE MutLog -------------------------------
(***************************************************************************)
(* What an agent (Elem) promises about the batches of mutations it is      *)
(* given, with the two-phase DES cycle, the input buffers and the states   *)
(* that implement it left out.                                             *)
(*                                                                         *)
(* Every agent walks its current batch one mutation at a time.  An agent   *)
(* that applies its own mutations (the root agent of an environment) adds  *)
(* each mutation it reaches to its log, in the order of the walk, exactly  *)
(* once per step of the walk; any other agent walks without ever touching  *)
(* its log.  When the batch is exhausted the position becomes -1, the      *)
(* mutation last reached stays current, and that step too is logged.       *)
(***************************************************************************)
EXTENDS Integers, Sequences

CONSTANTS
  ElemId,     \* agents
  Batches,    \* the batches of mutations that can be loaded
  NoBatch,    \* "nothing loaded yet"
  NullMut     \* the empty mutation an agent starts with

VARIABLES
  applies,    \* applies[e]: e applies its own mutations
  batch,      \* batch[e]: the batch e is walking
  at,         \* at[e]: position in the batch and mutation reached
  log         \* log[e]: the mutations e has applied, oldest first

vars == <<applies, batch, at, log>>

Start == [first |-> -1, second |-> NullMut]

\* The position after c in batch b.
Succ(b, c) ==
  LET i == c.first + 1
  IN  IF i < Len(b) THEN [first |-> i, second |-> b[i + 1]]
                    ELSE [first |-> -1, second |-> c.second]

Init ==
  /\ applies = [e \in ElemId |-> FALSE]
  /\ batch   = [e \in ElemId |-> NoBatch]
  /\ at      = [e \in ElemId |-> Start]
  /\ log     = [e \in ElemId |-> << >>]

\* An agent that has done nothing yet is made the one that applies.
Appoint(e) ==
  /\ batch[e] = NoBatch
  /\ applies' = [applies EXCEPT ![e] = TRUE]
  /\ UNCHANGED <<batch, at, log>>

\* A batch replaces the one being walked; the position is kept.
Load(e, b) ==
  /\ batch' = [batch EXCEPT ![e] = b]
  /\ UNCHANGED <<applies, at, log>>

\* One step of the walk.  In an empty batch there is none to make.
Step(e) ==
  /\ batch[e] \in Batches
  /\ Succ(batch[e], at[e]) # at[e]
  /\ at' = [at EXCEPT ![e] = Succ(batch[e], at[e])]
  /\ log' = IF applies[e]
              THEN [log EXCEPT ![e] = Append(@, at'[e].second)]
              ELSE log
  /\ UNCHANGED <<applies, batch>>

Next ==
  \E e \in ElemId :
    \/ Appoint(e)
    \/ \E b \in Batches : Load(e, b)
    \/ Step(e)

Spec == Init /\ [][Next]_vars

=============================================================================
