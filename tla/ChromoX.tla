------------------------------- MODULE ChromoX -------------------------------
(***************************************************************************)
(* Chromos as owners of documents (src/src/chromox.cpp).  A ChromoX holds  *)
(* a model, iMdl, with a pointer to an XML document and a flag that says   *)
(* whether to free it, and iRootNode, which is a reference to a model and  *)
(* a pointer to a node.  The copy constructor and the assignment are the   *)
(* compiler's: they share the document and copy the flag, and the node of  *)
(* a copy keeps referring to the model of the chromo it was copied from.   *)
(*                                                                         *)
(* The module models every call of the interface that creates, replaces,   *)
(* shares or frees a document, and what each call reads of documents and   *)
(* models.  A call that frees or reads what has been freed makes the       *)
(* behaviour undefined; `sound' records whether the client has kept to     *)
(* the three rules that nothing in the code enforces:                      *)
(*                                                                         *)
(*   - a chromo that owns a document is not copied;                        *)
(*   - a chromo outlives the chromos whose root node refers to its model;  *)
(*   - after Reset, or after a Set that found no root node, the root node  *)
(*     is not used until one is set.                                       *)
(***************************************************************************)
CONSTANTS
  Obj,     \* chromos
  Doc,     \* documents, each allocated at most once
  NoDoc    \* NULL

ASSUME DocAssumption == NoDoc \notin Doc

VARIABLES
  objs,       \* the chromos alive
  iDoc,       \* iDoc[o]: document of the model of o
  iDocOwned,  \* iDocOwned[o]: the model of o frees it
  rootMdl,    \* rootMdl[o]: chromo whose model iRootNode of o refers to
  rootDoc,    \* rootDoc[o]: document of the node that iRootNode of o points to
  stale,      \* stale[o]: iRootNode of o is from before a Reset, or may be
  heap,       \* heap[d]: "unused", "live" or "freed"
  sound,      \* the client has kept to the rules
  undefined,  \* something freed has been read or freed again
  aborted     \* an assertion failed

vars == <<objs, iDoc, iDocOwned, rootMdl, rootDoc, stale, heap, sound, undefined,
          aborted>>

DocInit ==
  /\ objs = {}
  /\ iDoc = [o \in Obj |-> NoDoc]
  /\ iDocOwned = [o \in Obj |-> FALSE]
  /\ rootMdl = [o \in Obj |-> o]
  /\ rootDoc = [o \in Obj |-> NoDoc]
  /\ stale = [o \in Obj |-> FALSE]
  /\ heap = [d \in Doc |-> "unused"]
  /\ sound = TRUE
  /\ undefined = FALSE
  /\ aborted = FALSE

Freed(d) == d # NoDoc /\ heap[d] = "freed"

Unused(d) == heap[d] = "unused"

\* A call on the chromo o, in a process that is still alive and well.
Call(o) == o \in objs /\ ~undefined /\ ~aborted

-----------------------------------------------------------------------------

\* new ChromoX.
New(o) ==
  /\ o \notin objs
  /\ ~undefined /\ ~aborted
  /\ objs' = objs \cup {o}
  /\ iDoc' = [iDoc EXCEPT ![o] = NoDoc]
  /\ iDocOwned' = [iDocOwned EXCEPT ![o] = FALSE]
  /\ rootMdl' = [rootMdl EXCEPT ![o] = o]
  /\ rootDoc' = [rootDoc EXCEPT ![o] = NoDoc]
  /\ stale' = [stale EXCEPT ![o] = FALSE]
  /\ UNCHANGED <<heap, sound, undefined, aborted>>

\* Slip: the new document is left to others to free.
Init_NotOwned(o, d) ==
  /\ Call(o) /\ Unused(d)
  /\ iDoc' = [iDoc EXCEPT ![o] = d]
  /\ rootDoc' = [rootDoc EXCEPT ![o] = d]
  /\ stale' = [stale EXCEPT ![o] = FALSE]
  /\ heap' = [heap EXCEPT ![d] = "live"]
  /\ UNCHANGED <<objs, iDocOwned, rootMdl, sound, undefined, aborted>>

\* Init: a document of its own, whatever it had before.
Init(o, d) ==
  /\ Call(o) /\ Unused(d)
  /\ iDoc' = [iDoc EXCEPT ![o] = d]
  /\ iDocOwned' = [iDocOwned EXCEPT ![o] = TRUE]
  /\ rootDoc' = [rootDoc EXCEPT ![o] = d]
  /\ stale' = [stale EXCEPT ![o] = FALSE]
  /\ heap' = [heap EXCEPT ![d] = "live"]
  /\ UNCHANGED <<objs, rootMdl, sound, undefined, aborted>>

\* Does ChromoMdlX::Reset on o free a document?
Frees(o) == iDocOwned[o] /\ iDoc[o] # NoDoc

\* Slip: documents that are not owned are freed as well.
AfterReset_Always(o) ==
  IF iDoc[o] # NoDoc THEN [heap EXCEPT ![iDoc[o]] = "freed"] ELSE heap

\* The documents after ChromoMdlX::Reset on o.
AfterReset(o) ==
  IF Frees(o) THEN [heap EXCEPT ![iDoc[o]] = "freed"] ELSE heap

\* Slip: what is read from a file is owned.
Set_Owned(o, d, hasRoot, keeps) ==
  /\ Call(o) /\ Unused(d)
  /\ iDoc' = [iDoc EXCEPT ![o] = d]
  /\ iDocOwned' = [iDocOwned EXCEPT ![o] = TRUE]
  /\ rootDoc' = [rootDoc EXCEPT ![o] = IF hasRoot THEN d ELSE IF keeps THEN @ ELSE NoDoc]
  /\ stale' = [stale EXCEPT ![o] = keeps /\ ~hasRoot]
  /\ heap' = [AfterReset(o) EXCEPT ![d] = "live"]
  /\ undefined' = (Frees(o) /\ Freed(iDoc[o]))
  /\ UNCHANGED <<objs, rootMdl, sound, aborted>>

\* Set from a file, from the file a uri names and from text: Reset, read, not
\* owned.  Set(const char*) takes the root node even if there is none; the two
\* others keep the root node they had then.
Set(o, d, hasRoot, keeps) ==
  /\ Call(o) /\ Unused(d)
  /\ iDoc' = [iDoc EXCEPT ![o] = d]
  /\ iDocOwned' = [iDocOwned EXCEPT ![o] = FALSE]
  /\ rootDoc' = [rootDoc EXCEPT ![o] = IF hasRoot THEN d ELSE IF keeps THEN @ ELSE NoDoc]
  /\ stale' = [stale EXCEPT ![o] = keeps /\ ~hasRoot]
  /\ heap' = [AfterReset(o) EXCEPT ![d] = "live"]
  /\ undefined' = (Frees(o) /\ Freed(iDoc[o]))
  /\ UNCHANGED <<objs, rootMdl, sound, aborted>>

\* Set of what cannot be read: Reset comes first, then the assertion.
SetAbort(o) ==
  /\ Call(o)
  /\ iDoc' = [iDoc EXCEPT ![o] = NoDoc]
  /\ stale' = [stale EXCEPT ![o] = TRUE]
  /\ heap' = AfterReset(o)
  /\ undefined' = (Frees(o) /\ Freed(iDoc[o]))
  /\ aborted' = TRUE
  /\ UNCHANGED <<objs, iDocOwned, rootMdl, rootDoc, sound>>

\* Set from the root node of p, copied: into the document o has, else into one
\* of its own.
SetFromNode(o, p, d) ==
  /\ Call(o) /\ p \in objs
  /\ LET mine == IF iDoc[o] = NoDoc THEN d ELSE iDoc[o]
     IN  /\ IF iDoc[o] = NoDoc
              THEN /\ Unused(d)
                   /\ iDocOwned' = [iDocOwned EXCEPT ![o] = TRUE]
                   /\ heap' = [heap EXCEPT ![d] = "live"]
              ELSE UNCHANGED <<iDocOwned, heap>>
         /\ iDoc' = [iDoc EXCEPT ![o] = mine]
         /\ rootDoc' = [rootDoc EXCEPT ![o] = IF rootDoc[p] = NoDoc THEN NoDoc ELSE mine]
  /\ stale' = [stale EXCEPT ![o] = FALSE]
  /\ undefined' = (Freed(rootDoc[p]) \/ Freed(iDoc[o]))
  /\ sound' = (sound /\ ~stale[p])
  /\ UNCHANGED <<objs, rootMdl, aborted>>

\* The document is freed or let go; iRootNode and the flag stay.
Reset(o) ==
  /\ Call(o)
  /\ iDoc' = [iDoc EXCEPT ![o] = NoDoc]
  /\ stale' = [stale EXCEPT ![o] = TRUE]
  /\ heap' = AfterReset(o)
  /\ undefined' = (Frees(o) /\ Freed(iDoc[o]))
  /\ UNCHANGED <<objs, iDocOwned, rootMdl, rootDoc, sound, aborted>>

\* Slip: where there is no node nothing is read.
UseRoot_Lenient(o) ==
  /\ Call(o)
  /\ undefined' = (Freed(rootDoc[o]) \/ rootMdl[o] \notin objs)
  /\ sound' = (sound /\ ~stale[o])
  /\ UNCHANGED <<objs, iDoc, iDocOwned, rootMdl, rootDoc, stale, heap, aborted>>

\* Anything read by Root(): a call of the model it refers to, on its node, for
\* which the model asserts that it is there.
UseRoot(o) ==
  /\ Call(o)
  /\ undefined' = (Freed(rootDoc[o]) \/ rootMdl[o] \notin objs)
  /\ aborted' = (rootDoc[o] = NoDoc)
  /\ sound' = (sound /\ ~stale[o])
  /\ UNCHANGED <<objs, iDoc, iDocOwned, rootMdl, rootDoc, stale, heap>>

\* Save copies the root node into a model of its own, GetSpec writes it with
\* the document it has.
Write(o, withDoc) ==
  /\ Call(o)
  /\ undefined' = (Freed(rootDoc[o]) \/ (withDoc /\ Freed(iDoc[o])))
  /\ sound' = (sound /\ ~stale[o])
  /\ UNCHANGED <<objs, iDoc, iDocOwned, rootMdl, rootDoc, stale, heap, aborted>>

\* ChromoX c(o), which the compiler writes.
Copy(o, c) ==
  /\ Call(o) /\ c \notin objs
  /\ objs' = objs \cup {c}
  /\ iDoc' = [iDoc EXCEPT ![c] = iDoc[o]]
  /\ iDocOwned' = [iDocOwned EXCEPT ![c] = iDocOwned[o]]
  /\ rootMdl' = [rootMdl EXCEPT ![c] = rootMdl[o]]
  /\ rootDoc' = [rootDoc EXCEPT ![c] = rootDoc[o]]
  /\ stale' = [stale EXCEPT ![c] = stale[o]]
  /\ sound' = (sound /\ ~Frees(o))
  /\ UNCHANGED <<heap, undefined, aborted>>

\* c = o, which the compiler writes, but for iRootNode, whose assignment takes
\* over the pointer alone.
Assign(o, c) ==
  /\ Call(o) /\ c \in objs \ {o}
  /\ iDoc' = [iDoc EXCEPT ![c] = iDoc[o]]
  /\ iDocOwned' = [iDocOwned EXCEPT ![c] = iDocOwned[o]]
  /\ rootDoc' = [rootDoc EXCEPT ![c] = rootDoc[o]]
  /\ stale' = [stale EXCEPT ![c] = stale[o]]
  /\ sound' = (sound /\ ~Frees(o))
  /\ UNCHANGED <<objs, rootMdl, heap, undefined, aborted>>

\* delete o: the model resets itself.
Destroy(o) ==
  /\ Call(o)
  /\ objs' = objs \ {o}
  /\ heap' = AfterReset(o)
  /\ undefined' = (Frees(o) /\ Freed(iDoc[o]))
  /\ sound' = (sound /\ \A p \in objs \ {o} : rootMdl[p] # o)
  /\ UNCHANGED <<iDoc, iDocOwned, rootMdl, rootDoc, stale, aborted>>

Next ==
  \E o \in Obj :
    \/ New(o)
    \/ \E d \in Doc : Init(o, d)
    \/ \E d \in Doc, hasRoot, keeps \in BOOLEAN : Set(o, d, hasRoot, keeps)
    \/ SetAbort(o)
    \/ \E p \in Obj, d \in Doc : SetFromNode(o, p, d)
    \/ Reset(o)
    \/ UseRoot(o)
    \/ \E withDoc \in BOOLEAN : Write(o, withDoc)
    \/ \E c \in Obj : Copy(o, c) \/ Assign(o, c)
    \/ Destroy(o)

Spec == DocInit /\ [][Next]_vars

-----------------------------------------------------------------------------
\* Properties.

\* Types.
TypeOK ==
  /\ objs \subseteq Obj
  /\ iDoc \in [Obj -> Doc \cup {NoDoc}]
  /\ iDocOwned \in [Obj -> BOOLEAN]
  /\ rootMdl \in [Obj -> Obj]
  /\ rootDoc \in [Obj -> Doc \cup {NoDoc}]
  /\ stale \in [Obj -> BOOLEAN]
  /\ heap \in [Doc -> {"unused", "live", "freed"}]
  /\ {sound, undefined, aborted} \subseteq BOOLEAN

\* The three rules are enough: whatever a client that keeps to them calls, in
\* whatever order, no document is freed twice and nothing freed is read.
RulesSuffice == sound => ~undefined

-----------------------------------------------------------------------------
\* The inductive invariant behind RulesSuffice, in named parts.

\* What a chromo can reach is there.
NothingDangles ==
  \A o \in objs :
    /\ rootMdl[o] \in objs
    /\ iDoc[o] # NoDoc => heap[iDoc[o]] = "live"
    /\ rootDoc[o] # NoDoc /\ ~stale[o] => heap[rootDoc[o]] = "live"

\* A document that will be freed is in no other chromo.
OwnersExclusive ==
  \A o, p \in objs :
    Frees(o) /\ p # o => /\ iDoc[p] # iDoc[o]
                         /\ stale[p] \/ rootDoc[p] # iDoc[o]

DocIInv ==
  /\ TypeOK
  /\ sound => ~undefined /\ NothingDangles /\ OwnersExclusive

=============================================================================
