----------------------------- MODULE Providers ------------------------------
(***************************************************************************)
(* The providers of an environment (src/src/provmgr.cpp, prov.cpp,         *)
(* provdef.cpp), composed with the chromos they create (ChromoUse).  Env   *)
(* owns a ProvidersMgr, a table of providers by name; ProvDef is in it     *)
(* from the start, plugins and the client bring others.  Agents and        *)
(* ConstructSystem ask the table for a chromo: the first provider that     *)
(* answers, in the order of names, decides which class it is.              *)
(*                                                                         *)
(* Nothing in the code checks what it is given.  `tame' records whether    *)
(* the client has kept to these rules, `failure' what a call ended in:     *)
(*                                                                         *)
(*   - no two providers in the table have one name, only what is in the    *)
(*     table is removed, and only a pointer that is NULL is set;           *)
(*   - a provider is deleted once, by who owns it: the manager owns what   *)
(*     is in the table, the client what it has made or removed;            *)
(*   - agents are made while the environment is alive.                     *)
(*                                                                         *)
(* A client may take ProvDef out of the table, and bring a provider that   *)
(* answers before it: that is not ruled out, and changes who answers.      *)
(*                                                                         *)
(* The registry of ProviderBase is always empty: what would fill it is     *)
(* disabled in provdef.cpp, and so CreateNode and GetNode answer nothing.  *)
(***************************************************************************)
EXTENDS ChromoUse, Integers

CONSTANTS
  Prov,       \* provider objects, each made at most once
  Def,        \* the one of class ProvDef
  Plugins,    \* those that the init function of a plugin makes
  Answers,    \* those whose CreateChromo answers
  NameOf,     \* NameOf[p]: Name() of p, as its place in the order of names
  NoProv      \* no entry in the table

ASSUME ProvAssumption ==
  /\ Def \in Answers
  /\ Answers \subseteq Prov
  /\ Plugins \subseteq Prov \ {Def}
  /\ NameOf \in [Prov -> Int]
  /\ NoProv \notin Prov

VARIABLES
  env,         \* the environment and its manager: "none", "alive" or "gone"
  iProviders,  \* iProviders[n]: the provider in the table under the name n
  iEnv,        \* is the environment set in the manager?
  provs,       \* provs[p]: "unused", "live" or "deleted"
  held,        \* providers that the client owns
  mapped,      \* plugins whose library is open
  tame,        \* the client has kept to the rules
  failure      \* "none", or what went wrong

provVars == <<env, iProviders, iEnv, provs, held, mapped, tame, failure>>

allVars == <<useVars, provVars>>

Name == {NameOf[p] : p \in Prov}

ProvInit ==
  /\ UseInit
  /\ env = "none"
  /\ iProviders = [n \in Name |-> NoProv]
  /\ iEnv = FALSE
  /\ provs = [p \in Prov |-> "unused"]
  /\ held = {}
  /\ mapped = {}
  /\ tame = TRUE
  /\ failure = "none"

\* The process is alive and well.
Running == failure = "none" /\ ~aborted /\ ~undefined

\* A call of the manager.
Call_Mgr == Running /\ env = "alive"

\* The names in the table, and those whose providers answer.
Present == {n \in Name : iProviders[n] # NoProv}
Answering == {n \in Present : iProviders[n] \in Answers}

\* Calling a deleted provider.
Dead(names) == \E n \in names : provs[iProviders[n]] = "deleted"

-----------------------------------------------------------------------------
\* The environment and the table.

\* new Env: the manager puts ProvDef into its table.
NewEnv ==
  /\ Running
  /\ env = "none"
  /\ env' = "alive"
  /\ iEnv' = TRUE
  /\ provs' = [provs EXCEPT ![Def] = "live"]
  /\ iProviders' = [iProviders EXCEPT ![NameOf[Def]] = Def]
  /\ UNCHANGED <<useVars, held, mapped, tame, failure>>

\* Slip: the manager forgets its providers.
AfterDelete_Leaks(p) == provs[p]

\* The provider p after the manager has deleted whatever is in its table.
AfterDelete(p) == IF \E n \in Name : iProviders[n] = p THEN "deleted" ELSE provs[p]

\* delete Env, not while an agent or a system is being constructed.
DeleteEnv ==
  /\ Call_Mgr
  /\ \A o \in Obj : role[o] \notin {"elem0", "spec0", "spec", "ready"}
  /\ env' = "gone"
  /\ failure' = IF Dead(Present) THEN "dead" ELSE failure
  /\ provs' = [p \in Prov |-> AfterDelete(p)]
  /\ iProviders' = [n \in Name |-> NoProv]
  /\ UNCHANGED <<useVars, iEnv, held, mapped, tame>>

\* AddProvider: a name that is in the table already is an assertion.
Enter(p) ==
  /\ IF NameOf[p] \in Present
       THEN failure' = "assert" /\ UNCHANGED iProviders
       ELSE iProviders' = [iProviders EXCEPT ![NameOf[p]] = p] /\ UNCHANGED failure
  /\ tame' = (tame /\ NameOf[p] \notin Present)

\* Slip: the library is closed in any case.
Opened_Closed(p) == mapped

\* The libraries open after the one of p has made a provider.
Opened(p) == mapped \cup {p}

\* LoadPlugin, and LoadPlugins for each file it lists: unless there is an init
\* function that makes a provider the library is closed again.
LoadPlugin(p, init) ==
  /\ Call_Mgr
  /\ p \in Plugins /\ provs[p] = "unused"
  /\ IF init
       THEN mapped' = Opened(p) /\ provs' = [provs EXCEPT ![p] = "live"] /\ Enter(p)
       ELSE UNCHANGED <<mapped, provs, iProviders, tame, failure>>
  /\ UNCHANGED <<useVars, env, iEnv, held>>

\* The client makes a provider ...
NewProvider(p) ==
  /\ Running
  /\ p \notin Plugins \cup {Def} /\ provs[p] = "unused"
  /\ provs' = [provs EXCEPT ![p] = "live"]
  /\ held' = held \cup {p}
  /\ UNCHANGED <<useVars, env, iProviders, iEnv, mapped, tame, failure>>

\* ... and gives it, or one it has removed, to the manager.
AddProvider(p) ==
  /\ Call_Mgr
  /\ p \in held
  /\ held' = held \ {p}
  /\ Enter(p)
  /\ UNCHANGED <<useVars, env, iEnv, provs, mapped>>

\* RemoveProvider: what goes is the entry of that name, whoever is in it, and
\* the client has the provider it named.
RemoveProvider(p) ==
  /\ Call_Mgr
  /\ provs[p] = "live"
  /\ IF NameOf[p] \in Present
       THEN /\ iProviders' = [iProviders EXCEPT ![NameOf[p]] = NoProv]
            /\ held' = held \cup {p}
            /\ UNCHANGED failure
       ELSE failure' = "assert" /\ UNCHANGED <<iProviders, held>>
  /\ tame' = (tame /\ iProviders[NameOf[p]] = p)
  /\ UNCHANGED <<useVars, env, iEnv, provs, mapped>>

\* The client deletes a provider.
DeleteProvider(p) ==
  /\ Running
  /\ provs[p] # "unused"
  /\ failure' = IF provs[p] = "deleted" THEN "dead" ELSE failure
  /\ provs' = [provs EXCEPT ![p] = "deleted"]
  /\ tame' = (tame /\ p \in held)
  /\ held' = held \ {p}
  /\ UNCHANGED <<useVars, env, iProviders, iEnv, mapped>>

\* SetEnv: one of the two pointers has to be NULL.
SetEnv(set) ==
  /\ Call_Mgr
  /\ failure' = IF iEnv /\ set THEN "assert" ELSE failure
  /\ tame' = (tame /\ ~(iEnv /\ set))
  /\ iEnv' = IF iEnv /\ set THEN iEnv ELSE set
  /\ UNCHANGED <<useVars, env, iProviders, provs, held, mapped>>

-----------------------------------------------------------------------------
\* What the table is asked for.

\* Slip: the table is asked from the end.
Asked_Backwards == {n \in Present : \A m \in Answering : n >= m}

\* The providers CreateChromo asks: up to the first that answers.
Asked == {n \in Present : \A m \in Answering : n <= m}

\* What Provider()->CreateChromo() gives: a ChromoX, a chromo of another class,
\* NULL (dereferenced by everyone who asks), or a call of what is gone.
Answer ==
  IF env = "gone" \/ Dead(Asked) THEN "dead"
  ELSE IF Answering = {} THEN "null"
  ELSE IF \E n \in Asked : iProviders[n] = Def THEN "chromo" ELSE "foreign"

\* An agent or ConstructSystem asks for a chromo.  An agent keeps a pointer to
\* its environment and takes any chromo; ConstructSystem with a file casts it
\* to ChromoX and dereferences the result.
MakeChromo(o, r) ==
  /\ Running
  /\ r = "spec0" => env = "alive"
  /\ tame' = (tame /\ env = "alive")
  /\ \/ Answer = "chromo" /\ CreateChromo(o, r) /\ UNCHANGED failure
     \/ /\ Answer = "foreign"
        /\ failure' \in IF r = "spec0" THEN {failure, "foreign"} ELSE {failure}
        /\ UNCHANGED useVars
     \/ Answer \in {"null", "dead"} /\ failure' = Answer /\ UNCHANGED useVars
  /\ UNCHANGED <<env, iProviders, iEnv, provs, held, mapped>>

\* CreateNode, GetNode, IsProvided and AppendNodesInfo call every provider.
Query ==
  /\ Call_Mgr
  /\ failure' = IF Dead(Present) THEN "dead" ELSE failure
  /\ UNCHANGED <<useVars, env, iProviders, iEnv, provs, held, mapped, tame>>

\* ModulesPath takes the provider named ProvDef, and throws if there is none.
ModulesPath ==
  /\ Call_Mgr
  /\ failure' = IF NameOf[Def] \notin Present THEN "throws"
                ELSE IF Dead({NameOf[Def]}) THEN "dead" ELSE failure
  /\ UNCHANGED <<useVars, env, iProviders, iEnv, provs, held, mapped, tame>>

\* What happens to the chromos meanwhile.  ConstructSystem runs, and delivers,
\* while its environment is alive.
UseChromo(o) ==
  /\ Running
  /\ \/ \E d \in Doc : InitElem(o, d)
     \/ NewData(o)
     \/ Work(o)
     \/ \E withDoc \in BOOLEAN : Save(o, withDoc)
     \/ Delete(o)
     \/ /\ env = "alive"
        /\ \/ \E d \in Doc, hasRoot \in BOOLEAN : SetSpec(o, d, hasRoot)
           \/ SetSpecAbort(o)
           \/ ReadSpec(o)
           \/ \E c \in Obj : Deliver(o, c)
           \/ Forget(o)
  /\ UNCHANGED provVars

ProvNext ==
  \/ NewEnv
  \/ DeleteEnv
  \/ \E p \in Prov :
       \/ \E init \in BOOLEAN : LoadPlugin(p, init)
       \/ NewProvider(p)
       \/ AddProvider(p)
       \/ RemoveProvider(p)
       \/ DeleteProvider(p)
  \/ \E set \in BOOLEAN : SetEnv(set)
  \/ \E o \in Obj : \/ \E r \in {"elem0", "spec0"} : MakeChromo(o, r)
                    \/ UseChromo(o)
  \/ Query
  \/ ModulesPath

ProvSpec == ProvInit /\ [][ProvNext]_allVars

-----------------------------------------------------------------------------
\* Properties.

\* Does ProvDef answer before all others?
DefFirst == iProviders[NameOf[Def]] = Def /\ \A n \in Answering : NameOf[Def] <= n

\* The rules are enough: a client that keeps to them meets no assertion, and
\* nothing that is deleted, in whatever order it calls.  If it moreover asks
\* only while ProvDef is in the table and no provider named before it answers,
\* there is no NULL, no chromo of another class and no exception either.
RulesCarry ==
  tame => failure \in IF DefFirst THEN {"none"} ELSE {"none", "null", "foreign", "throws"}

\* Every provider alive has one owner: the client, or the table it is in under
\* its name.  After the environment is gone nothing is left but what the client
\* has.
OwnedOnce ==
  tame => \A p \in Prov :
    provs[p] = "live" <=> (p \in held) # (iProviders[NameOf[p]] = p)

\* The code of a provider that a plugin has made is there as long as it is.
PluginsMapped == \A p \in Plugins : provs[p] = "live" => p \in mapped

-----------------------------------------------------------------------------
\* The inductive invariant behind them, in named parts.

ProvTypeOK ==
  /\ env \in {"none", "alive", "gone"}
  /\ iProviders \in [Name -> Prov \cup {NoProv}]
  /\ iEnv \in BOOLEAN
  /\ provs \in [Prov -> {"unused", "live", "deleted"}]
  /\ held \subseteq Prov
  /\ mapped \subseteq Plugins
  /\ tame \in BOOLEAN
  /\ failure \in {"none", "assert", "throws", "null", "foreign", "dead"}

\* The table belongs to the environment; ProvDef comes with it.
TableInOrder ==
  /\ env # "alive" => Present = {}
  /\ env = "none" => provs[Def] = "unused"
  /\ \A n \in Present : NameOf[iProviders[n]] = n

\* What the client owns is alive.
HeldLive == \A p \in held : provs[p] = "live"

ProvIInv ==
  /\ ProvTypeOK
  /\ PluginsMapped
  /\ tame => TableInOrder /\ HeldLive
  /\ RulesCarry
  /\ OwnedOnce

=============================================================================
