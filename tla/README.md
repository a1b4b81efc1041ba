# desmag in TLA+

desmag builds agents (`Elem`) that mutate themselves as discrete event systems:
an agent is given a batch of mutations, an XML document called a *chromo*, and
walks it one mutation at a time on the library desa. This directory models the
agents, their environment, the chromos and the uris of mutations in TLA+,
checks them with TLC and proves the central properties with TLAPS. Paths below
are relative to the repository, whose code is under `src/`.

## 1. The system

| Component | Code | State | Operations | Who calls whom |
|---|---|---|---|---|
| Elem, the agent | `src/elem.cpp`, `melem.h` | four states, each with `mConf`, `mUpd` and input buffers; the chromo; the tree of owners | constructor, `AddElem`, `Trans` of St_Bmut, St_Chg, St_Appr, St_Appl | wired by desa connections; St_Appl appends to the chromo and parses a `Uri` |
| desa | another repository | active and updated states, inputs | the two-phase cycle, `Connect`, `Run` | calls `Trans`, delivers changed values |
| Env | `src/env.cpp` | `mRoot`, `mProvider`, `mOutChromo` | constructor, destructor, `ConstructSystem` | owns the manager of providers, creates a chromo by it, creates the root agent, delivers the chromo |
| Providers | `src/provmgr.cpp`, `prov.cpp`, `provdef.cpp` | providers by name, registry of agents (always empty) | `AddProvider`, `RemoveProvider`, `LoadPlugin`, `CreateNode`, `CreateChromo`, `ModulesPath`, `SetEnv` | Env and Elem ask for chromos |
| ChromoX, ChromoMdlX as owner | `src/chromox.cpp` | `iDoc`, `iDocOwned`, `iRootNode` | `Init`, `Set` (four), `Reset`, `Save`, `GetSpec`, copy, assignment, destructor | frees documents of libxml2 |
| ChromoNode, ChromoMdlX as tree | `src/chromo.h`, `chromo.cpp`, `chromox.cpp` | the XML nodes and their attributes; iterators hold a bare handle | navigation, `Add*`, `Move*`, `Rm*`, `SetAttr`, `SetContent`, `Activate`, iteration, `Find`, `At` | libxml2 |
| TMut | `src/chromo.cpp` | type and attributes | from a node, from text, to text | Elem |
| Uri | `src/uri.cpp`, `uri.h` | text, base parts, units | `Parse`, `GetUri`, `Append`, `Prepend`, `Compare` | St_Appl parses the parent of a mutation |

What is hard here, and what makes each component correct:

* **Elem.** States run concurrently within a cycle and hand values over by
  notification only when they change; a batch may be replaced while it is
  walked. Correct if no `Trans` depends on an input that is empty, no mutation is lost or
  overtaken between St_Bmut and its reader, what an owner knows of a component
  is what the component last said, a component mutates nothing without an
  approval, and the log of an agent is the walk of its batches.
* **Env.** The chromo is delivered by a call, not by desa, and again to every
  earlier root agent when the system is constructed once more. Correct if it is
  then applied in order, if a delivery in the middle of a walk does
  not disturb it, and if a file that cannot be used leaves nothing behind.
* **ChromoX.** The compiler-written copies share a document, and a root node
  refers to the model of the chromo it was copied from. Correct if nothing is
  freed twice or used after it was freed, and nothing leaks that has an owner.
* **Tree.** Text and comments are siblings too; iterators are never told of
  changes; agents read by index what they have appended, among text. Correct if
  the nodes stay a forest, the document is the list of its mutations, an
  undisturbed iterator passes each of them once, and index and path lead to the
  mutation they name.
* **Uri.** Offsets that may be `npos`, marks that are left implicit. Correct if
  units spell the text, parsing ends, and joined or rendered uris keep their
  units.
* **TMut.** Values may hold the separators of the text form. Correct if a
  mutation written as a text and read back is the same one.
* **Providers.** The first provider in the order of names that answers makes
  every chromo; names may collide; a provider belongs to the table or to the
  client, and nothing says which. Correct if nobody calls a deleted
  provider, chromos are of the class that Env casts them to as long as ProvDef
  is the first to answer, each provider is deleted once, and its library stays open as
  long as it lives.

## 2. The modules

| Module | Models | Composes |
|---|---|---|
| `MutLog` | what an agent promises: batches, position, log | |
| `Elem` | the agents and the cycle they run in | refines `MutLog` (`LogSpec`) |
| `Env` | `ConstructSystem`, once or again, and running the root | extends `Elem` |
| `EnvProofs` | proofs about these two | |
| `StdString` | what the parsers use of `std::string` | |
| `Uri` | `Uri` | extends `StdString`; stands behind `UriForm` of `Elem` |
| `ChromoUri` | path and fragment of the uri a chromo is read from | extends `Uri` |
| `UriProofs` | proofs about these two | uses `ListLemmas` |
| `TMut` | a mutation and its text | extends `StdString`; stands behind `Mut` of `Elem` |
| `TMutProofs` | proofs about `TMut` | uses `ListLemmas` |
| `ChromoX` | documents and who frees them | |
| `ChromoUse` | how env.cpp, elem.cpp and desa use chromos | extends `ChromoX` |
| `Providers` | Env, its manager and its providers, around the chromos they make | extends `ChromoUse` |
| `ProvidersProofs` | proofs about `ChromoX`, `ChromoUse` and `Providers` | |
| `MutDoc` | a document of mutations, without XML | |
| `ChromoTree` | nodes, navigation, iterators | refines `MutDoc` (`DocSpec`) |
| `ChromoAttr` | attributes, lookups, activation | extends `ChromoTree`, refines `MutDoc` too |
| `ListLemmas` | what the operators on sequences, folds among them, and reachability do to lists; what is found in a text | extends `StdString` |
| `ChromoTreeProofs`, `ChromoAttrProofs` | proofs about these two | each extends the one before |
| `ChromoDocProofs` | proof that both implement `MutDoc` | extends `ChromoAttrProofs` |
| `MC*` | the small instances for TLC | |

Definitions named `X_Something` with the comment "Slip" are plausible mistakes
in the code that `X` models. No specification uses them: put in the place of
`X` they show that a property would notice.

### Elem and Env

`conf`, `upd` and `inp` are `mConf`, `mUpd` and the data of the inputs of every
agent; `active`, `updated` and `phase` are the cycle of desa; `chromo` is what
is under the root of `mChromo`. `StateBmut_Trans` and its like are the four
`Trans`; `StateBmut_Confirm` and its like are the connections the constructor
and `AddElem` make, so each has the wiring of its output in it. `NewElem`,
`AddElem`, `AddElemAbort` and `OnChromo` are the client's calls, made between
two cycles. A mutation is reduced to its type, its name and the form of its
parent uri: no units, units behind a separator, the error `..`, or a text that
ends the program, by the assertion of `getRel` or by an offset out of range.

desa is not in the repository and is modelled from its use. Assumed are: an
update phase in which every active state runs `Trans` once and a confirm phase
in which values that changed are delivered; an input holds the last value of
each connection; and `IsConnected` of the approval input is false where there
is no owner, as the comment at `src/src/elem.cpp:194` ("the state checks
approver existence by itself") takes it to be. Whether a state whose own value
changed runs again unasked is not visible in the repository; the connections the
agent makes (`elem.cpp:181-197`) do not ask for it. The constant `SelfStep`
leaves it open for each agent, and the proofs hold for every choice. A `Trans`
that reads an empty input it depends on has no step, as none ever does; what
St_Appl reads from an empty approval (`src/src/elem.cpp:125`, before it looks
at who is asked) is arbitrary.

`Env` adds the path, `mRoot` and the agents connected to `mOutChromo`.
ConstructSystem is one action for each way it goes: no path, a chromo, a file
that cannot be read or holds no node. Nothing keeps a client from calling it
again: another root agent is connected to the same output, the one before is
forgotten, and the loop at `src/src/env.cpp:54` gives the chromo to both. The
client delivers no chromos of its own.

### Uri

`Parse` is one action for the base, one for the start of the hierarchical part
and one for each turn of the loop. Offsets are the code's. Rendering, a second
Uri, joining and comparing are the calls a client makes on parsed uris;
`AppendTail` takes the position that Compare has returned, the only one a client
has. `ChromoUri` has the two functions by which a chromo takes the uri of its
file apart without a `Uri`.
`relChar` tests the constant `EOwned` (`src/src/uri.h:29`) and so gives `:` for
every unit; `GetUri` is modelled with that.

### TMut

A TMut is made by one of its constructors, changed by `SetAttr` and `RmAttr`,
written as a text and read back (`Through`). `TMut(const string&)` is one
action for the type, one for each turn of the search for a separator that is
not escaped, and one for each attribute. A name is a single symbol, since it is
looked up whole. The lookup of a name for a type that is none adds an empty
name to the table; no later call can tell, so the table is a constant.

### ChromoX and ChromoUse

`ChromoX` has every call that creates, replaces, shares or frees a document,
the implicit copy and assignment included. `undefined` is set by a call that
frees or reads what was freed; `sound` remembers whether the client has kept to
three rules that the code does not enforce: do not copy a chromo that owns its
document, let a chromo outlive those whose root node refers to its model, do
not use the root node after `Reset` or a failed `Set`. `ChromoUse` is the
program itself: ConstructSystem reads the file into a chromo and delivers it,
desa copies and assigns it as data of inputs, agents create and delete their
own. The chromo of ConstructSystem is a local pointer (`src/src/env.cpp:36`)
that is neither kept nor deleted: `Forget` is the return of the call, after
which the chromo is `lost`. The copies that desa keeps refer to its model for as
long as they live.

### ChromoTree

`kids` is the order of siblings as libxml2 keeps it, text among mutations;
`kind` says what each node is, and whether it has been freed. Navigation is
`GetFirstChild`, `NextSibling` (`Next`), `PrevSibling` (`Prev`) and
`GetLastChild`, with the read of NULL in `Prev`. An iterator `it` may walk while
nodes are added, moved and freed; `seen`, `stays` and `disturbed` remember what
it should have met. The root element is neither moved nor freed, nor is
anything put beside it. As the code does not check it, the client is assumed
not to put a node beside or under itself or its own descendants.

`ChromoAttr` adds the attributes of the nodes, as functions from those a node
has to their values. Every call of `ChromoTree` does with them what libxml2
does: what is copied keeps them, what is freed loses them. `AddMut` is
`AddChild(const TMut&)`, by which St_Appl writes; `At` is how St_Bmut reads. A
TMut without a type makes an element with an empty name, which counts as text.
A text, and so a name, is the sequence of its parts between slashes, because
that is how `ChromoNode::Find` takes its argument apart.

### Providers

`iProviders` is the table of the manager, by name; `provs` says which provider
objects are alive, `held` which of them the client owns, `mapped` which
libraries are open. One action for each call of the manager, for making and
deleting a provider, for an agent or ConstructSystem asking for a chromo
(`MakeChromo`), and for the rest of what is done with chromos (`UseChromo`, the
actions of `ChromoUse`). `Answer` is what the table says to `CreateChromo`.
`failure` remembers an assertion, an exception, a NULL or a dead object that was
called. `tame` remembers whether the client has kept to three rules, which the
header of the module states; the code enforces none of them. That ProvDef stays
in the table and that nothing answers before it is not among them: `RulesCarry`
says what can go wrong with it and what without. What a plugin
does is external: its init function makes a provider or none, and the provider
answers for chromos or not.

## 3. The runs

| Run | Instance and bounds | Shows |
|---|---|---|
| `elem` | two agents, St_Bmut of one steps again by itself and that of the other does not (`SelfStep`); four batches of up to two mutations (`MaxBatch`), chromos of up to three (`MaxChromo`) | types, the inductive invariant, empty reads harmless, components frozen, owner in sync, nothing overwritten, `Elem` implements `MutLog` |
| `elem_status` | the same | St_Chg can show a status that is not that of the proposal |
| `env` | seven files: no path, one to three mutations, one that aborts, unreadable, no node; three agents, each a root or a component, of whom desa steps St_Bmut again by itself for two and not for the third (`SelfStep`); another root agent while those before have applied up to five (`MaxEarlier`); chromos of up to nine | the delivered chromo is applied, in full where St_Bmut is stepped again and its first mutation where it is not; the chromo of every root agent is exactly the walk; otherwise nothing is applied |
| `env_count` | the same | at -1 the last mutation has been handed over twice |
| `uri` | every text of up to five characters (`MaxLen`) of one letter and the five special characters; five other uris; joined uris of up to seven units (`MaxJoin`) | units spell the text, parsing ends, uris read back, are joined and found, path and fragment |
| `uri_omitted` | texts of up to three characters | a text without a relation symbol aborts |
| `tmut` | two types, three attributes, ten values, all texts of up to five symbols behind a type (`MaxLen`) | a mutation reads back exactly if no value holds an escape symbol; its text never throws; only a value that ends in an escape symbol hides an attribute; parsing ends |
| `chromox` | three chromos, three documents | the three rules suffice |
| `providers` | three chromos, two documents; besides ProvDef a plugin that answers and is named before it, one of the same name that does not, and a provider of the client behind it | the three rules are enough, and what else fails only while ProvDef is not the first to answer; one owner each; the program keeps to the rules of ChromoX; what agents use is there; nothing leaks but what ConstructSystem makes |
| `chromo_tree` | root, a named node under it, two nodes to be made, any of which may become text; attributes of the one are set (`Settable`), names of one part and of two with a slash between them (`Names`) | forest, `ChromoAttr` implements `MutDoc`, appended mutations are read back, index and path lead to what they name, activation |
| `chromo_iter` | one node to be made, any iterator | an iterator left alone passes everything once, in order |
| `chromo_reverse` | the same | a reverse iterator runs into NULL |

Why the bounds are enough. Two agents are an owner and a component, or two
roots; two mutations make a first, a middle and a last step and a batch shorter
than the counter of the one it replaces; a chromo of three holds one walk and
the mutation that is applied twice. In `env` nine mutations are at least two
walks of the longest batch, and three agents are two roots with a
component, or roots of both kinds of stepping with another one. A text of five holds a base with a separator, or
`./a:a`, which visits every branch of `Parse`. The values of `tmut` are those
of one symbol and all pairs of control symbols with an escape among them, and
three attributes put one before and one behind each. Three chromos are an original, a
copy and a copy of the copy, or what Env reads, what desa keeps of it and the
chromo of an agent. The four providers are before, at and behind ProvDef in the
order of names, two of them with one name. In the tree of `chromo_iter` three
mutations and a text make every pair of neighbours; in that of `chromo_tree`
the root can be copied with all it had at first, which gives paths of two names
and twins. Five mutations of an earlier agent are past a walk of the longest
batch, so that the chromo is delivered again at every position.
`MaxChromo`, `MaxEarlier`, `MaxBatch`, `MaxJoin`, `MaxLen`, `Names` and
`Settable` are the only bounds; documents are allocated, providers made and the environment created once each, so `Doc`
and the nodes that can be made bound the heap.
The chromo bound in `StateChangeAppl_Trans` stops an agent that would apply
more; nothing that is proved depends on its value.

Deadlock is not checked: an agent with no active state has nothing to do, a
process that aborted is gone, a parsed uri or a TMut may be left alone, and a chromo may
have no document left to allocate.

## 4. Fairness

Three liveness properties are checked. `BatchApplied` in `Env` assumes weak
fairness of `Run`, the cycles of desa: `System::Run` goes on as long as a state
is active or updated, and neither phase lets a state that is due be left out
for good. What desa steps rests on `SelfStep`: the wiring of
`src/src/elem.cpp:181-197` gives St_Bmut no connection to itself, so if desa
does not step a state again when its own value changed, St_Bmut hands over the
first mutation and then waits for another chromo. `BatchApplied` says therefore
that the whole batch is applied by an agent whose `SelfStep` is true and the
first mutation by one whose `SelfStep` is false, and the run has both. It is about the root agent the client runs: one that a second
ConstructSystem has replaced need not be run any more, and nothing is claimed of
what it applies. It does not assume that any client call is made. `ParseEnds` in `Uri`
and in `TMut` assumes weak fairness of `Parse`, which is one call: it runs until
it returns, throws or aborts. It shows that no text keeps the loops going.

## 5. What is proved

For any agents, batches and bounds (`ElemAssumption`: the bounds are naturals,
the batches are sequences of mutations no longer than `MaxBatch`, the special
values are not data), `EnvProofs` proves:

* `TypeCorrect`, `Invariance`: `TypeOK` and `IInv`;
* `EmptyReadsAreHarmless`, `ComponentsStayFrozen`, `OwnerStaysInSync`,
  `NothingOverwritten`: the safety properties;
* `ImplementsMutLog`: every step of `Elem` is a step of `MutLog` or none.

None of the safety properties is inductive. A component is frozen because no
approval ever arrives (`Unanswered`), because only roots are wired to St_Appl
(`OnlyRootsApply`) and roots have no owner (`Wired`); an owner is in sync only
if a status never returns to `EAc_None`, which is not delivered apart from the
start (`StatusKept`); nothing is overwritten because, when St_Bmut is
confirmed, everything delivered before has been read (`InPhase`); and the log
is that of the walk because what St_Bmut is about to become is the successor of
what it is (`Walking`). `IInv` is their conjunction; each part has a lemma, in
which each action it can be disturbed by has a step.

For any chromos and documents (`DocAssumption`: NULL is no document),
`ProvidersProofs` proves `DocRulesAreEnough` from `DocIInv`: as long as the rules
are kept nothing dangles and owners are exclusive. It also proves that the
program keeps the rules (`RulesKept`), that what agents work on is there
(`RootsStayUsable`) and that nothing leaks but what ConstructSystem makes
(`OnlyFilesLeak`), from `UseIInv`: what is read from a file owns nothing, a root
node refers to its own model or to that of a chromo of ConstructSystem, which is
never deleted, and every document that is not freed has exactly one chromo that
frees it or stays.

`EnvProofs` also proves, for any files and however often the system is constructed,
`ChromoStaysWalk` and `NothingIsApplied` from `EnvIInv`, on top of `IInv`. That
a chromo is the walk is not inductive: the position of St_Bmut must be tied to
the end of the log. `InRound` says that the log ends with what is done of the
round under way and the whole round before it; so the next mutation is the one
a whole round back, or the last again at the end, which is what `IsWalkAt`
asks. `Observing` and `Idle` say that whoever is not connected has nothing to
do.

`ProvidersProofs` also proves for any providers and names that the chromos keep
their invariant in `Providers` (`ProvidersKeepRules`), and that the three rules
are enough (`RulesAreEnough`, `OneOwnerEach`) from `ProvIInv`: the table is empty
unless the environment is alive, the entries are under their own names, what the
client holds is alive and the library of a live plugin is open. The proof has
the invariant entry by entry (`Kept`) and one step per action.

For any nodes, types and iterators, and any document that was read,
`ChromoTreeProofs` proves `TreeTypeOK`, `TreeIsForest` and `TreePassesAll`.
`TreeAssumption` says what a file gives when it was parsed: the nodes are a
forest under the document node, the root element is in it, and nothing has the
document as its child. What is under a node (`Reach`) is the least set that has
the node and, with a node, its children; so the proofs argue by sets that are
closed under children (`ReachIsLeast`, `ReachByParent`), where one would
otherwise need an induction over depth. That a move makes no cycle follows from
that: the node is first taken out, which leaves its own part apart from the
rest, and then put where the client may put it, outside of that part.

`PassesAll` speaks of an iterator that has got to the end. Inductive is where it
is on its way: `PassInv` says that what it has passed is exactly what lies
behind it (`Behind`) of the children that stay, and that it is itself at one of
them, unless its own node was touched. Each call is looked at once: `Changed(S)`
says that it leaves a forest, moves or frees no node outside S, keeps the order
of the rest, and has told the iterator of S. One lemma for each call shows this,
and `ChangedKeeps` shows that any such step keeps `TreeIInv`, `TypeInv` with
`PassInv`. For the iterator's own steps, `NextIs` and `PrevIs` say what
navigation finds.

`ChromoAttrProofs` proves for any attributes, values and mutations that a
chromo with attributes makes only steps of `ChromoTree` (`AttrIsForest`), that an
index leads to the mutation it counts to (`AttrAtIsIndex`) and a path back to the
node it was taken from unless a twin is before it or a name on it has a slash in
it, which `Find` takes for the end of a name (`AttrPathLeadsBack`), that
`Activate` reaches everything below (`AttrActivateReaches`) and that what St_Appl
appends is what the next index gives, with everything before it unchanged
(`AttrMutsAppended`). The last two are about steps; `ActivateStep` and
`AddMutStep` prove them of any state in which `AttrIInv` holds.

`ChromoDocProofs` proves that a chromo, with attributes and without, is a
document of mutations (`TreeIsDoc`, `AttrIsDoc`: `DocSpec` is `MutDoc` with the
lists under the root that remain when texts and comments are left out). To the
lists of children every call is to take one node out (`TakeOut`), to put one in
(`PutAt`), one after the other, or to empty a list. Leaving out what is no
mutation (`Only`, `MutLists`) makes of this the same change or none, as the
places before the node are counted without the texts among them; and a change
of lists is a graft, a prune, a move, a clearing or nothing to the document, by
whether the nodes are under the root before and after (`IsChange`). Needed
besides `TreeIInv` is that the root stays where it is (`Tops`), or the document
would be lost with it.

`UriProofs` proves for any texts (`UriAssumption`: texts are sequences of
characters, and no letter is a separator) `UriTypeOK`, `UriUnitsSpell`,
`UriReadsBack`, `UriJoinKeeps` and `UriPathAndFrag`. Each has its own invariant
on top of the types. `UriTypeInv` adds to `TypeOK` where the parser is: what it
has passed lies within the text. `SpellInv` says at every turn that the units
found so far, with the relation already read, spell the text up to `pos`.
`FoundInv` says that what `Compare` has found is still there when the tail is
appended. `ReadInv` says that no name of a parsed unit has a mark in it, and
that of a readable uri the parser reads the text from its first to its last
character. That such a uri is read back as it was does not follow the parser
unit by unit: the text that `GetUri` makes is the units as spelled, behind a `.`
or without the root (`RenderedIs`, by the fold over the units); the units read
from it spell the same text (`SpellInv`); and two lists of units without marks
in their names that spell the same text are the same list (`SpelledOnce`, as a
text is taken apart at its last mark in one way only, `AtLastMark`).

For any names, values and texts `TMutProofs` proves `TMutTypeOK`,
`TMutOwnTextParses`, `TMutReadsBack` and `TMutOnlyEscHides`. `TMutAssumption`
says of the tables what `chromo.cpp:17-42` make true: they are finite, no two
types and no two attributes have one name, and no name is a separator or the
escape symbol; of values and texts it says only that they are made of symbols.
The proofs go by the layout of a text. The text of a TMut is its type and one
part for each attribute, and a part is a separator, a name, a separator and an
escaped value (`Laid`, `PartAt`). The parser takes a text apart where a
separator has no escape before it (`Cut`). Escaping leaves no such place
within a value, so that every cut of a text that is laid out is the start of a part
(`CutsAreStarts`); but the start of a part is no cut if the value before it ends
in an escape symbol, and then the part is read as more of that value, from which a
TMut loses an attribute (`HiddenBy`). What the parser does with such a text is
therefore known at each of its steps: `OwnInv` says that the offsets lie at
cuts, that what has been read is exactly what lies before them, and that nothing is
lost but what is hidden. It needs `TypeInv`, which adds to `TypeOK` where each
loop is and what the offsets mean there. When nothing is hidden each part is
read as it was written, as `DeEscCtrls` undoes `EscapeCtrls` on a value
without escape symbols and on no other.

That both parsers end is liveness, but what it rests on is proved:
`TMutParseAdvances` and `UriParseAdvances` say that every step of the parser
leaves a natural number smaller (`Left`, `Before`: what there still is of the
text, and in which loop), for any text.

`ListLemmas` states what the operators of the community modules do to a list:
inserting, removing, selecting, folding, and what is put together of parts; and
what is found in a text or cut from it. These
operators are given by CHOOSE, by recursive functions or by folds; the lemmas get
from them the equations that the proofs use. Induction is over a set of
numbers (`NatInduced`), as a theorem about an operator cannot be used; with it a
fold over a list of any length is shown to be what its steps make it
(`FoldExists`).

Only model-checked: liveness (`BatchApplied`, `ParseEnds`), as fairness and
ENABLED are out of the prover's reach. Every other property that a passing run
checks is also a theorem.

## 6. Where code and text disagree

* `src/src/uri.cpp:197` says a relation symbol that is omitted is assumed to be
  hierarchical; a text without one aborts in `getRel` (`uri.cpp:37`). The file
  of the test (`src/test/ut_cre_1.xml`) has `parent="Elem"` in its first
  mutation. Run `uri_omitted`.
* `src/src/elem.cpp:14` says St_Chg generates the status of the proposed
  mutation; for a rename, a move or an import it keeps that of an earlier one.
  Run `elem_status`.
* `src/src/elem.cpp:63-64` says the counter counts applied mutations and -1
  means that all are applied; the step to -1 delivers, and applies, the last
  mutation again. Run `env_count`.
* `src/src/chromo.h:117` says NULL is the past-of-the-end element of a reverse
  iterator; `ChromoMdlX::Prev` reads the type of NULL before it gets there
  (`chromox.cpp:211`). Run `chromo_reverse`.

Seen, but not stated as a run: the path of a base without scheme and authority
loses its first character, and an empty base throws (`src/src/uri.cpp:186-188`),
although a Uri is said to conform to RFC 3986 (`uri.cpp:9`); and a value of a
TMut that holds an escape symbol is not read back as it was, because
`EscapeCtrls` escapes it and `DeEscCtrls` does not undo that
(`src/src/chromo.cpp:208`, `src/src/chromo.h:48`), and because a separator
counts as escaped even if the escape before it is itself escaped
(`chromo.cpp:166`). `ReadsBack` and `OnlyEscHides` say exactly how far that
goes. A chromo read from a uri whose first `:` is in the fragment opens the file
that the fragment names (`chromo.cpp:263`, `PathAndFrag`), and the fragment is
never used otherwise (`chromox.cpp:83`). `FilterPlgDirEntries` judges a file by
what follows its first `.` (`provmgr.cpp:13`); `GetAttr` of a number makes a
string of NULL if there is no such attribute (`chromox.cpp:227`); an iterator
from `FindText` steps on to mutations (`chromo.h:139`); `~Elem` does not delete
`mInpBMut` (`elem.cpp:202`); St_Appl reads the approval before it asks whether
there is anyone to give it (`elem.cpp:125`), and so reads behind an empty map in
every agent without an owner, although "the state checks approver existence by
itself" (`elem.cpp:194`): `EmptyReadHarmless` says that the value never matters;
ConstructSystem leaks the chromo it has made, with its document
(`env.cpp:36`, `LeaksOnlyFiles`), and could not delete it, as the copies that desa
keeps refer to its model; and an agent connects its states inside `assert`
(`elem.cpp:185`), so that a build with NDEBUG connects nothing.

## 7. Plan

In the order of importance; what is done is marked.

1. `MutLog`, `Elem`, `Env` with their runs and the proofs about `Elem` (done).
2. `Uri` with its runs (done).
3. `ChromoX`, `ChromoUse` and their proofs (done).
4. `MutDoc`, `ChromoTree`, `ChromoAttr` with their runs (done).
5. `TMut` with its run (done).
6. `Providers` with its run and proofs, a second `ConstructSystem` in `Env`, and
   the proofs about `Env` (done).
7. `ChromoTreeProofs`, `ChromoAttrProofs` and `ChromoDocProofs` (done).
8. `UriProofs` (done).
9. `TMutProofs` (done).

Not modelled, and not planned: the `#if 0` bodies of `provdef.cpp` (three
quarters of it), `StateChromo` (never instantiated), dynamic linking itself and
the choice of the files that are plugins, writing files, the calls of
`ChromoNode` that change nothing and that no other call depends on (text,
contents, line numbers, attributes as numbers, `Find` with an attribute,
`GetChildOwning`, see the hazard at `src/src/chromo.cpp:433`), the connection
points of desa and what happens to them when an agent or Env is deleted,
logging, the build files and the design documents.
