--------------------------- MODULE ModuleVisibility ---------------------------
(***************************************************************************)
(* buildModuleVisibility (src/src/modules/visibility.ts): which provider   *)
(* classes a Nest module sees, and whether what is known of it and of the  *)
(* modules it imports is complete.                                         *)
(*                                                                         *)
(* First a loop passes over the re-exports until a pass changes nothing.   *)
(* Then moduleComplete, a memoized depth-first search over the imports, is *)
(* asked for every module in document order; its recursion is an explicit  *)
(* stack here, so its `visiting` set is the modules on the stack.          *)
(*                                                                         *)
(* A document holds the resolved assertions grouped by module, as the maps *)
(* built at the top of the function do.  The provider lists of an entry are*)
(* unions of what is computed here and are left out.                       *)
(***************************************************************************)
EXTENDS Naturals, Sequences

CONSTANTS
    Modules,    \* the module ids
    Order,      \* analysis.modules: the module records in document order
    Classes,    \* provider classes
    Families    \* families of documents, see Init

ASSUME OrderAssumption ==
    /\ Order \in Seq(Modules)
    /\ \A m \in Modules : \E i \in 1 .. Len(Order) : Order[i] = m

ASSUME FamiliesAssumption ==
    \A family \in Families :
        /\ family.imports \subseteq Seq(Modules)
        /\ family.reexports \subseteq Seq(Modules)
        /\ family.exports \subseteq SUBSET Classes
        /\ family.incomplete \subseteq SUBSET Modules

VARIABLES
    doc,        \* the document
    phase,      \* "exports", "completeness" or "done"
    exported,   \* exportedByModule
    position,   \* <<i, j>>: the next re-export, j-th of the i-th module
    changed,    \* did the current pass add a class?
    memo,       \* completenessMemo: "none" where nothing is cached
    stack,      \* the frames of moduleComplete, innermost last
    answer,     \* what the call that returned last returned, or "none"
    complete    \* the `complete` field of each entry, "none" before it is set

fixpoint == <<exported, position, changed>>
search == <<memo, stack, answer, complete>>
vars == <<doc, phase, fixpoint, search>>

Verdicts == {"yes", "no"}

DocumentType ==
    [ imports         : [Modules -> Seq(Modules)],
      exportsModules  : [Modules -> Seq(Modules)],
      exportsClasses  : [Modules -> SUBSET Classes],
      incomplete      : SUBSET Modules ]    \* metadataCompleteness

Frame == [id : Modules, rest : Seq(Modules)]    \* rest: imports still to ask

Init ==
    /\ \E family \in Families :
          doc \in [ imports        : [Modules -> family.imports],
                    exportsModules : [Modules -> family.reexports],
                    exportsClasses : [Modules -> family.exports],
                    incomplete     : family.incomplete ]
    /\ phase = "exports"
    /\ exported = doc.exportsClasses
    /\ position = <<1, 1>>
    /\ changed = FALSE
    /\ memo = [m \in Modules |-> "none"]
    /\ stack = <<>>
    /\ answer = "none"
    /\ complete = [m \in Modules |-> "none"]

-----------------------------------------------------------------------------
(***************************************************************************)
(* The re-export loop.                                                     *)
(***************************************************************************)

ReexportsOf(i) == doc.exportsModules[Order[i]]

InPass == phase = "exports" /\ position[1] <= Len(Order)

\* Wrong: every class of the re-exported module counts as a change.
ReexportAlwaysChanges ==
    /\ InPass
    /\ position[2] <= Len(ReexportsOf(position[1]))
    /\ LET m == Order[position[1]]
           gained == exported[ReexportsOf(position[1])[position[2]]]
       IN  /\ exported' = [exported EXCEPT ![m] = @ \cup gained]
           /\ changed' = (changed \/ gained # {})
    /\ position' = <<position[1], position[2] + 1>>
    /\ UNCHANGED <<doc, phase, search>>

\* The module takes over what the module it re-exports exports by now.
Reexport ==
    /\ InPass
    /\ position[2] <= Len(ReexportsOf(position[1]))
    /\ LET m == Order[position[1]]
           gained == exported[ReexportsOf(position[1])[position[2]]]
       IN  /\ exported' = [exported EXCEPT ![m] = @ \cup gained]
           /\ changed' = (changed \/ ~(gained \subseteq exported[m]))
    /\ position' = <<position[1], position[2] + 1>>
    /\ UNCHANGED <<doc, phase, search>>

NextModule ==
    /\ InPass
    /\ position[2] > Len(ReexportsOf(position[1]))
    /\ position' = <<position[1] + 1, 1>>
    /\ UNCHANGED <<doc, phase, exported, changed, search>>

\* Wrong: one pass is enough.
EndPassOnce ==
    /\ phase = "exports" /\ ~InPass
    /\ phase' = "completeness"
    /\ position' = <<1, 1>>
    /\ changed' = FALSE
    /\ UNCHANGED <<doc, exported, search>>

\* `while (changed)`
EndPass ==
    /\ phase = "exports" /\ ~InPass
    /\ phase' = IF changed THEN "exports" ELSE "completeness"
    /\ position' = <<1, 1>>
    /\ changed' = FALSE
    /\ UNCHANGED <<doc, exported, search>>

-----------------------------------------------------------------------------
(***************************************************************************)
(* moduleComplete.                                                         *)
(***************************************************************************)

Visiting == {stack[i].id : i \in 1 .. Len(stack)}

\* Wrong: a module that is being visited counts as incomplete.
CallDoubtsCycles(m, frames) ==
    IF memo[m] # "none" THEN answer' = memo[m] /\ stack' = frames
    ELSE IF m \in Visiting \/ m \in doc.incomplete THEN answer' = "no" /\ stack' = frames
    ELSE answer' = "none" /\ stack' = Append(frames, [id |-> m, rest |-> doc.imports[m]])

\* The call moduleComplete(m): cached, on the stack, known to be incomplete,
\* or a new frame.  Only a frame that ends is cached.
Call(m, frames) ==
    IF memo[m] # "none" THEN answer' = memo[m] /\ stack' = frames
    ELSE IF m \in Visiting THEN answer' = "yes" /\ stack' = frames
    ELSE IF m \in doc.incomplete THEN answer' = "no" /\ stack' = frames
    ELSE answer' = "none" /\ stack' = Append(frames, [id |-> m, rest |-> doc.imports[m]])

Top == stack[Len(stack)]

Below == SubSeq(stack, 1, Len(stack) - 1)

\* The map over analysis.modules asks for the next module.
AskModule ==
    /\ phase = "completeness"
    /\ stack = <<>> /\ answer = "none"
    /\ position[1] <= Len(Order)
    /\ Call(Order[position[1]], <<>>)
    /\ UNCHANGED <<doc, phase, fixpoint, memo, complete>>

\* `every` goes on to the next import unless one was incomplete.
AskImport ==
    /\ phase = "completeness"
    /\ stack # <<>> /\ answer # "no"
    /\ Top.rest # <<>>
    /\ Call(Head(Top.rest), Append(Below, [Top EXCEPT !.rest = Tail(@)]))
    /\ UNCHANGED <<doc, phase, fixpoint, memo, complete>>

\* Wrong: the answer of the imports is dropped.
LeaveAlwaysComplete ==
    /\ phase = "completeness"
    /\ stack # <<>>
    /\ answer = "no" \/ Top.rest = <<>>
    /\ answer' = "yes"
    /\ memo' = [memo EXCEPT ![Top.id] = answer']
    /\ stack' = Below
    /\ UNCHANGED <<doc, phase, fixpoint, complete>>

Leave ==
    /\ phase = "completeness"
    /\ stack # <<>>
    /\ answer = "no" \/ Top.rest = <<>>
    /\ answer' = IF answer = "no" THEN "no" ELSE "yes"
    /\ memo' = [memo EXCEPT ![Top.id] = answer']
    /\ stack' = Below
    /\ UNCHANGED <<doc, phase, fixpoint, complete>>

SetComplete ==
    /\ phase = "completeness"
    /\ stack = <<>> /\ answer # "none"
    /\ complete' = [complete EXCEPT ![Order[position[1]]] = answer]
    /\ answer' = "none"
    /\ position' = <<position[1] + 1, 1>>
    /\ UNCHANGED <<doc, phase, exported, changed, memo, stack>>

Finish ==
    /\ phase = "completeness"
    /\ stack = <<>> /\ answer = "none"
    /\ position[1] > Len(Order)
    /\ phase' = "done"
    /\ UNCHANGED <<doc, fixpoint, search>>

-----------------------------------------------------------------------------
Next ==
    \/ Reexport \/ NextModule \/ EndPass
    \/ AskModule \/ AskImport \/ Leave \/ SetComplete \/ Finish

Spec == Init /\ [][Next]_vars

\* One synchronous function: it is never abandoned.
FairSpec == Spec /\ WF_vars(Next)

-----------------------------------------------------------------------------
(***************************************************************************)
(* Properties.                                                             *)
(***************************************************************************)

\* Types; no module is on the stack of the search twice, so that an import
\* cycle cannot make the recursion endless.
TypeOK ==
    /\ doc \in DocumentType
    /\ phase \in {"exports", "completeness", "done"}
    /\ exported \in [Modules -> SUBSET Classes]
    /\ position \in (1 .. (Len(Order) + 1)) \X (Nat \ {0})
    /\ changed \in BOOLEAN
    /\ memo \in [Modules -> Verdicts \cup {"none"}]
    /\ stack \in Seq(Frame)
    /\ \A i, j \in 1 .. Len(stack) : stack[i].id = stack[j].id => i = j
    /\ answer \in Verdicts \cup {"none"}
    /\ complete \in [Modules -> Verdicts \cup {"none"}]

\* An assignment of classes that respects every export and every re-export.
RespectsExports(classes) ==
    \A m \in Modules :
        /\ doc.exportsClasses[m] \subseteq classes[m]
        /\ \A i \in 1 .. Len(doc.exportsModules[m]) :
              classes[doc.exportsModules[m][i]] \subseteq classes[m]

\* "using a cycle-safe fixed point" (docs/nest-modules-and-global-guards.md):
\* once the loop is left, what each module exports respects every re-export,
\* through cycles too, and is the least assignment that does.
ExportsAreLeastFixpoint ==
    phase # "exports" =>
        /\ RespectsExports(exported)
        /\ \A classes \in [Modules -> SUBSET Classes] :
              RespectsExports(classes) => \A m \in Modules : exported[m] \subseteq classes[m]

\* A set of modules that holds every import of its members.
HoldsImports(set) ==
    \A m \in set : \A i \in 1 .. Len(doc.imports[m]) : doc.imports[m][i] \in set

\* An incomplete module is among m and what it imports, however far.
ReachesIncomplete(m) ==
    \A set \in SUBSET Modules :
        m \in set /\ HoldsImports(set) => set \cap doc.incomplete # {}

\* A module is only called incomplete when it, or a module it imports however
\* far, is: cached answers and cycles never make up a gap.
IncompleteIsJustified ==
    \A m \in Modules : complete[m] = "no" => ReachesIncomplete(m)

\* The imports have no cycle: every non-empty set of modules has a member that
\* imports none of them.
Acyclic ==
    \A set \in (SUBSET Modules) \ {{}} :
        \E m \in set : \A i \in 1 .. Len(doc.imports[m]) : doc.imports[m][i] \notin set

\* Where imports have no cycle, a module called complete imports, however far,
\* only modules whose metadata is complete.
CompleteIsRightWithoutCycles ==
    Acyclic => \A m \in Modules : complete[m] = "yes" => ~ReachesIncomplete(m)

\* What the documentation's "cycle-safe" promises of completeness, cycles or
\* not.
CompleteIsRight ==
    \A m \in Modules : complete[m] = "yes" => ~ReachesIncomplete(m)

\* Both loops end, whatever cycles the document has.
ViewIsBuilt == <>(phase = "done")

=============================================================================
