-------------------------- MODULE MCModuleVisibility --------------------------
(***************************************************************************)
(* Three modules: every import graph with every choice of incomplete       *)
(* modules, and every re-export graph with two classes.                    *)
(***************************************************************************)
EXTENDS ModuleVisibility, FiniteSets

MCOrder == <<1, 2, 3>>

\* Lists without repetition, in every order.
Lists ==
    {<<>>} \cup {<<a>> : a \in Modules}
    \cup {s \in Modules \X Modules : s[1] # s[2]}

Imports ==
    [imports |-> Lists, reexports |-> {<<>>}, exports |-> {{}},
     incomplete |-> SUBSET Modules]

Reexports ==
    [imports |-> {<<>>}, reexports |-> Lists, exports |-> SUBSET Classes,
     incomplete |-> {{}}]

MCFamilies == {Imports, Reexports}
==============================================================================
