-------------------------- MODULE MCDependencySolver --------------------------
(* A small instance of DependencySolver.  Of three services "a" has two     *)
(* versions, the others one; "c" may provide the feature of "a" too.  A     *)
(* version of "a" that provides nothing does not declare the name "a", that *)
(* "c" may require.                                                         *)
EXTENDS DependencySolver, TLC

MCRoot == "fa" :> "a" @@ "fb" :> "b" @@ "fc" :> "c"

Is(x, S) == [name |-> x, accepts |-> S]

AEntries == [provide: {"fa" :> 1, "fa" :> 2},
             require: {{}, {Is("fb", {1, 2})}, {Is("b", {Missing})},
                       {Is("fb", {2}), Is("fc", {1, 2})}}]
BEntries == [provide: {<< >>, "fb" :> 1, "fb" :> 2},
             require: {{}, {Is("fa", {2})}, {Is("fc", {1, 2})}}]
           \cup {[provide |-> "fb" :> 2, require |-> {Is("fb", {2})}]}
CEntries == [provide: {<< >>, "fc" :> 2, "fa" :> 1},
             require: {{}, {Is("fa", {1})}, {Is("a", {Present})}}]

Nothing == [provide |-> << >>, require |-> {}]

Listed(s, V, E) == {[name |-> s, versions |-> f] : f \in [V -> E]}
ListedA == {[name |-> "a", versions |-> 1 :> e @@ 2 :> f] :
                e \in AEntries, f \in AEntries \cup {Nothing}}

MCCatalogs ==
    {<<a, b, c>> : a \in ListedA, b \in Listed("b", {1}, BEntries), c \in Listed("c", {1}, CEntries)}
=============================================================================
