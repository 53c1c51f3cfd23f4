--------------------------- MODULE DependencySolver ---------------------------
(***************************************************************************)
(* The dependency_solver service (services/overseer/dependency_solver).    *)
(* A catalog lists services and, for each version, the features it         *)
(* provides and the requirements it has.  solve_dependencies pins a        *)
(* version of every service, one service after the other, and backtracks;  *)
(* explain tells what fails in one phase.                                  *)
(*                                                                         *)
(* The recursive generator is an explicit stack: pins is tmp_solution, and *)
(* todo[n] the pins its call of depth n has yet to try.                    *)
(*                                                                         *)
(* A requirement is an expression on the value of one name: a feature      *)
(* "service:rpc:method", or a service, which is there or is missing.       *)
(* Not modelled: expressions on several names, the debug output, and the   *)
(* extra constraints, which no service passes.                             *)
(***************************************************************************)
EXTENDS Integers, Sequences, FiniteSets

CONSTANTS
    Services,      \* names of services
    Features,      \* names of features
    Root,          \* feature -> the service its path starts with
    Catalogs       \* the catalogs that are solved

Names == Services \cup Features

(* The value of a name that nothing provides, and of a service that is.    *)
Missing == 0
Present == 1

IsRequirement(r) ==
    /\ r.name \in Names /\ r.accepts \subseteq Nat
    /\ Missing \in r.accepts => r.name \in Services

(* A feature that is missing raises, which refuses the version, whatever   *)
(* the expression; only a service may be required not to be there.         *)
IsEntry(e) ==
    /\ DOMAIN e.provide \subseteq Features
    /\ \A f \in DOMAIN e.provide : e.provide[f] \in Nat \ {Missing}
    /\ \A r \in e.require : IsRequirement(r)

(* A sequence of services, each once, with their versions.                 *)
IsCatalog(c) ==
    /\ Len(c) \in Nat /\ DOMAIN c = 1 .. Len(c)
    /\ \A i \in DOMAIN c :
          /\ c[i].name \in Services
          /\ IsFiniteSet(DOMAIN c[i].versions)
          /\ \A v \in DOMAIN c[i].versions : v \in Nat /\ IsEntry(c[i].versions[v])
    /\ \A i, j \in DOMAIN c : c[i].name = c[j].name => i = j

ASSUME ConstantsAssumption ==
    /\ Services \cap Features = {}
    /\ Root \in [Features -> Services]
    /\ \A c \in Catalogs : IsCatalog(c)

VARIABLES
    catalog,       \* the catalog
    pins,          \* tmp_solution: the pins made so far
    todo,          \* per call under way: the pins to try
    results,       \* the solutions yielded
    state          \* "solving" or "done"

vars == <<catalog, pins, todo, results, state>>

(* A pin: a position in the catalog and one of its versions.               *)
Pins(S) == {p \in [service: S, version: UNION {DOMAIN catalog[i].versions : i \in S}] :
               p.version \in DOMAIN catalog[p.service].versions}
EntryOf(p) == catalog[p.service].versions[p.version]

-----------------------------------------------------------------------------
(* What is provided                                                        *)

(* build_provided: the value of a name for pins ps.  A later pin overrides *)
(* the features of an earlier one.                                         *)
ProvidersBefore(ps, f) ==                            \* mutant: what it provides itself is not seen
    {n \in DOMAIN ps \ {Len(ps)} : f \in DOMAIN EntryOf(ps[n]).provide}
Providers(ps, f) == {n \in DOMAIN ps : f \in DOMAIN EntryOf(ps[n]).provide}
LastOf(S) == CHOOSE n \in S : \A m \in S : m <= n
Value(ps, x) ==
    IF x \in Features
       THEN IF Providers(ps, x) = {} THEN Missing
            ELSE EntryOf(ps[LastOf(Providers(ps, x))]).provide[x]
       ELSE IF \E n \in DOMAIN ps : catalog[ps[n].service].name = x
               THEN Present ELSE Missing

(* check_requirements.                                                     *)
CheckOne(p, ps) ==                                   \* mutant: one requirement is enough
    EntryOf(p).require = {} \/ \E r \in EntryOf(p).require : Value(ps, r.name) \in r.accepts
CheckRequirements(p, ps) ==
    \A r \in EntryOf(p).require : Value(ps, r.name) \in r.accepts

(* compile_symbole_table: the names an expression may use, those of the    *)
(* features provided by some pin of P and the services they are part of.   *)
Scope(P) ==
    LET F == UNION {DOMAIN EntryOf(p).provide : p \in P} IN F \cup {Root[f] : f \in F}

(* compile_conditions: a version that requires a name out of scope is left *)
(* out.                                                                    *)
Conditions(P) == {p \in P : \A r \in EntryOf(p).require : r.name \in Scope(P)}

-----------------------------------------------------------------------------
(* solve and backtrack                                                     *)

(* The pins a call tries when ps is pinned.                                *)
CandidatesAfter(c, ps) ==                            \* mutant: the services that follow only
    {p \in c : \A n \in DOMAIN ps : ps[n].service < p.service}
Candidates(c, ps) ==
    {p \in c : \A n \in DOMAIN ps : ps[n].service # p.service}

(* The services in the order of the catalog, the greatest version first.   *)
First(P) == CHOOSE p \in P : \A q \in P :
                p.service < q.service \/ (p.service = q.service /\ p.version >= q.version)

Variables == Conditions(Pins(DOMAIN catalog))

Init ==
    /\ catalog \in Catalogs
    /\ pins = << >>
    /\ todo = <<Candidates(Variables, << >>)>>
    /\ results = << >>
    /\ state = "solving"

Top == todo[Len(todo)]
Tried == [todo EXCEPT ![Len(todo)] = @ \ {First(@)}]

(* The next pin is accepted: the services that remain are tried.           *)
TryNextService ==
    LET ps == Append(pins, First(Top))
    IN /\ state = "solving" /\ Top # {}
       /\ CheckRequirements(First(Top), ps)
       /\ pins' = ps
       /\ todo' = Append(Tried, Candidates(Variables, ps))
       /\ UNCHANGED <<catalog, results, state>>

(* It is refused: the following pin is next.                               *)
RefuseForever ==                                     \* mutant: the pin is tried again
    /\ state = "solving" /\ Top # {}
    /\ ~CheckRequirements(First(Top), Append(pins, First(Top)))
    /\ todo' = todo
    /\ UNCHANGED <<catalog, pins, results, state>>
Refuse ==
    /\ state = "solving" /\ Top # {}
    /\ ~CheckRequirements(First(Top), Append(pins, First(Top)))
    /\ todo' = Tried
    /\ UNCHANGED <<catalog, pins, results, state>>

(* The phase of pins ps.                                                   *)
Phase(ps) == {ps[n] : n \in DOMAIN ps}
Complete == Len(pins) = Len(catalog)
Yielded == {results[n] : n \in DOMAIN results}

(* A call returns when it has nothing left to try.  When every service is  *)
(* pinned it has yielded the solution, unless it was encountered.          *)
ReturnShared ==                                      \* mutant: one list for all the calls
    /\ state = "solving" /\ Top = {}
    /\ results' = IF Complete /\ Phase(pins) \notin Yielded
                     THEN Append(results, Phase(pins)) ELSE results
    /\ todo' = SubSeq(todo, 1, Len(todo) - 1)
    /\ state' = IF Len(todo) = 1 THEN "done" ELSE state
    /\ UNCHANGED <<catalog, pins>>
Return ==
    /\ state = "solving" /\ Top = {}
    /\ results' = IF Complete /\ Phase(pins) \notin Yielded
                     THEN Append(results, Phase(pins)) ELSE results
    /\ todo' = SubSeq(todo, 1, Len(todo) - 1)
    /\ pins' = IF pins = << >> THEN pins ELSE SubSeq(pins, 1, Len(pins) - 1)
    /\ state' = IF pins = << >> THEN "done" ELSE state
    /\ UNCHANGED catalog

Solved == state = "done" /\ UNCHANGED vars

Next == TryNextService \/ Refuse \/ Return \/ Solved

Spec == Init /\ [][Next]_vars
FairSpec == Spec /\ WF_vars(TryNextService \/ Refuse \/ Return)

-----------------------------------------------------------------------------
(* explain                                                                 *)

(* The number of services of phase P that fail, for a catalog that has     *)
(* these versions only: what is not in its scope is left out.              *)
AsSequence(P) == CHOOSE ps \in [1 .. Cardinality(P) -> P] :
    \A m, n \in 1 .. Cardinality(P) : m < n => ps[m].service < ps[n].service
Failed(P) ==
    LET ps == AsSequence(Conditions(P))
    IN {p \in Conditions(P) : ~CheckRequirements(p, ps)}

-----------------------------------------------------------------------------
(* References                                                              *)

(* Every choice of one listed version per service.                         *)
Phases == {P \in SUBSET Pins(DOMAIN catalog) :
              /\ Cardinality(P) = Len(catalog)
              /\ \A p, q \in P : p.service = q.service => p = q}

(* Requirement r holds where the pins ps run: for a feature the last that  *)
(* provides it counts.                                                     *)
Holds(r, ps) ==
    \/ /\ r.name \in Services
       /\ (IF \E n \in DOMAIN ps : catalog[ps[n].service].name = r.name
             THEN Present ELSE Missing) \in r.accepts
    \/ \E n \in DOMAIN ps :
          /\ r.name \in DOMAIN EntryOf(ps[n]).provide
          /\ EntryOf(ps[n]).provide[r.name] \in r.accepts
          /\ \A m \in DOMAIN ps : m > n => r.name \notin DOMAIN EntryOf(ps[m]).provide
AllHold(p, ps) == \A r \in EntryOf(p).require : Holds(r, ps)

(* The requirements hold when all the versions of P run.                   *)
Compatible(P) == \A p \in P : AllHold(p, AsSequence(P))

(* The pins in an order in which each finds its requirements provided.     *)
Startable(P) ==
    \E ps \in [1 .. Cardinality(P) -> P] :
        /\ Phase(ps) = P
        /\ \A n \in DOMAIN ps : AllHold(ps[n], SubSeq(ps, 1, n))

(* Some service of every group asks nothing of the others of the group.    *)
Needs(p, q) == \E r \in EntryOf(p).require :
                  r.name \in DOMAIN EntryOf(q).provide \/ r.name = catalog[q.service].name
Grounded(P) ==
    \A G \in (SUBSET P) \ {{}} : \E p \in G : \A q \in G \ {p} : ~Needs(p, q)

(* A catalog where a feature is provided by one service, nothing is        *)
(* required not to be there, and no service that provides nothing is       *)
(* required: nothing would declare its name.                               *)
Simple ==
    LET all == Pins(DOMAIN catalog)
    IN /\ \A p, q \in all :
             DOMAIN EntryOf(p).provide \cap DOMAIN EntryOf(q).provide # {}
                => p.service = q.service
       /\ \A p \in all : \A r \in EntryOf(p).require : 
             Missing \notin r.accepts /\ r.name \in Features \cup Scope(all)

-----------------------------------------------------------------------------
(* Properties                                                              *)

(* The stack has a call per pin and one more, and what is pinned and what  *)
(* is yielded is listed in the catalog.                                    *)
TypeOK ==
    /\ catalog \in Catalogs
    /\ pins \in Seq(Pins(DOMAIN catalog))
    /\ todo \in Seq(SUBSET Pins(DOMAIN catalog))
    /\ results \in Seq(SUBSET Pins(DOMAIN catalog))
    /\ \/ state = "solving" /\ Len(todo) = Len(pins) + 1
       \/ state = "done" /\ todo = << >>

(* A solution can be reached by starting its versions one after the other, *)
(* each finding its requirements met, whatever the catalog requires or     *)
(* provides twice.                                                         *)
ResultsStartable == \A P \in Yielded : P \in Phases /\ Startable(P)

(* For a simple catalog the solutions are the phases that are compatible   *)
(* and where no services wait for each other: nothing is forgotten by the  *)
(* backtracking, and pinning one more service breaks no other.             *)
SolvesSimpleCatalogs ==
    state = "done" /\ Simple =>
        Yielded = {P \in Phases : Compatible(P) /\ Grounded(P)}

(* explain finds nothing wrong with a solution of a simple catalog, unless *)
(* one of its versions requires a service of which the solution has a      *)
(* version that declares no name: explain compiles the names of the        *)
(* solution alone, and leaves that version out.                            *)
SolutionsExplained ==
    Simple => \A P \in Yielded : Conditions(P) = P => Failed(P) = {}

(* The search ends.                                                        *)
Terminates == <>(state = "done")

(* "try only one possiblitiy and return if it's a valid phase or not":     *)
(* explain counts a failure exactly when a requirement does not hold, on   *)
(* which build_steps relies to accept a step when it counts none.          *)
ExplainIsRight == \A P \in Phases : Failed(P) = {} <=> Compatible(P)
=============================================================================
