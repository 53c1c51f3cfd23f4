------------------------- MODULE DependencySolverProofs -------------------------
(***************************************************************************)
(* The search of dependency_solver, for every catalog: its stack is well   *)
(* formed; every solution can be reached by starting its versions one      *)
(* after the other, each with its requirements met; and for a simple       *)
(* catalog the solutions are those there should be, and explain agrees.    *)
(***************************************************************************)
EXTENDS DependencySolver, FiniteSetTheorems, SequenceTheorems, WellFoundedInduction, TLAPS

-----------------------------------------------------------------------------
(* Sets of numbers                                                         *)

LEMMA LeastOf ==
    ASSUME NEW S \in SUBSET Nat, S # {}
    PROVE  \E m \in S : \A n \in S : m <= n
PROOF
  <1> DEFINE R == OpToRel(<, Nat)
  <1>1. IsWellFoundedOn(R, Nat)
    BY NatLessThanWellFounded
  <1>2. \A x, y \in Nat : <<x, y>> \in R <=> x < y
    BY DEF OpToRel
  <1> HIDE DEF R
  <1>3. PICK m \in S : \A n \in S : ~ (<<n, m>> \in R)
    BY <1>1, WFMin
  <1>4. ASSUME NEW n \in S PROVE m <= n
    <2>1. m \in Nat /\ n \in Nat
      OBVIOUS
    <2>2. ~ (n < m)
      BY <1>2, <1>3, <2>1
    <2> QED
      BY <2>1, <2>2
  <1> QED
    BY <1>4

(* A finite set has a greatest: the smallest set without one would, less   *)
(* an element, be a smaller one.                                           *)
HasGreatest(S) == \E m \in S : \A n \in S : n <= m

LEMMA GreatestOf ==
    ASSUME NEW S \in SUBSET Nat, S # {}, IsFiniteSet(S)
    PROVE  HasGreatest(S)
PROOF
  <1> DEFINE Bad(k) == \E T \in SUBSET Nat : /\ T # {} /\ IsFiniteSet(T) /\ Cardinality(T) = k
                                             /\ ~ HasGreatest(T)
             K == {k \in Nat : Bad(k)}
  <1>1. SUFFICES K = {}
    <2>1. Cardinality(S) \in Nat
      BY FS_CardinalityType
    <2> QED
      BY <2>1
  <1>2. SUFFICES ASSUME K # {} PROVE FALSE
    OBVIOUS
  <1>3. PICK k \in K : \A n \in K : k <= n
    BY <1>2, LeastOf
  <1>4. PICK T \in SUBSET Nat : /\ T # {} /\ IsFiniteSet(T) /\ Cardinality(T) = k
                                /\ ~ HasGreatest(T)
    BY <1>3
  <1>5. PICK x \in T : TRUE
    BY <1>4
  <1> DEFINE U == T \ {x}
  <1>6. IsFiniteSet(U) /\ Cardinality(U) = k - 1 /\ Cardinality(U) \in Nat
    BY <1>4, <1>5, FS_RemoveElement, FS_CardinalityType
  <1>7. CASE U = {}
    <2>1. T = {x} /\ x \in Nat
      BY <1>4, <1>5, <1>7
    <2> QED
      BY <1>4, <2>1 DEF HasGreatest
  <1>8. CASE U # {}
    <2>1. k \in Nat /\ k - 1 \in Nat /\ ~ (k <= k - 1)
      BY <1>6
    <2>2. k - 1 \notin K
      BY <1>3, <2>1
    <2>3. ~ Bad(k - 1)
      BY <2>1, <2>2
    <2>4. HasGreatest(U)
      BY <1>4, <1>6, <1>8, <2>3
    <2>5. PICK y \in U : \A n \in U : n <= y
      BY <2>4 DEF HasGreatest
    <2>6. x \in Nat /\ y \in Nat /\ y \in T /\ \A n \in T : n \in Nat /\ (n = x \/ n <= y)
      BY <1>4, <1>5, <2>5
    <2>7. CASE x <= y
      BY <1>4, <2>6, <2>7 DEF HasGreatest
    <2>8. CASE y <= x
      <3>1. \A n \in T : n <= x
        BY <2>6, <2>8
      <3> QED
        BY <1>4, <1>5, <3>1 DEF HasGreatest
    <2> QED
      BY <2>6, <2>7, <2>8
  <1> QED
    BY <1>7, <1>8

-----------------------------------------------------------------------------
(* The pins of a catalog                                                   *)

AllPins == Pins(DOMAIN catalog)

LEMMA PinFacts ==
    ASSUME catalog \in Catalogs, NEW p \in AllPins
    PROVE  /\ p = [service |-> p.service, version |-> p.version]
           /\ p.service \in DOMAIN catalog /\ p.service \in Nat
           /\ p.version \in DOMAIN catalog[p.service].versions /\ p.version \in Nat
           /\ IsFiniteSet(DOMAIN catalog[p.service].versions)
           /\ IsEntry(EntryOf(p))
PROOF
  <1>1. IsCatalog(catalog)
    BY ConstantsAssumption
  <1>2. /\ p = [service |-> p.service, version |-> p.version]
        /\ p.service \in DOMAIN catalog
        /\ p.version \in DOMAIN catalog[p.service].versions
    BY DEF AllPins, Pins
  <1>3. p.service \in Nat
    BY <1>1, <1>2 DEF IsCatalog
  <1>4. /\ p.version \in Nat /\ IsEntry(EntryOf(p))
        /\ IsFiniteSet(DOMAIN catalog[p.service].versions)
    BY <1>1, <1>2 DEF IsCatalog, EntryOf
  <1> QED
    BY <1>2, <1>3, <1>4

(* The services in order, the greatest version first: there is a first.    *)
LEMMA FirstIn ==
    ASSUME catalog \in Catalogs, NEW P \in SUBSET AllPins, P # {}
    PROVE  First(P) \in P
PROOF
  <1> DEFINE S == {p.service : p \in P}
  <1>1. S \in SUBSET Nat /\ S # {}
    BY PinFacts
  <1>2. PICK m \in S : \A n \in S : m <= n
    BY <1>1, LeastOf
  <1> DEFINE V == {p.version : p \in {q \in P : q.service = m}}
  <1>3. V # {} /\ V \in SUBSET Nat
    BY PinFacts
  <1>4. IsFiniteSet(V)
    <2>1. PICK p \in P : p.service = m
      OBVIOUS
    <2>2. IsFiniteSet(DOMAIN catalog[m].versions) /\ V \in SUBSET DOMAIN catalog[m].versions
      BY <2>1, PinFacts
    <2> QED
      BY <2>2, FS_Subset
  <1>5. PICK v \in V : \A n \in V : n <= v
    BY <1>3, <1>4, GreatestOf DEF HasGreatest
  <1>6. PICK p \in P : p.service = m /\ p.version = v
    OBVIOUS
  <1>7. ASSUME NEW q \in P
        PROVE  p.service < q.service \/ (p.service = q.service /\ p.version >= q.version)
    <2>1. p.service \in Nat /\ q.service \in Nat /\ p.version \in Nat /\ q.version \in Nat
      BY PinFacts
    <2>2. p.service <= q.service
      BY <1>2, <1>6
    <2>3. p.service = q.service => q.version <= p.version
      BY <1>5, <1>6
    <2> QED
      BY <2>1, <2>2, <2>3
  <1> QED
    BY <1>7 DEF First

-----------------------------------------------------------------------------
(* Types                                                                   *)

LEMMA VariablesArePins == Variables \in SUBSET AllPins
PROOF
  <1>1. \A P : Conditions(P) \in SUBSET P
    BY DEF Conditions
  <1> QED
    BY <1>1 DEF Variables, AllPins

LEMMA SamePins ==
    ASSUME catalog' = catalog
    PROVE  AllPins' = AllPins /\ Variables' = Variables
PROOF
  <1>1. AllPins' = AllPins
    BY DEF AllPins, Pins
  <1>2. \A p \in AllPins : EntryOf(p)' = EntryOf(p)
    BY DEF EntryOf
  <1>3. Scope(AllPins)' = Scope(AllPins)
    BY <1>1, <1>2 DEF Scope
  <1>4. Conditions(AllPins)' = Conditions(AllPins)
    BY <1>1, <1>2, <1>3 DEF Conditions
  <1> QED
    BY <1>1, <1>4 DEF Variables, AllPins

LEMMA PrefixFacts ==
    ASSUME NEW S, NEW s \in Seq(S), NEW k \in 0 .. Len(s)
    PROVE  /\ SubSeq(s, 1, k) \in Seq(S) /\ Len(SubSeq(s, 1, k)) = k
           /\ DOMAIN SubSeq(s, 1, k) = 1 .. k
           /\ \A n \in 1 .. k : SubSeq(s, 1, k)[n] = s[n]
PROOF
  <1>1. Len(s) \in Nat /\ k \in Int /\ k - 1 + 1 = k
    OBVIOUS
  <1>2. \A i \in 1 .. k : s[i] \in S
    BY <1>1
  <1>3. /\ SubSeq(s, 1, k) \in Seq(S)
        /\ Len(SubSeq(s, 1, k)) = IF 1 <= k THEN k - 1 + 1 ELSE 0
        /\ \A i \in 1 .. k - 1 + 1 : SubSeq(s, 1, k)[i] = s[1 + i - 1]
    BY <1>1, <1>2, SubSeqProperties
  <1>4. Len(SubSeq(s, 1, k)) = k
    BY <1>1, <1>3
  <1>5. \A i \in 1 .. k : 1 + i - 1 = i
    OBVIOUS
  <1>6. \A i \in 1 .. k : SubSeq(s, 1, k)[i] = s[i]
    BY <1>1, <1>3, <1>5
  <1> QED
    BY <1>3, <1>4, <1>6

LEMMA FrontFacts ==
    ASSUME NEW S, NEW s \in Seq(S), s # << >>
    PROVE  /\ Len(s) \in Nat \ {0}
           /\ SubSeq(s, 1, Len(s) - 1) \in Seq(S) /\ Len(SubSeq(s, 1, Len(s) - 1)) = Len(s) - 1
           /\ \A n \in 1 .. Len(s) - 1 : SubSeq(s, 1, Len(s) - 1)[n] = s[n]
           /\ Len(s) = 1 => SubSeq(s, 1, Len(s) - 1) = << >>
PROOF
  <1>1. Len(s) \in Nat \ {0} /\ Len(s) - 1 \in 0 .. Len(s)
    OBVIOUS
  <1>2. Len(s) = 1 => SubSeq(s, 1, Len(s) - 1) = << >>
    BY <1>1, SubSeqEmpty
  <1> QED
    BY <1>1, <1>2, PrefixFacts

LEMMA AppendFacts ==
    ASSUME NEW S, NEW s \in Seq(S), NEW x \in S
    PROVE  /\ Append(s, x) \in Seq(S) /\ Len(Append(s, x)) = Len(s) + 1 /\ Len(s) \in Nat
           /\ \A n \in 1 .. Len(s) : Append(s, x)[n] = s[n]
           /\ Append(s, x)[Len(s) + 1] = x
  OBVIOUS

(* What a step of the search starts from.                                  *)
LEMMA SearchFacts ==
    ASSUME TypeOK, state = "solving"
    PROVE  /\ pins \in Seq(AllPins) /\ Len(pins) \in Nat /\ DOMAIN pins = 1 .. Len(pins)
           /\ todo \in Seq(SUBSET AllPins) /\ Len(todo) = Len(pins) + 1 /\ todo # << >>
           /\ DOMAIN todo = 1 .. Len(pins) + 1
           /\ results \in Seq(SUBSET AllPins)
           /\ Top = todo[Len(pins) + 1] /\ Top \in SUBSET AllPins
           /\ Top # {} => First(Top) \in Top /\ First(Top) \in AllPins
PROOF
  <1>1. /\ catalog \in Catalogs /\ pins \in Seq(AllPins) /\ todo \in Seq(SUBSET AllPins)
        /\ results \in Seq(SUBSET AllPins) /\ Len(todo) = Len(pins) + 1
    BY DEF TypeOK, AllPins
  <1>2. /\ Len(pins) \in Nat /\ DOMAIN pins = 1 .. Len(pins) /\ DOMAIN todo = 1 .. Len(pins) + 1
        /\ todo # << >>
    BY <1>1
  <1>3. Top = todo[Len(pins) + 1] /\ Top \in SUBSET AllPins
    BY <1>1, <1>2 DEF Top
  <1> QED
    BY <1>1, <1>2, <1>3, FirstIn

LEMMA TriedFacts ==
    ASSUME TypeOK, state = "solving", Top # {}
    PROVE  /\ Tried \in Seq(SUBSET AllPins) /\ Len(Tried) = Len(pins) + 1
           /\ \A n \in 1 .. Len(pins) : Tried[n] = todo[n]
           /\ Tried[Len(pins) + 1] = Top \ {First(Top)}
PROOF
  <1>1. /\ todo \in Seq(SUBSET AllPins) /\ Len(todo) = Len(pins) + 1 /\ Len(pins) \in Nat
        /\ Top = todo[Len(pins) + 1] /\ Top \in SUBSET AllPins
    BY SearchFacts
  <1> DEFINE T == Top \ {First(Top)}
  <1>2. Tried = [todo EXCEPT ![Len(pins) + 1] = T]
    BY <1>1 DEF Tried
  <1>3. T \in SUBSET AllPins
    BY <1>1
  <1> HIDE DEF T
  <1>4. Tried \in Seq(SUBSET AllPins) /\ Len(Tried) = Len(pins) + 1
    BY <1>1, <1>2, <1>3
  <1>5. Len(pins) + 1 \in DOMAIN todo /\ \A n \in 1 .. Len(pins) : n \in DOMAIN todo /\ n # Len(pins) + 1
    BY <1>1
  <1> QED
    BY <1>2, <1>4, <1>5 DEF T

LEMMA TryFacts ==
    ASSUME TypeOK, TryNextService
    PROVE  /\ pins' = Append(pins, First(Top)) /\ pins' \in Seq(AllPins)
           /\ todo' = Append(Tried, Candidates(Variables, pins'))
           /\ todo' \in Seq(SUBSET AllPins) /\ Len(todo') = Len(pins') + 1
           /\ UNCHANGED <<catalog, results, state>>
PROOF
  <1>1. state = "solving" /\ Top # {} /\ UNCHANGED <<catalog, results, state>>
        /\ pins' = Append(pins, First(Top))
        /\ todo' = Append(Tried, Candidates(Variables, pins'))
    BY DEF TryNextService
  <1>2. pins' \in Seq(AllPins) /\ Len(pins') = Len(pins) + 1
    BY <1>1, SearchFacts, AppendFacts
  <1>3. Candidates(Variables, pins') \in SUBSET AllPins
    BY VariablesArePins DEF Candidates
  <1>4. Tried \in Seq(SUBSET AllPins) /\ Len(Tried) = Len(pins) + 1
    BY <1>1, TriedFacts
  <1>5. todo' \in Seq(SUBSET AllPins) /\ Len(todo') = Len(Tried) + 1
    BY <1>1, <1>3, <1>4, AppendFacts
  <1> QED
    BY <1>1, <1>2, <1>4, <1>5

LEMMA ReturnFacts ==
    ASSUME TypeOK, Return
    PROVE  /\ state = "solving" /\ catalog' = catalog
           /\ \/ results' = results
              \/ /\ results' = Append(results, Phase(pins)) /\ Complete /\ Phase(pins) \notin Yielded
                 /\ Phase(pins) \in SUBSET AllPins
           /\ results' \in Seq(SUBSET AllPins)
           /\ pins' \in Seq(AllPins) /\ todo' \in Seq(SUBSET AllPins)
           /\ \/ pins = << >> /\ pins' = pins /\ todo' = << >> /\ state' = "done"
              \/ /\ pins # << >> /\ state' = "solving" /\ Len(pins') = Len(pins) - 1
                 /\ Len(todo') = Len(pins)
                 /\ \A n \in 1 .. Len(pins) - 1 : pins'[n] = pins[n]
                 /\ \A n \in 1 .. Len(pins) : todo'[n] = todo[n]
PROOF
  <1>1. /\ state = "solving" /\ catalog' = catalog
        /\ results' = IF Complete /\ Phase(pins) \notin Yielded
                         THEN Append(results, Phase(pins)) ELSE results
        /\ todo' = SubSeq(todo, 1, Len(todo) - 1)
        /\ pins' = IF pins = << >> THEN pins ELSE SubSeq(pins, 1, Len(pins) - 1)
        /\ state' = IF pins = << >> THEN "done" ELSE state
    BY DEF Return
  <1>2. /\ pins \in Seq(AllPins) /\ Len(pins) \in Nat /\ DOMAIN pins = 1 .. Len(pins)
        /\ todo \in Seq(SUBSET AllPins) /\ Len(todo) = Len(pins) + 1 /\ todo # << >>
        /\ results \in Seq(SUBSET AllPins)
    BY <1>1, SearchFacts
  <1>3. Phase(pins) \in SUBSET AllPins
    BY <1>2 DEF Phase
  <1>4. results' \in Seq(SUBSET AllPins)
    BY <1>1, <1>2, <1>3, AppendFacts
  <1>5. /\ todo' \in Seq(SUBSET AllPins) /\ Len(todo') = Len(pins)
        /\ \A n \in 1 .. Len(pins) : todo'[n] = todo[n]
        /\ Len(todo) = 1 => todo' = << >>
    BY <1>1, <1>2, FrontFacts
  <1>6. CASE pins = << >>
    <2>1. Len(todo) = 1
      BY <1>2, <1>6
    <2> QED
      BY <1>1, <1>2, <1>3, <1>4, <1>5, <1>6, <2>1
  <1>7. CASE pins # << >>
    <2>1. /\ pins' \in Seq(AllPins) /\ Len(pins') = Len(pins) - 1
          /\ \A n \in 1 .. Len(pins) - 1 : pins'[n] = pins[n]
      BY <1>1, <1>2, <1>7, FrontFacts
    <2> QED
      BY <1>1, <1>3, <1>4, <1>5, <1>7, <2>1
  <1> QED
    BY <1>6, <1>7

LEMMA TypeInit == Init => TypeOK
PROOF
  <1> SUFFICES ASSUME Init PROVE TypeOK
    OBVIOUS
  <1> DEFINE C == Candidates(Variables, << >>)
  <1>1. C \in SUBSET AllPins
    BY VariablesArePins DEF Candidates
  <1>2. catalog \in Catalogs /\ pins = << >> /\ todo = <<C>> /\ results = << >> /\ state = "solving"
    BY DEF Init
  <1> HIDE DEF C
  <1>3. todo \in Seq(SUBSET AllPins) /\ Len(todo) = 1 /\ Len(pins) = 0
    BY <1>1, <1>2
  <1>4. pins \in Seq(AllPins) /\ results \in Seq(SUBSET AllPins)
    BY <1>2
  <1> QED
    BY <1>2, <1>3, <1>4 DEF TypeOK, AllPins

LEMMA TypeStep == TypeOK /\ [Next]_vars => TypeOK'
PROOF
  <1> SUFFICES ASSUME TypeOK, [Next]_vars PROVE TypeOK'
    OBVIOUS
  <1>1. catalog' = catalog /\ catalog \in Catalogs
    BY DEF Next, TryNextService, Refuse, Return, Solved, vars, TypeOK
  <1>2. AllPins' = AllPins
    BY <1>1, SamePins
  <1>3. SUFFICES /\ pins' \in Seq(AllPins) /\ todo' \in Seq(SUBSET AllPins)
                 /\ results' \in Seq(SUBSET AllPins)
                 /\ \/ state' = "solving" /\ Len(todo') = Len(pins') + 1
                    \/ state' = "done" /\ todo' = << >>
    BY <1>1, <1>2 DEF TypeOK, AllPins
  <1>4. CASE TryNextService
    BY <1>4, TryFacts, SearchFacts DEF TryNextService
  <1>5. CASE Refuse
    BY <1>5, TriedFacts, SearchFacts DEF Refuse
  <1>6. CASE Return
    <2>1. Len(pins) \in Nat
      BY <1>6, ReturnFacts, SearchFacts
    <2> QED
      BY <1>6, <2>1, ReturnFacts
  <1>7. CASE UNCHANGED vars
    BY <1>7 DEF vars, TypeOK, AllPins
  <1> QED
    BY <1>4, <1>5, <1>6, <1>7 DEF Next, Solved

(* Whatever the catalogs, the stack has a call per pin and one more until  *)
(* the search is over, and only listed versions are pinned and yielded.    *)
THEOREM TypeCorrect == Spec => []TypeOK
  BY TypeInit, TypeStep, PTL DEF Spec

-----------------------------------------------------------------------------
(* The search                                                              *)

(* What a call has yet to try is pinned by no call around it.              *)
StackOK ==
    \A n \in DOMAIN todo : \A p \in todo[n] :
        \A m \in DOMAIN pins : m < n => pins[m].service # p.service

(* A service is pinned once.                                               *)
PinnedOnce == \A m, n \in DOMAIN pins : pins[m].service = pins[n].service => m = n

(* Every pin had its requirements met when it was made.                    *)
Met == \A n \in DOMAIN pins : CheckRequirements(pins[n], SubSeq(pins, 1, n))

SearchInv == StackOK /\ PinnedOnce /\ Met

LEMMA SamePrefix ==
    ASSUME NEW S, NEW s \in Seq(S), NEW t \in Seq(S), NEW k \in Nat, k <= Len(s), k <= Len(t),
           \A n \in 1 .. k : s[n] = t[n]
    PROVE  SubSeq(s, 1, k) = SubSeq(t, 1, k)
PROOF
  <1>1. k \in 0 .. Len(s) /\ k \in 0 .. Len(t)
    OBVIOUS
  <1>2. /\ SubSeq(s, 1, k) \in Seq(S) /\ Len(SubSeq(s, 1, k)) = k
        /\ \A n \in 1 .. k : SubSeq(s, 1, k)[n] = s[n]
    BY <1>1, PrefixFacts
  <1>3. /\ SubSeq(t, 1, k) \in Seq(S) /\ Len(SubSeq(t, 1, k)) = k
        /\ \A n \in 1 .. k : SubSeq(t, 1, k)[n] = t[n]
    BY <1>1, PrefixFacts
  <1> QED
    BY <1>2, <1>3, SeqEqual

LEMMA SameChecks ==
    ASSUME catalog' = catalog, NEW p, NEW ps
    PROVE  CheckRequirements(p, ps)' = CheckRequirements(p, ps)
PROOF
  <1>1. \A x : Providers(ps, x)' = Providers(ps, x)
    BY DEF Providers, EntryOf
  <1>2. \A x : Value(ps, x)' = Value(ps, x)
    BY <1>1 DEF Value, EntryOf
  <1> QED
    BY <1>2 DEF CheckRequirements, EntryOf

LEMMA SearchInit == Init => SearchInv
PROOF
  <1> SUFFICES ASSUME Init PROVE SearchInv
    OBVIOUS
  <1>1. DOMAIN pins = {}
    BY DEF Init
  <1> QED
    BY <1>1 DEF SearchInv, StackOK, PinnedOnce, Met

LEMMA SearchTry ==
    ASSUME TypeOK, SearchInv, TryNextService
    PROVE  SearchInv'
PROOF
  <1>1. PICK k \in Nat : k = Len(pins)
    BY SearchFacts DEF TryNextService
  <1>2. PICK p \in AllPins : p = First(Top) /\ p \in todo[k + 1]
    BY <1>1, SearchFacts DEF TryNextService
  <1>3. /\ state = "solving" /\ Top # {} /\ CheckRequirements(p, pins') /\ catalog' = catalog
        /\ pins' = Append(pins, p) /\ todo' = Append(Tried, Candidates(Variables, pins'))
    BY <1>2 DEF TryNextService
  <1>4. /\ pins \in Seq(AllPins) /\ DOMAIN pins = 1 .. k /\ DOMAIN todo = 1 .. k + 1
    BY <1>1, <1>3, SearchFacts
  <1>5. /\ pins' \in Seq(AllPins) /\ Len(pins') = k + 1 /\ DOMAIN pins' = 1 .. k + 1
        /\ \A n \in 1 .. k : pins'[n] = pins[n]
        /\ pins'[k + 1] = p
    BY <1>1, <1>3, <1>4, AppendFacts
  <1>6. /\ Tried \in Seq(SUBSET AllPins) /\ Len(Tried) = k + 1
        /\ \A n \in 1 .. k : Tried[n] = todo[n]
        /\ Tried[k + 1] \subseteq todo[k + 1]
    BY <1>1, <1>3, TriedFacts, SearchFacts
  <1>7. /\ DOMAIN todo' = 1 .. k + 2
        /\ \A n \in 1 .. k + 1 : todo'[n] \subseteq todo[n]
        /\ \A q \in todo'[k + 2] : \A n \in DOMAIN pins' : pins'[n].service # q.service
    <2>1. Candidates(Variables, pins') \in SUBSET AllPins
      BY VariablesArePins DEF Candidates
    <2>2. /\ Len(todo') = k + 2 /\ todo' \in Seq(SUBSET AllPins)
          /\ \A n \in 1 .. k + 1 : todo'[n] = Tried[n]
          /\ todo'[k + 2] = Candidates(Variables, pins')
      <3>1. k + 1 + 1 = k + 2
        OBVIOUS
      <3> QED
        BY <1>3, <1>6, <2>1, <3>1, AppendFacts
    <2>3. \A n \in 1 .. k + 1 : n \in 1 .. k \/ n = k + 1
      OBVIOUS
    <2>4. \A n \in 1 .. k + 1 : todo'[n] \subseteq todo[n]
      BY <1>6, <2>2, <2>3
    <2> QED
      BY <2>2, <2>4 DEF Candidates
  <1>8. \A n \in 1 .. k : pins[n].service # p.service
    <2>1. k + 1 \in DOMAIN todo /\ \A n \in 1 .. k : n < k + 1
      BY <1>4
    <2> QED
      BY <1>2, <1>4, <2>1 DEF SearchInv, StackOK
  <1>9. StackOK'
    <2>1. SUFFICES ASSUME NEW n \in 1 .. k + 2, NEW q \in todo'[n], NEW m \in 1 .. k + 1, m < n
                   PROVE  pins'[m].service # q.service
      BY <1>5, <1>7 DEF StackOK
    <2>2. CASE n = k + 2
      BY <1>5, <1>7, <2>2
    <2>3. CASE n \in 1 .. k + 1
      <3>1. m \in 1 .. k
        BY <2>1, <2>3
      <3>2. q \in todo[n] /\ pins'[m] = pins[m]
        BY <1>5, <1>7, <2>3, <3>1
      <3> QED
        BY <1>4, <2>1, <2>3, <3>1, <3>2 DEF SearchInv, StackOK
    <2> QED
      BY <2>2, <2>3
  <1>10. PinnedOnce'
    <2>1. SUFFICES ASSUME NEW m \in 1 .. k + 1, NEW n \in 1 .. k + 1,
                          pins'[m].service = pins'[n].service
                   PROVE  m = n
      BY <1>5 DEF PinnedOnce
    <2>2. (m \in 1 .. k \/ m = k + 1) /\ (n \in 1 .. k \/ n = k + 1)
      OBVIOUS
    <2>3. CASE m \in 1 .. k /\ n \in 1 .. k
      BY <1>4, <1>5, <2>1, <2>3 DEF SearchInv, PinnedOnce
    <2> QED
      BY <1>5, <1>8, <2>1, <2>2, <2>3
  <1>11. Met'
    <2>1. SUFFICES ASSUME NEW n \in 1 .. k + 1
                   PROVE  CheckRequirements(pins[n], SubSeq(pins, 1, n))'
      BY <1>5 DEF Met
    <2>2. PICK q, ps : q = pins'[n] /\ ps = SubSeq(pins', 1, n)
      OBVIOUS
    <2>3. CASE n = k + 1
      <3>1. ps = pins' /\ q = p
        BY <1>5, <2>2, <2>3, SubSeqFull
      <3>2. CheckRequirements(q, ps)
        BY <1>3, <3>1
      <3>3. CheckRequirements(q, ps)'
        BY <1>3, <3>2, SameChecks
      <3> QED
        BY <2>2, <3>3
    <2>4. CASE n \in 1 .. k
      <3>1. ps = SubSeq(pins, 1, n) /\ q = pins[n]
        BY <1>1, <1>4, <1>5, <2>2, <2>4, SamePrefix
      <3>2. CheckRequirements(q, ps)
        BY <1>4, <2>4, <3>1 DEF SearchInv, Met
      <3>3. CheckRequirements(q, ps)'
        BY <1>3, <3>2, SameChecks
      <3> QED
        BY <2>2, <3>3
    <2> QED
      BY <2>3, <2>4
  <1> QED
    BY <1>9, <1>10, <1>11 DEF SearchInv

LEMMA SearchRefuse ==
    ASSUME TypeOK, SearchInv, Refuse
    PROVE  SearchInv'
PROOF
  <1>1. state = "solving" /\ Top # {} /\ todo' = Tried /\ pins' = pins /\ catalog' = catalog
    BY DEF Refuse
  <1>2. PICK k \in Nat : k = Len(pins)
    BY <1>1, SearchFacts
  <1>3. DOMAIN todo = 1 .. k + 1 /\ DOMAIN todo' = 1 .. k + 1
    BY <1>1, <1>2, SearchFacts, TriedFacts
  <1>4. \A n \in 1 .. k + 1 : todo'[n] \subseteq todo[n]
    <2>1. \A n \in 1 .. k + 1 : n \in 1 .. k \/ n = k + 1
      OBVIOUS
    <2>2. /\ \A n \in 1 .. k : todo'[n] = todo[n]
          /\ todo'[k + 1] \subseteq todo[k + 1]
      BY <1>1, <1>2, TriedFacts, SearchFacts
    <2> QED
      BY <2>1, <2>2
  <1>5. StackOK'
    BY <1>1, <1>3, <1>4 DEF StackOK, SearchInv
  <1>6. PinnedOnce'
    BY <1>1 DEF PinnedOnce, SearchInv
  <1>7. Met'
    <2>1. \A q, ps : CheckRequirements(q, ps)' = CheckRequirements(q, ps)
      BY <1>1, SameChecks
    <2> QED
      BY <1>1, <2>1 DEF Met, SearchInv
  <1> QED
    BY <1>5, <1>6, <1>7 DEF SearchInv

LEMMA SearchReturn ==
    ASSUME TypeOK, SearchInv, Return
    PROVE  SearchInv'
PROOF
  <1>1. PICK k \in Nat : k = Len(pins)
    BY ReturnFacts, SearchFacts
  <1>2. /\ pins \in Seq(AllPins) /\ DOMAIN pins = 1 .. k /\ DOMAIN todo = 1 .. k + 1
        /\ catalog' = catalog /\ pins' \in Seq(AllPins)
    BY <1>1, ReturnFacts, SearchFacts
  <1>3. CASE pins = << >>
    <2>1. pins' = pins /\ DOMAIN pins = {} /\ todo' = << >> /\ DOMAIN todo' = {}
      BY <1>3, ReturnFacts
    <2> QED
      BY <2>1 DEF SearchInv, StackOK, PinnedOnce, Met
  <1>4. CASE pins # << >>
    <2>1. /\ Len(pins') = k - 1 /\ DOMAIN pins' = 1 .. k - 1 /\ DOMAIN todo' = 1 .. k
          /\ \A n \in 1 .. k - 1 : pins'[n] = pins[n]
          /\ \A n \in 1 .. k : todo'[n] = todo[n]
      BY <1>1, <1>2, <1>4, ReturnFacts
    <2>2. 1 .. k - 1 \subseteq 1 .. k /\ 1 .. k \subseteq 1 .. k + 1
      OBVIOUS
    <2>3. StackOK'
      BY <1>2, <2>1, <2>2 DEF StackOK, SearchInv
    <2>4. PinnedOnce'
      BY <1>2, <2>1, <2>2 DEF PinnedOnce, SearchInv
    <2>5. Met'
      <3>1. SUFFICES ASSUME NEW n \in 1 .. k - 1
                     PROVE  CheckRequirements(pins[n], SubSeq(pins, 1, n))'
        BY <2>1 DEF Met
      <3>2. PICK q, ps : q = pins'[n] /\ ps = SubSeq(pins', 1, n)
        OBVIOUS
      <3>3. ps = SubSeq(pins, 1, n) /\ q = pins[n]
        BY <1>1, <1>2, <2>1, <3>2, SamePrefix
      <3>4. CheckRequirements(q, ps)
        BY <1>2, <2>2, <3>3 DEF SearchInv, Met
      <3>5. CheckRequirements(q, ps)'
        BY <1>2, <3>4, SameChecks
      <3> QED
        BY <3>2, <3>5
    <2> QED
      BY <2>3, <2>4, <2>5 DEF SearchInv
  <1> QED
    BY <1>3, <1>4

LEMMA SearchStep == TypeOK /\ SearchInv /\ [Next]_vars => SearchInv'
PROOF
  <1> SUFFICES ASSUME TypeOK, SearchInv, [Next]_vars PROVE SearchInv'
    OBVIOUS
  <1>1. CASE UNCHANGED vars
    <2>1. catalog' = catalog /\ pins' = pins /\ todo' = todo
      BY <1>1 DEF vars
    <2>2. \A q, ps : CheckRequirements(q, ps)' = CheckRequirements(q, ps)
      BY <2>1, SameChecks
    <2> QED
      BY <2>1, <2>2 DEF SearchInv, StackOK, PinnedOnce, Met
  <1> QED
    BY <1>1, SearchTry, SearchRefuse, SearchReturn DEF Next, Solved

-----------------------------------------------------------------------------
(* The solutions                                                           *)

(* What check_requirements accepts holds where the pins run: for a feature *)
(* the last pin that provides it is the one that counts.                   *)
LEMMA CheckedHolds ==
    ASSUME catalog \in Catalogs, NEW p \in AllPins, NEW ps \in Seq(AllPins),
           CheckRequirements(p, ps)
    PROVE  AllHold(p, ps)
PROOF
  <1>1. SUFFICES ASSUME NEW r \in EntryOf(p).require PROVE Holds(r, ps)
    BY DEF AllHold
  <1>2. IsRequirement(r) /\ Value(ps, r.name) \in r.accepts
    BY PinFacts DEF IsEntry, CheckRequirements
  <1>3. CASE r.name \notin Features
    <2>1. r.name \in Services
      BY <1>2, <1>3 DEF IsRequirement, Names
    <2> QED
      BY <1>2, <1>3, <2>1 DEF Value, Holds
  <1>4. CASE r.name \in Features
    <2>1. r.name \notin Services
      BY <1>4, ConstantsAssumption
    <2> DEFINE F == Providers(ps, r.name)
    <2>2. F # {}
      BY <1>2, <1>4, <2>1 DEF Value, IsRequirement
    <2>3. F \in SUBSET (1 .. Len(ps)) /\ Len(ps) \in Nat
      BY DEF Providers
    <2>4. F \in SUBSET Nat /\ IsFiniteSet(F)
      <3>1. IsFiniteSet(1 .. Len(ps))
        BY <2>3, FS_Interval
      <3>2. IsFiniteSet(F)
        BY <2>3, <3>1, FS_Subset
      <3> QED
        BY <2>3, <3>2
    <2>5. HasGreatest(F)
      BY <2>2, <2>4, GreatestOf
    <2>6. LastOf(F) \in F /\ \A m \in F : m <= LastOf(F)
      BY <2>5 DEF HasGreatest, LastOf
    <2>7. EntryOf(ps[LastOf(F)]).provide[r.name] \in r.accepts
      BY <1>2, <1>4, <2>2 DEF Value
    <2>8. PICK n \in F : n = LastOf(F)
      BY <2>6
    <2>9. n \in DOMAIN ps /\ r.name \in DOMAIN EntryOf(ps[n]).provide
      BY <2>8 DEF Providers
    <2>10. ASSUME NEW m \in DOMAIN ps, m > n
           PROVE  r.name \notin DOMAIN EntryOf(ps[m]).provide
      <3>1. m \in Nat /\ n \in Nat
        BY <2>4
      <3>2. m \notin F
        BY <2>6, <2>8, <2>10, <3>1
      <3> QED
        BY <3>2 DEF Providers
    <2> QED
      BY <2>7, <2>8, <2>9, <2>10 DEF Holds
  <1> QED
    BY <1>3, <1>4

LEMMA PinsCounted ==
    ASSUME TypeOK, SearchInv, state = "solving"
    PROVE  Cardinality(Phase(pins)) = Len(pins)
PROOF
  <1> DEFINE P == Phase(pins)
  <1>1. /\ pins \in Seq(AllPins) /\ Len(pins) \in Nat /\ DOMAIN pins = 1 .. Len(pins)
    BY SearchFacts
  <1>2. pins \in [1 .. Len(pins) -> P]
    BY <1>1 DEF Phase
  <1>3. pins \in Surjection(1 .. Len(pins), P)
    BY <1>1, <1>2 DEF Surjection, Phase
  <1>4. \A m, n \in 1 .. Len(pins) : pins[m] = pins[n] => m = n
    BY <1>1 DEF SearchInv, PinnedOnce
  <1>5. pins \in Injection(1 .. Len(pins), P)
    BY <1>1, <1>2, <1>4 DEF Injection, IsInjective
  <1>6. ExistsBijection(1 .. Len(pins), P)
    BY <1>3, <1>5 DEF Bijection, ExistsBijection
  <1> QED
    BY <1>1, <1>6, FS_CountingElements

LEMMA PhaseIsPhase ==
    ASSUME TypeOK, SearchInv, Complete, state = "solving"
    PROVE  Phase(pins) \in Phases
PROOF
  <1>1. Phase(pins) \in SUBSET AllPins
    BY SearchFacts DEF Phase
  <1>2. \A p, q \in Phase(pins) : p.service = q.service => p = q
    BY DEF Phase, SearchInv, PinnedOnce
  <1> QED
    BY <1>1, <1>2, PinsCounted DEF Phases, Complete, AllPins

(* The order in which a solution was pinned is one in which it starts.     *)
LEMMA FoundStarts ==
    ASSUME TypeOK, SearchInv, Complete, state = "solving"
    PROVE  Startable(Phase(pins))
PROOF
  <1>1. /\ pins \in Seq(AllPins) /\ Len(pins) \in Nat /\ DOMAIN pins = 1 .. Len(pins)
    BY SearchFacts
  <1>2. pins \in [1 .. Cardinality(Phase(pins)) -> Phase(pins)]
    <2>1. pins \in [1 .. Len(pins) -> Phase(pins)]
      BY <1>1 DEF Phase
    <2>2. Cardinality(Phase(pins)) = Len(pins)
      BY PinsCounted
    <2> QED
      BY <2>1, <2>2
  <1>3. ASSUME NEW n \in DOMAIN pins PROVE AllHold(pins[n], SubSeq(pins, 1, n))
    <2>1. n \in 0 .. Len(pins) /\ pins[n] \in AllPins
      BY <1>1
    <2>2. SubSeq(pins, 1, n) \in Seq(AllPins)
      BY <1>1, <2>1, PrefixFacts
    <2>3. CheckRequirements(pins[n], SubSeq(pins, 1, n))
      BY DEF SearchInv, Met
    <2>4. catalog \in Catalogs
      BY DEF TypeOK
    <2> QED
      BY <2>1, <2>2, <2>3, <2>4, CheckedHolds
  <1> QED
    BY <1>2, <1>3 DEF Startable

LEMMA SameStart ==
    ASSUME catalog' = catalog, NEW P
    PROVE  Startable(P)' = Startable(P) /\ (P \in Phases)' = (P \in Phases)
PROOF
  <1>1. \A r, ps : Holds(r, ps)' = Holds(r, ps)
    BY DEF Holds, EntryOf
  <1>2. \A p, ps : AllHold(p, ps)' = AllHold(p, ps)
    BY <1>1 DEF AllHold, EntryOf
  <1>3. Startable(P)' = Startable(P)
    BY <1>2 DEF Startable, Phase
  <1>4. Phases' = Phases
    <2>1. Pins(DOMAIN catalog)' = Pins(DOMAIN catalog)
      BY SamePins DEF AllPins
    <2> QED
      BY <2>1 DEF Phases
  <1> QED
    BY <1>3, <1>4

LEMMA YieldedGrows ==
    ASSUME TypeOK, TypeOK', [Next]_vars
    PROVE  /\ catalog' = catalog
           /\ \/ Yielded' = Yielded /\ Len(results') = Len(results)
              \/ /\ Return /\ Complete /\ Phase(pins) \notin Yielded
                 /\ Yielded' = Yielded \cup {Phase(pins)} /\ Len(results') = Len(results) + 1
PROOF
  <1>1. catalog' = catalog
    BY DEF Next, TryNextService, Refuse, Return, Solved, vars
  <1>2. CASE results' = results
    BY <1>1, <1>2 DEF Yielded
  <1>3. CASE results' # results
    <2>1. Return
      BY <1>3 DEF Next, TryNextService, Refuse, Solved, vars
    <2>2. /\ results' = Append(results, Phase(pins)) /\ Complete /\ Phase(pins) \notin Yielded
          /\ Phase(pins) \in SUBSET AllPins
      BY <1>3, <2>1, ReturnFacts
    <2>3. results \in Seq(SUBSET AllPins)
      BY DEF TypeOK, AllPins
    <2>4. /\ DOMAIN results = 1 .. Len(results) /\ DOMAIN results' = 1 .. Len(results) + 1
          /\ Len(results') = Len(results) + 1 /\ Len(results) \in Nat
          /\ \A n \in 1 .. Len(results) : results'[n] = results[n]
          /\ results'[Len(results) + 1] = Phase(pins)
      BY <2>2, <2>3, AppendFacts
    <2>5. Yielded' = Yielded \cup {Phase(pins)}
      <3>1. \A n \in 1 .. Len(results) + 1 : n \in 1 .. Len(results) \/ n = Len(results) + 1
        BY <2>4
      <3>2. 1 .. Len(results) \subseteq 1 .. Len(results) + 1
            /\ Len(results) + 1 \in 1 .. Len(results) + 1
        BY <2>4
      <3>3. ASSUME NEW P \in Yielded' PROVE P \in Yielded \cup {Phase(pins)}
        BY <2>4, <3>1 DEF Yielded
      <3>4. ASSUME NEW P \in Yielded \cup {Phase(pins)} PROVE P \in Yielded'
        BY <2>4, <3>2 DEF Yielded
      <3> QED
        BY <3>3, <3>4
    <2> QED
      BY <1>1, <2>1, <2>2, <2>4, <2>5
  <1> QED
    BY <1>2, <1>3

LEMMA StartableStep == TypeOK /\ SearchInv /\ ResultsStartable /\ [Next]_vars => ResultsStartable'
PROOF
  <1> SUFFICES ASSUME TypeOK, SearchInv, ResultsStartable, [Next]_vars PROVE ResultsStartable'
    OBVIOUS
  <1>1. SUFFICES ASSUME NEW P \in Yielded' PROVE (P \in Phases)' /\ Startable(P)'
    BY DEF ResultsStartable
  <1>2. catalog' = catalog /\ (P \in Yielded \/ (Return /\ Complete /\ P = Phase(pins)))
    BY TypeStep, YieldedGrows
  <1>3. P \in Phases /\ Startable(P)
    BY <1>2, ReturnFacts, PhaseIsPhase, FoundStarts DEF ResultsStartable
  <1> QED
    BY <1>2, <1>3, SameStart

(* Whatever the catalogs, every solution that is yielded chooses a listed  *)
(* version of every service once, and can be reached by starting those one *)
(* after the other, each with its requirements met.                        *)
THEOREM EverySolutionStarts == Spec => []ResultsStartable
PROOF
  <1>1. Init => ResultsStartable
    BY DEF Init, ResultsStartable, Yielded
  <1> QED
    BY <1>1, TypeInit, TypeStep, SearchInit, SearchStep, StartableStep, PTL DEF Spec

-----------------------------------------------------------------------------
(* Phases                                                                  *)

(* A phase has a pin of every service, so that its sequence exists.        *)
LEMMA PhaseFacts ==
    ASSUME catalog \in Catalogs, NEW P \in Phases
    PROVE  /\ P \in SUBSET AllPins
           /\ \A p, q \in P : p.service = q.service => p = q
           /\ \A i \in DOMAIN catalog : \E p \in P : p.service = i
           /\ AsSequence(P) \in Seq(AllPins) /\ DOMAIN AsSequence(P) = 1 .. Len(catalog)
           /\ Phase(AsSequence(P)) = P
           /\ \A m, n \in DOMAIN AsSequence(P) :
                 AsSequence(P)[m].service = AsSequence(P)[n].service => m = n
PROOF
  <1>1. /\ P \in SUBSET AllPins /\ Cardinality(P) = Len(catalog)
        /\ \A p, q \in P : p.service = q.service => p = q
    BY DEF Phases, AllPins
  <1> DEFINE N == Len(catalog)
             ByService == [p \in P |-> p.service]
  <1>2. N \in Nat /\ DOMAIN catalog = 1 .. N
    BY ConstantsAssumption DEF IsCatalog
  <1>3. IsFiniteSet(1 .. N) /\ Cardinality(1 .. N) = N
    <2> HIDE DEF N
    <2>1. N \in Int /\ 1 \in Int /\ (IF 1 > N THEN 0 ELSE N - 1 + 1) = N
      BY <1>2
    <2>2. /\ IsFiniteSet(1 .. N)
          /\ Cardinality(1 .. N) = IF 1 > N THEN 0 ELSE N - 1 + 1
      BY <2>1, FS_Interval
    <2> QED
      BY <2>1, <2>2
  <1>4. \A p \in P : p.service \in 1 .. N
    BY <1>1, <1>2, PinFacts
  <1>5. ByService \in Surjection(P, 1 .. N)
    <2>1. ByService \in Injection(P, 1 .. N)
      BY <1>1, <1>4 DEF Injection, IsInjective
    <2> QED
      BY <1>1, <1>3, <2>1, FS_Injection
  <1>6. \A i \in 1 .. N : \E p \in P : p.service = i
    BY <1>5 DEF Surjection
  <1> DEFINE ps == [i \in 1 .. N |-> CHOOSE p \in P : p.service = i]
             Sorted(s) == /\ s \in [1 .. N -> P]
                          /\ \A m, n \in 1 .. N : m < n => s[m].service < s[n].service
             A == AsSequence(P)
  <1>7. Sorted(ps)
    <2>1. \A i \in 1 .. N : ps[i] \in P /\ ps[i].service = i
      BY <1>6
    <2> QED
      BY <2>1
  <1>8. Sorted(A)
    <2>1. A = CHOOSE s \in [1 .. N -> P] : \A m, n \in 1 .. N : m < n => s[m].service < s[n].service
      BY <1>1 DEF AsSequence
    <2> HIDE DEF ps, A
    <2> QED
      BY <1>7, <2>1
  <1> HIDE DEF A
  <1>9. A \in Seq(AllPins) /\ DOMAIN A = 1 .. N
    BY <1>1, <1>2, <1>8
  <1>10. \A m, n \in 1 .. N : A[m].service = A[n].service => m = n
    <2>1. SUFFICES ASSUME NEW m \in 1 .. N, NEW n \in 1 .. N, A[m].service = A[n].service, m < n
                   PROVE  FALSE
      BY <1>2
    <2>2. A[m].service \in 1 .. N /\ A[m].service < A[n].service
      BY <1>4, <1>8, <2>1
    <2> QED
      BY <2>1, <2>2
  <1>11. Phase(A) = P
    <2>1. IsFiniteSet(P)
      <3>1. ByService \in Injection(P, 1 .. N)
        BY <1>1, <1>4 DEF Injection, IsInjective
      <3> QED
        BY <1>3, <3>1, FS_Injection
    <2>2. A \in Injection(1 .. N, P)
      BY <1>8, <1>10 DEF Injection, IsInjective
    <2>3. A \in Surjection(1 .. N, P)
      BY <1>1, <1>3, <2>1, <2>2, FS_Injection
    <2> QED
      BY <1>8, <1>9, <2>3 DEF Surjection, Phase
  <1> QED
    <2>1. /\ A \in Seq(AllPins) /\ DOMAIN A = 1 .. N /\ Phase(A) = P
          /\ \A m, n \in DOMAIN A : A[m].service = A[n].service => m = n
      BY <1>9, <1>10, <1>11
    <2>2. \A i \in DOMAIN catalog : \E p \in P : p.service = i
      BY <1>2, <1>6
    <2> HIDE DEF N
    <2> QED
      BY <1>1, <2>1, <2>2 DEF A, N

-----------------------------------------------------------------------------
(* Requirements in a simple catalog                                        *)

(* Pin q is what requirement r asks for.                                   *)
Gives(q, r) ==
    \/ r.name \in Services /\ catalog[q.service].name = r.name /\ Present \in r.accepts
    \/ r.name \in DOMAIN EntryOf(q).provide /\ EntryOf(q).provide[r.name] \in r.accepts

LEMMA RequirementFacts ==
    ASSUME catalog \in Catalogs, Simple, NEW p \in AllPins, NEW r \in EntryOf(p).require
    PROVE  /\ r.name \in Services \/ r.name \in Features
           /\ ~ (r.name \in Services /\ r.name \in Features)
           /\ Missing \notin r.accepts
           /\ r.name \in Features \/ r.name \in Scope(AllPins)
PROOF
  <1>1. IsRequirement(r)
    BY PinFacts DEF IsEntry
  <1>2. Missing \notin r.accepts /\ r.name \in Features \cup Scope(AllPins)
    BY DEF Simple, AllPins
  <1> QED
    BY <1>1, <1>2, ConstantsAssumption DEF IsRequirement, Names

(* The pins of one phase that provide a name are one pin.                  *)
LEMMA SoleProvider ==
    ASSUME catalog \in Catalogs, Simple, NEW P \in Phases, NEW p \in P, NEW q \in P, NEW x,
           x \in DOMAIN EntryOf(p).provide, x \in DOMAIN EntryOf(q).provide
    PROVE  p = q /\ x \in Features
PROOF
  <1>1. p \in AllPins /\ q \in AllPins /\ (p.service = q.service => p = q)
    BY PhaseFacts
  <1>2. p.service = q.service
    BY <1>1 DEF Simple, AllPins
  <1>3. x \in Features
    BY <1>1, PinFacts DEF IsEntry
  <1> QED
    BY <1>1, <1>2, <1>3

(* The pins of one phase of services of one name are one pin.              *)
LEMMA SoleService ==
    ASSUME catalog \in Catalogs, NEW P \in Phases, NEW p \in P, NEW q \in P,
           catalog[p.service].name = catalog[q.service].name
    PROVE  p = q
PROOF
  <1>1. p \in AllPins /\ q \in AllPins /\ (p.service = q.service => p = q)
    BY PhaseFacts
  <1>2. p.service \in DOMAIN catalog /\ q.service \in DOMAIN catalog
    BY <1>1, PinFacts
  <1> QED
    BY <1>1, <1>2, ConstantsAssumption DEF IsCatalog

(* check_requirements finds a requirement met when one of the pins gives   *)
(* it.                                                                     *)
LEMMA ValueGives ==
    ASSUME catalog \in Catalogs, Simple, NEW P \in Phases, NEW ps \in Seq(AllPins),
           Phase(ps) \subseteq P,
           NEW p \in AllPins, NEW r \in EntryOf(p).require
    PROVE  Value(ps, r.name) \in r.accepts <=> \E q \in Phase(ps) : Gives(q, r)
PROOF
  <1>1. DOMAIN ps = 1 .. Len(ps) /\ Len(ps) \in Nat /\ \A n \in DOMAIN ps : ps[n] \in AllPins
    OBVIOUS
  <1>2. \A q \in P : DOMAIN EntryOf(q).provide \subseteq Features
    BY PhaseFacts, PinFacts DEF IsEntry
  <1>3. CASE r.name \notin Features
    <2>1. r.name \in Services /\ Missing \notin r.accepts
      BY <1>3, RequirementFacts
    <2>2. \A q \in Phase(ps) : Gives(q, r) <=> catalog[q.service].name = r.name /\ Present \in r.accepts
      BY <1>2, <1>3, <2>1 DEF Gives
    <2> QED
      BY <1>3, <2>1, <2>2 DEF Value, Phase
  <1>4. CASE r.name \in Features
    <2>1. r.name \notin Services /\ Missing \notin r.accepts
      BY <1>4, RequirementFacts
    <2> DEFINE F == Providers(ps, r.name)
    <2>2. CASE F = {}
      <3>1. \A n \in DOMAIN ps : r.name \notin DOMAIN EntryOf(ps[n]).provide
        BY <2>2 DEF Providers
      <3> QED
        BY <1>4, <2>1, <2>2, <3>1 DEF Value, Phase, Gives
    <2>3. CASE F # {}
      <3>1. F \in SUBSET (1 .. Len(ps))
        BY DEF Providers
      <3>2. IsFiniteSet(1 .. Len(ps))
        BY <1>1, FS_Interval
      <3>3. F \in SUBSET Nat /\ IsFiniteSet(F)
        BY <1>1, <3>1, <3>2, FS_Subset
      <3>4. HasGreatest(F)
        BY <2>3, <3>3, GreatestOf
      <3>5. LastOf(F) \in F
        BY <3>4 DEF HasGreatest, LastOf
      <3>6. PICK n \in F : n = LastOf(F)
        BY <3>5
      <3>7. /\ n \in DOMAIN ps /\ r.name \in DOMAIN EntryOf(ps[n]).provide
            /\ ps[n] \in Phase(ps) /\ ps[n] \in P
            /\ Value(ps, r.name) = EntryOf(ps[n]).provide[r.name]
        BY <1>4, <2>3, <3>6 DEF Providers, Phase, Value
      <3>8. ASSUME NEW q \in Phase(ps), Gives(q, r) PROVE q = ps[n]
        <4>1. q \in P /\ r.name \in DOMAIN EntryOf(q).provide
          BY <2>1, <3>8 DEF Gives
        <4> QED
          BY <3>7, <4>1, SoleProvider
      <3>9. Gives(ps[n], r) <=> Value(ps, r.name) \in r.accepts
        BY <2>1, <3>7 DEF Gives
      <3> QED
        BY <3>7, <3>8, <3>9
    <2> QED
      BY <2>2, <2>3
  <1> QED
    BY <1>3, <1>4

(* So does the reference.                                                  *)
LEMMA HoldsGives ==
    ASSUME catalog \in Catalogs, Simple, NEW P \in Phases,
           NEW p \in AllPins, NEW r \in EntryOf(p).require
    PROVE  Holds(r, AsSequence(P)) <=> \E q \in P : Gives(q, r)
PROOF
  <1> DEFINE ps == AsSequence(P)
  <1>1. /\ ps \in Seq(AllPins) /\ Phase(ps) = P
        /\ \A m, n \in DOMAIN ps : ps[m].service = ps[n].service => m = n
        /\ DOMAIN ps \subseteq Nat
    BY PhaseFacts
  <1>2. Missing \notin r.accepts
    BY RequirementFacts
  <1> HIDE DEF ps
  <1>3. ASSUME Holds(r, ps) PROVE \E q \in P : Gives(q, r)
    <2>1. \A n \in DOMAIN ps : ps[n] \in P
      BY <1>1 DEF Phase
    <2> QED
      BY <1>2, <1>3, <2>1 DEF Holds, Gives
  <1>4. ASSUME NEW q \in P, Gives(q, r) PROVE Holds(r, ps)
    <2>1. PICK n \in DOMAIN ps : q = ps[n]
      BY <1>1 DEF Phase
    <2>2. CASE r.name \in Services /\ catalog[q.service].name = r.name /\ Present \in r.accepts
      BY <2>1, <2>2 DEF Holds
    <2>3. CASE r.name \in DOMAIN EntryOf(q).provide /\ EntryOf(q).provide[r.name] \in r.accepts
      <3>1. ASSUME NEW m \in DOMAIN ps, m > n, r.name \in DOMAIN EntryOf(ps[m]).provide
            PROVE  FALSE
        <4>1. ps[m] \in P
          BY <1>1 DEF Phase
        <4>2. ps[m] = q
          BY <2>3, <3>1, <4>1, SoleProvider
        <4>3. m = n
          BY <1>1, <2>1, <4>2
        <4> QED
          BY <1>1, <3>1, <4>3
      <3> QED
        BY <2>1, <2>3, <3>1 DEF Holds
    <2> QED
      BY <1>4, <2>2, <2>3 DEF Gives
  <1> QED
    BY <1>3, <1>4 DEF ps

(* What is pinned has what it requires in what was pinned before it.       *)
LEMMA PinnedMet ==
    ASSUME TypeOK, SearchInv, Simple, Phase(pins) \in Phases, state = "solving",
           NEW n \in DOMAIN pins, NEW r \in EntryOf(pins[n]).require
    PROVE  \E m \in 1 .. n : m \in DOMAIN pins /\ Gives(pins[m], r)
PROOF
  <1>1. catalog \in Catalogs /\ pins \in Seq(AllPins) /\ DOMAIN pins = 1 .. Len(pins)
    BY SearchFacts DEF TypeOK
  <1> DEFINE ps == SubSeq(pins, 1, n)
  <1>2. n \in 0 .. Len(pins) /\ pins[n] \in AllPins /\ n \in Nat
    BY <1>1
  <1>3. /\ ps \in Seq(AllPins) /\ DOMAIN ps = 1 .. n
        /\ \A m \in 1 .. n : ps[m] = pins[m] /\ m \in DOMAIN pins
    BY <1>1, <1>2, PrefixFacts
  <1>4. CheckRequirements(pins[n], ps)
    BY DEF SearchInv, Met
  <1> HIDE DEF ps
  <1>5. Phase(ps) \subseteq Phase(pins)
    BY <1>3 DEF Phase
  <1>6. Value(ps, r.name) \in r.accepts
    BY <1>4 DEF CheckRequirements
  <1>7. PICK q \in Phase(ps) : Gives(q, r)
    BY <1>1, <1>2, <1>3, <1>5, <1>6, ValueGives
  <1>8. PICK m \in 1 .. n : q = ps[m]
    BY <1>3 DEF Phase
  <1> QED
    BY <1>3, <1>7, <1>8

(* What is found in a simple catalog is compatible...                      *)
LEMMA FoundCompatible ==
    ASSUME TypeOK, SearchInv, Simple, Complete, state = "solving"
    PROVE  Compatible(Phase(pins))
PROOF
  <1> DEFINE P == Phase(pins)
  <1>1. catalog \in Catalogs /\ P \in Phases
    BY PhaseIsPhase DEF TypeOK
  <1>2. SUFFICES ASSUME NEW p \in P, NEW r \in EntryOf(p).require
                 PROVE  Holds(r, AsSequence(P))
    BY DEF Compatible, AllHold
  <1>3. PICK n \in DOMAIN pins : p = pins[n]
    BY DEF Phase
  <1>4. PICK m \in DOMAIN pins : Gives(pins[m], r)
    BY <1>1, <1>3, PinnedMet
  <1>5. pins[m] \in P
    BY DEF Phase
  <1>6. p \in AllPins
    BY <1>1, PhaseFacts
  <1> QED
    BY <1>1, <1>4, <1>5, <1>6, HoldsGives

(* ... no services of it wait for each other...                            *)
LEMMA FoundGrounded ==
    ASSUME TypeOK, SearchInv, Simple, Complete, state = "solving"
    PROVE  Grounded(Phase(pins))
PROOF
  <1> DEFINE P == Phase(pins)
  <1>1. catalog \in Catalogs /\ P \in Phases /\ DOMAIN pins \subseteq Nat
    BY PhaseIsPhase, SearchFacts DEF TypeOK
  <1>2. SUFFICES ASSUME NEW G \in (SUBSET P) \ {{}}
                 PROVE  \E p \in G : \A q \in G \ {p} : ~Needs(p, q)
    BY DEF Grounded
  <1> DEFINE I == {n \in DOMAIN pins : pins[n] \in G}
  <1>3. I \in SUBSET Nat /\ I # {}
    BY <1>1 DEF Phase
  <1>4. PICK n \in I : \A i \in I : n <= i
    BY <1>3, LeastOf
  <1>5. SUFFICES ASSUME NEW q \in G \ {pins[n]}, Needs(pins[n], q) PROVE FALSE
    OBVIOUS
  <1>6. PICK r \in EntryOf(pins[n]).require :
            r.name \in DOMAIN EntryOf(q).provide \/ r.name = catalog[q.service].name
    BY <1>5 DEF Needs
  <1>7. PICK m \in 1 .. n : m \in DOMAIN pins /\ Gives(pins[m], r)
    BY <1>1, PinnedMet
  <1>8. /\ pins[m] \in P /\ q \in P /\ pins[n] \in AllPins
        /\ pins[m] \in AllPins /\ q \in AllPins
    <2>1. P \in SUBSET AllPins
      BY <1>1, PhaseFacts
    <2>2. pins[m] \in P /\ pins[n] \in P /\ q \in P
      BY <1>7 DEF Phase
    <2> QED
      BY <2>1, <2>2
  <1>9. ~ (r.name \in Services /\ r.name \in Features)
    BY <1>1, <1>8, RequirementFacts
  <1>10. /\ DOMAIN EntryOf(q).provide \subseteq Features
         /\ DOMAIN EntryOf(pins[m]).provide \subseteq Features
         /\ catalog[q.service].name \in Services
    <2>1. IsEntry(EntryOf(q)) /\ IsEntry(EntryOf(pins[m])) /\ q.service \in DOMAIN catalog
      BY <1>1, <1>8, PinFacts
    <2>2. catalog[q.service].name \in Services
      BY <1>1, <2>1, ConstantsAssumption DEF IsCatalog
    <2> QED
      BY <2>1, <2>2 DEF IsEntry
  <1>11. q = pins[m]
    <2>1. CASE r.name \in DOMAIN EntryOf(q).provide
      <3>1. r.name \in DOMAIN EntryOf(pins[m]).provide
        BY <1>7, <1>9, <1>10, <2>1 DEF Gives
      <3> QED
        BY <1>1, <1>8, <2>1, <3>1, SoleProvider
    <2>2. CASE r.name = catalog[q.service].name
      <3>1. catalog[pins[m].service].name = r.name
        BY <1>7, <1>9, <1>10, <2>2 DEF Gives
      <3> QED
        BY <1>1, <1>8, <2>2, <3>1, SoleService
    <2> QED
      BY <1>6, <2>1, <2>2
  <1>12. m \in I /\ m \in Nat /\ n \in Nat /\ m <= n
    BY <1>1, <1>3, <1>7, <1>11
  <1>13. m = n
    BY <1>4, <1>12
  <1> QED
    BY <1>5, <1>11, <1>13

(* ... and explain, when it leaves no version out, counts no failure.      *)
LEMMA FoundExplained ==
    ASSUME TypeOK, SearchInv, Simple, Complete, state = "solving",
           Conditions(Phase(pins)) = Phase(pins)
    PROVE  Failed(Phase(pins)) = {}
PROOF
  <1> DEFINE P == Phase(pins)
             ps == AsSequence(P)
  <1>1. catalog \in Catalogs /\ P \in Phases
    BY PhaseIsPhase DEF TypeOK
  <1>2. Failed(P) = {p \in P : ~CheckRequirements(p, ps)}
    BY DEF Failed
  <1>3. ps \in Seq(AllPins) /\ Phase(ps) = P
    BY <1>1, PhaseFacts
  <1> HIDE DEF ps
  <1>4. ASSUME NEW p \in P PROVE CheckRequirements(p, ps)
    <2>1. SUFFICES ASSUME NEW r \in EntryOf(p).require PROVE Value(ps, r.name) \in r.accepts
      BY DEF CheckRequirements
    <2>2. PICK n \in DOMAIN pins : p = pins[n]
      BY DEF Phase
    <2>3. PICK m \in DOMAIN pins : Gives(pins[m], r)
      BY <1>1, <2>2, PinnedMet
    <2>4. pins[m] \in P
      BY DEF Phase
    <2>5. p \in AllPins
      BY <1>1, PhaseFacts
    <2> QED
      BY <1>1, <1>3, <2>3, <2>4, <2>5, ValueGives
  <1> QED
    BY <1>2, <1>4

-----------------------------------------------------------------------------
(* Nothing is forgotten                                                    *)

(* A phase solve has to find.                                              *)
Good(P) == P \in Phases /\ Compatible(P) /\ Grounded(P)

(* The calls above n have pinned versions of P only, and call n has yet to *)
(* try one that it will accept.                                            *)
Through(P, n) == \A m \in DOMAIN pins : m < n => pins[m] \in P
NextIn(P, n) ==
    \E p \in todo[n] \cap P : CheckRequirements(p, Append(SubSeq(pins, 1, n - 1), p))

(* P is yielded, or it is pinned, or some call is on the way to it.        *)
Reached(P) ==
    \/ P \in Yielded
    \/ \E n \in DOMAIN todo :
          Through(P, n) /\ ((n = Len(pins) + 1 /\ Phase(pins) = P) \/ NextIn(P, n))

Explored == Simple => \A P \in Phases : Good(P) => Reached(P)

(* Whatever part of a good phase is pinned, some other of its services can *)
(* be pinned next.                                                         *)
LEMMA NextOne ==
    ASSUME catalog \in Catalogs, Simple, NEW P \in Phases, Good(P),
           NEW ps \in Seq(AllPins), Phase(ps) \subseteq P, Phase(ps) # P
    PROVE  \E p \in P : p \in Candidates(Variables, ps) /\ CheckRequirements(p, Append(ps, p))
PROOF
  <1> DEFINE G == P \ Phase(ps)
  <1>1. PICK p \in G : \A q \in G \ {p} : ~Needs(p, q)
    BY DEF Good, Grounded
  <1>2. P \in SUBSET AllPins /\ p \in P /\ p \in AllPins
    BY PhaseFacts
  <1> DEFINE qs == Append(ps, p)
  <1>3. qs \in Seq(AllPins) /\ Phase(qs) = Phase(ps) \cup {p}
    <2>1. /\ qs \in Seq(AllPins) /\ Len(qs) = Len(ps) + 1 /\ Len(ps) \in Nat
          /\ \A n \in 1 .. Len(ps) : qs[n] = ps[n]
          /\ qs[Len(ps) + 1] = p
      BY <1>2, AppendFacts
    <2>2. DOMAIN qs = 1 .. Len(ps) + 1 /\ DOMAIN ps = 1 .. Len(ps)
      BY <2>1
    <2> HIDE DEF qs
    <2>3. \A n \in 1 .. Len(ps) + 1 : n \in 1 .. Len(ps) \/ n = Len(ps) + 1
      BY <2>1
    <2>4. 1 .. Len(ps) \subseteq 1 .. Len(ps) + 1 /\ Len(ps) + 1 \in 1 .. Len(ps) + 1
      BY <2>1
    <2>5. ASSUME NEW q \in Phase(qs) PROVE q \in Phase(ps) \cup {p}
      BY <2>1, <2>2, <2>3 DEF Phase
    <2>6. ASSUME NEW q \in Phase(ps) \cup {p} PROVE q \in Phase(qs)
      BY <2>1, <2>2, <2>4 DEF Phase
    <2> QED
      BY <2>1, <2>5, <2>6
  <1> HIDE DEF qs
  <1>4. ASSUME NEW r \in EntryOf(p).require
        PROVE  Value(qs, r.name) \in r.accepts /\ r.name \in Scope(AllPins)
    <2>1. Holds(r, AsSequence(P))
      BY <1>2 DEF Good, Compatible, AllHold
    <2>2. PICK q \in P : Gives(q, r)
      BY <1>2, <2>1, HoldsGives
    <2>3. q \in AllPins /\ Needs(p, q)
      BY <1>2, <2>2 DEF Needs, Gives
    <2>4. q \in Phase(qs)
      BY <1>1, <1>3, <2>3
    <2>5. Value(qs, r.name) \in r.accepts
      BY <1>2, <1>3, <2>2, <2>4, ValueGives
    <2>6. r.name \in Scope(AllPins)
      <3>1. CASE r.name \in DOMAIN EntryOf(q).provide
        BY <2>3, <3>1 DEF Scope
      <3>2. CASE r.name \notin DOMAIN EntryOf(q).provide
        BY <1>2, <2>2, <3>2, RequirementFacts DEF Gives
      <3> QED
        BY <3>1, <3>2
    <2> QED
      BY <2>5, <2>6
  <1>5. p \in Variables
    BY <1>2, <1>4 DEF Variables, Conditions, AllPins
  <1>6. \A n \in DOMAIN ps : ps[n].service # p.service
    <2>1. SUFFICES ASSUME NEW n \in DOMAIN ps, ps[n].service = p.service PROVE FALSE
      OBVIOUS
    <2>2. ps[n] \in Phase(ps)
      BY DEF Phase
    <2>3. ps[n] = p
      BY <1>2, <2>1, <2>2, PhaseFacts
    <2> QED
      BY <1>1, <2>2, <2>3
  <1> QED
    BY <1>2, <1>4, <1>5, <1>6 DEF Candidates, CheckRequirements, qs

(* A call whose pins before it stay is as far as it was.                   *)
LEMMA KeepsNext ==
    ASSUME pins \in Seq(AllPins), pins' \in Seq(AllPins), catalog' = catalog,
           NEW P, NEW n \in Nat, n - 1 \in Nat, n - 1 <= Len(pins), n - 1 <= Len(pins'),
           \A m \in 1 .. n - 1 : pins'[m] = pins[m],
           NEW p \in todo'[n] \cap P,
           CheckRequirements(p, Append(SubSeq(pins, 1, n - 1), p))
    PROVE  NextIn(P, n)'
PROOF
  <1>1. PICK ps : ps = SubSeq(pins', 1, n - 1)
    OBVIOUS
  <1>2. ps = SubSeq(pins, 1, n - 1)
    BY <1>1, SamePrefix
  <1>3. CheckRequirements(p, Append(ps, p))
    BY <1>2
  <1>4. PICK qs : qs = Append(ps, p)
    OBVIOUS
  <1>5. CheckRequirements(p, qs)'
    BY <1>3, <1>4, SameChecks
  <1> QED
    BY <1>1, <1>4, <1>5 DEF NextIn

LEMMA ReachedInit ==
    ASSUME Init, Simple, NEW P \in Phases, Good(P)
    PROVE  Reached(P)
PROOF
  <1>1. catalog \in Catalogs /\ pins = << >> /\ todo = <<Candidates(Variables, pins)>>
    BY DEF Init
  <1>2. /\ pins \in Seq(AllPins) /\ Phase(pins) = {} /\ DOMAIN pins = {} /\ Len(pins) = 0
    BY <1>1 DEF Phase
  <1>3. DOMAIN todo = {1} /\ todo[1] = Candidates(Variables, pins)
    BY <1>1
  <1>4. Through(P, 1)
    BY <1>2 DEF Through
  <1>5. CASE P = {}
    BY <1>2, <1>3, <1>4, <1>5 DEF Reached
  <1>6. CASE P # {}
    <2>1. PICK p \in P : p \in Candidates(Variables, pins) /\ CheckRequirements(p, Append(pins, p))
      BY <1>1, <1>2, <1>6, NextOne
    <2>2. SubSeq(pins, 1, 1 - 1) = pins
      BY <1>1, SubSeqEmpty
    <2>3. NextIn(P, 1)
      BY <1>3, <2>1, <2>2 DEF NextIn
    <2> QED
      BY <1>3, <1>4, <2>3 DEF Reached
  <1> QED
    BY <1>5, <1>6

(* A good phase has a pin of every service, so that nothing is left to try *)
(* when it is pinned.                                                      *)
LEMMA NothingLeft ==
    ASSUME TypeOK, SearchInv, state = "solving", Phase(pins) \in Phases
    PROVE  Top = {}
PROOF
  <1>1. SUFFICES ASSUME NEW f \in Top PROVE FALSE
    OBVIOUS
  <1>2. /\ Top = todo[Len(pins) + 1] /\ Len(pins) + 1 \in DOMAIN todo /\ f \in AllPins
        /\ DOMAIN pins = 1 .. Len(pins) /\ Len(pins) \in Nat
    BY SearchFacts
  <1>3. \A n \in DOMAIN pins : n < Len(pins) + 1
    BY <1>2
  <1>4. \A n \in DOMAIN pins : pins[n].service # f.service
    BY <1>1, <1>2, <1>3 DEF SearchInv, StackOK
  <1>5. f.service \in DOMAIN catalog /\ catalog \in Catalogs
    BY <1>2, PinFacts DEF TypeOK
  <1>6. PICK p \in Phase(pins) : p.service = f.service
    BY <1>5, PhaseFacts
  <1> QED
    BY <1>4, <1>6 DEF Phase

LEMMA ReachedTry ==
    ASSUME TypeOK, SearchInv, Simple, NEW P \in Phases, Good(P), Reached(P), TryNextService
    PROVE  Reached(P)'
PROOF
  <1>1. PICK k \in Nat : k = Len(pins)
    BY SearchFacts DEF TryNextService
  <1>2. PICK f \in AllPins : f = First(Top) /\ f \in Top
    BY SearchFacts DEF TryNextService
  <1>3. /\ state = "solving" /\ Top # {} /\ CheckRequirements(f, pins') /\ catalog' = catalog
        /\ pins' = Append(pins, f) /\ todo' = Append(Tried, Candidates(Variables, pins'))
        /\ results' = results
    BY <1>2 DEF TryNextService
  <1>4. /\ pins \in Seq(AllPins) /\ DOMAIN pins = 1 .. k /\ DOMAIN todo = 1 .. k + 1
        /\ Top = todo[k + 1] /\ catalog \in Catalogs
    BY <1>1, <1>3, SearchFacts DEF TypeOK
  <1>5. /\ pins' \in Seq(AllPins) /\ Len(pins') = k + 1 /\ DOMAIN pins' = 1 .. k + 1
        /\ \A n \in 1 .. k : pins'[n] = pins[n]
        /\ pins'[k + 1] = f
    BY <1>1, <1>3, <1>4, AppendFacts
  <1>6. /\ DOMAIN todo' = 1 .. k + 2
        /\ \A n \in 1 .. k : todo'[n] = todo[n]
        /\ todo'[k + 1] = Top \ {f} /\ todo'[k + 2] = Candidates(Variables, pins')
    <2>1. Candidates(Variables, pins') \in SUBSET AllPins
      BY VariablesArePins DEF Candidates
    <2>2. /\ Tried \in Seq(SUBSET AllPins) /\ Len(Tried) = k + 1
          /\ \A n \in 1 .. k : Tried[n] = todo[n]
          /\ Tried[k + 1] = Top \ {f}
      BY <1>1, <1>2, <1>3, TriedFacts
    <2>3. k + 1 + 1 = k + 2 /\ k + 1 \in 1 .. k + 1 /\ 1 .. k \subseteq 1 .. k + 1
      OBVIOUS
    <2>4. /\ Len(todo') = k + 2 /\ todo' \in Seq(SUBSET AllPins)
          /\ \A n \in 1 .. k + 1 : todo'[n] = Tried[n]
          /\ todo'[k + 2] = Candidates(Variables, pins')
      BY <1>3, <2>1, <2>2, <2>3, AppendFacts
    <2> QED
      BY <2>2, <2>3, <2>4
  <1>7. CASE P \in Yielded
    BY <1>3, <1>7 DEF Reached, Yielded
  <1>8. ASSUME NEW n \in 1 .. k + 1, Through(P, n), NextIn(P, n)
        PROVE  Reached(P)'
    <2>1. PICK p \in todo[n] \cap P : CheckRequirements(p, Append(SubSeq(pins, 1, n - 1), p))
      BY <1>8 DEF NextIn
    <2>2. n - 1 \in Nat /\ n - 1 <= k /\ n - 1 <= k + 1 /\ n \in Nat /\ 1 .. n - 1 \subseteq 1 .. k
          /\ n \in 1 .. k + 2
      OBVIOUS
    <2>3. ASSUME p \in todo'[n] PROVE Reached(P)'
      <3>1. NextIn(P, n)'
        <4>1. n - 1 <= Len(pins) /\ n - 1 <= Len(pins')
          BY <1>1, <1>5, <2>2
        <4>2. \A m \in 1 .. n - 1 : pins'[m] = pins[m]
          BY <1>5, <2>2
        <4>3. p \in todo'[n] \cap P
          BY <2>1, <2>3
        <4> QED
          BY <1>3, <1>4, <1>5, <2>1, <2>2, <4>1, <4>2, <4>3, KeepsNext
      <3>2. Through(P, n)'
        <4>1. SUFFICES ASSUME NEW m \in 1 .. k + 1, m < n PROVE pins'[m] \in P
          BY <1>5 DEF Through
        <4>2. m \in 1 .. k
          BY <4>1
        <4> QED
          BY <1>4, <1>5, <1>8, <4>1, <4>2 DEF Through
      <3> QED
        BY <1>6, <2>2, <3>1, <3>2 DEF Reached
    <2>4. CASE n \in 1 .. k
      BY <1>6, <2>1, <2>3, <2>4
    <2>5. CASE n = k + 1 /\ p # f
      BY <1>4, <1>6, <2>1, <2>3, <2>5
    <2>6. CASE n = k + 1 /\ p = f
      <3>1. ASSUME NEW m \in 1 .. k + 1 PROVE pins'[m] \in P
        <4>1. CASE m = k + 1
          BY <1>5, <2>1, <2>6, <4>1
        <4>2. CASE m \in 1 .. k
          <5>1. m < n
            BY <2>6, <4>2
          <5> QED
            BY <1>4, <1>5, <1>8, <4>2, <5>1 DEF Through
        <4> QED
          BY <4>1, <4>2
      <3> PICK j \in Nat : j = k + 2
        OBVIOUS
      <3>2. Through(P, j)'
        BY <1>5, <3>1 DEF Through
      <3>3. PICK ps \in Seq(AllPins) : ps = pins'
        BY <1>5
      <3>4. DOMAIN ps = 1 .. k + 1 /\ Phase(ps) \subseteq P /\ Len(ps) = k + 1
        BY <1>5, <3>1, <3>3 DEF Phase
      <3>5. j = Len(pins') + 1 /\ j \in DOMAIN todo' /\ j - 1 = k + 1
        BY <1>5, <1>6
      <3>6. CASE Phase(ps) = P
        <4>1. Phase(pins)' = P
          BY <3>3, <3>6 DEF Phase
        <4> QED
          BY <3>2, <3>5, <4>1 DEF Reached
      <3>7. CASE Phase(ps) # P
        <4>1. PICK q \in P : q \in Candidates(Variables, ps) /\ CheckRequirements(q, Append(ps, q))
          BY <1>4, <3>4, <3>7, NextOne
        <4>2. SubSeq(pins', 1, j - 1) = ps
          BY <3>3, <3>4, <3>5, SubSeqFull
        <4>3. PICK qs : qs = Append(ps, q)
          OBVIOUS
        <4>4. CheckRequirements(q, qs)'
          BY <1>3, <4>1, <4>3, SameChecks
        <4>5. q \in todo'[j] \cap P
          BY <1>6, <3>3, <4>1
        <4>6. NextIn(P, j)'
          BY <4>2, <4>3, <4>4, <4>5 DEF NextIn
        <4> QED
          BY <3>2, <3>5, <4>6 DEF Reached
      <3> QED
        BY <3>6, <3>7
    <2>7. n \in 1 .. k \/ n = k + 1
      OBVIOUS
    <2> QED
      BY <2>4, <2>5, <2>6, <2>7
  <1>9. Phase(pins) # P
    BY <1>3, NothingLeft
  <1> QED
    BY <1>4, <1>7, <1>8, <1>9 DEF Reached

LEMMA ReachedRefuse ==
    ASSUME TypeOK, SearchInv, Simple, NEW P \in Phases, Good(P), Reached(P), Refuse
    PROVE  Reached(P)'
PROOF
  <1>1. /\ state = "solving" /\ Top # {} /\ ~CheckRequirements(First(Top), Append(pins, First(Top)))
        /\ todo' = Tried /\ pins' = pins /\ catalog' = catalog /\ results' = results
    BY DEF Refuse
  <1>2. PICK k \in Nat : k = Len(pins)
    BY <1>1, SearchFacts
  <1>3. /\ pins \in Seq(AllPins) /\ DOMAIN pins = 1 .. k /\ DOMAIN todo = 1 .. k + 1
        /\ Top = todo[k + 1]
    BY <1>1, <1>2, SearchFacts
  <1>4. /\ DOMAIN todo' = 1 .. k + 1 /\ \A n \in 1 .. k : todo'[n] = todo[n]
        /\ todo'[k + 1] = Top \ {First(Top)}
    BY <1>1, <1>2, TriedFacts
  <1>5. CASE P \in Yielded
    BY <1>1, <1>5 DEF Reached, Yielded
  <1>6. ASSUME NEW n \in 1 .. k + 1, Through(P, n), NextIn(P, n)
        PROVE  Reached(P)'
    <2>1. PICK p \in todo[n] \cap P : CheckRequirements(p, Append(SubSeq(pins, 1, n - 1), p))
      BY <1>6 DEF NextIn
    <2>2. n - 1 \in Nat /\ n - 1 <= k /\ n \in Nat /\ (n \in 1 .. k \/ n = k + 1)
      OBVIOUS
    <2>3. p \in todo'[n] \cap P
      <3>1. CASE n \in 1 .. k
        BY <1>4, <2>1, <3>1
      <3>2. CASE n = k + 1
        <4>1. SubSeq(pins, 1, n - 1) = pins
          BY <1>2, <1>3, <3>2, SubSeqFull
        <4>2. p # First(Top)
          BY <1>1, <2>1, <4>1
        <4> QED
          BY <1>3, <1>4, <2>1, <3>2, <4>2
      <3> QED
        BY <2>2, <3>1, <3>2
    <2>4. \A m \in 1 .. n - 1 : pins'[m] = pins[m]
      BY <1>1
    <2>5. NextIn(P, n)'
      BY <1>1, <1>2, <1>3, <2>1, <2>2, <2>3, <2>4, KeepsNext
    <2>6. Through(P, n)'
      BY <1>1, <1>6 DEF Through
    <2> QED
      BY <1>4, <2>5, <2>6 DEF Reached
  <1>7. Phase(pins) # P
    BY <1>1, NothingLeft
  <1> QED
    BY <1>3, <1>5, <1>6, <1>7 DEF Reached

LEMMA ReachedReturn ==
    ASSUME TypeOK, SearchInv, Simple, NEW P \in Phases, Good(P), Reached(P), Return
    PROVE  Reached(P)'
PROOF
  <1>1. state = "solving" /\ Top = {} /\ catalog' = catalog
    BY DEF Return
  <1>2. PICK k \in Nat : k = Len(pins)
    BY <1>1, SearchFacts
  <1>3. /\ pins \in Seq(AllPins) /\ DOMAIN pins = 1 .. k /\ DOMAIN todo = 1 .. k + 1
        /\ Top = todo[k + 1] /\ pins' \in Seq(AllPins)
    BY <1>1, <1>2, SearchFacts, ReturnFacts
  <1>4. \/ Yielded' = Yielded
        \/ Yielded' = Yielded \cup {Phase(pins)}
    BY TypeStep, YieldedGrows DEF Next
  <1>5. CASE P \in Yielded
    BY <1>4, <1>5 DEF Reached
  <1>6. CASE Phase(pins) = P
    <2>1. Complete
      BY <1>1, <1>6, PinsCounted DEF Phases, Complete
    <2>2. results' = IF Phase(pins) \notin Yielded THEN Append(results, Phase(pins)) ELSE results
      BY <2>1 DEF Return
    <2>3. results \in Seq(SUBSET AllPins) /\ Phase(pins) \in SUBSET AllPins
      BY <1>1, SearchFacts DEF Phase
    <2>4. CASE Phase(pins) \notin Yielded
      <3>1. /\ results' \in Seq(SUBSET AllPins) /\ Len(results') = Len(results) + 1
            /\ Len(results) \in Nat /\ results'[Len(results) + 1] = Phase(pins)
        BY <2>2, <2>3, <2>4, AppendFacts
      <3>2. Len(results) + 1 \in DOMAIN results'
        BY <3>1
      <3> QED
        BY <1>6, <3>1, <3>2 DEF Reached, Yielded
    <2> QED
      BY <1>5, <1>6, <2>4
  <1>7. ASSUME NEW n \in 1 .. k + 1, Through(P, n), NextIn(P, n)
        PROVE  Reached(P)'
    <2>1. PICK p \in todo[n] \cap P : CheckRequirements(p, Append(SubSeq(pins, 1, n - 1), p))
      BY <1>7 DEF NextIn
    <2>2. n \in 1 .. k
      BY <1>1, <1>3, <2>1
    <2>3. k # 0 /\ pins # << >>
      BY <1>2, <2>2
    <2>4. /\ Len(pins') = k - 1 /\ DOMAIN pins' = 1 .. k - 1 /\ DOMAIN todo' = 1 .. k
          /\ \A m \in 1 .. k - 1 : pins'[m] = pins[m]
          /\ \A m \in 1 .. k : todo'[m] = todo[m]
      BY <1>2, <1>3, <2>3, ReturnFacts
    <2>5. /\ n - 1 \in Nat /\ n - 1 <= k /\ n - 1 <= k - 1 /\ n \in Nat
          /\ 1 .. n - 1 \subseteq 1 .. k - 1 /\ 1 .. k - 1 \subseteq 1 .. k
      BY <2>2
    <2>6. \A m \in 1 .. n - 1 : pins'[m] = pins[m]
      BY <2>4, <2>5
    <2>7. p \in todo'[n] \cap P
      BY <2>1, <2>2, <2>4
    <2>8. NextIn(P, n)'
      BY <1>1, <1>2, <1>3, <2>1, <2>4, <2>5, <2>6, <2>7, KeepsNext
    <2>9. Through(P, n)'
      BY <1>3, <1>7, <2>4, <2>5 DEF Through
    <2> QED
      BY <2>2, <2>4, <2>8, <2>9 DEF Reached
  <1> QED
    BY <1>3, <1>5, <1>6, <1>7 DEF Reached

LEMMA SameGood ==
    ASSUME catalog' = catalog
    PROVE  /\ Simple' = Simple /\ Phases' = Phases
           /\ \A P : /\ Good(P)' = Good(P) /\ Compatible(P)' = Compatible(P)
                     /\ Grounded(P)' = Grounded(P) /\ Failed(P)' = Failed(P)
                     /\ Conditions(P)' = Conditions(P)
PROOF
  <1>1. Pins(DOMAIN catalog)' = Pins(DOMAIN catalog)
    BY SamePins DEF AllPins
  <1>2. Phases' = Phases
    BY <1>1 DEF Phases
  <1>3. \A S : Scope(S)' = Scope(S)
    BY DEF Scope, EntryOf
  <1>4. Simple' = Simple
    BY <1>1, <1>3 DEF Simple, EntryOf
  <1>5. \A r, ps : Holds(r, ps)' = Holds(r, ps)
    BY DEF Holds, EntryOf
  <1>6. \A P : Compatible(P)' = Compatible(P)
    BY <1>5 DEF Compatible, AllHold, AsSequence, EntryOf
  <1>7. \A P : Grounded(P)' = Grounded(P)
    BY DEF Grounded, Needs, EntryOf
  <1>8. \A P : Conditions(P)' = Conditions(P)
    BY <1>3 DEF Conditions, EntryOf
  <1>9. \A P : Failed(P)' = Failed(P)
    <2>1. \A p, ps : CheckRequirements(p, ps)' = CheckRequirements(p, ps)
      BY SameChecks
    <2> QED
      BY <1>8, <2>1 DEF Failed, AsSequence
  <1> QED
    BY <1>2, <1>4, <1>6, <1>7, <1>8, <1>9 DEF Good

LEMMA ExploredStep == TypeOK /\ SearchInv /\ Explored /\ [Next]_vars => Explored'
PROOF
  <1> SUFFICES ASSUME TypeOK, SearchInv, Explored, [Next]_vars PROVE Explored'
    OBVIOUS
  <1>1. catalog' = catalog
    BY DEF Next, TryNextService, Refuse, Return, Solved, vars
  <1>2. SUFFICES ASSUME Simple, NEW P \in Phases, Good(P) PROVE Reached(P)'
    BY <1>1, SameGood DEF Explored
  <1>3. Reached(P)
    BY <1>2 DEF Explored
  <1>4. CASE UNCHANGED vars
    <2>1. pins' = pins /\ todo' = todo /\ results' = results
      BY <1>4 DEF vars
    <2>2. \A p, ps : CheckRequirements(p, ps)' = CheckRequirements(p, ps)
      BY <1>1, SameChecks
    <2> QED
      BY <1>3, <2>1, <2>2 DEF Reached, Through, NextIn, Yielded, Phase
  <1> QED
    BY <1>2, <1>3, <1>4, ReachedTry, ReachedRefuse, ReachedReturn DEF Next, Solved

(* What is yielded for a simple catalog is good, and explain finds nothing *)
(* wrong with it.                                                          *)
Sound == Simple => \A P \in Yielded : Good(P) /\ (Conditions(P) = P => Failed(P) = {})

LEMMA SoundStep == TypeOK /\ SearchInv /\ Sound /\ [Next]_vars => Sound'
PROOF
  <1> SUFFICES ASSUME TypeOK, SearchInv, Sound, [Next]_vars PROVE Sound'
    OBVIOUS
  <1>1. catalog' = catalog
    BY TypeStep, YieldedGrows
  <1>2. SUFFICES ASSUME Simple, NEW P \in Yielded'
                 PROVE  Good(P) /\ (Conditions(P) = P => Failed(P) = {})
    BY <1>1, SameGood DEF Sound
  <1>3. P \in Yielded \/ (Return /\ Complete /\ P = Phase(pins))
    BY TypeStep, YieldedGrows
  <1>4. CASE P \in Yielded
    BY <1>2, <1>4 DEF Sound
  <1>5. CASE Return /\ Complete /\ P = Phase(pins)
    <2>1. state = "solving"
      BY <1>5 DEF Return
    <2> QED
      BY <1>2, <1>5, <2>1, PhaseIsPhase, FoundCompatible, FoundGrounded, FoundExplained DEF Good
  <1> QED
    BY <1>3, <1>4, <1>5

(* For every simple catalog, however many services and versions it lists,  *)
(* what the backtracking yields when it ends is exactly the set of phases  *)
(* that are compatible and in which no services wait for each other.       *)
THEOREM EverySolutionFound == Spec => []SolvesSimpleCatalogs
PROOF
  <1>1. Init => Explored /\ Sound
    BY ReachedInit DEF Init, Explored, Sound, Yielded
  <1>2. TypeOK /\ Explored /\ Sound => SolvesSimpleCatalogs
    <2> SUFFICES ASSUME TypeOK, Explored, Sound, state = "done", Simple
                 PROVE  Yielded = {P \in Phases : Compatible(P) /\ Grounded(P)}
      BY DEF SolvesSimpleCatalogs
    <2>1. todo = << >> /\ DOMAIN todo = {}
      BY DEF TypeOK
    <2> QED
      BY <2>1 DEF Explored, Sound, Good, Reached
  <1> QED
    BY <1>1, <1>2, TypeInit, TypeStep, SearchInit, SearchStep, ExploredStep, SoundStep, PTL DEF Spec

(* explain, asked about a solution of a simple catalog of which it leaves  *)
(* no version out, counts no failure.                                      *)
THEOREM EverySolutionExplained == Spec => []SolutionsExplained
PROOF
  <1>1. Init => Sound
    BY DEF Init, Sound, Yielded
  <1>2. Sound => SolutionsExplained
    BY DEF Sound, SolutionsExplained
  <1> QED
    BY <1>1, <1>2, TypeInit, TypeStep, SearchInit, SearchStep, SoundStep, PTL DEF Spec
===============================================================================
