------------------------------ MODULE ImageVersion ------------------------------
(***************************************************************************)
(* ImageVersion (common/utils.py): an image and the version its tag tells, *)
(* with the comparisons by which the planer sorts the versions of a        *)
(* service.  A version is None when there is no tag, or one that does not  *)
(* match the expression of tags; 'latest'; or a string that Version.coerce *)
(* reads or refuses.  It refuses what does not start with a number, like   *)
(* '', the version of "alpine" and of "".  Of the others it makes a place  *)
(* in the order of precedence ("1" and "1.0.0" have the same) and a build, *)
(* which holds what follows the third number ("1.2.3.4" is 1.2.3+4) and    *)
(* which semantic_version orders not.                                      *)
(*                                                                         *)
(* A comparison answers or raises.  Lt and Eq say when __lt__ and __eq__   *)
(* answer true, LtRaises and EqRaises when they raise.                     *)
(*                                                                         *)
(* The theorems say what a sort may rely on: where none of the versions is *)
(* refused, Lt is a strict weak order of the versioned tags of one image,  *)
(* of which 'latest' is the greatest.                                      *)
(***************************************************************************)
EXTENDS Naturals, TLAPS

CONSTANTS
    None,          \* no tag, or one that does not match
    LatestTag,     \* the version 'latest'
    Numberless,    \* the versions that Version.coerce refuses
    Images,        \* repository, image and species
    Digests,
    Builds         \* what follows the third number, or nothing

Numbered == [order: Nat, build: Builds]

ASSUME VersionsAssumption ==
    /\ None \notin Numbered \cup Numberless /\ LatestTag \notin Numbered \cup Numberless
    /\ None # LatestTag
    /\ Numberless \cap Numbered = {}

Tagged == [image: Images, version: Numbered \cup Numberless \cup {None, LatestTag},
           digest: Digests]

(* is_same_image, __eq__, __lt__.  (__gt__, which raises on a number and   *)
(* 'latest', has no caller.)                                               *)
SameImage(a, b) == a.image = b.image
Versioned(a) == a.version # None
Coerced(a, b) == {a.version, b.version} \cap Numberless # {}

EqRaises(a, b) == SameImage(a, b) /\ a.version # LatestTag /\ Coerced(a, b)
Eq(a, b) ==
    /\ SameImage(a, b) /\ ~EqRaises(a, b)
    /\ a.version = b.version
    /\ a.version = LatestTag => a.digest = b.digest

LtRaises(a, b) ==
    /\ SameImage(a, b) /\ Versioned(a) /\ Versioned(b)
    /\ LatestTag \notin {a.version, b.version}
    /\ Coerced(a, b)
Lt(a, b) ==
    /\ SameImage(a, b) /\ Versioned(a) /\ Versioned(b) /\ ~LtRaises(a, b)
    /\ a.version # LatestTag
    /\ b.version = LatestTag \/ a.version.order < b.version.order

(* A sort of a and b by __lt__ has an answer.                              *)
Comparable(a, b) ==
    SameImage(a, b) /\ Versioned(a) /\ Versioned(b) /\ ~LtRaises(a, b) /\ ~LtRaises(b, a)

(* The same place in the order, by two versions that are not equal.        *)
Tied(a, b) ==
    \/ /\ a.version = LatestTag /\ b.version = LatestTag
       /\ a.digest # b.digest
    \/ /\ a.version \in Numbered /\ b.version \in Numbered
       /\ a.version.order = b.version.order /\ a.version.build # b.version.build

-----------------------------------------------------------------------------
(* Two versioned tags of one image can be sorted exactly when one of them  *)
(* is 'latest' or none is refused: a single tag without a number makes the *)
(* sort of a service raise, unless 'latest' is the only other.             *)
THEOREM SortableWhenNumbered ==
    \A a, b \in Tagged :
        SameImage(a, b) /\ Versioned(a) /\ Versioned(b) =>
            (Comparable(a, b) <=> \/ a.version = LatestTag \/ b.version = LatestTag
                                  \/ a.version \in Numbered /\ b.version \in Numbered)
  BY VersionsAssumption DEF Comparable, LtRaises, Coerced, Tagged, SameImage, Versioned

(* No version is before itself: __lt__ is a strict order.                  *)
THEOREM LtIrreflexive == \A a \in Tagged : ~Lt(a, a)
  BY VersionsAssumption DEF Lt, LtRaises, Coerced, SameImage, Tagged, Numbered, Versioned

(* Where it answers, __lt__ is transitive: over numbers, 'latest', and     *)
(* tags that tell no version, which are before and after nothing.  A       *)
(* version without a number is before 'latest' and raises against others.  *)
THEOREM LtTransitive == \A a, b, c \in Tagged : Lt(a, b) /\ Lt(b, c) => Lt(a, c)
  BY VersionsAssumption DEF Lt, LtRaises, Coerced, Tagged, Numbered, SameImage, Versioned

(* What a sort of versions of one image leaves to chance: two versioned    *)
(* tags that __lt__ compares and does not order are equal, or are 'latest' *)
(* of two digests, or differ after the third number only.                  *)
THEOREM UnorderedTied ==
    \A a, b \in Tagged : Comparable(a, b) /\ ~Lt(a, b) /\ ~Lt(b, a) => Eq(a, b) \/ Tied(a, b)
PROOF
  <1> SUFFICES ASSUME NEW a \in Tagged, NEW b \in Tagged,
                      Comparable(a, b), ~Lt(a, b), ~Lt(b, a)
               PROVE  Eq(a, b) \/ Tied(a, b)
    OBVIOUS
  <1>0. /\ SameImage(a, b) /\ SameImage(b, a) /\ Versioned(a) /\ Versioned(b)
        /\ ~LtRaises(a, b) /\ ~LtRaises(b, a)
    BY DEF Comparable, SameImage
  <1>1. CASE a.version = LatestTag \/ b.version = LatestTag
    <2>1. a.version = LatestTag /\ b.version = LatestTag
      BY <1>0, <1>1 DEF Lt
    <2> QED
      BY <1>0, <2>1 DEF Eq, EqRaises, Tied
  <1>2. CASE a.version # LatestTag /\ b.version # LatestTag
    <2>1. a.version \in Numbered /\ b.version \in Numbered
      BY <1>2, SortableWhenNumbered DEF Comparable
    <2>2. a.version.order = b.version.order
      BY <1>0, <1>2, <2>1 DEF Lt, Numbered
    <2>3. CASE a.version.build = b.version.build
      <3>1. a.version = b.version /\ ~EqRaises(a, b)
        BY <2>1, <2>2, <2>3, VersionsAssumption DEF Numbered, EqRaises, Coerced
      <3> QED
        BY <1>0, <1>2, <3>1 DEF Eq
    <2> QED
      BY <2>1, <2>2, <2>3 DEF Tied
  <1> QED
    BY <1>1, <1>2

(* Being unordered is transitive among the versioned tags of one image:    *)
(* the tags that a sort leaves to chance form groups, and the groups are   *)
(* in order, where the sort has an answer.                                 *)
Unordered(a, b) == Comparable(a, b) /\ ~Lt(a, b) /\ ~Lt(b, a)
THEOREM UnorderedTransitive ==
    \A a, b, c \in Tagged : Unordered(a, b) /\ Unordered(b, c) => Unordered(a, c)
  BY VersionsAssumption
  DEF Unordered, Comparable, Lt, LtRaises, Coerced, Tagged, Numbered, SameImage, Versioned

(* For __eq__ versions alike are unordered: equality and order never       *)
(* contradict each other.                                                  *)
THEOREM EqUnordered == \A a, b \in Tagged : Eq(a, b) => ~Lt(a, b) /\ ~Lt(b, a)
  BY VersionsAssumption
  DEF Eq, EqRaises, Lt, LtRaises, Coerced, Tagged, Numbered, SameImage, Versioned
=============================================================================
