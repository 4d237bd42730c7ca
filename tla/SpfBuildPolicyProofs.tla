------------------------ MODULE SpfBuildPolicyProofs ------------------------
(***************************************************************************)
(* Facts about the conditional value resolution of map_island_info and    *)
(* map_build_input_to_built_str (lines 261-312): the first matching flag   *)
(* entry exists whenever one entry matches, so a resolution that raises    *)
(* nothing yields one of the values the JSON could give.                   *)
(***************************************************************************)
EXTENDS SpfBuildPolicy, WellFoundedInduction, SequenceTheorems, TLAPS

\* Every non-empty set of naturals has a least element: the loop over the
\* flag map's keys breaks at the first one that matches.
LEMMA LeastIndexExists ==
  ASSUME NEW T \in SUBSET Nat, T # {}
  PROVE  \E i \in T : \A j \in T : i <= j
<1> DEFINE Less == {ss \in Nat \X Nat : ss[1] < ss[2]}
<1>1. OpToRel(<, Nat) = Less
  BY DEF OpToRel
<1>2. IsWellFoundedOn(Less, Nat)
  BY <1>1, NatLessThanWellFounded, Zenon
<1>3. PICK x \in T : \A y \in T : ~(<<y, x>> \in Less)
  BY <1>2, WFMin
<1>4. ASSUME NEW y \in T PROVE x <= y
  <2>1. ~(<<y, x>> \in Less)
    BY <1>3
  <2>2. x \in Nat /\ y \in Nat
    OBVIOUS
  <2>3. ~(y < x)
    BY <2>1, <2>2 DEF Less
  <2>4. QED BY <2>2, <2>3
<1>5. QED BY <1>4

\* The entry the loop breaks at is one of the map's entries, so its value
\* is one of the values the map offers.
LEMMA FirstMatchType ==
  ASSUME NEW K, NEW V, NEW cv, cv.entries \in Seq(K \X V), NEW envFlags,
         MatchingEntries(cv, envFlags) # {}
  PROVE  FirstMatch(cv, envFlags) \in V
<1> DEFINE I == MatchingEntries(cv, envFlags)
<1>1. I \subseteq 1..Len(cv.entries) /\ I \subseteq Nat
  BY DEF MatchingEntries
<1>2. \E i \in I : \A j \in I : i <= j
  BY <1>1, LeastIndexExists
<1>3. (CHOOSE i \in I : \A j \in I : i <= j) \in 1..Len(cv.entries)
  BY <1>1, <1>2
<1>4. QED BY <1>3 DEF FirstMatch

\* map_island_info returns the Python False, the literal given, or a value
\* of the flag map (its matching entry or its DEFAULT).
LEMMA IslandInfoType ==
  ASSUME NEW K, NEW V, BoolFalse \in V, NEW isl, NEW envFlags,
         isl.val \in V \cup {None}, isl.entries \in Seq(K \X V)
  PROVE  MapIslandInfo(isl, envFlags).val \in V \cup {None}
<1>1. CASE ~isl.lit /\ isl.present /\ MatchingEntries(isl, envFlags) # {}
  <2>1. FirstMatch(isl, envFlags) \in V
    BY <1>1, FirstMatchType
  <2>2. QED BY <1>1, <2>1 DEF MapIslandInfo, Ok, Err
<1>2. CASE ~(~isl.lit /\ isl.present /\ MatchingEntries(isl, envFlags) # {})
  BY <1>2 DEF MapIslandInfo, Ok, Err
<1>3. QED BY <1>1, <1>2

(***************************************************************************)
(* The USES_ keys glue words: "_ISLAND" + k (lines 153, 180-183) is the    *)
(* word "_ISLAND" followed by the words of the suffix k.                   *)
(***************************************************************************)
LEMMA ConsOne ==
  ASSUME NEW w, NEW x
  PROVE  <<w>> \o <<x>> = <<w, x>>
<1> DEFINE S == {w, x}
<1>1. <<w>> \in Seq(S) /\ <<x>> \in Seq(S) /\ <<w, x>> \in Seq(S)
  OBVIOUS
<1>2. /\ <<w>> \o <<x>> \in Seq(S)
      /\ Len(<<w>> \o <<x>>) = 2
      /\ (<<w>> \o <<x>>)[1] = w /\ (<<w>> \o <<x>>)[2] = x
  BY <1>1, ConcatProperties
<1>3. \A s, t \in Seq(S) :
        Len(s) = Len(t) /\ (\A i \in 1..Len(s) : s[i] = t[i]) => s = t
  BY SeqEqual
<1>4. \A i \in 1..2 : (<<w>> \o <<x>>)[i] = <<w, x>>[i]
  BY <1>2
<1>5. QED BY <1>1, <1>2, <1>3, <1>4

LEMMA ConsTwo ==
  ASSUME NEW w, NEW x, NEW y
  PROVE  <<w>> \o <<x, y>> = <<w, x, y>>
<1> DEFINE S == {w, x, y}
<1>1. <<w>> \in Seq(S) /\ <<x, y>> \in Seq(S) /\ <<w, x, y>> \in Seq(S)
  OBVIOUS
<1>2. /\ <<w>> \o <<x, y>> \in Seq(S)
      /\ Len(<<w>> \o <<x, y>>) = 3
      /\ (<<w>> \o <<x, y>>)[1] = w /\ (<<w>> \o <<x, y>>)[2] = x
      /\ (<<w>> \o <<x, y>>)[3] = y
  BY <1>1, ConcatProperties
<1>3. \A s, t \in Seq(S) :
        Len(s) = Len(t) /\ (\A i \in 1..Len(s) : s[i] = t[i]) => s = t
  BY SeqEqual
<1>4. \A i \in 1..3 : (<<w>> \o <<x, y>>)[i] = <<w, x, y>>[i]
  BY <1>2
<1>5. QED BY <1>1, <1>2, <1>3, <1>4

\* The suffixes of _populate_static_build_system with "_ISLAND" in front.
LEMMA IslandSuffixes ==
  /\ <<"_ISLAND">> \o NoSuffix = <<"_ISLAND">>
  /\ <<"_ISLAND">> \o <<"_STRIP">> = <<"_ISLAND", "_STRIP">>
  /\ <<"_ISLAND">> \o <<"_STRIP", "_ONLY">> = <<"_ISLAND", "_STRIP", "_ONLY">>
  /\ <<"_ISLAND">> \o <<"_STUB">> = <<"_ISLAND", "_STUB">>
<1>1. <<"_ISLAND">> \o NoSuffix = <<"_ISLAND">>
  <2>1. <<"_ISLAND">> \in Seq({"_ISLAND"})
    OBVIOUS
  <2>2. QED BY <2>1, ConcatEmptySeq DEF NoSuffix
<1>2. QED BY <1>1, ConsOne, ConsTwo
=============================================================================
