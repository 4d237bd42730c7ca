----------------------- MODULE SpfPopulationProofs -------------------------
(***************************************************************************)
(* populate_build_system, for every instance whose library names have      *)
(* disjoint USES_ keys: supporting shared libraries stay out of a static   *)
(* build.                                                                  *)
(*                                                                         *)
(* populate_build_system (lines 119-196) sets flags and shared_lib_dict     *)
(* keys only from the records of build_info_set it has visited, and each   *)
(* record's keys are keys of its own name.  A supporting library (no AMDB   *)
(* info, declared shared, GEN_SHARED_LIBS off) is resolved to              *)
(* SHARED_NO_BUILD by map_build_input_to_built_str (lines 303-308), and the *)
(* stored record of its name has that build, because redeclarations agree  *)
(* (lines 380-387); such a record contributes no key.                      *)
(***************************************************************************)
EXTENDS SpfLibsCfgProofs, TLAPS

\* The USES_ keys that visiting one record may add to env or the dictionary.
LibKeys(bi) ==
  (IF SoLinked(bi) THEN {SoKey(bi)} ELSE {}) \cup StaticFlags(bi) \cup IslandFlags(bi)

\* Distinct library names never share a USES_ key (the clash run shows
\* what happens when they do).
KeysDistinct ==
  \A n1, n2 \in LibNames : n1 # n2 => KeysOf(n1) \cap KeysOf(n2) = {}

\* No record is visited while files are still read.
PopStart == phase = "ingest" => pop_idx = 1

\* Every key set so far was added by a record already visited.
PopKeys ==
  env_set \cup DOMAIN shared_lib_dict
    \subseteq UNION {LibKeys(build_info[i]) : i \in 1..(pop_idx - 1)}

\* Every parsed declaration's build is the build stored under its name.
ResolvedBuilds ==
  \A k \in 1..Len(parsed) : \E i \in IndexOf(parsed[k].name) :
    build_info[i].build = NewBuildInfo(parsed[k]).build

\* Once visiting has started, files are no longer read and the builds of
\* the parsed declarations are those stored.
PopResolved == pop_idx > 1 => phase # "ingest" /\ ResolvedBuilds

SInv == TInv /\ PopStart /\ PopKeys /\ PopResolved

-----------------------------------------------------------------------------
\* A record's keys are keys of its own name.
LEMMA LibKeysOwn ==
  ASSUME NEW bi \in BuildInfo
  PROVE  LibKeys(bi) \subseteq KeysOf(bi.libname)
<1>1. \A sfx \in KeySuffixes : UsesKey(bi.libname, sfx) \in KeysOf(bi.libname)
  BY DEF KeysOf
<1>2. bi.build \in STATIC_BUILD_TYPES =>
        Suffix(bi) \in {NoSuffix, <<"_STRIP">>, <<"_STRIP", "_ONLY">>, <<"_STUB">>}
  BY DEF Suffix, STATIC_BUILD_TYPES_ENV_SUFFIX_MAP
<1>3. /\ <<"_ISLAND">> \o NoSuffix = <<"_ISLAND">>
      /\ <<"_ISLAND">> \o <<"_STRIP">> = <<"_ISLAND", "_STRIP">>
      /\ <<"_ISLAND">> \o <<"_STRIP", "_ONLY">> = <<"_ISLAND", "_STRIP", "_ONLY">>
      /\ <<"_ISLAND">> \o <<"_STUB">> = <<"_ISLAND", "_STUB">>
  BY IslandSuffixes
<1>4. SoKey(bi) \in KeysOf(bi.libname)
  BY <1>1 DEF SoKey, KeySuffixes
<1>5. StaticFlags(bi) \subseteq KeysOf(bi.libname)
  BY <1>1, <1>2, <1>3 DEF StaticFlags, KeySuffixes
<1>6. IslandFlags(bi) \subseteq KeysOf(bi.libname)
  BY <1>1, <1>2, <1>3 DEF IslandFlags, KeySuffixes
<1>7. QED BY <1>4, <1>5, <1>6 DEF LibKeys

\* A supporting library resolves to SHARED_NO_BUILD (or to nothing, when
\* its resolution fails), and a record with that build adds no key.
LEMMA SupportingNoKeys ==
  ASSUME NEW d, ~env.gen_shared, ~IsAmdbInfoPresent(d),
         SelectedBuild(d.build, env.flags) \in SHARED_BUILD_TYPES,
         NEW bi, bi.build = NewBuildInfo(d).build
  PROVE  LibKeys(bi) = {}
<1>1. NewBuildInfo(d).build \in {None, "SHARED_NO_BUILD"}
  BY DEF NewBuildInfo, LibBuild, MapBuildInputToBuiltStr, Ok, Err,
         SHARED_BUILD_TYPE_TO_STATIC_MAP, BuildKinds, SHARED_BUILD_TYPES,
         STATIC_BUILD_TYPES
<1>2. bi.build \notin STATIC_BUILD_TYPES /\ ~SoLinked(bi)
  BY <1>1 DEF None, STATIC_BUILD_TYPES, SoLinked, SHARED_BUILD_TYPES
<1>3. QED BY <1>2 DEF LibKeys, StaticFlags, IslandFlags

\* The keys of a record depend on the environment only.
LEMMA LibKeysStable ==
  ASSUME env' = env
  PROVE  \A x : LibKeys(x)' = LibKeys(x)
BY DEF LibKeys, SoKey, SoLinked, StaticFlags, IslandFlags, Suffix

\* The resolved builds, after a step that keeps the environment, the
\* stored records and the parsed declarations.
LEMMA ResolvedBuildsFrame ==
  ASSUME UNCHANGED <<env, parsed, build_info>>
  PROVE  ResolvedBuilds' = ResolvedBuilds
<1>1. \A x : NewBuildInfo(x)' = NewBuildInfo(x)
  BY NewBuildInfoStable
<1>2. \A n : IndexOf(n)' = IndexOf(n)
  BY DEF IndexOf
<1>3. QED BY <1>1, <1>2 DEF ResolvedBuilds

LEMMA SInvInit == Init => SInv
<1> SUFFICES ASSUME Init PROVE SInv
  OBVIOUS
<1>1. pop_idx = 1 /\ env_set = {} /\ DOMAIN shared_lib_dict = {}
  BY DEF Init
<1>2. QED BY <1>1, TInvInit DEF SInv, PopStart, PopKeys, PopResolved

\* Every step keeps the keys set so far tied to the records visited so far.
LEMMA SInvStep == SInv /\ [Next]_vars => SInv'
<1> SUFFICES ASSUME SInv, [Next]_vars PROVE SInv'
  OBVIOUS
<1>0. TInv' /\ TypeOK /\ RedeclarationConsistent
  BY TInvStep DEF SInv, TInv
<1>1. CASE Populate
  <2> DEFINE bi == build_info[pop_idx]
  <2>1. /\ phase = "populate" /\ phase' = "populate"
        /\ pop_idx' = pop_idx + 1 /\ pop_idx \in 1..Len(build_info)
        /\ UNCHANGED <<env, parsed, build_info>>
    BY <1>1, <1>0 DEF Populate, TypeOK
  <2>2. /\ env_set' = env_set \cup StaticFlags(bi) \cup IslandFlags(bi)
        /\ DOMAIN shared_lib_dict' \subseteq
             DOMAIN shared_lib_dict \cup (IF SoLinked(bi) THEN {SoKey(bi)} ELSE {})
    BY <1>1 DEF Populate, SharedLibDictAfter
  <2>3. PopKeys'
    <3>1. LibKeys(bi) \subseteq UNION {LibKeys(build_info'[i]) : i \in 1..(pop_idx' - 1)}
      BY <2>1
    <3>2. UNION {LibKeys(build_info[i]) : i \in 1..(pop_idx - 1)}
            \subseteq UNION {LibKeys(build_info'[i]) : i \in 1..(pop_idx' - 1)}
      BY <2>1
    <3>3. \A x : LibKeys(x)' = LibKeys(x)
      BY <2>1, LibKeysStable
    <3>4. env_set' \cup DOMAIN shared_lib_dict'
            \subseteq UNION {LibKeys(build_info'[i]) : i \in 1..(pop_idx' - 1)}
      BY <2>2, <3>1, <3>2 DEF PopKeys, SInv, LibKeys
    <3>5. QED BY <3>3, <3>4 DEF PopKeys
  <2>4. PopResolved'
    <3>1. ResolvedBuilds
      <4> SUFFICES ASSUME NEW k \in 1..Len(parsed)
                   PROVE  \E i \in IndexOf(parsed[k].name) :
                            build_info[i].build = NewBuildInfo(parsed[k]).build
        BY DEF ResolvedBuilds
      <4>1. PICK i \in IndexOf(parsed[k].name) :
              \A f \in ResolvedFields : build_info[i][f] = NewBuildInfo(parsed[k])[f]
        BY <1>0, <2>1 DEF RedeclarationConsistent
      <4>2. "build" \in ResolvedFields
        BY DEF ResolvedFields
      <4>3. QED BY <4>1, <4>2
    <3>2. QED BY <3>1, <2>1, ResolvedBuildsFrame DEF PopResolved
  <2>5. PopStart'
    BY <2>1 DEF PopStart
  <2>6. QED BY <1>0, <2>3, <2>4, <2>5 DEF SInv
<1>2. CASE ParseLib \/ OpenFile
  <2>1. phase = "ingest" /\ pop_idx = 1 /\ UNCHANGED <<pop_idx, env_set, shared_lib_dict, env>>
    BY <1>2 DEF ParseLib, OpenFile, SInv, PopStart
  <2>2. phase' \in {"ingest", "failed"}
    BY <1>2 DEF ParseLib, OpenFile
  <2>3. UNION {LibKeys(build_info[i]) : i \in 1..(pop_idx - 1)} = {}
    <3>1. 1..(pop_idx - 1) = {}
      BY <2>1
    <3>2. QED BY <3>1
  <2>4. UNION {LibKeys(build_info'[i]) : i \in 1..(pop_idx' - 1)} = {}
    <3>1. 1..(pop_idx' - 1) = {}
      BY <2>1
    <3>2. QED BY <3>1
  <2>5. env_set = {} /\ DOMAIN shared_lib_dict = {}
    BY <2>3 DEF SInv, PopKeys
  <2>6. QED BY <1>0, <2>1, <2>2, <2>4, <2>5 DEF SInv, PopStart, PopKeys, PopResolved
<1>3. CASE EndIngest \/ EndPopulate \/ Emit \/ Terminated \/ UNCHANGED vars
  <2>1. UNCHANGED <<env, parsed, build_info, pop_idx, env_set, shared_lib_dict>>
    BY <1>3 DEF EndIngest, EndPopulate, Emit, Terminated, vars
  <2>2. phase' = "ingest" => phase = "ingest"
    BY <1>3 DEF EndIngest, EndPopulate, Emit, Terminated, vars
  <2>3. PopResolved'
    BY <2>1, <2>2, ResolvedBuildsFrame DEF SInv, PopResolved
  <2>4. \A x : LibKeys(x)' = LibKeys(x)
    BY <2>1, LibKeysStable
  <2>5. PopKeys' /\ PopStart'
    BY <2>1, <2>2, <2>4 DEF SInv, PopKeys, PopStart
  <2>6. QED BY <1>0, <2>3, <2>5 DEF SInv
<1>4. QED BY <1>1, <1>2, <1>3 DEF Next

\* The invariant gives the property, when names do not share keys.
LEMMA SInvSupporting ==
  ASSUME KeysDistinct, SInv
  PROVE  SupportingLibsNotLinked
<1> SUFFICES ASSUME ~env.gen_shared, NEW k \in 1..Len(parsed),
                    ~IsAmdbInfoPresent(parsed[k]),
                    SelectedBuild(parsed[k].build, env.flags) \in SHARED_BUILD_TYPES,
                    NEW x \in KeysOf(parsed[k].name) \cap (env_set \cup DOMAIN shared_lib_dict)
             PROVE  FALSE
  BY DEF SupportingLibsNotLinked
<1> DEFINE d == parsed[k]
<1>a. TypeOK /\ RedeclarationConsistent /\ PopKeys /\ PopResolved
  BY DEF SInv, TInv
<1>b. d \in Decl
  BY <1>a DEF TypeOK
<1>0. /\ TypeOK /\ RedeclarationConsistent /\ PopKeys /\ PopResolved
      /\ d \in Decl /\ d.name \in LibNames
  BY <1>a, <1>b DEF Decl
<1>1. PICK i \in 1..(pop_idx - 1) : x \in LibKeys(build_info[i])
  BY <1>0 DEF PopKeys
<1>2. i \in 1..Len(build_info) /\ build_info[i] \in BuildInfo /\ pop_idx > 1
  BY <1>0, <1>1 DEF TypeOK
<1>3. x \in KeysOf(build_info[i].libname) /\ build_info[i].libname \in LibNames
  BY <1>1, <1>2, LibKeysOwn DEF BuildInfo
<1>4. build_info[i].libname = d.name
  BY <1>0, <1>3 DEF KeysDistinct
<1>5. PICK j \in IndexOf(d.name) : build_info[j].build = NewBuildInfo(d).build
  BY <1>0, <1>2 DEF PopResolved, ResolvedBuilds
<1>6. j = i
  BY <1>0, <1>2, <1>4, <1>5 DEF RedeclarationConsistent, IndexOf
<1>7. LibKeys(build_info[i]) = {}
  BY <1>5, <1>6, SupportingNoKeys
<1>8. QED BY <1>1, <1>7

\* Supporting shared libraries stay out of a static build (comment at
\* lines 303-306): in every run of the parser, for every set of libraries
\* whose names have disjoint USES_ keys, a library declared shared without
\* AMDB info sets no USES_ flag of its name and gets no shared_lib_dict
\* entry when GEN_SHARED_LIBS is off.
THEOREM SupportingLibsIsolated ==
  ASSUME KeysDistinct
  PROVE  Spec => []SupportingLibsNotLinked
<1>1. SInv => SupportingLibsNotLinked
  BY SInvSupporting
<1>2. QED BY <1>1, SInvInit, SInvStep, PTL DEF Spec

====
