--------------------------- MODULE SpfBuildPolicy ---------------------------
(***************************************************************************)
(* Build-kind policy and conditional value resolution of the SPF library   *)
(* config parser (src/scripts/spf/spf_libs_config_parser.py).  Pure        *)
(* definitions, no state: the tables at lines 41-63, the flag-map lookups  *)
(* of map_build_input_to_built_str and map_island_info, and the derived    *)
(* names (.so file name, USES_ keys) the build system is handed.           *)
(*                                                                         *)
(* Data abstraction.  A library name is a sequence of words: a first word  *)
(* without underscore followed by words that start with "_".  The strings  *)
(* the code concatenates ("USES_" + name.upper() + suffix) are sequences   *)
(* of such words, so two keys are equal strings exactly when their word    *)
(* sequences are equal.  An environment flag spelling is a pair            *)
(* <<flag, spelling>> with spelling "upper", "lower" or "mixed".           *)
(***************************************************************************)
EXTENDS Integers, Sequences

\* The build-type tables, lines 43-47.
STATIC_BUILD_TYPES == {"STATIC_BUILD_STRIP", "STATIC_BUILD_NO_STRIP",
                       "STATIC_BUILD_STRIP_ONLY", "STATIC_BUILD_STUB",
                       "STATIC_BUILD_VIRTUAL_STUB"}
SHARED_BUILD_TYPES == {"SHARED_BUILD_STRIP", "SHARED_BUILD_NO_STRIP",
                       "SHARED_NO_BUILD"}
STUB_BUILD_TYPES == {"STATIC_BUILD_STUB", "STATIC_BUILD_VIRTUAL_STUB"}
BuildKinds == STATIC_BUILD_TYPES \cup SHARED_BUILD_TYPES

\* MODULE_TYPE_MAP and INTERFACE_TYPE_MAP, lines 41-42 (keys only).
MODULE_TYPES == {"generic", "decoder", "encoder", "converter", "packetizer",
                 "depacketizer", "detector", "generator", "pp", "end_point",
                 "framework"}
INTERFACE_TYPES == {"virtual_stub", "capi"}

\* Python None: the absent value of a string-valued field, of the suffix
\* (NO_STRIP has none) and of the .so file name of a static library.
None == "None"
NoSuffix == <<>>
NoFile == <<>>

\* STATIC_BUILD_TYPES_ENV_SUFFIX_MAP, lines 49-53, as word sequences.
STATIC_BUILD_TYPES_ENV_SUFFIX_MAP ==
  [k \in STATIC_BUILD_TYPES |->
     CASE k = "STATIC_BUILD_STRIP"      -> <<"_STRIP">>
       [] k = "STATIC_BUILD_NO_STRIP"   -> NoSuffix
       [] k = "STATIC_BUILD_STRIP_ONLY" -> <<"_STRIP", "_ONLY">>
       [] OTHER                         -> <<"_STUB">>]

\* SHARED_BUILD_TYPE_TO_STATIC_MAP, lines 56-63.
SHARED_BUILD_TYPE_TO_STATIC_MAP ==
  [k \in BuildKinds |->
     CASE k = "SHARED_BUILD_STRIP"    -> "STATIC_BUILD_STRIP"
       [] k = "SHARED_BUILD_NO_STRIP" -> "STATIC_BUILD_NO_STRIP"
       [] OTHER                       -> k]

(***************************************************************************)
(* Environment flags.  env.get(k.upper()) == True or env.get(k.lower())   *)
(* == True (lines 274 and 293): a key matches when the upper-case or the  *)
(* lower-case spelling of it is set, never its own mixed-case spelling.   *)
(***************************************************************************)
FlagSet(envFlags, key) ==
  \/ <<key[1], "upper">> \in envFlags
  \/ <<key[1], "lower">> \in envFlags

(***************************************************************************)
(* A conditional value is a record: lit = TRUE for a literal, whose value *)
(* is val; lit = FALSE for a flag map, whose non-DEFAULT entries are the  *)
(* sequence entries of <<key, value>> in JSON order and whose DEFAULT is  *)
(* val (None when the map has no DEFAULT key).                             *)
(***************************************************************************)
MatchingEntries(cv, envFlags) ==
  {i \in 1..Len(cv.entries) : FlagSet(envFlags, cv.entries[i][1])}

\* The first matching entry in declaration order (the loop's break).
FirstMatch(cv, envFlags) ==
  LET I == MatchingEntries(cv, envFlags)
  IN  cv.entries[CHOOSE i \in I : \A j \in I : i <= j][2]

\* Result records of a resolution: err is "none" or the error raised.
Ok(v) == [err |-> "none", val |-> v]
Err(e) == [err |-> e, val |-> None]

(***************************************************************************)
(* map_build_input_to_built_str, lines 284-312.  A flag map without       *)
(* DEFAULT is rejected before any lookup; without GEN_SHARED_LIBS a       *)
(* shared library that has no AMDB info becomes SHARED_NO_BUILD and every *)
(* kind then goes through SHARED_BUILD_TYPE_TO_STATIC_MAP, whose KeyError *)
(* on an unknown kind aborts the run.                                      *)
(***************************************************************************)
SelectedBuild(b, envFlags) ==
  IF ~b.lit /\ MatchingEntries(b, envFlags) # {}
  THEN FirstMatch(b, envFlags) ELSE b.val

\* Mutant: a shared library without AMDB info is not forced to SHARED_NO_BUILD.
MapBuildInputToBuiltStrNoForce(b, isAmdbInfoPresent, envFlags, genShared) ==
  LET sel == SelectedBuild(b, envFlags)
  IN  IF ~b.lit /\ b.val = None THEN Err("missing_default")
      ELSE IF genShared THEN Ok(sel)
      ELSE IF sel \notin BuildKinds THEN Err("key_error")
      ELSE Ok(SHARED_BUILD_TYPE_TO_STATIC_MAP[sel])

MapBuildInputToBuiltStr(b, isAmdbInfoPresent, envFlags, genShared) ==
  LET sel == SelectedBuild(b, envFlags)
      forced == IF sel \in SHARED_BUILD_TYPES /\ ~isAmdbInfoPresent
                THEN "SHARED_NO_BUILD" ELSE sel
  IN  IF ~b.lit /\ b.val = None THEN Err("missing_default")
      ELSE IF genShared THEN Ok(sel)
      ELSE IF forced \notin BuildKinds THEN Err("key_error")
      ELSE Ok(SHARED_BUILD_TYPE_TO_STATIC_MAP[forced])

(***************************************************************************)
(* map_island_info, lines 261-281.  An absent "island" is the Python      *)
(* False ("bool_False" here); a literal is kept as given; a flag map      *)
(* resolves to a string, and its DEFAULT is read only when no flag        *)
(* matches, so a map without DEFAULT fails only then (KeyError).  The      *)
(* chosen value is .strip()ped (lines 275, 279): a JSON boolean there has  *)
(* no strip and raises AttributeError, which no caller catches.            *)
(***************************************************************************)
BoolFalse == "bool_False"
BoolTrue == "bool_True"

MapIslandInfo(isl, envFlags) ==
  LET chosen == IF MatchingEntries(isl, envFlags) # {}
                THEN FirstMatch(isl, envFlags) ELSE isl.val
  IN  IF ~isl.present THEN Ok(BoolFalse)
      ELSE IF isl.lit THEN Ok(isl.val)
      ELSE IF MatchingEntries(isl, envFlags) = {} /\ isl.val = None
           THEN Err("key_error")
      ELSE IF chosen \in {BoolFalse, BoolTrue} THEN Err("attribute_error")
      ELSE Ok(chosen)

(***************************************************************************)
(* Derived names.                                                          *)
(***************************************************************************)
\* str.upper() of one word of a library name.
UpperWord(w) ==
  CASE w = "a"      -> "A"
    [] w = "b"      -> "B"
    [] w = "c"      -> "C"
    [] w = "_strip" -> "_STRIP"
    [] w = "_only"  -> "_ONLY"
    [] OTHER        -> w

\* name.upper(), word by word.
Upper(name) == [i \in 1..Len(name) |-> UpperWord(name[i])]

\* "USES_" + libname.upper() + suffix (lines 126, 152-153, 180-183).
UsesKey(name, suffix) == <<"USES_">> \o Upper(name) \o suffix

\* BuildInfoClass.get_so_file_name, lines 114-118: libname.so.<major>.
SoFileName(name, build, major) ==
  IF build \in STATIC_BUILD_TYPES THEN NoFile ELSE <<name, major>>

\* ModuleInfoClass.get_built_type, lines 224-231.  The substring tests
\* ("build in 'STATIC_BUILD_VIRTUAL_STUB'") are equalities on these values.
BuiltType(mi) ==
  IF mi.build = "STATIC_BUILD_VIRTUAL_STUB" \/ mi.itype = "virtual_stub"
    THEN "VIRTUAL-STUB"
  ELSE IF mi.build \in STATIC_BUILD_TYPES THEN "STATIC"
  ELSE "DYNAMIC"

\* ModuleInfoClass.need_to_appear_in_qact, lines 232-237.
NeedToAppearInQact(mi) ==
  ~(mi.build = "STATIC_BUILD_VIRTUAL_STUB" \/ mi.itype = "virtual_stub" \/ mi.test)

\* ModuleInfoClass.is_new_rev_needed, lines 238-239.
IsNewRevNeeded(mi, other) == mi.filename # other.filename
=============================================================================
