------------------------------ MODULE SpfLibsCfg ------------------------------
(***************************************************************************)
(* The SPF library config parser run, parse_cfg_and_gen_output (lines      *)
(* 767-882): the JSON files are read one after the other and each library  *)
(* declaration goes through parse_each_json (lines 319-472), which fills   *)
(* the library build registry build_info_set and the module registry       *)
(* mod_info; then populate_build_system (lines 193-196) hands every        *)
(* registered library to the build system (shared_lib_dict and env flags); *)
(* then the QACT XML and the AMDB C tables are written (lines 861-866),    *)
(* whose writers make the last consistency checks.  Any error aborts the   *)
(* run.  Text output, file creation and logging are left out.              *)
(***************************************************************************)
EXTENDS SpfModuleRegistry

CONSTANTS
  Flags,       \* environment flag names a conditional value can test
  Inputs,      \* the possible sequences of JSON files, in glob order
  EnvChoices   \* the possible build environments

(***************************************************************************)
(* A library declaration (one JSON record).  build and island are          *)
(* conditional values (see SpfBuildPolicy); amdb is <<>> when there is no  *)
(* amdb_info and <<a>> for the AmdbRecord a; major and minor are Absent    *)
(* when the key is missing; security and pkg are None or a value; depends  *)
(* is the depends_on list.                                                 *)
(*                                                                         *)
(* An environment: flags is the set of flag spellings set to True;         *)
(* gen_shared, non_mobile and island say whether GEN_SHARED_LIBS,          *)
(* USES_NON_MOBILE and USES_AUDIO_IN_ISLAND are in env; emit is FALSE for  *)
(* a clean or a build under hap, where no output file is written.          *)
(***************************************************************************)
VARIABLES
  env,             \* the build environment of this run
  phase,           \* "ingest", "populate", "emit", "done" or "failed"
  files,           \* the JSON files not opened yet
  cur,             \* the declarations of the current file not parsed yet
  parsed,          \* the declarations parsed so far (history)
  build_info,      \* build_info_set: the BuildInfoClass records, in order
  pop_idx,         \* the build_info entry populate_build_system is at
  shared_lib_dict, \* USES_<LIB>[_STRIP]_SO -> [version, deps, extra]
  env_set          \* the env flags set to True by env.Replace

vars == <<env, phase, files, cur, parsed, build_info, pop_idx,
          shared_lib_dict, env_set, mod_info, err>>

-----------------------------------------------------------------------------
(***************************************************************************)
(* One declaration, parse_each_json lines 323-387.                         *)
(***************************************************************************)
IsAmdbInfoPresent(d) == d.amdb # <<>>

Amdb(d) == d.amdb[1]

\* A missing lib_major_ver or lib_minor_ver key.
Absent == -1

LibBuild(d) ==
  MapBuildInputToBuiltStr(d.build, IsAmdbInfoPresent(d), env.flags, env.gen_shared)

LibIsland(d) == MapIslandInfo(d.island, env.flags)

\* Mutant: a missing version is not defaulted.
VersionNoDefault(v) == v

\* Versions default to 0 when absent (lines 335-344).
Version(v) == IF v = Absent THEN 0 ELSE v

\* BuildInfoClass(lib_name, build, is_amdb_info_present, ...), lines 377-378.
NewBuildInfo(d) ==
  [libname |-> d.name, build |-> LibBuild(d).val,
   amdb |-> IsAmdbInfoPresent(d), major |-> Version(d.major),
   minor |-> Version(d.minor), depends |-> d.depends,
   security |-> d.security, pkg |-> d.pkg, island |-> LibIsland(d).val,
   private |-> d.private]

\* Mutant: island_info left out of the comparison.
EqInAllRespectsNoIsland(x, y) ==
  /\ x.libname = y.libname
  /\ x.build = y.build
  /\ x.major = y.major
  /\ x.minor = y.minor
  /\ x.depends = y.depends
  /\ x.pkg = y.pkg
  /\ x.security = y.security

\* BuildInfoClass.eq_in_all_respects, lines 108-112.
EqInAllRespects(x, y) ==
  /\ x.libname = y.libname
  /\ x.build = y.build
  /\ x.major = y.major
  /\ x.minor = y.minor
  /\ x.depends = y.depends
  /\ x.pkg = y.pkg
  /\ x.security = y.security
  /\ x.island = y.island

\* "build_info in build_info_set": the key is the library name (line 102).
IndexOf(name) == {i \in 1..Len(build_info) : build_info[i].libname = name}

SoFilenameOf(d) == SoFileName(d.name, LibBuild(d).val, Version(d.major))

(***************************************************************************)
(* The checks of one declaration, in the order the code makes them; the   *)
(* first that fails is the error that aborts the run, "none" otherwise.   *)
(***************************************************************************)
LibError(d) ==
  LET build == LibBuild(d).val IN
  IF LibBuild(d).err # "none" THEN LibBuild(d).err
  ELSE IF IsAmdbInfoPresent(d) /\ build = "STATIC_BUILD_STUB"
    THEN "amdb_info_on_stub"
  ELSE IF LibIsland(d).err # "none" THEN LibIsland(d).err
  ELSE IF build \in SHARED_BUILD_TYPES /\ (d.major = Absent \/ d.minor = Absent)
    THEN "key_error"
  ELSE IF d.security # None /\ build \notin SHARED_BUILD_TYPES \cup STUB_BUILD_TYPES
    THEN "security_info_not_shared"
  ELSE IF d.security # None /\ d.pkg = None THEN "security_info_without_pkg_info"
  ELSE IF d.security = None /\ d.pkg # None THEN "pkg_info_without_security_info"
  ELSE IF build \notin BuildKinds THEN "unsupported_build"
  ELSE IF \E i \in IndexOf(d.name) :
            ~EqInAllRespects(NewBuildInfo(d), build_info[i])
    THEN "inconsistent_redeclaration"
  ELSE IF IsAmdbInfoPresent(d)
    THEN RegisterError(mod_info, Amdb(d), build, SoFilenameOf(d), d.test)
  ELSE "none"

-----------------------------------------------------------------------------
Init ==
  /\ env \in EnvChoices
  /\ files \in Inputs
  /\ phase = "ingest"
  /\ cur = <<>>
  /\ parsed = <<>>
  /\ build_info = <<>>
  /\ pop_idx = 1
  /\ shared_lib_dict = [k \in {} |-> None]
  /\ env_set = {}
  /\ mod_info = [m \in Mids |-> [r \in {} |-> NoFile]]
  /\ err = "none"

(***************************************************************************)
(* Lines 832-851: open the next JSON file.  A file that cannot be opened   *)
(* is skipped, a file that is not JSON aborts the run, an empty one is     *)
(* skipped; otherwise its declarations are parsed next.                   *)
(***************************************************************************)
OpenFile ==
  /\ phase = "ingest"
  /\ cur = <<>>
  /\ files # <<>>
  /\ files' = Tail(files)
  /\ \/ /\ Head(files).status = "unopenable"
        /\ UNCHANGED <<phase, cur, err>>
     \/ /\ Head(files).status = "malformed"
        /\ phase' = "failed"
        /\ err' = "json_error"
        /\ UNCHANGED cur
     \/ /\ Head(files).status = "ok"
        /\ cur' = Head(files).libs
        /\ UNCHANGED <<phase, err>>
  /\ UNCHANGED <<env, parsed, build_info, pop_idx, shared_lib_dict, env_set,
                 mod_info>>

(***************************************************************************)
(* One iteration of parse_each_json's loop (lines 320-464): the library is *)
(* added to build_info_set unless already there, and its amdb_info, if     *)
(* any, registered in mod_info; or the run aborts.                         *)
(***************************************************************************)
\* Mutant: the module is stored before the declaration's checks run.
ParseLibInsertFirst ==
  /\ phase = "ingest"
  /\ cur # <<>>
  /\ LET d == Head(cur) IN
       /\ mod_info' = IF IsAmdbInfoPresent(d) /\ LibBuild(d).err = "none"
                      THEN RegisteredMods(mod_info, Amdb(d), LibBuild(d).val,
                                          SoFilenameOf(d), d.test)
                      ELSE mod_info
       /\ \/ /\ LibError(d) = "none"
             /\ build_info' = IF IndexOf(d.name) = {}
                              THEN Append(build_info, NewBuildInfo(d))
                              ELSE build_info
             /\ cur' = Tail(cur)
             /\ parsed' = Append(parsed, d)
             /\ UNCHANGED <<phase, err>>
          \/ /\ LibError(d) # "none"
             /\ phase' = "failed"
             /\ err' = LibError(d)
             /\ UNCHANGED <<cur, parsed, build_info>>
  /\ UNCHANGED <<env, files, pop_idx, shared_lib_dict, env_set>>

ParseLib ==
  /\ phase = "ingest"
  /\ cur # <<>>
  /\ LET d == Head(cur) IN
       \/ /\ LibError(d) = "none"
          /\ build_info' = IF IndexOf(d.name) = {}
                           THEN Append(build_info, NewBuildInfo(d))
                           ELSE build_info
          /\ mod_info' = IF IsAmdbInfoPresent(d)
                         THEN RegisteredMods(mod_info, Amdb(d), LibBuild(d).val,
                                             SoFilenameOf(d), d.test)
                         ELSE mod_info
          /\ cur' = Tail(cur)
          /\ parsed' = Append(parsed, d)
          /\ UNCHANGED <<phase, err>>
       \/ /\ LibError(d) # "none"
          /\ phase' = "failed"
          /\ err' = LibError(d)
          /\ UNCHANGED <<cur, parsed, build_info, mod_info>>
  /\ UNCHANGED <<env, files, pop_idx, shared_lib_dict, env_set>>

\* All files read (line 853).
EndIngest ==
  /\ phase = "ingest"
  /\ cur = <<>>
  /\ files = <<>>
  /\ phase' = "populate"
  /\ UNCHANGED <<env, files, cur, parsed, build_info, pop_idx,
                 shared_lib_dict, env_set, mod_info, err>>

-----------------------------------------------------------------------------
(***************************************************************************)
(* populate_build_system of one library (lines 119-196).                  *)
(***************************************************************************)
\* _populate_so_build_system: the uses_key of a built shared library.
SoKey(bi) ==
  UsesKey(bi.libname, IF bi.build = "SHARED_BUILD_STRIP"
                      THEN <<"_STRIP", "_SO">> ELSE <<"_SO">>)

SoLinked(bi) == bi.build \in SHARED_BUILD_TYPES \ {"SHARED_NO_BUILD"}

\* The dictionary entry; security and package info only for non-mobile.
SoEntry(bi) ==
  [version |-> <<bi.major, bi.minor>>, depends |-> bi.depends,
   extra |-> IF env.non_mobile THEN <<bi.security, bi.pkg>> ELSE <<>>]

\* A key already present is kept (lines 133-135: a warning only).
SharedLibDictAfter(dict, bi) ==
  IF SoLinked(bi) /\ SoKey(bi) \notin DOMAIN dict
  THEN [k \in DOMAIN dict \cup {SoKey(bi)} |->
          IF k = SoKey(bi) THEN SoEntry(bi) ELSE dict[k]]
  ELSE dict

Suffix(bi) == STATIC_BUILD_TYPES_ENV_SUFFIX_MAP[bi.build]

\* _populate_static_build_system, lines 146-167.
StaticFlags(bi) ==
  IF bi.build \in STATIC_BUILD_TYPES /\ Suffix(bi) # NoSuffix
  THEN {UsesKey(bi.libname, Suffix(bi))}
       \cup (IF ~env.island \/ bi.island = BoolFalse
             THEN {UsesKey(bi.libname, <<"_ISLAND">> \o Suffix(bi))} ELSE {})
  ELSE {}

\* _populate_island_build_system, lines 169-191.
IslandFlags(bi) ==
  IF /\ bi.build \in STATIC_BUILD_TYPES /\ env.island
     /\ bi.island \notin {BoolFalse, "False"}
  THEN {UsesKey(bi.libname, <<"_ISLAND">> \o Suffix(bi)),
        UsesKey(bi.libname, <<"_ISLAND", "_PLINK", "_ISLAND">>)}
  ELSE {}

Populate ==
  /\ phase = "populate"
  /\ pop_idx <= Len(build_info)
  /\ LET bi == build_info[pop_idx] IN
       /\ shared_lib_dict' = SharedLibDictAfter(shared_lib_dict, bi)
       /\ env_set' = env_set \cup StaticFlags(bi) \cup IslandFlags(bi)
  /\ pop_idx' = pop_idx + 1
  /\ UNCHANGED <<env, phase, files, cur, parsed, build_info, mod_info, err>>

\* After the loop: output files are written unless cleaning or under hap.
EndPopulate ==
  /\ phase = "populate"
  /\ pop_idx > Len(build_info)
  /\ phase' = IF env.emit THEN "emit" ELSE "done"
  /\ UNCHANGED <<env, files, cur, parsed, build_info, pop_idx,
                 shared_lib_dict, env_set, mod_info, err>>

-----------------------------------------------------------------------------
(***************************************************************************)
(* The checks of the writers.  write_qact_xml (lines 726-732) rejects a    *)
(* latest revision that must appear in QACT and has no module name;        *)
(* write_autogen_files (lines 600-603) rejects a non-dynamic revision of a *)
(* module id that has more than one.  Its gap check (lines 498-509) never  *)
(* fires: is_latest_rev is never cleared, so it is not a check here.       *)
(***************************************************************************)
LatestRev(revs) == CHOOSE r \in revs : \A s \in revs : s <= r

UnnamedInQact(mi) ==
  \E m \in Mids :
    /\ DOMAIN mi[m] # {}
    /\ NeedToAppearInQact(mi[m][LatestRev(DOMAIN mi[m])])
    /\ ~mi[m][LatestRev(DOMAIN mi[m])].named

StaticWithRevisions(mi) ==
  \E m \in Mids : \E r \in DOMAIN mi[m] :
    BuiltType(mi[m][r]) # "DYNAMIC" /\ Cardinality(DOMAIN mi[m]) > 1

\* Mutant: write_autogen_files without its static-revision check.
EmitErrorNoStaticCheck(mi) ==
  IF UnnamedInQact(mi) THEN "module_without_name" ELSE "none"

EmitError(mi) ==
  IF UnnamedInQact(mi) THEN "module_without_name"
  ELSE IF StaticWithRevisions(mi) THEN "static_module_with_revisions"
  ELSE "none"

Emit ==
  /\ phase = "emit"
  /\ \/ /\ EmitError(mod_info) = "none"
        /\ phase' = "done"
        /\ UNCHANGED err
     \/ /\ EmitError(mod_info) # "none"
        /\ phase' = "failed"
        /\ err' = EmitError(mod_info)
  /\ UNCHANGED <<env, files, cur, parsed, build_info, pop_idx,
                 shared_lib_dict, env_set, mod_info>>

\* The run has returned shared_lib_dict, or exited with the error.
Terminated ==
  /\ phase \in {"done", "failed"}
  /\ UNCHANGED vars

Next ==
  \/ OpenFile
  \/ ParseLib
  \/ EndIngest
  \/ Populate
  \/ EndPopulate
  \/ Emit
  \/ Terminated

Spec == Init /\ [][Next]_vars

-----------------------------------------------------------------------------
(***************************************************************************)
(* Types.                                                                  *)
(***************************************************************************)
FlagKeys == Flags \X {"upper", "lower", "mixed"}

CondValue(V) == [lit: BOOLEAN, val: V \cup {None}, entries: Seq(FlagKeys \X V)]

IslandValues == {BoolFalse, BoolTrue, "True", "False"}

Decl ==
  [name: LibNames, build: CondValue(BuildKinds \cup {"BOGUS"}),
   amdb: Seq(AmdbInputs), major: Majors \cup {Absent},
   minor: Majors \cup {Absent}, depends: Seq(LibNames),
   security: {None, "sec"}, pkg: {None, "pkg"},
   island: [present: BOOLEAN, lit: BOOLEAN, val: IslandValues \cup {None},
            entries: Seq(FlagKeys \X IslandValues)],
   private: BOOLEAN, test: BOOLEAN]

JsonFile == [status: {"ok", "unopenable", "malformed"}, libs: Seq(Decl)]

Env ==
  [flags: SUBSET FlagKeys, gen_shared: BOOLEAN, non_mobile: BOOLEAN,
   island: BOOLEAN, emit: BOOLEAN]

ASSUME InputsAssumption == Inputs \subseteq Seq(JsonFile)
ASSUME EnvChoicesAssumption == EnvChoices \subseteq Env

\* A library version exists to be chosen (lib_major_ver defaults to 0).
ASSUME MajorsAssumption == Majors # {}

BuildInfo ==
  [libname: LibNames, build: BuildKinds, amdb: BOOLEAN,
   major: Majors \cup {0}, minor: Majors \cup {0}, depends: Seq(LibNames),
   security: {None, "sec"}, pkg: {None, "pkg"},
   island: IslandValues \cup {None}, private: BOOLEAN]

\* Every suffix the code appends to "USES_" + name.upper().
KeySuffixes ==
  {<<"_SO">>, <<"_STRIP", "_SO">>, <<"_STRIP">>, <<"_STRIP", "_ONLY">>,
   <<"_STUB">>, <<"_ISLAND">>, <<"_ISLAND", "_STRIP">>,
   <<"_ISLAND", "_STRIP", "_ONLY">>, <<"_ISLAND", "_STUB">>,
   <<"_ISLAND", "_PLINK", "_ISLAND">>}

KeysOf(name) == {UsesKey(name, s) : s \in KeySuffixes}

AllKeys == UNION {KeysOf(n) : n \in LibNames}

TypeOK ==
  /\ env \in Env
  /\ phase \in {"ingest", "populate", "emit", "done", "failed"}
  /\ files \in Seq(JsonFile)
  /\ cur \in Seq(Decl)
  /\ parsed \in Seq(Decl)
  /\ build_info \in Seq(BuildInfo)
  /\ pop_idx \in 1..(Len(build_info) + 1)
  /\ DOMAIN shared_lib_dict \subseteq AllKeys
  /\ env_set \subseteq AllKeys
  /\ DOMAIN mod_info = Mids
  /\ \A m \in Mids : \E R \in SUBSET Revs : mod_info[m] \in [R -> ModInfo]

(***************************************************************************)
(* Redeclaration consistency (spec 4.3): while the run has not failed,     *)
(* build_info_set holds one record per library name, and every            *)
(* declaration parsed so far resolves to the stored record of its name in  *)
(* every field of the resolved library (name, build, versions, depends,    *)
(* security, package, island): a second declaration that differs is never *)
(* silently dropped in favour of the first (lines 380-387).                *)
(***************************************************************************)
ResolvedFields == {"libname", "build", "major", "minor", "depends", "security",
                   "pkg", "island"}

RedeclarationConsistent ==
  /\ \A i, j \in 1..Len(build_info) :
       build_info[i].libname = build_info[j].libname => i = j
  /\ phase # "failed" =>
       \A k \in 1..Len(parsed) : \E i \in IndexOf(parsed[k].name) :
         \A f \in ResolvedFields : build_info[i][f] = NewBuildInfo(parsed[k])[f]

(***************************************************************************)
(* The catalogue handed to the AMDB and QACT writers (spec 3, 4.4): once   *)
(* a run that writes its outputs has succeeded, every module id's stored   *)
(* revisions are gap-free, consecutive ones come from different .so files, *)
(* a module with a static or virtual-stub revision has only that one, the  *)
(* latest revision listed in QACT has a name, and every revision that is   *)
(* not a virtual stub carries a tag.  The checks that ensure it are spread *)
(* over the registration of each declaration and the writers' checks.      *)
(***************************************************************************)
CatalogWellFormed ==
  (phase = "done" /\ env.emit) =>
    \A m \in Mids :
      LET R == DOMAIN mod_info[m] IN
      /\ Contiguous(R)
      /\ \A r \in R : (r + 1) \in R =>
           mod_info[m][r].filename # mod_info[m][r + 1].filename
      /\ \A r \in R : BuiltType(mod_info[m][r]) # "DYNAMIC" => R = {r}
      /\ R # {} /\ NeedToAppearInQact(mod_info[m][LatestRev(R)]) =>
           mod_info[m][LatestRev(R)].named
      /\ \A r \in R : mod_info[m][r].build # "STATIC_BUILD_VIRTUAL_STUB" =>
           mod_info[m][r].tag

(***************************************************************************)
(* Supporting shared libraries stay out of a static build (spec 4.2, the   *)
(* comment at lines 303-306): without GEN_SHARED_LIBS, a library declared  *)
(* shared that has no AMDB info is neither linked statically (no USES_     *)
(* flag of its name is set) nor handed over as a shared library, so its    *)
(* symbols cannot clash with the libraries that use it.                    *)
(***************************************************************************)
SupportingLibsNotLinked ==
  ~env.gen_shared =>
    \A k \in 1..Len(parsed) :
      LET d == parsed[k] IN
      (~IsAmdbInfoPresent(d) /\ SelectedBuild(d.build, env.flags) \in SHARED_BUILD_TYPES)
        => KeysOf(d.name) \cap (env_set \cup DOMAIN shared_lib_dict) = {}

(***************************************************************************)
(* Linkage facts are complete (spec 4.3, 6): when the run has handed its   *)
(* results over, every library built as a shared object has its own entry  *)
(* in shared_lib_dict, with its own version, dependencies and (for        *)
(* non-mobile targets) security and package info.                          *)
(***************************************************************************)
SharedLinkFactsComplete ==
  phase = "done" =>
    \A i \in 1..Len(build_info) :
      SoLinked(build_info[i]) =>
        /\ SoKey(build_info[i]) \in DOMAIN shared_lib_dict
        /\ shared_lib_dict[SoKey(build_info[i])] = SoEntry(build_info[i])

-----------------------------------------------------------------------------
(***************************************************************************)
(* The registry inside a run.  The driver's mod_info, with the errors of   *)
(* the amdb_info branch (any other error seen as "none"), behaves as the   *)
(* standalone registry of SpfModuleRegistry: each parse step that reaches  *)
(* line 391 is one RegisterModule step with the library's resolved build,  *)
(* .so file name and is_test_module flag, and every other step leaves the  *)
(* registry alone.  Its invariants therefore hold of every run.            *)
(***************************************************************************)
RegErr == IF err \in RegErrors THEN err ELSE "none"

\* The registry specification, with the driver's registry error for its err.
Registry == INSTANCE SpfModuleRegistry WITH err <- RegErr

\* parse_each_json drives mod_info exactly as the registry specification allows.
RegistryRefined == Registry!RegSpec

-----------------------------------------------------------------------------
(***************************************************************************)
(* Statements of the spec that the code does not keep; each is checked on  *)
(* the inputs that show the disagreement.                                  *)
(***************************************************************************)
\* Every declaration of the run: parsed, pending in this file, or in a later one.
AllDecls ==
  {parsed[i] : i \in 1..Len(parsed)} \cup {cur[i] : i \in 1..Len(cur)}
  \cup UNION {{files[j].libs[i] : i \in 1..Len(files[j].libs)} :
              j \in 1..Len(files)}

\* The revisions the run's declarations give module id m, order aside, are
\* distinct, gap-free, and consecutive ones come from different .so files.
RevisionSetAcceptable(m) ==
  LET S == {d \in AllDecls : IsAmdbInfoPresent(d) /\ Amdb(d).mid = m}
      R == {Amdb(d).rev : d \in S}
  IN  /\ \A d1, d2 \in S : Amdb(d1).rev = Amdb(d2).rev => d1 = d2
      /\ Contiguous(R)
      /\ \A d1, d2 \in S : Amdb(d2).rev = Amdb(d1).rev + 1 =>
           SoFilenameOf(d1) # SoFilenameOf(d2)

(***************************************************************************)
(* Spec 8: revisions 3, 2 and 1 of one module registered "in any order"    *)
(* succeed.  The neighbour test of lines 457-462 rejects a revision that   *)
(* has no stored neighbour yet, so a run fails with a spurious revision    *)
(* bump only if the revisions themselves are wrong, whatever the order of  *)
(* the files and of their declarations.                                    *)
(***************************************************************************)
RevisionOrderInsensitive ==
  err = "spurious_revision_bump" => \E m \in Mids : ~RevisionSetAcceptable(m)

(***************************************************************************)
(* Spec 7: declaring a library twice with identical fields is a harmless,  *)
(* informational duplicate: a run never fails on a declaration identical   *)
(* to one already parsed (lines 380-387 and 451-454).                      *)
(***************************************************************************)
IdenticalRedeclarationHarmless ==
  (phase = "failed" /\ cur # <<>>) =>
    \A i \in 1..Len(parsed) : parsed[i] # Head(cur)

(***************************************************************************)
(* Spec 4.1: a flag map without a DEFAULT entry is rejected.  The island    *)
(* map is looked up lazily (lines 271-279), so no parsed declaration may   *)
(* carry an island map without DEFAULT.                                    *)
(***************************************************************************)
MissingDefaultRejected ==
  \A i \in 1..Len(parsed) :
    (parsed[i].island.present /\ ~parsed[i].island.lit) =>
      parsed[i].island.val # None

(***************************************************************************)
(* Spec 4.3: the island variant of a static library's linkage flag is set  *)
(* only when the build is for island (USES_AUDIO_IN_ISLAND) and the        *)
(* library's island resolution is not false.  _populate_static_build_system *)
(* sets it when the build is not for island (lines 158-160).               *)
(***************************************************************************)
IslandVariantOnlyInIsland ==
  \A i \in 1..Len(build_info) :
    LET bi == build_info[i] IN
    (bi.build \in STATIC_BUILD_TYPES
       /\ UsesKey(bi.libname, <<"_ISLAND">> \o Suffix(bi)) \in env_set)
      => env.island /\ bi.island \notin {BoolFalse, "False"}
=============================================================================
