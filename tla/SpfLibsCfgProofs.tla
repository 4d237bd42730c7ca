-------------------------- MODULE SpfLibsCfgProofs --------------------------
(***************************************************************************)
(* Proofs about whole parser runs: the module registry inside a run        *)
(* implements the standalone registry specification, so the registry       *)
(* theorems hold of the driver's mod_info for every instance.              *)
(***************************************************************************)
EXTENDS SpfLibsCfg, SpfModuleRegistryProofs, SpfBuildPolicyProofs, TLAPS

(***************************************************************************)
(* What the refinement needs to know of a run: a run that has not failed   *)
(* has no error, and the pending files and declarations are well formed.   *)
(***************************************************************************)
DInv ==
  /\ phase \in {"ingest", "populate", "emit", "done", "failed"}
  /\ phase # "failed" => err = "none"
  /\ cur \in Seq(Decl)
  /\ files \in Seq(JsonFile)

LEMMA DInvInit == Init => DInv
BY InputsAssumption DEF Init, DInv

LEMMA DInvStep == DInv /\ [Next]_vars => DInv'
<1> SUFFICES ASSUME DInv, [Next]_vars PROVE DInv'
  OBVIOUS
<1>1. CASE OpenFile
  <2>1. Head(files) \in JsonFile /\ Tail(files) \in Seq(JsonFile)
    BY <1>1 DEF OpenFile, DInv
  <2>2. Head(files).libs \in Seq(Decl)
    BY <2>1 DEF JsonFile
  <2>3. files' = Tail(files) /\ (cur' = cur \/ cur' = Head(files).libs)
    BY <1>1 DEF OpenFile
  <2>4. /\ phase' \in {phase, "failed"}
        /\ phase' = phase => err' = err
    BY <1>1 DEF OpenFile
  <2>5. QED BY <2>1, <2>2, <2>3, <2>4 DEF DInv
<1>2. CASE ParseLib
  <2>1. Tail(cur) \in Seq(Decl)
    BY <1>2 DEF ParseLib, DInv
  <2>2. /\ cur' \in {cur, Tail(cur)}
        /\ phase' \in {phase, "failed"}
        /\ phase' = phase => err' = err
        /\ files' = files
    BY <1>2 DEF ParseLib
  <2>3. QED BY <2>1, <2>2 DEF DInv
<1>3. CASE EndIngest \/ Populate \/ EndPopulate \/ Terminated
  BY <1>3 DEF EndIngest, Populate, EndPopulate, Terminated, DInv, vars
<1>4. CASE Emit
  BY <1>4 DEF Emit, DInv
<1>5. CASE UNCHANGED vars
  BY <1>5 DEF vars, DInv
<1>6. QED BY <1>1, <1>2, <1>3, <1>4, <1>5 DEF Next

\* The resolutions report only their own errors.
LEMMA ResolutionErrors ==
  ASSUME NEW d
  PROVE  /\ LibBuild(d).err \in {"none", "missing_default", "key_error"}
         /\ LibIsland(d).err \in {"none", "key_error", "attribute_error"}
BY DEF LibBuild, LibIsland, MapBuildInputToBuiltStr, MapIslandInfo, Ok, Err

(***************************************************************************)
(* A declaration whose checks end without error, or with an error of the   *)
(* amdb_info branch, got past every library check: its build is a known    *)
(* kind, a shared build has its versions, and the outcome is the           *)
(* registry's (lines 323-387 run before line 391).                         *)
(***************************************************************************)
LEMMA LibErrorCases ==
  ASSUME NEW d, LibError(d) \in {"none"} \cup RegErrors
  PROVE  /\ LibBuild(d).val \in BuildKinds
         /\ LibBuild(d).val \in SHARED_BUILD_TYPES => d.major # Absent
         /\ LibError(d) =
              IF IsAmdbInfoPresent(d)
              THEN RegisterError(mod_info, Amdb(d), LibBuild(d).val,
                                 SoFilenameOf(d), d.test)
              ELSE "none"
<1>1. LibBuild(d).err = "none" /\ LibIsland(d).err = "none"
  BY ResolutionErrors DEF LibError, RegErrors
<1>2. QED BY <1>1 DEF LibError, RegErrors

(***************************************************************************)
(* The instance's operators that do not mention err are the module's own.  *)
(***************************************************************************)
LEMMA InstanceRegisterError ==
  \A a, b, f, t : Registry!RegisterError(mod_info, a, b, f, t)
                    = RegisterError(mod_info, a, b, f, t)
BY DEF Registry!RegisterError, RegisterError, Registry!AmdbInfoError,
       AmdbInfoError, Registry!RegisterOutcome, RegisterOutcome,
       Registry!NewModInfo, NewModInfo, Registry!QactModuleType,
       QactModuleType, Registry!ForcedItype, ForcedItype,
       Registry!IsNewRevNeeded, IsNewRevNeeded, Registry!MODULE_TYPES,
       MODULE_TYPES, Registry!INTERFACE_TYPES, INTERFACE_TYPES,
       Registry!None, None

LEMMA InstanceRegisteredMods ==
  \A a, b, f, t : Registry!RegisteredMods(mod_info, a, b, f, t)
                    = RegisteredMods(mod_info, a, b, f, t)
BY DEF Registry!RegisteredMods, RegisteredMods, Registry!Inserted, Inserted,
       Registry!NewModInfo, NewModInfo, Registry!QactModuleType,
       QactModuleType, Registry!ForcedItype, ForcedItype, Registry!None, None

LEMMA InstanceNames ==
  /\ Registry!BuildKinds = BuildKinds
  /\ \A n, b, v : Registry!SoFileName(n, b, v) = SoFileName(n, b, v)
BY DEF Registry!BuildKinds, BuildKinds, Registry!STATIC_BUILD_TYPES,
       STATIC_BUILD_TYPES, Registry!SHARED_BUILD_TYPES, SHARED_BUILD_TYPES,
       Registry!SoFileName, SoFileName, Registry!NoFile, NoFile

\* A library's .so file name is one the registry's environment can offer.
LEMMA SoFilenameOffered ==
  ASSUME NEW d \in Decl, LibBuild(d).val \in BuildKinds,
         LibBuild(d).val \in SHARED_BUILD_TYPES => d.major # Absent
  PROVE  \E v \in Majors : SoFilenameOf(d) = SoFileName(d.name, LibBuild(d).val, v)
<1>1. CASE LibBuild(d).val \in SHARED_BUILD_TYPES
  <2>1. d.major \in Majors /\ Version(d.major) = d.major
    BY <1>1 DEF Decl, Version, Absent
  <2>2. QED BY <2>1 DEF SoFilenameOf
<1>2. CASE LibBuild(d).val \notin SHARED_BUILD_TYPES
  <2>1. PICK v \in Majors : TRUE
    BY MajorsAssumption
  <2>2. LibBuild(d).val \in STATIC_BUILD_TYPES
    BY <1>2 DEF BuildKinds
  <2>3. QED BY <2>1, <2>2 DEF SoFilenameOf, SoFileName
<1>3. QED BY <1>1, <1>2

(***************************************************************************)
(* Every step of a run is a step of the registry specification or leaves   *)
(* mod_info and the registry error alone.                                  *)
(***************************************************************************)
LEMMA RegistryStep ==
  DInv /\ [Next]_vars => [Registry!RegNext]_Registry!reg_vars
<1> SUFFICES ASSUME DInv, [Next]_vars
             PROVE  [Registry!RegNext]_Registry!reg_vars
  OBVIOUS
<1>1. CASE ParseLib
  <2> DEFINE d == Head(cur)
             b == LibBuild(d).val
             f == SoFilenameOf(d)
  <2> USE DEF d, b, f
  <2>0. /\ phase = "ingest" /\ err = "none" /\ RegErr = "none"
        /\ d \in Decl
    BY <1>1 DEF ParseLib, DInv, RegErr
  <2>1. CASE LibError(d) \in {"none"} \cup RegErrors /\ IsAmdbInfoPresent(d)
    <3>1. /\ b \in BuildKinds
          /\ LibError(d) = RegisterError(mod_info, Amdb(d), b, f, d.test)
      BY <2>1, LibErrorCases
    <3>2. PICK v \in Majors : f = SoFileName(d.name, b, v)
      BY <2>1, <2>0, LibErrorCases, SoFilenameOffered
    <3>3. Amdb(d) \in AmdbInputs /\ d.name \in LibNames /\ d.test \in BOOLEAN
      BY <2>0, <2>1 DEF Decl, Amdb, IsAmdbInfoPresent
    <3>4. Registry!RegisterModule(Amdb(d), b, SoFileName(d.name, b, v), d.test)
      <4>1. CASE LibError(d) = "none"
        <5>1. mod_info' = RegisteredMods(mod_info, Amdb(d), b, f, d.test)
              /\ err' = err
          BY <1>1, <4>1, <2>1 DEF ParseLib
        <5>2. QED BY <5>1, <4>1, <3>1, <3>2, <2>0, InstanceRegisterError,
                     InstanceRegisteredMods DEF RegErr, Registry!RegisterModule
      <4>2. CASE LibError(d) # "none"
        <5>1. mod_info' = mod_info /\ err' = LibError(d)
          BY <1>1, <4>2 DEF ParseLib
        <5>2. err' \in RegErrors
          BY <5>1, <4>2, <2>1
        <5>3. QED BY <5>1, <5>2, <4>2, <3>1, <3>2, <2>0, InstanceRegisterError
                  DEF RegErr, Registry!RegisterModule
      <4>3. QED BY <4>1, <4>2
    <3>5. QED BY <3>1, <3>2, <3>3, <3>4, InstanceNames DEF Registry!RegNext
  <2>2. CASE LibError(d) = "none" /\ ~IsAmdbInfoPresent(d)
    <3>1. mod_info' = mod_info /\ err' = err
      BY <1>1, <2>2 DEF ParseLib
    <3>2. QED BY <3>1 DEF Registry!reg_vars, RegErr
  <2>3. CASE LibError(d) \notin {"none"} \cup RegErrors
    <3>1. mod_info' = mod_info /\ err' = LibError(d)
      BY <1>1, <2>3 DEF ParseLib
    <3>2. QED BY <3>1, <2>3, <2>0 DEF Registry!reg_vars, RegErr
  <2>4. QED BY <2>1, <2>2, <2>3, LibErrorCases
<1>2. CASE OpenFile \/ Emit
  <2>1. mod_info' = mod_info
    BY <1>2 DEF OpenFile, Emit
  <2>2. err' = err \/ (err = "none" /\ err' \notin RegErrors)
    BY <1>2 DEF OpenFile, Emit, EmitError, DInv, RegErrors
  <2>3. QED BY <2>1, <2>2 DEF Registry!reg_vars, RegErr
<1>3. CASE EndIngest \/ Populate \/ EndPopulate \/ Terminated \/ UNCHANGED vars
  BY <1>3 DEF EndIngest, Populate, EndPopulate, Terminated, vars,
              Registry!reg_vars, RegErr
<1>4. QED BY <1>1, <1>2, <1>3 DEF Next

(***************************************************************************)
(* The driver implements the registry specification under the mapping     *)
(* err <- RegErr: whatever the files, declarations and environment, the    *)
(* amdb_info branch of parse_each_json only makes registry steps.          *)
(***************************************************************************)
THEOREM DriverRefinesRegistry == Spec => RegistryRefined
<1>1. Spec => []DInv
  BY DInvInit, DInvStep, PTL DEF Spec
<1>2. Init => Registry!RegInit
  BY DEF Init, Registry!RegInit, RegErr
<1>3. QED
  BY <1>1, <1>2, RegistryStep, PTL DEF Spec, RegistryRefined, Registry!RegSpec

(***************************************************************************)
(* A parse_each_json step keeps the stored revisions well formed: the      *)
(* amdb_info branch stores a revision only when every check of lines       *)
(* 414-464 passed, and no other step touches mod_info.                     *)
(***************************************************************************)
LEMMA ModsStep ==
  DInv /\ ModsInv(mod_info) /\ [Next]_vars => ModsInv(mod_info')
<1> SUFFICES ASSUME DInv, ModsInv(mod_info), [Next]_vars
             PROVE  ModsInv(mod_info')
  OBVIOUS
<1>1. CASE ParseLib
  <2> DEFINE d == Head(cur)
             b == LibBuild(d).val
  <2> USE DEF d, b
  <2>0. d \in Decl
    BY <1>1 DEF ParseLib, DInv
  <2>1. CASE LibError(d) = "none" /\ IsAmdbInfoPresent(d)
    <3>1. /\ b \in BuildKinds
          /\ RegisterError(mod_info, Amdb(d), b, SoFilenameOf(d), d.test) = "none"
      BY <2>1, LibErrorCases
    <3>2. PICK v \in Majors : SoFilenameOf(d) = SoFileName(d.name, b, v)
      BY <2>1, <2>0, LibErrorCases, SoFilenameOffered
    <3>3. Amdb(d) \in AmdbInputs /\ d.name \in LibNames /\ d.test \in BOOLEAN
      BY <2>0, <2>1 DEF Decl, Amdb, IsAmdbInfoPresent
    <3>4. mod_info' = RegisteredMods(mod_info, Amdb(d), b, SoFilenameOf(d), d.test)
      BY <1>1, <2>1 DEF ParseLib
    <3>5. QED BY <3>1, <3>2, <3>3, <3>4, RegisterPreserves
  <2>2. CASE ~(LibError(d) = "none" /\ IsAmdbInfoPresent(d))
    <3>1. mod_info' = mod_info
      BY <1>1, <2>2 DEF ParseLib
    <3>2. QED BY <3>1
  <2>3. QED BY <2>1, <2>2
<1>2. CASE ~ParseLib
  <2>1. mod_info' = mod_info
    BY <1>2 DEF Next, vars, OpenFile, Emit, EndIngest, Populate, EndPopulate,
                Terminated
  <2>2. QED BY <2>1
<1>3. QED BY <1>1, <1>2

(***************************************************************************)
(* In every run of the parser, whatever the order of files and             *)
(* declarations, the revisions stored for a module id are gap-free and     *)
(* consecutive ones come from different .so files: the check made when a   *)
(* declaration is parsed (lines 451-464) is enough, across files.          *)
(***************************************************************************)
THEOREM DriverRevisionsWellFormed ==
  Spec => [](RevisionsContiguous /\ AdjacentRevisionsDiffer)
<1> DEFINE DriverInv == DInv /\ ModsInv(mod_info)
<1>1. Init => DriverInv
  BY DInvInit DEF Init, ModsInv, ModsOK, ContiguousRevs, AdjacentDiffer,
                  Contiguous
<1>2. DriverInv /\ [Next]_vars => DriverInv'
  BY DInvStep, ModsStep
<1>3. DriverInv => RevisionsContiguous /\ AdjacentRevisionsDiffer
  BY DEF ModsInv, ContiguousRevs, AdjacentDiffer, RevisionsContiguous,
         AdjacentRevisionsDiffer
<1>4. QED BY <1>1, <1>2, <1>3, PTL DEF Spec
-----------------------------------------------------------------------------
(***************************************************************************)
(* The catalogue handed to the writers.  A run reaches "done" with its     *)
(* outputs written only through Emit, whose two checks passed on the       *)
(* mod_info that no step changes after ingestion; the rest of the          *)
(* catalogue's shape is kept by every registration.                        *)
(***************************************************************************)
EmitPassed == (phase = "done" /\ env.emit) => EmitError(mod_info) = "none"

CatInv ==
  /\ DInv
  /\ ModsInv(mod_info)
  /\ FiniteRevs(mod_info)
  /\ TagsPresent(mod_info)
  /\ EmitPassed

\* A non-empty finite set of at most one element is the singleton of any
\* of its elements.
LEMMA AtMostOne ==
  ASSUME NEW S, IsFiniteSet(S), NEW x \in S, Cardinality(S) <= 1
  PROVE  S = {x}
<1>1. Cardinality({x}) = 1 /\ IsFiniteSet({x})
  BY FS_Singleton
<1>2. Cardinality({x}) <= Cardinality(S)
  BY FS_Subset
<1>3. Cardinality(S) \in Nat
  BY FS_CardinalityType
<1>4. Cardinality(S) = Cardinality({x})
  BY <1>1, <1>2, <1>3
<1>5. QED BY <1>4, FS_Subset

\* Every step keeps the revision sets finite, the tags present, and a
\* finished run that wrote its outputs past the writers' checks.
LEMMA CatalogStep ==
  CatInv /\ [Next]_vars
    => FiniteRevs(mod_info') /\ TagsPresent(mod_info') /\ EmitPassed'
<1> SUFFICES ASSUME CatInv, [Next]_vars
             PROVE  FiniteRevs(mod_info') /\ TagsPresent(mod_info') /\ EmitPassed'
  OBVIOUS
<1>1. CASE ParseLib
  <2> DEFINE d == Head(cur)
             b == LibBuild(d).val
  <2> USE DEF d, b
  <2>0. d \in Decl /\ phase' \in {"ingest", "failed"}
    BY <1>1 DEF ParseLib, CatInv, DInv
  <2>1. EmitPassed'
    BY <2>0 DEF EmitPassed
  <2>2. CASE LibError(d) = "none" /\ IsAmdbInfoPresent(d)
    <3>1. RegisterError(mod_info, Amdb(d), b, SoFilenameOf(d), d.test) = "none"
      BY <2>2, LibErrorCases
    <3>2. Amdb(d) \in AmdbInputs
      BY <2>0, <2>2 DEF Decl, Amdb, IsAmdbInfoPresent
    <3>3. mod_info' = RegisteredMods(mod_info, Amdb(d), b, SoFilenameOf(d), d.test)
      BY <1>1, <2>2 DEF ParseLib
    <3>4. ModsOK(mod_info) /\ FiniteRevs(mod_info) /\ TagsPresent(mod_info)
      BY DEF CatInv, ModsInv
    <3>5. QED BY <3>1, <3>2, <3>3, <3>4, <2>1, RegisterKeepsCatalog
  <2>3. CASE ~(LibError(d) = "none" /\ IsAmdbInfoPresent(d))
    <3>1. mod_info' = mod_info
      BY <1>1, <2>3 DEF ParseLib
    <3>2. QED BY <3>1, <2>1 DEF CatInv
  <2>4. QED BY <2>2, <2>3
<1>2. CASE Emit
  <2>1. mod_info' = mod_info /\ env' = env
    BY <1>2 DEF Emit
  <2>2. phase' = "done" => EmitError(mod_info) = "none"
    BY <1>2 DEF Emit
  <2>3. QED BY <2>1, <2>2 DEF CatInv, EmitPassed
<1>3. CASE EndPopulate
  <2>1. mod_info' = mod_info /\ env' = env
    BY <1>3 DEF EndPopulate
  <2>2. phase' = "done" => ~env.emit
    BY <1>3 DEF EndPopulate
  <2>3. QED BY <2>1, <2>2 DEF CatInv, EmitPassed
<1>4. CASE OpenFile \/ EndIngest
  <2>1. mod_info' = mod_info /\ phase' \in {"ingest", "populate", "failed"}
    BY <1>4 DEF OpenFile, EndIngest, CatInv, DInv
  <2>2. QED BY <2>1 DEF CatInv, EmitPassed
<1>5. CASE Populate \/ Terminated \/ UNCHANGED vars
  <2>1. mod_info' = mod_info /\ phase' = phase /\ env' = env
    BY <1>5 DEF Populate, Terminated, vars
  <2>2. QED BY <2>1 DEF CatInv, EmitPassed
<1>6. QED BY <1>1, <1>2, <1>3, <1>4, <1>5 DEF Next

LEMMA CatInvInit == Init => CatInv
<1> SUFFICES ASSUME Init PROVE CatInv
  OBVIOUS
<1>1. \A m \in Mids : DOMAIN mod_info[m] = {}
  BY DEF Init
<1>2. FiniteRevs(mod_info)
  BY <1>1, FS_EmptySet DEF FiniteRevs
<1>3. phase = "ingest"
  BY DEF Init
<1>4. QED BY <1>1, <1>2, <1>3, DInvInit
          DEF CatInv, ModsInv, ModsOK, ContiguousRevs, AdjacentDiffer,
              Contiguous, TagsPresent, EmitPassed, Init

LEMMA CatInvStep == CatInv /\ [Next]_vars => CatInv'
BY DInvStep, ModsStep, CatalogStep DEF CatInv

\* The writers' two checks, passed, give the catalogue's last two clauses.
LEMMA EmitChecksGiveCatalog ==
  ASSUME CatInv, phase = "done", env.emit
  PROVE  CatalogWellFormed
<1> SUFFICES ASSUME NEW m \in Mids
             PROVE  LET R == DOMAIN mod_info[m] IN
                    /\ Contiguous(R)
                    /\ \A r \in R : (r + 1) \in R =>
                         mod_info[m][r].filename # mod_info[m][r + 1].filename
                    /\ \A r \in R : BuiltType(mod_info[m][r]) # "DYNAMIC" => R = {r}
                    /\ R # {} /\ NeedToAppearInQact(mod_info[m][LatestRev(R)]) =>
                         mod_info[m][LatestRev(R)].named
                    /\ \A r \in R : mod_info[m][r].build # "STATIC_BUILD_VIRTUAL_STUB" =>
                         mod_info[m][r].tag
  BY DEF CatalogWellFormed
<1> DEFINE R == DOMAIN mod_info[m]
<1>1. EmitError(mod_info) = "none"
  BY DEF CatInv, EmitPassed
<1>2. ~UnnamedInQact(mod_info) /\ ~StaticWithRevisions(mod_info)
  BY <1>1 DEF EmitError
<1>3. Contiguous(R)
  BY DEF CatInv, ModsInv, ContiguousRevs
<1>4. \A r \in R : (r + 1) \in R =>
        mod_info[m][r].filename # mod_info[m][r + 1].filename
  BY DEF CatInv, ModsInv, AdjacentDiffer
<1>5. \A r \in R : BuiltType(mod_info[m][r]) # "DYNAMIC" => R = {r}
  <2> SUFFICES ASSUME NEW r \in R, BuiltType(mod_info[m][r]) # "DYNAMIC"
               PROVE  R = {r}
    OBVIOUS
  <2>1. Cardinality(R) <= 1 /\ IsFiniteSet(R)
    <3>1. IsFiniteSet(R) /\ Cardinality(R) \in Nat
      BY FS_CardinalityType DEF CatInv, FiniteRevs
    <3>2. ~(Cardinality(R) > 1)
      BY <1>2 DEF StaticWithRevisions
    <3>3. QED BY <3>1, <3>2
  <2>2. QED BY <2>1, AtMostOne
<1>6. R # {} /\ NeedToAppearInQact(mod_info[m][LatestRev(R)]) =>
        mod_info[m][LatestRev(R)].named
  BY <1>2 DEF UnnamedInQact
<1>7. \A r \in R : mod_info[m][r].build # "STATIC_BUILD_VIRTUAL_STUB" =>
        mod_info[m][r].tag
  BY DEF CatInv, TagsPresent
<1>8. QED BY <1>3, <1>4, <1>5, <1>6, <1>7

(***************************************************************************)
(* A run that has written its outputs hands the AMDB and QACT writers a    *)
(* well-formed catalogue: gap-free revisions from different files, a       *)
(* static or virtual-stub module alone, a named latest QACT revision, and  *)
(* tags on every revision that is not a virtual stub.  The five facts come *)
(* from three places: the registration in parse_each_json (lines 441,      *)
(* 451-464), the QACT writer (lines 726-732) and the C writer (600-603).   *)
(***************************************************************************)
THEOREM CatalogCorrect == Spec => []CatalogWellFormed
<1>1. CatInv => CatalogWellFormed
  <2> SUFFICES ASSUME CatInv PROVE CatalogWellFormed
    OBVIOUS
  <2>1. CASE phase = "done" /\ env.emit
    BY <2>1, EmitChecksGiveCatalog
  <2>2. CASE ~(phase = "done" /\ env.emit)
    BY <2>2 DEF CatalogWellFormed
  <2>3. QED BY <2>1, <2>2
<1>2. QED BY <1>1, CatInvInit, CatInvStep, PTL DEF Spec

-----------------------------------------------------------------------------
(***************************************************************************)
(* Type correctness and redeclaration consistency.  Both are inductive    *)
(* together with DInv and the registry invariant: a step only appends a    *)
(* record that parse_each_json built from a declaration whose checks all   *)
(* passed.                                                                 *)
(***************************************************************************)
TInv ==
  /\ TypeOK
  /\ DInv
  /\ ModsInv(mod_info)
  /\ RedeclarationConsistent

\* A declaration that passes its checks yields a BuildInfoClass of the
\* stored type (lines 346-378).
LEMMA NewBuildInfoType ==
  ASSUME NEW d \in Decl, LibError(d) = "none"
  PROVE  NewBuildInfo(d) \in BuildInfo
<1>1. LibBuild(d).val \in BuildKinds
  BY LibErrorCases
<1>2. LibIsland(d).val \in IslandValues \cup {None}
  <2>1. d.island.val \in IslandValues \cup {None}
        /\ d.island.entries \in Seq(FlagKeys \X IslandValues)
    BY DEF Decl
  <2>2. BoolFalse \in IslandValues
    BY DEF IslandValues
  <2>3. QED BY <2>1, <2>2, IslandInfoType DEF LibIsland
<1>3. Version(d.major) \in Majors \cup {0} /\ Version(d.minor) \in Majors \cup {0}
  BY DEF Decl, Version
<1>4. QED BY <1>1, <1>2, <1>3 DEF Decl, NewBuildInfo, BuildInfo, IsAmdbInfoPresent

\* A passed redeclaration check: every stored record of the name agrees
\* with the new declaration (lines 380-385).
LEMMA LibErrorNoneRedeclared ==
  ASSUME NEW d, LibError(d) = "none"
  PROVE  \A i \in IndexOf(d.name) : EqInAllRespects(NewBuildInfo(d), build_info[i])
<1>1. LibBuild(d).err = "none" /\ LibIsland(d).err = "none"
  BY ResolutionErrors DEF LibError
<1> HIDE DEF EqInAllRespects, NewBuildInfo, IndexOf, RegisterError
<1>2. QED BY <1>1 DEF LibError

\* The keys populate_build_system sets are USES_ keys of the library's name.
LEMMA BuildInfoKeys ==
  ASSUME NEW bi \in BuildInfo
  PROVE  /\ SoKey(bi) \in AllKeys
         /\ StaticFlags(bi) \subseteq AllKeys
         /\ IslandFlags(bi) \subseteq AllKeys
<1>0. bi.libname \in LibNames /\ bi.build \in BuildKinds
  BY DEF BuildInfo
<1>1. \A sfx \in KeySuffixes : UsesKey(bi.libname, sfx) \in AllKeys
  BY <1>0 DEF AllKeys, KeysOf
<1>2. SoKey(bi) \in AllKeys
  BY <1>1 DEF SoKey, KeySuffixes
<1>3. bi.build \in STATIC_BUILD_TYPES =>
        Suffix(bi) \in {NoSuffix, <<"_STRIP">>, <<"_STRIP", "_ONLY">>, <<"_STUB">>}
  BY DEF Suffix, STATIC_BUILD_TYPES_ENV_SUFFIX_MAP
<1>4. /\ <<"_ISLAND">> \o NoSuffix = <<"_ISLAND">>
      /\ <<"_ISLAND">> \o <<"_STRIP">> = <<"_ISLAND", "_STRIP">>
      /\ <<"_ISLAND">> \o <<"_STRIP", "_ONLY">> = <<"_ISLAND", "_STRIP", "_ONLY">>
      /\ <<"_ISLAND">> \o <<"_STUB">> = <<"_ISLAND", "_STUB">>
  BY IslandSuffixes
<1>5. StaticFlags(bi) \subseteq AllKeys
  BY <1>1, <1>3, <1>4 DEF StaticFlags, KeySuffixes
<1>6. IslandFlags(bi) \subseteq AllKeys
  BY <1>1, <1>3, <1>4 DEF IslandFlags, KeySuffixes
<1>7. QED BY <1>2, <1>5, <1>6

\* Every step keeps the state of a run well typed.
LEMMA TypeStep == TInv /\ [Next]_vars => TypeOK'
<1> SUFFICES ASSUME TInv, [Next]_vars PROVE TypeOK'
  OBVIOUS
<1>0. ModsOK(mod_info')
  BY ModsStep DEF TInv, ModsInv
<1>1. CASE OpenFile
  <2>1. Head(files) \in JsonFile /\ Tail(files) \in Seq(JsonFile)
    BY <1>1 DEF OpenFile, TInv, TypeOK
  <2>2. cur' \in {cur, Head(files).libs} /\ Head(files).libs \in Seq(Decl)
    BY <1>1, <2>1 DEF OpenFile, JsonFile
  <2>3. phase' \in {phase, "failed"} /\ files' = Tail(files)
    BY <1>1 DEF OpenFile
  <2>4. UNCHANGED <<env, parsed, build_info, pop_idx, shared_lib_dict, env_set>>
    BY <1>1 DEF OpenFile
  <2>5. QED BY <1>0, <2>1, <2>2, <2>3, <2>4 DEF TInv, TypeOK, ModsOK
<1>2. CASE ParseLib
  <2> DEFINE d == Head(cur)
  <2>0. d \in Decl /\ Tail(cur) \in Seq(Decl) /\ cur # <<>>
    BY <1>2 DEF ParseLib, TInv, TypeOK
  <2>1. UNCHANGED <<env, files, pop_idx, shared_lib_dict, env_set>>
    BY <1>2 DEF ParseLib
  <2>2. CASE LibError(d) = "none"
    <3>1. /\ build_info' = IF IndexOf(d.name) = {}
                           THEN Append(build_info, NewBuildInfo(d))
                           ELSE build_info
          /\ cur' = Tail(cur) /\ parsed' = Append(parsed, d) /\ phase' = phase
      BY <1>2, <2>2 DEF ParseLib
    <3>2. NewBuildInfo(d) \in BuildInfo
      BY <2>0, <2>2, NewBuildInfoType
    <3>3. build_info' \in Seq(BuildInfo) /\ Len(build_info') >= Len(build_info)
      BY <3>1, <3>2 DEF TInv, TypeOK
    <3>4. parsed' \in Seq(Decl)
      BY <3>1, <2>0 DEF TInv, TypeOK
    <3>5. pop_idx' \in 1..(Len(build_info') + 1)
      BY <2>1, <3>3 DEF TInv, TypeOK
    <3>6. QED BY <1>0, <2>0, <2>1, <3>1, <3>3, <3>4, <3>5 DEF TInv, TypeOK, ModsOK
  <2>3. CASE LibError(d) # "none"
    <3>1. phase' = "failed" /\ UNCHANGED <<cur, parsed, build_info>>
      BY <1>2, <2>3 DEF ParseLib
    <3>2. QED BY <1>0, <2>1, <3>1 DEF TInv, TypeOK, ModsOK
  <2>4. QED BY <2>2, <2>3
<1>3. CASE Populate
  <2> DEFINE bi == build_info[pop_idx]
  <2>1. pop_idx \in 1..Len(build_info) /\ bi \in BuildInfo
    BY <1>3 DEF Populate, TInv, TypeOK
  <2>2. /\ shared_lib_dict' = SharedLibDictAfter(shared_lib_dict, bi)
        /\ env_set' = env_set \cup StaticFlags(bi) \cup IslandFlags(bi)
        /\ pop_idx' = pop_idx + 1
        /\ UNCHANGED <<env, phase, files, cur, parsed, build_info>>
    BY <1>3 DEF Populate
  <2>3. DOMAIN shared_lib_dict' \subseteq DOMAIN shared_lib_dict \cup {SoKey(bi)}
    BY <2>2 DEF SharedLibDictAfter
  <2>4. SoKey(bi) \in AllKeys /\ StaticFlags(bi) \cup IslandFlags(bi) \subseteq AllKeys
    BY <2>1, BuildInfoKeys
  <2>5. QED BY <1>0, <2>1, <2>2, <2>3, <2>4 DEF TInv, TypeOK, ModsOK
<1>4. CASE EndIngest \/ EndPopulate \/ Emit \/ Terminated \/ UNCHANGED vars
  <2>1. UNCHANGED <<env, files, cur, parsed, build_info, pop_idx,
                    shared_lib_dict, env_set>>
    BY <1>4 DEF EndIngest, EndPopulate, Emit, Terminated, vars
  <2>2. phase' \in {"ingest", "populate", "emit", "done", "failed"}
    BY <1>4 DEF EndIngest, EndPopulate, Emit, Terminated, vars, TInv, TypeOK
  <2>3. QED BY <1>0, <2>1, <2>2 DEF TInv, TypeOK, ModsOK
<1>5. QED BY <1>1, <1>2, <1>3, <1>4 DEF Next

\* A library's resolved record depends on the environment only.
LEMMA NewBuildInfoStable ==
  ASSUME env' = env
  PROVE  \A x : NewBuildInfo(x)' = NewBuildInfo(x)
BY DEF NewBuildInfo, LibBuild, LibIsland

\* A step that leaves the registry of libraries, the parsed declarations
\* and the environment alone, and does not leave the failed phase, keeps
\* the redeclarations consistent.
LEMMA RedeclFrame ==
  ASSUME RedeclarationConsistent,
         UNCHANGED <<env, parsed, build_info>>,
         phase' # "failed" => phase # "failed"
  PROVE  RedeclarationConsistent'
<1>1. \A x : NewBuildInfo(x)' = NewBuildInfo(x)
  BY NewBuildInfoStable
<1>3. \A n : IndexOf(n)' = IndexOf(n)
  BY DEF IndexOf
<1>4. QED BY <1>1, <1>3 DEF RedeclarationConsistent

\* RedeclarationConsistent after a step that leaves the environment alone,
\* with the resolution of a declaration taken in the unchanged environment.
RedeclAfter ==
  /\ \A i, j \in 1..Len(build_info') :
       build_info'[i].libname = build_info'[j].libname => i = j
  /\ phase' # "failed" =>
       \A k \in 1..Len(parsed') :
         \E i \in {ii \in 1..Len(build_info') :
                     build_info'[ii].libname = parsed'[k].name} :
           \A f \in ResolvedFields :
             build_info'[i][f] = NewBuildInfo(parsed'[k])[f]

LEMMA RedeclPrimed ==
  ASSUME env' = env, RedeclAfter
  PROVE  RedeclarationConsistent'
BY DEF RedeclAfter, RedeclarationConsistent, IndexOf, NewBuildInfo, LibBuild,
       LibIsland

\* Every step keeps the redeclarations consistent.
LEMMA RedeclStep == TInv /\ [Next]_vars => RedeclarationConsistent'
<1> SUFFICES ASSUME TInv, [Next]_vars PROVE RedeclarationConsistent'
  OBVIOUS
<1>0. /\ RedeclarationConsistent
      /\ build_info \in Seq(BuildInfo) /\ parsed \in Seq(Decl) /\ cur \in Seq(Decl)
  BY DEF TInv, TypeOK
<1>1. CASE ParseLib
  <2> DEFINE d == Head(cur)
             nb == NewBuildInfo(d)
             n == Len(build_info)
             np == Len(parsed)
  <2>0. d \in Decl /\ phase = "ingest" /\ UNCHANGED env
    BY <1>0, <1>1 DEF ParseLib
  <2>a. SUFFICES RedeclAfter
    BY <2>0, RedeclPrimed
  <2>b. ASSUME NEW i \in 1..n, NEW k \in 1..np,
               \A f \in ResolvedFields : build_info[i][f] = NewBuildInfo(parsed[k])[f],
               build_info[i].libname = parsed[k].name,
               n <= Len(build_info'), np <= Len(parsed'),
               build_info'[i] = build_info[i], parsed'[k] = parsed[k]
        PROVE  \E ii \in {x \in 1..Len(build_info') :
                            build_info'[x].libname = parsed'[k].name} :
                 \A f \in ResolvedFields :
                   build_info'[ii][f] = NewBuildInfo(parsed'[k])[f]
    <3>1. i \in {x \in 1..Len(build_info') : build_info'[x].libname = parsed'[k].name}
      BY <2>b
    <3>2. QED BY <3>1, <2>b
  <2>1. CASE LibError(d) = "none" /\ IndexOf(d.name) = {}
    <3>1. /\ build_info' = Append(build_info, nb)
          /\ parsed' = Append(parsed, d) /\ phase' = phase
      BY <1>1, <2>1 DEF ParseLib
    <3>2. nb.libname = d.name
      BY DEF NewBuildInfo
    <3>3. \A j \in 1..n : build_info[j].libname # d.name
      BY <2>1 DEF IndexOf
    <3>4. /\ Len(build_info') = n + 1 /\ Len(parsed') = np + 1
          /\ \A j \in 1..n : build_info'[j] = build_info[j]
          /\ \A j \in 1..np : parsed'[j] = parsed[j]
          /\ build_info'[n + 1] = nb /\ parsed'[np + 1] = d
      BY <3>1, <1>0, <2>0
    <3>5. \A i, j \in 1..Len(build_info') :
            build_info'[i].libname = build_info'[j].libname => i = j
      <4> SUFFICES ASSUME NEW i \in 1..n + 1, NEW j \in 1..n + 1,
                          build_info'[i].libname = build_info'[j].libname
                   PROVE  i = j
        BY <3>4
      <4>1. CASE i \in 1..n /\ j \in 1..n
        BY <4>1, <3>4, <1>0 DEF RedeclarationConsistent
      <4>2. CASE i = n + 1 /\ j \in 1..n
        BY <4>2, <3>2, <3>3, <3>4
      <4>3. CASE j = n + 1 /\ i \in 1..n
        BY <4>3, <3>2, <3>3, <3>4
      <4>4. QED BY <4>1, <4>2, <4>3
    <3>6. ASSUME NEW k \in 1..Len(parsed')
          PROVE  \E i \in {ii \in 1..Len(build_info') :
                             build_info'[ii].libname = parsed'[k].name} :
                   \A f \in ResolvedFields :
                     build_info'[i][f] = NewBuildInfo(parsed'[k])[f]
      <4>1. CASE k = np + 1
        <5>1. n + 1 \in {ii \in 1..Len(build_info') :
                           build_info'[ii].libname = parsed'[k].name}
          BY <4>1, <3>2, <3>4
        <5>2. QED BY <5>1, <4>1, <3>4
      <4>2. CASE k \in 1..np
        <5>1. PICK i \in IndexOf(parsed[k].name) :
                \A f \in ResolvedFields : build_info[i][f] = NewBuildInfo(parsed[k])[f]
          BY <4>2, <2>0, <1>0 DEF RedeclarationConsistent
        <5>2. i \in 1..n /\ build_info[i].libname = parsed[k].name
          BY <5>1 DEF IndexOf
        <5>3. QED BY <5>1, <5>2, <4>2, <3>4, <2>b
      <4>3. QED BY <4>1, <4>2, <3>4
    <3>7. QED BY <3>5, <3>6, <3>1 DEF RedeclAfter
  <2>2. CASE LibError(d) = "none" /\ IndexOf(d.name) # {}
    <3>1. /\ build_info' = build_info
          /\ parsed' = Append(parsed, d) /\ phase' = phase
      BY <1>1, <2>2 DEF ParseLib
    <3>2. /\ Len(parsed') = np + 1
          /\ \A j \in 1..np : parsed'[j] = parsed[j]
          /\ parsed'[np + 1] = d
      BY <3>1, <1>0, <2>0
    <3>3. ASSUME NEW k \in 1..Len(parsed')
          PROVE  \E i \in {ii \in 1..Len(build_info') :
                             build_info'[ii].libname = parsed'[k].name} :
                   \A f \in ResolvedFields :
                     build_info'[i][f] = NewBuildInfo(parsed'[k])[f]
      <4>1. CASE k = np + 1
        <5>1. PICK i \in IndexOf(d.name) : TRUE
          BY <2>2
        <5>2. EqInAllRespects(nb, build_info[i])
          BY <2>2, <5>1, LibErrorNoneRedeclared
        <5>3. \A f \in ResolvedFields : build_info[i][f] = nb[f]
          BY <5>2 DEF EqInAllRespects, ResolvedFields
        <5>4. i \in {ii \in 1..Len(build_info') :
                       build_info'[ii].libname = parsed'[k].name}
          BY <5>1, <3>1, <3>2, <4>1 DEF IndexOf
        <5>5. QED BY <5>3, <5>4, <3>1, <3>2, <4>1
      <4>2. CASE k \in 1..np
        <5>1. PICK i \in IndexOf(parsed[k].name) :
                \A f \in ResolvedFields : build_info[i][f] = NewBuildInfo(parsed[k])[f]
          BY <4>2, <2>0, <1>0 DEF RedeclarationConsistent
        <5>2. i \in 1..n /\ build_info[i].libname = parsed[k].name
          BY <5>1 DEF IndexOf
        <5>3. QED BY <5>1, <5>2, <4>2, <3>1, <3>2, <2>b
      <4>3. QED BY <4>1, <4>2, <3>2
    <3>4. QED BY <3>1, <3>3, <1>0 DEF RedeclAfter, RedeclarationConsistent
  <2>3. CASE LibError(d) # "none"
    <3>1. phase' = "failed" /\ UNCHANGED build_info
      BY <1>1, <2>3 DEF ParseLib
    <3>2. QED BY <3>1, <1>0 DEF RedeclAfter, RedeclarationConsistent
  <2>4. QED BY <2>1, <2>2, <2>3
<1>2. CASE ~ParseLib
  <2>1. UNCHANGED <<env, parsed, build_info>>
    BY <1>2 DEF Next, vars, OpenFile, EndIngest, Populate, EndPopulate, Emit,
                Terminated
  <2>2. phase' # "failed" => phase # "failed"
    BY <1>2 DEF Next, vars, OpenFile, EndIngest, Populate, EndPopulate, Emit,
                Terminated
  <2>3. QED BY <2>1, <2>2, <1>0, RedeclFrame
<1>3. QED BY <1>1, <1>2

LEMMA TInvInit == Init => TInv
<1> SUFFICES ASSUME Init PROVE TInv
  OBVIOUS
<1>1. \A m \in Mids : DOMAIN mod_info[m] = {} /\ mod_info[m] \in [{} -> ModInfo]
  BY DEF Init
<1>2. \A m \in Mids : \E R \in SUBSET Revs : mod_info[m] \in [R -> ModInfo]
  <2> SUFFICES ASSUME NEW m \in Mids
               PROVE  \E R \in SUBSET Revs : mod_info[m] \in [R -> ModInfo]
    OBVIOUS
  <2>1. {} \in SUBSET Revs
    OBVIOUS
  <2>2. QED BY <1>1, <2>1
<1>3. TypeOK
  <2>1. env \in Env /\ files \in Seq(JsonFile)
    BY EnvChoicesAssumption, InputsAssumption DEF Init
  <2>2. DOMAIN shared_lib_dict \subseteq AllKeys /\ DOMAIN mod_info = Mids
    BY DEF Init
  <2>3. /\ cur \in Seq(Decl) /\ parsed \in Seq(Decl)
        /\ build_info \in Seq(BuildInfo) /\ pop_idx \in 1..(Len(build_info) + 1)
    BY DEF Init
  <2>4. phase \in {"ingest", "populate", "emit", "done", "failed"}
        /\ env_set \subseteq AllKeys
    BY DEF Init
  <2>5. QED BY <1>2, <2>1, <2>2, <2>3, <2>4 DEF TypeOK
<1>4. ModsInv(mod_info)
  BY <1>1, <1>2 DEF Init, ModsInv, ModsOK, ContiguousRevs, AdjacentDiffer,
                    Contiguous
<1>5. RedeclarationConsistent
  BY DEF Init, RedeclarationConsistent
<1>6. QED BY <1>3, <1>4, <1>5, DInvInit DEF TInv

LEMMA TInvStep == TInv /\ [Next]_vars => TInv'
BY TypeStep, DInvStep, ModsStep, RedeclStep DEF TInv

\* Type correctness of the parser's state: every JSON file, declaration,
\* resolved BuildInfoClass, shared-library key and ModuleInfoClass the run
\* holds is of the shape parse_each_json and populate_build_system give it.
THEOREM TypeCorrect == Spec => []TypeOK
<1>1. TInv => TypeOK
  BY DEF TInv
<1>2. QED BY <1>1, TInvInit, TInvStep, PTL DEF Spec

\* Redeclaration consistency (parse_each_json, lines 380-387): while the run
\* has not failed, build_info_set holds one record per library name and
\* every declaration read so far resolves to that record in every field.
THEOREM RedeclarationsConsistent == Spec => []RedeclarationConsistent
<1>1. TInv => RedeclarationConsistent
  BY DEF TInv
<1>2. QED BY <1>1, TInvInit, TInvStep, PTL DEF Spec

====
