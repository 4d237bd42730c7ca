-------------------------- MODULE SpfModuleRegistry --------------------------
(***************************************************************************)
(* The module identity and revision registry of the SPF library config    *)
(* parser: mod_info = {m-id: {rev_num: ModuleInfoClass}} (line 828), fed  *)
(* by the amdb_info branch of parse_each_json (lines 393-464).             *)
(*                                                                         *)
(* mod_info[m] is the revision dictionary of module id m; its DOMAIN is   *)
(* the set of revision numbers, and "m in mod_info" is DOMAIN # {} since  *)
(* an id is always created together with its first revision (line 464).  *)
(* Module ids are compared by the numeric id alone (ModuleIdClass.__key,  *)
(* lines 71-77), so Mids are the numbers and the module type only travels *)
(* in the declaration.  The dictionary's insertion order of ids matters   *)
(* only to the text of the emitted files and is not kept.                 *)
(*                                                                         *)
(* Standing alone, this module is the registry's own specification: an    *)
(* environment that hands it amdb_info records with the build kind, .so   *)
(* file name and is_test_module flag of their owning library.  The parser *)
(* driver (SpfLibsCfg) calls the same operators from its parse step.       *)
(***************************************************************************)
EXTENDS SpfBuildPolicy, FiniteSets

CONSTANTS
  Mids,        \* numeric module ids, int(mid, 0)
  Revs,        \* revision numbers a declaration may carry (rev_num)
  LibNames,    \* library names (word sequences)
  Majors,      \* lib_major_ver values
  AmdbInputs   \* amdb_info records the environment offers

ASSUME RevsAssumption == Revs \subseteq Int

\* The values get_so_file_name can return.
FileNames == {NoFile} \cup (LibNames \X Majors)

VARIABLES
  mod_info,    \* [Mids -> revision dictionary]
  err          \* "none", or the error that ended the run

reg_vars == <<mod_info, err>>

\* An amdb_info record: qact = None when qact_module_type is absent or "".
AmdbRecord ==
  [mid: Mids, rev: Revs, itype: INTERFACE_TYPES \cup {"appi"},
   mtype: MODULE_TYPES \cup {"bogus"}, tag: BOOLEAN, fmt1: BOOLEAN,
   fmt2: BOOLEAN, qact: MODULE_TYPES \cup {"bogus", None}, named: BOOLEAN]

ASSUME AmdbInputsAssumption == AmdbInputs \subseteq AmdbRecord

\* A stored ModuleInfoClass; tag, fmt1, fmt2 and named say whether the
\* string is present and non-empty.
ModInfo ==
  [itype: INTERFACE_TYPES, build: BuildKinds, filename: FileNames,
   tag: BOOLEAN, fmt1: BOOLEAN, fmt2: BOOLEAN, named: BOOLEAN,
   test: BOOLEAN, qact: MODULE_TYPES]

\* qact_module_type defaults to mtype (lines 410-412).
QactModuleType(a) == IF a.qact = None THEN a.mtype ELSE a.qact

\* A virtual stub's itype is forced to virtual_stub (lines 421-423).
ForcedItype(a, build) ==
  IF build = "STATIC_BUILD_VIRTUAL_STUB" THEN "virtual_stub" ELSE a.itype

(***************************************************************************)
(* The descriptor checks of lines 414-443, in the order the code makes    *)
(* them: the first that fails names the error.  (Line 442 builds its      *)
(* message with str + tuple and raises TypeError instead; it aborts all   *)
(* the same.)                                                              *)
(***************************************************************************)
\* Mutant: the interface-type check left out.
AmdbInfoErrorNoItype(a, build) ==
  IF a.mtype \in {"decoder", "encoder", "converter", "depacketizer"} /\ ~a.fmt1
    THEN "missing_fmtid1"
  ELSE IF a.mtype = "converter" /\ ~a.fmt2 THEN "missing_fmtid2"
  ELSE IF a.mtype \notin MODULE_TYPES THEN "unknown_mtype"
  ELSE IF QactModuleType(a) \notin MODULE_TYPES THEN "unknown_qact_mtype"
  ELSE IF QactModuleType(a) = "framework" THEN "framework_qact_mtype"
  ELSE IF build # "STATIC_BUILD_VIRTUAL_STUB" /\ ~a.tag THEN "missing_tag"
  ELSE "none"

AmdbInfoError(a, build) ==
  IF a.mtype \in {"decoder", "encoder", "converter", "depacketizer"} /\ ~a.fmt1
    THEN "missing_fmtid1"
  ELSE IF a.mtype = "converter" /\ ~a.fmt2 THEN "missing_fmtid2"
  ELSE IF ForcedItype(a, build) \notin INTERFACE_TYPES THEN "unknown_itype"
  ELSE IF a.mtype \notin MODULE_TYPES THEN "unknown_mtype"
  ELSE IF QactModuleType(a) \notin MODULE_TYPES THEN "unknown_qact_mtype"
  ELSE IF QactModuleType(a) = "framework" THEN "framework_qact_mtype"
  ELSE IF build # "STATIC_BUILD_VIRTUAL_STUB" /\ ~a.tag THEN "missing_tag"
  ELSE "none"

\* ModuleInfoClass(itype, module_name, build, so_filename, tag, ...), line 449.
NewModInfo(a, build, soFilename, isTest) ==
  [itype |-> ForcedItype(a, build), build |-> build, filename |-> soFilename,
   tag |-> a.tag, fmt1 |-> a.fmt1, fmt2 |-> a.fmt2, named |-> a.named,
   test |-> isTest, qact |-> QactModuleType(a)]

(***************************************************************************)
(* Lines 451-464: a new id is created with its revision; an existing       *)
(* revision number is an error; otherwise the new revision must have a     *)
(* stored neighbour (rev-1 or rev+1) whose file name differs from its own. *)
(***************************************************************************)
\* Mutant: only a stored neighbour with the same file is refused, so a
\* revision with no neighbour at all is accepted.
RegisterOutcomeNoNeighbour(mi, m, r, new) ==
  LET revs == DOMAIN mi[m] IN
  IF revs = {} THEN "insert"
  ELSE IF r \in revs THEN "duplicate_revision"
  ELSE IF \/ (r - 1) \in revs /\ ~IsNewRevNeeded(new, mi[m][r - 1])
          \/ (r + 1) \in revs /\ ~IsNewRevNeeded(new, mi[m][r + 1])
       THEN "spurious_revision_bump"
  ELSE "insert"

\* Mutant: the existing-revision check left out, so a new descriptor of a
\* stored revision replaces it when a neighbour's file differs.
RegisterOutcomeOverwrite(mi, m, r, new) ==
  LET revs == DOMAIN mi[m] IN
  IF revs = {} THEN "insert"
  ELSE IF \/ (r - 1) \in revs /\ IsNewRevNeeded(new, mi[m][r - 1])
          \/ (r + 1) \in revs /\ IsNewRevNeeded(new, mi[m][r + 1])
       THEN "insert"
  ELSE "spurious_revision_bump"

\* Mutant: a stored neighbour suffices, whatever its file.
RegisterOutcomeNoFileTest(mi, m, r, new) ==
  LET revs == DOMAIN mi[m] IN
  IF revs = {} THEN "insert"
  ELSE IF r \in revs THEN "duplicate_revision"
  ELSE IF (r - 1) \in revs \/ (r + 1) \in revs THEN "insert"
  ELSE "spurious_revision_bump"

RegisterOutcome(mi, m, r, new) ==
  LET revs == DOMAIN mi[m] IN
  IF revs = {} THEN "insert"
  ELSE IF r \in revs THEN "duplicate_revision"
  ELSE IF \/ (r - 1) \in revs /\ IsNewRevNeeded(new, mi[m][r - 1])
          \/ (r + 1) \in revs /\ IsNewRevNeeded(new, mi[m][r + 1])
       THEN "insert"
  ELSE "spurious_revision_bump"

\* mod_info[m][r] = new (or mod_info[m] = {r: new}).
Inserted(mi, m, r, new) ==
  [mi EXCEPT ![m] = [x \in DOMAIN @ \cup {r} |-> IF x = r THEN new ELSE @[x]]]

\* The whole amdb_info branch: its error, or "none".
RegisterError(mi, a, build, soFilename, isTest) ==
  IF AmdbInfoError(a, build) # "none" THEN AmdbInfoError(a, build)
  ELSE LET o == RegisterOutcome(mi, a.mid, a.rev,
                                NewModInfo(a, build, soFilename, isTest))
       IN  IF o = "insert" THEN "none" ELSE o

RegisteredMods(mi, a, build, soFilename, isTest) ==
  Inserted(mi, a.mid, a.rev, NewModInfo(a, build, soFilename, isTest))

-----------------------------------------------------------------------------
(***************************************************************************)
(* The registry on its own.                                                *)
(***************************************************************************)
RegInit ==
  /\ mod_info = [m \in Mids |-> [r \in {} |-> NoFile]]
  /\ err = "none"

\* One amdb_info record of a library with the given build, .so file name
\* (get_so_file_name of that library, line 445) and is_test_module flag.
RegisterModule(a, build, soFilename, isTest) ==
  /\ err = "none"
  /\ LET e == RegisterError(mod_info, a, build, soFilename, isTest) IN
       \/ /\ e = "none"
          /\ mod_info' = RegisteredMods(mod_info, a, build, soFilename, isTest)
          /\ UNCHANGED err
       \/ /\ e # "none"
          /\ err' = e
          /\ UNCHANGED mod_info

\* The run has aborted: LibCfgParserError ends the process.
RegHalted ==
  /\ err # "none"
  /\ UNCHANGED reg_vars

RegNext ==
  \/ \E a \in AmdbInputs, build \in BuildKinds, n \in LibNames, v \in Majors,
        t \in BOOLEAN :
       RegisterModule(a, build, SoFileName(n, build, v), t)
  \/ RegHalted

RegSpec == RegInit /\ [][RegNext]_reg_vars

-----------------------------------------------------------------------------
\* The LibCfgParserError messages the amdb_info branch raises.
RegErrors == {"duplicate_revision", "spurious_revision_bump",
              "missing_fmtid1", "missing_fmtid2", "unknown_itype",
              "unknown_mtype", "unknown_qact_mtype", "framework_qact_mtype",
              "missing_tag"}

RegTypeOK ==
  /\ DOMAIN mod_info = Mids
  /\ \A m \in Mids : \E R \in SUBSET Revs : mod_info[m] \in [R -> ModInfo]
  /\ err \in {"none"} \cup RegErrors

(***************************************************************************)
(* Revision contiguity (spec 3, 4.4): the revisions stored for a module id *)
(* have no gap.  The post-pass meant to enforce it (write_autogen_files,   *)
(* lines 498-509) never compares anything, because is_latest_rev is never  *)
(* cleared; the property therefore rests on the neighbour test of the      *)
(* registration step (lines 457-458) alone.                                *)
(***************************************************************************)
Contiguous(S) == \A a, b \in S : \A k \in a..b : k \in S

RevisionsContiguous == \A m \in Mids : Contiguous(DOMAIN mod_info[m])

(***************************************************************************)
(* No unjustified revision bump (spec 3): two consecutive stored revisions *)
(* of a module id come from different .so files, whatever the order in     *)
(* which the declarations were registered (lines 457-462).                 *)
(***************************************************************************)
AdjacentRevisionsDiffer ==
  \A m \in Mids : \A r \in DOMAIN mod_info[m] :
    (r + 1) \in DOMAIN mod_info[m] =>
      mod_info[m][r].filename # mod_info[m][r + 1].filename

(***************************************************************************)
(* A stored revision is final (lines 452-454): a later declaration of the  *)
(* same module id and revision number raises instead of overwriting, so no *)
(* step replaces or removes a ModuleInfoClass once stored, and the files   *)
(* written from mod_info describe the first declaration of each revision.  *)
(***************************************************************************)
RevisionsKept ==
  \A m \in Mids : \A r \in DOMAIN mod_info[m] :
    r \in DOMAIN mod_info'[m] /\ mod_info'[m][r] = mod_info[m][r]

RevisionsStable == [][RevisionsKept]_reg_vars
=============================================================================
