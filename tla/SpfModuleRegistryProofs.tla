----------------------- MODULE SpfModuleRegistryProofs -----------------------
(***************************************************************************)
(* Proofs about the module revision registry, for every set of module ids, *)
(* revision numbers, libraries and descriptors.                            *)
(***************************************************************************)
EXTENDS SpfModuleRegistry, FiniteSetTheorems, TLAPS

(***************************************************************************)
(* The invariant is stated of a mod_info dictionary, so that it can be     *)
(* used of any specification that stores registrations the way lines       *)
(* 451-464 do.  Contiguity alone is not inductive for the file-name        *)
(* property: a revision accepted through its rev+1 neighbour is only known *)
(* to differ from rev-1 because rev-1 and rev+1 cannot both be stored      *)
(* while rev is not, which is contiguity.  Both need the type.             *)
(***************************************************************************)
ModsOK(mi) ==
  /\ DOMAIN mi = Mids
  /\ \A m \in Mids : \E R \in SUBSET Revs : mi[m] \in [R -> ModInfo]

ContiguousRevs(mi) == \A m \in Mids : Contiguous(DOMAIN mi[m])

AdjacentDiffer(mi) ==
  \A m \in Mids : \A x \in DOMAIN mi[m] :
    (x + 1) \in DOMAIN mi[m] => mi[m][x].filename # mi[m][x + 1].filename

ModsInv(mi) == ModsOK(mi) /\ ContiguousRevs(mi) /\ AdjacentDiffer(mi)

\* The inductive invariant of the registry specification.
RegInv == ModsInv(mod_info) /\ err \in {"none"} \cup RegErrors

USE DEF RegErrors

\* Adding a number next to a non-empty gap-free set of integers leaves it
\* gap-free.
LEMMA ContiguousInsert ==
  ASSUME NEW S \in SUBSET Int, NEW r \in Int, Contiguous(S), r \notin S,
         (r - 1) \in S \/ (r + 1) \in S
  PROVE  Contiguous(S \cup {r})
<1> SUFFICES ASSUME NEW a \in S \cup {r}, NEW b \in S \cup {r},
                    NEW k \in a..b
             PROVE  k \in S \cup {r}
  BY DEF Contiguous
<1>1. CASE a \in S /\ b \in S
  BY <1>1 DEF Contiguous
<1>2. CASE a = r /\ b \in S /\ k # r
  <2>1. (r + 1) \in S
    <3>1. CASE (r - 1) \in S
      \* r - 1 and b are stored and r lies between them.
      BY <1>2, <3>1, r \in (r - 1)..b DEF Contiguous
    <3>2. QED BY <3>1
  <2>2. k \in (r + 1)..b
    BY <1>2
  <2>3. QED BY <2>1, <2>2, <1>2 DEF Contiguous
<1>3. CASE a \in S /\ b = r /\ k # r
  <2>1. (r - 1) \in S
    <3>1. CASE (r + 1) \in S
      BY <1>3, <3>1, r \in a..(r + 1) DEF Contiguous
    <3>2. QED BY <3>1
  <2>2. k \in a..(r - 1)
    BY <1>3
  <2>3. QED BY <2>1, <2>2, <1>3 DEF Contiguous
<1>4. QED BY <1>1, <1>2, <1>3

LEMMA RegInitInv == RegInit => RegInv
BY DEF RegInit, RegInv, ModsInv, ModsOK, ContiguousRevs, AdjacentDiffer,
       Contiguous

\* The descriptor a registration stores has the stored type.
LEMMA NewModInfoType ==
  ASSUME NEW a \in AmdbRecord, NEW build \in BuildKinds, NEW n \in LibNames,
         NEW v \in Majors, NEW t \in BOOLEAN,
         AmdbInfoError(a, build) = "none"
  PROVE  NewModInfo(a, build, SoFileName(n, build, v), t) \in ModInfo
<1>1. ForcedItype(a, build) \in INTERFACE_TYPES
  BY DEF AmdbInfoError
<1>2. QactModuleType(a) \in MODULE_TYPES
  BY DEF AmdbInfoError
<1>3. SoFileName(n, build, v) \in FileNames
  BY DEF SoFileName, FileNames
<1>4. QED BY <1>1, <1>2, <1>3 DEF NewModInfo, ModInfo, AmdbRecord


\* A registration that passes every check of the amdb_info branch keeps the
\* stored revisions gap-free, with consecutive ones from different files.
LEMMA RegisterPreserves ==
  ASSUME NEW mi, ModsInv(mi), NEW a \in AmdbInputs, NEW build \in BuildKinds,
         NEW n \in LibNames, NEW v \in Majors, NEW t \in BOOLEAN,
         RegisterError(mi, a, build, SoFileName(n, build, v), t) = "none"
  PROVE  ModsInv(RegisteredMods(mi, a, build, SoFileName(n, build, v), t))
<1> DEFINE f == SoFileName(n, build, v)
           new == NewModInfo(a, build, f, t)
           m == a.mid
           r == a.rev
           revs == DOMAIN mi[m]
           mi2 == RegisteredMods(mi, a, build, f, t)
<1> USE DEF f, new, m, r, revs
<1>0. a \in AmdbRecord /\ m \in Mids /\ r \in Revs /\ r \in Int
  BY AmdbInputsAssumption, RevsAssumption DEF AmdbRecord
<1>1. AmdbInfoError(a, build) = "none"
      /\ RegisterOutcome(mi, m, r, new) = "insert"
  <2>1. AmdbInfoError(a, build) = "none"
    BY DEF RegisterError
  <2>2. QED BY <2>1 DEF RegisterError, RegisterOutcome
<1>2. new \in ModInfo
  BY <1>1, <1>0, NewModInfoType
<1>3. mi2 = Inserted(mi, m, r, new)
  BY DEF mi2, RegisteredMods
<1>4. revs \subseteq Revs /\ mi[m] \in [revs -> ModInfo]
  BY <1>0 DEF ModsInv, ModsOK
<1>5. /\ DOMAIN mi2[m] = revs \cup {r}
      /\ mi2[m][r] = new
      /\ \A x \in revs \ {r} : mi2[m][x] = mi[m][x]
      /\ \A m2 \in Mids \ {m} : mi2[m2] = mi[m2]
  BY <1>3, <1>0 DEF Inserted, ModsInv, ModsOK
\* The new revision is either the first or sits next to a stored one
\* whose file differs, and is not stored yet.
<1>6. \/ revs = {}
      \/ /\ r \notin revs
         /\ \/ (r - 1) \in revs /\ new.filename # mi[m][r - 1].filename
            \/ (r + 1) \in revs /\ new.filename # mi[m][r + 1].filename
  BY <1>1 DEF RegisterOutcome, IsNewRevNeeded
<1>7. ModsOK(mi2)
  <2>1. DOMAIN mi2 = Mids
    BY <1>3 DEF Inserted, ModsInv, ModsOK
  <2>2. mi2[m] \in [revs \cup {r} -> ModInfo]
    <3>1. mi2[m] = [x \in revs \cup {r} |->
                            IF x = r THEN new ELSE mi[m][x]]
      BY <1>3, <1>0 DEF Inserted, ModsInv, ModsOK
    <3>2. QED BY <3>1, <1>2, <1>4
  <2>3. \A m2 \in Mids : \E R \in SUBSET Revs : mi2[m2] \in [R -> ModInfo]
    <3> SUFFICES ASSUME NEW m2 \in Mids
                 PROVE  \E R \in SUBSET Revs : mi2[m2] \in [R -> ModInfo]
      OBVIOUS
    <3>1. CASE m2 = m
      BY <3>1, <2>2, <1>4, <1>0
    <3>2. CASE m2 # m
      BY <3>2, <1>5 DEF ModsInv, ModsOK
    <3>3. QED BY <3>1, <3>2
  <2>4. QED BY <2>1, <2>3 DEF ModsOK
<1>8. Contiguous(revs \cup {r})
  <2>1. CASE revs = {}
    BY <2>1, <1>0 DEF Contiguous
  <2>2. CASE revs # {}
    <3>1. Contiguous(revs) /\ revs \subseteq Int
      BY <1>0, <1>4, RevsAssumption DEF ModsInv, ContiguousRevs
    <3>2. QED BY <3>1, <2>2, <1>6, <1>0, ContiguousInsert
  <2>3. QED BY <2>1, <2>2
<1>9. ContiguousRevs(mi2)
  BY <1>5, <1>8 DEF ModsInv, ContiguousRevs
<1>10. AdjacentDiffer(mi2)
  <2> SUFFICES ASSUME NEW m2 \in Mids, NEW x \in DOMAIN mi2[m2],
                      (x + 1) \in DOMAIN mi2[m2]
               PROVE  mi2[m2][x].filename # mi2[m2][x + 1].filename
    BY DEF AdjacentDiffer
  <2>1. CASE m2 # m
    BY <2>1, <1>5 DEF ModsInv, AdjacentDiffer
  <2>2. CASE m2 = m /\ x # r /\ x + 1 # r
    BY <2>2, <1>5 DEF ModsInv, AdjacentDiffer
  <2>3. CASE m2 = m /\ x = r
    \* rev+1 is stored, so rev-1 is not: the accepted neighbour is rev+1.
    <3>1. (r + 1) \in revs
      BY <2>3, <1>5, <1>0, RevsAssumption, <1>4
    <3>2. (r - 1) \notin revs
      <4>1. SUFFICES ASSUME (r - 1) \in revs PROVE FALSE
        OBVIOUS
      <4>2. r \in (r - 1)..(r + 1)
        BY <1>0
      <4>3. QED BY <4>1, <4>2, <3>1, <1>6, <1>0 DEF ModsInv,
                                             ContiguousRevs, Contiguous
    <3>3. QED BY <2>3, <3>1, <3>2, <1>5, <1>6, <1>0
  <2>4. CASE m2 = m /\ x + 1 = r
    <3>1. x = r - 1 /\ x \in revs
      <4>1. x \in revs \cup {r}
        BY <2>4, <1>5
      <4>2. x \in Int
        BY <4>1, <1>4, <1>0, RevsAssumption
      <4>3. x = r - 1
        BY <2>4, <4>2, <1>0
      <4>4. QED BY <4>1, <4>2, <4>3, <1>0
    <3>2. (r + 1) \notin revs
      <4>1. SUFFICES ASSUME (r + 1) \in revs PROVE FALSE
        OBVIOUS
      <4>2. r \in (r - 1)..(r + 1)
        BY <1>0
      <4>3. QED BY <4>1, <4>2, <3>1, <1>6, <1>0 DEF ModsInv,
                                             ContiguousRevs, Contiguous
    <3>3. QED BY <2>4, <3>1, <3>2, <1>5, <1>6, <1>0
  <2>5. QED BY <2>1, <2>2, <2>3, <2>4
<1>11. QED BY <1>7, <1>9, <1>10 DEF ModsInv

(***************************************************************************)
(* What the writers rely on besides contiguity: each module id has finitely *)
(* many revisions (so write_autogen_files' len(revs) is a count), and every *)
(* stored revision that is not a virtual stub has its tag (line 441).      *)
(***************************************************************************)
FiniteRevs(mi) == \A m \in Mids : IsFiniteSet(DOMAIN mi[m])

TagsPresent(mi) ==
  \A m \in Mids : \A r \in DOMAIN mi[m] :
    mi[m][r].build # "STATIC_BUILD_VIRTUAL_STUB" => mi[m][r].tag

\* A registration that passes the checks of the amdb_info branch adds one
\* revision, and the revision it adds has its tag unless it is a virtual stub.
LEMMA RegisterKeepsCatalog ==
  ASSUME NEW mi, ModsOK(mi), FiniteRevs(mi), TagsPresent(mi),
         NEW a \in AmdbInputs, NEW build, NEW f, NEW t,
         RegisterError(mi, a, build, f, t) = "none"
  PROVE  /\ FiniteRevs(RegisteredMods(mi, a, build, f, t))
         /\ TagsPresent(RegisteredMods(mi, a, build, f, t))
<1> DEFINE new == NewModInfo(a, build, f, t)
           m == a.mid
           r == a.rev
           mi2 == RegisteredMods(mi, a, build, f, t)
<1>0. a \in AmdbRecord /\ m \in Mids
  BY AmdbInputsAssumption DEF AmdbRecord
<1>1. /\ DOMAIN mi2[m] = DOMAIN mi[m] \cup {r}
      /\ mi2[m][r] = new
      /\ \A x \in DOMAIN mi[m] \ {r} : mi2[m][x] = mi[m][x]
      /\ \A m2 \in Mids \ {m} : mi2[m2] = mi[m2]
  BY <1>0 DEF RegisteredMods, Inserted, ModsOK
<1>2. build # "STATIC_BUILD_VIRTUAL_STUB" => new.tag
  <2>1. AmdbInfoError(a, build) = "none"
    BY DEF RegisterError
  <2>2. QED BY <2>1 DEF AmdbInfoError, NewModInfo
<1>3. new.build = build
  BY DEF NewModInfo
<1>4. FiniteRevs(mi2)
  <2> SUFFICES ASSUME NEW m2 \in Mids PROVE IsFiniteSet(DOMAIN mi2[m2])
    BY DEF FiniteRevs
  <2>1. CASE m2 = m
    BY <2>1, <1>1, FS_AddElement DEF FiniteRevs
  <2>2. CASE m2 # m
    BY <2>2, <1>1 DEF FiniteRevs
  <2>3. QED BY <2>1, <2>2
<1>5. TagsPresent(mi2)
  <2> SUFFICES ASSUME NEW m2 \in Mids, NEW x \in DOMAIN mi2[m2],
                      mi2[m2][x].build # "STATIC_BUILD_VIRTUAL_STUB"
               PROVE  mi2[m2][x].tag
    BY DEF TagsPresent
  <2>1. CASE m2 = m /\ x = r
    BY <2>1, <1>1, <1>2, <1>3
  <2>2. CASE m2 = m /\ x # r
    BY <2>2, <1>1 DEF TagsPresent
  <2>3. CASE m2 # m
    BY <2>3, <1>1 DEF TagsPresent
  <2>4. QED BY <2>1, <2>2, <2>3
<1>6. QED BY <1>4, <1>5

LEMMA RegStepInv == RegInv /\ [RegNext]_reg_vars => RegInv'
<1> SUFFICES ASSUME RegInv, [RegNext]_reg_vars PROVE RegInv'
  OBVIOUS
<1>1. CASE \E a \in AmdbInputs, build \in BuildKinds, n \in LibNames,
            v \in Majors, t \in BOOLEAN :
             RegisterModule(a, build, SoFileName(n, build, v), t)
  <2> PICK a \in AmdbInputs, build \in BuildKinds, n \in LibNames,
           v \in Majors, t \in BOOLEAN :
             RegisterModule(a, build, SoFileName(n, build, v), t)
    BY <1>1
  <2> DEFINE e == RegisterError(mod_info, a, build, SoFileName(n, build, v), t)
  <2>1. CASE e = "none"
    <3>1. mod_info' = RegisteredMods(mod_info, a, build, SoFileName(n, build, v), t)
          /\ err' = err
      BY <2>1 DEF RegisterModule
    <3>2. QED BY <2>1, <3>1, RegisterPreserves DEF RegInv
  <2>2. CASE e # "none"
    <3>1. err' = e /\ mod_info' = mod_info
      BY <2>2 DEF RegisterModule
    <3>2. e \in RegErrors
      BY <2>2 DEF RegisterError, AmdbInfoError, RegisterOutcome
    <3>3. QED BY <3>1, <3>2 DEF RegInv
  <2>3. QED BY <2>1, <2>2
<1>2. CASE RegHalted
  BY <1>2 DEF RegHalted, reg_vars, RegInv
<1>3. CASE UNCHANGED reg_vars
  BY <1>3 DEF reg_vars, RegInv
<1>4. QED BY <1>1, <1>2, <1>3 DEF RegNext


(***************************************************************************)
(* Type correctness of the registry: every stored revision is a           *)
(* ModuleInfoClass with a known interface type and qact module type.      *)
(***************************************************************************)
THEOREM RegTypeCorrect == RegSpec => []RegTypeOK
<1>1. RegInv => RegTypeOK
  BY DEF RegInv, ModsInv, ModsOK, RegTypeOK
<1>2. QED BY <1>1, RegInitInv, RegStepInv, PTL DEF RegSpec

(***************************************************************************)
(* Whatever the order of registrations, the stored revisions of every     *)
(* module id are gap-free and consecutive ones come from different files:  *)
(* the neighbour test of lines 457-458 does the work of the dead gap check *)
(* of lines 503-508.                                                       *)
(***************************************************************************)
THEOREM RegRevisionsWellFormed ==
  RegSpec => [](RevisionsContiguous /\ AdjacentRevisionsDiffer)
<1>1. RegInv => RevisionsContiguous /\ AdjacentRevisionsDiffer
  BY DEF RegInv, ModsInv, ContiguousRevs, AdjacentDiffer,
         RevisionsContiguous, AdjacentRevisionsDiffer
<1>2. QED BY <1>1, RegInitInv, RegStepInv, PTL DEF RegSpec

\* No unjustified revision bump (lines 457-462): for every instance, two
\* consecutive stored revisions of a module id come from different .so
\* files, whatever the order in which the declarations were registered.
THEOREM RegAdjacentRevisionsDiffer == RegSpec => []AdjacentRevisionsDiffer
<1>1. RegInv => AdjacentRevisionsDiffer
  BY DEF RegInv, ModsInv, AdjacentDiffer, AdjacentRevisionsDiffer
<1>2. QED BY <1>1, RegInitInv, RegStepInv, PTL DEF RegSpec

\* A registration that raises nothing adds a revision not yet stored and
\* leaves every stored one as it was.
LEMMA RegisterKeepsRevisions ==
  ASSUME NEW mi, ModsOK(mi), NEW a \in AmdbInputs, NEW build, NEW f, NEW t,
         RegisterError(mi, a, build, f, t) = "none"
  PROVE  \A m \in Mids : \A r \in DOMAIN mi[m] :
           /\ r \in DOMAIN RegisteredMods(mi, a, build, f, t)[m]
           /\ RegisteredMods(mi, a, build, f, t)[m][r] = mi[m][r]
<1>1. a.mid \in Mids /\ a.rev \in Revs
  BY AmdbInputsAssumption DEF AmdbRecord
<1>2. a.rev \notin DOMAIN mi[a.mid]
  BY DEF RegisterError, RegisterOutcome
<1>3. QED BY <1>1, <1>2 DEF ModsOK, RegisteredMods, Inserted

\* A stored revision is final (lines 452-454): for every instance, no step
\* of the registry replaces or removes a ModuleInfoClass once stored.
THEOREM RegRevisionsStable == RegSpec => RevisionsStable
<1>1. RegInv /\ [RegNext]_reg_vars => [RevisionsKept]_reg_vars
  <2> SUFFICES ASSUME RegInv, [RegNext]_reg_vars PROVE [RevisionsKept]_reg_vars
    OBVIOUS
  <2>1. CASE \E a \in AmdbInputs, build \in BuildKinds, n \in LibNames,
              v \in Majors, t \in BOOLEAN :
               RegisterModule(a, build, SoFileName(n, build, v), t)
    <3> PICK a \in AmdbInputs, build \in BuildKinds, n \in LibNames,
             v \in Majors, t \in BOOLEAN :
               RegisterModule(a, build, SoFileName(n, build, v), t)
      BY <2>1
    <3> DEFINE e == RegisterError(mod_info, a, build, SoFileName(n, build, v), t)
    <3>1. CASE e = "none"
      <4>1. mod_info' = RegisteredMods(mod_info, a, build, SoFileName(n, build, v), t)
        BY <3>1 DEF RegisterModule
      <4>2. ModsOK(mod_info)
        BY DEF RegInv, ModsInv
      <4>3. QED BY <3>1, <4>1, <4>2, RegisterKeepsRevisions DEF RevisionsKept
    <3>2. CASE e # "none"
      BY <3>2 DEF RegisterModule, RevisionsKept
    <3>3. QED BY <3>1, <3>2
  <2>2. CASE RegHalted \/ UNCHANGED reg_vars
    BY <2>2 DEF RegHalted, reg_vars
  <2>3. QED BY <2>1, <2>2 DEF RegNext
<1>2. QED BY <1>1, RegInitInv, RegStepInv, PTL DEF RegSpec, RevisionsStable
=============================================================================
