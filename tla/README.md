# TLA+ models of the SPF library config parser

The system is `src/scripts/spf/spf_libs_config_parser.py`. It is a SCons helper that reads
the JSON library declarations of an SPF build and does four things:

- it resolves each library's build kind and island setting from the environment flags;
- it registers libraries (`build_info_set`) and AMDB module revisions (`mod_info`);
- it hands the build system its linkage facts (`shared_lib_dict` and `env.Replace` flags);
- it writes the QACT XML and the AMDB C tables, whose writers make the last checks.

Every error raises and aborts the run. The program is single-threaded and sequential. So
the hard part is not an interleaving of threads. It is the order of the declarations,
the environment, and how checks spread over several steps combine.

## Parts and modules

| Part (spec §2) | Code | Module |
|---|---|---|
| Conditional Value Resolver | `map_build_input_to_built_str` flag loop (284-300), `map_island_info` (261-281) | `SpfBuildPolicy`, lemmas in `SpfBuildPolicyProofs` |
| Build-Kind Policy | tables (41-63), GEN_SHARED_LIBS downgrade (301-312), `get_so_file_name`, `ModuleInfoClass` helpers | `SpfBuildPolicy` |
| Module Identity & Revision Registry | amdb_info branch of `parse_each_json` (391-464) | `SpfModuleRegistry`, proofs in `SpfModuleRegistryProofs` |
| Library Build Registry | `parse_each_json` (319-388), `BuildInfoClass` | `SpfLibsCfg`, proofs in `SpfLibsCfgProofs` |
| Build-system population | `populate_build_system` (119-196) | `SpfLibsCfg`, proofs in `SpfPopulationProofs` |
| Emitter checks | `write_qact_xml` (726-732), `write_autogen_files` (498-509, 600-603) | `SpfLibsCfg` |
| Resolution Driver | `parse_cfg_and_gen_output` (767-882) | `SpfLibsCfg`, proofs in `SpfLibsCfgProofs` |

- **`SpfBuildPolicy`** has no state. Its definitions keep the code's names. A conditional
  value is a record `[lit, val, entries]`. `entries` holds the non-DEFAULT pairs in JSON
  order, and `val` is the literal or the DEFAULT, or `None` when DEFAULT is missing.
- **Names are sequences of words.** A library name is a sequence of words (`<<"a", "_strip">>`).
  A `USES_` key is `<<"USES_">> \o Upper(name) \o suffix`. Two keys are equal strings exactly
  when their word sequences are equal, so key collisions stay visible.
- **Flag spellings.** An environment flag is a pair `<<flag, spelling>>`. The code tests
  `env.get(k.upper())` and `env.get(k.lower())` only, so a mixed-case spelling never matches.
- **`SpfModuleRegistry`** models the registry.
  - Its state is `mod_info` and `err`.
  - `mod_info[m]` is a function whose domain is the set of stored revision numbers.
  - Module ids are the numeric ids alone, as in `ModuleIdClass.__key`.
  - `AmdbInfoError` makes the descriptor checks of lines 414-443 in the code's order.
  - `RegisterOutcome` is the duplicate test and the neighbour test of lines 451-464.
  - Standing alone (`RegSpec`), an environment offers amdb_info records with any build kind,
    `.so` name and test flag.
- **`SpfLibsCfg`** is the whole run, and it calls the registry's operators.
  - Phases: `ingest`, `populate`, `emit`, `done`, `failed`.
  - `OpenFile` covers the three outcomes of lines 832-851: an unopenable file is skipped,
    a malformed one aborts, an ok one is parsed.
  - `ParseLib` is one whole iteration of `parse_each_json`. `LibError` gives its checks in
    code order and names the first that fails. On success the library is appended to
    `build_info` if its name is new, and its module is registered.
  - `Populate` is one `populate_build_system` call. It covers the so, static and island
    parts together.
  - `EndPopulate` goes to `done` without emitting when the run is a clean or under hap.
  - A declaration's `amdb` field is `<<>>` or a one-element sequence of `AmdbInputs`.
  - `Emit` applies the QACT check first, then the static-revision check of the C writer.

## Runs

| Run | Expect | What it shows |
|---|---|---|
| `registry` | pass | Any registration sequence keeps the revisions of a module id gap-free, with consecutive revisions from different files, and never replaces or removes a stored revision (`RevisionsStable`, an action property). It covers 1 id, revisions 1..3, 2 libraries, every build kind, and descriptors missing fmt_id1, tag or a known itype. |
| `driver` | pass | Whole runs over 0-3 declarations from a pool of 8, plus an unopenable and a malformed file, under every combination of GEN_SHARED_LIBS, USES_NON_MOBILE, USES_AUDIO_IN_ISLAND and the flag x (absent, upper or mixed case) in runs that write outputs, plus one clean/hap environment (no flags, all switches off) that writes none. Checks `TypeOK`, `RedeclarationConsistent`, `CatalogWellFormed` and `SupportingLibsNotLinked`. |
| `revision_order` | violation | Revisions 3, 1, 2 from three different `.so` files, in every order. Some orders abort with a spurious revision bump (line 457): TLC's trace declares b at revision 1, then a at revision 3, which fails because neither neighbour 2 nor 4 is stored yet. The spec says any order succeeds. |
| `identical_redeclaration` | violation | A library with amdb_info declared twice identically aborts with "Revision 1 already exists" (line 452). The spec says this is a harmless no-op. |
| `island_without_default` | violation | An island flag map without DEFAULT is accepted when its flag is set (line 279). The spec requires the DEFAULT. |
| `driver_refines_registry` | pass | `RegistryRefined`: under the mapping `err <- RegErr` (the driver's error if it is one of the amdb_info branch's, else `"none"`), every step of a whole run is a `RegisterModule` step of `SpfModuleRegistry` with the declaration's resolved build, `.so` name and test flag, or leaves the registry alone. |
| `island_variant` | violation | `IslandVariantOnlyInIsland`: a static library gets `USES_<LIB>_ISLAND<suffix>` whenever `USES_AUDIO_IN_ISLAND` is absent, and also when it is present but the library's island resolution is the boolean False (line 158). Spec 4.3 says the island variant appears only when island support is on and the resolution is not false. |
| `uses_key_collision` | violation | `a` and `A`, or `a_strip` (NO_STRIP) and `a` (STRIP), share a `USES_` key. The second library keeps no linkage entry of its own, because line 133 only warns. |

Why the bounds are enough:

- **Revisions.** Three revision numbers let a revision have a lower and an upper neighbour
  and let a gap appear (1 and 3).
- **Libraries and files.** Two libraries give two distinct `.so` names, so a bump can be
  justified or spurious.
- **Driver pool.** The pool reaches every error of `parse_each_json` that a property
  depends on, and both emitter errors. It also reaches a redeclaration that differs only in
  island, and a supporting library that is shared only under a flag.

Each property of a passing run has a mutant in `PROJECT.json`: a plausible bug in the
mapped code, such as a dropped check, a missing default or a swapped order. TLC finds
each mutant violating its property.

## Fairness

No fairness is assumed and no liveness property is checked. Every loop of the parser is
a Python `for` over a finite list (the JSON files, a file's declarations, the records of
`build_info_set`), and each modelled step consumes one element. So every run ends by
construction, and a property saying so would not depend on the code.

## Proofs (TLAPS)

`SpfModuleRegistryProofs` proves, for every value of the constants, given
`Revs \subseteq Int` and `AmdbInputs \subseteq AmdbRecord`:

- `RegTypeCorrect`: `RegSpec => []RegTypeOK`.
- `RegRevisionsWellFormed`: `RegSpec => [](RevisionsContiguous /\ AdjacentRevisionsDiffer)`,
  with `RegAdjacentRevisionsDiffer` stating the second conjunct alone.

Neither property is inductive alone. Their conjunction `RegInv` is inductive:

- Contiguity is needed to show that a new revision is adjacent to at most the neighbours it
  was tested against.
- The file-difference fact needs contiguity: when revision `r` is inserted, `r` is not
  stored and `r-1` or `r+1` is. The proof (`RegStepInv`) splits on the position of `x` and
  `x+1` relative to `r`.
- For `x+1 = r` and `x = r`, a stored revision on the other side of `r` would contradict
  contiguity. So only the neighbour that the code actually tested can be adjacent.

The invariant is stated of a dictionary (`ModsInv(mi)`), and the lemma `RegisterPreserves`
says that a registration whose `RegisterError` is `"none"` keeps `ModsInv`. `RegStepInv`
cites it, and so does the driver's proof.

The lemma `ContiguousInsert` says that adding a neighbour of a contiguous set keeps it
contiguous. So the registration-time test of lines 457-458 alone keeps the catalogue
gap-free. The post-pass of lines 498-509 is dead: `is_latest_rev` is never cleared, so its
comparison never runs. The proof shows that the post-pass is redundant in this case.

`SpfModuleRegistryProofs` also proves the action property
`RegRevisionsStable`: `RegSpec => RevisionsStable`. From `RegInv`, a registration whose
error is `"none"` has a revision number not yet stored, which is the duplicate test of
line 452. So `Inserted` leaves every stored revision as it was (lemma
`RegisterKeepsRevisions`). The driver's registry steps are registry steps
(`DriverRefinesRegistry`), so this holds for the driver's `mod_info` as well.

`SpfBuildPolicyProofs` holds lemmas about the resolver:

- `LeastIndexExists` gives the first matching flag entry from the well-foundedness of `<`
  on `Nat`.
- `FirstMatchType` and `IslandInfoType` say that a resolution that raises nothing returns
  a value the JSON could give.
- `IslandSuffixes` gives the words of the `"_ISLAND" + k` keys.

`SpfLibsCfgProofs` proves, given in addition `Inputs \subseteq Seq(JsonFile)`,
`EnvChoices \subseteq Env` and `Majors # {}` (a library version exists to choose):

- `DriverRefinesRegistry`: `Spec => RegistryRefined`. It rests on the invariant `DInv`:
  the phase is known, a run that has not failed has no error, and the pending files and
  declarations are well formed. `LibErrorCases` says that when a parse step's error is
  `"none"` or a registry error, the build is a known kind, a shared build has a version,
  and the error is exactly `RegisterError` of the registry. `SoFilenameOffered` says the
  `.so` name is one the registry's environment offers. The `Instance*` lemmas equate the
  instance's operators with the driver's. `RegistryStep` then maps each step.
- `DriverRevisionsWellFormed`: `Spec => [](RevisionsContiguous /\ AdjacentRevisionsDiffer)`
  for the driver's `mod_info`, from `DInv /\ ModsInv(mod_info)` and `RegisterPreserves`.
  It is proved directly, not through the refinement, because tlapm does not carry a
  theorem through an `INSTANCE ... WITH err <- RegErr`.
- `CatalogCorrect`: `Spec => []CatalogWellFormed`. Its inductive invariant `CatInv` adds
  three facts to `DInv /\ ModsInv(mod_info)`:
  - each module id has finitely many revisions (`FiniteRevs`), which the cardinality in
    the C writer's check needs;
  - every stored revision that is not a virtual stub has a tag (`TagsPresent`), from
    line 441 at registration;
  - a run that is done and writes has passed both writer checks (`EmitPassed`).
  Lemma `EmitChecksGiveCatalog` turns the two passed checks into the two clauses of the
  catalogue that registration does not give. A module with a static revision and
  `Cardinality(R) <= 1` has that revision alone (`AtMostOne`).
- `TypeCorrect`: `Spec => []TypeOK`, and `RedeclarationsConsistent`:
  `Spec => []RedeclarationConsistent`. Both rest on
  `TInv == TypeOK /\ DInv /\ ModsInv(mod_info) /\ RedeclarationConsistent`.
  - The typing of a new record (`NewBuildInfoType`) needs the island value `None`, which
    is what `map_island_info` returns for `"island": null`.
  - Redeclaration consistency is inductive with the type invariant. A declaration whose
    name is new is appended, and uniqueness holds because no stored name equals it. A
    declaration whose name is stored passed `eq_in_all_respects` against the stored
    record (`LibErrorNoneRedeclared`), so it agrees in all eight fields. A failing one
    moves to `failed`.
  - `NewBuildInfoStable` says a resolution depends on the environment only, which no step
    changes.

`SpfPopulationProofs` proves `SupportingLibsIsolated`:
`KeysDistinct => (Spec => []SupportingLibsNotLinked)`. `KeysDistinct` says distinct
library names have disjoint `USES_` keys.

- The hypothesis is needed. The `uses_key_collision` run shows two names sharing a key,
  and a supporting library would then see the other library's flag.
- The driver run's names satisfy it: TLC checked `KeysDistinct` on that instance.
- The inductive invariant `SInv` adds three facts to `TInv`:
  - no record is visited while files are read (`PopStart`);
  - every key set so far came from a visited record (`PopKeys`);
  - once visiting has started, every parsed declaration's build is the stored build of
    its name (`PopResolved`).
- A supporting library resolves to `SHARED_NO_BUILD` (`SupportingNoKeys`), and a record
  with that build adds no key. A record's keys are keys of its own name (`LibKeysOwn`). So
  a key of the supporting library's name can only have come from its own record, which
  adds none.

Each inductive invariant was checked with TLC on the driver run before it was proved.
`RegAdjacentRevisionsDiffer` states on its own the second half of `RegRevisionsWellFormed`.
So every invariant and action property of the passing runs is now stated by a theorem.

Only TLC checks the following:

- Every property of the violation runs: each is a disagreement between the code and the
  spec that TLC exhibits, not something to prove.
- The hypothesis `KeysDistinct` is not a property of the code. The theorem that uses
  it says what holds when the declarations avoid key collisions, and the
  `uses_key_collision` run shows what happens when they do not.

## Not modelled

- **Generated text.** The text of the QACT XML, the C tables and the macros is formatting.
- **File I/O.** Output files, directory creation and the CHIPSET early return are I/O.
- **Other modes and hand-overs.** `is_unit_test` mode and `env.Replace(SHARED_LIB_DICT=...)`
  are not modelled.
- **Unused or print-only code.** `ComponentInfo` is never instantiated. `count_build_type`
  and `check_at_least_one_rev_built` are never called. The `print_*` helpers only print.
- **A wrong-exception bug.** The `missing_tag` message at line 442 is built with
  `str % ... + tuple`, so it raises a TypeError instead of `LibCfgParserError`. The run
  aborts all the same, and the model records `missing_tag`.
- **Unchecked input types.** `map_island_info` strips the chosen island value (lines 275,
  279); the model returns an `attribute_error` when that value is a JSON boolean. The
  AMDB checks are abstracted to the errors the properties need: a missing mandatory key of
  `amdb_info` and a non-numeric `mid` (`int(mid, 0)`, a ValueError) are not inputs, and
  `iteritems` at line 359 (Python 2 only) is taken as working.
- **`is_private`** is stored but never compared or read.

## Later work

- Model the output-file lifecycle (lines 855-866) to state what a run that aborts in a
  writer leaves on disk.
