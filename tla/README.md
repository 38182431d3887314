# Formal model of the IMP.pmi mmCIF exporter

This directory holds TLA+ models of `src/modules/pmi/pyext/src/mmcif.py`. That
module records a PMI modelling run through a sequence of calls and writes it as an
mmCIF file. The models cover its state machines, the TLC configurations that check
them, and TLAPS proofs of the invariants of the dataset registry, of the
component-to-entity mapping and of the references in the rows `flush` writes. A second part models
the SCons tool `src/tools/imp_module.py`, which decides whether and how an IMP
module is built, and proves its main property. Every other file under `src/` is a
unit test or a build script and is not modelled (see the end).

## The system

`ProtocolOutput` (lines 1411-1594) is the orchestrator. PMI calls it while it builds
a system:

- `create_component`
- `add_component_sequence`
- `add_pdb_element` and `add_bead_element`
- `get_cross_link_dataset` and `add_experimental_cross_link`
- `add_replica_exchange`
- `add_model`

Each call hands the data to one of about twenty *dumpers*. `flush` (1489-1493) then
runs every dumper's `finalize` and then every `dump`, in the order of `_dumpers`.
Each dump writes one or more mmCIF categories through the *structured writer*:

- `CifWriter` (81-108);
- `CifLoopWriter` (57-78);
- `_LineWriter` (18-42).

The dumpers are coupled by object identity:

- `DatasetDumper` (575-645) deduplicates datasets by structural equality (479-568).
  It returns the registered object, whose `.id` other dumpers write.
- `StartingModelDumper` (1015-1157) classifies each input PDB file. It registers
  the file's dataset and later writes rows that name it.
- `ModelRepresentationDumper` (366-426) merges fragments and reads the starting
  models that `StartingModelDumper.finalize` assigned. It reads the very dict
  `model_repr_dump.starting_model` (line 1439).
- `AssemblyDumper` (814-842), `ModelDumper` (879-957) and `ModelProtocolDumper`
  (959-998) share the `Assembly` and `DatasetGroup` objects that the orchestrator
  and `DatasetDumper.get_all_group` create.

## Modules

| Module | Models | State (VARIABLES) | Actions |
|---|---|---|---|
| `DatasetMemo` | `DatasetGroup` and the memo of `DatasetDumper.get_all_group` | none (operators only: the group record, `Keys`, `AllGroupIndex`, `AllGroupsAfter`) | none; `DatasetDumper` uses them |
| `DatasetDumper` | `DatasetDumper`, `Dataset*` and `DatasetLocation` equality, `DatasetGroup` | `datasets` (the OrderedDict as a sequence of entries), `idOf` (each object's `.id`), `dataset_groups`, the object counter `nObj`, and the history variables `held`, `heldGroups`, `listed` | `add`, `get_all_group`, `dump` |
| `Representation` | `add_pdb_element`, `add_bead_element`, fragment merging, `StartingModelDumper` (`add_pdb_fragment`, `get_sources`, `get_templates`, `assign_model_details`, `dump_details`), `ModelRepresentationDumper.dump`, and `flush` for these dumpers | `fragments`, `models`, `starting_model`, `modeller_used`, `reprRows`, `detailRows`, `raised`, a call log, and the registry (through `INSTANCE DatasetDumper`) | `add_pdb_element`, `add_bead_element`, `flush` |
| `CifWriter` | `CifWriter._repr`, `CifLoopWriter`, `_LineWriter.write` | `out` (lines: data lines of tokens, text fields of chunk lengths, markers), `empty_loop`, `inLoop`, and the history `written` | `loop`, `write(kwargs)`, `exit` |
| `SConsModule` | `src/tools/imp_module.py`: `IMPModule`, `validate`, `invalidate`, `_add_all_alias` and the alias/default helpers, the two environment factories, `IMPSharedLibrary`, `IMPHeaders`, `IMPPython`, `IMPPythonExtension`, `IMPModuleTest` | `menv` (the module environment: `VALIDATED`, the compile commands, the test builder), `envs` (derived environments), `targets` (kind, declaring environment, dependency, bound test builder), `aliases`, `defaults`, `exited`, `nCalls` | `validate`, `invalidate`, `DeriveEnvironment`, one per pseudo-builder |
| `Components` | `create_component`, `_EntityMapper`, `get_cross_link_dataset`, `add_experimental_cross_link`, `add_replica_exchange`, `add_model`, the dumps of `_entity`, `_struct_asym`, `_ihm_struct_assembly`, `_ihm_cross_link_list`, `_ihm_modeling_protocol`, `_ihm_model_list`, and `flush` | components, chains, assemblies (index 1 is the complete assembly; `modeled` is the index of the modeled one), entities, cross-links, protocols (dataset-group ids), models, the rows written per category, `raised` (the category whose dump raised KeyError in the last flush), and the registry | one per call, plus `flush` |

A helper that changes state is part of the action that calls it:

- `add_pdb_element` includes `ModelRepresentationDumper.add_fragment`,
  `StartingModelDumper.add_pdb_fragment`, `get_sources`, `DatasetDumper.add` and
  `set_modeller_used`.
- `flush` includes every finalize, then the dumps in `_dumpers` order, and it stops
  at the first dump that raises. The categories before that dump keep their rows.

Data is abstracted to what the properties tell apart:

- a PDB file is a model value with a header class (HEADER, MODELLER or other), a
  set of template ranges, and whether a repository location is known;
- a CIF value is its type, its length, and whether it holds a space, a single
  quote or a double quote;
- sequences, file names and components are model values.

### The SCons module tool

`IMPModule` (372-431) clones the build environment for one module, sets
`VALIDATED` to `None` and runs the module's SConscript. The SConscript must call
`validate` (362) or `invalidate` (353) "before setting up any builders". It then
calls the pseudo-builders. Each of them declares targets and puts the installed
ones under `<module>-install`, `modules-install` and, only when `VALIDATED` is
true, the global `install` alias (`_add_all_alias`, 174-183). With `VALIDATED`
still `None`, `_add_all_alias` calls `env.Exit(1)`. `invalidate` puts
`fail_action` in the compile command variables and in the `_IMPModuleTest` builder.

The model follows SCons semantics where they decide the outcome:

- a command variable is read when the target is built, so a compiled target fails
  when the environment it was declared in holds `fail_action` at the end;
- `IMPSharedLibraryEnvironment` and `IMPPythonExtensionEnvironment` return a copy
  (`tools.get_sharedlib_environment` and `get_pyext_environment` are not in the
  repository; they are taken to return a clone of their argument). A copy made
  before `invalidate` keeps the real commands;
- `IMPModuleTest` binds the test builder object at the call;
- aliases and `Default` are global.

The constant `Contract` says whether the SConscript keeps the docstring's rule
(every pseudo-builder call comes after `validate` or `invalidate`, which are
called once).

`PROJECT.json` `map` names the source lines of every definition.

## Runs

The tables give the number of distinct states in brackets where a run passes.

Passing runs:

| Run | Module / cfg | Properties | Shows |
|---|---|---|---|
| `dataset_registry` (181,587) | `MCDatasetDumper` | `NoDuplicateDatasets`, `HeldRefsResolve`, `GroupsAreSnapshots`, `DumpListsEveryDataset` | see below |
| `representation` (43,118) | `MCRepresentation` | `RepresentationFaithful`, `DetailRowsResolve` | see below |
| `cif_writer` (374,549) | `MCCifWriter` | `RowsReadBack`, `LinesWithinWidth` | see below |
| `components` (143,726) | `MCComponents` | `EntitiesBySequence`, `RowsReferenceAssigned` | see below |
| `scons_module` (5,827) | `MCSConsModule` | `InvalidModuleBuildsNothing`, `ValidModuleBuildsEverything` | see below |

What the passing runs show:

- **`dataset_registry`.** Under any interleaving of `add`, `get_all_group` and
  `dump` over three classes, the following hold:
  - Equal datasets are stored once; a non-key `details` attribute does not split
    them.
  - Every object `add` returned resolves to the listed dataset of its class and
    attributes.
  - A `DatasetGroup` keeps the members it had when returned, while later datasets
    get a new group.
  - Every dump lists every dataset a caller holds.
- **`representation`.** The merged fragments cover exactly the residues, files and
  beads that were added. Every starting-model detail row names a dataset that the
  same flush lists, of the class `get_sources` registered.
- **`cif_writer`.** The values are plain, quoted, float and over-long, with lengths
  at the 70- and 80-column thresholds. What a CIF reader reads from the loop body
  is the rows written, with `.` for an omitted key. No line passes 80 columns.
- **`components`.** Every order of the calls above, with two components, two
  sequences and two files, keeps the following. The cfg sets `Recreate = FALSE`,
  so each name is created once. The theorems for both properties hold for either
  value:
  - Entities correspond one-to-one to distinct sequences.
  - Every written assembly, dataset, dataset-group, entity and protocol id was
    assigned and listed.
- **`scons_module`.** Under the contract, with C++ and Python on and five calls
  in any order (derived environments, libraries with and without install,
  headers, Python files, extensions, tests), the following hold:
  - An invalidated module has no target under `install`, `test` or the defaults,
    and each of its libraries, extensions and tests runs `fail_action`, whichever
    environment declared it.
  - A validated module has no failing target. Every installed file is under
    `install`, every test under `test`, and the Python library, extension and
    wrapper are default targets.

Violation runs. Each finds a disagreement with the spec or with a comment; see
`findings` in `PROJECT.json`.

| Run | Property | What TLC finds |
|---|---|---|
| `starting_model_stale` | `ReprRowsNameOwnModel` | Files A, B, A on one component. `assign_model_details` keys by `(comp, pdbname)`, so the first A fragments name the third model (line 1104). |
| `pdb_fragments_unmerged` | `AdjacentSameVariantMerged` | `_PDBFragment.combine` is `pass` (335), so `[1,1]` and `[2,2]` of one file stay two fragments. The spec's example merges them. |
| `starting_model_details` | `DetailsWritten` | One MODELLER file with no `REMARK 6 TEMPLATE` line, then `flush`. `get_sources` falls through to `None` (1090), so `dump_details` raises TypeError on `for source in model.sources`. |
| `cif_value_unreadable` | `RowsReadBack` | A loop row holding an empty string. `_repr('')` is `''` (100), so the row is one token short and the reader shifts the next values into its column. |
| `model_assembly_stale` | `ModelAssemblyIsModeled` | `add_model` before the first non-modeled component keeps the complete assembly (1582). |
| `struct_asym_written` | `StructAsymWritten` | `create_component(c1, True)` with no `add_component_sequence`, then `flush`. `StructAsymDumper` looks up `entities[comp]` (316) and the flush stops with KeyError after `_entity` was written. |
| `scons_late_invalidate` | `InvalidModuleBuildsNothing` | Without the contract: `validate`, `IMPHeaders`, `invalidate`. The headers stay under `install` for a module that is invalidated (353); the code detects only a missing call (177). |

Each violation run asks one question, and its trace shows that one finding.
Three more defects were met while modelling. Each would need a run of its own, and
each is listed under `hazards` in `PROJECT.json` instead:

- `TemplateSource.get_seq_id_range` (461-463) can give `seq_id_begin > seq_id_end`.
  `SourceRange` computes the intersected range of every template row, but no run
  checks it.
- `_repr` of a string holding both quote kinds is Python's `repr` (108). That form
  backslash-escapes the single quotes, and CIF has no escapes. `CifWriter` models
  the escaped token as unreadable (`Escaped`). Its length is counted as one
  backslash whatever the number of single quotes. No run passes such a value.
- `create_component` sets `chains[name] = len(chains)` without checking that the
  name is new (1475), so a re-created name shares its chain id with the next new
  component. `Components` reaches this only with `Recreate = TRUE`. Every cfg sets
  `Recreate = FALSE`, so it is checked nowhere. `EntitiesBySequence` and
  `RowsReferenceAssigned` are proved for both values.

Every property of a passing run has a mutant in `PROJECT.json`. The mutant replaces
one mapped definition by a plausible bug, and TLC finds the property violated. The
mutants are:

- details in equality;
- a dropped membership test;
- an unkeyed group memo;
- dump without `get_all_group`;
- merging of non-adjacent beads;
- the starting model keeping its own dataset object;
- an off-by-one width test;
- no separating space;
- no sequence deduplication;
- an unregistered modeled assembly;
- the `install` alias added without testing `VALIDATED`;
- the test aliases given the name `install`.

### Bounds

The bounds reach every branch of the code:

- **Registry.** Three objects suffice for an equal pair plus a third dataset
  registered after a group was taken. Three classes cover a deduplicated class,
  a second deduplicated class, and an opted-out class (EMDB). Two attribute values
  and two `details` values make equal datasets with different details.
- **Representation.** Three fragments over three files:
  - one file of each header class;
  - two residue ranges, so that both adjacent and non-adjacent fragments occur;
  - two templates, given out of order, so that the sort matters;
  - one of them outside the model's range.
- **Writer.** Three columns and two rows of two loops. The values have lengths 39
  and 40 (two plus a space reach 80 and 81), a quoted value of 8 characters, and a
  value of 141 characters (three text-field chunks).
- **Components.** Five calls. That reaches a split of the assemblies after a model,
  a cross-link on a registered dataset, and a flush.
- **SCons module.** Five pseudo-builder calls, besides `validate`/`invalidate`.
  That reaches two derived environments with targets in each, an extension whose
  install depends on its build, and every builder after either outcome. The late
  invalidate run needs three steps. The proof covers every number of calls.

### Fairness

None is assumed, and no liveness property is stated. The exporter is a
single-threaded batch: every operation is a synchronous call made by the caller's
script, and nothing happens unless the caller calls. Deadlock is checked in every
run except the `CifWriter` and `SConsModule` ones. Those say `CHECK_DEADLOCK FALSE`
because the program stops there too. The writer stops when the caller has written
its rows: once `MaxRows` rows are written and the loop is closed, no step is
possible. A SConscript stops after its last call (`MaxCalls`) or after
`env.Exit`.

## Proofs

Four modules hold theorems, all checked by `tlapm`.

`DatasetMemoProofs` holds the lemmas about the `get_all_group` memo that the
registry and the components proofs share: `GroupsMatch` (memo group `j` has id
`j`, counts at most the current number of entries, and holds the first `count`
entry objects), `AppendKeepsMatch`, `AllGroupsAfterMatch` and `PrefixKeys`. They
are stated for any set of objects. The memo operators live in their own module,
`DatasetMemo`, because `Components` and `Representation` reach the registry
through `INSTANCE DatasetDumper`, and `tlapm` cannot use a theorem through a named
instance. With the operators in a module that both sides extend, one proof serves
both.

`DatasetDumperProofs` proves these theorems for every value of the constants (any
classes, opted-out subset, attributes, details and bound):

- `TypeCorrect`: `Spec => []TypeOK`.
- `RegistryIdentity`: `Spec => [](NoDuplicateDatasets /\ HeldRefsResolve)`. These
  are the deduplication and the identity of returned objects that the
  `dataset_registry` run checks on a small instance. `Deduplicates` restates the
  first half on its own.
- `GroupsSnapshot`: `Spec => []GroupsAreSnapshots`.
- `DumpComplete`: `Spec => DumpListsEveryDataset`, the action property that every
  `dump` step lists the id of every object `add` returned.

Assumptions: `KindsAssumption` (`DupKinds \subseteq Kinds`) and
`MaxObjsAssumption` (`MaxObjs \in Nat`).

`HeldRefsResolve` alone is not inductive. An `add` that finds an equal entry hands
out that entry's stored object, so the proof must know two things: the stored
objects carry their own index as id, and no held object is one not yet created.
The inductive invariant is

`IInv == TypeOK /\ EntriesConsistent /\ HeldCreated /\ NoDuplicateDatasets /\ HeldRefsResolve`

where:

- `EntriesConsistent`: entry `i` stores the same object as key and value, that
  object has id `i`, and it was created;
- `HeldCreated`: every held object was created.

`InitIInv` shows that `Init` implies `IInv`. `NextIInv` shows that every step keeps
`IInv`, with one lemma per action; `AddIInv` splits on whether an equal entry
exists. The theorem follows by `PTL`.

`GroupsAreSnapshots` is not inductive either: it speaks of groups handed out, but
whether the next `get_all_group` hands out a correct group depends on the memo.
The strengthening is `GInv == TypeOK /\ GroupsConsistent /\ HeldGroupsConsistent`:

- `GroupsConsistent` (`GroupsMatch`): memo group `j` has id `j`, counts at most
  the current number of entries, and its members are the first `count` entry
  objects;
- `HeldGroupsConsistent`: every handed-out group is still in the memo with the
  count it was handed out with.

`AllGroupsAfterMatch` says what bringing the memo up to date does. `PrefixKeys`
turns `GroupsMatch` into the property's wording. `DumpComplete` then needs only
one step lemma, `DumpListsHeld`: in a state of `IInv` and `GInv`, `dump` lists the
id of every held object. It follows from `HeldRefsResolve` and is lifted to the
temporal formula by `PTL`.

`ComponentsProofs` proves `EntitiesDeduplicated`: `Spec => []EntitiesBySequence`
for every set of components and sequences and every bound. This is the property
the `components` run checks. Its inductive invariant `EntityMapperConsistent`
says that `_EntityMapper._sequence_dict` and the entity list are inverse (entity
`e` is registered for its sequence, and each registered sequence names an entity
with that sequence), and that every mapped component maps to the entity of its
current `sequence_dict` entry. The property alone is not inductive because it
says nothing about sequences registered but not yet reused. The step proof has
two cases for `add_component_sequence`: a known sequence reuses its entity, and
a new sequence is appended with id `Len + 1`, which no registered sequence names.
Every other action leaves the four variables unchanged. The dict assignment
`d[k] = v` is written `DictSet(d, k, v)` in `Components` rather than with TLC's
`:>` and `@@`. The prover cannot expand those, and the `Functions`/`TLC` modules
that define them reach recursive operators.

`ComponentsProofs` also proves `RowsReferenced`: `Spec => []RowsReferenceAssigned`,
the second property of the `components` run, for every set of components, files
and bound. The rows of the last flush must name records that exist, but the
property alone is not inductive: it says nothing of the models, protocols and
cross-links stored for the next flush. The inductive invariant is
`RInv == EntityMapperConsistent /\ Numbered`, where `Numbered` adds:

- `ComponentsShape` and `RegistryShape`: the types of the dumpers' lists and of
  the registry (seen through the instance `DS`);
- `RegistryHeld`: every entry stores its own object, every object handed out is
  some entry's, and the memo satisfies `GroupsMatch`;
- `RecordsNumbered`: every stored model names an existing assembly, protocol and
  model group; every protocol step names a memo group; every cross-link's dataset
  is an object the registry handed out.

`InitRInv` and one lemma per action (`CreateNumbered` ... `FlushNumbered`) give
`NextRInv`. The flush lemma follows the dumpers in their order: the rows of a
category are written only if no earlier category raised (`DumpsBeforeFailure`),
so a written `struct_asym` or `cross_link_list` row implies that every component
it names has an entity. `DumpListsHeldObject` shows that the registry's `dump`,
which `flush` reaches whenever the cross-link rows are written (its dumper runs
after the assembly dumper and before the cross-link dumper), lists every dataset a
cross-link names. `RegistryHeld` is
re-proved here for the instance from the memo lemmas, not taken from
`DatasetDumperProofs`, for the instance reason above.

`SConsModuleProofs` proves `BuildsFollowValidity`:
`ASSUME Contract PROVE Spec => [](InvalidModuleBuildsNothing /\ ValidModuleBuildsEverything)`.
This holds for every `Cpp`, `PythonOn` and `MaxCalls` (`ConstantsAssumption`).
`ValidBuildsEverything` restates its second half on its own.
These are the two properties that the `scons_module` run checks. The
`scons_late_invalidate` run shows the `Contract` hypothesis is needed.

The inductive invariant `IInv` says:

- validity is settled before the first target or derived environment exists;
- the module environment is one of three records (unset, validated with real
  commands, or invalidated with `fail_action`);
- every derived environment equals the module environment;
- every target names an existing environment and dependency, and a test target's
  builder is the module's current one (`TargetsWellFormed`);
- an unvalidated module has no `install`/`test` alias and no default;
- a validated module satisfies `ValidModuleBuildsEverything`.

The second and fourth points are what the properties alone lack: a property says
nothing about the environment a future target will be declared in.
`DeclareIInv` is the lemma shared by every builder. A step that appends targets
keeps `IInv` when the new targets are well formed and placed. `AliasAllLemma`
says what `_add_all_alias` adds once validity is settled. There is one lemma per
pseudo-builder. `NextIInv` combines them, and the theorem follows by `PTL`.

Left to TLC only:

- all properties of `Representation` and `CifWriter`, which use `FoldLeft`,
  `FlattenSeq` and `SetToSortSeq`. Those are recursive operators of the community
  modules, and the prover loses its SMT backend in any module that reaches one;
- anything about what a recursive definition computes for every input.

## Not modelled

- **`dump_coords`, `get_model_mode`, atom and sphere rows, `add_cross_link`
  restraint rows.** They read the IMP hierarchy (coordinates, residue types)
  rather than state kept by the exporter.
- **EM2D/EM3D, post-processing, ensembles, `add_replica_exchange_analysis`.**
  They read result files with `open()` and number records with `len(list)`. The
  registry behaviour they rely on (EMDB datasets with `allow_duplicates`) is
  modelled through `DupKinds`.
- **Software, citations, chem_comp, struct_conf, `write_comment`.** Pure
  formatting.
- **In `imp_module.py`:** the darwin `install_name_tool` post-actions (they rename
  library ids, not which targets build), the file generators `action_config`,
  `action_version_info` and `action_link_test`, the unit-test action and emitter,
  and `IMPModuleAbout` (description strings).
- **The other `src/` files.** Tests and build tools of other IMP modules.

Hazards with no property are listed in `PROJECT.json` with the reason. They include:

- residue number 0 in a cross-link;
- a malformed MODELLER header;
- `keys()[:]` under Python 3.

## Plan for the remaining work

1. Model `add_cross_link` with its restraint rows and the `ModelDumper` sphere rows.
   They need an abstract hierarchy.
2. Add an abstract specification of the writer: the reader's view as a sequence of
   rows. Show `CifWriter` to implement it under a refinement mapping, for the value
   class without the two failing cases.
