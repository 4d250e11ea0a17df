# terrace-config: a TLA+ verification of the loaders, the reload supervisor, the producers and the contract toolchain

terrace-config lets a service publish its configuration surface with its image, loads that
configuration from layered files and variables, rebuilds the running service when the files change,
and gives a chart repository a command line (`terrace-contract`) that proves that what a chart
renders is configuration the pinned image accepts.

This directory models the parts of it whose correctness depends on an order of steps, on
concurrency, on partial failure, on two implementations that must agree, or on an algorithm with many
cases. TLC checks the models on small instances; TLAPS proves the results listed below for every
value of the constants.

## Inventory

| Component | Source | State it keeps | Operations | What makes it hard | What makes it correct |
|---|---|---|---|---|---|
| Reload supervisor | `rust/src/reload.rs` | running configuration and fingerprint, generation token, watcher and its one-slot channel | boot, install the watch, re-read, cancel, drain, rebuild, return | three threads, a debounce timer, a re-read that is not atomic, shutdown and runtime completion racing a change | one runtime at a time; a failed or no-op reload changes nothing; no covered change lost; shutdown reaches every generation |
| Pinning reloader | `rust/src/reloader.rs`, `loaded.rs` | boot values of restart-class paths | capture, pending, apply, differs | trees whose shape changes between boot and reload | a rebuilt service has the boot value of every restart key; what is held back is reported |
| Layered loader, explain | `rust/src/terrace.rs`, `layers.rs`, `dialect.rs`, `provider/`, `explain.rs` | none between loads | collect the layers, refuse shadowed keys, merge, extract, report | four layers, spellings, reserved keys, one key from two mechanisms | the documented precedence; one supplier per key; the report names the layer that won |
| Java loader | `java/terrace-config-loader` | none between loads | the same layering, dialect, explain | a second implementation, on insertion-ordered maps | loads what the Rust loader loads |
| Rust producer | `rust/src/schema/` | none (pure) | describe, refine, condition, observe defaults, reload classes, contract | many refusals, in any order of the author's lines | what is published is what the program meant and what its loader reads |
| Java producer | `java/terrace-config-core`, `-processor` | none | the same from annotated classes | a second implementation | publishes what the Rust producer publishes |
| Portable patterns | `rust/src/schema/pattern.rs`, `PortablePattern.java` | none | parse a pattern | three descriptions of one grammar | all three accept the same patterns |
| Conform, value check | `cli/src/conform.rs`, `value.rs` | none | hold a document, a value | restates the producers' rules | refuses what the format forbids, and nothing the program takes |
| Environment classification, gates | `cli/src/classify.rs`, `gate/`, `k8s.rs` | findings | document gate, container gates | the render hides what the pod sees | an error is real; silence boots |
| Contract union | `cli/src/union.rs` | accumulated document | merge the contracts of several images | conflicting definitions of one key | conflicts are reported, in any order; the merged schema is exact |
| helm check and secrets | `cli/src/helm/check.rs`, `secrets.rs` | reports | which container and which Secret file is judged by whom | two commands share one tree | each file judged once; undelivered credentials exactly |
| Chart declaration | `cli/src/helm/declaration.rs`, `suites.rs`, `effective.rs` | none | read `config-contract.yaml`, show it with its defaults | defaults, refusals, an older second file | the shown declaration means what the written one meant |
| Contract diff | `cli/src/diff.rs`, `diff/`, `helm/diff.rs` | none | grade two revisions, suggest a bump | classification of each change | nothing that breaks a deployment is graded below major |
| Registry carriers | `cli/src/oci/` | remote blobs | fetch, attach, verify by digest | two carriers, platforms, builds at once | a contract is tied to the digest it came from |
| Pull and sync | `cli/src/helm/pull.rs`, `commands/sync.rs` | vendored contracts | refresh, derive | moving pins, a run cut short | a bound contract is the pinned image's |
| Reload class, rollout, restarts | `rust/src/schema/reload.rs`, `cli/src/reload.rs`, `helm/rollout.rs`, `restarts.rs` | generated template | which keys a checksum covers | a mistake strands a change silently | a change rolls the pods or is applied in place |
| Chart file writer | `cli/src/helm/files.rs` | files | write a set of files | partial failure, a kill | all files or none |
| Adopt, shapes, bindings | `cli/src/helm/adopt*`, `shapes*`, `bindings.rs`, `markers.rs`, `regions.rs` | chart files | plan and splice, regenerate blocks, gate | text edits that must read back | an adoption settles; a green gate accounts for every key |
| The rest | see *Not modelled* | | | | |

How they interact: the loader produces `Loaded` (value, `Sources`); the reloader wraps it with pins;
the supervisor calls the reloader through a closure and knows only the `Source` trait; the producer
publishes the reload classes that the pins are captured from; the toolchain reads the published
document through a registry carrier, vendors it into charts, merges the documents of a chart's images,
and gates each render against the result.

## Modules

| Module | Models | Uses |
|---|---|---|
| `ServiceLifecycle` | abstract: what `reload::run` promises its caller | |
| `ReloadSupervisor` | `reload.rs`: the loop, the watch, the debouncer, the runtimes, the mounted directories | refines `ServiceLifecycle` |
| `ConfigTree` | configuration values: find, compare, set, nest, merge; pins | |
| `PinnedReload` | `reloader.rs`, `loaded.rs` and the loading entry points of `terrace.rs` | `ConfigTree` |
| `LayeredLoad` | one service's loads and reports | `ConfigTree` |
| `JavaLoad` | the same service with the Java loader | `LayeredLoad` |
| `KeySpelling`, `ConstraintVerdict`, `Conditions` | how a key is spelled outside the file; the evaluator of published constraints (`check.rs`); conditions between fields | |
| `SchemaProducer` | the Rust producer, line by line of a program | the three above |
| `JavaConstraints`, `JavaProducer` | the same program written in Java, taking every step beside the Rust one | `SchemaProducer` |
| `ValueCheck`, `Conformance` | the consumer's value check and tier 2 of the specification, over what both producers publish | `JavaProducer` |
| `PortablePatterns` | the two pattern parsers and the grammar of FORMAT.md | |
| `ContractUnion` | the merge of contracts and gate 1 | |
| `ContainerGates` | classification, gates 2, 2b and 3, and the boot of the container | |
| `CredentialSurface` | `helm check` and `helm secrets` over a whole chart | `ContainerGates` |
| `Declarations` | `config-contract.yaml`, its enrolment and `config show --chart` | |
| `ContractDiff` | the graded differences and a branch of refreshes | |
| `PublishedImage`, `VendoredContracts` | an image's carriers; builds, pins, tags and `sync` | |
| `Rollout` | published and derived reload classes, restart sets, the gate, the pods | |
| `ChartWrites` | writing a set of files | |
| `ValuesFile`, `ChartBindings`, `Adoption`, `ChartSurface` | values.yaml as lines, the bindings gate, the `@schema` blocks and `helm adopt`, and the life of a chart | |
| `MC*` | the small instances TLC checks | |
| `FoldLemmas` | a fold as a chain of states, and induction on the naturals through sets | |
| `*Proofs` | the theorems and their proofs | `FoldLemmas` |

Definitions keep the source's names where they stand for one function (`Differs` is
`Source::differs_from`, `Apply` is `Pins::apply`, `Expand` is `TomlLayers::expand`); an operator of
the Java side begins with `J`. An operator whose comment begins with "Mutant" is a plausible bug; it
is used by no specification and is there to show that the property it breaks is sensitive to the code
it stands in for. Where a property names a restriction (`Canonical`, `Graders`, `Disputed` ...), the
code and the statement really part ways outside of it: *Disagreements* lists what was found.

### ReloadSupervisor

Four actors interleave. The *environment* updates a mounted directory as a burst: `BeginUpdate` is
the first event, `StepUpdate` makes content visible, all at once (`AtomicSwap`, the `..data` rename
of a volume) or one file at a time. The *debouncer's thread* turns a quiet period into one
notification (`Quiet`) in a channel of depth one, and may die (`WatcherDies`). The *supervisor* is
the caller's boot load, `Watch::install`, and the `select!` loop: `pc` is where it is. A load reads
one key per step (`ReadKey`), which is how `load()` meets a directory that moves underneath it;
`TakeSignal`, `RereadFailed`, `RereadUnchanged`, `RereadChanged` and `Rebuild` are the arms of the
loop. The *runtimes* stop when their token is cancelled (`StopOnToken`), end by themselves
(`EndAlone`), or fail as they start (`Built`).

A configuration is a function from keys to contents; what a value is matters only as far as the
loop tells values apart. `blind` and the field `alone` are history: which changes no watch covered,
and which runtimes ended unasked. Left out: errors of the notify backend other than the death of its
thread, a watched directory that is deleted and created again, and change streams that never pause
for the debounce window.

### ConfigTree and PinnedReload

A value is a function from paths to nodes, so that a table, a leaf and an absent key are distinct
and a pinned path may run through any of them. `SetPath`, `Find`, `SameValue` follow `loaded.rs` case
by case, an empty table left behind included. One action is one whole reload, because what runs
between its steps is `ReloadSupervisor`'s subject. `declared` and `entry` are the two ways to start
that refuse each other. `Exit` restarts the process, the only thing that changes the pins. `Extracts`
stands for `figment.extract::<T>()`.

### LayeredLoad and JavaLoad

A load runs in the code's order: `Begin` lists the fragments, `CollectSecrets` and `CollectFiles` (or
one of the refusals) read and check the secrets directory and the indirections, `MergeFragment` reads
the fragments one by one, `Finish` merges the layers. `Swap` changes the mounts between any two of
them. `Explain` is the report, taken at one instant. A name is the key it spells and its case; a value
is the place it came from, so that the merged tree itself says which layer won.

`JavaLoad` gives a process the Java loader instead: a map keeps the order its keys first came in,
and the environment comes in any order. `deepMerge` and `insertNested` are stated by what they keep,
which is what their recursion comes to, and the loops that fill a map or a tree are folds.
`LoadersAgree` compares the outcome, the values of `ClearPaths` (no other key runs through them),
the report and the watched paths.

Abstractions: variables are leaves; the secrets directory is read in one step, since a torn read of
several files is `ReloadSupervisor`'s subject; figment's search for a relative file in parent
directories is left out.

### The producers, the conformance check and the value check

A program is what its author wrote: the calls the derived code makes (`leaf`, `nested`, `flatten`,
`optional`, `deny`), then refinements and an observation of defaults in the order of the lines, then
the contract. `SchemaProducer` takes one step per line, and `JavaProducer` takes the same step of the
Java program with the same fields, so that every state holds both. JSON values carry their kind;
numbers are doubled so that halves exist. `Valid` in `ConstraintVerdict` is a JSON Schema validator
and is the reference: it is external to the code. An unknown keyword is undecided, and validators may
give it either meaning.

`Conformance` builds the document each producer would publish, its own refusals ignored, and runs
`refusals` over it: the check must refuse exactly what the producers refuse. `ValueCheck` is the
consumer's reading of a text (registry of forms, then literal) and its keyword evaluator, held against
the producer's `ConstraintVerdict`. `PortablePatterns` runs three readings of every pattern of up to
seven characters over a small alphabet: the Rust parser, the Java parser, and FORMAT.md's words.

Restrictions: aliases whose variable is reserved, an optional struct and a reload class cannot be
written alike in both languages (`Sayable`); what `Disputed` and `Overlooked` name is under
*Disagreements*; in `Conformance` the prefix is never empty and externals carry no default. Left out:
merging and taking subsets of schemas, the Markdown and TOML renderings, the size limits of regex
engines.

### ContractUnion and ContainerGates

The union reads up to three contracts one after another into an accumulator; keywords are abstracted
to a bound, a reference, `required` and the open flag, each a representative of how its kind merges.
`ContainerGates` is one container: the gates see a render in which an `envFrom` source, a `valueFrom`
or a volume may be hidden; then `hidden` is settled, and the image's own loader boots on what is
really there (`outcome`). `ErrorsAreReal` and `SilenceBoots` compare the two algorithms. `Refusals` is
the loader as `LayeredLoad` has it, on the pod instead of on a mount, with the refusal of a table where
a field wants a value (`shape`) beside that of a text where it wants one; `PassedOver` is what a boot
leaves lying: a variable or file no key takes, a mount nobody names. Service links and near-miss
suggestions are left out.

### CredentialSurface and Declarations

`CredentialSurface` extends one container to a chart: two images, up to two documents and two values
files, and one workload of two containers. Both commands read the tree and change nothing, so each is
one action. `UndeliveredExactly` says which credentials no pod reads: a reported one reaches none, but
by one of the four ways the scan does not count (`Overlooked`: a map's leaf variables, a ConfigMap's
file, an alias, a document the image does not list); one that is not reported is read, or stands in a
document (`Carried`), or is a file another key's variable names (`Borrowed`). What a pod reads is the
loader of `ContainerGates`, not the scan. `FilesAreReportedOnce` relates the reach of gate 3 in `check`
to the files `secrets` skips.

`Declarations` reads a file as a tree of nodes (a text is opaque, empty or spaces; a dotted path is a
sequence) with every refusal of `parse_declaration` and `load_enrolment`; `ShowChart` writes
`effective`'s output where the files were. `Meaning` is everything the rest of the program reads from
a declaration. About ten thousand files vary each field alone and the groups that are read together.
Left out: the case folding of file extensions, list items that are not scalars, YAML printing.

### ContractDiff

A branch refreshes contracts file by file, bumps the chart's version and is merged; `base` is the
revision merged last. `Breaks` is the reference: a deployment the old image takes and the new one
refuses, for one of the reasons of the gates (`Unknown`, `Misspelt`, `Mislaid`, `Missing`, `Formless`,
`Loose`; the value a key is given is not one of them). `steps` is the largest impact of a refresh and
`returned` whether one took back what one before it did; both are history. Messages are left out.

### PublishedImage and VendoredContracts

A digest names a manifest or an index, whose entries are digests too; documents travel in a layer, as
an attachment, or both. Attachments belong to the digest they were made to: `image attach` takes
whatever digest its reference names, an index or a platform (`Ask`, then `Attach`, with other builds in
between), and discovery looks at the index first and then at its platforms (`Places`, `AttachedTo`), so
one attachment may change what two digests yield (`ReadOf`). Somebody moves pins and tags, and `sync`
refreshes contracts, then what is derived from them; `Killed` stops it anywhere between.

`VerifiedStays` compares what a digest yields before and after an attachment. It names one gap,
`Overtakes`, which the code has (*Disagreements*); without that exception TLC finds the race. Left
out: whiteouts and links in layers, a layer that holds the labelled path and cannot be read
(`carriers.rs`:329 passes over it silently, and an earlier layer's file is taken;
`LayersAssumption`), an OCI layout, where platforms have no attachments (`nested_referrers`,
`oci/mod.rs`:109 and :333), hand edits of a vendored file, the `--check` variants, which run the
same code on a copy.

### Rollout

From the scopes a producer resolves, through the class a consumer derives by FORMAT.md's ordered list,
to the restart set, the gate, and the pods a gated chart runs with. One document, one Secret, one
workload. The annotation hashes nothing, the restart set or everything; an image applies in place
exactly the keys its producer meant (`applies`). Keys delivered by `_FILE` are outside the restart set
by design (restarts.rs:45) and left out. A warning about init containers obliges the chart to hash
everything (`Heeded`).

### ChartWrites

`plan` is chosen once: where each file resolves, which ones lie outside their chart, which paths
exist. The phases are those of `write_all`: resolve all, stage all, rename all; a failed stage
discards, a failed rename discards and restores. Each step has a failing twin, restoring an existing
file is two steps, and `Crash` kills the process anywhere. Permissions and directories created on the
way are left out.

### ValuesFile to ChartSurface

A values file is a sequence of lines, and both the writer that splices and the reader that parses
work on it, so that "it reads back" is checked and not assumed. `Adopt` plans what is owed, where it
goes and every edit; `Rewrite` regenerates the `@schema` blocks (both in `Adoption`); `Release` and
one edit by a person happen in between. An `@schema` block is one line; compact lists and
external-class markers are left out. `Render` is recursive, so nothing is proved here.

## What the runs show

| Run | Instance | Shows |
|---|---|---|
| `supervisor` | 2 keys in 2 directories, either missing at boot; updates that load, fail, do not start or are gone; watcher and runtimes may fail; fair | a covered change is never lost (`NoLostUpdate`), the service ends up on what the files say (`FollowsFiles`), a shutdown brings it down (`ShutdownReturns`), `ServiceLifecycle` is implemented, its fairness included (`KeepsLifecycle`) |
| `pinning` | a type with a live root key and a table with a restart key, its alias and a live key; malformed trees included | restart keys stay at boot, pending is exactly what is held back, `Apply` equals its reference; what runs is a value of the type, and a reload is refused exactly for files no boot takes or live values that break a condition with the boot's (`MixturesExtract`) |
| `loading` | Rust and Java processes; up to two variables in any spelling and order and one environment of three, 15 mounts, one swap | single supplier, precedence, a true report, one outcome in both languages |
| `writes` | 3 files over 2 paths, any of them escaping or existing | all or nothing with every failure; no text lost by a kill |
| `rollout` | 2 containers over 7 images, 2 keys, 3 changes; fair | no gated chart strands a change, published classes are honest, every change arrives |
| `union` | up to 3 of 12 contracts in every order | refused exactly on disagreement, independent of order, and the merged schema passes what every reader takes and nothing one of them refuses |
| `containers` | containers of up to two variables, a document, five clusters; charts and declarations of `MCContainerGates` | the gates' errors are real and their silence boots; Secret files judged once, undelivered credentials exactly; the shown declaration reads back |
| `diff` | about forty contracts one or two edits apart, 2 refreshes, bumps and merges | a branch is graded like its steps unless it goes back; what is let in under one major version breaks no deployment |
| `vendoring` | 7 images and the platforms below them, 2 builds (symmetric), 2 charts, 2 events | what was verified stays but for `Overtakes`, a bound contract is the pinned image's own, one sync settles |
| `producing` | 6 programs, every order of their lines; hand-written constraints, texts and 17 thousand patterns | refusals are certain, refinements and defaults mean what they say, names reach their key, the document says what the keys say, the producers agree, the conformance check is normative, the value check is never stricter than the program |
| `charts` | 10 charts of two documents, two of them with a key bound by two values, a release, a person's edit | green gates account for every key and every transcription, an adoption reads back and settles, a rewriting settles and keeps departures |
| `fatal_build` | two keys in one volume, an atomic swap | expected violation of reload.rs:27: the old runtime is drained before the new one is built, and the new one's failure is returned |

### Bounds, and why they are enough

`MaxUpdates = 2`: an update in progress and one more are what it takes for an event to arrive while
the one before is being served; a third repeats that, because the channel holds one notification.
Two restart paths in one table (a key and its alias) are the smallest type in which setting one path
back can disturb another. For the loaders, the keys `a` and `a.b` cut through each other, `file`
ends like an indirection, `config` is reserved; two variables in either order give every pair of
suppliers; `a.b`, `a` and `a.c` in this order drop a table and make it again over a lower layer,
which is what two cannot do; and `MaxSwaps = 1` separates any two steps of a load. Three files over
two paths give a duplicate target and a failure before, at and after it. `MaxChanges = 3`: a change,
a rebuild and the change back. `MaxItems = 3` images: an accumulator that already merged two meets a
third. `MaxRefreshes = 2` and `MaxVersion = 1`: a branch has a middle, and versions below and above
1.0 occur. `MaxEvents = 2`: a pin moves and a tag moves between two runs of `sync`. `MaxReleases =
1`, `MaxEdits = 1`: a writer runs before and after each. Two variables and a volume hold every pair
of suppliers of a key, and a pod of two containers is where one command must know what the other
looked at. `MaxDepth = 6` and `MaxNesting = 3` exceed the depth of every constraint and program; in
`PortablePatterns` `MaxLength = 7`, `MaxGroups = 2` and `MaxCount = 4000` admit every construct of
the grammar beside another and a count on both sides of the format's limit. All bounds appear in
guards or in the sets of inputs only. Deadlock is not checked where the system stops: a service
returns, a load is refused, a command ends.

### Fairness

`FairSpec` of the supervisor assumes weak fairness of its own steps (the executor polls a ready
future), of `Quiet` (the debouncer's timer), of `StepUpdate` (an update that has begun is completed)
and of `Stop` (a cancelled runtime stops, the contract `build` documents). Nothing is assumed of
updates beginning, runtimes ending alone, failures or the shutdown. `LiveSpec` of `Rollout` assumes
that Kubernetes rolls a changed pod template (`Roll`), that the kubelet refreshes a mount that is not
frozen (`KubeletSync`), and that a running supervisor rebuilds (`Rebuild`), which `FollowsFiles`
shows.

## What is proved

Every theorem is about a specification with arbitrary constants, under the assumptions named, which
TLC evaluates on the instances. Each invariant below was checked by TLC before it was proved.

- `ReloadSupervisorProofs`, from `ConstantsAssumption`. `TypeCorrect`: `TypeOK` with `Started` (a
  supervisor in its loop has built a runtime). `AtMostOneRuntime`, `ComparedWithRunning`,
  `NeverStoppedInVain`: only the latest runtime serves, and it is stopped only for a loadable, different
  successor. `CoveredChangesAreRead`: for each key a difference between the last read and the file is
  accounted for by an event, a notification, an unread key, or an update that is not complete.
  `ImplementsLifecycle`: every step maps to a step of `ServiceLifecycle` or a stutter.
- `PinnedReloadProofs`, from `PinsAssumption`, `TreesAssumption` (what a file holds is a tree) and
  `ClashesAssumption` (a condition is about leaves): the invariant ties the pins to the boot, and
  the sources to the last load (`PendingReported`, `SameFilesNeverRebuild`). `RestartKeysStay`:
  every restart key holds its boot value at every generation. A pin is a leaf at boot and no pin
  runs through another key, so setting one back leaves the others alone, in whatever order;
  `SetBack` says what a tree is once the pins of a set were set back, and the chain of `Apply` goes
  through such trees (`SetsOneBack`, `AppliesAll`). `ApplyIsReference` and `OtherKeysFollow`: the
  result is the reference tree, and the keys that share no path with a pin are what the files hold.
  `MixturesAreValues`: every leaf of the pinned tree is the boot's or the files' (`MixtureOfTwo`),
  so it is a value of the type unless these two break a condition together (`LoadedExtracts`).
- `LayeredLoadProofs`, from `LayersAssumption`. `NeverSuppliedTwice` (the check and the merge use one
  read) and `ExplainNeverFailsAlone`. `TheHighestLayerWins`: `Says` relates a tree to the keys it was
  made of and to what the last supplier of each said; a merge of two trees says what both say, with the
  upper one's word (`MergeSays`), so each layer does (`ChainSays`), and so does the whole (`Layered`).
  `TheReportIsTrue`: `Truthful` says of every step of a load without a swap that what it holds is what
  the report reads. `TheLoadersAgree`, of the Java loader: on trees `deepMerge` and `insertNested` are
  figment's merge (`DeepMergeIsMerge`, `InsertIsMerge`), a map filled in a loop holds the last value of
  each key (`GathersAll`, `LastKept`), and so the file layers of both languages, whatever order the maps
  have, are made of the same keys and values (`FilesSay`); two trees that say the same have one value
  of every key that no other cuts through. `JavaTruth` says where the Rust loader would be at each step
  of a Java load without a swap.
- `ChartRepositoryProofs` holds what a chart repository relies on, in four parts.
  - *The writer*, from `N \in Nat`: `WriteTypes`, `AllFilesOrNone`, `KilledWritesCanBeFinished`,
    `EscapesStopTheWrite`, `TemporariesAreRemoved`. The invariant says for each phase which paths can
    have changed; the kept originals are those from before the write because staging ends before the
    first rename.
  - *The diff*, from `BranchAssumption` and, of `Published` contracts, `RevisionsAssumption`: a
    variable the loader reads itself is external to nothing, ignored by nothing and no key's but a
    reserved one's, and that key has no file, which the producers ensure (`schema/mod.rs`:1249,
    `schema/contract.rs`:1280) and `conform.rs`:170-340 holds every document to.
    `BranchMajorMeansMajor`: a comparison below major says that nothing was taken away (one lemma
    per part of a contract), and then no reason of `Refused` is new (`Mild*`, one lemma per reason).
    `BranchStepsAddUp`: the grade of two comparisons in a row is at least that of their ends
    (`*Chain`, one lemma per part), unless the second returns what the first withdrew; so each
    file's change since the base stays within `steps` (`BranchInv`).
  - *The gates*, from `GatesAssumption`: a published surface (`WellSpelt`: each key its own names, no
    file for a reserved key, one variable for the secrets directory) and a pod the API server admits
    (`Mountable`). `SilenceIsABoot`: without a finding the container is `Quiet`; what the render shows
    is what the pod holds (`ShownEnvironment`, `ShownIsGiven`), every supplier of the loader is one the
    gates counted (`PlainIsSupply`, `SecretIsSupply`, `IndirectionIsSupply`) and the other way round
    (`SuppliedIsRead`), so none of the loader's reasons holds. `ErrorsMatter`: one lemma per error
    shows what it costs on every cluster, a refused boot or something passed over.
  - *The two commands*, from `SurveyAssumption` (a document binds contracts the chart vendors; its
    contracts and pods are as above). `SecretFilesAreReportedOnce`: `LineIs` says which files are a
    line of `secrets`, `GatedIsOfAContainer` which are findings of gate 3, and the reach that one
    command passes to the other makes them disjoint and complete. `CredentialsAreAccounted`: what the
    scan counts of one container the loader reads there or finds under another key (`CountedIsRead`),
    what the loader reads the scan counts or is `Uncounted` (`ReadIsCounted`), and the ledger adds that
    up over containers, renders and contracts (`ContainerLedger`, `RenderLedger`, `CredentialIs`).
- `RolloutProofs`, from `RolloutAssumption` and `ReservedAssumption`. `ChartStrandsNothing`: of
  honest images. `Covered`: the gates and the generated set leave no key of an answered chart out of
  both the digest and the in-place reload. `Held`: a process holds what the digest covers, unless it
  takes it in place, since only a new pod or a rebuild changes it. `PublishedImagesAreHonest`
  discharges that hypothesis for every image that `Publish` made from some scopes, in whatever
  order, and for images of later producers, in words this consumer does not know.
  `PublishedImagesStrandNothing` joins the two.
- `VendoredContractsProofs`, from `LayersAssumption`, `EntriesAssumption` and
  `AttachmentsAssumption`: `BoundContractsArePublished`. The invariant is that every vendored file
  was proven for the digest it names when it was written; images do not change under their digest,
  so it stays so. `VerifiedDocumentsStay`: a digest's attachments only grow at their ends, so the
  place discovery finds stays the one it finds (`FirstAnswers`), and of two attachments there it
  reads none (`TwoAreRefused`), unless a build attaches at a place before it; and what the image
  itself holds is never replaced, because the carriers must agree (`EmbeddedIsRead`). `SyncSettles`
  is the action property: a refresh writes what the first entry of a file pins, and so does every
  other entry, because two images for one file are refused.
- `ContractUnionProofs`, from `UnionAssumption` and `ContractsAssumption`. `UnionOfList`: merging a list
  succeeds exactly when no two of its contracts disagree, and then the accumulator is described by the
  set of them (`IsUnion`): the schema of a key holds the least bound, the reference and the strictness
  all agree on, and an entry is required if one requires it. `TheRefusalIsExact`, `TheOrderDoesNotMatter`
  and `TheGateReadsForEveryImage` follow, the last with what a schema accepts unfolded once per keyword.
- `FoldLemmas` holds only lemmas. `FoldIsChain`: a fold is the last of a chain of states each made
  from the one before, and `NatSetInduction` gives induction for sets of naturals. An induction over
  data is done here by naming the set of the positions up to which the claim holds; the library's
  induction theorems, which take the claim as an operator, cannot be used.

Some of these have no run, because the theorem covers more than the instance would: the type
invariants, `BranchInv`, `OneRuntime`, `SourcesAreRunning`, `StoppedForCause`, `EscapeChangesNothing`,
`NothingLeftBehind`, `ReportIsPermissive`, `NoRebuildWithoutChange`, `LiveKeysFollow`, and `UnionOfList`,
which is about every list.

The hypotheses of these theorems are necessary, not convenient. With any conjunct of `Canonical`,
`Accuses`, `IndirectionShown`, `FullyShown` or `Graders` dropped, or a disjunct of `Overlooked`,
`Carried`, `Borrowed` or `Returns`, or `Overtakes` itself, TLC finds an instance of
`MCContainerGates`, `MCContractDiff` or `MCVendoredContracts` on which code and statement part;
*Disagreements* says where. The one exception is the conjunct that no alias is of a reserved key:
the proof needs it for a file the render hides, and the instances have none.

Only model-checked, and why. Liveness, and the fairness part of `KeepsLifecycle`, are beyond the
prover. The invariants of `producing` and `charts` are about definitions recursive over the data (a
schema in `ConstraintVerdict`, `ValueCheck` and `Conformance`, the values tree in `Render`, a pattern
in `PortablePatterns`): those modules declare RECURSIVE operators, for which the prover has no
backend, and the claims themselves would need induction over that data. `ShownReadsBack` is about every
file `Declarations` can read; its nodes mix texts, sequences and records, and a proof needs them
wrapped in a common shape first.

## Disagreements

Between the code and what its documents or its other half say, met while modelling. `fatal_build` is a
run; the others are recorded here and excluded by a named restriction.

- `reload.rs`: a second swap during a re-read makes a mix live until the next re-read (:62 says the
  debounce removes torn reads); a runtime that returns while a change is re-read is replaced (:120,
  :126); a change between the boot load and the watch is not seen (:109); restart keys alone do rebuild
  when they arrive in a table that did not exist (`docs/RELOAD.md`:124).
- `explain.rs`:126: the effective layer is not the one in force when a higher layer supplies a key
  above it. `schema/reload.rs`:141: a document at the default, relative path has no parent to watch.
- `diff.rs`:62 grades a withdrawn ignore pattern minor, while variables it covered are then refused;
  a key without a file that becomes reserved and a key's own condition are not graded; a new loader
  variable outside the namespace is minor (`diff/sections.rs`:263), though where unknown names pass
  a chart may set it for something else (`Graders`). A fifth gap is outside the model, whose
  deployments use canonical names only: a lost alias is minor (`diff/keys.rs`:26), though it is a
  property of the published schema (`schema/json_schema.rs`:302), so that a document written under
  it is then refused. Withdrawing a pattern or an external variable and putting it back are minor
  each way, and their sum over a branch can be major (`returned`).
- The gates accuse what works: gate 2b wants a required credential that stands in the document, which
  the loader takes, and a reserved key there, since it never counts a variable it classed as the
  loader's; gate 2 reports a malformed external variable, which the loader does not read; gate 3
  calls a file unread that a `valueFrom` or an unrendered `envFrom` source may name (`Accuses`,
  `IndirectionShown`).
- They are silent on what does not: gate 2 takes `<map>__leaf_FILE` for a leaf of the environment, so
  that neither its path nor its double is looked at (`leafFiles`); a spelling in other letter case is
  not seen at all, and is not in the instances. `schema/json_schema.rs`:32 says the loader flags a document
  that sets a reserved key; it keeps the key's variable out of the layers (`terrace.rs`:441) and takes
  what the document says.
- `union.rs`:333 ranks a policy it does not know above `reject`, but gate 2 (`gate/container.rs`:264)
  reports nothing under it; of two it does not know, the first listed stays, so there the order matters
  (`Unordered`).
- `union.rs`:465 drops the `additionalProperties: false` of an element; `classify.rs`:43 does not
  consult aliases, though the loader reads them (`Canonical`).
- `image.rs`:185 refuses a second contract because a digest with two has none a consumer can trust, and
  `carriers.rs`:139 calls the choice between the index and a platform a real one. A build asked about
  a platform looks at that manifest alone, and one asked about an index looks at a moment: an attachment
  to an earlier platform, or to the index after its platforms gained one, comes first in discovery, and
  an index verified for one document yields another without a word. An image that embeds its document
  is safe (`Overtakes`).
- `subPath` is known to `rollout.rs`:202-235 only. The gates (`gate/container.rs`, `k8s.rs`) take a mount
  for the whole object whatever its `subPath`, and so does the cluster here: a mount of one file under
  another name or of a directory of the volume is not in the instances.
- `adopt/write_offs.rs`:198 does not see that a write-off is scoped, so only an unscoped chart settles
  in one adoption; `regions.rs`:141 ends a compact list early.
- `value.rs`:394 lists `minProperties` and `maxProperties` but asserts neither. `conform.rs` rule 2
  overlooks a pattern that lies within the prefix and an exact ignore of a declared variable
  (`Overlooked`), which its comment and FORMAT.md:640 include; a key reachable only by an alias is
  published with a null variable and then refused (`AliasOnly`); rule 6 reads only `default_value`.
- `declaration.rs` catches a key written off twice only at one scope: an unscoped entry and one scoped
  to a document give it two reasons there. An older enrolment's entry for an undeclared document is
  dropped without a word.
- `secrets.rs`: a dynamic map supplied by leaf variables, or by a ConfigMap's file in the secrets
  directory, is reported undeliverable though the loader reads it (:604); the credentials of a document
  that does not bind are still reported when another one binds (:774); a file read only through
  `_FILE` under a name no contract spells is reported unclaimed (:677); a values file exempt from
  gate 3 leaves a stranger file to neither command (:755). A Secret's file under a credential's name
  counts as its delivery when a `_FILE` variable names it, though that variable may be another key's
  (:692, `Borrowed`); a document mounted by an image that does not list it, and an alias, count for
  nothing (`Overlooked`).
- Java: keys that cut through each other load by the order of the environment; the report runs under
  the loader's policy; an unreachable indirection is never refused, an exact ignore of a declared
  variable is accepted, a `Set` publishes no `uniqueItems`, reload classes are not published
  (`Disputed`, `Sayable`).

## Plan

Done: the loaders, the supervisor, the producers and their consumer checks, the union, the gates, the
credential surface, the declaration, the diff, the carriers, the rollout, the writer, adoption and
shapes. What a next extension would take up, in this order: the generation of the suites' cases
(`testgen.rs`, `suites.rs` build, sync and orphans) against the gates that run them; the scope and
coverage checks; `init` and `migrate`; merging and subsets of schemas in the producers. Next to prove:
`ShownReadsBack`, over nodes of one shape; then the producers' refusals, once `ConstraintVerdict` bounds
its schemas by a rank and needs no recursive operator.

## Not modelled

The derive macro and the annotation processor's emitter (code generation), the renderings of contracts
(Markdown, TOML, JSON text; held by golden files), the tables of `readme` and `explain`, the suites'
generated cases, the scope and coverage checks, `init`, `migrate` and the generic patch format (text
from text), the Spring Boot bridge and the Gradle plugin (framework wiring), the test kit and the
testing sandbox (its volume shapes are the environment actions here), `validate` (one call of a JSON
Schema library), repository settings, argument parsing and reports. Regular expressions are matched by
their engines: a pattern is a named language here, and only its syntax is modelled.
