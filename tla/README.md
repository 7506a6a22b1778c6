# dsh-thinking-effort: specifications, model checking and proofs

TLA+ specifications of the parts of the plugin whose correctness depends on
order: several processes (the Host, one or more Client windows, other plugins)
write one revisioned settings document, and every component reads it, waits,
and acts on what it read. Paths below are relative to the repository.

| Module | Models | Checked by | Proved in |
|---|---|---|---|
| `SettingsFill` | the Host's default-level fill, `src/host/settings.ts` | `MCSettingsFill` | `SettingsFillProofs` |
| `LegacyMigration` | the Host's legacy-data watcher, `src/host/legacy-watcher.ts`, `legacy-apply.ts`, `legacy-scan.ts` | `MCLegacyMigration` | `LegacyMigrationProofs` |
| `LegacyPrompt` | the startup prompt, `src/client/components/LegacyMigrationModal.tsx` and `src/client/legacy-migration.ts`; extends `LegacyMigration` | `MCLegacyPrompt` | `LegacyMigrationProofs` |
| `SectionSave` | one save of the settings panel, `src/client/section-editor/use-save-queue.ts` | `MCSectionSave` | `SectionSaveProofs` |
| `TakeoverObserver` | the takeover observer, `src/client/takeover-runtime.ts` | `MCTakeoverObserver` | `TakeoverObserverProofs` |
| `SelectionDirectory` | the model selection overlay, `src/compat/model-selection-directory.ts`, with its resolver and the model seat | `MCSelectionDirectory` | `SelectionDirectoryProofs` |
| `ImportPlan` | what an import plans, as operators: `src/client/config-snapshot/plan.ts`, `wiring.ts` | (used by the next two) | (used by `ConfigImportProofs`) |
| `AtomicImport` | abstract: what an import promises of the settings | refined by `ConfigImport` | `ConfigImportProofs` |
| `ConfigImport` | the backup card and `applySnapshot`, `src/client/config-snapshot/apply.ts` | `MCConfigImport` | `ConfigImportProofs` |
| `SessionFormatter` | value cache, mints and script loader, `src/host/opencode-session-format.ts` | `MCSessionHeader` | `AgentRequestProofs` |
| `SessionHeader` | streams and the patched fetch, `src/host/opencode-session.ts`; extends `SessionFormatter` | `MCSessionHeader` | `AgentRequestProofs` |
| `AgentPolicies` | compaction and the subagent's effort and route, `src/host/compaction.ts`, `src/host/subagent.ts` | `MCAgentPolicies` | `AgentRequestProofs` |
| `GatewayCompat` | gateway compat fields, as operators: `src/compat/gateway` | (used by the next two) | (used by `SettingsPageProofs`) |
| `PanelDrafts` | drafts, reads and saves of the panel, `src/client/SectionEditor.tsx`, `section-editor/`; extends `GatewayCompat` | `MCSettingsPage` | `SettingsPageProofs` |
| `SettingsPage` | the panel beside the format card, `src/client/components/OpenCodeFormatCard.tsx`; extends `PanelDrafts` | `MCSettingsPage` | `SettingsPageProofs` |

`PROJECT.json` maps every definition to the lines it models and lists the runs,
the mutants, the hazards, the findings and the theorems.

To repeat a run: `tlc -workers 2 -config MCSettingsFill.cfg MCSettingsFill`. To
repeat a proof: `tlapm SettingsFillProofs.tla`.

## 1. Inventory

What each part keeps, does, and shares with the others; what is hard about it;
what makes it correct.

**Settings service (external).** The application's settings document: one
section per namespace with a revision. `describe` samples it; `mutate` applies a
list of ops in one step, refuses them when the caller's `expectedRevision` is
not the section's, and raises the change event from inside the write.
`hmr.runExclusive` runs Host writes one at a time. A *config form* is a second
write path with a revision of its own and a bare boolean for an answer. Both are
modelled from how `src/` uses them, and are marked external in the map.

**Host default-level fill** (`src/host/settings.ts`). Closure state: `alive`,
`retries`, `inFlight`, `queued`, the current promise. Triggers: the startup chain
(`schedule`/`tryOnce`), the change event, which the fill's own write also raises,
and disposal. Hard: the document moves between the read and the unfenced write;
the fill triggers itself; a trigger arrives inside a running pass; the section
registers late and raises no event. Correct when: one write at a time, only
missing levels written, every trigger ends in a filled document, nothing runs
after disposal.

**Host legacy-migration watcher** (`src/host/legacy-{watcher,apply,scan}.ts`,
`src/compat/legacy-migration.ts`). Persisted state: the control object in the
plugin's section (`pending`, `signature`, `dismissedSignature`, `decision`,
`lastResult`) and the rollback copy. Closure state: `inFlight`, `queued`, the
pass and its budget. Talks to the Client through the section only. Hard: a pass
awaits documents and writes while the user edits and decides; restarts before
the section is published; refused batches; bursts of events past the budget.
Correct when: only what the user left unset is offered, a migration can be
undone, the offer declined last stays declined, a decision no write races is
answered.

**Legacy shape tables** (`src/host/legacy-shape.ts`). Static data and a pure
walk.

**Legacy-migration prompt** (`LegacyMigrationModal.tsx`, `src/client/legacy-migration.ts`,
the rescan button of `ConfigBackupCard.tsx`). State: a phase, the copy of the
offer it carries, a poll. Hard: reads answer out of order and after the phase
they were made for; the Host re-arms another offer between the read and the
click; the Host never answers. Correct when: only the offer on screen is
dismissed, a postponed prompt stays closed, the dialog never stays disabled.

**Settings panel and save queue** (`SectionEditor.tsx`, `section-editor/*.ts`,
`model-ops.ts`, `shared/conflict.ts`). State: inventory, drafts, views and
revision of one read; `busy`. Operations: save a model, apply a preset, save a
provider's leaf, reload, each over the direct transport or a config form, with
one rebuilt retry. Hard: the array is written whole; the revision and the array
can come from different reads; a form's FALSE may stand for a write that landed.
Correct when: a save changes only what it says, and a stale panel can still save.

**Takeover observer** (`takeover-runtime.ts`). State: `active`, `sequence`,
`mutationGeneration`, `pendingRefreshGeneration`, and the store. Wraps the
settings API that panel, card and prompt share, so descriptions and writes
overlap. Correct when: the store never shows settings from before an accepted
write, nor goes back to an older request, and is republished after each write.

**Model selection directory** (`src/compat/model-selection-directory.ts`,
`model-directory.ts`, driven by `thinking-slider/slider.tsx`). State:
`confirmed`, `observed`, `ignoredPending`, `active`, `generation`,
`projectionRevision`, `selectionError`. An overlay over the application's model
directory and the session's projection. Hard: overlapping selects and projection
frames settle in any order; the projection goes silent for a while; the
application's directory stays stuck on a call whose transport failed. Correct
when: the seat never falls back to the global default, never goes back to an
older selection, never shows as pending what nothing will settle, and ends at the
Host's selection.

**OpenCode session formatter** (`src/host/opencode-session-format.ts`). State:
an LRU of values, minted values that are never evicted, a slot per script.
Hard: two requests meet a changed script at once and share one load; the
configuration changes while a script loads; a mint must survive the cache.
Correct when: an answer is what the configuration of its call makes of its
session, with one mint for ever, and an edited script is taken up.

**OpenCode session header** (`src/host/opencode-session.ts`). State: the
settings' snapshot, an async context per stream and a patched `fetch`. Hard:
disposal while streams are open and another patch lies over this one. Correct
when: nothing is injected once it has been disposed.

**Config snapshots** (`src/client/config-snapshot/*.ts`, `ConfigBackupCard.tsx`).
An import describes once, writes a rollback copy, then its sections one after the
other, each fenced. Hard: a section refused after another landed; the copy
itself moves a section's revision; two imports overlap; local wiring has to
survive any chain of imports. Correct when: each section goes from what it holds
to what the plan makes of that, the copy undoes the import, and what the card
reports of it is true.

**Settings panel, its drafts and the format card** (`section-editor/state.ts`,
`views.ts`, `SectionEditor.tsx`, `OpenCodeFormatCard.tsx`). State: a view and
drafts per field, marks of what was edited, `busy`; the card's `saved` and
`draft`. One document is behind both, and each re-reads when the other wrote.
Hard: a re-read lands between an edit and its save, or between a save and its
answer; `busy` is cleared by any read. Correct when: an edit stays until it is
saved, a save writes edits only, an apply reported as saved is stored, and the
controls come back.

**Compaction policy** (`src/host/compaction.ts`, `src/shared/compaction.ts`). A
pre-step listener that reads the policy, awaits the model's window, measures and
replaces a range. Hard: the cut must not part a tool call from its results;
messages are queued meanwhile; every failure must let the turn go on.

**Subagent effort and route** (`src/host/subagent.ts`). Two listeners. Hard: the
effort has to be resolved for the model the route leads to.

**Gateway compatibility fields** (`src/compat/gateway/*`). Tables and
projections; the panel offers, reads and writes through them. Hard: one field
that is not offered makes the service refuse a whole batch.

**OpenCode expressions** (`src/compat/opencode-expression.ts`), **legacy shape
tables** (`src/host/legacy-shape.ts`), **version and settings-model detection**
(`src/compat/version-*.ts`): synchronous computations over text and tables.

**Slider, UI, locales, theming**: rendering and local state.

## 2. The models

Every module keeps the control of its component and reduces the data to what the
properties tell apart. An asynchronous call is split where it can be interleaved:
sent, applied or sampled by the service, answered.

### SettingsFill
`doc` is one route: an array `list`, written whole, and overrides `over`, written
leaf by leaf, with levels `none`, `default`, `custom`. `RunFill` is `runFill`:
queue into the running chain or start one. `StartPass` is `fillDefaults` up to
its `await mutate`; `WriteLands`, `WriteVanishes` and `WriteRefused` are the
service's answers; `PassEnds` and `PassThrows` the rest of the loop and its
`finally`; `TimerFires` and `TryOnceResumes` the startup chain. `EditLands` is
any other writer, and may land between the read and the write because the write
is unfenced. `SectionMaterializes` raises no event, as in the code's comment.
Of the promise chains only what a step can observe is kept: `outcome` is what
the running pass returned, `verdict` what the startup chain was told.

### LegacyMigration
`section` and `legacy` (the stranded documents) are persisted; the rest dies in a
`Crash`. A pass goes `scanning`, `applying`, `publishing`, `ended`: `StartPass`
is its one read of the section (`before`, `ownLayer`), `ScanEnds` the scan and
the decision table (`AnswerMigrate`, `AnswerScan`, `Reconcile`), `ApplyLands` and
`ApplyRefused` the batch, `PublishLands` and `PublishRefused` the control write.
A signature is represented by the candidate set it digests. `PassEnds` is the
coalescing loop with its budget and the re-kick. `Start` is `apply()`: a deferred
kick and an immediate run, with the section published or not yet; the timer
fires either way. `ScanMissesDocuments` finds any part of what there is, as a
scan does that could not read some of the documents. `declined` is a history:
what the last dismissal that landed was about.

### LegacyPrompt
Extends `LegacyMigration` with the modal: `PollTick`, `ReadSampled`,
`ReadAnswers` (a read carries the phase it was scheduled for, as the closure
does), `Commit`, `CommitLands`, `CommitRefused`, `Later`, `PollEnds`. Revisions
matter only through the service's comparison, so a copy carries `fresh`: no write
has landed since it was read. One commit is under way at a time, since the phase
that sends it shows no buttons. A read is taken to answer before the same phase
polls again. After a refused decision the phase keeps the copy it sent, as the
`catch` does, so another attempt from it is refused as well until a read replaces
it.

### SectionSave
`doc` is a models array (which models, their levels and context windows), one
leaf, and a revision. `save.base` is the copy the ops are built from and `Fence`
the revision a write is compared with. `Conflicts`, `Rereads` and `Retry` are
`run`'s one retry over a rebuilt array; `RetriedOrReported` is the difference
between the transports: a form's FALSE is retried whatever it means, the
service's other errors are reported. `OthersWrite` is any other writer,
`FormFollows` the form re-reading the section. Every save of the panel that is
modelled supplies `rebuildOps`; saves that do not are left out, and `busy` keeps
one save under way.

### TakeoverObserver
`reads` and `writes` are the calls under way; the service samples and answers
them in any order. `Publishes` is the decision of `publish`, `MutateAccepted`
what `mutate` does once its answer is in, `DescribeRejects` its `catch`. A
resolution is the revision it was sampled at; how it is computed is left out.

### SelectionDirectory
`host` is the sequence of selections the Host has had for the session; `seen` is
the one the last frame told of. Frames come in order and may be skipped
(`missed`), and stop altogether in a `gap`. `up` is the application's directory:
its pending selection, its status, and its newest call, whose answer alone it
applies. `Select` is `select` up to its await, `Resume` what follows;
`ProjectionChanges` and `DirectoryChanges` are the two listeners, run inside the
steps that notify them. `generation` is represented by the call whose generation
it is (`operation`), `projectionRevision` by whether it moved since (`reframed`).
A call is the overlay's own or another consumer's; a transport failure of the
latter is left out. `Replace` is the resolver building a new overlay.

### ImportPlan, AtomicImport and ConfigImport
A section is a dictionary of items, each with a capability and a piece of
wiring (endpoint, credential, script), and an effort. `PlanImport` gives the
operations of an import for each section: the wiring of the importing machine is
put into what comes in unless the user opted in, and replacing removes what the
file lacks. `ConfigImport` runs it: `ImportReads` the one describe, `CopyLands`
and `CopyRefused` the rollback copy, `WriteLands` and `WriteRefused` each section
under the revision of that read or of the copy's own write, `ImportThrows` a
call that throws, before or after a write took effect, `ImportEnds` the report. A
file is previewed, or fails to (`FileFails`), whenever it has been read, also
during an import. The card's own edits and refreshes share `busy`. `AtomicImport` knows sections, the snapshots offered, and a count of
import writes; `ConfigImport` implements it with `offered` mapped to the files of
its imports and the other variables to themselves.

### SessionFormatter and SessionHeader
A value is represented by what it is made from (generator, session, mint,
version of the script). `FormatHits`, `FormatComputes` and `FormatAsksScript` are
`format` up to its first await; `StatAnswers`, `ImportLands`, `JoinResumes` and
their failures are `loadScript`, whose slot the calls share. The clock is a
number of steps up to the interval. A block is minted of a reading of the clock
(`Moments`), which two sessions may share; `first` is a history of the first one
of each. The script's import is cached by its
version, as the module URL carries the time of the last modification.
`SessionHeader` adds the streams, the storage, the patched `fetch` and its
disposal; a `Fetch` is a formatter's call on behalf of a stream.

### AgentPolicies
One agent. The surface is a sequence of kinds of node, with a price each.
`PreStep`, `WindowAnswers` and `BackendAnswers` are `handlePreStep`, split at its
awaits; `Cut` is `selectCompactableRange`, with `Open` for `balanceCuts`; both add
up along the surface (`Total`).
`Created` and `Request` are the subagent's listeners: on a host with a model
selection the route and then the effort are written at creation, and the Host may refuse
either (`refused`); on others the effort is written at each request. `PolicyFrom` is `compactionPolicyFrom` with the shipped defaults.
Ratios are hundredths of the window.

### GatewayCompat, PanelDrafts and SettingsPage
A cell is a value the panel edits. `doc` holds the cells and the route's
protocol, `panel` the copy, drafts, marks and `busy`. Reads (`ReadSampled`,
`PanelReads`, `CardReads`) and saves (`Send`, `SaveLands`, `SaveAccepted`) are
calls under way; `Rebuilt` is the projection every one of them runs, `Kept` what
it leaves alone. `PanelReadsWithout` is a description that lacks the shared
section: the rows go, with the edits in them (`Rowless`), and until it comes back
no row can be edited. `Apply`, `ApplySampled`, `ApplyWrites`, `ApplyLands` and
`ApplyAccepted` are the card's apply, which describes again and fences its write
with that; `since` is a history of the fields drafted anew during its write;
`Blocked` is the validation that disables its button. `Unusable` is a
draft a save of a leaf refuses before it begins. How a save gets past a conflict is `SectionSave`'s matter: here it
lands on what the document holds, or is refused. Of the gateway's fields four
kinds stand for the eighteen. The values are trimmed ones: a `validate` of blanks,
which the card writes as the empty one, is the empty one.

## 3. Runs

All runs exhaust their state space; no state constraint and no symmetry is used.
`CHECK_DEADLOCK FALSE` everywhere: once the bounds of the environment are spent
the systems are quiescent by design.

| Run | States | Shows |
|---|---|---|
| `settings_fill` | 0.7 M | one write at a time; a fill no edit overtook adds only what is missing; "settled" means filled; the fill converges; nothing is submitted after disposal |
| `custom_never_overwritten` | - | violated: see Findings |
| `legacy_migration` | 1.4 M | one chain, no swallowed wakeup; real offers, reversible migrations, the last declined offer silent across restarts; a decision no write races is answered |
| `legacy_prompt` | 0.9 M | a dismissal silences what was shown; later is sticky; a submission ends |
| `section_save` | 4.4 M | copies are true; a save built from its own fence changes only its own; a stale panel can save |
| `takeover_observer` | 0.4 M | own writes are seen, publications are in order, every write is followed up |
| `selection_directory` | 0.55 M | no dead pending, no fall back to the default, no going back, convergence to the Host |
| `config_import` | 3.6 M | the refinement of `AtomicImport`; a lone import's copy undoes it; one reported as applied left nothing of its file to import; local wiring stays |
| `session_header` | 0.9 M | each answer is its configuration's; the cache and the blocks; nothing injected after disposal unless another patch covered this one; an edited script is taken up |
| `stops_injecting` | - | violated: see Findings |
| `agent_policies` | 0.8 M | a pass replaces the longest safe prefix; requests carry the configured effort and route unless refused; the turn goes on |
| `settings_page` | 0.6 M | edits are kept but for three cases, saves write edits, no refusable batch, what is reported as applied is stored, the page settles |

Bounds, and why they are enough:

- `SettingsFill`: 2 array entries and 2 overrides, one of them declared by a
  lower layer, give every combination `fillProviderDefaults` tells apart. The
  budget is 3 passes (5 in the code): one to write, one for the event of that
  write, one to be exhausted by an edit. `MaxRetries` 2 (5 in the code) gives a
  first, a middle and a last retry. 2 edits let one overtake a write and one
  arrive in the pass that follows. 1 fault.
- `LegacyMigration`: 2 paths, so that offers can be empty, partial and complete;
  a budget of 2 passes (5 in the code); 2 decisions, 1 edit, 1 change of the
  documents, 1 fault, 1 crash, in any order.
- `LegacyPrompt`: the same Host without edits and crashes (both are covered by
  the run above, and the prompt meets the Host only through the section), 1
  decision, 2 reads per polling phase (15 in the code).
- `SectionSave`: 2 models (one edited, one bystander), 2 saves (a second one
  from the panel the first left behind), 3 writes of others (before the save,
  between refusal and re-read, between re-read and retry), 1 transport fault.
- `TakeoverObserver`: 2 descriptions and 2 writes, so that two refreshes and two
  plain descriptions are in flight at once, and 2 foreign writes.
- `SelectionDirectory`: 3 selections, of the session's model and of the global
  default; 2 calls, 1 foreign change and 1 gap, reset or replacement: enough for
  an older answer, a frame and a newer call to overlap, and for a selection to
  come back.
- `ConfigImport`: 1 item with two capabilities and two wirings in each section, 2
  imports (so that they overlap and a restored copy replaces another), and 1
  foreign write, edit of the card or lost answer.
- `SessionHeader`: 2 sessions over a cache of 1 value (4096 in the code), so that
  every switch evicts; 2 fetches, so that loads overlap and join; an interval of
  one clock step; 2 moments to mint a block of, so that sessions share one or do
  not; 1 edit of the script, of the settings or of the patches, to a
  script whose `format` throws.
- `AgentPolicies`: surfaces of up to 7 nodes over a window of 13 tokens, which
  give passes with nothing to compact, with one or two open tool calls at the
  cut, and over a summary of an earlier pass; 2 models, policies of defaults, of
  a model's own and none, 1 settings change.
- `SettingsPage`: a yes-or-no and a number field of the provider under two
  protocols, a leaf of a row and one of none, the switch, 2 fields of the card; 2
  edits, 2 saves or applies, 1 step of the others or 1 description without the
  shared section.

The theorems of section 5 hold for all values of these constants.

### Fairness

Weak fairness, and only of what the runtime owes: timers fire, continuations of
settled promises run, the settings service and the file system answer, the
process is started again and its section is published. Nothing is assumed of
users, other clients, disposal, faults or, in `SettingsFill`, the late
registration of a section. `SectionSave` has no liveness property and no
fairness. In `TakeoverObserver` every description answers or is rejected by its
connection; writes may stay unanswered. In `SelectionDirectory` calls are
answered, answers reach their callers, and the projection catches up.
`ConfigImport` has no liveness property and no fairness. In
`SessionHeader` file operations answer and time passes. In `AgentPolicies` the
Host goes on with its own steps and each await is answered. In `SettingsPage` the
service answers and the page takes its answers.

### Exceptions the properties state

- `FillOnlyAddsMissing` speaks of a write no edit overtook; what happens
  otherwise is the finding `custom_never_overwritten`.
- `FillConverges` is excused by `Excused`: disposal, the switch turned off, a
  failed write, an exhausted startup chain, a discarded trigger past the budget,
  or a section that registered after the startup chain. The last two are real
  limits of the code, which the run would expose without the excuse.
- `OfferIsReal` and `MigrationIsReversible` except a pass that an edit landed in
  (`overtaken`).
- `DismissedStaysSilent` speaks of the last dismissal that landed: the control
  object has room for one signature.
- `DecisionAnswered` speaks of a decision no control write is racing (`Owed`), and
  is excused when another decision replaces it, when a write is refused, by disposal,
  and by a startup timer that fired before the section was published.
- `SavesOnlyItsOwn` excepts the first attempt through a form.
- `SeatConverges` excepts a skipped frame (`missed`): a value that comes back
  unseen cannot be told from an echo. `RetainedThroughGaps` excepts a new
  connection and a replaced directory, which make the overlay forget.
- `RollbackRestores` speaks of an import nobody else wrote beside, and of settings
  the present version writes (`Restorable`): a provider without a single field is
  left out of the wiring that is restored (`wiring.ts:120-121`), and an effort
  left in the older section after it moved is restored into the newer one
  (`plan.ts:69`).
- `AppliedMeansImported` speaks of an import that could read the settings and that
  nobody else wrote beside.
- `FormatterTypeOK` says that a session keeps the block first minted for it. It does
  not say that no other session has the same one: they can.
- `InjectsWhileInstalled` excepts streams opened before a disposal that found
  another patch over this one: the patch then stays below it, and their requests
  still get the header, in the default format. That the exception is needed is the
  finding `stops_injecting`.
- `EditsKept` excepts what `lapsed` holds: edits made while a save of the same group
  is under way, those of a batch dropped for a value that cannot be written, and
  those of the rows when a description lacks the shared section. The subagents'
  effort and the switch have no mark, and so no guard.
- `ChildRunsAsConfigured` excepts what the Host refused: with the route the effort is
  given up as well, and a refused effort leaves the child on its route without it.
- `AppliedMeansStored` excepts a field drafted anew during the write (`since`): the
  report is of the draft then on screen.

## 4. Findings

The two that have a run check one statement of a doc or comment and find it
violated:

1. `custom_never_overwritten` - the fill restates the models array from the copy
   it read before awaiting `mutate`, unfenced; a custom level set in between is
   lost, against README.md:76.
2. `stops_injecting` - the disposer takes the patch off only when it is on top
   (`opencode-session.ts:335`), and the patched `fetch` does not ask whether it was
   disposed. A stream opened before goes on sending the header from below the other
   patch, against the title of `tests/opencode-session.test.ts:458`: "restores only
   its own fetch patch and stops injecting after disposal". The test checks that the
   later patch stays in place, and sends no request.

The other places where the code does not do what a comment or doc says, each met
while modelling and most of them shown by TLC on these models, are left as known behaviour; no
property here claims otherwise:

- When the fill's `mutate` rejects, the loop is left with `queued` set and nothing
  starts another chain (`src/host/settings.ts:474`; the comment at 410: "run one
  more when a trigger arrives while a fill is in progress").
- The migration's batch is unfenced and its candidates come from a section read
  before the scan, so a value the user sets meanwhile is replaced
  (`legacy-apply.ts:139`; README.md:220: "it never overwrites one"). The rollback
  copy holds it only if it landed before the copy was built.
- `publish` clears `decision` unfenced, so a decision written while a pass was
  under way disappears unread (`legacy-watcher.ts:209`; the comment at 192-194: "a
  write never loses them"). `DecisionAnswered` leaves it outside its promise.
- One dismissed signature is kept. When a second offer is declined, the first is
  offered again once the documents return to it (`legacy-watcher.ts:355`;
  `tests/legacy-watcher.test.ts:281`: "never asks again for the same offer").
- The startup timer can fire before the section is published; both passes of the
  start then read nothing, and a decision that stood before waits for the next event
  (`legacy-watcher.ts:422`).
- A retried migration is reported as failed by the previous failure, read before
  the Host acted on the retry (`LegacyMigrationModal.tsx:85`).
- A form's first attempt is fenced with the form's revision while its array is
  the panel's, and can drop a concurrent change (`use-save-queue.ts:177`;
  docs/CHANGELOG.md:152).
- When the describe an import starts with is refused, `applySnapshot` answers with
  no outcomes (`apply.ts:52-54`). `ConfigBackupCard.tsx:306-327` finds no failed one
  among them and reports the backup as applied; the comment at 322 takes it that
  "The apply itself succeeded".
- A refresh of the registry clears the backup card's `busy` although an import is
  running, so that a second one can be confirmed (`ConfigBackupCard.tsx:73`). The
  fences keep the settings right (`ImportsAtomically`).
- Two calls that compute a script's value across an edit of it store one after
  the other, so that a cached value changes although the configuration did not
  (`opencode-session-format.ts:454`; README.md:166: "The same DSH session always
  sends the same value").
- Two sessions first used in the same millisecond are minted the same block of 12
  digits (`opencode-session-format.ts:177`, `411`); the digest that follows it still
  tells their values apart.
- When the select of the effort is refused or throws after the route was applied, the
  child runs on its route without the configured effort, and nothing retries it on a
  Host with a model selection (`subagent.ts:230`, caught at 250).
- A description that lacks the shared section empties the rows' drafts and marks, so
  the edits in them are lost (`SectionEditor.tsx:117-122`; the comment at
  `state.ts:79-81`: "so an unsaved edit survives a re-read").
- A field of the format card that is edited during an apply, after a read has cleared
  `busy`, is marked as saved with the rest though it is not stored
  (`OpenCodeFormatCard.tsx:278`); the read that follows takes it for unedited and
  replaces it.
- The format card's apply describes again and writes every field of its draft that
  differs, also one the user did not edit and another window has changed since
  the card's last read (`OpenCodeFormatCard.tsx:262-263`; its comment at 204-210
  says such a write would "silently undo the other write").
- A provider's edit that cannot be written (a fraction where an integer is due)
  drops the whole batch: the marks are cleared without an error, and the next read
  takes the draft away (`SectionEditor.tsx:506-509`; `state.ts:79-81`).
- A read asked for by a card clears the panel's `busy` during a save; an edit made
  then is unmarked when the save succeeds (`SectionEditor.tsx:244-246`, `411-413`).
- What the card checks when Apply is clicked is not what it writes: the draft of the
  moment the describe is answered is written unchecked, and a read or an edit in
  between can have made it one the card refuses (`OpenCodeFormatCard.tsx:263`,
  `406`; `opencode-format-validation.ts:126-127`).
- Changing the global compaction ratios can make a stored override pair one that
  the panel would refuse; `apply*Compat` ask editability without the protocol, so
  an edit made before the route was given another blocks later saves of it.

## 5. Proofs

Every theorem holds for all values of the constants the modules' assumptions
allow: bounds are naturals (a pass budget is at least one), and the data are any
sets of the declared shape.

- **SettingsFillProofs** - `TypeCorrect`, `SingleFlightHolds`,
  `FillOnlyAddsMissingHolds`, `NoWriteAfterDisposeHolds`. The invariant joins the
  type with the tie between `writes`, `inFlight` and `outcome`, and with the
  fact that a write submitted since the last edit is the fill of the document as
  it stands: that is what makes a landing write add and never replace.
- **LegacyMigrationProofs** - `TypeCorrect`, `OneChainHolds`, `OfferIsRealHolds`,
  `MigrationIsReversibleHolds`, `DismissedStaysSilentHolds`. The invariant is the
  type, `OneChain`, and `Fits(pass, section)`: what the running pass holds, as
  long as no edit overtook it, is what the section says, stage by stage; and that
  the signature the section keeps, and the one a pass is about to publish, is that
  of the last dismissal that landed (`declined`; `Remembers`), whatever wrote in
  between. Neither
  of the last three is inductive without it, since what a pass will write was
  decided several awaits earlier.
- **SectionSaveProofs** - `TypeCorrect`, `CopiesTrue`, `SavesOnlyItsOwnHolds`.
  With the type, `CopiesAreTrue` (a copy whose revision is the section's *is* the
  section) and "only a first attempt waits for a retry" are inductive; an
  accepted write then starts from the section itself.
- **TakeoverObserverProofs** - `TypeCorrect`, `OwnWritesAreSeenHolds`,
  `PublishedInOrderHolds`. The invariant says of every description under way:
  one of the current generation was sampled after every acknowledged write
  (`CurrentReadsAreFresh`), and a pending refresh is newer than what the store
  shows (`RefreshIsNewer`).

- **SelectionDirectoryProofs** - `TypeCorrect`, `PendingStaysLive`, `Retained`,
  `NeverBack`: all the safety properties of the run. The invariant follows the
  one call whose generation is current and the newest call of the application's
  directory: what that directory holds as pending is the newest call's, and
  unless it is ignored that call is unanswered, and current if it is the
  overlay's own (`PendingHasCall`); what is confirmed is older than what the
  current call became unless a frame has come since (`ToldBefore`), and was
  selected for the session (`ConfirmedAsked`). None of the three properties is
  inductive without them.
- **ConfigImportProofs** - `Atomic` is the refinement: every step of
  `ConfigImport` is a step of `AtomicImport` or leaves its variables alone.
  `WiringStays` is the action property. The invariant ties each import to the
  settings: as long as a section's revision is the one an import holds as its
  fence, the section is what the import read, and its plan is `PlanImport` of
  that. It holds for the section the rollback copy moved because the copy's own
  write is what the new fence comes from. The lemmas on `ImportPlan` say that a
  plan without the opt-in keeps each item's wiring.
  A second invariant (`CopyInv`) follows the copy in the same way: as long as the
  plugin's section has the revision the import left it with, the copy in it is of
  what the import read. `RollbackRestoresHolds` adds to it that a replacing plan
  with wiring gives back what the file holds, whatever the settings hold
  (`UndoRestores`). `TypeCorrect` also says that an import that reports has an
  outcome for exactly the sections its plan had something for.
- **LegacyMigrationProofs**, beside the prompt - `PromptKeepsTheHost` is the step
  simulation: each step of the prompt and the Host together is a step of the Host
  and its environment, so that what is proved of the watcher holds here too.
  `DismissesWhatWasShownHolds` and `LaterIsStickyHolds` rest on `PromptInv`: a copy
  no write has landed since is what the section says, the stored dismissal is of the
  offer on screen, and what a pass is about to publish carries the declined
  signature over or declines what was shown (`PassIsShown`). Without the last part
  a pass could silence an offer that was armed after the click.
- **SettingsFillProofs**, further - `SettledMeansFilledHolds`: with nobody else
  writing, a document that is not filled keeps the running pass from returning
  `filled` or `settled`, and the startup chain from having been told so
  (`DoneIsDone`).
- **SettingsPageProofs** - `TypeCorrect`, `EditsKeptHolds`,
  `SavesWriteOnlyEditsHolds`, `RefusedOnlyIfMovedHolds`,
  `AppliedMeansStoredHolds`: all the safety properties of the run. The invariant
  says what the marks mean, in both directions: what is marked is the user's last
  edit, an unsaved edit that has not lapsed is marked, and what a save under way
  will unmark is what it was clicked for (`EditsInv`), also while the rows are gone, when nothing in them is marked
  (`RowlessUnmarked`); a field not drafted anew since the write is still drafted as
  it was written (`ScreenHolds`); as long as the protocol has not moved, every view, read and save
  under way is of the one the page began with (`Unmoved`); as long as no revision
  has come between, the section is what the card's apply read (`FenceHolds`).
  Types matter here: that a cell's value is never `None` is what lets an edit be
  told from none (`PageConstants`).
- **AgentRequestProofs** - `FormatterTypeCorrect`, `AnswersItsConfigHolds`,
  `InjectsWhileInstalledHolds`, and `BlocksAreKeptHolds`, that no step changes a
  minted block. The invariant: each cached value is right for its session and its
  fingerprint, one entry a session (`CacheInv`), the first block a session had is the one it has
  (`MintInv`),
  who waits for a load has one under way to wait for (`CallsInv`), and a patch that
  outlives the disposal was covered then (`BridgeInv`). The steps of the cache rest
  on lemmas about `RemoveAt` and `Append`. `ChildRunsAsConfiguredHolds` is
  about `AgentPolicies`, which the module also extends and which shares no variable
  with the header: a selection runs as configured at the time it was made, and the
  last request runs as its selection does (`AgentInv`). `CompactsWhatIsSafeHolds` is
  about the same module, for a surface of any length: what was measured is still
  where the surface starts, a system node stands only there, and the range under way
  is the one `CompactsWhatIsSafe` describes (`CompactInv`). That the code's two walks
  find it rests on lemmas about the operators: a fold over a sequence is the sum over
  its places in whatever order (`TotalSums`, `Stretches`, `TailSum`), the calls
  `balanceCuts` adds up are those without a result (`OpenCounts`), a longer tail is
  worth no less (`TailGrows`), and a walk back ends at the newest place where it may
  stop (`WalkEnds`). What these need by induction is proved from a least
  counterexample among the parts of a finite set (`SetInduction`, `UpTo`), as sets
  can be passed to a lemma and predicates cannot.

Only model-checked: the liveness properties `FillConverges`, `DecisionAnswered`,
`PromptSettles`, `WritesAreFollowedUp`, `SeatConverges`,
`ScriptCatchesUp`, `TurnsGoOn` and `PageSettles`, since liveness under fairness is
beyond the prover; and `StalePanelCanSave`, which is about ENABLED. The invariant `AppliedMeansImported`
is model-checked too. The modules use
no RECURSIVE operators.

The invariants were checked on the instances of the runs before they were proved.
Two changes to the models came out of the proofs. `RollbackRestores` was false for
registries the instance did not contain, and now names what it excepts
(`Restorable`). `Others`, of the formatter's cache, removes one place instead of
filtering the sequence: the code deletes one key, and the proof shows that there is
one.

## 6. What is not modelled, and why

- The content of the legacy tables, of schemas and expressions, the spelling of
  formatted values, the takeover's compiled resolution: pure functions of text
  and tables with unit tests.
- Several routes in one fill, sections that are not records, a service without
  `mutate`: the loop treats them alike or leaves at once.
- The rows' level and context drafts (no read rebuilds them), presets outside a
  save, folding; the panel's two plugin-wide switches; a second apply of the card while
  one is under way.
- A description without the plugin's own section, in the panel and the card.
- The profile list, its limits and the parsing of files; which of several files
  read at once is previewed.
- The `user-agent` override and the ways the settings section is installed.
- Version detection, rendering, locales, theming, pointer input.
- Faults of storage below the settings service, which the code does not handle.

## 7. What could follow

- A save of `SectionSave` and the fenced decision of `LegacyPrompt` as instances
  of one abstract revisioned writer, as `ConfigImport` is of `AtomicImport`.
- `PanelDrafts` over the save queue of `SectionSave` instead of an atomic save.
