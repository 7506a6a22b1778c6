---------------------------- MODULE SettingsFill ----------------------------
(***************************************************************************)
(* The Host's default-level fill (src/host/settings.ts): a watcher that    *)
(* gives every model without `reasoningEfforts` the default level set.     *)
(*                                                                         *)
(* The settings service is external.  Its document is one variable `doc`;  *)
(* a write of another client lands in one step (EditLands) and raises the  *)
(* change event from inside that step.  The fill's own write is submitted  *)
(* in the step that read the document and lands in a later one, because    *)
(* the service runs writes one at a time (`hmr.runExclusive`) and the fill *)
(* is triggered while another write holds the transaction open.            *)
(*                                                                         *)
(* Data: a level set is "none" (missing), "default" or "custom"; an entry  *)
(* the user's layer does not carry is "absent".  One route stands for all: *)
(* its `models` array is written whole, its `modelOverrides` one leaf at a *)
(* time, which is the difference the fill turns on.                        *)
(***************************************************************************)
EXTENDS Naturals

CONSTANTS
  Models,         \* entries of the route's `models` array
  Overrides,      \* keys of the route's `modelOverrides`
  BaseOver,       \* BaseOver[o]: the override a lower layer supplies
  MaxFillPasses,  \* MAX_FILL_PASSES, the passes of one chain
  MaxRetries,     \* attempts after the first one of the startup chain
  MaxEdits,       \* bound: edits of other clients
  MaxFaults       \* bound: writes of the fill refused or lost by the service

Level == {"none", "default", "custom"}
Entry == Level \cup {"absent"}

ASSUME BaseAssumption == BaseOver \in [Overrides -> {"absent", "none", "custom"}]
ASSUME BoundAssumption ==
  /\ MaxFillPasses \in Nat \ {0}
  /\ MaxRetries \in Nat
  /\ MaxEdits \in Nat
  /\ MaxFaults \in Nat

VARIABLES
  doc,       \* the user layer: the array, the overrides, the switch
  ready,     \* "unwritable", "unreadable" (registers late), "ready"
  writes,    \* the fill's writes submitted and not yet landed
  alive, inFlight, queued, passes,   \* the closure variables of the watcher
  outcome,   \* what the running pass returned, "pending" while it awaits its write
  startup,   \* the startup chain (schedule / tryOnce)
  retries,
  verdict,   \* the outcome the startup chain's promise settled with
  missed,    \* history: the pass budget discarded a trigger, or the section
             \* registered with no startup attempt left to see it
  faults     \* refused and vanished writes so far

hostVars == <<doc, ready>>
chainVars == <<inFlight, queued, passes, outcome>>
startVars == <<startup, retries, verdict>>
vars == <<hostVars, writes, alive, chainVars, startVars, missed, faults>>

\* `edits` is history: how many writes of other clients the document has taken.
Doc == [list : [Models -> Entry], over : [Overrides -> Entry],
        autoFill : BOOLEAN, edits : 0..MaxEdits]

\* `seen` is history: the document's `edits` when the fill read it.
Write == [list : [Models -> Entry], setsList : BOOLEAN,
          over : SUBSET Overrides, seen : 0..MaxEdits]

Returned == {"filled", "settled", "retry"}
Outcome == Returned \cup {"pending", "threw"}

TypeOK ==
  /\ doc \in Doc
  /\ ready \in {"unwritable", "unreadable", "ready"}
  /\ writes \subseteq Write
  /\ alive \in BOOLEAN
  /\ inFlight \in BOOLEAN
  /\ queued \in BOOLEAN
  /\ passes \in 0..MaxFillPasses
  /\ outcome \in Outcome
  /\ startup \in {"armed", "awaiting", "resuming", "settled", "exhausted", "stopped"}
  /\ retries \in 0..(MaxRetries + 1)
  /\ verdict \in Returned \cup {"threw"}
  /\ missed \in BOOLEAN
  /\ faults \in 0..MaxFaults

Init ==
  /\ doc \in [list : [Models -> {"absent", "none"}],
              over : [Overrides -> {"absent", "custom"}], autoFill : {TRUE}, edits : {0}]
  /\ ready \in {"unwritable", "unreadable", "ready"}
  /\ writes = {}
  /\ alive = TRUE
  /\ inFlight = FALSE /\ queued = FALSE /\ passes = 0 /\ outcome = "settled"
  /\ startup = "armed" /\ retries = 0 /\ verdict = "retry"
  /\ missed = FALSE
  /\ faults = 0

----------------------------------------------------------------------------
(* One pass: fillDefaults up to its `await mutate`.                        *)

\* The user's own array entries that lack a level: the only ones an array
\* write can give one.
MissingModels(d) == {m \in Models : d.list[m] = "none"}

\* A dict merges over the lower layer, so an override either layer declares
\* can be filled unless one of them already states a level.
MissingOverrides(d) ==
  {o \in Overrides : /\ d.over[o] \in {"absent", "none"}
                     /\ BaseOver[o] # "custom"
                     /\ ~(d.over[o] = "absent" /\ BaseOver[o] = "absent")}

Unfilled(d) == MissingModels(d) # {} \/ MissingOverrides(d) # {}

\* A mutant of FillOps: a level of the user's own is taken for a missing one.
FillOpsResettingLevels(d) ==
  [list |-> [m \in Models |-> IF d.list[m] = "absent" THEN "absent" ELSE "default"],
   setsList |-> MissingModels(d) # {},
   over |-> MissingOverrides(d), seen |-> d.edits]

\* fillProviderDefaults: the array restated whole with the missing levels
\* added, and one leaf per override.
FillOps(d) ==
  [list |-> [m \in Models |-> IF d.list[m] = "none" THEN "default" ELSE d.list[m]],
   setsList |-> MissingModels(d) # {},
   over |-> MissingOverrides(d), seen |-> d.edits]

\* A mutant of IdleVerdict: an unreadable section counts as nothing to do.
IdleVerdictSettling(d, r) == IF r = "unwritable" THEN "retry" ELSE "settled"

\* What a pass that submits no write returns.
IdleVerdict(d, r) ==
  IF r = "unwritable" \/ (d.autoFill /\ r = "unreadable") THEN "retry" ELSE "settled"

\* fillDefaults against document d in host state r.
StartPass(d, r) ==
  IF r = "ready" /\ d.autoFill /\ Unfilled(d)
    THEN /\ writes' = writes \cup {FillOps(d)}
         /\ outcome' = "pending"
    ELSE /\ outcome' = IdleVerdict(d, r)
         /\ writes' = writes

----------------------------------------------------------------------------
(* runFill                                                                 *)

BeginChain(d, r) ==
  /\ StartPass(d, r)
  /\ inFlight' = TRUE
  /\ queued' = FALSE
  /\ passes' = 0

\* A mutant of RunFill: the second trigger is missed instead of queued.
RunFillDropping(d, r) ==
  \/ inFlight /\ UNCHANGED <<chainVars, writes>>
  \/ ~inFlight /\ BeginChain(d, r)

\* A mutant of RunFill: a trigger does not look at `inFlight`.
RunFillUnguarded(d, r) == BeginChain(d, r)

\* A trigger that arrives while a chain runs is queued into it.
RunFill(d, r) ==
  \/ /\ inFlight
     /\ queued' = TRUE
     /\ UNCHANGED <<inFlight, passes, outcome, writes>>
  \/ ~inFlight /\ BeginChain(d, r)

\* A mutant of ChainAgain: the loop does not look at `alive`.
ChainAgainDisposed == queued /\ passes + 1 < MaxFillPasses

\* A mutant of ChainAgain: the budget is not consulted.
ChainAgainUnbounded == alive /\ queued

\* The condition of the do-while loop, passes having been incremented.
ChainAgain == alive /\ queued /\ passes + 1 < MaxFillPasses

\* A chain's promise settles with result v: the startup chain resumes if it
\* awaits that promise.
Settle(v) ==
  IF startup = "awaiting"
    THEN startup' = "resuming" /\ verdict' = v
    ELSE UNCHANGED <<startup, verdict>>

\* `await fillDefaults` returns: run the queued pass, or finish the chain.  A
\* trigger queued past the budget is discarded.
PassEnds ==
  /\ inFlight
  /\ outcome \in Returned
  /\ \/ /\ ChainAgain
        /\ queued' = FALSE
        /\ passes' = passes + 1
        /\ StartPass(doc, ready)
        /\ UNCHANGED <<inFlight, startup, verdict, missed>>
     \/ /\ ~ChainAgain
        /\ queued' = (queued /\ ~alive)
        /\ missed' = (missed \/ (alive /\ queued))
        /\ inFlight' = FALSE
        /\ passes' = 0
        /\ Settle(outcome)
        /\ UNCHANGED <<writes, outcome>>
  /\ UNCHANGED <<hostVars, alive, retries, faults>>

\* The awaited write was refused: the chain rejects and `finally` clears
\* inFlight; a queued trigger stays unserved.
PassThrows ==
  /\ inFlight
  /\ outcome = "threw"
  /\ inFlight' = FALSE
  /\ Settle("threw")
  /\ UNCHANGED <<hostVars, writes, alive, queued, passes, outcome, retries, missed, faults>>

----------------------------------------------------------------------------
(* The startup chain: schedule(500), then tryOnce every two seconds.       *)

TimerFires ==
  /\ startup = "armed"
  /\ alive
  /\ RunFill(doc, ready)
  /\ startup' = "awaiting"
  /\ UNCHANGED <<hostVars, alive, retries, verdict, missed, faults>>

\* tryOnce after its `await runFill()`.
TryOnceResumes ==
  /\ startup = "resuming"
  /\ \/ /\ verdict \in {"filled", "settled"}
        /\ startup' = "settled"
        /\ UNCHANGED retries
     \/ /\ verdict \in {"retry", "threw"}
        /\ ~alive
        /\ startup' = "stopped"
        /\ UNCHANGED retries
     \/ /\ verdict \in {"retry", "threw"}
        /\ alive
        /\ retries' = retries + 1
        /\ startup' = IF retries + 1 <= MaxRetries THEN "armed" ELSE "exhausted"
  /\ UNCHANGED <<hostVars, writes, alive, chainVars, verdict, missed, faults>>

\* The effect's disposer: the timers and the listeners go.
Dispose ==
  /\ alive
  /\ alive' = FALSE
  /\ startup' = IF startup = "armed" THEN "stopped" ELSE startup
  /\ UNCHANGED <<hostVars, writes, chainVars, retries, verdict, missed, faults>>

----------------------------------------------------------------------------
(* The settings service and the other clients.                             *)

\* A write as the service applies it: the array replaced, the leaves set.
Apply(w, d) ==
  [d EXCEPT !.list = IF w.setsList THEN w.list ELSE @,
            !.over = [o \in Overrides |-> IF o \in w.over THEN "default" ELSE @[o]]]

\* The event of the fill's own write: its chain is still in flight, so the
\* trigger is queued.
OwnEvent == queued' = (IF alive THEN TRUE ELSE queued)

\* The fill's write lands; its event is raised from inside the write.
WriteLands(w) ==
  /\ doc' = Apply(w, doc)
  /\ writes' = writes \ {w}
  /\ outcome' = "filled"
  /\ OwnEvent
  /\ UNCHANGED <<ready, alive, inFlight, passes, startVars, missed, faults>>

\* The service accepts the write, raises the event and shows no change.
WriteVanishes(w) ==
  /\ faults < MaxFaults
  /\ faults' = faults + 1
  /\ writes' = writes \ {w}
  /\ outcome' = "filled"
  /\ OwnEvent
  /\ UNCHANGED <<hostVars, alive, inFlight, passes, startVars, missed>>

WriteRefused(w) ==
  /\ faults < MaxFaults
  /\ faults' = faults + 1
  /\ writes' = writes \ {w}
  /\ outcome' = "threw"
  /\ UNCHANGED <<hostVars, alive, inFlight, queued, passes, startVars, missed>>

\* What another client may make of the document in one write.
Edited(d) ==
  {[d EXCEPT !.list[m] = e] : m \in Models, e \in {"absent", "none", "custom"}}
  \cup {[d EXCEPT !.over[o] = e] : o \in Overrides, e \in {"absent", "none", "custom"}}
  \cup {[d EXCEPT !.autoFill = ~@]}

\* Another client's write lands and raises the event, which reaches the
\* listener only while it is subscribed.
EditLands ==
  /\ doc.edits < MaxEdits
  /\ \E d \in Edited(doc) \ {doc} :
       /\ doc' = [d EXCEPT !.edits = @ + 1]
       /\ \/ alive /\ RunFill(doc', ready)
          \/ ~alive /\ UNCHANGED <<chainVars, writes>>
  /\ UNCHANGED <<ready, alive, startVars, missed, faults>>

\* The section registers late and raises no event.
SectionMaterializes ==
  /\ ready # "ready"
  /\ ready' = "ready"
  /\ missed' = (missed \/ startup \notin {"armed", "awaiting"})
  /\ UNCHANGED <<doc, writes, alive, chainVars, startVars, faults>>

----------------------------------------------------------------------------
Fill == TimerFires \/ PassEnds \/ PassThrows \/ TryOnceResumes

Service == \E w \in writes : WriteLands(w) \/ WriteVanishes(w) \/ WriteRefused(w)

Next == Fill \/ Service \/ Dispose \/ EditLands \/ SectionMaterializes

Spec == Init /\ [][Next]_vars

\* Timers fire, continuations run and the service answers every write; other
\* clients, the disposer and the late registration owe nothing.
FairSpec == Spec /\ WF_vars(Fill) /\ WF_vars(Service)

----------------------------------------------------------------------------
(* Properties                                                              *)

\* Two triggers never write the same fill: at most one write is outstanding,
\* and only while a chain awaits it.
SingleFlight ==
  /\ \A v, w \in writes : v = w
  /\ writes # {} <=> (inFlight /\ outcome = "pending")

\* A fill write that no other client overtook changes nothing but entries that
\* lack a level, and gives those the default: no level of the user's is
\* replaced, no entry appears in or leaves the array.
FillOnlyAddsMissing ==
  [][\A w \in writes :
       (doc' = Apply(w, doc) /\ doc' # doc /\ w.seen = doc.edits) =>
         /\ \A m \in Models : doc'.list[m] # doc.list[m] =>
              doc.list[m] = "none" /\ doc'.list[m] = "default"
         /\ \A o \in Overrides : doc'.over[o] # doc.over[o] =>
              doc.over[o] \in {"absent", "none"} /\ BaseOver[o] # "custom"]_vars

\* Once the effect is disposed no pass reads or writes again: the only write
\* that may still land is the one already submitted.
NoWriteAfterDispose == [][~alive => (writes = {} => writes' = {})]_vars

\* The startup chain stops with the verdict "settled" only when the document
\* nobody else touched has every level the fill could give it.
SettledMeansFilled ==
  (startup = "settled" /\ doc.edits = 0 /\ faults = 0) => ~Unfilled(doc)

\* Why a level may stay missing for good: the plugin is gone, the user switched
\* the fill off, the section is not readable or became so after the startup
\* chain, the service failed a write, or the pass budget discarded a trigger.
Excused ==
  \/ ~alive \/ ~doc.autoFill \/ faults > 0 \/ missed
  \/ ready # "ready" \/ startup = "exhausted"

\* Every edit that leaves a level missing is answered by a fill, however it
\* interleaves with the passes already running.
FillConverges == []<>(~Unfilled(doc) \/ Excused)

\* README.md: "Adds `off`, `high`, and `max` without overwriting custom values".
CustomNeverOverwritten ==
  [][doc'.edits = doc.edits =>
       /\ \A m \in Models : doc.list[m] = "custom" => doc'.list[m] = "custom"
       /\ \A o \in Overrides : doc.over[o] = "custom" => doc'.over[o] = "custom"]_vars
=============================================================================
