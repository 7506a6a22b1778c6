----------------------------- MODULE PanelDrafts -----------------------------
(***************************************************************************)
(* The unsaved edits of the settings panel (src/client/SectionEditor.tsx,  *)
(* section-editor/{state,views,open-code-session,subagent}.ts): the reads  *)
(* that rebuild its drafts and the saves that settle them.                 *)
(*                                                                         *)
(* A cell is one value the panel edits: a compat field of the provider or  *)
(* of the model, in the shared section, or a leaf of the plugin's own      *)
(* section: a model's compaction ratio, the subagents' route and effort,   *)
(* the session switch.  The drafts of a row's levels and windows belong to *)
(* no read and are left out.  How a save gets past a conflict is           *)
(* SectionSave's: here it lands on what the document holds by then, or is  *)
(* refused.                                                                *)
(*                                                                         *)
(* `busy` disables the controls, but not for as long as a save is under    *)
(* way: any read that lands clears it, also one that a card asked for.     *)
(***************************************************************************)
EXTENDS GatewayCompat, Naturals

CONSTANTS
  Rows,        \* "provider" and "model": whose compat fields are looked at
  Leaves,      \* the leaves looked at, of "ratio", "route", "effort", "toggle"
  FormatKeys,  \* the format card's fields, in the plugin's own section too
  Values,      \* what a leaf or a format field may hold
  Unusable,    \* a draft no save takes: ratios that are no usable pair, the custom
               \* effort left blank
  None,
  MaxEdits, MaxSaves, MaxOthers  \* bounds: edits of the user, saves and applies,
               \* moves of others and calls that fail, together

Compat == Rows \X Fields
Leaf == Leaves \X {"value"}
Format == {"format"} \X FormatKeys
PanelCells == Compat \union Leaf
Cells == PanelCells \union Format

\* What is shown in a model's or a provider's row: without the shared section
\* there are none.
Rowed == {c \in PanelCells : c[1] \in {"provider", "model", "ratio", "toggle"}}

\* The drafts a re-read leaves alone while they are marked as edited.
Guarded == {c \in PanelCells : c[1] \in {"provider", "model", "ratio", "route"}}

ASSUME PageBounds == {MaxEdits, MaxSaves, MaxOthers} \subseteq Nat

ASSUME PageConstants ==
  /\ Rows \subseteq {"provider", "model"}
  /\ Leaves \subseteq {"ratio", "route", "effort", "toggle"}
  /\ Values # {}
  /\ None \notin Values \union {Unusable} \union UNION {Selections(f) : f \in Fields}

VARIABLES
  doc,      \* the sections as the service holds them, and the route's protocol
  panel,    \* its copy, its drafts, which are marked as edited, `busy`, and
            \* whether it has the shared section
  reads,    \* describe calls under way, of the panel and of the format card; of
            \* two of a part that are still to be answered, one is kept
  saves,    \* saves under way
  unsaved,  \* history: the user's last edit of a cell, until it is saved
  lapsed,   \* history: edits that lost their mark without having been written
  moved,    \* history: the route's protocol has changed
  spent

panelVars == <<doc, panel, reads, saves, unsaved, lapsed, moved, spent>>

View(d) == [c \in PanelCells |-> IF c \in Compat THEN Selection(d.cells[c]) ELSE d.cells[c]]

Initially == CHOOSE v \in Values : TRUE

PanelInit ==
  /\ doc \in [cells : {[c \in Cells |-> IF c \in Compat THEN "absent" ELSE Initially]},
              api : Apis]
  /\ panel = [view |-> View(doc), api |-> doc.api, draft |-> View(doc), marked |-> {},
              busy |-> FALSE, nsFound |-> TRUE]
  /\ reads = {} /\ saves = {}
  /\ unsaved = [c \in Cells |-> None] /\ lapsed = {}
  /\ moved = FALSE
  /\ spent = [edits |-> 0, saves |-> 0, others |-> 0]

Spend(what, bound) == spent[what] < bound /\ spent' = [spent EXCEPT ![what] = @ + 1]

Asked(who) == [to |-> who, at |-> "asked", snap |-> None]

----------------------------------------------------------------------------
(* Reads.                                                                  *)

\* A mutant of Kept: the re-read resolves every draft afresh.
KeptNever(p, c) == FALSE

\* compatViewsOf, compactionDraftsFor, subagentModelDraftFor.  One edited field
\* keeps the whole of a provider's draft, of a model's only itself.
Kept(p, c) ==
  c \in Guarded /\ (c \in p.marked \/ (c[1] = "provider" /\ \E m \in p.marked : m[1] = "provider"))

\* A mutant of Rebuilt: the view is projected and the controls are left as they are.
RebuiltBusy(p, d, read, rebuilt) ==
  LET view == [c \in PanelCells |-> IF c \in read THEN View(d)[c] ELSE p.view[c]]
  IN  [p EXCEPT !.view = view, !.api = IF Compat \subseteq read THEN d.api ELSE @,
                !.draft = [c \in PanelCells |->
                   IF c \in rebuilt /\ ~Kept(p, c) THEN view[c] ELSE p.draft[c]]]

\* The panel with the cells `read` of its copy as d has them, and the drafts of
\* `rebuilt` following the copy.
Rebuilt(p, d, read, rebuilt) ==
  LET view == [c \in PanelCells |-> IF c \in read THEN View(d)[c] ELSE p.view[c]]
  IN  [p EXCEPT !.view = view, !.api = IF Compat \subseteq read THEN d.api ELSE @,
                !.draft = [c \in PanelCells |->
                   IF c \in rebuilt /\ ~Kept(p, c) THEN view[c] ELSE p.draft[c]],
                !.busy = FALSE]

\* The panel without the shared section: no rows, nor what is marked in them, and
\* of the subagents' values the route alone.  What is not set reads as at first.
Rowless(p) ==
  [p EXCEPT !.nsFound = FALSE, !.marked = @ \ Rowed,
            !.draft = [c \in PanelCells |->
               IF c \in Leaf /\ c[1] # "route" THEN Initially ELSE @[c]]]

FormatOf(d) == [k \in FormatKeys |-> d.cells[<<"format", k>>]]

\* The service answers a describe with what it holds; the card looks at its own
\* fields of that.
ReadSampled(r) ==
  /\ r.at = "asked"
  /\ reads' = (reads \ {r}) \union {[r EXCEPT !.at = "answered", !.snap =
                                           IF r.to = "card" THEN FormatOf(doc) ELSE doc]}
  /\ UNCHANGED <<doc, panel, saves, unsaved, lapsed, moved, spent>>

\* load: applyNamespaceView, then applyPluginSectionView, which counts the reads
\* of the plugin's section: the format card re-reads on every one.
PanelReads(r) ==
  /\ r.to = "panel" /\ r.at = "answered"
  /\ panel' = Rebuilt([panel EXCEPT !.nsFound = TRUE], r.snap, PanelCells, PanelCells)
  /\ reads' = (reads \ {r}) \union {Asked("card")}
  /\ UNCHANGED <<doc, saves, unsaved, lapsed, moved, spent>>

\* ...and when the description lacks the shared section, which the Host has not
\* published yet or not any more: the rows go, and the edits in them.
PanelReadsWithout(r) ==
  /\ r.to = "panel" /\ r.at = "answered"
  /\ Spend("others", MaxOthers)
  /\ panel' = Rowless(Rebuilt(panel, r.snap, Leaf, Leaf))
  /\ lapsed' = lapsed \union (panel.marked \cap Rowed)
  /\ reads' = (reads \ {r}) \union {Asked("card")}
  /\ UNCHANGED <<doc, saves, unsaved, moved>>

PanelReadFails(r) ==
  /\ r.to = "panel"
  /\ Spend("others", MaxOthers)
  /\ panel' = [panel EXCEPT !.busy = FALSE]
  /\ reads' = reads \ {r}
  /\ UNCHANGED <<doc, saves, unsaved, lapsed, moved>>

\* The backup card's onApplied.
PageMateReads ==
  /\ Spend("others", MaxOthers)
  /\ reads' = reads \union {Asked("panel")}
  /\ UNCHANGED <<doc, panel, saves, unsaved, lapsed, moved>>

\* reapplyCompatViews, on a new takeover resolution: the sections are unchanged.
RuntimeMoves ==
  /\ panel.nsFound
  /\ panel' = [Rebuilt(panel, doc, {}, Compat) EXCEPT !.busy = panel.busy]
  /\ UNCHANGED <<doc, reads, saves, unsaved, lapsed, moved, spent>>

----------------------------------------------------------------------------
(* Edits.                                                                  *)

\* A save of the cell's group is under way, and will unmark it.
Crossed(c) == \E s \in saves : s.group = c[1]

\* What the controls of a leaf may be left at.
Typed(c) == IF c[1] \in {"ratio", "effort"} THEN Values \union {Unusable} ELSE Values

\* patchModelCompat, patchProviderCompat: the controls offer what is available.
\* patchCompactionDraft, the route picker, the effort's select.  Where no models
\* are listed, a route can only be taken back.
Edit(c, v) ==
  /\ ~panel.busy /\ v # panel.draft[c]
  /\ ~panel.nsFound => c[1] = "effort" \/ (c[1] = "route" /\ v = Initially)
  /\ c \in Compat => c[2] \in Available(panel.api)
  /\ Spend("edits", MaxEdits)
  /\ panel' = [panel EXCEPT !.draft[c] = v,
                            !.marked = IF c \in Guarded THEN @ \union {c} ELSE @]
  /\ unsaved' = IF c \in Guarded THEN [unsaved EXCEPT ![c] = v] ELSE unsaved
  /\ lapsed' = IF Crossed(c) THEN lapsed \union {c} ELSE lapsed \ {c}
  /\ UNCHANGED <<doc, reads, saves, moved>>

----------------------------------------------------------------------------
(* Saves.                                                                  *)

InGroup(g) == {c \in PanelCells : c[1] = g}

\* A save of the group, through a config form or straight to the service, and the
\* drafts it was clicked on.  History: the edits it was clicked for.
Send(g, writes, draft) ==
  /\ Spend("saves", MaxSaves)
  /\ \E form \in BOOLEAN :
       saves' = saves \union {[group |-> g, writes |-> writes, form |-> form, at |-> "sent",
                               draft |-> [c \in InGroup(g) |-> draft[c]],
                               edits |-> [c \in InGroup(g) |-> unsaved[c]], answer |-> None]}
  /\ panel' = [panel EXCEPT !.draft = draft, !.busy = TRUE]
  /\ UNCHANGED <<doc, reads, unsaved, lapsed, moved>>

\* A mutant of Update: every field that differs from the copy is sent.
UpdateOfDraft(o) ==
  LET changed == {c \in InGroup(o) : panel.draft[c] # panel.view[c]}
  IN  [f \in {c[2] : c \in changed} |-> panel.draft[<<o, f>>]]

\* The fields that were edited and differ from the copy.
Update(o) ==
  LET changed == {c \in InGroup(o) \cap panel.marked : panel.draft[c] # panel.view[c]}
  IN  [f \in {c[2] : c \in changed} |-> panel.draft[<<o, f>>]]

\* applyProviderCompat, applyModelCompat, when there is something to write.
SaveCompat(o) ==
  /\ ~panel.busy /\ InGroup(o) \cap panel.marked # {}
  /\ LET ops == OpsFor(Update(o))
     IN  /\ DOMAIN ops # {}
         /\ Send(o, [c \in {o} \X DOMAIN ops |-> ops[c[2]]], panel.draft)

\* ...and when there is not: the marks are cleared, nothing is reported.
SaveCompatNothing(o) ==
  /\ ~panel.busy /\ InGroup(o) \cap panel.marked # {}
  /\ DOMAIN OpsFor(Update(o)) = {}
  /\ panel' = [panel EXCEPT !.marked = @ \ InGroup(o)]
  /\ IF DOMAIN Update(o) = {}
       THEN /\ unsaved' = [c \in Cells |-> IF c \in InGroup(o) THEN None ELSE unsaved[c]]
            /\ UNCHANGED lapsed
       ELSE lapsed' = lapsed \union InGroup(o) /\ UNCHANGED unsaved
  /\ UNCHANGED <<doc, reads, saves, moved, spent>>

\* applyModelCompaction, applySubagentModel, applySubagentEffort.  checkCompactionDraft
\* and subagentEffortOp refuse what is unusable: only an error is shown.
SaveLeaf(c) ==
  /\ ~panel.busy /\ c[1] # "toggle"
  /\ c \in Guarded => c \in panel.marked
  /\ panel.draft[c] # Unusable
  /\ Send(c[1], [x \in {c} |-> panel.draft[c]], panel.draft)

\* patchOpenCodeSession: the switch shows the new value, marks nothing, saves.
Flip(c, v) ==
  /\ ~panel.busy /\ panel.nsFound /\ c[1] = "toggle" /\ v # panel.draft[c]
  /\ Send("toggle", [x \in {c} |-> v], [panel.draft EXCEPT ![c] = v])

\* DSH's assertOfferedCompatFields: a field the route's protocol does not offer
\* refuses the whole batch.
Unoffered(s) ==
  \E c \in DOMAIN s.writes \cap Compat :
    s.writes[c] # "absent" /\ c[2] \notin Offered(doc.api)

SaveLands(s) ==
  /\ s.at = "sent" /\ ~Unoffered(s)
  /\ doc' = [doc EXCEPT !.cells =
               [c \in Cells |-> IF c \in DOMAIN s.writes THEN s.writes[c] ELSE @[c]]]
  /\ saves' = (saves \ {s}) \union {[s EXCEPT !.at = "landed", !.answer = doc']}
  /\ UNCHANGED <<panel, reads, unsaved, lapsed, moved, spent>>

\* The queue gave up, or the answer was lost.
SaveRefused(s) ==
  /\ saves' = saves \ {s}
  /\ panel' = [panel EXCEPT !.busy = FALSE]
  /\ IF s.at = "sent" /\ Unoffered(s) THEN UNCHANGED spent ELSE Spend("others", MaxOthers)
  /\ UNCHANGED <<doc, reads, unsaved, lapsed, moved>>

\* onSuccess: the group's marks go, and a leaf's draft is the one clicked on.
Settled(p, s) ==
  [p EXCEPT !.marked = @ \ InGroup(s.group),
            !.draft = [c \in PanelCells |->
               IF c \in InGroup(s.group) /\ c \in Guarded \ Compat THEN s.draft[c] ELSE @[c]]]

SavedEdits(s) ==
  unsaved' = [c \in Cells |->
    IF c \in InGroup(s.group) /\ unsaved[c] = s.draft[c] THEN None ELSE unsaved[c]]

\* onSuccess, then: a form's answer carries no section and the panel reloads;
\* the service's is projected, a section at a time.
SaveAccepted(s) ==
  /\ s.at = "landed"
  /\ saves' = saves \ {s}
  /\ SavedEdits(s)
  /\ IF s.form
       THEN /\ panel' = Settled(panel, s)
            /\ reads' = reads \union {Asked("panel")}
       ELSE LET settled == Settled(panel, s)
            IN  IF s.group \in {"provider", "model"}
                  THEN /\ panel' = Rebuilt([settled EXCEPT !.nsFound = TRUE], s.answer, Compat,
                                           {c \in PanelCells : c[1] # "toggle"})
                       /\ UNCHANGED reads
                  ELSE /\ LET answered == Rebuilt(settled, s.answer, Leaf, Leaf)
                          IN  panel' = IF panel.nsFound THEN answered ELSE Rowless(answered)
                       /\ reads' = reads \union {Asked("card")}
  /\ UNCHANGED <<doc, lapsed, moved, spent>>

----------------------------------------------------------------------------
(* The others: another window, the Host, an import.                        *)

OthersWrite(c, v) ==
  /\ Spend("others", MaxOthers)
  /\ v # doc.cells[c]
  /\ c \in Compat => c[2] \in Offered(doc.api)
  /\ doc' = [doc EXCEPT !.cells[c] = v]
  /\ UNCHANGED <<panel, reads, saves, unsaved, lapsed, moved>>

\* The route is given another protocol, which offers what is stored for it.
ApiMoves(api) ==
  /\ Spend("others", MaxOthers)
  /\ api # doc.api
  /\ \A c \in Compat : doc.cells[c] # "absent" => c[2] \in Offered(api)
  /\ doc' = [doc EXCEPT !.api = api]
  /\ moved' = TRUE
  /\ UNCHANGED <<panel, reads, saves, unsaved, lapsed>>

Others ==
  \/ \E c \in Compat : \E v \in Stored(c[2]) : OthersWrite(c, v)
  \/ \E c \in Cells \ Compat, v \in Values : OthersWrite(c, v)
  \/ \E api \in Apis : ApiMoves(api)
  \/ PageMateReads

User ==
  \/ \E c \in Compat : \E v \in Selections(c[2]) : Edit(c, v)
  \/ \E c \in Leaf : \E v \in Typed(c) : c[1] # "toggle" /\ Edit(c, v)
  \/ \E o \in Rows : SaveCompat(o) \/ SaveCompatNothing(o)
  \/ \E c \in Leaf : SaveLeaf(c) \/ \E v \in Values : Flip(c, v)

PanelAnswers ==
  \/ \E r \in reads : ReadSampled(r) \/ PanelReads(r)
  \/ \E s \in saves : SaveLands(s) \/ SaveAccepted(s)
  \/ \E s \in saves : s.at = "sent" /\ Unoffered(s) /\ SaveRefused(s)

PanelNext ==
  \/ User \/ PanelAnswers \/ RuntimeMoves \/ Others
  \/ \E r \in reads : PanelReadFails(r) \/ PanelReadsWithout(r)
  \/ \E s \in saves : SaveRefused(s)
=============================================================================
