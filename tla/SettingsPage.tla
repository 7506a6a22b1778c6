----------------------------- MODULE SettingsPage -----------------------------
(***************************************************************************)
(* The settings page: the panel (PanelDrafts) and, beside it, the card of  *)
(* the session formatter (components/OpenCodeFormatCard.tsx,               *)
(* opencode-format-validation.ts).  The card edits the format fields of    *)
(* the plugin's own section, which the panel's leaves are in too: it       *)
(* re-reads whenever the panel has, and the panel when the card has saved. *)
(*                                                                         *)
(* One apply is under way at a time: a bound, for a read that clears       *)
(* `busy` lets the user begin another.                                     *)
(***************************************************************************)
EXTENDS PanelDrafts

CONSTANT Refused  \* the format drafts the card finds a problem in: a mode without the
                  \* template, expression or script it needs, a filter that does not parse

VARIABLES
  card,    \* the fields as last read, their drafts, and `busy`
  apply    \* the apply under way: the fields as the service last answered it,
           \* the draft it writes, the fields of it, whether the revision still
           \* holds, and, a history, the fields that are drafted anew since

vars == <<panelVars, card, apply>>

Idle == [at |-> "idle", snap |-> None, draft |-> None, ops |-> {}, fresh |-> FALSE,
         since |-> {}]

Init ==
  /\ PanelInit
  /\ card = [saved |-> FormatOf(doc), draft |-> FormatOf(doc), busy |-> FALSE]
  /\ apply = Idle

\* The service counts a revision for each section, and the card's write names
\* the one it described.  The format is in the section of the leaves.
OwnSection(d) == [c \in Cells \ Compat |-> d.cells[c]]
Fenced ==
  apply' = [apply EXCEPT !.fresh = @ /\ OwnSection(doc') = OwnSection(doc)]

----------------------------------------------------------------------------
(* The card.                                                               *)

\* Fields get another draft behind the back of a write under way.
Redrafted(ks) ==
  apply' = IF apply.at \in {"sent", "landed"} THEN [apply EXCEPT !.since = @ \union ks]
                                             ELSE apply

\* patch.
CardEdits(k, v) ==
  /\ ~card.busy /\ v # card.draft[k]
  /\ Spend("edits", MaxEdits)
  /\ card' = [card EXCEPT !.draft[k] = v]
  /\ Redrafted({k})
  /\ UNCHANGED <<doc, panel, reads, saves, unsaved, lapsed, moved>>

\* applyRead: the fields that are not edited follow the section.
Merged(c, fresh) ==
  [saved |-> fresh, busy |-> FALSE,
   draft |-> [k \in FormatKeys |-> IF c.draft[k] = c.saved[k] THEN fresh[k] ELSE c.draft[k]]]

CardReads(r) ==
  /\ r.to = "card" /\ r.at = "answered"
  /\ card' = Merged(card, r.snap)
  /\ Redrafted({k \in FormatKeys : card'.draft[k] # card.draft[k]})
  /\ reads' = reads \ {r}
  /\ UNCHANGED <<doc, panel, saves, unsaved, lapsed, moved, spent>>

CardReadFails(r) ==
  /\ r.to = "card"
  /\ Spend("others", MaxOthers)
  /\ card' = [card EXCEPT !.busy = FALSE]
  /\ reads' = reads \ {r}
  /\ UNCHANGED <<doc, panel, saves, unsaved, lapsed, moved, apply>>

\* formatOps: a set for each field of the draft that is not as described, the
\* ones the user has not edited too.
FormatOps(draft, described) == {k \in FormatKeys : draft[k] # described[k]}

\* formatFieldErrors: the button is disabled for a draft with a problem; what is
\* written by the end is not looked at again.
Blocked == card.draft \in Refused

\* apply: the section is described again before it is written.
Apply ==
  /\ ~card.busy /\ FormatOps(card.draft, card.saved) # {} /\ ~Blocked /\ apply.at = "idle"
  /\ Spend("saves", MaxSaves)
  /\ card' = [card EXCEPT !.busy = TRUE]
  /\ apply' = [apply EXCEPT !.at = "asked"]
  /\ UNCHANGED <<doc, panel, reads, saves, unsaved, lapsed, moved>>

ApplySampled ==
  /\ apply.at = "asked"
  /\ apply' = [apply EXCEPT !.at = "answered", !.snap = FormatOf(doc), !.fresh = TRUE]
  /\ UNCHANGED <<panelVars, card>>

ApplyWrites ==
  /\ apply.at = "answered"
  /\ LET ops == FormatOps(card.draft, apply.snap)
     IN  IF ops = {}
           THEN /\ card' = [card EXCEPT !.saved = card.draft, !.busy = FALSE]
                /\ apply' = Idle
           ELSE /\ apply' = [apply EXCEPT !.at = "sent", !.snap = None,
                                               !.ops = ops, !.draft = card.draft]
                /\ UNCHANGED card
  /\ UNCHANGED panelVars

\* A mutant of Accepts: the write names no revision.
AcceptsAny == TRUE

\* The service takes a write that names its revision.
Accepts == apply.fresh

ApplyLands ==
  /\ apply.at = "sent" /\ Accepts
  /\ doc' = [doc EXCEPT !.cells = [c \in Cells |->
               IF c[1] = "format" /\ c[2] \in apply.ops THEN apply.draft[c[2]] ELSE @[c]]]
  /\ apply' = [Idle EXCEPT !.at = "landed", !.snap = FormatOf(doc'), !.since = apply.since]
  /\ UNCHANGED <<panel, reads, saves, unsaved, lapsed, moved, spent, card>>

\* A conflict, or a call that fails or whose answer is lost.  The draft stays.
ApplyFails ==
  /\ apply.at # "idle"
  /\ IF apply.at = "sent" /\ ~Accepts THEN UNCHANGED spent ELSE Spend("others", MaxOthers)
  /\ card' = [card EXCEPT !.busy = FALSE]
  /\ apply' = Idle
  /\ UNCHANGED <<doc, panel, reads, saves, unsaved, lapsed, moved>>

\* `saved` is the draft on screen by then; the card and the panel re-read.
ApplyAccepted ==
  /\ apply.at = "landed"
  /\ card' = [card EXCEPT !.saved = card.draft, !.busy = FALSE]
  /\ reads' = reads \union {Asked("card"), Asked("panel")}
  /\ apply' = Idle
  /\ UNCHANGED <<doc, panel, saves, unsaved, lapsed, moved, spent>>

ApplyAnswers ==
  \/ ApplySampled \/ ApplyWrites \/ ApplyLands \/ ApplyAccepted
  \/ apply.at = "sent" /\ ~Accepts /\ ApplyFails

----------------------------------------------------------------------------

Next ==
  \/ PanelNext /\ UNCHANGED card /\ Fenced
  \/ \E k \in FormatKeys, v \in Values : CardEdits(k, v)
  \/ \E r \in reads : CardReads(r) \/ CardReadFails(r)
  \/ Apply \/ ApplyAnswers \/ ApplyFails

\* The service answers what it is asked, and the page takes its answers.
Answers ==
  \/ PanelAnswers /\ UNCHANGED card /\ Fenced
  \/ \E r \in reads : CardReads(r)
  \/ ApplyAnswers

Spec == Init /\ [][Next]_vars /\ WF_vars(Answers)

----------------------------------------------------------------------------
(* Properties.                                                             *)

\* An edit of the panel stays on screen, marked, until it is saved, whatever
\* re-reads of other windows' writes, of cards, and whatever saves of other
\* groups come in between (section-editor/state.ts:79-81).  Three kinds of edits lose
\* their mark all the same, and are excepted: one made while a save of its own group
\* is under way, after a read has cleared `busy`; one of a batch dropped for a value
\* that cannot be written; one of a row, when a description lacks the shared section
\* (SectionEditor.tsx:117-122).  The route of the subagents outlives that one too.
EditsKept ==
  \A c \in Guarded \ lapsed :
    unsaved[c] # None => c \in panel.marked /\ panel.draft[c] = unsaved[c]

\* A save writes what the user has edited, as last edited, and nothing the
\* panel merely shows: the copies it was compared with may be older than the
\* document, in any order of reads and saves (SectionEditor.tsx:217-219, 500-502).
SavesWriteOnlyEdits ==
  \A s \in saves : \A c \in DOMAIN s.writes \cap Guarded :
    /\ s.edits[c] # None
    /\ s.writes[c] = IF c \in Compat THEN StoredAs(s.edits[c]) ELSE s.edits[c]

\* The panel offers no field whose write the service must refuse: a batch is
\* refused for a field the protocol lacks only when the route has been given
\* another since (fieldsForApi, gateway/fields.ts:134-142).
RefusedOnlyIfMoved == \A s \in saves : s.at = "sent" /\ Unoffered(s) => moved

\* What an apply reports as saved is, field by field, what the service held when it
\* answered it: the fields its batch left out, having found them stored, were not
\* changed in between (OpenCodeFormatCard.tsx:255-287).  Excepted is a field drafted
\* anew while the write was under way, by the user, after a read has cleared `busy`,
\* or by that read: the report is of the draft on screen by then.
AppliedMeansStored ==
  [][ApplyAccepted \/ (ApplyWrites /\ apply'.at = "idle") =>
       \A k \in FormatKeys \ apply.since : card'.saved[k] = apply.snap[k]]_vars

\* The controls are enabled again after every save and every apply, whichever
\* of the answers, refusals and re-reads comes first.
PageSettles == (panel.busy \/ card.busy) ~> (~panel.busy /\ ~card.busy)
=============================================================================
