------------------------------ MODULE SectionSave ------------------------------
(***************************************************************************)
(* A save of the settings panel (src/client/section-editor/                *)
(* use-save-queue.ts and the saves SectionEditor.tsx sends through it)     *)
(* against a document that other writers move: another window, the Host's  *)
(* default fill, a model switch.                                           *)
(*                                                                         *)
(* The document is one section: a models array (the models it holds, each  *)
(* with its levels and its context window) and one leaf, a provider's      *)
(* compat field.  A save of a model or of a preset carries the whole array *)
(* rebuilt from the panel's copy; a save of the leaf addresses one path.   *)
(* The service and the config form are external: the service accepts a     *)
(* write whose revision is the section's, the form fences a write that     *)
(* carries no revision with the one it tracks itself.                      *)
(*                                                                         *)
(* One save is under way at a time: `busy` disables every control that     *)
(* sends one until the save or its reload has been answered.               *)
(***************************************************************************)
EXTENDS Integers

CONSTANTS
  Models,         \* model ids a route's array may hold
  MaxSaves,       \* bound: saves the user sends
  MaxOthersWrite, \* bound: writes of the other writers
  MaxFaults       \* bound: calls that fail in the transport

ASSUME SaveBounds == {MaxSaves, MaxOthersWrite, MaxFaults} \subseteq Nat

VARIABLES
  doc,        \* the section as the service holds it
  view,       \* the panel's copy: inventory, compat view and revision
  formServed, \* the host publishes a write-capable config form
  formRev,    \* the revision that form tracks
  save,       \* the save under way
  report,     \* what the panel last reported: nothing, "saved", "error"
  spent

vars == <<doc, view, formServed, formRev, save, report, spent>>

Value == {"old", "panel", "other"}
Doc == [present : SUBSET Models, levels : [Models -> Value],
        context : [Models -> Value], compat : Value, rev : Nat]

\* `base` is the copy of the section the ops are built from.  History: another
\* writer, or a fault, got in its way.
Save == [at : {"idle", "sent", "refused", "landed", "reloading"},
         kind : {"model", "preset", "compat"}, model : Models, base : Doc,
         form : BOOLEAN, attempt : {1, 2}, answer : Doc, disturbed : BOOLEAN]

TypeOK ==
  /\ doc \in Doc /\ view \in Doc
  /\ formServed \in BOOLEAN /\ formRev \in Nat
  /\ save \in Save
  /\ report \in {"", "saved", "error"}
  /\ spent \in [saves : 0..MaxSaves, others : 0..MaxOthersWrite, faults : 0..MaxFaults]

Stored == [present |-> Models, levels |-> [m \in Models |-> "old"],
           context |-> [m \in Models |-> "old"], compat |-> "old", rev |-> 0]

\* The panel has made its mount-time read.
Init ==
  /\ doc = Stored /\ view = Stored
  /\ formServed \in BOOLEAN /\ formRev = 0
  /\ save \in [at : {"idle"}, kind : {"compat"}, model : Models, base : {Stored},
               form : {FALSE}, attempt : {1}, answer : {Stored}, disturbed : {FALSE}]
  /\ report = ""
  /\ spent = [saves |-> 0, others |-> 0, faults |-> 0]

----------------------------------------------------------------------------
(* What a save writes.                                                     *)

\* The models a save of this kind edits, of those a copy holds.
Targets(s, copy) ==
  CASE s.kind = "model" -> {s.model} \cap copy.present
    [] s.kind = "preset" -> copy.present
    [] s.kind = "compat" -> {}

\* setOps over the inventory of s.base: the levels of the targets, the rest of
\* the array as that copy has it.  A leaf op lands on whatever is there.
Written(s) ==
  IF s.kind = "compat" THEN [doc EXCEPT !.compat = "panel", !.rev = @ + 1]
  ELSE [doc EXCEPT
          !.present = s.base.present,
          !.levels = [m \in Models |->
             IF m \in Targets(s, s.base) THEN "panel" ELSE s.base.levels[m]],
          !.context = s.base.context,
          !.rev = @ + 1]

\* A rebuild keeps only the updates whose model is still there; one that keeps
\* none has nothing to write.
Rebuilds(s, fresh) == s.kind = "compat" \/ Targets(s, fresh) # {}

\* The revision a write is compared with: the form's own on its first attempt,
\* else the revision of the copy the ops are built from.
Fence(s) == IF s.form /\ s.attempt = 1 THEN formRev ELSE s.base.rev

----------------------------------------------------------------------------
(* The panel.                                                              *)

Settle(r) ==
  /\ report' = r
  /\ save' = [save EXCEPT !.at = "idle", !.base = view, !.answer = view, !.attempt = 1,
                          !.disturbed = FALSE]

Click(kind, m) ==
  /\ save.at = "idle"
  /\ spent.saves < MaxSaves
  /\ spent' = [spent EXCEPT !.saves = @ + 1]
  /\ kind = "model" => m \in view.present
  /\ kind = "preset" => view.present # {}
  /\ save' = [save EXCEPT !.at = "sent", !.kind = kind, !.model = m, !.base = view,
                          !.form = formServed, !.attempt = 1]
  /\ report' = ""
  /\ UNCHANGED <<doc, view, formServed, formRev>>

\* The write is applied; the response carries the section it produced.
Lands ==
  /\ save.at = "sent"
  /\ Fence(save) = doc.rev
  /\ doc' = Written(save)
  /\ save' = [save EXCEPT !.at = "landed", !.answer = doc']
  /\ formRev' = IF save.form THEN doc'.rev ELSE formRev
  /\ UNCHANGED <<view, formServed, report, spent>>

RetryLeft == save.attempt = 1

\* The write is refused as stale: the first time it is retried.  A form re-reads
\* the section after a refusal.
Conflicts ==
  /\ save.at = "sent"
  /\ Fence(save) # doc.rev
  /\ formRev' = IF save.form THEN doc.rev ELSE formRev
  /\ IF RetryLeft
       THEN save' = [save EXCEPT !.at = "refused"] /\ UNCHANGED report
       ELSE Settle("error")
  /\ UNCHANGED <<doc, view, formServed, spent>>

\* A call without an answer.  A form answers a bare FALSE, which is retried like
\* a conflict; the service's error is none and is reported.
RetriedOrReported ==
  IF save.form /\ RetryLeft
    THEN save' = [save EXCEPT !.at = "refused", !.disturbed = TRUE] /\ UNCHANGED report
    ELSE Settle("error")

\* The call fails before it lands.
Fails ==
  /\ save.at = "sent"
  /\ spent.faults < MaxFaults
  /\ spent' = [spent EXCEPT !.faults = @ + 1]
  /\ RetriedOrReported
  /\ UNCHANGED <<doc, view, formServed, formRev>>

\* A mutant of Retry: the first attempt's ops are replayed on the new revision.
RetryReplaying(fresh) ==
  save' = [save EXCEPT !.at = "sent", !.attempt = @ + 1, !.base.rev = fresh.rev]

\* The ops rebuilt from the section as it now stands.
Retry(fresh) ==
  save' = [save EXCEPT !.at = "sent", !.attempt = @ + 1, !.base = fresh]

\* A mutant of MayRetry: a conflict is reported, never retried.
MayRetryNever == FALSE

\* The direct transport retries a conflict only when the revision has moved.
MayRetry == (save.form \/ doc.rev # save.base.rev) /\ Rebuilds(save, doc)

\* latestSection, then the one retry or the report.
Rereads ==
  /\ save.at = "refused"
  /\ IF MayRetry THEN Retry(doc) /\ UNCHANGED report
                 ELSE Settle("error")
  /\ UNCHANGED <<doc, view, formServed, formRev, spent>>

RereadFails ==
  /\ save.at = "refused"
  /\ spent.faults < MaxFaults
  /\ spent' = [spent EXCEPT !.faults = @ + 1]
  /\ Settle("error")
  /\ UNCHANGED <<doc, view, formServed, formRev>>

\* A mutant of Projected: the revision is taken, the inventory is not.
ProjectedRevisionOnly(answer) == [view EXCEPT !.rev = answer.rev]

\* applyNamespaceView: the inventory, the views and the revision of one read.
Projected(answer) == answer

\* The answer arrives: the direct transport projects the section it carries, a
\* form carries none and the panel reloads.
Accepted ==
  /\ save.at = "landed"
  /\ IF save.form THEN save' = [save EXCEPT !.at = "reloading"] /\ UNCHANGED <<view, report>>
                  ELSE view' = Projected(save.answer) /\ Settle("saved")
  /\ UNCHANGED <<doc, formServed, formRev, spent>>

\* The answer is lost although the write landed: a form's FALSE is retried, the
\* service's error is reported.
AnswerLost ==
  /\ save.at = "landed"
  /\ spent.faults < MaxFaults
  /\ spent' = [spent EXCEPT !.faults = @ + 1]
  /\ RetriedOrReported
  /\ UNCHANGED <<doc, view, formServed, formRev>>

Reloads ==
  /\ save.at = "reloading"
  /\ view' = Projected(doc)
  /\ Settle("saved")
  /\ UNCHANGED <<doc, formServed, formRev, spent>>

ReloadFails ==
  /\ save.at = "reloading"
  /\ spent.faults < MaxFaults
  /\ spent' = [spent EXCEPT !.faults = @ + 1]
  /\ Settle("error")
  /\ UNCHANGED <<doc, view, formServed, formRev>>

----------------------------------------------------------------------------
(* The others.                                                             *)

OtherDoc ==
  {[doc EXCEPT !.levels[m] = "other", !.rev = @ + 1] : m \in doc.present}
    \union {[doc EXCEPT !.context[m] = "other", !.rev = @ + 1] : m \in doc.present}
    \union {[doc EXCEPT !.present = @ \ {m}, !.rev = @ + 1] : m \in doc.present}
    \union {[doc EXCEPT !.present = @ \union {m}, !.rev = @ + 1] : m \in Models \ doc.present}
    \union {[doc EXCEPT !.compat = "other", !.rev = @ + 1]}

OthersWrite ==
  /\ spent.others < MaxOthersWrite
  /\ spent' = [spent EXCEPT !.others = @ + 1]
  /\ doc' \in OtherDoc
  /\ save' = [save EXCEPT !.disturbed = save.at \notin {"idle", "landed", "reloading"} \/ @]
  /\ UNCHANGED <<view, formServed, formRev, report>>

\* The form service activates after the panel, or follows the section.
FormFollows ==
  /\ formServed' = TRUE
  /\ formRev' = doc.rev
  /\ <<formServed', formRev'>> # <<formServed, formRev>>
  /\ UNCHANGED <<doc, view, save, report, spent>>

Panel ==
  \/ \E kind \in {"model", "preset", "compat"}, m \in Models : Click(kind, m)
  \/ Lands \/ Conflicts \/ Fails \/ Rereads \/ RereadFails
  \/ Accepted \/ AnswerLost \/ Reloads \/ ReloadFails

Next == Panel \/ OthersWrite \/ FormFollows

Spec == Init /\ [][Next]_vars

----------------------------------------------------------------------------
(* Properties.                                                             *)

\* A copy is what the section was at its revision.
TrueCopy(c) == c.rev <= doc.rev /\ (c.rev = doc.rev => c = doc)

\* Every copy the panel may fence a write with pairs an inventory with the
\* revision it was read at (applyNamespaceView, writeOnce's expectedRevision).
CopiesAreTrue == TrueCopy(view) /\ TrueCopy(save.base) /\ TrueCopy(save.answer)

\* What a write of the save s may change: the levels of its targets, or the leaf.
OnlyItsOwn(s) ==
  /\ doc'.present = doc.present
  /\ doc'.context = doc.context
  /\ \A m \in Models : doc'.levels[m] # doc.levels[m] => m \in Targets(s, doc)
  /\ doc'.compat # doc.compat => s.kind = "compat"

\* A save drops no concurrent edit, resurrects no deleted model and loses no
\* added one, on either transport, retried or not, except through the first
\* attempt of a form, which is fenced with a revision the ops were not built
\* from (run: the rebuild; rebaseUpdates).
SavesOnlyItsOwn ==
  [][Lands /\ ~(save.form /\ save.attempt = 1) => OnlyItsOwn(save)]_vars

\* A stale panel is not fenced out: a save that nobody else's write and no fault
\* crosses is accepted, whatever was written before it, unless its model is gone
\* (run: the one retry; issue 16 of the change log).
StalePanelCanSave ==
  [][save.at # "idle" /\ save'.at = "idle" /\ report' = "error" /\ ~save.disturbed
       /\ spent'.faults = spent.faults
     => ~Rebuilds(save, doc)]_vars
=============================================================================
