---------------------------- MODULE ConfigImport ----------------------------
(***************************************************************************)
(* The backup card (src/client/components/ConfigBackupCard.tsx) and the    *)
(* import it runs (src/client/config-snapshot/apply.ts): the registry is   *)
(* read once, a rollback copy is written, then each namespace, every write *)
(* fenced with the revision of that read or of the copy's own write.       *)
(*                                                                         *)
(* Describing answers in one step with what it sampled, and a write lands  *)
(* or is refused in one step: what another client does in between is what  *)
(* it does before the next write, whose fence is by then as stale.  Which  *)
(* of several files read at once is previewed (readToken) is left out, and *)
(* so is what the preview shows.                                           *)
(***************************************************************************)
EXTENDS ImportPlan, Sequences

CONSTANTS
  Files,        \* the snapshots a file may hold
  Initials,     \* the sections the settings may start with
  Foreign,      \* what another client may write to a namespace
  Choices,      \* the modes and wiring opt-ins the user confirms with
  MaxImports, MaxSpent  \* bounds: imports confirmed; foreign writes and
                \* library writes of this card, together

ASSUME ImportConstants ==
  /\ Files \subseteq Sections /\ Initials \subseteq Sections /\ Foreign \subseteq Section
  /\ Choices \subseteq [mode : {"merge", "replace"}, wire : BOOLEAN]
  /\ {MaxImports, MaxSpent} \subseteq Nat

VARIABLES
  docs, rev,    \* the settings: sections and revisions
  backup,       \* the pre-import copy, in the plugin section beside them
  card,         \* the card's state
  reads,        \* refreshes of the registry under way
  edit,         \* a library write of this card, with its own fresh read
  imports,      \* the imports confirmed
  imported,     \* history: import writes each namespace took
  spent

settings == <<docs, rev, backup, imported>>
vars == <<settings, card, reads, edit, imports, spent>>

None == Missing

Card == [busy : BOOLEAN, preview : Sections \union {None}]

Init ==
  /\ docs \in Initials /\ rev = [ns \in Namespaces |-> 0] /\ backup = None
  /\ card = [busy |-> FALSE, preview |-> None]
  /\ reads = {}
  /\ edit = [kind |-> "none", at |-> "none", fence |-> 0]
  /\ imports = <<>>
  /\ imported = [ns \in Namespaces |-> 0]
  /\ spent = 0

----------------------------------------------------------------------------
(* Reading the registry.                                                   *)

\* load: the answer, good or bad, clears `busy`.
LoadAnswers ==
  /\ "load" \in reads
  /\ reads' = reads \ {"load"}
  /\ card' = [card EXCEPT !.busy = FALSE]
  /\ UNCHANGED <<settings, edit, imports, spent>>

\* openPreview, with the file or the rollback copy the user chose last.  A file
\* answers some time after it was chosen, whatever the card does by then; only
\* the button of the copy waits for `busy`.
Preview(snapshot) ==
  /\ snapshot \in Files \/ ~card.busy
  /\ card' = [card EXCEPT !.preview = snapshot]
  /\ UNCHANGED <<settings, reads, edit, imports, spent>>

\* failImport: a file that cannot be read or parsed.
FileFails ==
  /\ card' = [busy |-> FALSE, preview |-> None]
  /\ UNCHANGED <<settings, reads, edit, imports, spent>>

Cancel ==
  /\ ~card.busy /\ card.preview # None
  /\ card' = [card EXCEPT !.preview = None]
  /\ UNCHANGED <<settings, reads, edit, imports, spent>>

----------------------------------------------------------------------------
(* Importing.                                                              *)

NoOps == [ns \in Namespaces |-> <<>>]

\* confirmImport.  The mode and the opt-in count as they stand now; that the plan
\* is not empty is found out again by the import.
Confirm(choice) ==
  /\ card.preview # None /\ ~card.busy
  /\ Len(imports) < MaxImports
  /\ card' = [card EXCEPT !.busy = TRUE]
  /\ imports' = Append(imports,
       [at |-> "describe", file |-> card.preview, mode |-> choice.mode, wire |-> choice.wire,
        read |-> None, fence |-> rev, plan |-> NoOps, copied |-> FALSE, ok |-> {}, failed |-> {}])
  /\ UNCHANGED <<settings, reads, edit, spent>>

\* A namespace after `at` in the order the plan is written in.
Following(at, plan) ==
  LET open == {ns \in Namespaces : DOMAIN plan[ns] # {}}
  IN IF at = "backup" /\ "plugin" \in open THEN "plugin"
     ELSE IF at \in {"backup", "plugin"} /\ "llm" \in open THEN "llm" ELSE "report"

\* applySnapshot's read.  A refused read leaves nothing to write.
ImportReads(i, ok) ==
  LET im == imports[i]
      plan == PlanImport(im.file, docs, im.mode, im.wire)
  IN /\ im.at = "describe"
     /\ imports' = [imports EXCEPT ![i] =
          IF ~ok THEN [im EXCEPT !.at = "unread"]
          ELSE IF Empty(plan) THEN [im EXCEPT !.at = "skipped"]
          ELSE [im EXCEPT !.at = "backup", !.read = docs, !.fence = rev, !.plan = plan]]
     /\ UNCHANGED <<settings, card, reads, edit, spent>>

Bump(ns) == rev' = [rev EXCEPT ![ns] = @ + 1]

\* What the plugin namespace's own write is fenced with after the copy.
CopyFence(im) == [im.fence EXCEPT !["plugin"] = rev["plugin"] + 1]

\* A mutant of RollbackCopy: the copy is taken of the plan, not of the read.
RollbackCopyOfTarget(im) == [ns \in Namespaces |-> Written(im.read[ns], im.plan[ns])]

RollbackCopy(im) == im.read

\* writeAutoBackup.  A refused copy does not stop the import.
CopyLands(i) ==
  LET im == imports[i]
  IN /\ im.at = "backup" /\ im.fence["plugin"] = rev["plugin"]
     /\ backup' = RollbackCopy(im) /\ Bump("plugin")
     /\ imports' = [imports EXCEPT ![i] =
          [im EXCEPT !.at = Following("backup", im.plan), !.fence = CopyFence(im), !.copied = TRUE]]
     /\ UNCHANGED <<docs, imported, card, reads, edit, spent>>

CopyRefused(i) ==
  LET im == imports[i]
  IN /\ im.at = "backup"
     /\ imports' = [imports EXCEPT ![i].at = Following("backup", im.plan)]
     /\ UNCHANGED <<settings, card, reads, edit, spent>>

\* A mutant of Fenced: the write carries no revision.
FencedNever(im, ns) == TRUE

Fenced(im, ns) == im.fence[ns] = rev[ns]

WriteLands(i, ns) ==
  LET im == imports[i]
  IN /\ im.at = ns /\ Fenced(im, ns)
     /\ docs' = [docs EXCEPT ![ns] = Written(@, im.plan[ns])]
     /\ imported' = [imported EXCEPT ![ns] = @ + 1]
     /\ Bump(ns)
     /\ imports' = [imports EXCEPT ![i] = [im EXCEPT !.at = Following(ns, im.plan), !.ok = @ \union {ns}]]
     /\ UNCHANGED <<backup, card, reads, edit, spent>>

\* A namespace that fails does not stop its siblings, nor roll them back.
WriteRefused(i, ns) ==
  LET im == imports[i]
  IN /\ im.at = ns
     /\ imports' = [imports EXCEPT ![i] = [im EXCEPT !.at = Following(ns, im.plan), !.failed = @ \union {ns}]]
     /\ UNCHANGED <<settings, card, reads, edit, spent>>

\* A call of the import throws, a write before or after it took effect.
ImportThrows(i) ==
  LET im == imports[i]
  IN /\ im.at \in {"describe", "backup", "plugin", "llm"}
     /\ imports' = [imports EXCEPT ![i].at = "threw"]
     /\ \/ UNCHANGED settings
        \/ /\ im.at = "backup" /\ Fenced(im, "plugin")
           /\ backup' = RollbackCopy(im) /\ Bump("plugin")
           /\ UNCHANGED <<docs, imported>>
        \/ /\ im.at \in Namespaces /\ Fenced(im, im.at)
           /\ docs' = [docs EXCEPT ![im.at] = Written(@, im.plan[im.at])]
           /\ imported' = [imported EXCEPT ![im.at] = @ + 1]
           /\ Bump(im.at)
           /\ UNCHANGED backup
     /\ UNCHANGED <<card, reads, edit, spent>>

\* A mutant of Report: a failure counts only when nothing was applied.
ReportHalf(im) ==
  CASE im.at = "skipped" -> "skipped"
    [] im.at = "threw" -> "failed"
    [] im.failed # {} /\ im.ok = {} -> "partial"
    [] OTHER -> "applied"

\* What the card tells of a finished import.
Report(im) ==
  CASE im.at = "skipped" -> "skipped"
    [] im.at = "threw" -> "failed"
    [] im.failed # {} -> "partial"
    [] OTHER -> "applied"

\* confirmImport, after the import.
Reports(i) ==
  /\ imports[i].at \in {"unread", "skipped", "report", "threw"}
  /\ card' = [card EXCEPT !.busy = FALSE, !.preview = None]
  /\ reads' = IF imports[i].at \in {"unread", "report"} THEN reads \union {"load"} ELSE reads

ImportEnds(i) ==
  /\ Reports(i)
  /\ imports' = [imports EXCEPT ![i] = [@ EXCEPT
       !.at = "done", !.read = None, !.fence = [ns \in Namespaces |-> 0], !.plan = NoOps,
       !.copied = FALSE, !.ok = {}, !.failed = {}]]
  /\ UNCHANGED <<settings, edit, spent>>

----------------------------------------------------------------------------
(* The card's other writes to the plugin section, and other clients.       *)

\* saveProfile, removeProfile, and rescanLegacyData, which `busy` does not
\* hold back: the fresh read clears `busy`, the write of a profile sets it.
EditStarts(kind) ==
  /\ edit.at = "none" /\ spent < MaxSpent
  /\ kind = "profile" => ~card.busy
  /\ edit' = [kind |-> kind, at |-> "fresh", fence |-> 0]
  /\ card' = [card EXCEPT !.busy = TRUE]
  /\ spent' = spent + 1
  /\ UNCHANGED <<settings, reads, imports>>

EditReads(ok) ==
  /\ edit.at = "fresh"
  /\ edit' = [edit EXCEPT !.at = IF ok THEN "write" ELSE "none", !.fence = rev["plugin"]]
  /\ card' = [card EXCEPT !.busy = (ok /\ edit.kind = "profile")]
  /\ UNCHANGED <<settings, reads, imports, spent>>

EditEnds(ok) ==
  /\ edit.at = "write"
  /\ edit' = [edit EXCEPT !.at = "none"]
  /\ IF ok /\ edit.fence = rev["plugin"]
     THEN /\ Bump("plugin")
          /\ reads' = reads \union {"load"}
          /\ card' = [card EXCEPT !.busy = (@ /\ edit.kind = "rescan")]
     ELSE card' = [card EXCEPT !.busy = FALSE] /\ UNCHANGED <<rev, reads>>
  /\ UNCHANGED <<docs, backup, imported, imports, spent>>

OthersWrite(ns, section) ==
  /\ spent < MaxSpent
  /\ spent' = spent + 1
  /\ docs' = [docs EXCEPT ![ns] = section] /\ Bump(ns)
  /\ UNCHANGED <<backup, imported, card, reads, edit, imports>>

Importing(i) ==
  \/ \E ok \in BOOLEAN : ImportReads(i, ok)
  \/ CopyLands(i) \/ CopyRefused(i)
  \/ \E ns \in Namespaces : WriteLands(i, ns) \/ WriteRefused(i, ns)
  \/ ImportThrows(i)
  \/ ImportEnds(i)

Editing == \E ok \in BOOLEAN : EditReads(ok) \/ EditEnds(ok)

Next ==
  \/ LoadAnswers
  \/ \E snapshot \in Files \union ({backup} \ {None}) : Preview(snapshot)
  \/ FileFails
  \/ Cancel
  \/ \E choice \in Choices : Confirm(choice)
  \/ \E i \in DOMAIN imports : Importing(i)
  \/ \E kind \in {"profile", "rescan"} : EditStarts(kind)
  \/ Editing
  \/ \E ns \in Namespaces, section \in Foreign : OthersWrite(ns, section)

Spec == Init /\ [][Next]_vars

----------------------------------------------------------------------------
(* What the card promises.                                                 *)

\* The declared shape, with what relates its parts: a namespace's write has
\* ended one way at most, and only what was planned is written.
TypeOK ==
  /\ docs \in Sections /\ rev \in [Namespaces -> Nat]
  /\ backup \in Sections \union {None}
  /\ card \in Card
  /\ reads \subseteq {"load"}
  /\ \A i \in DOMAIN imports :
       LET im == imports[i]
       IN /\ im.ok \intersect im.failed = {}
          /\ \A ns \in im.ok \union im.failed : DOMAIN im.plan[ns] # {}
          /\ im.at = "report" =>
               im.ok \union im.failed = {ns \in Namespaces : DOMAIN im.plan[ns] # {}}

\* Every namespace an import writes goes from what it holds to what the plan
\* makes of exactly that: no change of another client, or of another window,
\* is lost to a plan computed before it.
Promise == INSTANCE AtomicImport WITH offered <- {imports[i].file : i \in DOMAIN imports}
ImportsAtomically == Promise!Spec

\* Nobody else has written since the import read: neither another client nor an
\* import this one overlaps.
Alone(im) == \A ns \in Namespaces : rev[ns] = im.fence[ns] + (IF ns \in im.ok THEN 1 ELSE 0)

\* What a copy can give back whole: not a provider without a single field, which
\* no import adds (wiring.ts:121), nor an effort where the settings do not
\* declare it, which an import moves to the section that does (plan.ts:69).
Restorable(read) ==
  /\ read["llm"].dict # Missing =>
       \A k \in DOMAIN read["llm"].dict : read["llm"].dict[k] # EmptyPart
  /\ EntryConfig /\ read["plugin"].effort = Missing => read["llm"].effort = Missing

\* The rollback copy is of the configuration that stands right before the
\* writes it is to undo: once an import has applied, or half of it, replacing
\* with that copy, wiring included, gives back what the import read, entry by
\* entry.
RollbackRestores ==
  \A i \in DOMAIN imports :
    LET im == imports[i]
        undo == PlanImport(backup, docs, "replace", TRUE)
    IN im.at = "report" /\ im.copied /\ Alone(im) /\ Restorable(im.read) =>
         \A ns \in Namespaces : Declared(ns, Written(docs[ns], undo[ns])) = Declared(ns, im.read[ns])

\* An import the user did not opt into wiring with leaves no endpoint,
\* credential or script in the settings that was not there before, in the very
\* same place, and takes none away from an item it keeps.
WiringStaysHome ==
  [][\A ns \in Namespaces :
       imported'[ns] # imported[ns] /\ docs'[ns].dict # Missing
         /\ (\E i \in DOMAIN imports : imports[i] # imports'[i] /\ ~imports[i].wire)
       => \A k \in DOMAIN docs'[ns].dict :
            docs'[ns].dict[k].wiring = Local(docs[ns].dict, k).wiring]_vars

\* What the card reports of an import is true of the settings: one reported as
\* applied, with nobody else writing meanwhile, leaves nothing of its file to
\* import in the same mode, so confirming it again is skipped (applySnapshot:
\* `outcomes`; planImport).  An import that could read nothing is left out: it
\* writes nothing and is reported as applied all the same.
AppliedMeansImported ==
  \A i \in DOMAIN imports :
    LET im == imports[i]
    IN im.at = "report" /\ Report(im) = "applied" /\ Alone(im) =>
         Empty(PlanImport(im.file, docs, im.mode, im.wire))
=============================================================================
