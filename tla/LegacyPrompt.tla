----------------------------- MODULE LegacyPrompt -----------------------------
(***************************************************************************)
(* The startup prompt (src/client/components/LegacyMigrationModal.tsx and  *)
(* src/client/legacy-migration.ts) beside the Host watcher it talks to.    *)
(* The two share the section only: the Client polls it and writes one      *)
(* decision into it, fenced with the revision it read.                     *)
(*                                                                         *)
(* A revision matters here only through the comparison the service makes,  *)
(* so a copy of the section carries `fresh`: no write has landed since it  *)
(* was read.  Reads answer in any order and after the phase they were      *)
(* scheduled for; one commit is under way at a time.                       *)
(***************************************************************************)
EXTENDS LegacyMigration

CONSTANT PollAttempts  \* POLL_ATTEMPTS, the reads one polling phase makes

ASSUME PollBound == PollAttempts \in Nat \ {0}

VARIABLES
  phase,    \* the phase of the modal; "later" lasts for the page load
  target,   \* the copy of the section the phase carries
  attempts, \* reads the current polling phase has scheduled
  reads,    \* the reads under way, each with the phase it was scheduled for
  commit,   \* the decision write under way
  shown     \* history: the offer on screen when the last decision was taken

promptVars == <<phase, target, attempts, reads, commit, shown>>
allVars == <<vars, promptVars>>

Polling == {"idle", "submitting"}
NoCopy == [pending |-> FALSE, failed |-> FALSE, signature |-> {}, fresh |-> FALSE]
Sent(k) == [for |-> k, at |-> "sent", copy |-> NoCopy]
NoCommit == [decision |-> "", copy |-> NoCopy]

PromptInit ==
  /\ Init
  /\ phase = "idle"
  /\ target = NoCopy
  /\ attempts = 1
  /\ reads = {Sent("idle")}
  /\ commit = NoCommit
  /\ shown = {}

----------------------------------------------------------------------------
(* Revisions.                                                              *)

\* What the prompt reads of the section (readLegacyMigration).
Read ==
  LET c == section.legacyMigration IN
  [pending |-> c.pending, failed |-> c.lastResult = "failed",
   signature |-> c.signature, fresh |-> TRUE]

\* Each landed write makes every copy of the section stale.
Stale(c) == [c EXCEPT !.fresh = FALSE]

SectionMoves ==
  /\ target' = Stale(target)
  /\ reads' = {[r EXCEPT !.copy = Stale(@)] : r \in reads}
  /\ commit' = [commit EXCEPT !.copy = Stale(@)]
  /\ UNCHANGED <<phase, attempts>>

----------------------------------------------------------------------------
(* The modal.                                                              *)

AttemptsLeft == attempts < PollAttempts

\* The poll timer schedules another read, within the attempts; the one before
\* it in this phase is taken to have answered within the interval.
PollTick ==
  /\ phase \in Polling
  /\ AttemptsLeft
  /\ \A r \in reads : r.for # phase
  /\ attempts' = attempts + 1
  /\ reads' = reads \union {Sent(phase)}
  /\ UNCHANGED <<vars, phase, target, commit, shown>>

\* A mutant of PollEnds: a submission nobody answers is left alone.
PollEndsSilently ==
  /\ phase = "submitting" /\ attempts = PollAttempts
  /\ attempts' = 0
  /\ UNCHANGED <<vars, phase, target, reads, commit, shown>>

\* The attempts ran out: a submission becomes an actionable failure, an idle
\* prompt stays closed.
PollEnds ==
  /\ phase = "submitting" /\ ~AttemptsLeft
  /\ phase' = "failed"
  /\ UNCHANGED <<vars, target, attempts, reads, commit, shown>>

\* describe samples the section.
ReadSampled ==
  \E k \in Polling :
    /\ Sent(k) \in reads
    /\ Served
    /\ reads' = (reads \ {Sent(k)}) \union
                 {[for |-> k, at |-> "sampled", copy |-> Read]}
    /\ UNCHANGED <<vars, phase, target, attempts, commit, shown>>

\* describe fails or no section is published: the next poll retries.
ReadAnswersNothing ==
  \E k \in Polling :
    /\ Sent(k) \in reads
    /\ reads' = reads \ {Sent(k)}
    /\ UNCHANGED <<vars, phase, target, attempts, commit, shown>>

\* setPhase to a phase that does not poll.
Show(p, copy) == phase' = p /\ target' = copy
Keep == UNCHANGED <<phase, target>>

\* A mutant of ReadSettles: a late failure reopens a postponed prompt.
ReadSettlesReopening(k, copy) ==
  \/ copy.failed /\ Show("failed", copy)
  \/ ~copy.failed /\ copy.pending /\ (IF phase = "idle" THEN Show("asking", copy) ELSE Keep)
  \/ ~copy.failed /\ ~copy.pending /\ (IF k = "submitting" THEN Show("later", NoCopy) ELSE Keep)

\* What the answer to a read scheduled in phase k does: the failure is checked
\* first, only an idle prompt opens, and only a submission is settled.
ReadSettles(k, copy) ==
  \/ copy.failed /\ (IF phase = "later" THEN Keep ELSE Show("failed", copy))
  \/ ~copy.failed /\ copy.pending /\ (IF phase = "idle" THEN Show("asking", copy) ELSE Keep)
  \/ ~copy.failed /\ ~copy.pending /\ (IF k = "submitting" THEN Show("later", NoCopy) ELSE Keep)

ReadAnswers ==
  \E r \in reads :
    /\ r.at = "sampled"
    /\ ReadSettles(r.for, r.copy)
    /\ reads' = reads \ {r}
    /\ UNCHANGED <<vars, attempts, commit, shown>>

Later ==
  /\ phase \in {"asking", "failed"}
  /\ Show("later", NoCopy)
  /\ UNCHANGED <<vars, attempts, reads, commit, shown>>

\* commit(): the phase changes, the fenced write is sent, and the effect of the
\* new phase schedules its first read.
Commit(d) ==
  /\ phase \in {"asking", "failed"}
  /\ commit = NoCommit
  /\ spent.decisions < MaxDecisions
  /\ phase' = "submitting"
  /\ commit' = [decision |-> d, copy |-> target]
  /\ attempts' = 1
  /\ reads' = reads \union {Sent("submitting")}
  /\ UNCHANGED <<vars, target, shown>>

\* A mutant of Fenced: the write is sent without the revision.
FencedNever == TRUE

\* The revision the decision carries is still the section's.
Fenced == commit.copy.fresh

CommitLands ==
  /\ commit # NoCommit
  /\ Fenced
  /\ Decide(commit.decision)
  /\ target' = Stale(target)
  /\ reads' = {[r EXCEPT !.copy = Stale(@)] : r \in reads}
  /\ commit' = NoCommit
  /\ shown' = commit.copy.signature
  /\ UNCHANGED <<phase, attempts>>

\* A conflict, or a host that is gone: the catch keeps the target it was given.
CommitRefused ==
  /\ commit # NoCommit
  /\ ~Fenced \/ ~Served
  /\ phase' = "failed"
  /\ target' = commit.copy
  /\ commit' = NoCommit
  /\ UNCHANGED <<vars, attempts, reads, shown>>

----------------------------------------------------------------------------
(* The Host beside it.                                                     *)

HostQuiet ==
  /\ HostInternal \/ HostRefused \/ Process \/ LegacyChanges
  /\ UNCHANGED promptVars

\* The Host's writes move the section.
HostMoves == HostWrites /\ SectionMoves /\ UNCHANGED shown

\* Other writers: a settings panel, and the rescan button of the backup card,
\* which fences its decision with a revision it has just described.
OthersMove ==
  /\ UserEdits \/ Decide("scan")
  /\ SectionMoves
  /\ UNCHANGED shown

Modal ==
  \/ PollTick \/ PollEnds \/ ReadSampled \/ ReadAnswersNothing \/ ReadAnswers
  \/ Later \/ Commit("migrate") \/ Commit("dismiss")
  \/ CommitLands \/ CommitRefused

PromptNext == HostQuiet \/ HostMoves \/ OthersMove \/ Modal

PromptSpec == PromptInit /\ [][PromptNext]_allVars

\* The interval fires, and describe and mutate answer.
PromptFairness ==
  /\ WF_allVars(PollTick) /\ WF_allVars(PollEnds)
  /\ WF_allVars(ReadSampled \/ ReadAnswersNothing) /\ WF_allVars(ReadAnswers)

FairPromptSpec == PromptSpec /\ PromptFairness

----------------------------------------------------------------------------
(* Properties.                                                             *)

\* The offer a dismissal silences is the one the user was shown, whatever the
\* Host published meanwhile (writeLegacyDecision: the revision fence; pass:
\* `dismiss(before?.signature)`).
DismissesWhatWasShown ==
  [][HostWrites /\ section'.legacyMigration.dismissedSignature
                     # section.legacyMigration.dismissedSignature
     => section'.legacyMigration.dismissedSignature = shown]_allVars

\* A postponed prompt stays closed for the page load: no late read reopens it,
\* only the refusal of a decision that was still under way (read: `later` is
\* sticky).
LaterIsSticky ==
  [][phase = "later" => phase' = "later" \/ CommitRefused]_allVars

\* The dialog never stays disabled: a submission ends (the poll attempts).
PromptSettles == phase = "submitting" ~> phase # "submitting"
=============================================================================
