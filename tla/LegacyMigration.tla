--------------------------- MODULE LegacyMigration ---------------------------
(***************************************************************************)
(* The Host side of the legacy-data migration (src/host/legacy-watcher.ts, *)
(* legacy-apply.ts, legacy-scan.ts): a watcher that scans the documents    *)
(* the 0.1.7 rename stranded, publishes an offer in the plugin's own       *)
(* section, and acts on the decision a client writes there.                *)
(*                                                                         *)
(* The settings service and the documents are external.  The section is    *)
(* one variable; every write lands in one step and raises the change event *)
(* from inside it.  Between the read a pass starts from and the landing of *)
(* its writes the pass awaits the documents and the service, so edits and  *)
(* decisions of clients may land in between.                               *)
(*                                                                         *)
(* Data: a value is "unset", "user" (declared by the user) or "legacy"     *)
(* (written by the migration).  A signature is the candidate set it        *)
(* digests; `candidates` is that set while the offer is pending and empty  *)
(* otherwise, so it is not a field of its own.                             *)
(***************************************************************************)
EXTENDS Naturals

CONSTANTS
  Paths,               \* the setting paths the plugin owns
  MaxMigrationPasses,  \* MAX_MIGRATION_PASSES, the passes of one chain
  MaxDecisions,        \* bound: decisions clients write
  MaxEdits,            \* bound: values clients edit
  MaxLegacyChanges,    \* bound: changes of the stranded documents
  MaxFaults,           \* bound: refused writes and unreadable documents
  MaxCrashes           \* bound: process crashes

ASSUME LegacyBounds ==
  /\ MaxMigrationPasses \in Nat \ {0}
  /\ {MaxDecisions, MaxEdits, MaxLegacyChanges, MaxFaults, MaxCrashes} \subseteq Nat

VARIABLES
  section,   \* the plugin's section of the settings document (persisted)
  legacy,    \* the paths the stranded documents declare (persisted)
  ready,     \* the section has materialized in the running process
  life,      \* "up", "disposed" (the effect's disposer ran), "down"
  inFlight, queued, passes, kick,   \* the watcher's closure, and its ctx.timeout
  pass,      \* the running pass
  declined,  \* history: the offer the last dismissal that landed was about
  spent      \* how much of each bound of the environment is used

hostVars == <<section, legacy, ready, declined>>
loopVars == <<inFlight, queued, passes, kick>>
vars == <<hostVars, life, loopVars, pass, spent>>

Value == {"unset", "user", "legacy"}
Values == [Paths -> Value]
Decision == {"", "migrate", "dismiss", "scan"}
Result == {"", "applied", "failed", "dismissed", "nothing-pending"}

Control == [pending : BOOLEAN, signature : SUBSET Paths,
            dismissedSignature : SUBSET Paths, decision : Decision, lastResult : Result]

\* `autoBackup` is the values part of the rollback snapshot.
Section == [values : Values, autoBackup : Values, legacyMigration : Control]

\* What one pass holds between its awaits.  `own` and `before` are the one read
\* it reasons about; `overtaken` is history: an edit landed since that read.
Pass == [at : {"idle", "scanning", "applying", "publishing", "ended"},
         own : Values, ownReady : BOOLEAN, before : Control,
         candidates : SUBSET Paths, snapshot : Values, publish : Control,
         overtaken : BOOLEAN]

Unset == [p \in Paths |-> "unset"]
NoControl == [pending |-> FALSE, signature |-> {}, dismissedSignature |-> {},
              decision |-> "", lastResult |-> ""]
IdlePass == [at |-> "idle", own |-> Unset, ownReady |-> FALSE, before |-> NoControl,
             candidates |-> {}, snapshot |-> Unset, publish |-> NoControl,
             overtaken |-> FALSE]

TypeOK ==
  /\ section \in Section
  /\ legacy \subseteq Paths
  /\ ready \in BOOLEAN
  /\ life \in {"up", "disposed", "down"}
  /\ inFlight \in BOOLEAN /\ queued \in BOOLEAN /\ kick \in BOOLEAN
  /\ passes \in 0..MaxMigrationPasses
  /\ pass \in Pass
  /\ declined \subseteq Paths
  /\ spent \in [decisions : 0..MaxDecisions, edits : 0..MaxEdits,
                changes : 0..MaxLegacyChanges, faults : 0..MaxFaults,
                crashes : 0..MaxCrashes]

Init ==
  /\ section = [values |-> Unset, autoBackup |-> Unset, legacyMigration |-> NoControl]
  /\ legacy = Paths
  /\ ready = FALSE
  /\ life = "down"
  /\ inFlight = FALSE /\ queued = FALSE /\ passes = 0 /\ kick = FALSE
  /\ pass = IdlePass
  /\ declined = {}
  /\ spent = [decisions |-> 0, edits |-> 0, changes |-> 0, faults |-> 0, crashes |-> 0]

----------------------------------------------------------------------------
(* Control objects the watcher publishes.  Each restates every field and   *)
(* clears `decision`; dismissedSignature is carried over from the section  *)
(* as it stands when the write is built.                                   *)

\* A mutant of Carried: a control write states the fields it cares about only.
CarriedNever == {}

Carried == IF ready THEN section.legacyMigration.dismissedSignature ELSE {}

Publish(pending, sig, dismissed, result) ==
  [pending |-> pending, signature |-> sig, dismissedSignature |-> dismissed,
   decision |-> "", lastResult |-> result]

Arm(c) == Publish(TRUE, c, Carried, "")
SettleEmpty(result) == Publish(FALSE, {}, Carried, result)
Dismissal(sig) == Publish(FALSE, sig, sig, "dismissed")
Applied(c) == Publish(FALSE, c, Carried, "applied")
\* A refused batch keeps the offer up so the prompt can offer a retry.
Failed(c) == Publish(TRUE, c, Carried, "failed")

----------------------------------------------------------------------------
(* One pass.                                                               *)

\* A mutant of Candidates: a value the section declares is offered again.
CandidatesIgnoringDeclared(own) == legacy

\* scanLegacyData: what the documents state and the own layer does not declare.
Candidates(own) == {p \in legacy : own[p] = "unset"}

\* The pass reads the section once; a dismissal needs no scan.
StartPass(s, rdy) ==
  LET before == IF rdy THEN s.legacyMigration ELSE NoControl IN
  pass' = [IdlePass EXCEPT
             !.at = IF before.decision = "dismiss" THEN "publishing" ELSE "scanning",
             !.own = IF rdy THEN s.values ELSE Unset,
             !.ownReady = rdy,
             !.before = before,
             !.publish = IF before.decision = "dismiss"
                           THEN Dismissal(before.signature) ELSE NoControl]

To(at, c, obj) ==
  pass' = [pass EXCEPT !.at = at, !.candidates = c, !.publish = obj]

\* The scan's answer to `decision = migrate`: the batch, with the rollback
\* snapshot built from the section as it stands now, or an empty settlement.
AnswerMigrate(c) ==
  IF c = {} THEN To("publishing", c, SettleEmpty(""))
  ELSE pass' = [pass EXCEPT !.at = "applying", !.candidates = c, !.snapshot = section.values]

AnswerScan(c) ==
  To("publishing", c, IF c = {} THEN SettleEmpty("nothing-pending") ELSE Arm(c))

\* A mutant of Reconcile: an absent own layer is taken for an empty one.
ReconcileUnread(c) ==
  \/ /\ c = {} /\ pass.before.pending
     /\ To("publishing", c, SettleEmpty(""))
  \/ /\ c # {} /\ c # pass.before.dismissedSignature
     /\ ~(pass.before.pending /\ pass.before.signature = c)
     /\ To("publishing", c, Arm(c))
  \/ /\ \/ c = {} /\ ~pass.before.pending
        \/ c # {} /\ c = pass.before.dismissedSignature
        \/ c # {} /\ pass.before.pending /\ pass.before.signature = c
     /\ To("ended", c, NoControl)

\* No decision: retire a stale offer, or arm one that is neither declined nor
\* already up.
Reconcile(c) ==
  LET silenced == c = pass.before.dismissedSignature
      standing == pass.before.pending /\ pass.before.signature = c IN
  \/ /\ pass.ownReady /\ c = {} /\ pass.before.pending
     /\ To("publishing", c, SettleEmpty(""))
  \/ /\ pass.ownReady /\ c # {} /\ ~silenced /\ ~standing
     /\ To("publishing", c, Arm(c))
  \/ /\ \/ ~pass.ownReady
        \/ c = {} /\ ~pass.before.pending
        \/ c # {} /\ (silenced \/ standing)
     /\ To("ended", c, NoControl)

\* The scan returns c.
Answer(c) ==
  \/ pass.before.decision = "migrate" /\ AnswerMigrate(c)
  \/ pass.before.decision = "scan" /\ AnswerScan(c)
  \/ pass.before.decision = "" /\ Reconcile(c)

ScanEnds ==
  /\ pass.at = "scanning"
  /\ Answer(Candidates(pass.own))
  /\ UNCHANGED <<hostVars, life, loopVars, spent>>

\* Some documents could not be read; their values are silently not found.
ScanMissesDocuments ==
  /\ pass.at = "scanning"
  /\ spent.faults < MaxFaults
  /\ spent' = [spent EXCEPT !.faults = @ + 1]
  /\ \E found \in SUBSET Candidates(pass.own) \ {Candidates(pass.own)} : Answer(found)
  /\ UNCHANGED <<hostVars, life, loopVars>>

----------------------------------------------------------------------------
(* The chain of passes.                                                    *)

BeginChain(s, rdy) ==
  /\ inFlight' = TRUE
  /\ queued' = FALSE
  /\ passes' = 1
  /\ StartPass(s, rdy)

\* run(): coalesce into the running chain, or start one.
Run(s, rdy) ==
  \/ inFlight /\ queued' = TRUE /\ UNCHANGED <<inFlight, passes, pass>>
  \/ ~inFlight /\ BeginChain(s, rdy)

\* The event of the watcher's own write: the chain is in flight, so it is
\* queued; a disposed watcher no longer listens.
OwnEvent == queued' = (queued \/ life = "up")

\* A mutant of Rekick: a wakeup held past the budget is swallowed.
RekickNever == kick

\* A wakeup held past the budget starts a fresh chain.
Rekick == kick \/ (queued /\ life = "up")

Again == queued /\ passes < MaxMigrationPasses

\* A disposed watcher leaves the loop without another pass.
PassEnds ==
  /\ pass.at = "ended"
  /\ \/ /\ Again /\ life = "up"
        /\ queued' = FALSE
        /\ passes' = passes + 1
        /\ StartPass(section, ready)
        /\ UNCHANGED <<inFlight, kick>>
     \/ /\ ~(Again /\ life = "up")
        /\ queued' = (queued /\ ~Again)
        /\ inFlight' = FALSE
        /\ passes' = 0
        /\ kick' = Rekick
        /\ pass' = IdlePass
  /\ UNCHANGED <<hostVars, life, spent>>

\* ctx.timeout(run, 0).  It fires whether or not the section is published yet.
KickFires ==
  /\ life = "up" /\ kick
  /\ kick' = FALSE
  /\ Run(section, ready)
  /\ UNCHANGED <<hostVars, life, spent>>

----------------------------------------------------------------------------
(* Writes of the watcher, as the service applies them.                     *)

\* The batch lands: the snapshot first, then one value per candidate.
ApplyLands ==
  /\ pass.at = "applying"
  /\ section' = [section EXCEPT
       !.values = [p \in Paths |-> IF p \in pass.candidates THEN "legacy" ELSE @[p]],
       !.autoBackup = pass.snapshot]
  /\ To("publishing", pass.candidates, Applied(pass.candidates))
  /\ OwnEvent
  /\ UNCHANGED <<legacy, ready, declined, life, inFlight, passes, kick, spent>>

ApplyRefused ==
  /\ pass.at = "applying"
  /\ spent.faults < MaxFaults
  /\ spent' = [spent EXCEPT !.faults = @ + 1]
  /\ To("publishing", pass.candidates, Failed(pass.candidates))
  /\ UNCHANGED <<hostVars, life, loopVars>>

\* The control object is replaced whole.
PublishLands ==
  /\ pass.at = "publishing"
  /\ section' = [section EXCEPT !.legacyMigration = pass.publish]
  /\ pass' = [pass EXCEPT !.at = "ended"]
  /\ declined' = IF pass.before.decision = "dismiss" THEN pass.before.signature ELSE declined
  /\ OwnEvent
  /\ UNCHANGED <<legacy, ready, life, inFlight, passes, kick, spent>>

\* The pass throws; the chain logs it and goes on.
PublishRefused ==
  /\ pass.at = "publishing"
  /\ spent.faults < MaxFaults
  /\ spent' = [spent EXCEPT !.faults = @ + 1]
  /\ pass' = [pass EXCEPT !.at = "ended"]
  /\ UNCHANGED <<hostVars, life, loopVars>>

----------------------------------------------------------------------------
(* The process, the documents and the clients.                             *)

\* The plugin is applied: a deferred kick and an immediate run, whose section
\* may or may not be published yet.
Start ==
  /\ life = "down"
  /\ life' = "up"
  /\ kick' = TRUE
  /\ \E r \in BOOLEAN : ready' = r /\ BeginChain(section, r)
  /\ UNCHANGED <<section, legacy, declined, spent>>

SectionMaterializes ==
  /\ life = "up" /\ ~ready
  /\ ready' = TRUE
  /\ UNCHANGED <<section, legacy, declined, life, loopVars, pass, spent>>

\* The running pass finishes; nothing starts another.
Dispose ==
  /\ life = "up"
  /\ life' = "disposed"
  /\ kick' = FALSE
  /\ UNCHANGED <<hostVars, inFlight, queued, passes, pass, spent>>

\* The process dies; the section and the documents survive it.
Crash ==
  /\ life # "down"
  /\ spent.crashes < MaxCrashes
  /\ spent' = [spent EXCEPT !.crashes = @ + 1]
  /\ life' = "down"
  /\ ready' = FALSE
  /\ inFlight' = FALSE /\ queued' = FALSE /\ passes' = 0 /\ kick' = FALSE
  /\ pass' = IdlePass
  /\ UNCHANGED <<section, legacy, declined>>

\* The change event reaches the watcher; s is the section after the write.  The
\* running pass is overtaken when the write changed a value.
Notified(s) ==
  /\ \/ /\ life = "up" /\ ~inFlight
        /\ BeginChain(s, ready)
     \/ /\ ~(life = "up" /\ ~inFlight)
        /\ OwnEvent
        /\ pass' = [pass EXCEPT !.overtaken = (@ \/ s.values # section.values) /\ inFlight]
        /\ UNCHANGED <<inFlight, passes>>
  /\ UNCHANGED <<ready, life, kick>>

\* A write of a client lands and raises the event.
ClientWrites(s) == section' = s /\ Notified(s) /\ UNCHANGED <<legacy, declined>>

\* A client reaches the section only while a process serves it.
Served == life # "down" /\ ready

UserEdits ==
  /\ Served
  /\ spent.edits < MaxEdits
  /\ spent' = [spent EXCEPT !.edits = @ + 1]
  /\ \E p \in Paths, v \in {"unset", "user"} :
       /\ section.values[p] # v
       /\ ClientWrites([section EXCEPT !.values[p] = v])

Decide(d) ==
  /\ Served
  /\ spent.decisions < MaxDecisions
  /\ spent' = [spent EXCEPT !.decisions = @ + 1]
  /\ ClientWrites([section EXCEPT !.legacyMigration.decision = d])

\* What the scan would find changes.  A document changes silently; the live
\* pi-ai section raises the event the watcher also listens to.
LegacyChanges ==
  /\ spent.changes < MaxLegacyChanges
  /\ spent' = [spent EXCEPT !.changes = @ + 1]
  /\ \E l \in SUBSET Paths \ {legacy} : legacy' = l
  /\ UNCHANGED <<section, declined>>
  /\ \/ UNCHANGED <<ready, life, loopVars, pass>>
     \/ Served /\ Notified(section)

----------------------------------------------------------------------------
HostInternal == ScanEnds \/ ScanMissesDocuments \/ PassEnds \/ KickFires
HostWrites == ApplyLands \/ PublishLands
HostRefused == ApplyRefused \/ PublishRefused
Process == Start \/ SectionMaterializes \/ Dispose \/ Crash

Host == HostInternal \/ HostWrites \/ HostRefused \/ Process

Next ==
  \/ Host
  \/ UserEdits
  \/ \E d \in Decision \ {""} : Decide(d)
  \/ LegacyChanges

Spec == Init /\ [][Next]_vars

\* Promises of the event loop, of the file system and of the service settle;
\* the process is started again and its section is published.
HostFairness ==
  /\ WF_vars(ScanEnds) /\ WF_vars(PassEnds) /\ WF_vars(KickFires)
  /\ WF_vars(ApplyLands) /\ WF_vars(PublishLands)
  /\ WF_vars(Start) /\ WF_vars(SectionMaterializes)

FairSpec == Spec /\ HostFairness

----------------------------------------------------------------------------
(* Properties.                                                             *)

\* A chain in flight owns exactly one pass, within the budget, and a wakeup the
\* budget outran is never swallowed: the timer that takes it up is armed
\* (installLegacyMigration, run).
OneChain ==
  /\ inFlight <=> pass.at # "idle"
  /\ inFlight <=> passes > 0
  /\ queued /\ ~inFlight /\ life = "up" => kick

\* An offer about to be published lists only paths the user's layer leaves
\* unset, a restart whose section is not readable yet included, unless an edit
\* landed while the pass was scanning (pass: one read decides, `ownLayer`).
OfferIsReal ==
  pass.at = "publishing" /\ pass.publish.pending /\ ~pass.overtaken
    => \A p \in pass.publish.signature : section.values[p] = "unset"

\* What a pass writes as values changes nothing the user declared, and the
\* rollback copy that lands with it is the state it extends, unless an edit
\* landed while the pass was under way (applyLegacyMigration, rollbackSnapshot).
MigrationIsReversible ==
  [][ApplyLands /\ ~pass.overtaken =>
       /\ section'.autoBackup = section.values
       /\ \A p \in Paths : section'.values[p] # section.values[p] =>
            section.values[p] = "unset" /\ section'.values[p] = "legacy"]_vars

\* The offer of the last dismissal that landed is not put up again by a pass
\* nobody asked for: its signature survives every control write in between
\* (of scans, migrations, retired and other offers) and every restart, though
\* each of them replaces the object whole (publish: `dismissedSignature`; pass:
\* `fresh.signature === before?.dismissedSignature`).  One signature is kept:
\* declining a second offer forgets the first.
DismissedStaysSilent ==
  [][PublishLands /\ pass.publish.pending /\ pass.publish.signature = declined
     => pass.before.decision \in {"scan", "migrate"}]_vars

\* The decision d is owed an answer: a pass has read it, or its event is held
\* by a chain that has published, or the process was down when it stood.
Owed(d) ==
  /\ section.legacyMigration.decision = d
  /\ \/ pass.before.decision = d
     \/ pass.at = "ended" /\ queued
     \/ life = "down"

\* A pass that read the decision d has published its answer.
Answered(d) ==
  /\ pass.at = "ended" /\ pass.before.decision = d
  /\ section.legacyMigration = pass.publish

\* A decision that no control write is racing is read and answered, across
\* crashes and bursts that outrun the budget, unless another one replaces it, a
\* write is refused, the plugin is disposed, or the startup timer fires before
\* the section is published: then it waits for an event (run: the re-kick, and
\* the two kicks of a start).  One that lands between a pass's read and its
\* control write is outside the promise: that write clears `decision` unfenced
\* and may erase it unread (publish).
DecisionAnswered ==
  \A d \in Decision \ {""} :
    Owed(d) ~> \/ Answered(d)
               \/ section.legacyMigration.decision \notin {"", d}
               \/ spent.faults > 0
               \/ life = "disposed"
               \/ life = "up" /\ ~ready /\ ~kick
=============================================================================
