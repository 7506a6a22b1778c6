------------------------- MODULE LegacyMigrationProofs -------------------------
(***************************************************************************)
(* What LegacyMigration promises, and LegacyPrompt beside it, for every    *)
(* set of paths and every bound.                                           *)
(* A pass reasons from one read and writes after several awaits, so the    *)
(* inductive invariant says what that read still has to do with the        *)
(* section while the pass runs (Fits): its values until an edit overtakes  *)
(* the pass, its declined signature until the pass itself publishes one.   *)
(***************************************************************************)
EXTENDS LegacyPrompt, TLAPS

\* What the pass p may still rely on, the section being s.
Fits(p, s) ==
  /\ ~p.ownReady => p.before.decision = ""
  /\ p.at \in {"scanning", "applying"} /\ p.ownReady /\ ~p.overtaken => p.own = s.values
  /\ p.at \in {"scanning", "applying", "publishing"} /\ p.ownReady
       => p.before.dismissedSignature = s.legacyMigration.dismissedSignature
  /\ p.at = "applying" =>
       /\ p.before.decision = "migrate"
       /\ ~p.overtaken => /\ p.snapshot = s.values
                          /\ \A q \in p.candidates : s.values[q] = "unset"
  /\ p.at = "publishing" /\ p.publish.pending =>
       /\ ~p.overtaken => \A q \in p.publish.signature : s.values[q] = "unset"
       /\ p.before.decision \in {"scan", "migrate"}
            \/ p.publish.signature # s.legacyMigration.dismissedSignature

IInv == TypeOK /\ OneChain /\ Fits(pass, section)

LEMMA BoundsNat ==
  /\ MaxMigrationPasses \in Nat /\ MaxMigrationPasses > 0
  /\ MaxDecisions \in Nat /\ MaxEdits \in Nat /\ MaxLegacyChanges \in Nat
  /\ MaxFaults \in Nat /\ MaxCrashes \in Nat
BY LegacyBounds

----------------------------------------------------------------------------
(* Counters of the environment.                                            *)

Spent == [decisions : 0..MaxDecisions, edits : 0..MaxEdits, changes : 0..MaxLegacyChanges,
          faults : 0..MaxFaults, crashes : 0..MaxCrashes]

LEMMA SpendsDecision ==
  ASSUME NEW s \in Spent, s.decisions < MaxDecisions
  PROVE  [s EXCEPT !.decisions = @ + 1] \in Spent
<1> DEFINE n == s.decisions + 1
<1>1. n \in 0..MaxDecisions
  BY BoundsNat DEF Spent
<1> HIDE DEF n
<1>2. [s EXCEPT !.decisions = n] \in Spent
  BY <1>1 DEF Spent
<1> QED
  BY <1>2 DEF n

LEMMA SpendsEdit ==
  ASSUME NEW s \in Spent, s.edits < MaxEdits
  PROVE  [s EXCEPT !.edits = @ + 1] \in Spent
<1> DEFINE n == s.edits + 1
<1>1. n \in 0..MaxEdits
  BY BoundsNat DEF Spent
<1> HIDE DEF n
<1>2. [s EXCEPT !.edits = n] \in Spent
  BY <1>1 DEF Spent
<1> QED
  BY <1>2 DEF n

LEMMA SpendsChange ==
  ASSUME NEW s \in Spent, s.changes < MaxLegacyChanges
  PROVE  [s EXCEPT !.changes = @ + 1] \in Spent
<1> DEFINE n == s.changes + 1
<1>1. n \in 0..MaxLegacyChanges
  BY BoundsNat DEF Spent
<1> HIDE DEF n
<1>2. [s EXCEPT !.changes = n] \in Spent
  BY <1>1 DEF Spent
<1> QED
  BY <1>2 DEF n

LEMMA SpendsFault ==
  ASSUME NEW s \in Spent, s.faults < MaxFaults
  PROVE  [s EXCEPT !.faults = @ + 1] \in Spent
<1> DEFINE n == s.faults + 1
<1>1. n \in 0..MaxFaults
  BY BoundsNat DEF Spent
<1> HIDE DEF n
<1>2. [s EXCEPT !.faults = n] \in Spent
  BY <1>1 DEF Spent
<1> QED
  BY <1>2 DEF n

LEMMA SpendsCrash ==
  ASSUME NEW s \in Spent, s.crashes < MaxCrashes
  PROVE  [s EXCEPT !.crashes = @ + 1] \in Spent
<1> DEFINE n == s.crashes + 1
<1>1. n \in 0..MaxCrashes
  BY BoundsNat DEF Spent
<1> HIDE DEF n
<1>2. [s EXCEPT !.crashes = n] \in Spent
  BY <1>1 DEF Spent
<1> QED
  BY <1>2 DEF n

----------------------------------------------------------------------------
(* Control objects and passes.                                             *)

LEMMA PublishType ==
  ASSUME NEW pending \in BOOLEAN, NEW sig \in SUBSET Paths, NEW d \in SUBSET Paths,
         NEW r \in Result
  PROVE  /\ Publish(pending, sig, d, r) \in Control
         /\ Publish(pending, sig, d, r).pending = pending
         /\ Publish(pending, sig, d, r).signature = sig
         /\ Publish(pending, sig, d, r).dismissedSignature = d
BY DEF Publish, Control, Decision

LEMMA CarriedType == TypeOK => Carried \in SUBSET Paths
BY DEF TypeOK, Section, Control, Carried

LEMMA IdleType == IdlePass \in Pass /\ NoControl \in Control /\ Unset \in Values
BY DEF IdlePass, Pass, NoControl, Control, Unset, Values, Value, Decision, Result

\* A fresh pass fits the section it has just read.
LEMMA StartPassFits ==
  ASSUME NEW s \in Section, NEW rdy \in BOOLEAN, StartPass(s, rdy)
  PROVE  pass' \in Pass /\ pass'.at # "idle" /\ Fits(pass', s)
<1> DEFINE b == IF rdy THEN s.legacyMigration ELSE NoControl
           o == IF rdy THEN s.values ELSE Unset
           a == IF b.decision = "dismiss" THEN "publishing" ELSE "scanning"
           c == IF b.decision = "dismiss" THEN Dismissal(b.signature) ELSE NoControl
<1>1. b \in Control /\ o \in Values
  BY IdleType DEF Section
<1>2. b.signature \in SUBSET Paths
  BY <1>1 DEF Control
<1>3. c \in Control /\ ~c.pending
  BY <1>2, IdleType, PublishType DEF Dismissal, Result, NoControl
<1>4. pass' = [IdlePass EXCEPT !.at = a, !.own = o, !.ownReady = rdy, !.before = b,
                               !.publish = c]
  BY DEF StartPass
<1>5. ~rdy => b.decision = ""
  BY DEF NoControl
<1>6. rdy => o = s.values /\ b.dismissedSignature = s.legacyMigration.dismissedSignature
  OBVIOUS
<1>7. a \in {"publishing", "scanning"}
  OBVIOUS
<1> HIDE DEF a, b, c, o
<1>8. /\ pass' \in Pass /\ pass'.at = a /\ pass'.own = o /\ pass'.ownReady = rdy
      /\ pass'.before = b /\ pass'.publish = c
  BY <1>1, <1>3, <1>4, <1>7, IdleType DEF Pass
<1> QED
  BY <1>3, <1>5, <1>6, <1>7, <1>8 DEF Fits


LEMMA IdleFits == ASSUME NEW s PROVE Fits(IdlePass, s)
BY DEF Fits, IdlePass, NoControl

LEMMA ToType ==
  ASSUME pass \in Pass, NEW at \in {"scanning", "applying", "publishing", "ended"},
         NEW c \in SUBSET Paths, NEW obj \in Control, To(at, c, obj)
  PROVE  /\ pass' \in Pass /\ pass'.at = at /\ pass'.publish = obj
         /\ pass'.own = pass.own /\ pass'.ownReady = pass.ownReady
         /\ pass'.before = pass.before /\ pass'.overtaken = pass.overtaken
BY DEF To, Pass

\* A scan may find less than the read leaves unset, never more.
LEMMA AnswerFits ==
  ASSUME TypeOK, Fits(pass, section), pass.at = "scanning",
         NEW c, c \subseteq Candidates(pass.own), Answer(c)
  PROVE  pass' \in Pass /\ pass'.at # "idle" /\ Fits(pass', section)
<1>1. /\ pass \in Pass /\ section \in Section /\ Carried \in SUBSET Paths
      /\ c \in SUBSET Paths
  BY CarriedType DEF TypeOK, Candidates
<1>2. pass.ownReady /\ ~pass.overtaken => \A q \in c : section.values[q] = "unset"
  BY DEF Fits, Candidates
<1>3. pass.ownReady =>
        pass.before.dismissedSignature = section.legacyMigration.dismissedSignature
  BY DEF Fits
<1>4. ~pass.ownReady => pass.before.decision = ""
  BY DEF Fits
<1>5. /\ Arm(c) \in Control /\ Arm(c).signature = c
      /\ \A r \in Result : SettleEmpty(r) \in Control /\ ~SettleEmpty(r).pending
  BY <1>1, PublishType DEF Arm, SettleEmpty, Result
<1>6. NoControl \in Control /\ "" \in Result /\ "nothing-pending" \in Result
  BY IdleType DEF Result
<1>7. ASSUME NEW r \in Result, To("publishing", c, SettleEmpty(r))
      PROVE  pass' \in Pass /\ pass'.at # "idle" /\ Fits(pass', section)
  <2> HIDE DEF SettleEmpty
  <2>1. /\ pass' \in Pass /\ pass'.at = "publishing" /\ ~pass'.publish.pending
        /\ pass'.ownReady = pass.ownReady /\ pass'.before = pass.before
    BY <1>1, <1>5, <1>7, ToType
  <2> QED
    BY <1>3, <1>4, <2>1 DEF Fits
<1>8. ASSUME To("publishing", c, Arm(c)), pass.ownReady,
             pass.before.decision = "scan" \/ c # pass.before.dismissedSignature
      PROVE  pass' \in Pass /\ pass'.at # "idle" /\ Fits(pass', section)
  <2>1. /\ pass' \in Pass /\ pass'.at = "publishing" /\ pass'.publish.signature = c
        /\ pass'.ownReady = pass.ownReady /\ pass'.before = pass.before
        /\ pass'.overtaken = pass.overtaken
    BY <1>1, <1>5, <1>8, ToType
  <2> QED
    BY <1>2, <1>3, <1>8, <2>1 DEF Fits
<1>9. CASE pass.before.decision = "migrate" /\ AnswerMigrate(c)
  <2>1. CASE c = {}
    BY <1>6, <1>7, <1>9, <2>1 DEF AnswerMigrate
  <2>2. CASE c # {}
    <3>1. pass' = [pass EXCEPT !.at = "applying", !.candidates = c,
                               !.snapshot = section.values]
      BY <1>9, <2>2 DEF AnswerMigrate
    <3>2. /\ pass' \in Pass /\ pass'.at = "applying" /\ pass'.candidates = c
          /\ pass'.snapshot = section.values /\ pass'.own = pass.own
          /\ pass'.ownReady = pass.ownReady /\ pass'.before = pass.before
          /\ pass'.overtaken = pass.overtaken
      BY <1>1, <3>1 DEF Pass, Section
    <3> QED
      BY <1>2, <1>3, <1>4, <1>9, <3>2 DEF Fits
  <2> QED
    BY <2>1, <2>2
<1>10. CASE pass.before.decision = "scan" /\ AnswerScan(c)
  <2>1. pass.ownReady
    BY <1>4, <1>10
  <2>2. CASE c = {}
    BY <1>6, <1>7, <1>10, <2>2 DEF AnswerScan
  <2>3. CASE c # {}
    BY <1>8, <1>10, <2>1, <2>3 DEF AnswerScan
  <2> QED
    BY <2>2, <2>3
<1>11. CASE pass.before.decision = "" /\ Reconcile(c)
  <2>1. CASE To("publishing", c, SettleEmpty(""))
    BY <1>6, <1>7, <2>1
  <2>2. CASE pass.ownReady /\ c # pass.before.dismissedSignature /\ To("publishing", c, Arm(c))
    BY <1>8, <2>2
  <2>3. CASE To("ended", c, NoControl)
    <3>1. /\ pass' \in Pass /\ pass'.at = "ended" /\ pass'.ownReady = pass.ownReady
          /\ pass'.before = pass.before
      BY <1>1, <1>6, <2>3, ToType
    <3> QED
      BY <1>4, <3>1 DEF Fits
  <2> QED
    BY <1>11, <2>1, <2>2, <2>3 DEF Reconcile
<1> QED
  BY <1>9, <1>10, <1>11 DEF Answer

\* A write that keeps the declined signature leaves the running pass fitting, as
\* overtaken if it changed a value.
LEMMA NotifiedFits ==
  ASSUME TypeOK, OneChain, Fits(pass, section), NEW s \in Section,
         s.legacyMigration.dismissedSignature = section.legacyMigration.dismissedSignature,
         Notified(s)
  PROVE  /\ pass' \in Pass /\ Fits(pass', s) /\ OneChain'
         /\ inFlight' \in BOOLEAN /\ queued' \in BOOLEAN
         /\ passes' \in 0..MaxMigrationPasses
         /\ UNCHANGED <<ready, life, kick>>
<1>1. /\ pass \in Pass /\ inFlight \in BOOLEAN /\ queued \in BOOLEAN /\ ready \in BOOLEAN
      /\ passes \in 0..MaxMigrationPasses
  BY DEF TypeOK
<1>2. UNCHANGED <<ready, life, kick>>
  BY DEF Notified
<1>3. CASE ~inFlight /\ BeginChain(s, ready)
  <2>1. /\ pass' \in Pass /\ pass'.at # "idle" /\ Fits(pass', s)
        /\ inFlight' = TRUE /\ queued' = FALSE /\ passes' = 1
    BY <1>1, <1>3, StartPassFits DEF BeginChain
  <2>2. OneChain'
    BY <2>1 DEF OneChain
  <2>3. passes' \in 0..MaxMigrationPasses
    BY <2>1, BoundsNat
  <2> QED
    BY <1>2, <2>1, <2>2, <2>3
<1>4. CASE /\ ~(life = "up" /\ ~inFlight)
           /\ OwnEvent
           /\ pass' = [pass EXCEPT !.overtaken = (@ \/ s.values # section.values) /\ inFlight]
           /\ UNCHANGED <<inFlight, passes>>
  <2> DEFINE v == (pass.overtaken \/ s.values # section.values) /\ inFlight
  <2>1. v \in BOOLEAN
    OBVIOUS
  <2>2. ~v /\ inFlight => ~pass.overtaken /\ s.values = section.values
    BY <1>1 DEF Pass
  <2>3. pass' = [pass EXCEPT !.overtaken = v]
    BY <1>4
  <2> HIDE DEF v
  <2>4. /\ pass' \in Pass /\ pass'.overtaken = v /\ pass'.at = pass.at
        /\ pass'.own = pass.own /\ pass'.ownReady = pass.ownReady
        /\ pass'.before = pass.before /\ pass'.candidates = pass.candidates
        /\ pass'.snapshot = pass.snapshot /\ pass'.publish = pass.publish
    BY <1>1, <2>1, <2>3 DEF Pass
  <2>5. ~inFlight => pass.at = "idle"
    BY DEF OneChain
  <2>6. Fits(pass', s)
    BY <2>2, <2>4, <2>5 DEF Fits
  <2>7. queued' \in BOOLEAN
    BY <1>1, <1>4 DEF OwnEvent
  <2>8. OneChain'
    BY <1>2, <1>4, <2>4 DEF OneChain, OwnEvent
  <2> QED
    BY <1>1, <1>2, <1>4, <2>4, <2>6, <2>7, <2>8
<1> QED
  BY <1>2, <1>3, <1>4 DEF Notified

----------------------------------------------------------------------------
(* The inductive invariant.                                                *)

LEMMA InitInv == Init => IInv
<1> SUFFICES ASSUME Init PROVE IInv
  OBVIOUS
<1>1. section \in Section
  BY IdleType DEF Init, Section
<1>2. spent \in Spent
  <2>1. /\ 0 \in 0..MaxDecisions /\ 0 \in 0..MaxEdits /\ 0 \in 0..MaxLegacyChanges
        /\ 0 \in 0..MaxFaults /\ 0 \in 0..MaxCrashes
    BY BoundsNat
  <2>2. spent = [decisions |-> 0, edits |-> 0, changes |-> 0, faults |-> 0, crashes |-> 0]
    BY DEF Init
  <2> QED
    BY <2>1, <2>2 DEF Spent
<1>3. passes \in 0..MaxMigrationPasses
  BY BoundsNat DEF Init
<1>4. pass = IdlePass /\ pass.at = "idle"
  BY DEF Init, IdlePass
<1>5. TypeOK
  BY <1>1, <1>2, <1>3, <1>4, IdleType DEF Init, TypeOK, Spent
<1>6. OneChain
  BY <1>4 DEF Init, OneChain
<1> QED
  BY <1>4, <1>5, <1>6, IdleFits DEF IInv

LEMMA NextInv == IInv /\ [Next]_vars => IInv'
<1> SUFFICES ASSUME IInv, [Next]_vars PROVE IInv'
  OBVIOUS
<1>1. /\ TypeOK /\ OneChain /\ Fits(pass, section)
      /\ section \in Section /\ legacy \subseteq Paths /\ ready \in BOOLEAN
      /\ life \in {"up", "disposed", "down"}
      /\ inFlight \in BOOLEAN /\ queued \in BOOLEAN /\ kick \in BOOLEAN
      /\ passes \in 0..MaxMigrationPasses /\ pass \in Pass /\ spent \in Spent
      /\ declined \subseteq Paths
  BY DEF IInv, TypeOK, Spent
<1>2. ASSUME /\ section' \in Section /\ legacy' \subseteq Paths /\ ready' \in BOOLEAN
             /\ life' \in {"up", "disposed", "down"}
             /\ inFlight' \in BOOLEAN /\ queued' \in BOOLEAN /\ kick' \in BOOLEAN
             /\ passes' \in 0..MaxMigrationPasses /\ pass' \in Pass /\ spent' \in Spent
             /\ declined' \subseteq Paths,
             OneChain', Fits(pass', section')
      PROVE  IInv'
  BY <1>2 DEF IInv, TypeOK, Spent
<1>3. CASE ScanEnds \/ ScanMissesDocuments
  <2>1. /\ pass.at = "scanning" /\ UNCHANGED <<hostVars, life, loopVars>>
        /\ \E c \in SUBSET Candidates(pass.own) : Answer(c)
    BY <1>3 DEF ScanEnds, ScanMissesDocuments
  <2>2. pass' \in Pass /\ pass'.at # "idle" /\ Fits(pass', section)
    <3>1. PICK c \in SUBSET Candidates(pass.own) : Answer(c)
      BY <2>1
    <3> QED
      BY <1>1, <2>1, <3>1, AnswerFits
  <2>3. spent' \in Spent
    BY <1>1, <1>3, SpendsFault DEF ScanEnds, ScanMissesDocuments
  <2>4. OneChain'
    BY <1>1, <2>1, <2>2 DEF OneChain, loopVars
  <2> QED
    BY <1>1, <1>2, <2>1, <2>2, <2>3, <2>4 DEF hostVars, loopVars
<1>4. CASE PassEnds
  <2>1. UNCHANGED <<hostVars, life, spent>> /\ pass.at = "ended"
    BY <1>4 DEF PassEnds
  <2>2. CASE /\ Again /\ life = "up" /\ queued' = FALSE /\ passes' = passes + 1
             /\ StartPass(section, ready) /\ UNCHANGED <<inFlight, kick>>
    <3>1. pass' \in Pass /\ pass'.at # "idle" /\ Fits(pass', section)
      BY <1>1, <2>2, StartPassFits
    <3>2. passes' \in 0..MaxMigrationPasses /\ passes' > 0
      BY <1>1, <2>2, BoundsNat DEF Again
    <3>3. inFlight
      BY <1>1, <2>1 DEF OneChain
    <3>4. OneChain'
      BY <2>1, <2>2, <3>1, <3>2, <3>3 DEF OneChain
    <3> QED
      BY <1>1, <1>2, <2>1, <2>2, <3>1, <3>2, <3>4 DEF hostVars
  <2>3. CASE /\ ~(Again /\ life = "up") /\ queued' = (queued /\ ~Again)
             /\ inFlight' = FALSE /\ passes' = 0 /\ kick' = Rekick /\ pass' = IdlePass
    <3>1. pass' \in Pass /\ pass'.at = "idle" /\ Fits(pass', section)
      BY <2>3, IdleType, IdleFits DEF IdlePass
    <3>2. passes' \in 0..MaxMigrationPasses
      BY <2>3, BoundsNat
    <3>3. kick' \in BOOLEAN /\ queued' \in BOOLEAN
      BY <1>1, <2>3 DEF Rekick
    <3>4. queued' /\ life = "up" => kick'
      BY <2>3 DEF Rekick
    <3>5. OneChain'
      BY <2>1, <2>3, <3>1, <3>4 DEF OneChain
    <3> QED
      BY <1>1, <1>2, <2>1, <2>3, <3>1, <3>2, <3>3, <3>5 DEF hostVars
  <2> QED
    BY <1>4, <2>2, <2>3 DEF PassEnds
<1>5. CASE KickFires
  <2>1. UNCHANGED <<hostVars, life, spent>> /\ kick' = FALSE
    BY <1>5 DEF KickFires
  <2>2. CASE inFlight /\ queued' = TRUE /\ UNCHANGED <<inFlight, passes, pass>>
    <3>1. OneChain'
      BY <1>1, <2>2 DEF OneChain
    <3> QED
      BY <1>1, <1>2, <2>1, <2>2, <3>1 DEF hostVars
  <2>3. CASE ~inFlight /\ BeginChain(section, ready)
    <3>1. /\ pass' \in Pass /\ pass'.at # "idle" /\ Fits(pass', section)
          /\ inFlight' = TRUE /\ queued' = FALSE /\ passes' = 1
      BY <1>1, <2>3, StartPassFits DEF BeginChain
    <3>2. passes' \in 0..MaxMigrationPasses
      BY <3>1, BoundsNat
    <3>3. OneChain'
      BY <3>1 DEF OneChain
    <3> QED
      BY <1>1, <1>2, <2>1, <3>1, <3>2, <3>3 DEF hostVars
  <2> QED
    BY <1>5, <2>2, <2>3 DEF KickFires, Run
<1>6. CASE ApplyLands
  <2> DEFINE v == [p \in Paths |-> IF p \in pass.candidates THEN "legacy"
                                   ELSE section.values[p]]
  <2>1. v \in Values /\ pass.snapshot \in Values /\ pass.candidates \in SUBSET Paths
    BY <1>1 DEF Section, Values, Value, Pass
  <2>2. section' = [section EXCEPT !.values = v, !.autoBackup = pass.snapshot]
    BY <1>6 DEF ApplyLands
  <2> HIDE DEF v
  <2>3. section' \in Section /\ section'.legacyMigration = section.legacyMigration
    BY <1>1, <2>1, <2>2 DEF Section
  <2>4. Applied(pass.candidates) \in Control /\ ~Applied(pass.candidates).pending
    BY <1>1, <2>1, CarriedType, PublishType DEF Applied, Result
  <2>5. /\ pass' \in Pass /\ pass'.at = "publishing" /\ ~pass'.publish.pending
        /\ pass'.ownReady = pass.ownReady /\ pass'.before = pass.before
    BY <1>1, <1>6, <2>1, <2>4, ToType DEF ApplyLands
  <2>6. Fits(pass', section')
    BY <1>1, <1>6, <2>3, <2>5 DEF Fits, ApplyLands
  <2>7. UNCHANGED <<legacy, ready, declined, life, inFlight, passes, kick, spent>>
        /\ queued' \in BOOLEAN /\ inFlight
    BY <1>1, <1>6 DEF ApplyLands, OwnEvent, OneChain
  <2>8. OneChain'
    BY <1>1, <2>5, <2>7 DEF OneChain
  <2> QED
    BY <1>1, <1>2, <2>3, <2>5, <2>6, <2>7, <2>8
<1>7. CASE ApplyRefused
  <2>1. pass.candidates \in SUBSET Paths
    BY <1>1 DEF Pass
  <2>2. /\ Failed(pass.candidates) \in Control
        /\ Failed(pass.candidates).signature = pass.candidates
    <3>1. Carried \in SUBSET Paths /\ TRUE \in BOOLEAN /\ "failed" \in Result
      BY <1>1, CarriedType DEF Result
    <3> QED
      BY <2>1, <3>1 DEF Failed, Publish, Control, Decision
  <2>3. /\ pass' \in Pass /\ pass'.at = "publishing"
        /\ pass'.publish.signature = pass.candidates
        /\ pass'.ownReady = pass.ownReady /\ pass'.before = pass.before
        /\ pass'.overtaken = pass.overtaken
    BY <1>1, <1>7, <2>1, <2>2, ToType DEF ApplyRefused
  <2>4. Fits(pass', section)
    BY <1>1, <1>7, <2>3 DEF Fits, ApplyRefused
  <2>5. UNCHANGED <<hostVars, life, loopVars>> /\ spent' \in Spent
    BY <1>1, <1>7, SpendsFault DEF ApplyRefused
  <2>6. OneChain'
    BY <1>1, <1>7, <2>3, <2>5 DEF OneChain, loopVars, ApplyRefused
  <2> QED
    BY <1>1, <1>2, <2>3, <2>4, <2>5, <2>6 DEF hostVars, loopVars
<1>8. CASE PublishLands
  <2>1. section' = [section EXCEPT !.legacyMigration = pass.publish]
        /\ pass' = [pass EXCEPT !.at = "ended"] /\ pass.at = "publishing"
    BY <1>8 DEF PublishLands
  <2>2. section' \in Section
    BY <1>1, <2>1 DEF Section, Pass
  <2>3. /\ pass' \in Pass /\ pass'.at = "ended" /\ pass'.ownReady = pass.ownReady
        /\ pass'.before = pass.before
    BY <1>1, <2>1 DEF Pass
  <2>4. Fits(pass', section')
    BY <1>1, <2>3 DEF Fits
  <2>5. UNCHANGED <<legacy, ready, life, inFlight, passes, kick, spent>>
        /\ queued' \in BOOLEAN /\ inFlight /\ declined' \subseteq Paths
    BY <1>1, <1>8 DEF PublishLands, OwnEvent, OneChain, Pass, Control
  <2>6. OneChain'
    BY <1>1, <2>3, <2>5 DEF OneChain
  <2> QED
    BY <1>1, <1>2, <2>2, <2>3, <2>4, <2>5, <2>6
<1>9. CASE PublishRefused
  <2>1. /\ pass' = [pass EXCEPT !.at = "ended"] /\ pass.at = "publishing"
        /\ UNCHANGED <<hostVars, life, loopVars>> /\ spent' \in Spent
    BY <1>1, <1>9, SpendsFault DEF PublishRefused
  <2>2. /\ pass' \in Pass /\ pass'.at = "ended" /\ pass'.ownReady = pass.ownReady
        /\ pass'.before = pass.before
    BY <1>1, <2>1 DEF Pass
  <2>3. Fits(pass', section) /\ OneChain'
    BY <1>1, <2>1, <2>2 DEF Fits, OneChain, loopVars
  <2> QED
    BY <1>1, <1>2, <2>1, <2>2, <2>3 DEF hostVars, loopVars
<1>10. CASE Start
  <2>1. PICK r \in BOOLEAN : ready' = r /\ BeginChain(section, r)
    BY <1>10 DEF Start
  <2>2. /\ pass' \in Pass /\ pass'.at # "idle" /\ Fits(pass', section)
        /\ inFlight' = TRUE /\ queued' = FALSE /\ passes' = 1
    BY <1>1, <2>1, StartPassFits DEF BeginChain
  <2>3. passes' \in 0..MaxMigrationPasses
    BY <2>2, BoundsNat
  <2>4. OneChain'
    BY <2>2 DEF OneChain
  <2>5. UNCHANGED <<section, legacy, declined, spent>> /\ life' = "up" /\ kick' = TRUE
    BY <1>10 DEF Start
  <2> QED
    BY <1>1, <1>2, <2>1, <2>2, <2>3, <2>4, <2>5
<1>11. CASE SectionMaterializes \/ Dispose
  <2>1. /\ UNCHANGED <<section, legacy, declined, inFlight, queued, passes, pass, spent>>
        /\ ready' \in BOOLEAN /\ kick' \in BOOLEAN /\ life' \in {"up", "disposed", "down"}
        /\ life' = "up" => life = "up" /\ kick' = kick
    BY <1>1, <1>11 DEF SectionMaterializes, Dispose, loopVars, hostVars
  <2>2. OneChain' /\ Fits(pass', section')
    BY <1>1, <2>1 DEF OneChain
  <2> QED
    BY <1>1, <1>2, <2>1, <2>2
<1>12. CASE Crash
  <2>1. /\ life' = "down" /\ ready' = FALSE /\ inFlight' = FALSE /\ queued' = FALSE
        /\ passes' = 0 /\ kick' = FALSE /\ pass' = IdlePass
        /\ UNCHANGED <<section, legacy, declined>> /\ spent' \in Spent
    BY <1>1, <1>12, SpendsCrash DEF Crash
  <2>2. passes' \in 0..MaxMigrationPasses
    BY <2>1, BoundsNat
  <2>3. pass'.at = "idle"
    BY <2>1 DEF IdlePass
  <2>4. OneChain' /\ Fits(pass', section')
    BY <2>1, <2>3, IdleFits DEF OneChain
  <2> QED
    BY <1>1, <1>2, <2>1, <2>2, <2>4, IdleType
<1>13. ASSUME NEW s \in Section, section' = s, Notified(s), legacy' \subseteq Paths, declined' = declined,
              s.legacyMigration.dismissedSignature = section.legacyMigration.dismissedSignature,
              spent' \in Spent
       PROVE  IInv'
  BY <1>1, <1>2, <1>13, NotifiedFits
<1>14. CASE UserEdits
  <2>1. PICK p \in Paths, v \in {"unset", "user"} :
          ClientWrites([section EXCEPT !.values[p] = v])
    BY <1>14 DEF UserEdits
  <2> DEFINE w == [section.values EXCEPT ![p] = v]
             s == [section EXCEPT !.values = w]
  <2>2. w \in Values
    BY <1>1 DEF Section, Values, Value
  <2>3. section' = s /\ Notified(s) /\ legacy' = legacy /\ declined' = declined
    BY <2>1 DEF ClientWrites
  <2>4. s \in Section /\ s.legacyMigration = section.legacyMigration
    <3> HIDE DEF w
    <3> QED
      BY <1>1, <2>2 DEF Section
  <2>5. spent' \in Spent
    BY <1>1, <1>14, SpendsEdit DEF UserEdits
  <2> HIDE DEF s
  <2> QED
    BY <1>1, <1>13, <2>3, <2>4, <2>5
<1>15. ASSUME NEW d \in Decision \ {""}, Decide(d)
       PROVE  IInv'
  <2> DEFINE c == [section.legacyMigration EXCEPT !.decision = d]
             s == [section EXCEPT !.legacyMigration = c]
  <2>1. /\ c \in Control
        /\ c.dismissedSignature = section.legacyMigration.dismissedSignature
    BY <1>1 DEF Section, Control
  <2>2. section' = s /\ Notified(s) /\ legacy' = legacy /\ declined' = declined
    BY <1>15 DEF Decide, ClientWrites
  <2>3. s \in Section /\ s.legacyMigration = c
    <3> HIDE DEF c
    <3> QED
      BY <1>1, <2>1 DEF Section
  <2>4. spent' \in Spent
    BY <1>1, <1>15, SpendsDecision DEF Decide
  <2> HIDE DEF s, c
  <2> QED
    BY <1>1, <1>13, <2>1, <2>2, <2>3, <2>4
<1>16. CASE LegacyChanges
  <2>1. section' = section /\ legacy' \subseteq Paths /\ declined' = declined /\ spent' \in Spent
    BY <1>1, <1>16, SpendsChange DEF LegacyChanges
  <2>2. CASE UNCHANGED <<ready, life, loopVars, pass>>
    <3>1. OneChain' /\ Fits(pass', section')
      BY <1>1, <2>1, <2>2 DEF OneChain, loopVars
    <3> QED
      BY <1>1, <1>2, <2>1, <2>2, <3>1 DEF loopVars
  <2>3. CASE Notified(section)
    BY <1>1, <1>13, <2>1, <2>3
  <2> QED
    BY <1>16, <2>2, <2>3 DEF LegacyChanges
<1>17. CASE UNCHANGED vars
  <2>1. UNCHANGED <<section, legacy, ready, declined, life, inFlight, queued, passes, kick, pass, spent>>
    BY <1>17 DEF vars, hostVars, loopVars
  <2>2. OneChain' /\ Fits(pass', section')
    BY <1>1, <2>1 DEF OneChain
  <2> QED
    BY <1>1, <1>2, <2>1, <2>2
<1> QED
  BY <1>3, <1>4, <1>5, <1>6, <1>7, <1>8, <1>9, <1>10, <1>11, <1>12, <1>14, <1>15, <1>16, <1>17
  DEF Next, Host, HostInternal, HostWrites, HostRefused, Process

LEMMA Inv == Spec => []IInv
BY InitInv, NextInv, PTL DEF Spec

----------------------------------------------------------------------------
(* The declined offer.  The section remembers the last dismissal that has   *)
(* landed, and so does whatever a pass is about to publish.                 *)

\* What the pass p, about to publish, leaves as the declined signature.
Leaves(p, d) == IF p.before.decision = "dismiss" THEN p.before.signature ELSE d

Remembers ==
  /\ section.legacyMigration.dismissedSignature = declined
  /\ pass.at # "idle" /\ pass.ownReady => ready
  /\ pass.publish.decision = ""
  /\ pass.at \in {"scanning", "applying"} => pass.before.decision # "dismiss"
  /\ pass.at = "publishing" => pass.publish.dismissedSignature = Leaves(pass, declined)

\* What a scan leads to carries the declined signature over.
LEMMA AnswerCarries ==
  ASSUME TypeOK, Fits(pass, section), pass.at = "scanning", pass.ownReady => ready,
         pass.publish.decision = "",
         NEW c, c \subseteq Candidates(pass.own), Answer(c)
  PROVE  /\ pass'.ownReady = pass.ownReady /\ pass'.publish.decision = ""
         /\ pass'.before = pass.before /\ pass.before.decision # "dismiss"
         /\ pass'.at = "publishing" => pass'.publish.dismissedSignature = section.legacyMigration.dismissedSignature
<1>1. pass \in Pass /\ c \in SUBSET Paths
  BY DEF TypeOK, Candidates
<1>2. pass.ownReady => Carried = section.legacyMigration.dismissedSignature
  BY DEF Carried
<1>3. ~pass.ownReady => pass.before.decision = ""
  BY DEF Fits
<1>4. \A r : /\ SettleEmpty(r).dismissedSignature = Carried /\ SettleEmpty(r).decision = ""
             /\ Arm(c).dismissedSignature = Carried /\ Arm(c).decision = ""
  BY DEF SettleEmpty, Arm, Publish
<1>5. ASSUME NEW at, NEW obj, To(at, c, obj)
      PROVE  /\ pass'.at = at /\ pass'.ownReady = pass.ownReady /\ pass'.publish = obj
             /\ pass'.before = pass.before
  BY <1>1, <1>5 DEF To, Pass
<1>6. CASE pass.before.decision = "migrate" /\ AnswerMigrate(c)
  <2>1. CASE c = {}
    <3>1. To("publishing", c, SettleEmpty(""))
      BY <1>6, <2>1 DEF AnswerMigrate
    <3>2. /\ pass'.ownReady = pass.ownReady /\ pass'.publish = SettleEmpty("")
          /\ pass'.before = pass.before
      BY <1>5, <3>1
    <3>3. pass.ownReady
      BY <1>3, <1>6
    <3> QED
      BY <1>2, <1>4, <1>6, <3>2, <3>3
  <2>2. CASE c # {}
    BY <1>1, <1>6, <2>2 DEF AnswerMigrate, Pass
  <2> QED
    BY <2>1, <2>2
<1>7. CASE pass.before.decision = "scan" /\ AnswerScan(c)
  BY <1>2, <1>3, <1>4, <1>5, <1>7 DEF AnswerScan
<1>8. CASE pass.before.decision = "" /\ Reconcile(c)
  <2>1. CASE pass.ownReady /\ \E obj \in {SettleEmpty(""), Arm(c)} : To("publishing", c, obj)
    <3>1. PICK obj \in {SettleEmpty(""), Arm(c)} : To("publishing", c, obj)
      BY <2>1
    <3>2. obj.dismissedSignature = section.legacyMigration.dismissedSignature /\ obj.decision = ""
      BY <1>2, <1>4, <2>1
    <3> QED
      BY <1>5, <1>8, <3>1, <3>2
  <2>2. CASE To("ended", c, NoControl)
    <3>1. NoControl.decision = ""
      BY DEF NoControl
    <3>2. /\ pass'.at = "ended" /\ pass'.ownReady = pass.ownReady /\ pass'.publish = NoControl
          /\ pass'.before = pass.before
      BY <1>5, <2>2
    <3> QED
      BY <1>8, <3>1, <3>2
  <2> QED
    BY <1>8, <2>1, <2>2 DEF Reconcile
<1> QED
  BY <1>6, <1>7, <1>8 DEF Answer

\* A fresh pass publishes at once only a dismissal, of the offer it reads.
LEMMA StartPassRemembers ==
  ASSUME NEW s, NEW rdy \in BOOLEAN, StartPass(s, rdy), NEW d
  PROVE  /\ pass'.ownReady = rdy /\ pass'.publish.decision = ""
         /\ pass'.at \in {"scanning", "applying"} => pass'.before.decision # "dismiss"
         /\ pass'.at = "publishing" => pass'.publish.dismissedSignature = Leaves(pass', d)
<1> DEFINE b == IF rdy THEN s.legacyMigration ELSE NoControl
           o == IF rdy THEN s.values ELSE Unset
           a == IF b.decision = "dismiss" THEN "publishing" ELSE "scanning"
           c == IF b.decision = "dismiss" THEN Dismissal(b.signature) ELSE NoControl
<1>1. pass' = [IdlePass EXCEPT !.at = a, !.own = o, !.ownReady = rdy, !.before = b,
                               !.publish = c]
  BY DEF StartPass
<1>2. /\ Dismissal(b.signature).dismissedSignature = b.signature
      /\ Dismissal(b.signature).decision = "" /\ NoControl.decision = ""
  BY DEF Dismissal, Publish, NoControl
<1>3. /\ c.decision = ""
      /\ a \in {"scanning", "applying"} => b.decision # "dismiss"
      /\ a = "publishing" => b.decision = "dismiss" /\ c.dismissedSignature = b.signature
  BY <1>2
<1> HIDE DEF a, b, c, o
<1>4. /\ pass'.at = a /\ pass'.ownReady = rdy /\ pass'.before = b /\ pass'.publish = c
  BY <1>1 DEF IdlePass
<1> QED
  BY <1>3, <1>4 DEF Leaves

LEMMA IdleRemembers == IdlePass.at = "idle" /\ IdlePass.publish.decision = ""
BY DEF IdlePass, NoControl

LEMMA NotifiedRemembers ==
  ASSUME TypeOK, Remembers, NEW s \in Section, section' = s, Notified(s), declined' = declined,
         s.legacyMigration.dismissedSignature = section.legacyMigration.dismissedSignature
  PROVE  Remembers'
<1>1. pass \in Pass /\ ready \in BOOLEAN /\ ready' = ready
  BY DEF TypeOK, Notified
<1>2. CASE BeginChain(s, ready)
  BY <1>1, <1>2, StartPassRemembers DEF BeginChain, Remembers
<1>3. CASE pass' = [pass EXCEPT !.overtaken = (@ \/ s.values # section.values) /\ inFlight]
  <2>1. /\ pass'.at = pass.at /\ pass'.ownReady = pass.ownReady /\ pass'.publish = pass.publish
        /\ pass'.before = pass.before
    BY <1>1, <1>3 DEF Pass
  <2> QED
    BY <1>1, <2>1 DEF Remembers, Leaves
<1> QED
  BY <1>2, <1>3 DEF Notified

LEMMA RemembersInit == Init => Remembers
<1> SUFFICES ASSUME Init PROVE Remembers
  OBVIOUS
<1>1. pass = IdlePass /\ section.legacyMigration = NoControl /\ declined = {}
  BY DEF Init
<1>2. \A e : [pending |-> FALSE, signature |-> e, dismissedSignature |-> e,
             decision |-> "", lastResult |-> ""].dismissedSignature = e
  OBVIOUS
<1>3. NoControl.dismissedSignature = declined
  BY <1>1, <1>2 DEF NoControl
<1> QED
  BY <1>1, <1>3, IdleRemembers DEF Remembers

LEMMA RemembersNext == IInv /\ Remembers /\ [Next]_vars => Remembers'
<1> SUFFICES ASSUME IInv, Remembers, [Next]_vars PROVE Remembers'
  OBVIOUS
<1>1. /\ TypeOK /\ Fits(pass, section) /\ OneChain /\ pass \in Pass /\ section \in Section
      /\ ready \in BOOLEAN
  BY DEF IInv, TypeOK
<1>2. ASSUME NEW rdy \in BOOLEAN, ready' = rdy, StartPass(section, rdy), UNCHANGED <<section, declined>>
      PROVE  Remembers'
  BY <1>2, StartPassRemembers DEF Remembers
<1>3. ASSUME pass' = IdlePass, UNCHANGED <<section, declined>> PROVE Remembers'
  BY <1>3, IdleRemembers DEF Remembers
<1>4. ASSUME UNCHANGED <<section, declined, pass, ready>> PROVE Remembers'
  BY <1>4 DEF Remembers, Leaves
<1>5. CASE ScanEnds \/ ScanMissesDocuments
  <2>1. /\ pass.at = "scanning" /\ UNCHANGED <<section, declined, ready>>
        /\ \E c \in SUBSET Candidates(pass.own) : Answer(c)
    BY <1>5 DEF ScanEnds, ScanMissesDocuments, hostVars
  <2>2. PICK c \in SUBSET Candidates(pass.own) : Answer(c)
    BY <2>1
  <2>3. /\ pass'.ownReady = pass.ownReady /\ pass'.publish.decision = ""
        /\ pass'.before = pass.before /\ pass.before.decision # "dismiss"
        /\ pass'.at = "publishing" => pass'.publish.dismissedSignature = section.legacyMigration.dismissedSignature
    BY <1>1, <2>1, <2>2, AnswerCarries DEF Remembers
  <2> QED
    BY <2>1, <2>3 DEF Remembers, Leaves
<1>6. CASE PassEnds
  BY <1>1, <1>2, <1>3, <1>6 DEF PassEnds, hostVars
<1>7. CASE KickFires
  BY <1>1, <1>2, <1>4, <1>7 DEF KickFires, Run, BeginChain, hostVars
<1>8. CASE ApplyLands \/ ApplyRefused
  <2>1. pass.at = "applying" /\ pass.ownReady /\ pass.before.decision = "migrate"
    BY <1>1, <1>8 DEF ApplyLands, ApplyRefused, Fits
  <2>2. Carried = declined
    BY <2>1 DEF Carried, Remembers
  <2>3. /\ UNCHANGED <<ready, declined>>
        /\ section'.legacyMigration = section.legacyMigration
    BY <1>1, <1>8 DEF ApplyLands, ApplyRefused, hostVars, Section
  <2>4. \E obj \in {Applied(pass.candidates), Failed(pass.candidates)} :
          To("publishing", pass.candidates, obj)
    BY <1>8 DEF ApplyLands, ApplyRefused
  <2>5. PICK obj \in {Applied(pass.candidates), Failed(pass.candidates)} :
          To("publishing", pass.candidates, obj)
    BY <2>4
  <2>6. obj.dismissedSignature = declined /\ obj.decision = ""
    <3>1. \A x, y : /\ Publish(x, pass.candidates, Carried, y).dismissedSignature = Carried
                    /\ Publish(x, pass.candidates, Carried, y).decision = ""
      BY DEF Publish
    <3> QED
      BY <2>2, <3>1 DEF Applied, Failed
  <2>7. /\ pass'.at = "publishing" /\ pass'.publish = obj /\ pass'.ownReady = pass.ownReady
        /\ pass'.before = pass.before
    BY <1>1, <2>5 DEF To, Pass
  <2> QED
    BY <2>1, <2>3, <2>6, <2>7 DEF Remembers, Leaves
<1>9. CASE PublishLands
  <2>1. /\ pass'.at = "ended" /\ pass'.ownReady = pass.ownReady /\ pass'.publish = pass.publish
        /\ ready' = ready /\ pass.at = "publishing" /\ declined' = Leaves(pass, declined)
    BY <1>1, <1>9 DEF PublishLands, Pass, Leaves
  <2>2. section'.legacyMigration = pass.publish
    BY <1>1, <1>9 DEF PublishLands, Section
  <2> QED
    BY <2>1, <2>2 DEF Remembers
<1>10. CASE PublishRefused
  <2>1. /\ pass'.at = "ended" /\ pass'.ownReady = pass.ownReady /\ pass'.publish = pass.publish
        /\ UNCHANGED <<section, declined, ready>> /\ pass.at = "publishing"
    BY <1>1, <1>10 DEF PublishRefused, Pass, hostVars
  <2> QED
    BY <2>1 DEF Remembers
<1>11. CASE Start
  BY <1>2, <1>11 DEF Start, BeginChain
<1>12. CASE SectionMaterializes
  BY <1>12 DEF SectionMaterializes, Remembers, Leaves
<1>13. CASE Dispose
  BY <1>4, <1>13 DEF Dispose, hostVars
<1>14. CASE Crash
  BY <1>3, <1>14 DEF Crash
<1>15. CASE UserEdits
  <2>1. PICK p \in Paths, v \in {"unset", "user"} :
          ClientWrites([section EXCEPT !.values[p] = v])
    BY <1>15 DEF UserEdits
  <2> DEFINE w == [section.values EXCEPT ![p] = v]
             s == [section EXCEPT !.values = w]
  <2>2. w \in Values
    BY <1>1 DEF Section, Values, Value
  <2>3. section' = s /\ Notified(s) /\ declined' = declined
    BY <2>1 DEF ClientWrites
  <2>4. s \in Section /\ s.legacyMigration = section.legacyMigration
    <3> HIDE DEF w
    <3> QED
      BY <1>1, <2>2 DEF Section
  <2> HIDE DEF s
  <2> QED
    BY <1>1, <2>3, <2>4, NotifiedRemembers
<1>16. ASSUME NEW d \in Decision \ {""}, Decide(d)
       PROVE  Remembers'
  <2> DEFINE c == [section.legacyMigration EXCEPT !.decision = d]
             s == [section EXCEPT !.legacyMigration = c]
  <2>1. /\ c \in Control
        /\ c.dismissedSignature = section.legacyMigration.dismissedSignature
    BY <1>1 DEF Section, Control
  <2>2. section' = s /\ Notified(s) /\ declined' = declined
    BY <1>16 DEF Decide, ClientWrites
  <2>3. s \in Section /\ s.legacyMigration = c
    <3> HIDE DEF c
    <3> QED
      BY <1>1, <2>1 DEF Section
  <2> HIDE DEF s, c
  <2> QED
    BY <1>1, <2>1, <2>2, <2>3, NotifiedRemembers
<1>17. CASE LegacyChanges
  <2>1. UNCHANGED <<section, declined>> /\ (UNCHANGED <<ready, pass>> \/ Notified(section))
    BY <1>17 DEF LegacyChanges
  <2>2. CASE Notified(section)
    BY <1>1, <2>1, <2>2, NotifiedRemembers
  <2> QED
    BY <1>4, <2>1, <2>2
<1>18. CASE UNCHANGED vars
  BY <1>4, <1>18 DEF vars, hostVars
<1> QED
  BY <1>5, <1>6, <1>7, <1>8, <1>9, <1>10, <1>11, <1>12, <1>13, <1>14, <1>15, <1>16, <1>17, <1>18
  DEF Next, Host, HostInternal, HostWrites, HostRefused, Process

LEMMA AlwaysRemembers == Spec => []Remembers
BY Inv, RemembersInit, RemembersNext, PTL DEF Spec

----------------------------------------------------------------------------
(* The results.                                                            *)

\* Every reachable state has the declared shape; no chain runs a pass beyond its
\* budget (run: MAX_MIGRATION_PASSES).
THEOREM TypeCorrect == Spec => []TypeOK
<1>1. IInv => TypeOK
  BY DEF IInv
<1> QED
  BY <1>1, Inv, PTL

\* One pass at a time, and a wakeup the budget outran is held by a timer
\* (installLegacyMigration, run).
THEOREM OneChainHolds == Spec => []OneChain
<1>1. IInv => OneChain
  BY DEF IInv
<1> QED
  BY <1>1, Inv, PTL

\* An offer about to be published lists only paths the user's layer leaves
\* unset, unless an edit overtook the pass (pass: one read decides).
THEOREM OfferIsRealHolds == Spec => []OfferIsReal
<1>1. IInv => OfferIsReal
  BY DEF IInv, Fits, OfferIsReal
<1> QED
  BY <1>1, Inv, PTL

\* A batch that no edit overtook writes only values the user's layer leaves
\* unset, and lands with a copy of the state it extends (applyLegacyMigration,
\* rollbackSnapshot).
THEOREM MigrationIsReversibleHolds == Spec => MigrationIsReversible
<1> DEFINE Reversible ==
      ApplyLands /\ ~pass.overtaken =>
        /\ section'.autoBackup = section.values
        /\ \A p \in Paths : section'.values[p] # section.values[p] =>
             section.values[p] = "unset" /\ section'.values[p] = "legacy"
<1>1. IInv /\ [Next]_vars => [Reversible]_vars
  <2> SUFFICES ASSUME IInv, ApplyLands, ~pass.overtaken PROVE Reversible
    OBVIOUS
  <2> DEFINE v == [p \in Paths |-> IF p \in pass.candidates THEN "legacy"
                                   ELSE section.values[p]]
  <2>1. section \in Section /\ pass \in Pass
    BY DEF IInv, TypeOK
  <2>2. pass.snapshot = section.values /\ \A p \in pass.candidates : section.values[p] = "unset"
    BY DEF IInv, Fits, ApplyLands
  <2>3. section' = [section EXCEPT !.values = v, !.autoBackup = pass.snapshot]
    BY DEF ApplyLands
  <2>4. \A p \in Paths : v[p] # section.values[p] => p \in pass.candidates /\ v[p] = "legacy"
    OBVIOUS
  <2> HIDE DEF v
  <2>5. section'.values = v /\ section'.autoBackup = pass.snapshot
    BY <2>1, <2>3 DEF Section
  <2> QED
    BY <2>2, <2>4, <2>5
<1> QED
  BY <1>1, Inv, PTL DEF Spec, MigrationIsReversible

\* The offer of the last dismissal that landed comes back only in answer to a
\* scan or to a migration: no control write and no restart loses its signature
\* (publish: `dismissedSignature`).
THEOREM DismissedStaysSilentHolds == Spec => DismissedStaysSilent
<1> DEFINE Silent ==
      PublishLands /\ pass.publish.pending /\ pass.publish.signature = declined
      => pass.before.decision \in {"scan", "migrate"}
<1>1. IInv /\ Remembers /\ [Next]_vars => [Silent]_vars
  BY DEF IInv, Fits, Remembers, PublishLands
<1> QED
  BY <1>1, Inv, AlwaysRemembers, PTL DEF Spec, DismissedStaysSilent

----------------------------------------------------------------------------
(* The prompt beside the Host.                                             *)

Copy == [pending : BOOLEAN, failed : BOOLEAN, signature : SUBSET Paths, fresh : BOOLEAN]

\* A copy that is fresh has the section's signature.
Faithful(c) == c.fresh => c.signature = section.legacyMigration.signature

PromptTypeOK ==
  /\ target \in Copy
  /\ \A r \in reads : r \in [for : Polling, at : {"sent", "sampled"}, copy : Copy]
  /\ commit \in [decision : {"", "migrate", "dismiss"}, copy : Copy]
  /\ commit # NoCommit => commit.decision # ""

CopiesFaithful == Faithful(target) /\ Faithful(commit.copy) /\ \A r \in reads : Faithful(r.copy)

\* A dismissal in the section is of the offer it stands beside, which was shown.
DecisionIsShown == section.legacyMigration.decision = "dismiss" => shown = section.legacyMigration.signature

\* So is the one a pass is about to publish; whatever else it publishes carries
\* the declined signature over.
PassIsShown ==
  /\ pass.at # "idle" /\ pass.ownReady => ready
  /\ pass.publish.decision = ""
  /\ pass.at = "publishing" =>
       \/ pass.publish.dismissedSignature = section.legacyMigration.dismissedSignature
       \/ pass.publish.dismissedSignature = shown /\ shown = section.legacyMigration.signature

PromptInv == IInv /\ PromptTypeOK /\ CopiesFaithful /\ DecisionIsShown /\ PassIsShown

LEMMA NoCopyType == NoCopy \in Copy /\ NoCopy.fresh = FALSE /\ NoCommit.copy = NoCopy /\ NoCommit.decision = ""
BY DEF NoCopy, Copy, NoCommit

LEMMA RecordExcept ==
  ASSUME NEW x, NEW y, NEW z
  PROVE  [[decision |-> x, copy |-> y] EXCEPT !.copy = z] = [decision |-> x, copy |-> z]
OBVIOUS

LEMMA StaleKept ==
  ASSUME NEW c \in Copy, c.fresh = FALSE
  PROVE  Stale(c) = c
BY DEF Stale, Copy

LEMMA StaleFacts ==
  ASSUME NEW c \in Copy
  PROVE  Stale(c) \in Copy /\ ~Stale(c).fresh /\ Stale(c).signature = c.signature
BY DEF Stale, Copy

\* When the section moves, no copy is fresh any more.
LEMMA CopiesGoStale ==
  ASSUME PromptTypeOK, target' = Stale(target),
         reads' = {[r EXCEPT !.copy = Stale(@)] : r \in reads},
         commit' = [commit EXCEPT !.copy = Stale(@)] \/ commit' = NoCommit
  PROVE  PromptTypeOK' /\ CopiesFaithful'
<1>1. target' \in Copy /\ ~target'.fresh
  BY StaleFacts DEF PromptTypeOK
<1>2. ASSUME NEW r \in reads'
      PROVE  r \in [for : Polling, at : {"sent", "sampled"}, copy : Copy] /\ ~r.copy.fresh
  <2>1. PICK q \in reads : r = [q EXCEPT !.copy = Stale(@)]
    BY <1>2
  <2>2. q \in [for : Polling, at : {"sent", "sampled"}, copy : Copy]
    BY DEF PromptTypeOK
  <2>3. Stale(q.copy) \in Copy /\ ~Stale(q.copy).fresh
    BY <2>2, StaleFacts
  <2> QED
    BY <2>1, <2>2, <2>3
<1>3. /\ commit' \in [decision : {"", "migrate", "dismiss"}, copy : Copy] /\ ~commit'.copy.fresh
      /\ commit' # NoCommit => commit'.decision # ""
  <2>1. CASE commit' = NoCommit
    BY <2>1, NoCopyType DEF NoCommit
  <2>2. CASE commit' = [commit EXCEPT !.copy = Stale(@)]
    <3>1. commit \in [decision : {"", "migrate", "dismiss"}, copy : Copy]
      BY DEF PromptTypeOK
    <3>2. Stale(commit.copy) \in Copy /\ ~Stale(commit.copy).fresh
      BY <3>1, StaleFacts
    <3>3. /\ commit' \in [decision : {"", "migrate", "dismiss"}, copy : Copy] /\ ~commit'.copy.fresh
          /\ commit'.decision = commit.decision
      BY <2>2, <3>1, <3>2
    <3>4. CASE commit = NoCommit
      <4>1. Stale(NoCopy) = NoCopy
        BY NoCopyType, StaleKept
      <4>2. [NoCommit EXCEPT !.copy = NoCopy] = NoCommit
        BY RecordExcept DEF NoCommit
      <4>3. commit' = NoCommit
        BY <2>2, <3>4, <4>1, <4>2, NoCopyType
      <4> QED
        BY <4>3, NoCopyType DEF NoCommit
    <3>5. CASE commit # NoCommit
      BY <3>3, <3>5 DEF PromptTypeOK
    <3> QED
      BY <3>3, <3>4, <3>5
  <2> QED
    BY <2>1, <2>2
<1>4. PromptTypeOK'
  BY <1>1, <1>2, <1>3 DEF PromptTypeOK
<1> QED
  BY <1>1, <1>2, <1>3, <1>4 DEF CopiesFaithful, Faithful

\* A fresh pass publishes at once only a dismissal, of the offer it reads.
LEMMA StartPassShown ==
  ASSUME NEW s \in Section, NEW rdy \in BOOLEAN, StartPass(s, rdy), NEW sh,
         s.legacyMigration.decision = "dismiss" => sh = s.legacyMigration.signature
  PROVE  /\ pass'.ownReady = rdy /\ pass'.publish.decision = ""
         /\ pass'.at = "publishing" =>
              pass'.publish.dismissedSignature = sh /\ sh = s.legacyMigration.signature
<1>1. /\ pass'.ownReady = rdy
      /\ pass'.publish = IF pass'.at = "publishing" THEN Dismissal(pass'.before.signature) ELSE NoControl
      /\ pass'.at = "publishing" => rdy /\ s.legacyMigration.decision = "dismiss"
      /\ pass'.at = "publishing" => pass'.before = s.legacyMigration
  BY DEF StartPass, IdlePass, NoControl
<1>2. \A sig : Dismissal(sig).dismissedSignature = sig /\ Dismissal(sig).decision = "" /\ NoControl.decision = ""
  BY DEF Dismissal, Publish, NoControl
<1>3. CASE pass'.at = "publishing"
  <2>1. pass'.publish = Dismissal(pass'.before.signature) /\ pass'.before.signature = s.legacyMigration.signature
    BY <1>1, <1>3
  <2>2. pass'.publish.decision = "" /\ pass'.publish.dismissedSignature = s.legacyMigration.signature
    BY <1>2, <2>1
  <2> QED
    BY <1>1, <1>3, <2>2
<1>4. CASE pass'.at # "publishing"
  BY <1>1, <1>2, <1>4
<1> QED
  BY <1>3, <1>4

\* A write of a client that keeps both signatures, and shows what the decision
\* it leaves is about.
LEMMA NotifiedShown ==
  ASSUME IInv, PassIsShown, NEW s \in Section, section' = s, Notified(s),
         s.legacyMigration.dismissedSignature = section.legacyMigration.dismissedSignature,
         s.legacyMigration.signature = section.legacyMigration.signature,
         shown' = shown \/ shown' = section.legacyMigration.signature,
         DecisionIsShown'
  PROVE  PassIsShown'
<1>1. pass \in Pass /\ ready \in BOOLEAN /\ ready' = ready
  BY DEF IInv, TypeOK, Notified
<1>2. CASE BeginChain(s, ready)
  <2>1. s.legacyMigration.decision = "dismiss" => shown' = s.legacyMigration.signature
    BY DEF DecisionIsShown
  <2>2. StartPass(s, ready)
    BY <1>2 DEF BeginChain
  <2>3. /\ pass'.ownReady = ready /\ pass'.publish.decision = ""
        /\ pass'.at = "publishing" =>
             pass'.publish.dismissedSignature = shown' /\ shown' = s.legacyMigration.signature
    BY <1>1, <2>1, <2>2, StartPassShown
  <2> QED
    BY <1>1, <2>3 DEF PassIsShown
<1>3. CASE pass' = [pass EXCEPT !.overtaken = (@ \/ s.values # section.values) /\ inFlight]
  <2>1. pass'.at = pass.at /\ pass'.ownReady = pass.ownReady /\ pass'.publish = pass.publish
    BY <1>1, <1>3 DEF Pass
  <2> QED
    BY <1>1, <2>1 DEF PassIsShown
<1> QED
  BY <1>2, <1>3 DEF Notified

\* A decision carries what was committed; the composed system takes no step the
\* Host does not know of.
LEMMA PromptStepIsHostStep == PromptTypeOK /\ [PromptNext]_allVars => [Next]_vars
<1> SUFFICES ASSUME PromptTypeOK, [PromptNext]_allVars PROVE [Next]_vars
  OBVIOUS
<1>1. CASE HostQuiet \/ HostMoves
  BY <1>1 DEF HostQuiet, HostMoves, Next, Host
<1>2. CASE OthersMove
  BY <1>2 DEF OthersMove, Next, Decision
<1>3. CASE CommitLands
  <2>1. commit.decision \in Decision \ {""} /\ Decide(commit.decision)
    BY <1>3 DEF CommitLands, PromptTypeOK, Decision
  <2> QED
    BY <2>1 DEF Next
<1>4. CASE Modal /\ ~CommitLands
  BY <1>4 DEF Modal, PollTick, PollEnds, ReadSampled, ReadAnswersNothing, ReadAnswers, Later, Commit,
              CommitRefused
<1>5. CASE UNCHANGED allVars
  BY <1>5 DEF allVars
<1> QED
  BY <1>1, <1>2, <1>3, <1>4, <1>5 DEF PromptNext

LEMMA PromptInitInv == PromptInit => PromptInv
<1> SUFFICES ASSUME PromptInit PROVE PromptInv
  OBVIOUS
<1>1. IInv
  BY InitInv DEF PromptInit
<1>2. PromptTypeOK
  <2>1. Sent("idle") \in [for : Polling, at : {"sent", "sampled"}, copy : Copy]
    BY NoCopyType DEF Sent, Polling
  <2>2. NoCommit \in [decision : {"", "migrate", "dismiss"}, copy : Copy]
    BY NoCopyType DEF NoCommit
  <2> QED
    BY <2>1, <2>2, NoCopyType DEF PromptInit, PromptTypeOK
<1>3. CopiesFaithful
  <2>1. Sent("idle").copy = NoCopy
    BY DEF Sent
  <2>2. Faithful(NoCopy)
    BY NoCopyType DEF Faithful
  <2> QED
    BY <2>1, <2>2, NoCopyType DEF PromptInit, CopiesFaithful
<1>4. section.legacyMigration = NoControl /\ NoControl.decision = "" /\ pass = IdlePass
  BY DEF PromptInit, Init, NoControl
<1>5. DecisionIsShown /\ PassIsShown
  BY <1>4 DEF DecisionIsShown, PassIsShown, IdlePass, NoControl
<1> QED
  BY <1>1, <1>2, <1>3, <1>5 DEF PromptInv

\* The steps of the Host that leave the section as it is.
LEMMA HostQuietKeeps ==
  ASSUME PromptInv, HostQuiet
  PROVE  PassIsShown' /\ DecisionIsShown' /\ UNCHANGED <<section, promptVars>>
<1>1. UNCHANGED <<section, shown, promptVars>>
  BY DEF HostQuiet, HostInternal, HostRefused, Process, ScanEnds, ScanMissesDocuments, PassEnds, KickFires,
         ApplyRefused, PublishRefused, Start, SectionMaterializes, Dispose, Crash, LegacyChanges,
         hostVars, promptVars
<1>2. DecisionIsShown'
  BY <1>1 DEF PromptInv, DecisionIsShown
<1>3. /\ TypeOK /\ Fits(pass, section) /\ PassIsShown /\ DecisionIsShown /\ pass \in Pass /\ ready \in BOOLEAN
      /\ section \in Section /\ OneChain
  BY DEF PromptInv, IInv, TypeOK
<1>4. CASE ScanEnds \/ ScanMissesDocuments
  <2>1. PICK c \in SUBSET Candidates(pass.own) : Answer(c)
    BY <1>4 DEF ScanEnds, ScanMissesDocuments
  <2>2. pass.at = "scanning" /\ ready' = ready
    BY <1>4 DEF ScanEnds, ScanMissesDocuments, hostVars
  <2>3. /\ pass'.ownReady = pass.ownReady /\ pass'.publish.decision = ""
        /\ pass'.at = "publishing" => pass'.publish.dismissedSignature = section.legacyMigration.dismissedSignature
    BY <1>3, <2>1, <2>2, AnswerCarries DEF PassIsShown
  <2>4. PassIsShown'
    BY <1>1, <1>3, <2>2, <2>3 DEF PassIsShown
  <2> QED
    BY <1>1, <1>2, <2>4
<1>5. ASSUME NEW rdy \in BOOLEAN, StartPass(section, rdy), ready' = rdy PROVE PassIsShown'
  <2>1. /\ pass'.ownReady = rdy /\ pass'.publish.decision = ""
        /\ pass'.at = "publishing" =>
             pass'.publish.dismissedSignature = shown /\ shown = section.legacyMigration.signature
    BY <1>3, <1>5, StartPassShown DEF DecisionIsShown
  <2> QED
    BY <1>1, <1>5, <2>1 DEF PassIsShown
<1>6. ASSUME pass' = IdlePass PROVE PassIsShown'
  BY <1>6 DEF PassIsShown, IdlePass, NoControl
<1>7. ASSUME UNCHANGED <<pass, ready>> PROVE PassIsShown'
  BY <1>1, <1>3, <1>7 DEF PassIsShown
<1>8. CASE PassEnds
  <2>1. ready' = ready /\ (StartPass(section, ready) \/ pass' = IdlePass)
    BY <1>8 DEF PassEnds, hostVars
  <2> QED
    BY <1>1, <1>2, <1>3, <1>5, <1>6, <2>1
<1>9. CASE KickFires
  <2>1. ready' = ready /\ (StartPass(section, ready) \/ pass' = pass)
    BY <1>9 DEF KickFires, Run, BeginChain, hostVars
  <2> QED
    BY <1>1, <1>2, <1>3, <1>5, <1>7, <2>1
<1>10. CASE ApplyRefused
  <2>1. /\ pass'.ownReady = pass.ownReady /\ pass'.publish = Failed(pass.candidates) /\ ready' = ready
    BY <1>3, <1>10 DEF ApplyRefused, To, Pass, hostVars
  <2>2. pass.at = "applying" /\ pass.ownReady
    BY <1>3, <1>10 DEF ApplyRefused, Fits
  <2>3. Carried = section.legacyMigration.dismissedSignature
    BY <1>3, <2>2 DEF Carried, PassIsShown
  <2>4. /\ Failed(pass.candidates).dismissedSignature = Carried
        /\ Failed(pass.candidates).decision = ""
    BY DEF Failed, Publish
  <2> QED
    BY <1>1, <1>2, <1>3, <2>1, <2>2, <2>3, <2>4 DEF PassIsShown
<1>11. CASE PublishRefused
  <2>1. /\ pass'.at = "ended" /\ pass'.ownReady = pass.ownReady /\ pass'.publish = pass.publish
        /\ ready' = ready /\ pass.at = "publishing"
    BY <1>3, <1>11 DEF PublishRefused, Pass, hostVars
  <2> QED
    BY <1>1, <1>2, <1>3, <2>1 DEF PassIsShown
<1>12. CASE Start
  BY <1>1, <1>2, <1>5, <1>12 DEF Start, BeginChain
<1>13. CASE SectionMaterializes
  BY <1>1, <1>2, <1>3, <1>13 DEF SectionMaterializes, PassIsShown
<1>14. CASE Dispose
  BY <1>1, <1>2, <1>7, <1>14 DEF Dispose, hostVars
<1>15. CASE Crash
  BY <1>1, <1>2, <1>6, <1>15 DEF Crash
<1>16. CASE LegacyChanges
  <2>1. CASE UNCHANGED <<ready, life, loopVars, pass>>
    BY <1>1, <1>2, <1>7, <2>1
  <2>2. CASE Notified(section)
    <3>1. PassIsShown'
      BY <1>1, <1>2, <1>3, <2>2, NotifiedShown DEF PromptInv
    <3> QED
      BY <1>1, <1>2, <3>1
  <2> QED
    BY <1>16, <2>1, <2>2 DEF LegacyChanges
<1> QED
  BY <1>1, <1>2, <1>4, <1>8, <1>9, <1>10, <1>11, <1>12, <1>13, <1>14, <1>15, <1>16
  DEF HostQuiet, HostInternal, HostRefused, Process

\* The writes of the Host.
LEMMA HostWritesKeep ==
  ASSUME PromptInv, HostWrites, UNCHANGED shown
  PROVE  /\ PassIsShown' /\ DecisionIsShown'
         /\ section'.legacyMigration.dismissedSignature \in {section.legacyMigration.dismissedSignature, shown}
<1>1. /\ TypeOK /\ Fits(pass, section) /\ PassIsShown /\ DecisionIsShown /\ pass \in Pass
      /\ section \in Section
  BY DEF PromptInv, IInv, TypeOK
<1>2. CASE ApplyLands
  <2>1. /\ pass'.ownReady = pass.ownReady /\ pass'.publish = Applied(pass.candidates) /\ ready' = ready
        /\ pass.at = "applying"
    BY <1>1, <1>2 DEF ApplyLands, To, Pass
  <2>2. section'.legacyMigration = section.legacyMigration
    BY <1>1, <1>2 DEF ApplyLands, Section
  <2>3. pass.ownReady
    BY <1>1, <2>1 DEF Fits
  <2>4. Carried = section.legacyMigration.dismissedSignature
    BY <1>1, <2>1, <2>3 DEF Carried, PassIsShown
  <2>5. PassIsShown'
    <3>1. /\ Applied(pass.candidates).dismissedSignature = Carried
          /\ Applied(pass.candidates).decision = ""
      BY DEF Applied, Publish
    <3> QED
      BY <1>1, <2>1, <2>2, <2>3, <2>4, <3>1 DEF PassIsShown
  <2> QED
    BY <1>1, <2>2, <2>5 DEF DecisionIsShown
<1>3. CASE PublishLands
  <2>1. /\ pass'.at = "ended" /\ pass'.ownReady = pass.ownReady /\ pass'.publish = pass.publish
        /\ ready' = ready /\ pass.at = "publishing"
    BY <1>1, <1>3 DEF PublishLands, Pass
  <2>2. section'.legacyMigration = pass.publish
    BY <1>1, <1>3 DEF PublishLands, Section
  <2> QED
    BY <1>1, <2>1, <2>2 DEF PassIsShown, DecisionIsShown
<1> QED
  BY <1>2, <1>3 DEF HostWrites

\* The steps of the modal that leave the section as it is.
LEMMA ModalKeeps ==
  ASSUME PromptInv, Modal, ~CommitLands
  PROVE  PromptTypeOK' /\ CopiesFaithful' /\ UNCHANGED <<vars, shown>>
<1>1. UNCHANGED <<vars, shown>>
  BY DEF Modal, PollTick, PollEnds, ReadSampled, ReadAnswersNothing, ReadAnswers, Later, Commit, CommitRefused
<1>2. UNCHANGED section
  BY <1>1 DEF vars, hostVars
<1>3. /\ PromptTypeOK /\ CopiesFaithful /\ section \in Section
  BY DEF PromptInv, IInv, TypeOK
<1>5. /\ target \in Copy /\ Faithful(target) /\ commit.copy \in Copy /\ Faithful(commit.copy)
      /\ NoCopy \in Copy /\ Faithful(NoCopy)
  BY <1>3, NoCopyType DEF PromptTypeOK, CopiesFaithful, Faithful
<1>6. \A k \in Polling : Sent(k) \in [for : Polling, at : {"sent", "sampled"}, copy : Copy] /\ Sent(k).copy = NoCopy
  BY NoCopyType DEF Sent
<1>7. ASSUME target' \in Copy, Faithful(target'),
             \A r \in reads' \ reads : r \in [for : Polling, at : {"sent", "sampled"}, copy : Copy] /\ Faithful(r.copy),
             commit' \in [decision : {"", "migrate", "dismiss"}, copy : Copy] /\ Faithful(commit'.copy),
             commit' # NoCommit => commit'.decision # ""
      PROVE  PromptTypeOK' /\ CopiesFaithful'
  <2>1. \A r \in reads' : r \in [for : Polling, at : {"sent", "sampled"}, copy : Copy] /\ Faithful(r.copy)
    BY <1>3, <1>7 DEF PromptTypeOK, CopiesFaithful
  <2>2. PromptTypeOK'
    BY <1>7, <2>1 DEF PromptTypeOK
  <2>3. CopiesFaithful'
    BY <1>2, <1>7, <2>1 DEF CopiesFaithful, Faithful
  <2> QED
    BY <2>2, <2>3
<1>8. /\ commit \in [decision : {"", "migrate", "dismiss"}, copy : Copy]
      /\ commit # NoCommit => commit.decision # ""
  BY <1>3 DEF PromptTypeOK
<1>9. CASE PollTick
  <2>1. phase \in Polling /\ reads' = reads \union {Sent(phase)} /\ UNCHANGED <<target, commit>>
    BY <1>9 DEF PollTick
  <2> QED
    BY <1>1, <1>5, <1>6, <1>7, <1>8, <2>1
<1>10. CASE PollEnds
  <2>1. UNCHANGED <<target, reads, commit>>
    BY <1>10 DEF PollEnds
  <2> QED
    BY <1>1, <1>5, <1>7, <1>8, <2>1
<1>11. CASE ReadSampled
  <2>1. PICK k \in Polling : reads' = (reads \ {Sent(k)}) \union {[for |-> k, at |-> "sampled", copy |-> Read]}
    BY <1>11 DEF ReadSampled
  <2>2. target' = target /\ commit' = commit
    BY <1>11 DEF ReadSampled
  <2>3. Read \in Copy /\ Faithful(Read)
    BY <1>3 DEF Read, Copy, Faithful, Section, Control
  <2> DEFINE n == [for |-> k, at |-> "sampled", copy |-> Read]
  <2>4. n \in [for : Polling, at : {"sent", "sampled"}, copy : Copy] /\ n.copy = Read
    BY <2>3
  <2>5. reads' = (reads \ {Sent(k)}) \union {n}
    BY <2>1
  <2> HIDE DEF n
  <2>6. \A r \in reads' \ reads : r = n
    BY <2>5
  <2> QED
    BY <1>1, <1>5, <1>7, <1>8, <2>2, <2>3, <2>4, <2>6
<1>12. CASE ReadAnswersNothing
  <2>1. UNCHANGED <<target, commit>> /\ reads' \subseteq reads
    BY <1>12 DEF ReadAnswersNothing
  <2> QED
    BY <1>1, <1>5, <1>7, <1>8, <2>1
<1>13. CASE ReadAnswers
  <2>1. PICK r \in reads : ReadSettles(r.for, r.copy) /\ reads' = reads \ {r}
    BY <1>13 DEF ReadAnswers
  <2>2. commit' = commit
    BY <1>13 DEF ReadAnswers
  <2>3. r.copy \in Copy /\ Faithful(r.copy)
    BY <1>3 DEF PromptTypeOK, CopiesFaithful
  <2>4. target' \in {target, r.copy, NoCopy}
    BY <2>1 DEF ReadSettles, Show, Keep
  <2> QED
    BY <1>1, <1>5, <1>7, <1>8, <2>1, <2>2, <2>3, <2>4
<1>14. CASE Later
  <2>1. target' = NoCopy /\ UNCHANGED <<reads, commit>>
    BY <1>14 DEF Later, Show
  <2> QED
    BY <1>1, <1>5, <1>7, <1>8, <2>1
<1>15. ASSUME NEW d \in {"migrate", "dismiss"}, Commit(d) PROVE PromptTypeOK' /\ CopiesFaithful'
  <2>1. /\ commit' = [decision |-> d, copy |-> target] /\ target' = target
        /\ reads' = reads \union {Sent("submitting")}
    BY <1>15 DEF Commit
  <2>2. commit' \in [decision : {"", "migrate", "dismiss"}, copy : Copy] /\ commit'.decision = d /\ commit'.copy = target
    BY <1>5, <2>1
  <2>3. "submitting" \in Polling
    BY DEF Polling
  <2> QED
    BY <1>1, <1>5, <1>6, <1>7, <2>1, <2>2, <2>3
<1>16. CASE CommitRefused
  <2>1. target' = commit.copy /\ commit' = NoCommit /\ reads' = reads
    BY <1>16 DEF CommitRefused
  <2>2. NoCommit \in [decision : {"", "migrate", "dismiss"}, copy : Copy] /\ NoCommit.copy = NoCopy
    BY NoCopyType DEF NoCommit
  <2> QED
    BY <1>1, <1>5, <1>7, <2>1, <2>2
<1> QED
  BY <1>1, <1>9, <1>10, <1>11, <1>12, <1>13, <1>14, <1>15, <1>16 DEF Modal

\* A decision that lands is about the offer on screen.
LEMMA CommitLandsKeeps ==
  ASSUME PromptInv, CommitLands
  PROVE  PromptTypeOK' /\ CopiesFaithful' /\ DecisionIsShown' /\ PassIsShown'
<1>1. /\ TypeOK /\ PassIsShown /\ section \in Section /\ PromptTypeOK /\ CopiesFaithful
  BY DEF PromptInv, IInv, TypeOK
<1>2. PromptTypeOK' /\ CopiesFaithful'
  BY <1>1, CopiesGoStale DEF CommitLands
<1>3. shown' = section.legacyMigration.signature /\ commit.decision \in Decision
  BY <1>1 DEF CommitLands, Fenced, CopiesFaithful, Faithful, PromptTypeOK, Decision
<1> DEFINE c == [section.legacyMigration EXCEPT !.decision = commit.decision]
           s == [section EXCEPT !.legacyMigration = c]
<1>4. /\ c \in Control /\ c.signature = section.legacyMigration.signature
      /\ c.dismissedSignature = section.legacyMigration.dismissedSignature
  BY <1>1, <1>3 DEF Section, Control
<1>5. section' = s /\ Notified(s)
  BY DEF CommitLands, Decide, ClientWrites
<1> HIDE DEF c
<1>6. s \in Section /\ s.legacyMigration = c
  BY <1>1, <1>4 DEF Section
<1> HIDE DEF s
<1>7. DecisionIsShown'
  BY <1>3, <1>4, <1>5, <1>6 DEF DecisionIsShown
<1>8. PassIsShown'
  BY <1>1, <1>3, <1>4, <1>5, <1>6, <1>7, NotifiedShown DEF PromptInv
<1> QED
  BY <1>2, <1>7, <1>8

\* What others write is no dismissal, and changes no offer.
LEMMA OthersMoveKeeps ==
  ASSUME PromptInv, OthersMove
  PROVE  PromptTypeOK' /\ CopiesFaithful' /\ DecisionIsShown' /\ PassIsShown'
<1>1. /\ TypeOK /\ PassIsShown /\ section \in Section /\ PromptTypeOK /\ CopiesFaithful /\ DecisionIsShown
  BY DEF PromptInv, IInv, TypeOK
<1>2. PromptTypeOK' /\ CopiesFaithful' /\ shown' = shown
  BY <1>1, CopiesGoStale DEF OthersMove, SectionMoves
<1>3. ASSUME NEW s \in Section, section' = s, Notified(s),
             s.legacyMigration.signature = section.legacyMigration.signature,
             s.legacyMigration.dismissedSignature = section.legacyMigration.dismissedSignature,
             s.legacyMigration.decision \in {section.legacyMigration.decision, "scan"}
      PROVE  DecisionIsShown' /\ PassIsShown'
  <2>1. DecisionIsShown'
    BY <1>1, <1>2, <1>3 DEF DecisionIsShown
  <2> QED
    BY <1>1, <1>2, <1>3, <2>1, NotifiedShown DEF PromptInv
<1>4. CASE UserEdits
  <2>1. PICK p \in Paths, v \in {"unset", "user"} : ClientWrites([section EXCEPT !.values[p] = v])
    BY <1>4 DEF UserEdits
  <2> DEFINE w == [section.values EXCEPT ![p] = v]
             s == [section EXCEPT !.values = w]
  <2>2. w \in Values
    BY <1>1 DEF Section, Values, Value
  <2>3. section' = s /\ Notified(s)
    BY <2>1 DEF ClientWrites
  <2>4. s \in Section /\ s.legacyMigration = section.legacyMigration
    <3> HIDE DEF w
    <3> QED
      BY <1>1, <2>2 DEF Section
  <2> HIDE DEF s
  <2> QED
    BY <1>2, <1>3, <2>3, <2>4
<1>5. CASE Decide("scan")
  <2> DEFINE c == [section.legacyMigration EXCEPT !.decision = "scan"]
             s == [section EXCEPT !.legacyMigration = c]
  <2>1. /\ c \in Control /\ c.signature = section.legacyMigration.signature /\ c.decision = "scan"
        /\ c.dismissedSignature = section.legacyMigration.dismissedSignature
    BY <1>1 DEF Section, Control, Decision
  <2>2. section' = s /\ Notified(s)
    BY <1>5 DEF Decide, ClientWrites
  <2>3. s \in Section /\ s.legacyMigration = c
    <3> HIDE DEF c
    <3> QED
      BY <1>1, <2>1 DEF Section
  <2> HIDE DEF s, c
  <2> QED
    BY <1>2, <1>3, <2>1, <2>2, <2>3
<1> QED
  BY <1>2, <1>4, <1>5 DEF OthersMove

LEMMA PromptNextInv == PromptInv /\ [PromptNext]_allVars => PromptInv'
<1> SUFFICES ASSUME PromptInv, [PromptNext]_allVars PROVE PromptInv'
  OBVIOUS
<1>1. IInv'
  BY NextInv, PromptStepIsHostStep DEF PromptInv
<1>2. PromptTypeOK /\ CopiesFaithful /\ DecisionIsShown /\ PassIsShown
  BY DEF PromptInv
<1>3. CASE HostQuiet
  <2>1. PassIsShown' /\ DecisionIsShown' /\ UNCHANGED <<section, promptVars>>
    BY <1>3, HostQuietKeeps
  <2>2. PromptTypeOK' /\ CopiesFaithful'
    BY <1>2, <2>1 DEF promptVars, PromptTypeOK, CopiesFaithful, Faithful
  <2> QED
    BY <1>1, <2>1, <2>2 DEF PromptInv
<1>4. CASE HostMoves
  <2>1. PassIsShown' /\ DecisionIsShown'
    BY <1>4, HostWritesKeep DEF HostMoves
  <2>2. PromptTypeOK' /\ CopiesFaithful'
    BY <1>2, <1>4, CopiesGoStale DEF HostMoves, SectionMoves
  <2> QED
    BY <1>1, <2>1, <2>2 DEF PromptInv
<1>5. CASE OthersMove
  BY <1>1, <1>5, OthersMoveKeeps DEF PromptInv
<1>6. CASE CommitLands
  BY <1>1, <1>6, CommitLandsKeeps DEF PromptInv
<1>7. CASE Modal /\ ~CommitLands
  <2>1. PromptTypeOK' /\ CopiesFaithful' /\ UNCHANGED <<vars, shown>>
    BY <1>7, ModalKeeps
  <2>2. DecisionIsShown' /\ PassIsShown'
    BY <1>2, <2>1 DEF vars, hostVars, DecisionIsShown, PassIsShown
  <2> QED
    BY <1>1, <2>1, <2>2 DEF PromptInv
<1>8. CASE UNCHANGED allVars
  <2>1. UNCHANGED <<vars, promptVars>>
    BY <1>8 DEF allVars
  <2>2. DecisionIsShown' /\ PassIsShown'
    BY <1>2, <2>1 DEF vars, hostVars, promptVars, DecisionIsShown, PassIsShown
  <2>3. PromptTypeOK' /\ CopiesFaithful'
    BY <1>2, <2>1 DEF vars, hostVars, promptVars, PromptTypeOK, CopiesFaithful, Faithful
  <2> QED
    BY <1>1, <2>2, <2>3 DEF PromptInv
<1> QED
  BY <1>3, <1>4, <1>5, <1>6, <1>7, <1>8 DEF PromptNext

LEMMA PromptInvariance == PromptSpec => []PromptInv
BY PromptInitInv, PromptNextInv, PTL DEF PromptSpec

\* Beside the prompt the Host behaves as it does beside any client: what is
\* proved of it above holds of the two together.
THEOREM PromptKeepsTheHost == PromptSpec => Spec
<1>1. PromptInit => Init
  BY DEF PromptInit
<1>2. PromptInv /\ [PromptNext]_allVars => [Next]_vars
  BY PromptStepIsHostStep DEF PromptInv
<1> QED
  BY <1>1, <1>2, PromptInvariance, PTL DEF PromptSpec, Spec

\* What a dismissal silences is the offer the user was shown, whatever the Host
\* published between the decision and the pass that takes it up.
THEOREM DismissesWhatWasShownHolds == PromptSpec => DismissesWhatWasShown
<1> DEFINE Shown ==
      HostWrites /\ section'.legacyMigration.dismissedSignature # section.legacyMigration.dismissedSignature
        => section'.legacyMigration.dismissedSignature = shown
<1>1. PromptInv /\ [PromptNext]_allVars => [Shown]_allVars
  <2> SUFFICES ASSUME PromptInv, HostWrites, PromptNext PROVE Shown
    OBVIOUS
  <2>1. CASE UNCHANGED shown
    BY <2>1, HostWritesKeep
  <2>2. CASE shown' # shown
    <3>1. CommitLands
      BY <2>2 DEF PromptNext, HostQuiet, promptVars, HostMoves, OthersMove, Modal, PollTick, PollEnds,
                  ReadSampled, ReadAnswersNothing, ReadAnswers, Later, Commit, CommitRefused
    <3>2. section'.legacyMigration.dismissedSignature = section.legacyMigration.dismissedSignature
      BY <3>1 DEF CommitLands, Decide, ClientWrites, PromptInv, IInv, TypeOK, Section, Control
    <3> QED
      BY <3>2
  <2> QED
    BY <2>1, <2>2
<1> QED
  BY <1>1, PromptInvariance, PTL DEF PromptSpec, DismissesWhatWasShown

\* No late read reopens a prompt that was postponed; only a decision of the user's
\* own that is refused does.
THEOREM LaterIsStickyHolds == PromptSpec => LaterIsSticky
<1> DEFINE Sticky == phase = "later" => phase' = "later" \/ CommitRefused
<1>1. PromptNext => Sticky
  <2> SUFFICES ASSUME PromptNext, phase = "later", ~CommitRefused PROVE phase' = phase
    OBVIOUS
  <2>1. CASE HostQuiet \/ HostMoves \/ OthersMove
    BY <2>1 DEF HostQuiet, HostMoves, OthersMove, SectionMoves, promptVars
  <2>2. CASE ReadAnswers
    BY <2>2 DEF ReadAnswers, ReadSettles, Show, Keep
  <2>3. CASE Modal /\ ~ReadAnswers
    BY <2>3 DEF Modal, PollTick, PollEnds, ReadSampled, ReadAnswersNothing, Later, Commit, CommitLands, Polling
  <2> QED
    BY <2>1, <2>2, <2>3 DEF PromptNext
<1>2. [PromptNext]_allVars => [Sticky]_allVars
  BY <1>1
<1> QED
  BY <1>2, PTL DEF PromptSpec, LaterIsSticky
=============================================================================
