------------------------- MODULE SettingsFillProofs -------------------------
(* Proofs about the Host's default-level fill, for every set of models and   *)
(* overrides, every lower layer and every bound.                             *)
EXTENDS SettingsFill, TLAPS

\* A fill write that no edit has overtaken is the fill of the document as it
\* stands: what the write states about entries it does not fill is still true.
WritesFresh ==
  \A w \in writes : /\ w.seen <= doc.edits
                    /\ w.seen = doc.edits => w = FillOps(doc)

\* The counters stay inside their types because a chain stops before its last
\* pass is counted and the startup chain stops after its last retry.
CountersInside ==
  /\ passes < MaxFillPasses
  /\ startup # "exhausted" => retries <= MaxRetries

IInv == TypeOK /\ SingleFlight /\ WritesFresh /\ CountersInside

----------------------------------------------------------------------------
\* The batch a pass submits is a well-formed write.
LEMMA FillOpsType ==
  ASSUME NEW d \in Doc
  PROVE  FillOps(d) \in Write
BY DEF FillOps, Write, Doc, Entry, Level, MissingModels, MissingOverrides

\* Applying a write keeps the document a document and the edit count as it is.
LEMMA ApplyType ==
  ASSUME NEW d \in Doc, NEW w \in Write
  PROVE  Apply(w, d) \in Doc /\ Apply(w, d).edits = d.edits
BY DEF Apply, Write, Doc, Entry, Level

\* What starting a pass does to the outstanding writes and the outcome.
LEMMA StartPassEffect ==
  ASSUME NEW d \in Doc, NEW r, StartPass(d, r)
  PROVE  \/ writes' = writes \cup {FillOps(d)} /\ outcome' = "pending"
         \/ writes' = writes /\ outcome' \in Returned
BY DEF StartPass, IdleVerdict, Returned

\* One trigger, whether it starts a chain or is queued into one, keeps the part
\* of the invariant about writes, given that the document it reads is the one
\* the step leaves and any outstanding write is older than it.
LEMMA RunFillKeeps ==
  ASSUME IInv, doc' \in Doc, RunFill(doc', ready),
         \A w \in writes : /\ w.seen <= doc'.edits
                           /\ w.seen = doc'.edits => w = FillOps(doc')
  PROVE  /\ writes' \subseteq Write
         /\ inFlight' \in BOOLEAN /\ queued' \in BOOLEAN
         /\ passes' \in 0..MaxFillPasses /\ passes' < MaxFillPasses
         /\ outcome' \in Outcome
         /\ SingleFlight'
         /\ WritesFresh'
<1> USE BoundAssumption
<1>1. CASE inFlight /\ queued' = TRUE /\ UNCHANGED <<inFlight, passes, outcome, writes>>
  BY <1>1 DEF IInv, TypeOK, SingleFlight, WritesFresh, CountersInside
<1>2. CASE ~inFlight /\ BeginChain(doc', ready)
  <2>1. writes = {}
    BY <1>2 DEF IInv, SingleFlight
  <2>2. inFlight' = TRUE /\ queued' = FALSE /\ passes' = 0
    BY <1>2 DEF BeginChain
  <2>3. FillOps(doc') \in Write /\ FillOps(doc').seen = doc'.edits /\ doc'.edits \in Nat
    BY FillOpsType DEF FillOps, Doc
  <2>4. StartPass(doc', ready)
    BY <1>2 DEF BeginChain
  <2>5. \/ writes' = {FillOps(doc')} /\ outcome' = "pending"
        \/ writes' = {} /\ outcome' \in Returned
    BY <2>1, <2>4, StartPassEffect
  <2>6. writes' \subseteq Write /\ outcome' \in Outcome
    BY <2>3, <2>5 DEF Outcome
  <2>7. SingleFlight'
    BY <2>2, <2>5 DEF SingleFlight, Returned
  <2>8. \A w \in writes' : w.seen <= doc'.edits /\ w = FillOps(doc')
    BY <2>3, <2>5
  <2>9. WritesFresh'
    BY <2>8 DEF WritesFresh
  <2>10. passes' \in 0..MaxFillPasses /\ passes' < MaxFillPasses
    BY <2>2
  <2>. QED
    BY <2>2, <2>6, <2>7, <2>9, <2>10
<1>. QED
  BY <1>1, <1>2 DEF RunFill

\* The only outstanding write is the one that leaves.
LEMMA WriteLeaves ==
  ASSUME SingleFlight, NEW w \in writes, writes' = writes \ {w}
  PROVE  writes' = {}
BY DEF SingleFlight

LEMMA InitInv == Init => IInv
<1> SUFFICES ASSUME Init PROVE IInv
  OBVIOUS
<1> USE BoundAssumption
<1>1. doc \in Doc
  <2>1. \A f \in [Models -> {"absent", "none"}] : f \in [Models -> Entry]
    BY DEF Entry, Level
  <2>2. \A f \in [Overrides -> {"absent", "custom"}] : f \in [Overrides -> Entry]
    BY DEF Entry, Level
  <2>3. 0 \in 0..MaxEdits
    OBVIOUS
  <2>. QED
    BY <2>1, <2>2, <2>3 DEF Init, Doc
<1>2. TypeOK
  <2>1. /\ passes \in 0..MaxFillPasses /\ retries \in 0..(MaxRetries + 1)
        /\ faults \in 0..MaxFaults
    BY DEF Init
  <2>2. writes \subseteq Write /\ outcome \in Outcome /\ verdict \in Returned \cup {"threw"}
    BY DEF Init, Outcome, Returned
  <2>. QED
    BY <1>1, <2>1, <2>2 DEF Init, TypeOK
<1>3. SingleFlight /\ WritesFresh /\ CountersInside
  BY DEF Init, SingleFlight, WritesFresh, CountersInside
<1>. QED
  BY <1>2, <1>3 DEF IInv

\* Every step keeps the invariant: one step per action.
LEMMA NextInv == IInv /\ [Next]_vars => IInv'
<1> SUFFICES ASSUME IInv, [Next]_vars PROVE IInv'
  OBVIOUS
<1> USE BoundAssumption DEF hostVars, chainVars, startVars
<1>1. CASE TimerFires
  <2>1. doc' = doc /\ doc' \in Doc
    BY <1>1 DEF TimerFires, IInv, TypeOK
  <2>2. RunFill(doc', ready)
    BY <1>1, <2>1 DEF TimerFires
  <2>3. /\ writes' \subseteq Write /\ inFlight' \in BOOLEAN /\ queued' \in BOOLEAN
        /\ passes' \in 0..MaxFillPasses /\ passes' < MaxFillPasses
        /\ outcome' \in Outcome /\ SingleFlight' /\ WritesFresh'
    BY <2>1, <2>2, RunFillKeeps DEF IInv, WritesFresh
  <2>4. TypeOK'
    BY <1>1, <2>1, <2>3 DEF TimerFires, IInv, TypeOK
  <2>. QED
    BY <1>1, <2>3, <2>4 DEF TimerFires, IInv, CountersInside
<1>2. CASE PassEnds
  <2>1. CASE ChainAgain /\ queued' = FALSE /\ passes' = passes + 1 /\ StartPass(doc, ready)
             /\ UNCHANGED <<inFlight, startup, verdict, missed>>
    <3>1. writes = {} /\ inFlight /\ UNCHANGED <<doc, ready, alive, retries, faults>>
      BY <1>2 DEF PassEnds, IInv, SingleFlight, Returned
    <3>2. doc \in Doc /\ doc.edits \in Nat
      BY DEF IInv, TypeOK, Doc
    <3>3. FillOps(doc) \in Write /\ FillOps(doc).seen = doc.edits
      BY <3>2, FillOpsType DEF FillOps
    <3>4. \/ writes' = {FillOps(doc)} /\ outcome' = "pending"
          \/ writes' = {} /\ outcome' \in Returned
      BY <2>1, <3>1, StartPassEffect, <3>2
    <3>5. writes' \subseteq Write /\ outcome' \in Outcome
      BY <3>3, <3>4 DEF Outcome
    <3>6. SingleFlight'
      BY <2>1, <3>1, <3>4 DEF SingleFlight, Returned
    <3>7. \A w \in writes' : w.seen <= doc'.edits /\ w = FillOps(doc')
      BY <3>1, <3>2, <3>3, <3>4
    <3>8. WritesFresh'
      BY <3>7 DEF WritesFresh
    <3>9. CountersInside' /\ passes' \in 0..MaxFillPasses
      BY <2>1, <3>1 DEF ChainAgain, CountersInside, IInv, TypeOK
    <3>10. TypeOK'
      BY <2>1, <3>1, <3>5, <3>9 DEF IInv, TypeOK
    <3>. QED
      BY <3>6, <3>8, <3>9, <3>10 DEF IInv
  <2>2. CASE /\ queued' = (queued /\ ~alive)
             /\ missed' = (missed \/ (alive /\ queued))
             /\ inFlight' = FALSE
             /\ passes' = 0
             /\ Settle(outcome)
             /\ UNCHANGED <<writes, outcome>>
    <3>1. outcome \in Returned /\ UNCHANGED <<doc, ready, alive, retries, faults>>
      BY <1>2 DEF PassEnds
    <3>2. writes = {}
      BY <3>1 DEF IInv, SingleFlight, Returned
    <3>3. TypeOK'
      <4>1. queued' \in BOOLEAN /\ missed' \in BOOLEAN
        BY <2>2, Zenon
      <4>2. passes' \in 0..MaxFillPasses
        BY <2>2
      <4>. QED
        BY <2>2, <3>1, <4>1, <4>2 DEF IInv, TypeOK, Settle
    <3>4. SingleFlight' /\ WritesFresh'
      BY <2>2, <3>1, <3>2 DEF SingleFlight, WritesFresh
    <3>5. CountersInside'
      BY <2>2, <3>1 DEF IInv, CountersInside, Settle
    <3>. QED
      BY <3>3, <3>4, <3>5 DEF IInv
  <2>. QED
    BY <1>2, <2>1, <2>2 DEF PassEnds
<1>3. CASE PassThrows
  <2>1. TypeOK'
    BY <1>3 DEF PassThrows, IInv, TypeOK, Settle
  <2>2. SingleFlight' /\ WritesFresh'
    BY <1>3 DEF PassThrows, IInv, SingleFlight, WritesFresh
  <2>3. CountersInside'
    BY <1>3 DEF PassThrows, IInv, CountersInside, Settle
  <2>. QED
    BY <2>1, <2>2, <2>3 DEF IInv
<1>4. CASE TryOnceResumes
  <2>1. TypeOK'
    BY <1>4 DEF TryOnceResumes, IInv, TypeOK, CountersInside
  <2>2. SingleFlight' /\ WritesFresh'
    BY <1>4 DEF TryOnceResumes, IInv, SingleFlight, WritesFresh
  <2>3. CountersInside'
    BY <1>4 DEF TryOnceResumes, IInv, TypeOK, CountersInside
  <2>. QED
    BY <2>1, <2>2, <2>3 DEF IInv
<1>5. ASSUME NEW w \in writes, WriteLands(w) \/ WriteVanishes(w) \/ WriteRefused(w)
      PROVE  IInv'
  <2>1. writes' = {} /\ outcome' \in {"filled", "threw"}
    BY <1>5, WriteLeaves DEF WriteLands, WriteVanishes, WriteRefused, IInv
  <2>2. doc' \in Doc
    BY <1>5, ApplyType DEF WriteLands, WriteVanishes, WriteRefused, IInv, TypeOK
  <2>3. faults' \in 0..MaxFaults /\ queued' \in BOOLEAN
    <3>1. faults' \in 0..MaxFaults
      BY <1>5 DEF WriteLands, WriteVanishes, WriteRefused, IInv, TypeOK
    <3>2. queued' \in BOOLEAN
      BY <1>5, Zenon DEF WriteLands, WriteVanishes, WriteRefused, OwnEvent, IInv, TypeOK
    <3>. QED
      BY <3>1, <3>2
  <2>4. UNCHANGED <<ready, alive, inFlight, passes, startVars, missed>>
    BY <1>5 DEF WriteLands, WriteVanishes, WriteRefused
  <2>5. TypeOK'
    BY <2>1, <2>2, <2>3, <2>4 DEF IInv, TypeOK, Outcome, Returned
  <2>6. SingleFlight' /\ WritesFresh' /\ CountersInside'
    BY <2>1, <2>4 DEF IInv, SingleFlight, WritesFresh, CountersInside
  <2>. QED
    BY <2>5, <2>6 DEF IInv
<1>6. CASE Dispose
  <2>1. TypeOK'
    BY <1>6 DEF Dispose, IInv, TypeOK
  <2>2. SingleFlight' /\ WritesFresh' /\ CountersInside'
    BY <1>6 DEF Dispose, IInv, SingleFlight, WritesFresh, CountersInside
  <2>. QED
    BY <2>1, <2>2 DEF IInv
<1>7. CASE EditLands
  <2>1. PICK d \in Edited(doc) \ {doc} :
          /\ doc' = [d EXCEPT !.edits = @ + 1]
          /\ \/ alive /\ RunFill(doc', ready)
             \/ ~alive /\ UNCHANGED <<chainVars, writes>>
    BY <1>7 DEF EditLands
  <2>2. d \in Doc /\ d.edits = doc.edits
    <3>1. doc \in Doc
      BY DEF IInv, TypeOK
    <3>2. ASSUME NEW m \in Models, NEW e \in Entry, d = [doc EXCEPT !.list[m] = e]
          PROVE  d \in Doc /\ d.edits = doc.edits
      BY <3>1, <3>2 DEF Doc
    <3>3. ASSUME NEW o \in Overrides, NEW e \in Entry, d = [doc EXCEPT !.over[o] = e]
          PROVE  d \in Doc /\ d.edits = doc.edits
      BY <3>1, <3>3 DEF Doc
    <3>4. ASSUME d = [doc EXCEPT !.autoFill = ~@]
          PROVE  d \in Doc /\ d.edits = doc.edits
      BY <3>1, <3>4 DEF Doc
    <3>5. {"absent", "none", "custom"} \subseteq Entry
      BY DEF Entry, Level
    <3>. QED
      BY <2>1, <3>2, <3>3, <3>4, <3>5 DEF Edited
  <2>3. doc' \in Doc /\ doc'.edits = doc.edits + 1 /\ doc.edits \in Nat
    <3>1. doc.edits \in 0..MaxEdits /\ doc.edits < MaxEdits
      BY <1>7 DEF EditLands, IInv, TypeOK, Doc
    <3>2. d.edits + 1 \in 0..MaxEdits
      BY <2>2, <3>1
    <3>3. doc' \in Doc
      BY <2>1, <2>2, <3>2 DEF Doc
    <3>4. doc'.edits = d.edits + 1
      BY <2>1, <2>2 DEF Doc
    <3>. QED
      BY <2>2, <3>1, <3>3, <3>4
  <2>4. \A w \in writes : w.seen \in Nat /\ w.seen <= doc.edits
    BY DEF IInv, TypeOK, WritesFresh, Write
  <2>5. \A w \in writes : w.seen <= doc'.edits /\ w.seen # doc'.edits
    BY <2>3, <2>4
  <2>6. /\ writes' \subseteq Write /\ inFlight' \in BOOLEAN /\ queued' \in BOOLEAN
        /\ passes' \in 0..MaxFillPasses /\ passes' < MaxFillPasses
        /\ outcome' \in Outcome /\ SingleFlight' /\ WritesFresh'
    <3>1. CASE alive /\ RunFill(doc', ready)
      BY <2>3, <2>5, <3>1, RunFillKeeps
    <3>2. CASE ~alive /\ UNCHANGED <<chainVars, writes>>
      BY <2>5, <3>2 DEF IInv, TypeOK, SingleFlight, WritesFresh, CountersInside
    <3>. QED
      BY <2>1, <3>1, <3>2
  <2>7. TypeOK'
    BY <1>7, <2>3, <2>6 DEF EditLands, IInv, TypeOK
  <2>. QED
    BY <1>7, <2>6, <2>7 DEF EditLands, IInv, CountersInside
<1>8. CASE SectionMaterializes
  <2>1. TypeOK'
    BY <1>8 DEF SectionMaterializes, IInv, TypeOK
  <2>2. SingleFlight' /\ WritesFresh' /\ CountersInside'
    BY <1>8 DEF SectionMaterializes, IInv, SingleFlight, WritesFresh, CountersInside
  <2>. QED
    BY <2>1, <2>2 DEF IInv
<1>9. CASE UNCHANGED vars
  BY <1>9 DEF vars, IInv, TypeOK, SingleFlight, WritesFresh, CountersInside
<1>. QED
  BY <1>1, <1>2, <1>3, <1>4, <1>5, <1>6, <1>7, <1>8, <1>9 DEF Next, Fill, Service

LEMMA Invariant == Spec => []IInv
BY InitInv, NextInv, PTL DEF Spec

\* Every reachable state is well typed: in particular the pass counter and the
\* retry counter never leave their bounds.
THEOREM TypeCorrect == Spec => []TypeOK
<1>1. IInv => TypeOK
  BY DEF IInv
<1>. QED
  BY <1>1, Invariant, PTL

\* However triggers, edits, failures and disposal interleave, at most one fill
\* write is outstanding, and only while a chain awaits it.
THEOREM SingleFlightHolds == Spec => []SingleFlight
<1>1. IInv => SingleFlight
  BY DEF IInv
<1>. QED
  BY <1>1, Invariant, PTL

\* A fill write no edit overtook changes only entries that lack a level.
THEOREM FillOnlyAddsMissingHolds == Spec => FillOnlyAddsMissing
<1> DEFINE Adds == \A w \in writes :
       (doc' = Apply(w, doc) /\ doc' # doc /\ w.seen = doc.edits) =>
         /\ \A m \in Models : doc'.list[m] # doc.list[m] =>
              doc.list[m] = "none" /\ doc'.list[m] = "default"
         /\ \A o \in Overrides : doc'.over[o] # doc.over[o] =>
              doc.over[o] \in {"absent", "none"} /\ BaseOver[o] # "custom"
<1>1. IInv => Adds
  <2> SUFFICES ASSUME IInv, NEW w \in writes, doc' = Apply(w, doc), w.seen = doc.edits
               PROVE  /\ \A m \in Models : doc'.list[m] # doc.list[m] =>
                           doc.list[m] = "none" /\ doc'.list[m] = "default"
                      /\ \A o \in Overrides : doc'.over[o] # doc.over[o] =>
                           doc.over[o] \in {"absent", "none"} /\ BaseOver[o] # "custom"
    OBVIOUS
  <2>1. w = FillOps(doc) /\ doc \in Doc
    BY DEF IInv, WritesFresh, TypeOK
  <2>2. \A m \in Models : doc'.list[m] # doc.list[m] =>
          doc.list[m] = "none" /\ doc'.list[m] = "default"
    BY <2>1 DEF Apply, FillOps, Doc
  <2>3. \A o \in Overrides : doc'.over[o] # doc.over[o] => o \in MissingOverrides(doc)
    BY <2>1 DEF Apply, FillOps, Doc
  <2>. QED
    BY <2>2, <2>3 DEF MissingOverrides
<1>2. IInv => [Adds]_vars
  BY <1>1
<1>. QED
  BY <1>2, Invariant, PTL DEF FillOnlyAddsMissing

\* After the disposer ran no pass submits a write.
THEOREM NoWriteAfterDisposeHolds == Spec => NoWriteAfterDispose
<1>1. IInv /\ [Next]_vars => [~alive => (writes = {} => writes' = {})]_vars
  <2> SUFFICES ASSUME IInv, Next, ~alive, writes = {}
               PROVE  writes' = {}
    BY DEF vars
  <2>1. CASE Fill
    BY <2>1 DEF Fill, TimerFires, PassEnds, ChainAgain, PassThrows, TryOnceResumes
  <2>2. CASE Service
    BY <2>2 DEF Service
  <2>3. CASE Dispose
    BY <2>3 DEF Dispose
  <2>4. CASE EditLands
    BY <2>4 DEF EditLands
  <2>5. CASE SectionMaterializes
    BY <2>5 DEF SectionMaterializes
  <2>. QED
    BY <2>1, <2>2, <2>3, <2>4, <2>5 DEF Next
<1>. QED
  BY <1>1, Invariant, PTL DEF Spec, NoWriteAfterDispose

----------------------------------------------------------------------------
\* As long as nobody else wrote and no write failed, whoever says the fill is
\* done is right: the startup chain, the verdict it is about to take, and the
\* outcome of the pass under way.
DoneIsDone ==
  doc.edits = 0 /\ faults = 0 =>
    /\ doc.autoFill
    /\ \/ ~Unfilled(doc)
       \/ /\ startup # "settled"
          /\ startup = "resuming" => verdict \notin {"filled", "settled"}
          /\ inFlight => outcome \notin {"filled", "settled"}

\* A fill that lands on the document it read leaves no level missing.
LEMMA FillFills ==
  ASSUME NEW d \in Doc
  PROVE  ~Unfilled(Apply(FillOps(d), d)) /\ Apply(FillOps(d), d).autoFill = d.autoFill
<1> DEFINE a == Apply(FillOps(d), d)
<1>1. /\ a.list = IF MissingModels(d) # {} THEN [m \in Models |-> IF d.list[m] = "none" THEN "default" ELSE d.list[m]] ELSE d.list
      /\ a.over = [o \in Overrides |-> IF o \in MissingOverrides(d) THEN "default" ELSE d.over[o]]
      /\ a.autoFill = d.autoFill
  BY DEF Apply, FillOps, Doc
<1> HIDE DEF a
<1>2. MissingModels(a) = {}
  BY <1>1 DEF MissingModels
<1>3. MissingOverrides(a) = {}
  BY <1>1 DEF MissingOverrides
<1> QED
  BY <1>1, <1>2, <1>3 DEF Unfilled, a

\* A pass that says "settled" at once has found nothing missing.
LEMMA StartPassIsRight ==
  ASSUME NEW d, NEW r, StartPass(d, r), r \in {"unwritable", "unreadable", "ready"}, d.autoFill
  PROVE  outcome' \in {"filled", "settled"} => ~Unfilled(d)
BY DEF StartPass, IdleVerdict

LEMMA DoneIsDoneKept == IInv /\ DoneIsDone /\ [Next]_vars => DoneIsDone'
<1> SUFFICES ASSUME IInv, DoneIsDone, [Next]_vars, doc'.edits = 0, faults' = 0 PROVE DoneIsDone'
  BY DEF DoneIsDone
<1> USE DEF hostVars, chainVars, startVars
<1>1. doc \in Doc /\ doc.edits \in Nat /\ faults \in Nat /\ ready \in {"unwritable", "unreadable", "ready"}
  BY BoundAssumption DEF IInv, TypeOK, Doc
<1>2. CASE TimerFires
  <2>1. UNCHANGED <<doc, ready, faults>> /\ startup' = "awaiting" /\ doc.autoFill
    BY <1>2 DEF TimerFires, DoneIsDone
  <2>2. CASE inFlight /\ UNCHANGED <<inFlight, outcome>>
    BY <2>1, <2>2 DEF DoneIsDone
  <2>3. CASE BeginChain(doc, ready)
    BY <1>1, <2>1, <2>3, StartPassIsRight DEF BeginChain, DoneIsDone
  <2> QED
    BY <1>2, <2>2, <2>3 DEF TimerFires, RunFill
<1>3. CASE PassEnds
  <2>1. UNCHANGED <<doc, ready, faults>> /\ doc.autoFill /\ inFlight
    BY <1>3 DEF PassEnds, DoneIsDone
  <2>2. CASE StartPass(doc, ready) /\ UNCHANGED <<inFlight, startup, verdict, missed>>
    BY <1>1, <2>1, <2>2, StartPassIsRight DEF DoneIsDone
  <2>3. CASE inFlight' = FALSE /\ Settle(outcome)
    BY <2>1, <2>3 DEF DoneIsDone, Settle
  <2> QED
    BY <1>3, <2>2, <2>3 DEF PassEnds
<1>4. CASE PassThrows
  BY <1>4 DEF PassThrows, Settle, DoneIsDone
<1>5. CASE TryOnceResumes
  BY <1>5 DEF TryOnceResumes, DoneIsDone
<1>6. ASSUME NEW w \in writes, WriteLands(w) \/ WriteVanishes(w) \/ WriteRefused(w)
      PROVE  DoneIsDone'
  <2>1. WriteLands(w) /\ faults = 0
    BY <1>1, <1>6 DEF WriteLands, WriteVanishes, WriteRefused
  <2>2. doc' = Apply(w, doc) /\ w \in Write
    BY <2>1 DEF WriteLands, IInv, TypeOK
  <2>3. doc.edits = 0
    BY <1>1, <2>2, ApplyType
  <2>4. w = FillOps(doc) /\ doc.autoFill
    <3>1. w.seen = doc.edits
      BY <1>1, <2>2, <2>3 DEF IInv, WritesFresh, Write
    <3> QED
      BY <3>1, <2>1, <2>3 DEF IInv, WritesFresh, DoneIsDone
  <2>5. ~Unfilled(doc') /\ doc'.autoFill
    BY <1>1, <2>2, <2>4, FillFills
  <2> QED
    BY <2>5 DEF DoneIsDone, Unfilled, MissingModels, MissingOverrides
<1>7. CASE Dispose
  BY <1>7 DEF Dispose, DoneIsDone
<1>8. CASE EditLands
  <2>1. PICK d : doc' = [d EXCEPT !.edits = @ + 1] /\ d \in Edited(doc)
    BY <1>8 DEF EditLands
  <2>2. d.edits = doc.edits /\ "edits" \in DOMAIN d
    <3>1. ASSUME NEW m \in Models, NEW e, d = [doc EXCEPT !.list[m] = e] PROVE d.edits = doc.edits /\ "edits" \in DOMAIN d
      BY <1>1, <3>1 DEF Doc
    <3>2. ASSUME NEW o \in Overrides, NEW e, d = [doc EXCEPT !.over[o] = e] PROVE d.edits = doc.edits /\ "edits" \in DOMAIN d
      BY <1>1, <3>2 DEF Doc
    <3>3. ASSUME d = [doc EXCEPT !.autoFill = ~@] PROVE d.edits = doc.edits /\ "edits" \in DOMAIN d
      BY <1>1, <3>3 DEF Doc
    <3> QED
      BY <2>1, <3>1, <3>2, <3>3 DEF Edited
  <2>3. doc'.edits = doc.edits + 1
    BY <2>1, <2>2
  <2> QED
    BY <1>1, <2>3
<1>9. CASE SectionMaterializes
  BY <1>9 DEF SectionMaterializes, DoneIsDone
<1>10. CASE UNCHANGED vars
  BY <1>10 DEF vars, DoneIsDone, Unfilled, MissingModels, MissingOverrides
<1> QED
  BY <1>2, <1>3, <1>4, <1>5, <1>6, <1>7, <1>8, <1>9, <1>10 DEF Next, Fill, Service

\* The startup chain stops with the verdict "settled" only when the document
\* nobody else touched has every level the fill could give it.
THEOREM SettledMeansFilledHolds == Spec => []SettledMeansFilled
<1>1. Init => DoneIsDone
  BY DEF Init, DoneIsDone
<1>2. DoneIsDone => SettledMeansFilled
  BY DEF DoneIsDone, SettledMeansFilled
<1>3. Spec => []DoneIsDone
  BY <1>1, DoneIsDoneKept, Invariant, PTL DEF Spec
<1> QED
  BY <1>2, <1>3, PTL
=============================================================================
