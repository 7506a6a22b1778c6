--------------------------- MODULE SectionSaveProofs ---------------------------
(***************************************************************************)
(* What SectionSave promises, for every set of models and every bound.     *)
(* The inductive invariant is the type with the truth of the panel's       *)
(* copies: a write is fenced with the revision of the copy its ops are     *)
(* built from, so if that copy is what the section was at that revision,   *)
(* an accepted write starts from the section itself.                       *)
(***************************************************************************)
EXTENDS SectionSave, TLAPS

\* Only the first attempt of a save is ever waiting to be retried.
RefusedOnce == save.at = "refused" => save.attempt = 1

IInv == TypeOK /\ CopiesAreTrue /\ RefusedOnce

\* A leaf under EXCEPT hides the arithmetic of its revision from the prover:
\* the next revision is named once.
LEMMA RevNat == ASSUME NEW d \in Doc PROVE d.rev \in Nat /\ d.rev + 1 \in Nat
BY DEF Doc

LEMMA BoundsNat == MaxSaves \in Nat /\ MaxOthersWrite \in Nat /\ MaxFaults \in Nat
BY SaveBounds

\* A counter below its bound may be spent.
Spent == [saves : 0..MaxSaves, others : 0..MaxOthersWrite, faults : 0..MaxFaults]

LEMMA SpendsSaves == ASSUME NEW s \in Spent, s.saves < MaxSaves PROVE [s EXCEPT !.saves = @ + 1] \in Spent
<1> DEFINE n == s.saves + 1
<1>1. n \in 0..MaxSaves
  BY BoundsNat DEF Spent
<1> HIDE DEF n
<1>2. [s EXCEPT !.saves = n] \in Spent
  BY <1>1 DEF Spent
<1> QED
  BY <1>2 DEF n

LEMMA SpendsOthersWrite == ASSUME NEW s \in Spent, s.others < MaxOthersWrite PROVE [s EXCEPT !.others = @ + 1] \in Spent
<1> DEFINE n == s.others + 1
<1>1. n \in 0..MaxOthersWrite
  BY BoundsNat DEF Spent
<1> HIDE DEF n
<1>2. [s EXCEPT !.others = n] \in Spent
  BY <1>1 DEF Spent
<1> QED
  BY <1>2 DEF n

LEMMA SpendsFaults == ASSUME NEW s \in Spent, s.faults < MaxFaults PROVE [s EXCEPT !.faults = @ + 1] \in Spent
<1> DEFINE n == s.faults + 1
<1>1. n \in 0..MaxFaults
  BY BoundsNat DEF Spent
<1> HIDE DEF n
<1>2. [s EXCEPT !.faults = n] \in Spent
  BY <1>1 DEF Spent
<1> QED
  BY <1>2 DEF n

\* What a save writes is again a section, one revision on.
LEMMA WrittenType ==
  ASSUME TypeOK
  PROVE  Written(save) \in Doc /\ Written(save).rev = doc.rev + 1
<1> DEFINE n == doc.rev + 1
<1>1. n \in Nat /\ save.base \in Doc /\ doc \in Doc
  BY RevNat DEF TypeOK, Save
<1>2. CASE save.kind = "compat"
  <2>1. Written(save) = [doc EXCEPT !.compat = "panel", !.rev = n]
    BY <1>2 DEF Written
  <2> HIDE DEF n
  <2>2. Written(save) \in Doc /\ Written(save).rev = n
    BY <1>1, <2>1 DEF Doc, Value
  <2> QED
    BY <2>2 DEF n
<1>3. CASE save.kind # "compat"
  <2> DEFINE l == [m \in Models |-> IF m \in Targets(save, save.base) THEN "panel"
                                    ELSE save.base.levels[m]]
  <2>1. l \in [Models -> Value]
    BY <1>1 DEF Doc, Value
  <2>2. Written(save) = [doc EXCEPT !.present = save.base.present, !.levels = l,
                                    !.context = save.base.context, !.rev = n]
    BY <1>3 DEF Written
  <2> HIDE DEF n, l
  <2>3. Written(save) \in Doc /\ Written(save).rev = n
    BY <1>1, <2>1, <2>2 DEF Doc
  <2> QED
    BY <2>3 DEF n
<1> QED
  BY <1>2, <1>3

\* So is what another writer leaves behind.
LEMMA OtherDocType ==
  ASSUME doc \in Doc, NEW d \in OtherDoc
  PROVE  d \in Doc /\ d.rev = doc.rev + 1
<1> DEFINE n == doc.rev + 1
<1>1. n \in Nat
  BY RevNat
<1>2. \/ \E m \in doc.present : d = [doc EXCEPT !.levels[m] = "other", !.rev = n]
      \/ \E m \in doc.present : d = [doc EXCEPT !.context[m] = "other", !.rev = n]
      \/ \E m \in doc.present : d = [doc EXCEPT !.present = @ \ {m}, !.rev = n]
      \/ \E m \in Models \ doc.present : d = [doc EXCEPT !.present = @ \union {m}, !.rev = n]
      \/ d = [doc EXCEPT !.compat = "other", !.rev = n]
  BY DEF OtherDoc
<1> HIDE DEF n
<1>3. ASSUME NEW m \in doc.present, d = [doc EXCEPT !.levels[m] = "other", !.rev = n]
      PROVE  d \in Doc /\ d.rev = n
  BY <1>1, <1>3 DEF Doc, Value
<1>4. ASSUME NEW m \in doc.present, d = [doc EXCEPT !.context[m] = "other", !.rev = n]
      PROVE  d \in Doc /\ d.rev = n
  BY <1>1, <1>4 DEF Doc, Value
<1>5. ASSUME NEW m \in doc.present, d = [doc EXCEPT !.present = @ \ {m}, !.rev = n]
      PROVE  d \in Doc /\ d.rev = n
  BY <1>1, <1>5 DEF Doc
<1>6. ASSUME NEW m \in Models \ doc.present,
             d = [doc EXCEPT !.present = @ \union {m}, !.rev = n]
      PROVE  d \in Doc /\ d.rev = n
  BY <1>1, <1>6 DEF Doc
<1>7. ASSUME d = [doc EXCEPT !.compat = "other", !.rev = n]
      PROVE  d \in Doc /\ d.rev = n
  BY <1>1, <1>7 DEF Doc, Value
<1>8. d \in Doc /\ d.rev = n
  BY <1>2, <1>3, <1>4, <1>5, <1>6, <1>7
<1> QED
  BY <1>8 DEF n

\* Once the section has moved, every copy taken before is a true one, because
\* its revision is no longer the section's.
LEMMA MovedOn ==
  ASSUME doc \in Doc, doc' \in Doc, doc'.rev = doc.rev + 1, NEW c \in Doc, TrueCopy(c)
  PROVE  c.rev <= doc'.rev /\ (c.rev = doc'.rev => c = doc')
BY DEF TrueCopy, Doc

LEMMA InitInv == Init => IInv
<1> SUFFICES ASSUME Init PROVE IInv
  OBVIOUS
<1>1. Stored \in Doc
  BY DEF Stored, Doc, Value
<1>2. doc = Stored /\ view = Stored /\ save.base = Stored /\ save.answer = Stored
  BY DEF Init
<1>3. save \in Save
  BY <1>1 DEF Init, Save
<1>4. TypeOK
  <2>1. spent \in Spent
    <3>1. 0 \in 0..MaxSaves /\ 0 \in 0..MaxOthersWrite /\ 0 \in 0..MaxFaults
      BY BoundsNat
    <3>2. spent = [saves |-> 0, others |-> 0, faults |-> 0]
      BY DEF Init
    <3> QED
      BY <3>1, <3>2 DEF Spent
  <2> QED
    BY <1>1, <1>2, <1>3, <2>1 DEF Init, TypeOK, Spent, Stored
<1>5. CopiesAreTrue
  BY <1>1, <1>2 DEF CopiesAreTrue, TrueCopy, Doc
<1> QED
  BY <1>2, <1>4, <1>5 DEF IInv, RefusedOnce, Init

\* A settled save leaves a save whose copies are the panel's.
LEMMA Settles ==
  ASSUME IInv, NEW r \in {"saved", "error"}, Settle(r)
  PROVE  /\ save' \in Save /\ save'.base = view /\ save'.answer = view
         /\ save'.at = "idle"
         /\ report' \in {"", "saved", "error"}
BY DEF IInv, TypeOK, Save, Settle

\* A step that leaves the section alone keeps the invariant if the copies it
\* leaves are true ones.
LEMMA Keeps ==
  ASSUME IInv, UNCHANGED doc, TypeOK', TrueCopy(view'), TrueCopy(save'.base),
         TrueCopy(save'.answer), RefusedOnce'
  PROVE  IInv'
BY DEF IInv, CopiesAreTrue, TrueCopy

LEMMA NextInv == IInv /\ [Next]_vars => IInv'
<1> SUFFICES ASSUME IInv, [Next]_vars PROVE IInv'
  OBVIOUS
<1>1. /\ TypeOK /\ RefusedOnce
      /\ doc \in Doc /\ view \in Doc /\ save \in Save
      /\ save.base \in Doc /\ save.answer \in Doc
  BY DEF IInv, TypeOK, Save
<1>2. TrueCopy(view) /\ TrueCopy(save.base) /\ TrueCopy(save.answer) /\ TrueCopy(doc)
  BY <1>1 DEF IInv, CopiesAreTrue, TrueCopy, Doc
<1>3. ASSUME NEW kind \in {"model", "preset", "compat"}, NEW m \in Models, Click(kind, m)
      PROVE  IInv'
  <2>1. /\ save' \in Save /\ save'.at = "sent" /\ save'.base = view
        /\ save'.answer = save.answer
    BY <1>1, <1>3 DEF Click, Save, TypeOK
  <2>2. spent' \in Spent
    BY <1>1, <1>3, SpendsSaves DEF Click, TypeOK, Spent
  <2>3. TypeOK'
    BY <1>1, <1>3, <2>1, <2>2 DEF Click, TypeOK, Spent
  <2> QED
    BY <1>2, <1>3, <2>1, <2>3, Keeps DEF Click, TrueCopy, RefusedOnce
<1>4. CASE Lands
  <2>1. doc' \in Doc /\ doc'.rev = doc.rev + 1 /\ doc'.rev \in Nat
    BY <1>1, <1>4, WrittenType, RevNat DEF Lands
  <2>2. save' \in Save /\ save'.at = "landed" /\ save'.base = save.base /\ save'.answer = doc'
    BY <1>1, <1>4, <2>1 DEF Lands, Save
  <2>3. TypeOK'
    BY <1>1, <1>4, <2>1, <2>2 DEF Lands, TypeOK
  <2>4. CopiesAreTrue'
    BY <1>1, <1>2, <1>4, <2>1, <2>2, MovedOn DEF CopiesAreTrue, TrueCopy, Lands
  <2> QED
    BY <2>2, <2>3, <2>4 DEF IInv, RefusedOnce
<1>5. CASE Conflicts
  <2>1. formRev' \in Nat /\ UNCHANGED <<doc, view, formServed, spent>>
    BY <1>1, <1>5 DEF Conflicts, TypeOK, Doc
  <2>2. CASE RetryLeft
    <3>1. /\ save' \in Save /\ save'.base = save.base /\ save'.answer = save.answer
          /\ save'.attempt = 1 /\ UNCHANGED report
      BY <1>1, <1>5, <2>2 DEF Conflicts, Save, RetryLeft
    <3>2. TypeOK'
      BY <1>1, <2>1, <3>1 DEF TypeOK, Spent
    <3> QED
      BY <1>2, <2>1, <3>1, <3>2, Keeps DEF TrueCopy, RefusedOnce
  <2>3. CASE ~RetryLeft
    <3>1. Settle("error")
      BY <1>5, <2>3 DEF Conflicts
    <3>2. TypeOK'
      BY <1>1, <2>1, <3>1, Settles DEF TypeOK, Spent
    <3> QED
      BY <1>2, <2>1, <3>1, <3>2, Settles, Keeps DEF TrueCopy, RefusedOnce
  <2> QED
    BY <2>2, <2>3
<1>6. CASE Fails \/ AnswerLost
  <2>1. UNCHANGED <<doc, view, formServed, formRev>> /\ spent' \in Spent
    BY <1>1, <1>6, SpendsFaults DEF Fails, AnswerLost, TypeOK, Spent
  <2>2. CASE save.form /\ RetryLeft
    <3>1. /\ save' \in Save /\ save'.base = save.base /\ save'.answer = save.answer
          /\ save'.attempt = 1 /\ UNCHANGED report
      BY <1>1, <1>6, <2>2 DEF Fails, AnswerLost, RetriedOrReported, Save, RetryLeft
    <3>2. TypeOK'
      BY <1>1, <2>1, <3>1 DEF TypeOK, Spent
    <3> QED
      BY <1>2, <2>1, <3>1, <3>2, Keeps DEF TrueCopy, RefusedOnce
  <2>3. CASE ~(save.form /\ RetryLeft)
    <3>1. Settle("error")
      BY <1>6, <2>3 DEF Fails, AnswerLost, RetriedOrReported
    <3>2. TypeOK'
      BY <1>1, <2>1, <3>1, Settles DEF TypeOK, Spent
    <3> QED
      BY <1>2, <2>1, <3>1, <3>2, Settles, Keeps DEF TrueCopy, RefusedOnce
  <2> QED
    BY <2>2, <2>3
<1>7. CASE Rereads
  <2>1. UNCHANGED <<doc, view, formServed, formRev, spent>>
    BY <1>7 DEF Rereads
  <2>2. CASE MayRetry
    <3>1. save.attempt = 1 /\ Retry(doc) /\ UNCHANGED report
      BY <1>1, <1>7, <2>2 DEF Rereads, RefusedOnce
    <3>2. /\ save' \in Save /\ save'.at = "sent" /\ save'.base = doc
          /\ save'.answer = save.answer
      <4> DEFINE a == save.attempt + 1
      <4>1. a \in {1, 2}
        BY <3>1
      <4>2. save' = [save EXCEPT !.at = "sent", !.attempt = a, !.base = doc]
        BY <3>1 DEF Retry
      <4> HIDE DEF a
      <4> QED
        BY <1>1, <4>1, <4>2 DEF Save
    <3>3. TypeOK'
      BY <1>1, <2>1, <3>1, <3>2 DEF TypeOK
    <3> QED
      BY <1>2, <2>1, <3>2, <3>3, Keeps DEF TrueCopy, RefusedOnce
  <2>3. CASE ~MayRetry
    <3>1. Settle("error")
      BY <1>7, <2>3 DEF Rereads
    <3>2. TypeOK'
      BY <1>1, <2>1, <3>1, Settles DEF TypeOK, Spent
    <3> QED
      BY <1>2, <2>1, <3>1, <3>2, Settles, Keeps DEF TrueCopy, RefusedOnce
  <2> QED
    BY <2>2, <2>3
<1>8. CASE RereadFails \/ ReloadFails
  <2>1. UNCHANGED <<doc, view, formServed, formRev>> /\ Settle("error")
    BY <1>8 DEF RereadFails, ReloadFails
  <2>2. spent' \in Spent
    BY <1>1, <1>8, SpendsFaults DEF RereadFails, ReloadFails, TypeOK, Spent
  <2>3. TypeOK'
    BY <1>1, <2>1, <2>2, Settles DEF TypeOK, Spent
  <2> QED
    BY <1>2, <2>1, <2>3, Settles, Keeps DEF TrueCopy, RefusedOnce
<1>9. CASE Accepted
  <2>1. UNCHANGED <<doc, formServed, formRev, spent>>
    BY <1>9 DEF Accepted
  <2>2. CASE save.form
    <3>1. /\ save' \in Save /\ save'.at = "reloading" /\ save'.base = save.base
          /\ save'.answer = save.answer /\ UNCHANGED <<view, report>>
      BY <1>1, <1>9, <2>2 DEF Accepted, Save
    <3>2. TypeOK'
      BY <1>1, <2>1, <3>1 DEF TypeOK, Spent
    <3> QED
      BY <1>2, <2>1, <3>1, <3>2, Keeps DEF TrueCopy, RefusedOnce
  <2>3. CASE ~save.form
    <3>1. view' = save.answer /\ Settle("saved")
      BY <1>9, <2>3 DEF Accepted, Projected
    <3>2. TypeOK'
      BY <1>1, <2>1, <3>1, Settles DEF TypeOK, Spent
    <3> QED
      BY <1>2, <2>1, <3>1, <3>2, Settles, Keeps DEF TrueCopy, RefusedOnce
  <2> QED
    BY <2>2, <2>3
<1>10. CASE Reloads
  <2>1. UNCHANGED <<doc, formServed, formRev, spent>> /\ view' = doc /\ Settle("saved")
    BY <1>10 DEF Reloads, Projected
  <2>2. TypeOK'
    BY <1>1, <2>1, Settles DEF TypeOK
  <2> QED
    BY <1>2, <2>1, <2>2, Settles, Keeps DEF TrueCopy, RefusedOnce
<1>11. CASE OthersWrite
  <2>1. doc' \in Doc /\ doc'.rev = doc.rev + 1
    BY <1>1, <1>11, OtherDocType DEF OthersWrite
  <2>2. /\ save' \in Save /\ save'.at = save.at /\ save'.attempt = save.attempt
        /\ save'.base = save.base /\ save'.answer = save.answer
    BY <1>1, <1>11 DEF OthersWrite, Save
  <2>3. spent' \in Spent /\ UNCHANGED <<view, formServed, formRev, report>>
    BY <1>1, <1>11, SpendsOthersWrite DEF OthersWrite, TypeOK, Spent
  <2>4. TypeOK'
    BY <1>1, <2>1, <2>2, <2>3 DEF TypeOK, Spent
  <2>5. CopiesAreTrue'
    BY <1>1, <1>2, <2>1, <2>2, <2>3, MovedOn DEF CopiesAreTrue, TrueCopy
  <2> QED
    BY <1>1, <2>2, <2>4, <2>5 DEF IInv, RefusedOnce
<1>12. CASE FormFollows
  <2>1. TypeOK'
    BY <1>1, <1>12 DEF FormFollows, TypeOK, Doc
  <2> QED
    BY <1>1, <1>2, <1>12, <2>1, Keeps DEF FormFollows, TrueCopy, RefusedOnce
<1>13. CASE UNCHANGED vars
  BY <1>1, <1>13 DEF IInv, vars, TypeOK, CopiesAreTrue, TrueCopy, RefusedOnce
<1> QED
  BY <1>3, <1>4, <1>5, <1>6, <1>7, <1>8, <1>9, <1>10, <1>11, <1>12, <1>13 DEF Next, Panel

LEMMA Inv == Spec => []IInv
BY InitInv, NextInv, PTL DEF Spec

\* Every reachable state has the declared shape: in particular no save is ever
\* on a third attempt (run's attempt parameter).
THEOREM TypeCorrect == Spec => []TypeOK
<1>1. IInv => TypeOK
  BY DEF IInv
<1> QED
  BY <1>1, Inv, PTL

\* The panel never pairs an inventory with a revision it was not read at
\* (applyNamespaceView, writeOnce).
THEOREM CopiesTrue == Spec => []CopiesAreTrue
<1>1. IInv => CopiesAreTrue
  BY DEF IInv
<1> QED
  BY <1>1, Inv, PTL

\* A write fenced with the revision of the copy it was built from starts from
\* the section itself, so what it leaves beside its own levels or leaf is
\* what was there (setOps, rebaseUpdates).
THEOREM SavesOnlyItsOwnHolds == Spec => SavesOnlyItsOwn
<1>1. IInv /\ [Next]_vars => [Lands /\ ~(save.form /\ save.attempt = 1) => OnlyItsOwn(save)]_vars
  <2> SUFFICES ASSUME IInv, Lands, ~(save.form /\ save.attempt = 1)
               PROVE  OnlyItsOwn(save)
    OBVIOUS
  <2>1. save \in Save /\ doc \in Doc /\ save.base \in Doc /\ TrueCopy(save.base)
    BY DEF IInv, TypeOK, Save, CopiesAreTrue
  <2>2. save.base = doc
    BY <2>1 DEF Lands, Fence, TrueCopy
  <2>3. doc' = Written(save)
    BY DEF Lands
  <2> DEFINE n == doc.rev + 1
  <2>4. CASE save.kind = "compat"
    <3>1. doc' = [doc EXCEPT !.compat = "panel", !.rev = n]
      BY <2>3, <2>4 DEF Written
    <3> HIDE DEF n
    <3> QED
      BY <2>1, <2>4, <3>1 DEF OnlyItsOwn, Doc
  <2>5. CASE save.kind # "compat"
    <3> DEFINE l == [m \in Models |-> IF m \in Targets(save, doc) THEN "panel"
                                      ELSE doc.levels[m]]
    <3>1. doc' = [doc EXCEPT !.present = doc.present, !.levels = l,
                             !.context = doc.context, !.rev = n]
      BY <2>2, <2>3, <2>5 DEF Written
    <3>2. \A m \in Models : l[m] # doc.levels[m] => m \in Targets(save, doc)
      OBVIOUS
    <3> HIDE DEF n, l
    <3>3. /\ doc'.present = doc.present /\ doc'.context = doc.context
          /\ doc'.levels = l /\ doc'.compat = doc.compat
      BY <2>1, <3>1 DEF Doc
    <3> QED
      BY <3>2, <3>3 DEF OnlyItsOwn
  <2> QED
    BY <2>4, <2>5
<1> QED
  BY <1>1, Inv, PTL DEF Spec, SavesOnlyItsOwn
=============================================================================
