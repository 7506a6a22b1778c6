------------------------ MODULE TakeoverObserverProofs ------------------------
(***************************************************************************)
(* Proofs about the takeover observer, for any number of descriptions and  *)
(* writes in flight.  Both action properties follow from what is known of  *)
(* every description under way: which generation it belongs to, what it    *)
(* has sampled, and that a pending refresh is newer than the store.        *)
(***************************************************************************)
EXTENDS TakeoverObserver, TLAPS

\* What the observer has heard of is what the service did.
AcksAreReal ==
  /\ acked.rev <= rev
  /\ \A w \in writes : w.rev <= rev

\* A description of the current generation that has been sampled was sampled
\* after every write the observer knows to be accepted.
CurrentReadsAreFresh ==
  \A r \in reads :
    /\ r.gen <= mutationGeneration
    /\ r.gen = mutationGeneration /\ r.at = "sampled" => r.rev >= acked.rev

\* Requests are numbered as they are made; the store shows one of them, and no
\* newer one than a refresh that is still pending.
RefreshIsNewer ==
  /\ shown.seq <= sequence
  /\ \A r \in reads :
       /\ r.seq <= sequence
       /\ r.refresh /\ r.gen = pendingRefreshGeneration => shown.seq <= r.seq

IInv == TypeOK /\ AcksAreReal /\ CurrentReadsAreFresh /\ RefreshIsNewer

----------------------------------------------------------------------------
(* Types of what the steps build.                                          *)

Spent == [describes : 0..MaxDescribes, mutates : 0..MaxMutates, others : 0..MaxOthers]

LEMMA BoundsNat == MaxDescribes \in Nat /\ MaxMutates \in Nat /\ MaxOthers \in Nat
BY ObserverBounds

\* A counter below its bound may be spent.
LEMMA SpendsDescribes ==
  ASSUME NEW s \in Spent, s.describes < MaxDescribes PROVE [s EXCEPT !.describes = @ + 1] \in Spent
<1> DEFINE n == s.describes + 1
<1>1. n \in 0..MaxDescribes
  BY BoundsNat DEF Spent
<1> HIDE DEF n
<1>2. [s EXCEPT !.describes = n] \in Spent
  BY <1>1 DEF Spent
<1> QED
  BY <1>2 DEF n

LEMMA SpendsMutates ==
  ASSUME NEW s \in Spent, s.mutates < MaxMutates PROVE [s EXCEPT !.mutates = @ + 1] \in Spent
<1> DEFINE n == s.mutates + 1
<1>1. n \in 0..MaxMutates
  BY BoundsNat DEF Spent
<1> HIDE DEF n
<1>2. [s EXCEPT !.mutates = n] \in Spent
  BY <1>1 DEF Spent
<1> QED
  BY <1>2 DEF n

LEMMA SpendsOthers ==
  ASSUME NEW s \in Spent, s.others < MaxOthers PROVE [s EXCEPT !.others = @ + 1] \in Spent
<1> DEFINE n == s.others + 1
<1>1. n \in 0..MaxOthers
  BY BoundsNat DEF Spent
<1> HIDE DEF n
<1>2. [s EXCEPT !.others = n] \in Spent
  BY <1>1 DEF Spent
<1> QED
  BY <1>2 DEF n

\* A request that has just been sent.
LEMMA SentIsRead ==
  ASSUME NEW seq \in Nat, NEW gen \in Nat, NEW refresh \in BOOLEAN
  PROVE  /\ Sent(seq, gen, refresh) \in Read
         /\ Sent(seq, gen, refresh).at = "sent"
         /\ Sent(seq, gen, refresh).seq = seq
         /\ Sent(seq, gen, refresh).gen = gen
         /\ Sent(seq, gen, refresh).refresh = refresh
BY DEF Sent, Read

----------------------------------------------------------------------------
(* The inductive invariant, one lemma per action.                          *)

LEMMA DescribeKeepsInv == ASSUME IInv, Describe PROVE IInv'
<1> DEFINE new == Sent(sequence + 1, mutationGeneration, FALSE)
<1>1. /\ new \in Read /\ new.at = "sent" /\ new.gen = mutationGeneration
      /\ new.refresh = FALSE /\ new.seq = sequence + 1
  <2>1. sequence + 1 \in Nat /\ mutationGeneration \in Nat
    BY DEF IInv, TypeOK
  <2> QED
    BY <2>1, SentIsRead
<1>2. /\ reads' = reads \union {new} /\ sequence' = sequence + 1
      /\ UNCHANGED <<rev, active, mutationGeneration, pendingRefreshGeneration, writes,
                     shown, acked>>
  BY DEF Describe
<1> HIDE DEF new
<1>3. TypeOK'
  <2>1. spent' \in Spent
    BY SpendsDescribes DEF Describe, IInv, TypeOK, Spent
  <2>2. sequence' \in Nat /\ reads' \subseteq Read
    BY <1>1, <1>2 DEF IInv, TypeOK
  <2> QED
    BY <1>2, <2>1, <2>2 DEF IInv, TypeOK, Spent
<1>4. AcksAreReal'
  BY <1>2 DEF IInv, AcksAreReal
<1>5. CurrentReadsAreFresh'
  BY <1>1, <1>2 DEF IInv, TypeOK, CurrentReadsAreFresh
<1>6. RefreshIsNewer'
  <2>1. \A r \in reads : r.seq \in Nat /\ r.seq <= sequence + 1
    BY DEF IInv, TypeOK, Read, RefreshIsNewer
  <2>2. shown.seq \in Nat /\ shown.seq <= sequence + 1
    BY DEF IInv, TypeOK, Shown, RefreshIsNewer
  <2> QED
    BY <1>1, <1>2, <2>1, <2>2 DEF IInv, TypeOK, RefreshIsNewer
<1> QED
  BY <1>3, <1>4, <1>5, <1>6 DEF IInv

LEMMA MutateKeepsInv == ASSUME IInv, Mutate PROVE IInv'
<1> DEFINE new == [id |-> spent.mutates, at |-> "sent", rev |-> 0]
<1>1. new \in Mutation /\ new.rev = 0
  BY BoundsNat DEF IInv, TypeOK, Mutation
<1>2. writes' = writes \union {new}
  BY DEF Mutate
<1> HIDE DEF new
<1>3. spent' \in Spent
  BY SpendsMutates DEF Mutate, IInv, TypeOK, Spent
<1>4. TypeOK'
  BY <1>1, <1>2, <1>3 DEF Mutate, closure, IInv, TypeOK, Spent
<1>5. AcksAreReal'
  BY <1>1, <1>2 DEF Mutate, IInv, TypeOK, AcksAreReal
<1>6. CurrentReadsAreFresh' /\ RefreshIsNewer'
  BY DEF Mutate, closure, IInv, CurrentReadsAreFresh, RefreshIsNewer
<1> QED
  BY <1>4, <1>5, <1>6 DEF IInv

\* An accepted write: whatever is in flight is of an older generation, and the
\* refresh is newer than everything that was asked for.
LEMMA AcceptedKeepsInv ==
  ASSUME IInv, NEW w \in writes, MutateAccepted(w) PROVE IInv'
<1>1. CASE active
  <2> DEFINE new == Sent(sequence + 1, mutationGeneration + 1, TRUE)
  <2>1. /\ new \in Read /\ new.at = "sent" /\ new.gen = mutationGeneration + 1
        /\ new.seq = sequence + 1
    <3>1. sequence + 1 \in Nat /\ mutationGeneration + 1 \in Nat
      BY DEF IInv, TypeOK
    <3> QED
      BY <3>1, SentIsRead
  <2>2. /\ reads' = reads \union {new} /\ sequence' = sequence + 1
        /\ mutationGeneration' = mutationGeneration + 1
        /\ pendingRefreshGeneration' = mutationGeneration + 1
        /\ writes' = writes \ {w}
        /\ UNCHANGED <<rev, active, shown, spent>>
        /\ acked' = [rev |-> IF w.rev > acked.rev THEN w.rev ELSE acked.rev,
                     seq |-> sequence + 1]
    BY <1>1 DEF MutateAccepted, StartsGeneration
  <2> HIDE DEF new
  <2>3. w.rev \in Nat /\ w.rev <= rev
    BY DEF IInv, TypeOK, Mutation, AcksAreReal
  <2>4. acked'.rev \in Nat /\ acked'.rev <= rev /\ acked'.seq = sequence + 1
    BY <2>2, <2>3 DEF IInv, TypeOK, AcksAreReal
  <2>5. acked' \in [rev : Nat, seq : Nat]
    BY <2>2, <2>3 DEF IInv, TypeOK
  <2>6. TypeOK'
    BY <2>1, <2>2, <2>5 DEF IInv, TypeOK
  <2>7. AcksAreReal'
    BY <2>2, <2>4 DEF IInv, AcksAreReal
  <2>8. CurrentReadsAreFresh'
    <3> SUFFICES ASSUME NEW r \in reads'
                 PROVE  /\ r.gen <= mutationGeneration'
                        /\ r.gen = mutationGeneration' /\ r.at = "sampled" => r.rev >= acked'.rev
      BY DEF CurrentReadsAreFresh
    <3>1. CASE r = new
      BY <3>1, <2>1, <2>2 DEF IInv, TypeOK
    <3>2. CASE r \in reads
      <4>1. r.gen \in Nat /\ r.gen <= mutationGeneration
        BY <3>2 DEF IInv, TypeOK, Read, CurrentReadsAreFresh
      <4> QED
        BY <4>1, <2>2 DEF IInv, TypeOK
    <3> QED
      BY <3>1, <3>2, <2>2
  <2>9. RefreshIsNewer'
    <3>1. shown.seq \in Nat /\ shown.seq <= sequence
      BY DEF IInv, TypeOK, Shown, RefreshIsNewer
    <3>0. shown'.seq <= sequence'
      BY <3>1, <2>2 DEF IInv, TypeOK
    <3> SUFFICES ASSUME NEW r \in reads'
                 PROVE  /\ r.seq <= sequence'
                        /\ r.refresh /\ r.gen = pendingRefreshGeneration' => shown'.seq <= r.seq
      BY <3>0 DEF RefreshIsNewer
    <3>2. CASE r = new
      BY <3>1, <3>2, <2>1, <2>2 DEF IInv, TypeOK
    <3>3. CASE r \in reads
      <4>1. /\ r.gen \in Nat /\ r.gen <= mutationGeneration
            /\ r.seq \in Nat /\ r.seq <= sequence
        BY <3>3 DEF IInv, TypeOK, Read, CurrentReadsAreFresh, RefreshIsNewer
      <4> QED
        BY <4>1, <2>2 DEF IInv, TypeOK
    <3> QED
      BY <3>2, <3>3, <2>2
  <2> QED
    BY <2>6, <2>7, <2>8, <2>9 DEF IInv
<1>2. CASE ~active
  <2>1. /\ writes' = writes \ {w}
        /\ UNCHANGED <<rev, active, shown, spent, mutationGeneration, sequence,
                       pendingRefreshGeneration, reads, acked>>
    BY <1>2 DEF MutateAccepted
  <2> QED
    BY <2>1 DEF IInv, TypeOK, AcksAreReal, CurrentReadsAreFresh, RefreshIsNewer
<1> QED
  BY <1>1, <1>2

LEMMA FailsKeepsInv == ASSUME IInv, NEW w \in writes, MutateFails(w) PROVE IInv'
BY DEF MutateFails, closure, IInv, TypeOK, AcksAreReal, CurrentReadsAreFresh, RefreshIsNewer

LEMMA LandsKeepsInv == ASSUME IInv, NEW w \in writes, MutateLands(w) PROVE IInv'
<1> DEFINE next == rev + 1
           landed == [w EXCEPT !.at = "landed", !.rev = next]
<1>1. next \in Nat /\ next = rev + 1
  BY DEF IInv, TypeOK
<1>2. /\ writes' = (writes \ {w}) \union {landed} /\ rev' = next
      /\ UNCHANGED <<closure, reads, shown, acked, spent>>
  BY DEF MutateLands
<1> HIDE DEF next
<1>3. landed \in Mutation /\ landed.rev = next
  BY <1>1 DEF IInv, TypeOK, Mutation
<1> HIDE DEF landed
<1>4. TypeOK'
  BY <1>1, <1>2, <1>3 DEF closure, IInv, TypeOK
<1>5. AcksAreReal'
  <2>1. \A v \in writes : v.rev \in Nat /\ v.rev <= rev
    BY DEF IInv, TypeOK, Mutation, AcksAreReal
  <2> QED
    BY <1>1, <1>2, <1>3, <2>1 DEF IInv, TypeOK, AcksAreReal
<1>6. CurrentReadsAreFresh' /\ RefreshIsNewer'
  BY <1>2 DEF closure, IInv, CurrentReadsAreFresh, RefreshIsNewer
<1> QED
  BY <1>4, <1>5, <1>6 DEF IInv

LEMMA SampledKeepsInv ==
  ASSUME IInv, NEW r \in reads, DescribeSampled(r) PROVE IInv'
<1> DEFINE sampled == [r EXCEPT !.at = "sampled", !.rev = rev]
<1>1. /\ sampled \in Read /\ sampled.rev = rev /\ sampled.gen = r.gen
      /\ sampled.refresh = r.refresh /\ sampled.seq = r.seq
  BY DEF IInv, TypeOK, Read
<1>2. /\ reads' = (reads \ {r}) \union {sampled}
      /\ UNCHANGED <<rev, closure, writes, shown, acked, spent>>
  BY DEF DescribeSampled
<1> HIDE DEF sampled
<1>3. TypeOK'
  BY <1>1, <1>2 DEF closure, IInv, TypeOK
<1>4. AcksAreReal'
  BY <1>2 DEF IInv, AcksAreReal
<1>5. CurrentReadsAreFresh'
  BY <1>1, <1>2 DEF closure, IInv, TypeOK, AcksAreReal, CurrentReadsAreFresh
<1>6. RefreshIsNewer'
  BY <1>1, <1>2 DEF closure, IInv, RefreshIsNewer
<1> QED
  BY <1>3, <1>4, <1>5, <1>6 DEF IInv

\* A publication is of a request at least as new as the store's, and leaves no
\* refresh pending.
LEMMA PublishedIsNewer ==
  ASSUME IInv, NEW r \in reads, Publishes(r)
  PROVE  /\ shown.seq <= r.seq
         /\ pendingRefreshGeneration = None \/ r.refresh
<1>1. CASE r.refresh
  BY <1>1 DEF Publishes, RefreshPublishes, IInv, RefreshIsNewer
<1>2. CASE ~r.refresh
  BY <1>2 DEF Publishes, OfThisGeneration, Newest, IInv, TypeOK, RefreshIsNewer
<1> QED
  BY <1>1, <1>2

LEMMA RetractedIsNewer ==
  ASSUME IInv, NEW r \in reads, r.refresh, pendingRefreshGeneration = r.gen
  PROVE  shown.seq <= r.seq
BY DEF IInv, RefreshIsNewer

\* Either way the store ends up with a request that was made, and with nothing
\* pending.
LEMMA ShowKeepsInv ==
  ASSUME IInv, NEW r \in reads, NEW known \in BOOLEAN, Show(r, known),
         pendingRefreshGeneration = None \/ r.refresh, r.seq <= sequence,
         reads' = reads \ {r},
         UNCHANGED <<rev, active, sequence, mutationGeneration, writes, acked, spent>>
  PROVE  IInv'
<1>1. /\ shown' \in Shown /\ shown'.seq = r.seq /\ pendingRefreshGeneration' = None
  BY DEF Show, IInv, TypeOK, Read, Shown
<1>2. TypeOK'
  BY <1>1 DEF IInv, TypeOK
<1>3. AcksAreReal' /\ CurrentReadsAreFresh'
  BY DEF IInv, AcksAreReal, CurrentReadsAreFresh
<1>4. RefreshIsNewer'
  BY <1>1 DEF IInv, TypeOK, Read, None, RefreshIsNewer
<1> QED
  BY <1>2, <1>3, <1>4 DEF IInv

LEMMA DropKeepsInv ==
  ASSUME IInv, NEW r \in reads, Drop, reads' = reads \ {r},
         UNCHANGED <<rev, active, sequence, mutationGeneration, writes, acked, spent>>
  PROVE  IInv'
BY DEF Drop, IInv, TypeOK, AcksAreReal, CurrentReadsAreFresh, RefreshIsNewer

\* The answer and the rejection of a description, by whether they publish.
LEMMA AnswersKeepsInv == ASSUME IInv, NEW r \in reads, DescribeAnswers(r) PROVE IInv'
<1>1. /\ reads' = reads \ {r}
      /\ UNCHANGED <<rev, active, sequence, mutationGeneration, writes, acked, spent>>
  BY DEF DescribeAnswers
<1>2. ASSUME Publishes(r), NEW known \in BOOLEAN, Show(r, known) PROVE IInv'
  <2>1. r.seq <= sequence
    BY DEF IInv, RefreshIsNewer
  <2> QED
    BY <1>1, <1>2, <2>1, PublishedIsNewer, ShowKeepsInv
<1>3. CASE Drop
  BY <1>1, <1>3, DropKeepsInv
<1> QED
  BY <1>2, <1>3 DEF DescribeAnswers

LEMMA RejectsKeepsInv == ASSUME IInv, NEW r \in reads, DescribeRejects(r) PROVE IInv'
<1>1. /\ reads' = reads \ {r}
      /\ UNCHANGED <<rev, active, sequence, mutationGeneration, writes, acked, spent>>
  BY DEF DescribeRejects
<1>2. CASE r.refresh /\ Show(r, FALSE)
  <2>1. r.seq <= sequence
    BY DEF IInv, RefreshIsNewer
  <2> QED
    BY <1>1, <1>2, <2>1, ShowKeepsInv
<1>3. CASE Drop
  BY <1>1, <1>3, DropKeepsInv
<1> QED
  BY <1>2, <1>3 DEF DescribeRejects

LEMMA DisposeKeepsInv == ASSUME IInv, Dispose PROVE IInv'
<1>1. /\ sequence' = sequence + 1 /\ pendingRefreshGeneration' = None
      /\ active' = FALSE /\ shown' = [shown EXCEPT !.known = FALSE]
      /\ UNCHANGED <<rev, mutationGeneration, reads, writes, acked, spent>>
  BY DEF Dispose
<1>2. shown' \in Shown /\ shown'.seq = shown.seq
  BY <1>1 DEF IInv, TypeOK, Shown
<1>3. TypeOK'
  <2>1. UNCHANGED <<rev, mutationGeneration, reads, writes, acked, spent>>
    BY <1>1
  <2>2. active' \in BOOLEAN
    BY <1>1, Zenon
  <2>3. sequence' \in Nat
    <3>1. sequence' = sequence + 1
      BY <1>1
    <3> QED
      BY <3>1 DEF IInv, TypeOK
  <2>4. pendingRefreshGeneration' = None
    BY <1>1
  <2> QED
    BY <1>2, <2>1, <2>2, <2>3, <2>4 DEF IInv, TypeOK
<1>4. AcksAreReal' /\ CurrentReadsAreFresh'
  BY <1>1 DEF IInv, AcksAreReal, CurrentReadsAreFresh
<1>5. RefreshIsNewer'
  <2>1. /\ shown.seq \in Nat /\ shown.seq <= sequence + 1
        /\ \A r \in reads : r.seq <= sequence + 1 /\ r.gen # None
    BY DEF IInv, TypeOK, Shown, Read, None, RefreshIsNewer
  <2> QED
    BY <1>1, <1>2, <2>1 DEF RefreshIsNewer
<1> QED
  BY <1>3, <1>4, <1>5 DEF IInv

LEMMA OthersKeepsInv == ASSUME IInv, OthersWrite PROVE IInv'
<1>1. /\ rev' = rev + 1
      /\ UNCHANGED <<closure, reads, writes, shown, acked>>
  BY DEF OthersWrite
<1>2. spent' \in Spent
  BY SpendsOthers DEF OthersWrite, IInv, TypeOK, Spent
<1>3. TypeOK'
  BY <1>1, <1>2 DEF closure, IInv, TypeOK, Spent
<1>4. AcksAreReal'
  <2>1. /\ acked.rev \in Nat /\ acked.rev <= rev
        /\ \A w \in writes : w.rev \in Nat /\ w.rev <= rev
    BY DEF IInv, TypeOK, Mutation, AcksAreReal
  <2> QED
    BY <1>1, <2>1 DEF IInv, TypeOK, AcksAreReal
<1>5. CurrentReadsAreFresh' /\ RefreshIsNewer'
  BY <1>1 DEF closure, IInv, CurrentReadsAreFresh, RefreshIsNewer
<1> QED
  BY <1>3, <1>4, <1>5 DEF IInv

LEMMA InitInv == Init => IInv
BY BoundsNat DEF Init, IInv, TypeOK, Read, Mutation, Shown, None,
                 AcksAreReal, CurrentReadsAreFresh, RefreshIsNewer

LEMMA StutterKeepsInv == IInv /\ UNCHANGED vars => IInv'
BY DEF vars, closure, IInv, TypeOK, AcksAreReal, CurrentReadsAreFresh, RefreshIsNewer

LEMMA NextKeepsInv == IInv /\ [Next]_vars => IInv'
<1> SUFFICES ASSUME IInv, [Next]_vars PROVE IInv'
  OBVIOUS
<1>1. CASE Describe
  BY <1>1, DescribeKeepsInv
<1>2. CASE Mutate
  BY <1>2, MutateKeepsInv
<1>3. CASE Reading
  BY <1>3, SampledKeepsInv, AnswersKeepsInv, RejectsKeepsInv DEF Reading
<1>4. CASE Writing
  BY <1>4, LandsKeepsInv, AcceptedKeepsInv, FailsKeepsInv DEF Writing
<1>5. CASE Dispose
  BY <1>5, DisposeKeepsInv
<1>6. CASE OthersWrite
  BY <1>6, OthersKeepsInv
<1>7. CASE UNCHANGED vars
  BY <1>7, StutterKeepsInv
<1> QED
  BY <1>1, <1>2, <1>3, <1>4, <1>5, <1>6, <1>7 DEF Next

\* No step of a description, of a write or of another client leaves the invariant.
LEMMA InvHolds == Spec => []IInv
BY InitInv, NextKeepsInv, PTL DEF Spec

----------------------------------------------------------------------------
(* The theorems.                                                           *)

\* The variables keep their types, and a pending refresh always belongs to the
\* current generation (mutate, publish).
THEOREM TypeCorrect == Spec => []TypeOK
<1>1. IInv => TypeOK
  BY DEF IInv
<1> QED
  BY <1>1, InvHolds, PTL

\* Only four steps touch the store.
LEMMA StoreMoves ==
  ASSUME [Next]_vars, shown' # shown
  PROVE  \/ \E r \in reads : DescribeAnswers(r) \/ DescribeRejects(r)
         \/ Dispose
BY DEF Next, vars, Describe, Mutate, Reading, Writing, OthersWrite,
       DescribeSampled, MutateLands, MutateAccepted, MutateFails

LEMMA StepSeesOwnWrites ==
  ASSUME IInv, [Next]_vars, shown' # shown, shown'.known
  PROVE  shown'.rev >= acked.rev
<1>1. ASSUME NEW r \in reads, DescribeAnswers(r) PROVE shown'.rev >= acked.rev
  <2>1. Publishes(r) /\ r.at = "sampled" /\ shown'.rev = r.rev
    BY <1>1 DEF DescribeAnswers, Show, Drop
  <2> QED
    BY <2>1 DEF Publishes, OfThisGeneration, IInv, CurrentReadsAreFresh
<1>2. ASSUME NEW r \in reads, DescribeRejects(r) PROVE FALSE
  BY <1>2 DEF DescribeRejects, Show, Drop
<1>3. CASE Dispose
  BY <1>3 DEF Dispose, IInv, TypeOK, Shown
<1> QED
  BY <1>1, <1>2, <1>3, StoreMoves

\* Once the Client knows a write of its own was accepted, no resolution older
\* than that write is published again, for any number of descriptions and
\* writes in flight (publish).
THEOREM OwnWritesAreSeenHolds == Spec => OwnWritesAreSeen
<1>1. IInv /\ [Next]_vars => [shown' # shown /\ shown'.known => shown'.rev >= acked.rev]_vars
  BY StepSeesOwnWrites
<1> QED
  BY <1>1, InvHolds, PTL DEF Spec, OwnWritesAreSeen

LEMMA StepPublishesInOrder ==
  ASSUME IInv, [Next]_vars PROVE shown'.seq >= shown.seq
<1>0. shown.seq \in Nat /\ \A r \in reads : r.seq \in Nat
  BY DEF IInv, TypeOK, Shown, Read
<1>1. ASSUME NEW r \in reads, DescribeAnswers(r), shown' # shown PROVE shown'.seq >= shown.seq
  <2>1. Publishes(r) /\ shown'.seq = r.seq
    BY <1>1 DEF DescribeAnswers, Show, Drop
  <2> QED
    BY <1>0, <2>1, PublishedIsNewer
<1>2. ASSUME NEW r \in reads, DescribeRejects(r), shown' # shown PROVE shown'.seq >= shown.seq
  <2>1. r.refresh /\ pendingRefreshGeneration = r.gen /\ shown'.seq = r.seq
    BY <1>2 DEF DescribeRejects, Show, Drop
  <2> QED
    BY <1>0, <2>1, RetractedIsNewer
<1>3. CASE Dispose
  BY <1>0, <1>3 DEF Dispose, IInv, TypeOK, Shown
<1>4. CASE shown' = shown
  BY <1>0, <1>4
<1> QED
  BY <1>1, <1>2, <1>3, <1>4, StoreMoves

\* The store is never overwritten by the answer to a request older than the one
\* it shows, refreshes included (publish, and the catch of mutate).
THEOREM PublishedInOrderHolds == Spec => PublishedInOrder
<1>1. IInv /\ [Next]_vars => [shown'.seq >= shown.seq]_vars
  BY StepPublishesInOrder
<1> QED
  BY <1>1, InvHolds, PTL DEF Spec, PublishedInOrder
=============================================================================
