--------------------------- MODULE TakeoverObserver ---------------------------
(***************************************************************************)
(* The takeover observer (src/client/takeover-runtime.ts): a wrapper of    *)
(* the settings API that resolves a takeover resolution out of every       *)
(* description the Client happens to make, and of one it makes itself      *)
(* after each write of the Client.  The panel, the backup card and the     *)
(* startup prompt share it, so descriptions and writes overlap.            *)
(*                                                                         *)
(* The service is external: it applies a write and samples a description   *)
(* in one step each, in any order, and answers in any order; a call may    *)
(* fail before or after it took effect.  A resolution is a function of the *)
(* settings it was sampled from, so it is represented by their revision.   *)
(***************************************************************************)
EXTENDS Integers

CONSTANTS
  MaxDescribes,  \* bound: descriptions the Client asks for
  MaxMutates,    \* bound: writes the Client sends
  MaxOthers      \* bound: writes of other clients, or past the observer

ASSUME ObserverBounds == {MaxDescribes, MaxMutates, MaxOthers} \subseteq Nat

VARIABLES
  rev,       \* the settings' revision, as the service holds them
  active, sequence, mutationGeneration, pendingRefreshGeneration,  \* the closure
  reads,     \* the descriptions under way
  writes,    \* the Client's writes under way
  shown,     \* the runtime store: what was published last
  acked,     \* history: the newest write the observer saw accepted, and the
             \* request number of the refresh the last such write started
  spent

closure == <<active, sequence, mutationGeneration, pendingRefreshGeneration>>
vars == <<rev, closure, reads, writes, shown, acked, spent>>

\* No refresh is pending: no generation.
None == -1

Read == [seq : Nat, gen : Nat, refresh : BOOLEAN, at : {"sent", "sampled"}, rev : Nat]
Mutation == [id : Nat, at : {"sent", "landed"}, rev : Nat]

\* `known` is FALSE for the empty resolution.
Shown == [known : BOOLEAN, rev : Nat, seq : Nat]

TypeOK ==
  /\ rev \in Nat
  /\ active \in BOOLEAN
  /\ sequence \in Nat /\ mutationGeneration \in Nat
  /\ pendingRefreshGeneration \in {None, mutationGeneration}
  /\ reads \subseteq Read
  /\ writes \subseteq Mutation
  /\ shown \in Shown
  /\ acked \in [rev : Nat, seq : Nat]
  /\ spent \in [describes : 0..MaxDescribes, mutates : 0..MaxMutates, others : 0..MaxOthers]

Init ==
  /\ rev = 0
  /\ active = TRUE
  /\ sequence = 0 /\ mutationGeneration = 0 /\ pendingRefreshGeneration = None
  /\ reads = {} /\ writes = {}
  /\ shown = [known |-> FALSE, rev |-> 0, seq |-> 0]
  /\ acked = [rev |-> 0, seq |-> 0]
  /\ spent = [describes |-> 0, mutates |-> 0, others |-> 0]

Sent(seq, gen, refresh) ==
  [seq |-> seq, gen |-> gen, refresh |-> refresh, at |-> "sent", rev |-> 0]

----------------------------------------------------------------------------
(* publish: which answer reaches the store.                                *)

\* No write of the Client was accepted since the description was asked for.
OfThisGeneration(r) == r.gen = mutationGeneration

\* A mutant of Newest: overlapping descriptions publish as they answer.
NewestAlways(r) == TRUE

Newest(r) == r.seq = sequence

\* A mutant of RefreshPublishes: the refresh, too, yields to a newer request.
RefreshPublishesBySequence(r) == pendingRefreshGeneration = r.gen /\ Newest(r)

RefreshPublishes(r) == pendingRefreshGeneration = r.gen

\* A mutant of Publishes: only a pending refresh holds an answer back.
PublishesUnlessPending(r) ==
  active /\ pendingRefreshGeneration = IF r.refresh THEN r.gen ELSE None

\* While a refresh is pending every other description yields to it.
Publishes(r) ==
  /\ active
  /\ OfThisGeneration(r)
  /\ IF r.refresh THEN RefreshPublishes(r)
                  ELSE pendingRefreshGeneration # r.gen /\ Newest(r)

\* onResolution, with what resolveTakeoverDescription makes of the settings r
\* sampled: the empty resolution when it finds no usable section in them.
Show(r, known) ==
  /\ shown' = [known |-> known, rev |-> r.rev, seq |-> r.seq]
  /\ pendingRefreshGeneration' = IF r.refresh THEN None ELSE pendingRefreshGeneration

Drop == UNCHANGED <<shown, pendingRefreshGeneration>>

----------------------------------------------------------------------------
(* The wrapped calls.                                                      *)

Describe ==
  /\ spent.describes < MaxDescribes
  /\ spent' = [spent EXCEPT !.describes = @ + 1]
  /\ sequence' = sequence + 1
  /\ reads' = reads \union {Sent(sequence + 1, mutationGeneration, FALSE)}
  /\ UNCHANGED <<rev, active, mutationGeneration, pendingRefreshGeneration, writes, shown, acked>>

Mutate ==
  /\ spent.mutates < MaxMutates
  /\ spent' = [spent EXCEPT !.mutates = @ + 1]
  /\ writes' = writes \union {[id |-> spent.mutates, at |-> "sent", rev |-> 0]}
  /\ UNCHANGED <<rev, closure, reads, shown, acked>>

\* What is in flight belongs to the past, and a refresh is pending.
StartsGeneration ==
  /\ mutationGeneration' = mutationGeneration + 1
  /\ pendingRefreshGeneration' = mutationGeneration + 1

\* An accepted write starts a generation, and the refresh that answers for it.
MutateAccepted(w) ==
  /\ w.at = "landed"
  /\ writes' = writes \ {w}
  /\ \/ /\ active
        /\ StartsGeneration
        /\ sequence' = sequence + 1
        /\ reads' = reads \union {Sent(sequence + 1, mutationGeneration + 1, TRUE)}
        /\ acked' = [rev |-> IF w.rev > acked.rev THEN w.rev ELSE acked.rev,
                     seq |-> sequence + 1]
     \/ /\ ~active
        /\ UNCHANGED <<mutationGeneration, sequence, pendingRefreshGeneration, reads, acked>>
  /\ UNCHANGED <<rev, active, shown, spent>>

\* A refusal, or a rejected promise whether or not the write landed.
MutateFails(w) ==
  /\ writes' = writes \ {w}
  /\ UNCHANGED <<rev, closure, reads, shown, acked, spent>>

\* A description answers, with the settings or with an error.
DescribeAnswers(r) ==
  /\ r.at = "sampled"
  /\ reads' = reads \ {r}
  /\ \/ Publishes(r) /\ \E known \in BOOLEAN : Show(r, known)
     \/ ~Publishes(r) /\ Drop
  /\ UNCHANGED <<rev, active, sequence, mutationGeneration, writes, acked, spent>>

\* The promise rejects: only the refresh has a catch, which retracts what an
\* accepted write made obsolete.
DescribeRejects(r) ==
  /\ reads' = reads \ {r}
  /\ LET retracts == r.refresh /\ active /\ pendingRefreshGeneration = r.gen IN
       \/ retracts /\ Show(r, FALSE)
       \/ ~retracts /\ Drop
  /\ UNCHANGED <<rev, active, sequence, mutationGeneration, writes, acked, spent>>

\* The effect's disposer: the observer first, then the store.
Dispose ==
  /\ active
  /\ active' = FALSE
  /\ sequence' = sequence + 1
  /\ pendingRefreshGeneration' = None
  /\ shown' = [shown EXCEPT !.known = FALSE]
  /\ UNCHANGED <<rev, mutationGeneration, reads, writes, acked, spent>>

----------------------------------------------------------------------------
(* The settings service and the other clients.                             *)

DescribeSampled(r) ==
  /\ r.at = "sent"
  /\ reads' = (reads \ {r}) \union {[r EXCEPT !.at = "sampled", !.rev = rev]}
  /\ UNCHANGED <<rev, closure, writes, shown, acked, spent>>

MutateLands(w) ==
  /\ w.at = "sent"
  /\ rev' = rev + 1
  /\ writes' = (writes \ {w}) \union {[w EXCEPT !.at = "landed", !.rev = rev + 1]}
  /\ UNCHANGED <<closure, reads, shown, acked, spent>>

OthersWrite ==
  /\ spent.others < MaxOthers
  /\ spent' = [spent EXCEPT !.others = @ + 1]
  /\ rev' = rev + 1
  /\ UNCHANGED <<closure, reads, writes, shown, acked>>

----------------------------------------------------------------------------
Reading == \E r \in reads : DescribeSampled(r) \/ DescribeAnswers(r) \/ DescribeRejects(r)

Writing == \E w \in writes : MutateLands(w) \/ MutateAccepted(w) \/ MutateFails(w)

Next == Describe \/ Mutate \/ Reading \/ Writing \/ Dispose \/ OthersWrite

Spec == Init /\ [][Next]_vars

\* The service answers every description, or the connection rejects it.
FairSpec == Spec /\ WF_vars(Reading)

----------------------------------------------------------------------------
(* Properties                                                              *)

\* Once the Client knows a write of its own was accepted, no resolution older
\* than that write is published again, whichever descriptions were in flight
\* (publish: `requestGeneration !== mutationGeneration`).
OwnWritesAreSeen ==
  [][shown' # shown /\ shown'.known => shown'.rev >= acked.rev]_vars

\* The store is never overwritten by the answer to an older request than the
\* one it shows, refreshes included (publish: `requestSequence !== sequence`,
\* and the descriptions held back while a refresh is pending).
PublishedInOrder == [][shown'.seq >= shown.seq]_vars

\* An accepted write is always followed by a publication made after it: what
\* the store held before the write does not survive, whether the refresh
\* answers, fails, or is overtaken by the next write (mutate).
WritesAreFollowedUp == []<>(~active \/ shown.seq >= acked.seq)
=============================================================================
