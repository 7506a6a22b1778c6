----------------------- MODULE SelectionDirectoryProofs -----------------------
(***************************************************************************)
(* What SelectionDirectory promises of every step, for every catalog and   *)
(* every bound.  The inductive invariant follows the one call whose        *)
(* generation is current and the newest call of the official directory:    *)
(* what the official directory holds as pending is the newest call's, and  *)
(* unless the overlay ignores it that call is unanswered, and current when *)
(* it is the overlay's own.                                                *)
(***************************************************************************)
EXTENDS SelectionDirectory, TLAPS

\* The current call has not come back yet.
OperationLives == operation # 0 => calls[operation].at # "done"

\* A landed call knows which selection of the Host it became.
LandedKnows == \A i \in DOMAIN calls : calls[i].at \in {"landed", "accepted"} => calls[i].ver > 0

\* Unless a frame has come in since the current call was made, what is
\* confirmed is older than what that call became.
ToldBefore ==
  operation # 0 /\ ~reframed /\ calls[operation].ver > 0 => tells <= calls[operation].ver

\* What is confirmed was selected for the session.
ConfirmedAsked == confirmed # None => confirmed \in Asked

\* What the official directory holds as pending is its newest call's.
PendingHasCall ==
  up.pending # None =>
    /\ up.newest # 0 /\ calls[up.newest].sel = up.pending
    /\ \/ up.pending = ignoredPending
       \/ /\ calls[up.newest].at \in {"sent", "landed", "failed"}
          /\ calls[up.newest].own => operation = up.newest

\* The type, part by part.
WorldTyped == /\ host \in Seq(Selection) /\ host # <<>> /\ seen \in 0..Len(host)
              /\ gap \in BOOLEAN /\ missed \in BOOLEAN
UpTyped == up \in [pending : Selection \union {None}, status : {"ready", "selecting", "error"},
                   newest : 0..Len(calls)]
CallsTyped == calls \in Seq(Call) /\ \A i \in DOMAIN calls : calls[i].ver <= Len(host)
OverlayTyped == /\ confirmed \in Selection \union {None} /\ observed \in Selection \union {None}
                /\ ignoredPending \in Selection \union {None}
                /\ selectionError \in BOOLEAN /\ reframed \in BOOLEAN
                /\ tells \in 0..Len(host) /\ (tells = 0 <=> confirmed = None)
OperationTyped == /\ operation \in 0..Len(calls) /\ (operation = 0 <=> active = None)
                  /\ active \in Selection \union {None}
                  /\ operation # 0 => calls[operation].sel = active /\ calls[operation].own
Spent == [others : 0..MaxOthers, breaks : 0..MaxBreaks]

Typed == WorldTyped /\ UpTyped /\ CallsTyped /\ OverlayTyped /\ OperationTyped /\ spent \in Spent

LEMMA TypedIsTypeOK == Typed => TypeOK
BY DEF Typed, WorldTyped, UpTyped, CallsTyped, OverlayTyped, OperationTyped, Spent, TypeOK

IInv == /\ Typed /\ OperationLives /\ LandedKnows /\ ToldBefore
        /\ ConfirmedAsked /\ PendingHasCall

\* A selection is told from no selection.
LEMMA NotNone == ASSUME NEW s \in Selection PROVE s # None
BY DirectoryConstants

LEMMA BoundsNat == MaxCalls \in Nat /\ MaxOthers \in Nat /\ MaxBreaks \in Nat
BY DirectoryConstants

LEMMA SpendsBreak == ASSUME spent \in Spent, Break PROVE spent' \in Spent
<1> DEFINE n == spent.breaks + 1
<1>1. n \in 0..MaxBreaks
  BY BoundsNat DEF Spent, Break
<1>2. spent' = [spent EXCEPT !.breaks = n]
  BY DEF Break
<1> HIDE DEF n
<1> QED
  BY <1>1, <1>2 DEF Spent

LEMMA SpendsOther ==
  ASSUME spent \in Spent, spent.others < MaxOthers, spent' = [spent EXCEPT !.others = @ + 1]
  PROVE  spent' \in Spent
<1> DEFINE n == spent.others + 1
<1>1. n \in 0..MaxOthers
  BY BoundsNat DEF Spent
<1>2. spent' = [spent EXCEPT !.others = n]
  OBVIOUS
<1> HIDE DEF n
<1> QED
  BY <1>1, <1>2 DEF Spent

\* One call more: the calls before it stay what they are.
LEMMA CallsGrow ==
  ASSUME calls \in Seq(Call), NEW c \in Call, calls' = Append(calls, c)
  PROVE  /\ calls' \in Seq(Call) /\ Len(calls') = Len(calls) + 1 /\ Len(calls) \in Nat
         /\ DOMAIN calls = 1..Len(calls) /\ DOMAIN calls' = 1..(Len(calls) + 1)
         /\ \A i \in 1..Len(calls) : calls'[i] = calls[i]
         /\ calls'[Len(calls) + 1] = c
OBVIOUS

Fates == {"sent", "landed", "accepted", "refused", "failed", "done"}

\* A call moves on: it stays the same call.
LEMMA CallMoves ==
  ASSUME calls \in Seq(Call), NEW i \in DOMAIN calls, NEW at \in Fates,
         calls' = [calls EXCEPT ![i].at = at]
  PROVE  /\ calls' \in Seq(Call) /\ Len(calls') = Len(calls)
         /\ DOMAIN calls = 1..Len(calls) /\ DOMAIN calls' = 1..Len(calls)
         /\ \A j \in 1..Len(calls) :
              /\ calls'[j].sel = calls[j].sel /\ calls'[j].own = calls[j].own
              /\ calls'[j].ver = calls[j].ver
              /\ calls'[j].at = IF j = i THEN at ELSE calls[j].at
<1> DEFINE d == calls[i]
<1> DEFINE c == [d EXCEPT !.at = at]
<1>0. d \in Call
  OBVIOUS
<1> HIDE DEF d
<1>1. c \in Call /\ c.sel = d.sel /\ c.own = d.own /\ c.ver = d.ver /\ c.at = at
  BY <1>0 DEF Call, Fates
<1> USE DEF d
<1>2. calls' = [calls EXCEPT ![i] = c]
  OBVIOUS
<1> HIDE DEF c
<1>3. /\ calls' \in Seq(Call) /\ Len(calls') = Len(calls)
      /\ DOMAIN calls = 1..Len(calls) /\ DOMAIN calls' = 1..Len(calls)
      /\ \A j \in 1..Len(calls) : calls'[j] = IF j = i THEN c ELSE calls[j]
  BY <1>1, <1>2
<1> QED
  BY <1>1, <1>3

\* The Host has one selection more.
LEMMA HostGrows ==
  ASSUME host \in Seq(Selection), NEW sel \in Selection, host' = Append(host, sel)
  PROVE  /\ host' \in Seq(Selection) /\ Len(host') = Len(host) + 1 /\ host' # <<>>
         /\ Range(host') = Range(host) \union {sel}
<1>1. /\ host' \in Seq(Selection) /\ Len(host') = Len(host) + 1
      /\ DOMAIN host = 1..Len(host) /\ DOMAIN host' = 1..(Len(host) + 1)
      /\ \A i \in 1..Len(host) : host'[i] = host[i]
      /\ host'[Len(host) + 1] = sel
      /\ Len(host) \in Nat
  OBVIOUS
<1>2. host' # <<>>
  BY <1>1
<1>3. Range(host') \subseteq Range(host) \union {sel}
  BY <1>1 DEF Range
<1>4. Range(host) \union {sel} \subseteq Range(host')
  BY <1>1 DEF Range
<1> QED
  BY <1>1, <1>2, <1>3, <1>4

\* What anybody ever asked for is asked for ever.
LEMMA AskedGrows ==
  ASSUME calls \in Seq(Call), calls' \in Seq(Call), Len(calls') >= Len(calls),
         \A i \in 1..Len(calls) : calls'[i].sel = calls[i].sel,
         Range(host) \subseteq Range(host')
  PROVE  Asked \subseteq Asked'
<1>1. DOMAIN calls = 1..Len(calls) /\ DOMAIN calls' = 1..Len(calls') /\ Len(calls) \in Nat /\ Len(calls') \in Nat
  OBVIOUS
<1> QED
  BY <1>1 DEF Asked

\* The Host's selections are asked for.
LEMMA HostAsked ==
  ASSUME host \in Seq(Selection), NEW n \in 1..Len(host)
  PROVE  host[n] \in Asked /\ host[n] \in Selection
BY DEF Asked, Range

LEMMA InitInv == Init => IInv
<1> SUFFICES ASSUME Init PROVE IInv
  OBVIOUS
<1>1. Initial \in Selection /\ None \notin Selection
  BY DirectoryConstants
<1>2. host \in Seq(Selection) /\ Len(host) = 1 /\ host # <<>> /\ host[1] = Initial /\ DOMAIN host = 1..1
  BY <1>1 DEF Init
<1>3. calls \in Seq(Call) /\ Len(calls) = 0 /\ DOMAIN calls = {}
  BY DEF Init
<1>4. /\ seen \in 0..1 /\ gap \in BOOLEAN /\ (gap => seen = 0) /\ (~gap => seen = 1)
      /\ confirmed = (IF gap THEN None ELSE Initial) /\ observed = confirmed /\ tells = seen
      /\ ignoredPending = None /\ active = None /\ selectionError = FALSE
      /\ operation = 0 /\ reframed = FALSE /\ missed = FALSE
      /\ spent = [others |-> 0, breaks |-> 0]
      /\ up = [pending |-> None, status |-> "ready", newest |-> 0]
  BY <1>2 DEF Init, Projected, Next0
<1>5. Typed
  <2>1. WorldTyped /\ CallsTyped
    BY <1>2, <1>3, <1>4 DEF WorldTyped, CallsTyped
  <2>2. UpTyped /\ spent \in Spent
    BY <1>3, <1>4, BoundsNat DEF UpTyped, Spent
  <2>3. OverlayTyped
    <3>1. selectionError \in BOOLEAN /\ reframed \in BOOLEAN
      BY <1>4
    <3>2. /\ confirmed \in Selection \union {None} /\ observed \in Selection \union {None}
          /\ ignoredPending \in Selection \union {None}
          /\ tells \in 0..Len(host) /\ (tells = 0 <=> confirmed = None)
      BY <1>1, <1>2, <1>4
    <3> QED
      BY <3>1, <3>2 DEF OverlayTyped
  <2>4. OperationTyped
    BY <1>3, <1>4 DEF OperationTyped
  <2> QED
    BY <2>1, <2>2, <2>3, <2>4 DEF Typed
<1>6. ConfirmedAsked
  BY <1>1, <1>2, <1>4 DEF ConfirmedAsked, Asked, Range
<1>7. OperationLives /\ LandedKnows /\ ToldBefore /\ PendingHasCall
  BY <1>3, <1>4 DEF OperationLives, LandedKnows, ToldBefore, PendingHasCall
<1> QED
  BY <1>5, <1>6, <1>7 DEF IInv

LEMMA SelectInv ==
  ASSUME IInv, NEW sel \in Selection, Select(sel)
  PROVE  IInv'
<1> DEFINE n == Len(calls) + 1
<1> DEFINE c == [sel |-> sel, own |-> TRUE, ver |-> 0, at |-> "sent"]
<1>1. c \in Call /\ calls' = Append(calls, c) /\ calls \in Seq(Call)
      /\ c.sel = sel /\ c.own = TRUE /\ c.ver = 0 /\ c.at = "sent"
  BY DEF IInv, Typed, CallsTyped, Select, Sent, Call
<1> HIDE DEF c
<1>2. /\ calls' \in Seq(Call) /\ Len(calls') = n /\ Len(calls) \in Nat
      /\ DOMAIN calls = 1..Len(calls) /\ DOMAIN calls' = 1..n
      /\ \A i \in 1..Len(calls) : calls'[i] = calls[i]
      /\ calls'[n] = c
  BY <1>1, CallsGrow
<1>3. /\ up' = [pending |-> sel, status |-> "selecting", newest |-> n]
      /\ operation' = n /\ reframed' = FALSE
      /\ active' = sel /\ selectionError' = FALSE /\ ignoredPending' = None
      /\ UNCHANGED <<host, seen, gap, missed, confirmed, observed, tells, spent>>
  BY DEF Select, UpSelects, world
<1>4. n \in 1..Len(calls') /\ n # 0 /\ sel # None /\ up'.pending = sel /\ up'.newest = n
  BY <1>2, <1>3, NotNone
<1>5. Asked \subseteq Asked'
  BY <1>1, <1>2, <1>3, AskedGrows
<1>6. Typed'
  <2>1. WorldTyped' /\ OverlayTyped' /\ (spent \in Spent)'
    BY <1>3 DEF IInv, Typed, WorldTyped, OverlayTyped
  <2>2. UpTyped'
    BY <1>3, <1>4 DEF UpTyped
  <2>3. CallsTyped'
    BY <1>1, <1>2, <1>3 DEF IInv, Typed, CallsTyped, WorldTyped
  <2>4. OperationTyped'
    BY <1>1, <1>2, <1>3, <1>4 DEF OperationTyped
  <2> QED
    BY <2>1, <2>2, <2>3, <2>4 DEF Typed
<1>7. OperationLives' /\ PendingHasCall'
  BY <1>1, <1>2, <1>3, <1>4 DEF OperationLives, PendingHasCall
<1>8. LandedKnows' /\ ToldBefore'
  BY <1>1, <1>2, <1>3, <1>4 DEF IInv, LandedKnows, ToldBefore
<1>9. ConfirmedAsked'
  BY <1>3, <1>5 DEF IInv, ConfirmedAsked
<1> QED
  BY <1>6, <1>7, <1>8, <1>9 DEF IInv

\* What the official directory's publishing does: the current call stays, or is
\* overtaken by another selection.
LEMMA DirectoryEffect ==
  ASSUME IInv, NEW pending \in Selection \union {None}, NEW status, DirectoryChanges(pending, status)
  PROVE  /\ \/ operation' = operation /\ active' = active
            \/ operation' = 0 /\ active' = None /\ pending # None
         /\ ignoredPending' \in Selection \union {None}
         /\ selectionError' \in BOOLEAN
<1>1. selectionError' \in BOOLEAN
  BY DEF DirectoryChanges
<1>2. ignoredPending' \in Selection \union {None}
  BY DEF DirectoryChanges, IInv, Typed, OverlayTyped
<1>3. \/ operation' = operation /\ active' = active
      \/ operation' = 0 /\ active' = None /\ pending # None
  BY DEF DirectoryChanges
<1> QED
  BY <1>1, <1>2, <1>3

LEMMA OtherSelectsInv ==
  ASSUME IInv, NEW sel \in Selection, OtherSelects(sel)
  PROVE  IInv'
<1> DEFINE n == Len(calls) + 1
<1> DEFINE c == [sel |-> sel, own |-> FALSE, ver |-> 0, at |-> "sent"]
<1>1. c \in Call /\ calls' = Append(calls, c) /\ calls \in Seq(Call)
      /\ c.sel = sel /\ c.own = FALSE /\ c.ver = 0 /\ c.at = "sent"
  BY DEF IInv, Typed, CallsTyped, OtherSelects, Sent, Call
<1> HIDE DEF c
<1>2. /\ calls' \in Seq(Call) /\ Len(calls') = n /\ Len(calls) \in Nat
      /\ DOMAIN calls = 1..Len(calls) /\ DOMAIN calls' = 1..n
      /\ \A i \in 1..Len(calls) : calls'[i] = calls[i]
      /\ calls'[n] = c
  BY <1>1, CallsGrow
<1>3. /\ up' = [pending |-> sel, status |-> "selecting", newest |-> n]
      /\ UNCHANGED <<host, seen, gap, missed, confirmed, observed, reframed, tells, spent>>
      /\ DirectoryChanges(sel, "selecting")
  BY DEF OtherSelects, UpSelects, world
<1>4. n \in 1..Len(calls') /\ n # 0 /\ sel # None /\ up'.pending = sel /\ up'.newest = n
  BY <1>2, <1>3, NotNone
<1>5. Asked \subseteq Asked'
  BY <1>1, <1>2, <1>3, AskedGrows
<1>6. /\ \/ operation' = operation /\ active' = active
         \/ operation' = 0 /\ active' = None
      /\ ignoredPending' \in Selection \union {None}
      /\ selectionError' \in BOOLEAN
  BY <1>3, DirectoryEffect
<1>7. Typed'
  <2>1. WorldTyped' /\ (spent \in Spent)'
    BY <1>3 DEF IInv, Typed, WorldTyped
  <2>2. OverlayTyped'
    BY <1>3, <1>6 DEF IInv, Typed, OverlayTyped
  <2>3. UpTyped'
    BY <1>3, <1>4 DEF UpTyped
  <2>4. CallsTyped'
    BY <1>1, <1>2, <1>3 DEF IInv, Typed, CallsTyped, WorldTyped
  <2>5. OperationTyped'
    BY <1>1, <1>2, <1>4, <1>6 DEF IInv, Typed, OperationTyped
  <2> QED
    BY <2>1, <2>2, <2>3, <2>4, <2>5 DEF Typed
<1>8. OperationLives'
  BY <1>2, <1>6 DEF IInv, Typed, OperationTyped, OperationLives
<1>9. LandedKnows'
  BY <1>1, <1>2 DEF IInv, LandedKnows
<1>10. ToldBefore'
  BY <1>2, <1>3, <1>6 DEF IInv, Typed, OperationTyped, ToldBefore
<1>11. PendingHasCall'
  BY <1>1, <1>2, <1>4 DEF PendingHasCall
<1>12. ConfirmedAsked'
  BY <1>3, <1>5 DEF IInv, ConfirmedAsked
<1> QED
  BY <1>7, <1>8, <1>9, <1>10, <1>11, <1>12 DEF IInv

LEMMA LandsInv ==
  ASSUME IInv, NEW i \in DOMAIN calls, Lands(i)
  PROVE  IInv'
<1> DEFINE v == Len(host) + 1
<1> DEFINE d == calls[i]
<1> DEFINE c == [d EXCEPT !.at = "landed", !.ver = v]
<1>1. /\ calls \in Seq(Call) /\ host \in Seq(Selection) /\ v \in Nat /\ v > 0 /\ v = Len(host) + 1
      /\ Len(host) \in Nat /\ Len(calls) \in Nat /\ DOMAIN calls = 1..Len(calls) /\ d \in Call
      /\ \A j \in 1..Len(calls) : calls[j].ver <= Len(host) /\ calls[j] \in Call
  BY DEF IInv, Typed, CallsTyped, WorldTyped
<1> HIDE DEF v
<1>2. d.sel \in Selection /\ d.at = "sent" /\ host' = Append(host, d.sel)
      /\ UNCHANGED <<seen, gap, missed, up, confirmed, observed, ignoredPending, active,
                     selectionError, operation, reframed, tells, spent>>
  BY <1>1 DEF Lands, overlay, Call
<1>3. calls' = [calls EXCEPT ![i] = c]
  BY DEF Lands, v
<1> HIDE DEF d
<1>4. c \in Call /\ c.sel = d.sel /\ c.own = d.own /\ c.ver = v /\ c.at = "landed"
  BY <1>1 DEF Call
<1> HIDE DEF c
<1>5. /\ calls' \in Seq(Call) /\ Len(calls') = Len(calls) /\ DOMAIN calls' = 1..Len(calls)
      /\ \A j \in 1..Len(calls) : calls'[j] = IF j = i THEN c ELSE calls[j]
  BY <1>1, <1>3, <1>4
<1>6. /\ host' \in Seq(Selection) /\ Len(host') = v /\ host' # <<>>
      /\ Range(host) \subseteq Range(host')
  BY <1>1, <1>2, HostGrows
<1>7. \A j \in 1..Len(calls) : calls'[j].sel = calls[j].sel /\ calls'[j].own = calls[j].own
  BY <1>4, <1>5 DEF d
<1>8. Asked \subseteq Asked'
  BY <1>1, <1>5, <1>6, <1>7, AskedGrows
<1>9. Typed'
  <2>1. WorldTyped'
    BY <1>1, <1>2, <1>6 DEF IInv, Typed, WorldTyped
  <2>2. UpTyped' /\ (spent \in Spent)'
    BY <1>2, <1>5 DEF IInv, Typed, UpTyped
  <2>3. CallsTyped'
    <3>1. ASSUME NEW j \in 1..Len(calls) PROVE calls'[j].ver <= Len(host')
      <4>1. CASE j = i
        BY <1>1, <1>4, <1>5, <1>6, <4>1
      <4>2. CASE j # i
        <5>1. calls'[j] = calls[j] /\ calls[j].ver <= Len(host) /\ calls[j].ver \in Nat
          BY <1>1, <1>5, <4>2 DEF Call
        <5> QED
          BY <1>1, <1>6, <5>1
      <4> QED
        BY <4>1, <4>2
    <3> QED
      BY <1>5, <3>1 DEF CallsTyped
  <2>4. OverlayTyped'
    BY <1>1, <1>2, <1>6 DEF IInv, Typed, OverlayTyped
  <2>5. OperationTyped'
    BY <1>2, <1>5, <1>7 DEF IInv, Typed, OperationTyped
  <2> QED
    BY <2>1, <2>2, <2>3, <2>4, <2>5 DEF Typed
<1>10. OperationLives'
  BY <1>2, <1>4, <1>5 DEF IInv, Typed, OperationTyped, OperationLives
<1>11. LandedKnows'
  BY <1>1, <1>4, <1>5 DEF IInv, LandedKnows
<1>12. ToldBefore'
  BY <1>1, <1>2, <1>4, <1>5 DEF IInv, Typed, OperationTyped, OverlayTyped, ToldBefore
<1>13. PendingHasCall'
  BY <1>2, <1>4, <1>5, <1>7 DEF IInv, Typed, UpTyped, PendingHasCall
<1>14. ConfirmedAsked'
  BY <1>2, <1>8 DEF IInv, ConfirmedAsked
<1> QED
  BY <1>9, <1>10, <1>11, <1>12, <1>13, <1>14 DEF IInv

\* A call that comes back: what becomes of the parts that only look at calls.
LEMMA MovedCallTyped ==
  ASSUME IInv, NEW i \in DOMAIN calls, NEW at \in Fates,
         calls' = [calls EXCEPT ![i].at = at], UNCHANGED host,
         at = "accepted" => calls[i].ver > 0, at # "landed"
  PROVE  /\ CallsTyped' /\ LandedKnows' /\ Asked \subseteq Asked'
         /\ DOMAIN calls = 1..Len(calls) /\ DOMAIN calls' = 1..Len(calls) /\ Len(calls') = Len(calls)
         /\ \A j \in 1..Len(calls) :
              /\ calls'[j].sel = calls[j].sel /\ calls'[j].own = calls[j].own
              /\ calls'[j].ver = calls[j].ver
              /\ calls'[j].at = IF j = i THEN at ELSE calls[j].at
<1>1. calls \in Seq(Call)
  BY DEF IInv, Typed, CallsTyped
<1>2. /\ calls' \in Seq(Call) /\ Len(calls') = Len(calls)
      /\ DOMAIN calls = 1..Len(calls) /\ DOMAIN calls' = 1..Len(calls)
      /\ \A j \in 1..Len(calls) :
           /\ calls'[j].sel = calls[j].sel /\ calls'[j].own = calls[j].own
           /\ calls'[j].ver = calls[j].ver
           /\ calls'[j].at = IF j = i THEN at ELSE calls[j].at
  BY <1>1, CallMoves
<1>3. CallsTyped'
  BY <1>2 DEF IInv, Typed, CallsTyped
<1>4. LandedKnows'
  BY <1>2 DEF IInv, LandedKnows
<1>5. Len(calls) \in Nat
  BY <1>1
<1>6. Asked \subseteq Asked'
  BY <1>1, <1>2, <1>5, AskedGrows
<1> QED
  BY <1>2, <1>3, <1>4, <1>6

LEMMA AnswerInv ==
  ASSUME IInv, NEW i \in DOMAIN calls, NEW fate \in {"accepted", "refused", "failed"}, Answer(i, fate)
  PROVE  IInv'
<1> DEFINE at == IF calls[i].own THEN fate ELSE "done"
<1>1. /\ at \in Fates /\ at # "landed" /\ calls' = [calls EXCEPT ![i].at = at]
      /\ UNCHANGED <<host, seen, gap, missed, spent, confirmed, observed, reframed, tells>>
      /\ at = "accepted" => calls[i].at = "landed"
      /\ calls[i].own => at # "done"
      /\ fate = "failed" => calls[i].own /\ at = "failed"
  BY DEF Answer, Fates, world, overlay
<1>2. /\ CallsTyped' /\ LandedKnows' /\ Asked \subseteq Asked'
      /\ DOMAIN calls = 1..Len(calls) /\ DOMAIN calls' = 1..Len(calls) /\ Len(calls') = Len(calls)
      /\ \A j \in 1..Len(calls) :
           /\ calls'[j].sel = calls[j].sel /\ calls'[j].own = calls[j].own
           /\ calls'[j].ver = calls[j].ver
           /\ calls'[j].at = IF j = i THEN at ELSE calls[j].at
  <2> HIDE DEF at
  <2>1. at = "accepted" => calls[i].ver > 0
    BY <1>1 DEF IInv, LandedKnows
  <2> QED
    <3>1. host' = host
      BY <1>1
    <3>2. at \in Fates /\ at # "landed" /\ calls' = [calls EXCEPT ![i].at = at]
      BY <1>1
    <3> QED
      BY <2>1, <3>1, <3>2, MovedCallTyped
<1>3. \/ /\ UNCHANGED <<up, ignoredPending, active, selectionError, operation>>
         /\ i # up.newest \/ fate = "failed"
      \/ /\ up'.pending = None /\ UNCHANGED <<active, operation>>
         /\ ignoredPending' \in Selection \union {None} /\ selectionError' \in BOOLEAN
         /\ up' \in [pending : Selection \union {None}, status : {"ready", "selecting", "error"},
                     newest : 0..Len(calls)]
  <2>1. CASE i = up.newest /\ fate # "failed"
    <3>1. /\ up' = Settled(fate) /\ DirectoryChanges(None, Settled(fate).status)
      BY <2>1 DEF Answer
    <3>2. up'.pending = None /\ up' \in [pending : Selection \union {None},
                status : {"ready", "selecting", "error"}, newest : 0..Len(calls)]
      BY <2>1, <3>1 DEF Settled, IInv, Typed, UpTyped
    <3>3. /\ UNCHANGED <<active, operation>>
          /\ ignoredPending' \in Selection \union {None} /\ selectionError' \in BOOLEAN
      <4> DEFINE s == Settled(fate).status
      <4>1. DirectoryChanges(None, s)
        BY <3>1
      <4> HIDE DEF s
      <4> QED
        BY <4>1, DirectoryEffect
    <3> QED
      BY <3>2, <3>3
  <2>2. CASE ~(i = up.newest /\ fate # "failed")
    BY <2>2 DEF Answer, overlay
  <2> QED
    BY <2>1, <2>2
<1> HIDE DEF at
<1>4. Typed'
  <2>1. WorldTyped' /\ (spent \in Spent)'
    BY <1>1 DEF IInv, Typed, WorldTyped
  <2>2. UpTyped'
    BY <1>2, <1>3 DEF IInv, Typed, UpTyped
  <2>3. OverlayTyped'
    BY <1>1, <1>3 DEF IInv, Typed, OverlayTyped
  <2>4. OperationTyped'
    BY <1>2, <1>3 DEF IInv, Typed, OperationTyped
  <2> QED
    BY <1>2, <2>1, <2>2, <2>3, <2>4 DEF Typed
<1>5. OperationLives'
  BY <1>1, <1>2, <1>3 DEF IInv, Typed, OperationTyped, OperationLives
<1>6. ToldBefore'
  BY <1>1, <1>2, <1>3 DEF IInv, Typed, OperationTyped, ToldBefore
<1>7. PendingHasCall'
  <2>1. CASE up'.pending = None
    BY <2>1 DEF PendingHasCall
  <2>2. CASE /\ UNCHANGED <<up, ignoredPending, active, selectionError, operation>>
             /\ i # up.newest \/ fate = "failed"
    BY <1>1, <1>2, <2>2 DEF IInv, Typed, UpTyped, PendingHasCall
  <2> QED
    BY <1>3, <2>1, <2>2
<1>8. ConfirmedAsked'
  BY <1>1, <1>2 DEF IInv, ConfirmedAsked
<1> QED
  BY <1>2, <1>4, <1>5, <1>6, <1>7, <1>8 DEF IInv

\* What a call's own continuation does to the overlay.
LEMMA ResumeEffect ==
  ASSUME NEW i \in DOMAIN calls, Resume(i)
  PROVE  /\ calls[i].own /\ calls[i].at \in {"accepted", "refused", "failed"}
         /\ calls' = [calls EXCEPT ![i].at = "done"]
         /\ UNCHANGED <<host, seen, gap, missed, up, spent, observed, reframed>>
         /\ \/ i # operation /\ UNCHANGED overlay
            \/ /\ i = operation /\ active' = None /\ operation' = 0
               /\ calls[i].at = "accepted" /\ UNCHANGED <<ignoredPending, selectionError>>
               /\ \/ ~reframed /\ confirmed' = calls[i].sel /\ tells' = calls[i].ver
                  \/ UNCHANGED <<confirmed, tells>>
            \/ /\ i = operation /\ active' = None /\ operation' = 0
               /\ calls[i].at # "accepted" /\ UNCHANGED <<confirmed, tells>>
               /\ ignoredPending' = IF up.pending = calls[i].sel THEN up.pending ELSE ignoredPending
               /\ selectionError' \in BOOLEAN
<1>1. /\ calls[i].own /\ calls[i].at \in {"accepted", "refused", "failed"}
      /\ calls' = [calls EXCEPT ![i].at = "done"]
      /\ UNCHANGED <<host, seen, gap, missed, up, spent, observed, reframed>>
  BY DEF Resume, world, overlay
<1>2. CASE i # operation
  <2>1. UNCHANGED overlay
    BY <1>2 DEF Resume, IsCurrent
  <2> QED
    BY <1>1, <1>2, <2>1
<1>3. CASE i = operation /\ calls[i].at = "accepted"
  BY <1>1, <1>3 DEF Resume, IsCurrent
<1>4. CASE i = operation /\ calls[i].at # "accepted"
  <2>1. RollsBack(calls[i]) /\ UNCHANGED <<confirmed, tells>> /\ active' = None /\ operation' = 0
    BY <1>4 DEF Resume, IsCurrent
  <2>2. selectionError' = (calls[i].at = "failed")
    BY <2>1 DEF RollsBack
  <2>3. selectionError' \in BOOLEAN
    BY <2>2
  <2>4. ignoredPending' = IF up.pending = calls[i].sel THEN up.pending ELSE ignoredPending
    BY <2>1 DEF RollsBack, RawPending
  <2> QED
    BY <1>1, <1>4, <2>1, <2>3, <2>4
<1> QED
  BY <1>2, <1>3, <1>4

LEMMA ResumeInv ==
  ASSUME IInv, NEW i \in DOMAIN calls, Resume(i)
  PROVE  IInv'
<1>1. /\ calls[i].own /\ calls[i].at \in {"accepted", "refused", "failed"}
      /\ calls' = [calls EXCEPT ![i].at = "done"]
      /\ UNCHANGED <<host, seen, gap, missed, up, spent, observed, reframed>>
      /\ \/ i # operation /\ UNCHANGED overlay
         \/ /\ i = operation /\ active' = None /\ operation' = 0
            /\ calls[i].at = "accepted" /\ UNCHANGED <<ignoredPending, selectionError>>
            /\ \/ ~reframed /\ confirmed' = calls[i].sel /\ tells' = calls[i].ver
               \/ UNCHANGED <<confirmed, tells>>
         \/ /\ i = operation /\ active' = None /\ operation' = 0
            /\ calls[i].at # "accepted" /\ UNCHANGED <<confirmed, tells>>
            /\ ignoredPending' = IF up.pending = calls[i].sel THEN up.pending ELSE ignoredPending
            /\ selectionError' \in BOOLEAN
  BY ResumeEffect
<1>2. /\ CallsTyped' /\ LandedKnows' /\ Asked \subseteq Asked'
      /\ DOMAIN calls = 1..Len(calls) /\ DOMAIN calls' = 1..Len(calls) /\ Len(calls') = Len(calls)
      /\ \A j \in 1..Len(calls) :
           /\ calls'[j].sel = calls[j].sel /\ calls'[j].own = calls[j].own
           /\ calls'[j].ver = calls[j].ver
           /\ calls'[j].at = IF j = i THEN "done" ELSE calls[j].at
  <2> DEFINE at == "done"
  <2>1. at \in Fates /\ host' = host /\ at # "landed" /\ at # "accepted"
        /\ calls' = [calls EXCEPT ![i].at = at]
    BY <1>1 DEF Fates
  <2> HIDE DEF at
  <2>2. /\ CallsTyped' /\ LandedKnows' /\ Asked \subseteq Asked'
        /\ DOMAIN calls = 1..Len(calls) /\ DOMAIN calls' = 1..Len(calls) /\ Len(calls') = Len(calls)
        /\ \A j \in 1..Len(calls) :
             /\ calls'[j].sel = calls[j].sel /\ calls'[j].own = calls[j].own
             /\ calls'[j].ver = calls[j].ver
             /\ calls'[j].at = IF j = i THEN at ELSE calls[j].at
    BY <2>1, MovedCallTyped
  <2> QED
    BY <2>2 DEF at
<1>3. /\ calls[i].sel \in Selection /\ calls[i].sel \in Asked /\ calls[i].ver \in Nat
      /\ calls[i].ver <= Len(host) /\ (calls[i].at = "accepted" => calls[i].ver > 0)
      /\ Len(host) \in Nat /\ Len(calls) \in Nat
  <2>1. /\ calls \in Seq(Call) /\ host \in Seq(Selection) /\ calls[i] \in Call
        /\ calls[i].ver <= Len(host) /\ (calls[i].at = "accepted" => calls[i].ver > 0)
    BY DEF IInv, Typed, CallsTyped, WorldTyped, LandedKnows
  <2>2. Len(host) \in Nat /\ Len(calls) \in Nat /\ calls[i].sel \in Selection /\ calls[i].ver \in Nat
    BY <2>1 DEF Call
  <2>3. calls[i].sel \in Asked
    BY DEF Asked
  <2> QED
    BY <2>1, <2>2, <2>3
<1>4. Typed'
  <2>1. WorldTyped' /\ UpTyped' /\ (spent \in Spent)'
    BY <1>1, <1>2 DEF IInv, Typed, WorldTyped, UpTyped
  <2>2. OverlayTyped'
    <3>1. CASE UNCHANGED overlay
      BY <1>1, <3>1 DEF IInv, Typed, OverlayTyped, overlay
    <3>2. CASE calls[i].at = "accepted" /\ confirmed' = calls[i].sel /\ tells' = calls[i].ver
               /\ UNCHANGED <<ignoredPending, selectionError>>
      BY <1>1, <1>3, <3>2, NotNone DEF IInv, Typed, OverlayTyped
    <3>3. CASE UNCHANGED <<confirmed, tells>> /\ UNCHANGED <<ignoredPending, selectionError>>
      BY <1>1, <3>3 DEF IInv, Typed, OverlayTyped
    <3>4. CASE /\ UNCHANGED <<confirmed, tells>> /\ selectionError' \in BOOLEAN
               /\ ignoredPending' = IF up.pending = calls[i].sel THEN up.pending ELSE ignoredPending
      BY <1>1, <3>4 DEF IInv, Typed, OverlayTyped, UpTyped
    <3> QED
      BY <1>1, <3>1, <3>2, <3>3, <3>4
  <2>3. OperationTyped'
    BY <1>1, <1>2, <1>3 DEF IInv, Typed, OperationTyped, overlay
  <2> QED
    BY <1>2, <2>1, <2>2, <2>3 DEF Typed
<1>5. OperationLives'
  BY <1>1, <1>2 DEF IInv, Typed, OperationTyped, OperationLives, overlay
<1>6. ToldBefore'
  BY <1>1, <1>2 DEF IInv, Typed, OperationTyped, ToldBefore, overlay
<1>7. PendingHasCall'
  <2> SUFFICES ASSUME up'.pending # None PROVE PendingHasCall'
    BY DEF PendingHasCall
  <2> DEFINE n == up.newest
  <2>1. /\ n \in 1..Len(calls) /\ n # 0 /\ calls[n].sel = up.pending /\ up' = up
        /\ \/ up.pending = ignoredPending
           \/ calls[n].at \in {"sent", "landed", "failed"} /\ (calls[n].own => operation = n)
    BY <1>1, <1>3 DEF IInv, Typed, UpTyped, PendingHasCall
  <2>2. calls'[n].sel = up.pending /\ calls'[n].own = calls[n].own
        /\ calls'[n].at = IF n = i THEN "done" ELSE calls[n].at
    BY <1>2, <2>1
  <2> HIDE DEF n
  <2>3. CASE i # operation /\ UNCHANGED overlay
    <3>1. \/ up.pending = ignoredPending
          \/ calls'[n].at \in {"sent", "landed", "failed"} /\ (calls'[n].own => operation' = n)
      BY <1>1, <2>1, <2>2, <2>3 DEF overlay
    <3> QED
      BY <2>1, <2>2, <2>3, <3>1 DEF PendingHasCall, overlay, n
  <2>4. CASE i = operation /\ operation' = 0 /\ calls[i].at = "accepted"
             /\ UNCHANGED <<ignoredPending, selectionError>>
    <3>1. \/ up.pending = ignoredPending
          \/ calls'[n].at \in {"sent", "landed", "failed"} /\ ~calls'[n].own
      BY <1>1, <2>1, <2>2, <2>4
    <3> QED
      BY <2>1, <2>2, <2>4, <3>1 DEF PendingHasCall, n
  <2>5. CASE /\ i = operation /\ operation' = 0 /\ calls[i].at # "accepted"
             /\ ignoredPending' = IF up.pending = calls[i].sel THEN up.pending ELSE ignoredPending
    <3>1. \/ up.pending = ignoredPending'
          \/ calls'[n].at \in {"sent", "landed", "failed"} /\ ~calls'[n].own
      BY <1>1, <2>1, <2>2, <2>5
    <3> QED
      BY <2>1, <2>2, <2>5, <3>1 DEF PendingHasCall, n
  <2> QED
    BY <1>1, <2>3, <2>4, <2>5
<1>8. ConfirmedAsked'
  BY <1>1, <1>2, <1>3 DEF IInv, ConfirmedAsked, overlay
<1> QED
  BY <1>2, <1>4, <1>5, <1>6, <1>7, <1>8 DEF IInv

\* What a frame does to the overlay: nothing, or it is what is confirmed now.
LEMMA ProjectionEffect ==
  ASSUME NEW next, NEW n, ProjectionChanges(next, n)
  PROVE  \/ UNCHANGED overlay
         \/ /\ next # None /\ confirmed' = next /\ observed' = next /\ tells' = n
            /\ selectionError' = FALSE /\ reframed' = TRUE
            /\ ignoredPending' = IF up.pending \notin {None, next} THEN up.pending ELSE ignoredPending
            /\ \/ operation' = operation /\ active' = active /\ active \in {None, next}
               \/ operation' = 0 /\ active' = None /\ active \notin {None, next}
<1>1. CASE ~FrameCounts(next)
  BY <1>1 DEF ProjectionChanges
<1>2. CASE FrameCounts(next)
  <2>1. next # None
    BY <1>2 DEF FrameCounts
  <2>2. ignoredPending' = IF up.pending \notin {None, next} THEN up.pending ELSE ignoredPending
    BY <1>2 DEF ProjectionChanges, Ignored, RawPending
  <2>3. /\ confirmed' = next /\ observed' = next /\ tells' = n
        /\ selectionError' = FALSE /\ reframed' = TRUE
        /\ \/ operation' = operation /\ active' = active /\ active \in {None, next}
           \/ operation' = 0 /\ active' = None /\ active \notin {None, next}
    BY <1>2, <2>1 DEF ProjectionChanges
  <2> QED
    BY <2>1, <2>2, <2>3
<1> QED
  BY <1>1, <1>2

LEMMA FrameInv ==
  ASSUME IInv, NEW n \in DOMAIN host, Frame(n)
  PROVE  IInv'
<1> DEFINE next == host[n]
<1>1. /\ host \in Seq(Selection) /\ n \in 1..Len(host) /\ Len(host) \in Nat /\ n # 0
      /\ next \in Selection /\ next \in Asked /\ next # None
  BY NotNone, HostAsked DEF IInv, Typed, WorldTyped
<1>2. /\ seen' = n /\ gap' = FALSE /\ UNCHANGED <<host, up, calls, spent>>
      /\ missed' \in BOOLEAN /\ ProjectionChanges(next, n)
  BY DEF Frame
<1> HIDE DEF next
<1>3. \/ UNCHANGED overlay
      \/ /\ confirmed' = next /\ observed' = next /\ tells' = n
         /\ selectionError' = FALSE /\ reframed' = TRUE
         /\ ignoredPending' = IF up.pending \notin {None, next} THEN up.pending ELSE ignoredPending
         /\ \/ operation' = operation /\ active' = active /\ active \in {None, next}
            \/ operation' = 0 /\ active' = None /\ active \notin {None, next}
  BY <1>2, ProjectionEffect
<1>4. Asked' = Asked
  BY <1>2 DEF Asked
<1>5. WorldTyped' /\ UpTyped' /\ CallsTyped' /\ (spent \in Spent)' /\ LandedKnows'
  <2>1. gap' \in BOOLEAN
    BY <1>2
  <2>2. WorldTyped'
    BY <1>1, <1>2, <2>1 DEF WorldTyped, IInv, Typed
  <2>3. UpTyped' /\ CallsTyped' /\ (spent \in Spent)' /\ LandedKnows'
    BY <1>2 DEF IInv, Typed, UpTyped, CallsTyped, LandedKnows
  <2> QED
    BY <2>2, <2>3
<1>6. CASE UNCHANGED overlay
  <2>1. OverlayTyped' /\ OperationTyped'
    BY <1>2, <1>6 DEF overlay, IInv, Typed, OverlayTyped, OperationTyped
  <2>2. OperationLives' /\ ToldBefore' /\ PendingHasCall' /\ ConfirmedAsked'
    BY <1>2, <1>4, <1>6 DEF overlay, IInv, OperationLives, ToldBefore, PendingHasCall, ConfirmedAsked
  <2> QED
    BY <1>5, <2>1, <2>2 DEF IInv, Typed
<1>7. CASE /\ confirmed' = next /\ observed' = next /\ tells' = n
           /\ selectionError' = FALSE /\ reframed' = TRUE
           /\ ignoredPending' = IF up.pending \notin {None, next} THEN up.pending ELSE ignoredPending
           /\ \/ operation' = operation /\ active' = active /\ active \in {None, next}
              \/ operation' = 0 /\ active' = None /\ active \notin {None, next}
  <2>1. OverlayTyped'
    <3>1. selectionError' \in BOOLEAN /\ reframed' \in BOOLEAN
      BY <1>7
    <3>2. ignoredPending' \in Selection \union {None}
      BY <1>7 DEF IInv, Typed, OverlayTyped, UpTyped
    <3> QED
      BY <1>1, <1>2, <1>7, <3>1, <3>2 DEF OverlayTyped
  <2>2. OperationTyped'
    BY <1>2, <1>7 DEF IInv, Typed, OperationTyped
  <2>3. OperationLives' /\ ToldBefore' /\ ConfirmedAsked'
    BY <1>1, <1>2, <1>4, <1>7 DEF IInv, OperationLives, ToldBefore, ConfirmedAsked
  <2>4. PendingHasCall'
    BY <1>2, <1>7 DEF IInv, Typed, OperationTyped, PendingHasCall
  <2> QED
    BY <1>5, <2>1, <2>2, <2>3, <2>4 DEF IInv, Typed
<1> QED
  BY <1>3, <1>6, <1>7

LEMMA GapOpensInv == ASSUME IInv, GapOpens PROVE IInv'
<1>1. UNCHANGED overlay
  BY ProjectionEffect DEF GapOpens
<1>2. gap' = TRUE /\ UNCHANGED <<host, seen, missed, up, calls>> /\ spent' \in Spent
  BY SpendsBreak DEF GapOpens, IInv, Typed
<1>3. Typed'
  <2>1. WorldTyped'
    BY <1>2 DEF IInv, Typed, WorldTyped
  <2>2. UpTyped' /\ CallsTyped'
    BY <1>2 DEF IInv, Typed, UpTyped, CallsTyped
  <2>3. OverlayTyped' /\ OperationTyped'
    BY <1>1, <1>2 DEF overlay, IInv, Typed, OverlayTyped, OperationTyped
  <2> QED
    BY <1>2, <2>1, <2>2, <2>3 DEF Typed
<1>4. OperationLives' /\ LandedKnows' /\ ToldBefore' /\ ConfirmedAsked' /\ PendingHasCall'
  BY <1>1, <1>2
  DEF overlay, IInv, OperationLives, LandedKnows, ToldBefore, ConfirmedAsked, Asked, PendingHasCall
<1> QED
  BY <1>3, <1>4 DEF IInv

LEMMA ResetInv == ASSUME IInv, Reset PROVE IInv'
<1>1. /\ up' = [pending |-> None, status |-> "ready", newest |-> 0]
      /\ gap' = TRUE /\ seen' = Len(host) /\ missed' = FALSE /\ operation' = 0
      /\ confirmed' = None /\ observed' = None /\ tells' = 0
      /\ ignoredPending' = None /\ selectionError' = FALSE /\ active' = None
      /\ UNCHANGED <<host, calls, reframed>> /\ spent' \in Spent
  BY SpendsBreak DEF Reset, IInv, Typed
<1>2. Typed'
  <2>1. WorldTyped'
    <3>1. Len(host) \in 0..Len(host)
      BY DEF IInv, Typed, WorldTyped
    <3>2. gap' \in BOOLEAN /\ missed' \in BOOLEAN
      BY <1>1
    <3> QED
      BY <1>1, <3>1, <3>2 DEF IInv, Typed, WorldTyped
  <2>2. UpTyped'
    <3>1. Len(calls') \in Nat
      BY <1>1 DEF IInv, Typed, CallsTyped
    <3> QED
      BY <1>1, <3>1 DEF UpTyped
  <2>3. CallsTyped'
    BY <1>1 DEF IInv, Typed, CallsTyped
  <2>4. OverlayTyped'
    <3>1. 0 \in 0..Len(host')
      BY <1>1 DEF IInv, Typed, WorldTyped
    <3>2. selectionError' \in BOOLEAN
      BY <1>1
    <3>3. reframed' \in BOOLEAN
      BY <1>1 DEF IInv, Typed, OverlayTyped
    <3> QED
      BY <1>1, <3>1, <3>2, <3>3 DEF OverlayTyped
  <2>5. OperationTyped'
    <3>1. 0 \in 0..Len(calls')
      BY <1>1 DEF IInv, Typed, CallsTyped
    <3> QED
      BY <1>1, <3>1 DEF OperationTyped
  <2> QED
    BY <1>1, <2>1, <2>2, <2>3, <2>4, <2>5 DEF Typed
<1>3. OperationLives' /\ LandedKnows' /\ ToldBefore' /\ ConfirmedAsked' /\ PendingHasCall'
  BY <1>1 DEF IInv, OperationLives, LandedKnows, ToldBefore, ConfirmedAsked, PendingHasCall
<1> QED
  BY <1>2, <1>3 DEF IInv

LEMMA ReplaceInv == ASSUME IInv, Replace PROVE IInv'
<1>1. /\ up' = [pending |-> None, status |-> "ready", newest |-> 0]
      /\ missed' = FALSE /\ operation' = 0 /\ confirmed' = Projected /\ observed' = Projected
      /\ tells' = (IF Projected = None THEN 0 ELSE seen) /\ reframed' = FALSE
      /\ ignoredPending' = None /\ selectionError' = FALSE /\ active' = None
      /\ UNCHANGED <<host, seen, gap, calls>> /\ spent' \in Spent
  BY SpendsBreak DEF Replace, Fresh, IInv, Typed
<1>2. /\ Projected \in Asked \union {None} /\ Projected \in Selection \union {None}
      /\ Projected # None => seen # 0
  <2>1. CASE gap \/ seen = 0
    BY <2>1 DEF Projected, Next0
  <2>2. CASE ~(gap \/ seen = 0)
    <3>1. Projected = host[seen] /\ seen \in 1..Len(host) /\ host \in Seq(Selection) /\ seen # 0
      BY <2>2 DEF Projected, Next0, IInv, Typed, WorldTyped
    <3> QED
      BY <3>1, HostAsked
  <2> QED
    BY <2>1, <2>2
<1>3. Typed'
  <2>1. WorldTyped'
    <3>1. missed' \in BOOLEAN
      BY <1>1
    <3> QED
      BY <1>1, <3>1 DEF IInv, Typed, WorldTyped
  <2>2. UpTyped'
    <3>1. Len(calls') \in Nat
      BY <1>1 DEF IInv, Typed, CallsTyped
    <3> QED
      BY <1>1, <3>1 DEF UpTyped
  <2>3. CallsTyped'
    BY <1>1 DEF IInv, Typed, CallsTyped
  <2>4. OverlayTyped'
    <3>1. tells' \in 0..Len(host')
      BY <1>1 DEF IInv, Typed, WorldTyped
    <3>2. selectionError' \in BOOLEAN /\ reframed' \in BOOLEAN
      BY <1>1
    <3> QED
      BY <1>1, <1>2, <3>1, <3>2 DEF OverlayTyped
  <2>5. OperationTyped'
    <3>1. 0 \in 0..Len(calls')
      BY <1>1 DEF IInv, Typed, CallsTyped
    <3> QED
      BY <1>1, <3>1 DEF OperationTyped
  <2> QED
    BY <1>1, <2>1, <2>2, <2>3, <2>4, <2>5 DEF Typed
<1>4. ConfirmedAsked'
  <2>1. Asked' = Asked
    BY <1>1 DEF Asked
  <2> QED
    BY <1>1, <1>2, <2>1 DEF ConfirmedAsked
<1>5. OperationLives' /\ LandedKnows' /\ ToldBefore' /\ PendingHasCall'
  BY <1>1 DEF IInv, OperationLives, LandedKnows, ToldBefore, PendingHasCall
<1> QED
  BY <1>3, <1>4, <1>5 DEF IInv

LEMMA OthersChangeInv == ASSUME IInv, NEW sel \in Selection, OthersChange(sel) PROVE IInv'
<1>1. /\ host \in Seq(Selection) /\ host' = Append(host, sel) /\ Len(host) \in Nat /\ Len(calls) \in Nat
      /\ spent' \in Spent /\ UNCHANGED <<seen, gap, missed, up, calls, overlay>>
  BY SpendsOther DEF OthersChange, IInv, Typed, WorldTyped, CallsTyped
<1>2. /\ host' \in Seq(Selection) /\ Len(host') = Len(host) + 1 /\ host' # <<>>
      /\ Range(host) \subseteq Range(host')
  BY <1>1, HostGrows
<1>3. Asked \subseteq Asked'
  BY <1>1, <1>2 DEF Asked
<1>4. Typed'
  <2>1. WorldTyped'
    BY <1>1, <1>2 DEF IInv, Typed, WorldTyped
  <2>2. UpTyped'
    BY <1>1 DEF IInv, Typed, UpTyped
  <2>3. CallsTyped'
    <3>1. calls' = calls /\ calls \in Seq(Call)
      BY <1>1 DEF IInv, Typed, CallsTyped
    <3>2. ASSUME NEW i \in DOMAIN calls PROVE calls[i].ver <= Len(host')
      <4>1. calls[i].ver \in Nat /\ calls[i].ver <= Len(host)
        <5>1. calls[i] \in Call
          BY <3>1
        <5>2. calls[i].ver <= Len(host)
          BY DEF IInv, Typed, CallsTyped
        <5> QED
          BY <5>1, <5>2 DEF Call
      <4> QED
        BY <1>1, <1>2, <4>1
    <3> QED
      BY <3>1, <3>2 DEF CallsTyped
  <2>4. OverlayTyped' /\ OperationTyped'
    BY <1>1, <1>2 DEF overlay, IInv, Typed, OverlayTyped, OperationTyped
  <2> QED
    BY <1>1, <2>1, <2>2, <2>3, <2>4 DEF Typed
<1>5. OperationLives' /\ LandedKnows' /\ ToldBefore' /\ PendingHasCall' /\ ConfirmedAsked'
  BY <1>1, <1>3
  DEF overlay, IInv, OperationLives, LandedKnows, ToldBefore, ConfirmedAsked, PendingHasCall
<1> QED
  BY <1>4, <1>5 DEF IInv

LEMMA NextKeepsInv == ASSUME IInv, [Next]_vars PROVE IInv'
<1>1. CASE Next
  <2>1. CASE Drag
    BY <2>1, SelectInv DEF Drag
  <2>2. CASE PickModel
    BY <2>2, SelectInv DEF PickModel
  <2>3. CASE \E sel \in Selection : OtherSelects(sel) \/ OthersChange(sel)
    BY <2>3, OtherSelectsInv, OthersChangeInv
  <2>4. CASE \E i \in DOMAIN calls : Lands(i) \/ Resume(i)
    BY <2>4, LandsInv, ResumeInv
  <2>5. CASE \E i \in DOMAIN calls, fate \in {"accepted", "refused", "failed"} : Answer(i, fate)
    BY <2>5, AnswerInv
  <2>6. CASE \E n \in DOMAIN host : Frame(n)
    BY <2>6, FrameInv
  <2>7. CASE GapOpens
    BY <2>7, GapOpensInv
  <2>8. CASE Reset
    BY <2>8, ResetInv
  <2>9. CASE Replace
    BY <2>9, ReplaceInv
  <2> QED
    BY <1>1, <2>1, <2>2, <2>3, <2>4, <2>5, <2>6, <2>7, <2>8, <2>9 DEF Next
<1>2. CASE UNCHANGED vars
  <2>1. UNCHANGED <<host, seen, gap, missed, up, calls, confirmed, observed, ignoredPending, active,
                    selectionError, operation, reframed, tells, spent>>
    BY <1>2 DEF vars, world, overlay
  <2>2. Typed'
    BY <2>1 DEF IInv, Typed, WorldTyped, UpTyped, CallsTyped, OverlayTyped, OperationTyped
  <2> QED
    BY <2>1, <2>2
    DEF IInv, OperationLives, LandedKnows, ToldBefore, ConfirmedAsked, Asked, PendingHasCall
<1> QED
  BY <1>1, <1>2

\* The overlay's invariant holds from the first step on.
THEOREM Invariant == Spec => []IInv
BY InitInv, NextKeepsInv, PTL DEF Spec

\* The state keeps its declared shape, and an operation is shown exactly while
\* its call is the current one (model-selection-directory.ts).
THEOREM TypeCorrect == Spec => []TypeOK
<1>1. IInv => TypeOK
  BY TypedIsTypeOK DEF IInv
<1> QED
  BY <1>1, Invariant, PTL

\* A pending selection is in view only while a call for it is on its way,
\* whatever frames, answers and other consumers do in between.
THEOREM PendingStaysLive == Spec => []PendingIsLive
<1>1. ASSUME IInv PROVE PendingIsLive
  <2>1. DOMAIN calls = 1..Len(calls) /\ Len(calls) \in Nat
    BY <1>1 DEF IInv, Typed, CallsTyped
  <2>2. CASE active # None
    BY <1>1, <2>1, <2>2 DEF IInv, Typed, OperationTyped, OperationLives, PendingIsLive, Pending
  <2>3. CASE active = None /\ up.pending \notin {None, ignoredPending}
    BY <1>1, <2>1, <2>3 DEF IInv, Typed, UpTyped, PendingHasCall, PendingIsLive, Pending, RawPending
  <2>4. CASE active = None /\ up.pending \in {None, ignoredPending}
    BY <2>4 DEF PendingIsLive, Pending, RawPending
  <2> QED
    BY <2>2, <2>3, <2>4
<1> QED
  BY <1>1, Invariant, PTL

\* What is shown while something is confirmed was selected for the session.
LEMMA ShownAskedNext == ASSUME IInv', confirmed' # None PROVE Shown' \in Asked'
<1>1. DOMAIN calls' = 1..Len(calls') /\ Len(calls') \in Nat
  BY DEF IInv, Typed, CallsTyped
<1>2. confirmed' \in Asked'
  BY DEF IInv, ConfirmedAsked
<1>3. active' # None => active' \in Asked'
  <2>1. active' # None => operation' \in DOMAIN calls' /\ calls'[operation'].sel = active'
    BY <1>1 DEF IInv, Typed, OperationTyped
  <2> QED
    BY <2>1 DEF Asked
<1>4. up'.pending # None => up'.pending \in Asked'
  <2>1. up'.pending # None => up'.newest \in DOMAIN calls' /\ calls'[up'.newest].sel = up'.pending
    BY <1>1 DEF IInv, Typed, UpTyped, PendingHasCall
  <2> QED
    BY <2>1 DEF Asked
<1>5. Pending' # None => Pending' \in Asked'
  BY <1>3, <1>4 DEF Pending, RawPending
<1> QED
  BY <1>2, <1>5 DEF Shown

LEMMA CallOf == ASSUME IInv, NEW i \in DOMAIN calls PROVE calls[i].sel \in Selection /\ calls[i].ver \in Nat
<1>1. calls[i] \in Call
  BY DEF IInv, Typed, CallsTyped
<1> QED
  BY <1>1 DEF Call

\* Only a reset or another directory forgets what is confirmed.
LEMMA ConfirmedStays ==
  ASSUME IInv, Next, confirmed # None, ~(Reset \/ Replace)
  PROVE  confirmed' # None
<1>1. CASE \E sel \in Selection : Select(sel) \/ OtherSelects(sel) \/ OthersChange(sel)
  BY <1>1 DEF Select, OtherSelects, OthersChange, overlay
<1>2. CASE \E i \in DOMAIN calls : Lands(i)
  BY <1>2 DEF Lands, overlay
<1>3. CASE \E i \in DOMAIN calls, fate \in {"accepted", "refused", "failed"} : Answer(i, fate)
  BY <1>3 DEF Answer, overlay
<1>4. CASE \E i \in DOMAIN calls : Resume(i)
  <2>1. PICK i \in DOMAIN calls : Resume(i)
    BY <1>4
  <2>2. calls[i].sel # None
    BY NotNone, CallOf
  <2> QED
    BY <2>1, <2>2, ResumeEffect DEF overlay
<1>5. CASE \E n \in DOMAIN host : Frame(n)
  BY <1>5, ProjectionEffect DEF Frame, overlay
<1>6. CASE GapOpens
  BY <1>6, ProjectionEffect DEF GapOpens, overlay
<1> QED
  BY <1>1, <1>2, <1>3, <1>4, <1>5, <1>6 DEF Next, Drag, PickModel

\* Through gaps, refused calls and late answers the seat shows a selection of
\* this session, never the global default the official directory falls back
\* to.
THEOREM Retained == Spec => RetainedThroughGaps
<1>1. ASSUME IInv, IInv', [Next]_vars
      PROVE  [confirmed # None /\ ~(Reset \/ Replace) => Shown' \in Asked']_vars
  <2>1. CASE Next
    BY <1>1, <2>1, ConfirmedStays, ShownAskedNext
  <2>2. CASE UNCHANGED vars
    BY <2>2
  <2> QED
    BY <1>1, <2>1, <2>2
<1> QED
  BY <1>1, Invariant, PTL DEF Spec, RetainedThroughGaps

\* What a completed call confirms is not older than what it replaces: an
\* answer that comes after a newer frame does not take the seat back.
THEOREM NeverBack == Spec => AnswersNeverGoBack
<1> DEFINE A == \A i \in DOMAIN calls :
                  calls[i].at # "done" /\ calls'[i].at = "done" => tells' >= tells
<1>1. ASSUME IInv, Next PROVE A
  <2>1. tells \in Nat
    BY <1>1 DEF IInv, Typed, OverlayTyped, WorldTyped
  <2>2. CASE tells' = tells
    BY <2>1, <2>2
  <2>3. CASE calls' = calls
    BY <2>3
  <2>4. CASE \E i \in DOMAIN calls : Resume(i)
    <3>1. PICK i \in DOMAIN calls : Resume(i)
      BY <2>4
    <3>2. \/ tells' = tells
          \/ /\ i = operation /\ calls[i].at = "accepted" /\ ~reframed /\ tells' = calls[i].ver
      BY <3>1, ResumeEffect DEF overlay
    <3>3. CASE i = operation /\ calls[i].at = "accepted" /\ ~reframed /\ tells' = calls[i].ver
      <4>1. operation # 0
        BY <1>1, <3>3 DEF IInv, Typed, CallsTyped
      <4>2. calls[i].ver > 0
        BY <1>1, <3>3 DEF IInv, LandedKnows
      <4>3. tells <= calls[i].ver
        BY <1>1, <3>3, <4>1, <4>2 DEF IInv, ToldBefore
      <4>4. calls[i].ver \in Nat
        BY <1>1, CallOf
      <4> QED
        BY <2>1, <3>3, <4>3, <4>4
    <3> QED
      BY <2>2, <3>2, <3>3
  <2>5. CASE \E sel \in Selection : Select(sel) \/ OtherSelects(sel) \/ OthersChange(sel)
    BY <2>2, <2>5 DEF Select, OtherSelects, OthersChange, overlay
  <2>6. CASE \E i \in DOMAIN calls : Lands(i)
    BY <2>2, <2>6 DEF Lands, overlay
  <2>7. CASE \E i \in DOMAIN calls, fate \in {"accepted", "refused", "failed"} : Answer(i, fate)
    BY <2>2, <2>7 DEF Answer, overlay
  <2>8. CASE (\E n \in DOMAIN host : Frame(n)) \/ GapOpens \/ Reset \/ Replace
    BY <2>3, <2>8 DEF Frame, GapOpens, Reset, Replace
  <2> HIDE DEF A
  <2> QED
    BY <1>1, <2>4, <2>5, <2>6, <2>7, <2>8 DEF Next, Drag, PickModel
<1>2. ASSUME IInv, [Next]_vars PROVE [A]_vars
  <2> HIDE DEF A
  <2> QED
    BY <1>1, <1>2
<1> QED
  BY <1>2, Invariant, PTL DEF Spec, AnswersNeverGoBack
=============================================================================
