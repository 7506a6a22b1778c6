------------------------- MODULE SelectionDirectory -------------------------
(***************************************************************************)
(* The selection directory of one session                                  *)
(* (src/compat/model-selection-directory.ts), with the resolver that makes *)
(* and replaces it (src/compat/model-directory.ts) and the model seat that *)
(* drives it (src/client/thinking-slider/slider.tsx).                      *)
(*                                                                         *)
(* The session's selection lives in the Host.  It reaches the Client as    *)
(* frames of a projection, which arrive in order but late, may be skipped, *)
(* and go missing altogether for a while (a gap).  In a gap the official   *)
(* directory falls back to the global default; the overlay modelled here   *)
(* keeps what was confirmed.  Selections travel through the official       *)
(* directory, which shows them as pending, applies only its newest answer, *)
(* and stays stuck on a call whose transport failed.                       *)
(*                                                                         *)
(* A call is an operation of this overlay (`own`) or of another consumer   *)
(* of the same official directory.  A transport failure of another         *)
(* consumer's call is left out: the seat then shows what that consumer     *)
(* left pending, with or without the overlay.                              *)
(***************************************************************************)
EXTENDS Integers, Sequences, Functions

CONSTANTS
  Selection,   \* the catalog: [model, effort] records
  None,        \* no selection
  Default,     \* the global default selection
  Initial,     \* the selection the session starts with
  MaxCalls,    \* bound: select calls of this seat and of other consumers
  MaxOthers,   \* bound: changes made by other clients
  MaxBreaks    \* bound: gaps, connection resets and replaced directories

ASSUME DirectoryConstants ==
  /\ None \notin Selection
  /\ {Default, Initial} \subseteq Selection
  /\ {MaxCalls, MaxOthers, MaxBreaks} \subseteq Nat

VARIABLES
  host,     \* the selections the Host has had for the session, in order
  seen,     \* the one the last frame told of
  gap,      \* the projection says nothing at the moment
  up,       \* the official directory: pending, status, its newest call
  calls,    \* the select calls under way, by number
  confirmed, observed, ignoredPending, active, selectionError,
  operation,  \* the call whose generation is the current one, 0 when none
  reframed,   \* projectionRevision moved since that call was made
  tells,    \* history: which of `host` confirmed tells of, 0 when none
  missed,   \* history: a selection of the Host no frame told of
  spent

overlay == <<confirmed, observed, ignoredPending, active, selectionError, operation,
             reframed, tells>>
world == <<host, seen, gap, missed>>
vars == <<world, up, calls, overlay, spent>>

Current == host[Len(host)]
Next0(isGap, n) == IF isGap \/ n = 0 THEN None ELSE host[n]
Projected == Next0(gap, seen)

Call == [sel : Selection, own : BOOLEAN, ver : Nat,
         at : {"sent", "landed", "accepted", "refused", "failed", "done"}]

\* read: the published state of the overlay.
RawPending == up.pending
Pending == IF active # None THEN active
           ELSE IF RawPending = ignoredPending THEN None ELSE RawPending
RawCurrent == IF Projected # None THEN Projected ELSE Default
Shown == IF Pending # None THEN Pending
         ELSE IF confirmed # None THEN confirmed ELSE RawCurrent
Status == IF selectionError THEN "error" ELSE up.status

\* What anybody ever selected for the session.
Asked == Range(host) \union {calls[i].sel : i \in DOMAIN calls}

\* createSelectionDirectory.
Fresh(next, n) ==
  /\ confirmed' = next /\ observed' = next /\ tells' = IF next = None THEN 0 ELSE n
  /\ ignoredPending' = None /\ active' = None
  /\ operation' = 0 /\ reframed' = FALSE /\ selectionError' = FALSE

Init ==
  /\ host = <<Initial>> /\ missed = FALSE
  /\ gap \in BOOLEAN /\ seen = IF gap THEN 0 ELSE 1
  /\ up = [pending |-> None, status |-> "ready", newest |-> 0]
  /\ calls = <<>>
  /\ confirmed = Projected /\ observed = Projected /\ tells = seen
  /\ ignoredPending = None /\ active = None /\ selectionError = FALSE
  /\ operation = 0 /\ reframed = FALSE
  /\ spent = [others |-> 0, breaks |-> 0]

----------------------------------------------------------------------------
(* The two subscriptions.                                                  *)

\* The official directory published.
DirectoryChanges(pending, status) ==
  LET superseded == active # None /\ pending \notin {None, active}
      over == \/ pending # ignoredPending /\ pending # None
              \/ pending = None /\ status # "selecting"
  IN /\ ignoredPending' = IF pending = ignoredPending THEN ignoredPending ELSE None
     /\ selectionError' = (selectionError /\ ~over)
     /\ active' = IF superseded THEN None ELSE active
     /\ operation' = IF superseded THEN 0 ELSE operation

\* A mutant of FrameCounts: a frame without a selection clears the one held.
FrameCountsAlways(next) == next # observed

FrameCounts(next) ==
  /\ next # None
  /\ \/ next # observed
     \/ RawPending = next /\ next # confirmed

\* A mutant of Ignored: the call a frame overtook stays in view.
IgnoredNever(next) == ignoredPending

Ignored(next) ==
  IF RawPending \notin {None, next} THEN RawPending ELSE ignoredPending

\* The projection published `next`, the Host's n-th selection.
ProjectionChanges(next, n) ==
  IF ~FrameCounts(next) THEN UNCHANGED overlay
  ELSE /\ observed' = next /\ confirmed' = next /\ tells' = IF next = None THEN 0 ELSE n
       /\ selectionError' = FALSE
       /\ reframed' = TRUE
       /\ ignoredPending' = Ignored(next)
       /\ LET superseded == active \notin {None, next}
          IN /\ operation' = IF superseded THEN 0 ELSE operation
             /\ active' = IF superseded THEN None ELSE active

----------------------------------------------------------------------------
(* Selecting.                                                              *)

Sent(sel, own) == calls' = Append(calls, [sel |-> sel, own |-> own, ver |-> 0, at |-> "sent"])

UpSelects(sel) == up' = [pending |-> sel, status |-> "selecting", newest |-> Len(calls) + 1]

\* select, up to its await: the official directory publishes `selecting`
\* synchronously inside the call, and the subscription above runs.
Select(sel) ==
  /\ Len(calls) < MaxCalls
  /\ Sent(sel, TRUE)
  /\ UpSelects(sel)
  /\ operation' = Len(calls) + 1 /\ reframed' = FALSE
  /\ active' = sel /\ selectionError' = FALSE /\ ignoredPending' = None
  /\ UNCHANGED <<world, confirmed, observed, tells, spent>>

\* The seat's range: an effort of the model that is shown.  It is not held
\* back by a selection in flight.
Drag == \E sel \in Selection : sel.model = Shown.model /\ Select(sel)

\* The seat's menu, disabled while the directory is selecting.
PickModel == Status # "selecting" /\ \E sel \in Selection : Select(sel)

\* Another consumer of the official directory.
OtherSelects(sel) ==
  /\ Len(calls) < MaxCalls
  /\ Sent(sel, FALSE)
  /\ UpSelects(sel)
  /\ DirectoryChanges(sel, "selecting")
  /\ UNCHANGED <<world, confirmed, observed, reframed, tells, spent>>

\* The Host takes the calls in the order they were sent.
Lands(i) ==
  /\ calls[i].at = "sent"
  /\ \A j \in 1..(i - 1) : calls[j].at # "sent"
  /\ calls' = [calls EXCEPT ![i].at = "landed", ![i].ver = Len(host) + 1]
  /\ host' = Append(host, calls[i].sel)
  /\ UNCHANGED <<seen, gap, missed, up, overlay, spent>>

\* What the official directory makes of the answer to its newest call.
Settled(fate) ==
  CASE fate = "accepted" -> [up EXCEPT !.pending = None, !.status = "ready"]
    [] fate = "refused" -> [up EXCEPT !.pending = None, !.status = "error"]
    [] OTHER -> up

\* The answer arrives at the official directory, which publishes before the
\* overlay's own continuation runs.
Answer(i, fate) ==
  /\ \/ calls[i].at = "landed" /\ fate = "accepted"
     \/ calls[i].at = "sent" /\ fate = "refused"
     \/ calls[i].at \in {"sent", "landed"} /\ fate = "failed" /\ calls[i].own
  /\ calls' = [calls EXCEPT ![i].at = IF calls[i].own THEN fate ELSE "done"]
  /\ IF i = up.newest /\ fate # "failed"
     THEN /\ up' = Settled(fate)
          /\ DirectoryChanges(None, Settled(fate).status)
          /\ UNCHANGED <<confirmed, observed, reframed, tells>>
     ELSE UNCHANGED <<up, overlay>>
  /\ UNCHANGED <<world, spent>>

\* A mutant of IsCurrent: every answer counts, also an older call's.
IsCurrentAlways(i) == TRUE

IsCurrent(i) == i = operation

\* A mutant of RollsBack: the failed call's pending stays in view.
RollsBackNot(c) == UNCHANGED <<ignoredPending>> /\ selectionError' = (c.at = "failed")

RollsBack(c) ==
  /\ ignoredPending' = IF RawPending = c.sel THEN RawPending ELSE ignoredPending
  /\ selectionError' = (c.at = "failed")

\* select, after its await.
Resume(i) ==
  LET c == calls[i]
  IN /\ c.own /\ c.at \in {"accepted", "refused", "failed"}
     /\ calls' = [calls EXCEPT ![i].at = "done"]
     /\ IF ~IsCurrent(i) THEN UNCHANGED overlay
        ELSE /\ IF c.at = "accepted" THEN UNCHANGED <<ignoredPending, selectionError>>
                                     ELSE RollsBack(c)
             /\ IF c.at = "accepted" /\ ~reframed
                THEN confirmed' = c.sel /\ tells' = c.ver
                ELSE UNCHANGED <<confirmed, tells>>
             /\ active' = None /\ operation' = 0
             /\ UNCHANGED <<observed, reframed>>
     /\ UNCHANGED <<world, up, spent>>

----------------------------------------------------------------------------
(* The projection, the connection and the resolver.                        *)

\* A frame: the selection told of already (another field of the projection
\* changed), the next one, or one past selections no frame ever told of.
Frame(n) ==
  /\ n \in seen..Len(host) /\ n > 0
  /\ seen' = n /\ gap' = FALSE
  /\ missed' = (missed \/ n > seen + 1)
  /\ ProjectionChanges(host[n], n)
  /\ UNCHANGED <<host, up, calls, spent>>

Break == spent.breaks < MaxBreaks /\ spent' = [spent EXCEPT !.breaks = @ + 1]

\* The frame of a selection is replaced by one without.
GapOpens ==
  /\ Break /\ ~gap
  /\ gap' = TRUE
  /\ ProjectionChanges(None, 0)
  /\ UNCHANGED <<host, seen, missed, up, calls>>

\* connection/reset: the official directory starts over, calls under way are
\* answered to nobody, and every live overlay is reset.
Reset ==
  /\ Break
  /\ up' = [pending |-> None, status |-> "ready", newest |-> 0]
  /\ gap' = TRUE /\ seen' = Len(host) /\ missed' = FALSE
  /\ operation' = 0
  /\ confirmed' = None /\ observed' = None /\ tells' = 0
  /\ ignoredPending' = None /\ selectionError' = FALSE /\ active' = None
  /\ UNCHANGED <<host, calls, reframed>>

\* The resolver finds another official directory for the session: it disposes
\* of the overlay, whose calls come to nothing as they do when the session
\* closes, and makes a new one.
Replace ==
  /\ Break
  /\ up' = [pending |-> None, status |-> "ready", newest |-> 0]
  /\ Fresh(Projected, seen)
  /\ missed' = FALSE
  /\ UNCHANGED <<host, seen, gap, calls>>

OthersChange(sel) ==
  /\ spent.others < MaxOthers
  /\ spent' = [spent EXCEPT !.others = @ + 1]
  /\ host' = Append(host, sel)
  /\ UNCHANGED <<seen, gap, missed, up, calls, overlay>>

Next ==
  \/ Drag
  \/ PickModel
  \/ \E sel \in Selection : OtherSelects(sel) \/ OthersChange(sel)
  \/ \E i \in DOMAIN calls :
       \/ Lands(i)
       \/ \E fate \in {"accepted", "refused", "failed"} : Answer(i, fate)
       \/ Resume(i)
  \/ \E n \in DOMAIN host : Frame(n)
  \/ GapOpens
  \/ Reset
  \/ Replace

Spec == Init /\ [][Next]_vars

\* Every call is answered, every answer reaches its caller, and the projection
\* catches up with the Host.
FairSpec ==
  /\ Spec
  /\ WF_vars(\E i \in DOMAIN calls, fate \in {"accepted", "refused", "failed"} : Answer(i, fate))
  /\ WF_vars(\E i \in DOMAIN calls : Resume(i))
  /\ WF_vars(\E n \in DOMAIN host : (gap \/ n > seen) /\ Frame(n))

----------------------------------------------------------------------------
(* What the directory promises.                                            *)

\* The declared shape, with what relates its parts: an operation is shown
\* exactly while its call is the current one.
TypeOK ==
  /\ host \in Seq(Selection) /\ seen \in 0..Len(host)
  /\ gap \in BOOLEAN /\ missed \in BOOLEAN
  /\ selectionError \in BOOLEAN /\ reframed \in BOOLEAN
  /\ up \in [pending : Selection \union {None}, status : {"ready", "selecting", "error"},
             newest : 0..Len(calls)]
  /\ calls \in Seq(Call)
  /\ operation \in 0..Len(calls) /\ (operation = 0 <=> active = None)
  /\ operation # 0 => calls[operation].sel = active /\ calls[operation].own
  /\ \A i \in DOMAIN calls : calls[i].ver <= Len(host)
  /\ confirmed \in Selection \union {None} /\ observed \in Selection \union {None}
  /\ ignoredPending \in Selection \union {None} /\ active \in Selection \union {None}
  /\ tells \in 0..Len(host) /\ (tells = 0 <=> confirmed = None)
  /\ spent \in [others : 0..MaxOthers, breaks : 0..MaxBreaks]

\* Once a frame or an accepted call has told what the session's selection is,
\* the seat shows something that was selected for this session, through every
\* gap of the projection, refused call and late answer: never the global
\* default, whose effort scale a drag would then be submitted with.  Only a new
\* connection or another directory makes the overlay forget.
RetainedThroughGaps ==
  [][confirmed # None /\ ~(Reset \/ Replace) => Shown' \in Asked']_vars

\* A pending selection is in view only while a call for it is on its way: a
\* refused or failed call, a frame or another client's change that overtakes
\* it, and a reset all take it out of view, although the official directory
\* may hold it for ever.
PendingIsLive ==
  Pending # None =>
    \E i \in DOMAIN calls : calls[i].sel = Pending /\ calls[i].at # "done"

\* An answer never takes the seat back: what a completed call confirms is not
\* older than what it replaces.
AnswersNeverGoBack ==
  [][\A i \in DOMAIN calls :
       calls[i].at # "done" /\ calls'[i].at = "done" => tells' >= tells]_vars

\* Once calls are answered and the projection has caught up, the seat shows
\* the Host's selection and no other, unless a frame was skipped: a value that
\* came back unseen cannot be told from an echo.
SeatConverges == <>[](missed \/ Shown = Current)
=============================================================================
