--------------------------- MODULE SettingsPageProofs ---------------------------
(***************************************************************************)
(* Proofs about the settings page, for any fields, leaves and values, any  *)
(* number of reads and saves under way, and any bounds.  The marks tell    *)
(* what is true: what is marked is the user's last edit, and an edit that  *)
(* is not marked has been saved or has lapsed.                             *)
(***************************************************************************)
EXTENDS SettingsPage, TLAPS

----------------------------------------------------------------------------
(* Types.                                                                  *)

\* Whatever a cell holds, as it is stored, shown or typed.
Held == Values \union {Unusable}
          \union {"absent", "true", "false", "auto", "supported", "unsupported",
                  "thinking_budget", "7", "1.5"}

Doc == [cells : [Cells -> Held], api : Apis]
Panel == [view : [PanelCells -> Held], api : Apis, draft : [PanelCells -> Held],
          marked : SUBSET Guarded, busy : BOOLEAN, nsFound : BOOLEAN]
FormatDraft == [FormatKeys -> Held]
Spent == [edits : Nat, saves : Nat, others : Nat]

IsRead(r) ==
  /\ r \in [to : {"panel", "card"}, at : {"asked", "answered"}, snap : Doc \union FormatDraft \union {None}]
  /\ r.at = "answered" => IF r.to = "card" THEN r.snap \in FormatDraft ELSE r.snap \in Doc

Groups == Rows \union Leaves
PartOf(V) == UNION {[D -> V] : D \in SUBSET PanelCells}

IsSave(s) ==
  /\ s \in [group : Groups, writes : PartOf(Held), form : BOOLEAN, at : {"sent", "landed"},
            draft : PartOf(Held), edits : PartOf(Held \union {None}), answer : Doc \union {None}]
  /\ DOMAIN s.draft = InGroup(s.group) /\ DOMAIN s.edits = InGroup(s.group)
  /\ DOMAIN s.writes \subseteq InGroup(s.group)
  /\ s.at = "landed" => s.answer \in Doc

PanelTypeOK ==
  /\ doc \in Doc
  /\ panel \in Panel
  /\ \A r \in reads : IsRead(r)
  /\ \A s \in saves : IsSave(s)
  /\ unsaved \in [Cells -> Held \union {None}]
  /\ lapsed \in SUBSET PanelCells
  /\ moved \in BOOLEAN
  /\ spent \in Spent

Drafted == [saved : FormatDraft, draft : FormatDraft, busy : BOOLEAN]
Applies == [at : {"idle", "asked", "answered", "sent", "landed"}, snap : FormatDraft \union {None},
            draft : FormatDraft \union {None}, ops : SUBSET FormatKeys, fresh : BOOLEAN,
            since : SUBSET FormatKeys]

CardTypeOK ==
  /\ card \in Drafted
  /\ apply \in Applies
  /\ apply.at \in {"answered", "landed"} => apply.snap \in FormatDraft
  /\ apply.at = "sent" => apply.draft \in FormatDraft

PageTypeOK == PanelTypeOK /\ CardTypeOK

----------------------------------------------------------------------------
(* The invariant.                                                          *)

\* What is marked is the user's last edit, and on screen.
MarkedIsEdited ==
  \A c \in panel.marked : unsaved[c] # None /\ panel.draft[c] = unsaved[c]

\* An edit that is not saved has kept its mark, or has lapsed.
EditedIsMarked ==
  \A c \in Guarded \ lapsed : unsaved[c] # None => c \in panel.marked

\* Where there are no rows, nothing of a row is marked.
RowlessUnmarked == ~panel.nsFound => panel.marked \cap Rowed = {}

\* What a save will unmark is what it was clicked for.
SavesMatchEdits ==
  \A s \in saves : \A c \in (InGroup(s.group) \cap Guarded) \ lapsed :
    unsaved[c] # None => unsaved[c] = s.draft[c]

\* As long as the route's protocol is the one the page began with, every copy of
\* it is that one, and nothing that is marked or on its way is not offered.
Unmoved ==
  ~moved =>
    /\ panel.api = doc.api
    /\ \A r \in reads : r.to = "panel" /\ r.at = "answered" => r.snap.api = doc.api
    /\ \A s \in saves : s.at = "landed" => s.answer.api = doc.api
    /\ \A c \in panel.marked \cap Compat : c[2] \in Offered(doc.api)
    /\ \A s \in saves : \A c \in DOMAIN s.writes \cap Compat : c[2] \in Offered(doc.api)

\* As long as no revision has come between, the section is what the apply read,
\* and what its batch leaves out is stored already.
FenceHolds ==
  apply.fresh =>
    /\ apply.at = "answered" => apply.snap = FormatOf(doc)
    /\ apply.at = "sent" => \A k \in FormatKeys \ apply.ops : apply.draft[k] = doc.cells[<<"format", k>>]

\* The fields that are not drafted anew are on screen as the batch was made of them,
\* and, when it has landed, as it left them.
ScreenHolds ==
  \A k \in FormatKeys \ apply.since :
    /\ apply.at = "sent" => card.draft[k] = apply.draft[k]
    /\ apply.at = "landed" => card.draft[k] = apply.snap[k]

EditsInv == MarkedIsEdited /\ EditedIsMarked /\ RowlessUnmarked /\ SavesMatchEdits /\ SavesWriteOnlyEdits
IInv == PageTypeOK /\ EditsInv /\ Unmoved /\ FenceHolds /\ ScreenHolds

----------------------------------------------------------------------------
(* Cells and what they hold.                                               *)

LEMMA CellFacts ==
  /\ PanelCells \subseteq Cells /\ Guarded \subseteq PanelCells
  /\ \A c \in PanelCells : c[1] \in Groups /\ c = <<c[1], c[2]>>
  /\ \A c \in PanelCells : c \in Compat <=> c[1] \in Rows
  /\ \A c \in Compat : c[2] \in Fields /\ c \in Guarded
  /\ \A c \in PanelCells : c[1] = "toggle" => c \notin Guarded
<1>1. /\ Rows \subseteq {"provider", "model"}
      /\ Leaves \subseteq {"ratio", "route", "effort", "toggle"}
  BY PageConstants
<1>2. \A c \in Compat : c[1] \in Rows /\ c[2] \in Fields /\ c = <<c[1], c[2]>>
  BY DEF Compat
<1>3. \A c \in Leaf : c[1] \in Leaves /\ c = <<c[1], c[2]>>
  BY DEF Leaf
<1>4. PanelCells = Compat \union Leaf /\ PanelCells \subseteq Cells
  BY DEF PanelCells, Cells
<1>5. \A c \in PanelCells : c \in Guarded <=> c[1] \in {"provider", "model", "ratio", "route"}
  BY DEF Guarded
<1>6. Guarded \subseteq PanelCells
  BY DEF Guarded
<1>7. \A c \in PanelCells : c \in Compat <=> c[1] \in Rows
  BY <1>1, <1>2, <1>3, <1>4
<1>8. \A c \in Compat : c[2] \in Fields /\ c \in Guarded
  BY <1>1, <1>2, <1>4, <1>5
<1>9. \A c \in PanelCells : c[1] = "toggle" => c \notin Guarded
  BY <1>5
<1> QED
  BY <1>2, <1>3, <1>4, <1>6, <1>7, <1>8, <1>9 DEF Groups

\* The format is in the section of the leaves, in cells of its own.
LEMMA FormatCells ==
  ASSUME NEW k \in FormatKeys
  PROVE  <<"format", k>> \in Cells \ Compat /\ <<"format", k>> \notin PanelCells
BY PageConstants DEF PanelCells, Cells, Compat, Leaf, Format

LEMMA HeldClosed ==
  /\ \A v \in Held : Selection(v) \in Held /\ StoredAs(v) \in Held
  /\ \A f \in Fields : Selections(f) \subseteq Held \ {None} /\ Stored(f) \subseteq Held
  /\ \A c : Typed(c) \subseteq Held \ {None}
  /\ Values \subseteq Held /\ "absent" \in Held
<1>1. \A v \in Held : Selection(v) \in Held /\ StoredAs(v) \in Held
  BY DEF Held, Selection, StoredAs
<1>2. ASSUME NEW f \in Fields PROVE Selections(f) \subseteq Held \ {None} /\ Stored(f) \subseteq Held
  <2>1. Kind[f] \in {"boolean", "enum", "number"}
    BY FieldsAreRegistered DEF Kind
  <2>2. Selections(f) \subseteq Held
    BY <2>1 DEF Selections, Held
  <2>3. None \notin Selections(f)
    BY PageConstants
  <2>4. Stored(f) \subseteq Held
    BY <1>1, <2>2 DEF Stored
  <2> QED
    BY <2>2, <2>3, <2>4
<1>3. \A c : Typed(c) \subseteq Held \ {None}
  BY PageConstants DEF Typed, Held
<1> QED
  BY <1>1, <1>2, <1>3 DEF Held

LEMMA ViewType ==
  ASSUME NEW d \in Doc PROVE View(d) \in [PanelCells -> Held] /\ FormatOf(d) \in FormatDraft
BY CellFacts, FormatCells, HeldClosed DEF View, FormatOf, Doc, FormatDraft

LEMMA SpentType ==
  ASSUME PanelTypeOK, NEW what \in {"edits", "saves", "others"}, NEW bound, Spend(what, bound)
  PROVE  spent' \in Spent
<1>1. spent[what] \in Nat
  BY DEF PanelTypeOK, Spent
<1>2. spent' = [spent EXCEPT ![what] = spent[what] + 1]
  BY DEF Spend
<1> DEFINE n == spent[what] + 1
<1>3. n \in Nat
  BY <1>1
<1> HIDE DEF n
<1>4. [spent EXCEPT ![what] = n] \in Spent
  BY <1>3 DEF PanelTypeOK, Spent
<1> QED
  BY <1>2, <1>4 DEF n

\* A read that lands leaves the marks, and what is marked.
LEMMA RebuiltKeeps ==
  ASSUME NEW p \in Panel, NEW d \in Doc, NEW read, NEW rebuilt
  PROVE  /\ Rebuilt(p, d, read, rebuilt) \in Panel
         /\ Rebuilt(p, d, read, rebuilt).marked = p.marked
         /\ Rebuilt(p, d, read, rebuilt).nsFound = p.nsFound
         /\ Rebuilt(p, d, read, rebuilt).api \in {p.api, d.api}
         /\ \A c \in p.marked : Rebuilt(p, d, read, rebuilt).draft[c] = p.draft[c]
<1> DEFINE view == [c \in PanelCells |-> IF c \in read THEN View(d)[c] ELSE p.view[c]]
<1> DEFINE api == IF Compat \subseteq read THEN d.api ELSE p.api
<1> DEFINE draft == [c \in PanelCells |-> IF c \in rebuilt /\ ~Kept(p, c) THEN view[c] ELSE p.draft[c]]
<1>1. p.view \in [PanelCells -> Held] /\ p.draft \in [PanelCells -> Held] /\ p.marked \in SUBSET Guarded
  BY DEF Panel
<1>2. view \in [PanelCells -> Held]
  BY <1>1, ViewType
<1>3. draft \in [PanelCells -> Held]
  BY <1>1, <1>2
<1>4. \A c \in p.marked : draft[c] = p.draft[c]
  BY <1>1, CellFacts DEF Kept
<1>5. api \in Apis /\ api \in {p.api, d.api}
  BY DEF Panel, Doc
<1>6. Rebuilt(p, d, read, rebuilt) =
        [p EXCEPT !.view = view, !.api = api, !.draft = draft, !.busy = FALSE]
  BY DEF Rebuilt, Panel
<1> HIDE DEF view, api, draft
<1> QED
  BY <1>2, <1>3, <1>4, <1>5, <1>6 DEF Panel

\* Whether there are rows is of no account to what is marked and shown.
LEMMA FoundKeeps ==
  ASSUME NEW p \in Panel, NEW found \in BOOLEAN
  PROVE  LET q == [p EXCEPT !.nsFound = found]
         IN  q \in Panel /\ q.nsFound = found /\ q.marked = p.marked /\ q.draft = p.draft /\ q.api = p.api
BY DEF Panel

\* Without the shared section, the marks of the rows go; what else is marked stays.
LEMMA RowlessKeeps ==
  ASSUME NEW p \in Panel
  PROVE  /\ Rowless(p) \in Panel
         /\ Rowless(p).marked = p.marked \ Rowed
         /\ Rowless(p).api = p.api
         /\ \A c \in p.marked \ Rowed : Rowless(p).draft[c] = p.draft[c]
<1> DEFINE draft == [c \in PanelCells |-> IF c \in Leaf /\ c[1] # "route" THEN Initially ELSE p.draft[c]]
<1> DEFINE rest == p.marked \ Rowed
<1>1. p.draft \in [PanelCells -> Held] /\ p.marked \in SUBSET Guarded
  BY DEF Panel
<1>2. Initially \in Held
  BY PageConstants DEF Initially, Held
<1>3. draft \in [PanelCells -> Held]
  BY <1>1, <1>2
<1>4. \A c \in rest : draft[c] = p.draft[c]
  <2> SUFFICES ASSUME NEW c \in rest PROVE draft[c] = p.draft[c]
    OBVIOUS
  <2>1. c \in PanelCells /\ c \in Guarded /\ c \notin Rowed
    BY <1>1, CellFacts
  <2>2. c[1] = "route"
    BY <2>1 DEF Guarded, Rowed
  <2> QED
    BY <2>1, <2>2
<1>5. \E found \in BOOLEAN : Rowless(p) = [p EXCEPT !.nsFound = found, !.marked = rest, !.draft = draft]
  BY DEF Rowless
<1>6. PICK found \in BOOLEAN : Rowless(p) = [p EXCEPT !.nsFound = found, !.marked = rest, !.draft = draft]
  BY <1>5
<1>7. rest \in SUBSET Guarded
  BY <1>1
<1>8. rest = p.marked \ Rowed
  OBVIOUS
<1> HIDE DEF draft, rest
<1> QED
  BY <1>1, <1>3, <1>4, <1>6, <1>7, <1>8 DEF Panel

LEMMA SettledKeeps ==
  ASSUME NEW p \in Panel, NEW s, IsSave(s)
  PROVE  /\ Settled(p, s) \in Panel
         /\ Settled(p, s).marked = p.marked \ InGroup(s.group)
         /\ Settled(p, s).api = p.api /\ Settled(p, s).nsFound = p.nsFound
         /\ \A c \in p.marked \ InGroup(s.group) : Settled(p, s).draft[c] = p.draft[c]
<1> DEFINE draft == [c \in PanelCells |->
               IF c \in InGroup(s.group) /\ c \in Guarded \ Compat THEN s.draft[c] ELSE p.draft[c]]
<1>1. p.draft \in [PanelCells -> Held] /\ p.marked \in SUBSET Guarded
  BY DEF Panel
<1>2. s.draft \in [InGroup(s.group) -> Held]
  BY DEF IsSave, PartOf
<1>3. draft \in [PanelCells -> Held]
  BY <1>1, <1>2
<1>4. \A c \in p.marked \ InGroup(s.group) : draft[c] = p.draft[c]
  BY <1>1, CellFacts
<1>5. Settled(p, s) = [p EXCEPT !.marked = p.marked \ InGroup(s.group), !.draft = draft]
  BY DEF Settled, Panel
<1> HIDE DEF draft
<1> QED
  BY <1>1, <1>3, <1>4, <1>5 DEF Panel

----------------------------------------------------------------------------
(* What the steps have in common.                                          *)

PInv == PanelTypeOK /\ EditsInv /\ Unmoved

LEMMA AskedIsRead ==
  ASSUME NEW who \in {"panel", "card"} PROVE IsRead(Asked(who)) /\ Asked(who).at = "asked"
BY DEF IsRead, Asked

\* The edits stay as they are: nothing is marked or unmarked, what is marked is
\* left on screen, and the saves are those there were, wherever they stand.
LEMMA EditsStay ==
  ASSUME PInv, panel' \in Panel, panel'.marked = panel.marked, panel'.nsFound \/ ~panel.nsFound,
         \A c \in panel.marked : panel'.draft[c] = panel.draft[c],
         \A s2 \in saves' : \E s1 \in saves :
           s2.group = s1.group /\ s2.writes = s1.writes /\ s2.draft = s1.draft /\ s2.edits = s1.edits,
         UNCHANGED <<unsaved, lapsed>>
  PROVE  EditsInv'
<1>1. MarkedIsEdited'
  BY DEF PInv, EditsInv, MarkedIsEdited
<1>2. EditedIsMarked'
  BY DEF PInv, EditsInv, EditedIsMarked
<1>3. SavesMatchEdits'
  <2> SUFFICES ASSUME NEW s2 \in saves', NEW c \in (InGroup(s2.group) \cap Guarded) \ lapsed,
                      unsaved[c] # None
               PROVE  unsaved[c] = s2.draft[c]
    BY DEF SavesMatchEdits
  <2>1. PICK s1 \in saves : s2.group = s1.group /\ s2.draft = s1.draft
    OBVIOUS
  <2> QED
    BY <2>1 DEF PInv, EditsInv, SavesMatchEdits
<1>4. SavesWriteOnlyEdits'
  <2> SUFFICES ASSUME NEW s2 \in saves', NEW c \in DOMAIN s2.writes \cap Guarded
               PROVE  /\ s2.edits[c] # None
                      /\ s2.writes[c] = IF c \in Compat THEN StoredAs(s2.edits[c]) ELSE s2.edits[c]
    BY DEF SavesWriteOnlyEdits
  <2>1. PICK s1 \in saves : s2.writes = s1.writes /\ s2.edits = s1.edits
    OBVIOUS
  <2> QED
    BY <2>1 DEF PInv, EditsInv, SavesWriteOnlyEdits
<1>5. RowlessUnmarked'
  BY DEF PInv, EditsInv, RowlessUnmarked
<1> QED
  BY <1>1, <1>2, <1>3, <1>4, <1>5 DEF EditsInv

----------------------------------------------------------------------------
(* Reads.                                                                  *)

LEMMA ReadSampledKeeps ==
  ASSUME PInv, NEW r \in reads, ReadSampled(r) PROVE PInv'
<1> DEFINE snap == IF r.to = "card" THEN FormatOf(doc) ELSE doc
<1> DEFINE r2 == [r EXCEPT !.at = "answered", !.snap = snap]
<1>1. IsRead(r) /\ doc \in Doc
  BY DEF PInv, PanelTypeOK
<1>2. FormatOf(doc) \in FormatDraft
  BY <1>1, ViewType
<1>3. IsRead(r2) /\ r2.to = r.to /\ (r.to = "panel" => r2.snap = doc)
  BY <1>1, <1>2 DEF IsRead
<1>4. reads' = (reads \ {r}) \union {r2} /\ UNCHANGED <<doc, panel, saves, unsaved, lapsed, moved, spent>>
  BY DEF ReadSampled
<1> HIDE DEF r2
<1>5. PanelTypeOK'
  BY <1>3, <1>4 DEF PInv, PanelTypeOK
<1>6. EditsInv'
  BY <1>4, EditsStay DEF PInv, PanelTypeOK
<1>7. Unmoved'
  BY <1>3, <1>4 DEF PInv, Unmoved
<1> QED
  BY <1>5, <1>6, <1>7 DEF PInv

LEMMA PanelReadsKeeps ==
  ASSUME PInv, NEW r \in reads, PanelReads(r) PROVE PInv'
<1> DEFINE q == Asked("card")
<1> DEFINE p == [panel EXCEPT !.nsFound = TRUE]
<1>1. /\ panel' = Rebuilt(p, r.snap, PanelCells, PanelCells)
      /\ reads' = (reads \ {r}) \union {q} /\ UNCHANGED <<doc, saves, unsaved, lapsed, moved, spent>>
      /\ r.to = "panel" /\ r.at = "answered"
  BY DEF PanelReads
<1>2. r.snap \in Doc /\ p \in Panel /\ p.nsFound /\ p.marked = panel.marked /\ p.draft = panel.draft /\ p.api = panel.api
  BY <1>1, FoundKeeps DEF PInv, PanelTypeOK, IsRead
<1> HIDE DEF p
<1>3. /\ panel' \in Panel /\ panel'.marked = panel.marked /\ panel'.nsFound
      /\ panel'.api \in {panel.api, r.snap.api}
      /\ \A c \in panel.marked : panel'.draft[c] = panel.draft[c]
  BY <1>1, <1>2, RebuiltKeeps
<1>4. IsRead(q) /\ q.at = "asked"
  BY AskedIsRead
<1> HIDE DEF q
<1>5. PanelTypeOK'
  BY <1>1, <1>3, <1>4 DEF PInv, PanelTypeOK
<1>6. EditsInv'
  BY <1>1, <1>3, EditsStay
<1>7. Unmoved'
  BY <1>1, <1>3, <1>4 DEF PInv, Unmoved
<1> QED
  BY <1>5, <1>6, <1>7 DEF PInv

\* What loses its mark to a description without the shared section has lapsed.
LEMMA PanelReadsWithoutKeeps ==
  ASSUME PInv, NEW r \in reads, PanelReadsWithout(r) PROVE PInv'
<1> DEFINE q == Asked("card")
<1> DEFINE p == Rebuilt(panel, r.snap, Leaf, Leaf)
<1>1. /\ panel' = Rowless(p) /\ lapsed' = lapsed \union (panel.marked \cap Rowed)
      /\ reads' = (reads \ {r}) \union {q} /\ UNCHANGED <<doc, saves, unsaved, moved>>
      /\ r.to = "panel" /\ r.at = "answered" /\ Spend("others", MaxOthers)
  BY DEF PanelReadsWithout
<1>2. r.snap \in Doc /\ panel \in Panel /\ panel.marked \in SUBSET Guarded
  BY <1>1 DEF PInv, PanelTypeOK, IsRead, Panel
<1>3. /\ p \in Panel /\ p.marked = panel.marked /\ p.api \in {panel.api, r.snap.api}
      /\ \A c \in panel.marked : p.draft[c] = panel.draft[c]
  BY <1>2, RebuiltKeeps
<1> HIDE DEF p
<1>4. /\ panel' \in Panel /\ panel'.marked = panel.marked \ Rowed
      /\ panel'.api \in {panel.api, r.snap.api}
      /\ \A c \in panel'.marked : panel'.draft[c] = panel.draft[c]
  BY <1>1, <1>3, RowlessKeeps
<1>5. IsRead(q) /\ q.at = "asked"
  BY AskedIsRead
<1> HIDE DEF q
<1>6. PanelTypeOK'
  <2>1. spent' \in Spent
    BY <1>1, SpentType DEF PInv
  <2>2. lapsed' \in SUBSET PanelCells
    BY <1>1, <1>2, CellFacts DEF PInv, PanelTypeOK
  <2> QED
    BY <1>1, <1>4, <1>5, <2>1, <2>2 DEF PInv, PanelTypeOK
<1>7. MarkedIsEdited'
  BY <1>1, <1>4 DEF PInv, EditsInv, MarkedIsEdited
<1>8. EditedIsMarked' /\ RowlessUnmarked'
  BY <1>1, <1>4 DEF PInv, EditsInv, EditedIsMarked, RowlessUnmarked
<1>9. SavesMatchEdits'
  BY <1>1 DEF PInv, EditsInv, SavesMatchEdits
<1>10. SavesWriteOnlyEdits'
  BY <1>1 DEF PInv, EditsInv, SavesWriteOnlyEdits
<1>11. Unmoved'
  BY <1>1, <1>4, <1>5 DEF PInv, Unmoved
<1> QED
  BY <1>6, <1>7, <1>8, <1>9, <1>10, <1>11 DEF PInv, EditsInv

\* The controls are enabled again, and nothing else of the panel changes.
LEMMA NotBusy ==
  ASSUME PInv
  PROVE  LET p == [panel EXCEPT !.busy = FALSE]
         IN  /\ p \in Panel /\ p.marked = panel.marked /\ p.draft = panel.draft /\ p.api = panel.api
             /\ p.nsFound = panel.nsFound
BY DEF PInv, PanelTypeOK, Panel

LEMMA PanelReadFailsKeeps ==
  ASSUME PInv, NEW r \in reads, PanelReadFails(r) PROVE PInv'
<1>1. /\ panel' = [panel EXCEPT !.busy = FALSE]
      /\ reads' = reads \ {r} /\ UNCHANGED <<doc, saves, unsaved, lapsed, moved>>
      /\ Spend("others", MaxOthers)
  BY DEF PanelReadFails
<1>2. /\ panel' \in Panel /\ panel'.marked = panel.marked /\ panel'.draft = panel.draft
      /\ panel'.api = panel.api /\ panel'.nsFound = panel.nsFound
  BY <1>1, NotBusy
<1>3. spent' \in Spent
  BY <1>1, SpentType DEF PInv
<1>4. PanelTypeOK'
  BY <1>1, <1>2, <1>3 DEF PInv, PanelTypeOK
<1>5. EditsInv'
  BY <1>1, <1>2, EditsStay
<1>6. Unmoved'
  BY <1>1, <1>2 DEF PInv, Unmoved
<1> QED
  BY <1>4, <1>5, <1>6 DEF PInv

LEMMA PageMateReadsKeeps ==
  ASSUME PInv, PageMateReads PROVE PInv'
<1> DEFINE q == Asked("panel")
<1>1. /\ reads' = reads \union {q} /\ UNCHANGED <<doc, panel, saves, unsaved, lapsed, moved>>
      /\ Spend("others", MaxOthers)
  BY DEF PageMateReads
<1>2. IsRead(q) /\ q.at = "asked"
  BY AskedIsRead
<1> HIDE DEF q
<1>3. spent' \in Spent
  BY <1>1, SpentType DEF PInv
<1>4. PanelTypeOK'
  BY <1>1, <1>2, <1>3 DEF PInv, PanelTypeOK
<1>5. EditsInv'
  BY <1>1, EditsStay DEF PInv, PanelTypeOK
<1>6. Unmoved'
  BY <1>1, <1>2 DEF PInv, Unmoved
<1> QED
  BY <1>4, <1>5, <1>6 DEF PInv

LEMMA RuntimeMovesKeeps ==
  ASSUME PInv, RuntimeMoves PROVE PInv'
<1> DEFINE p == Rebuilt(panel, doc, {}, Compat)
<1>1. panel' = [p EXCEPT !.busy = panel.busy] /\ UNCHANGED <<doc, reads, saves, unsaved, lapsed, moved, spent>>
  BY DEF RuntimeMoves
<1>2. panel \in Panel /\ doc \in Doc
  BY DEF PInv, PanelTypeOK
<1>3. /\ p \in Panel /\ p.marked = panel.marked /\ p.nsFound = panel.nsFound /\ p.api \in {panel.api, doc.api}
      /\ \A c \in panel.marked : p.draft[c] = panel.draft[c]
  BY <1>2, RebuiltKeeps
<1> HIDE DEF p
<1>4. /\ panel' \in Panel /\ panel'.marked = p.marked /\ panel'.draft = p.draft /\ panel'.api = p.api
      /\ panel'.nsFound = p.nsFound
  BY <1>1, <1>2, <1>3 DEF Panel
<1>5. PanelTypeOK'
  BY <1>1, <1>4 DEF PInv, PanelTypeOK
<1>6. EditsInv'
  BY <1>1, <1>3, <1>4, EditsStay
<1>7. Unmoved'
  BY <1>1, <1>3, <1>4 DEF PInv, Unmoved
<1> QED
  BY <1>5, <1>6, <1>7 DEF PInv

----------------------------------------------------------------------------
(* Edits.                                                                  *)

LEMMA EditKeeps ==
  ASSUME PInv, NEW c \in PanelCells, NEW v \in Held \ {None}, Edit(c, v) PROVE PInv'
<1> DEFINE marks == IF c \in Guarded THEN panel.marked \union {c} ELSE panel.marked
<1>1. /\ panel' = [panel EXCEPT !.draft[c] = v, !.marked = marks]
      /\ unsaved' = IF c \in Guarded THEN [unsaved EXCEPT ![c] = v] ELSE unsaved
      /\ lapsed' = IF Crossed(c) THEN lapsed \union {c} ELSE lapsed \ {c}
      /\ UNCHANGED <<doc, reads, saves, moved>>
      /\ Spend("edits", MaxEdits)
      /\ c \in Compat => c[2] \in Available(panel.api)
      /\ ~panel.nsFound => c \notin Rowed
  BY DEF Edit, Rowed, PInv, PanelTypeOK, Panel
<1>2. /\ panel \in Panel /\ panel.draft \in [PanelCells -> Held] /\ panel.marked \in SUBSET Guarded
      /\ unsaved \in [Cells -> Held \union {None}] /\ c \in Cells /\ lapsed \in SUBSET PanelCells
  BY CellFacts DEF PInv, PanelTypeOK, Panel
<1>3. marks \in SUBSET Guarded
  BY <1>2
<1> HIDE DEF marks
<1>4. /\ panel' \in Panel /\ panel'.marked = marks /\ panel'.api = panel.api
      /\ panel'.nsFound = panel.nsFound
      /\ panel'.draft = [panel.draft EXCEPT ![c] = v]
  BY <1>1, <1>2, <1>3 DEF Panel
<1>5. spent' \in Spent
  BY <1>1, SpentType DEF PInv
<1>6. PanelTypeOK'
  <2>1. unsaved' \in [Cells -> Held \union {None}] /\ lapsed' \in SUBSET PanelCells
    BY <1>1, <1>2
  <2> QED
    BY <1>1, <1>4, <1>5, <2>1 DEF PInv, PanelTypeOK
<1>7. MarkedIsEdited'
  <2> SUFFICES ASSUME NEW m \in marks PROVE unsaved'[m] # None /\ panel'.draft[m] = unsaved'[m]
    BY <1>4 DEF MarkedIsEdited
  <2>1. m \in Cells /\ m \in PanelCells /\ m \in Guarded
    BY <1>3, CellFacts
  <2>2. CASE m = c
    BY <1>1, <1>2, <1>4, <2>1, <2>2
  <2>3. CASE m # c
    <3>1. m \in panel.marked
      BY <2>3 DEF marks
    <3>2. unsaved[m] # None /\ panel.draft[m] = unsaved[m]
      BY <3>1 DEF PInv, EditsInv, MarkedIsEdited
    <3> QED
      BY <1>1, <1>2, <1>4, <2>1, <2>3, <3>2
  <2> QED
    BY <2>2, <2>3
<1>8. EditedIsMarked'
  <2> SUFFICES ASSUME NEW g \in Guarded, g \notin lapsed', unsaved'[g] # None PROVE g \in marks
    BY <1>4 DEF EditedIsMarked
  <2>1. CASE g = c
    BY <2>1 DEF marks
  <2>2. CASE g # c
    <3>1. g \notin lapsed /\ unsaved[g] # None
      BY <1>1, <1>2, <2>2, CellFacts
    <3> QED
      BY <3>1 DEF PInv, EditsInv, EditedIsMarked, marks
  <2> QED
    BY <2>1, <2>2
<1>9. SavesMatchEdits'
  <2> SUFFICES ASSUME NEW s \in saves, NEW g \in InGroup(s.group), g \in Guarded, g \notin lapsed',
                      unsaved'[g] # None
               PROVE  unsaved'[g] = s.draft[g]
    BY <1>1 DEF SavesMatchEdits
  <2>1. CASE g = c
    <3>1. s.group = c[1]
      BY <2>1 DEF InGroup
    <3> QED
      BY <1>1, <2>1, <3>1 DEF Crossed
  <2>2. CASE g # c
    <3>1. g \notin lapsed /\ unsaved'[g] = unsaved[g]
      BY <1>1, <1>2, <2>2, CellFacts
    <3> QED
      BY <3>1 DEF PInv, EditsInv, SavesMatchEdits
  <2> QED
    BY <2>1, <2>2
<1>10. SavesWriteOnlyEdits' /\ RowlessUnmarked'
  BY <1>1, <1>4 DEF PInv, EditsInv, SavesWriteOnlyEdits, RowlessUnmarked, marks
<1>11. Unmoved'
  <2> SUFFICES ASSUME ~moved PROVE Unmoved'
    BY <1>1 DEF Unmoved
  <2>1. c \in Compat => c[2] \in Offered(doc.api)
    BY <1>1 DEF Available, PInv, Unmoved
  <2>2. \A m \in marks \cap Compat : m[2] \in Offered(doc.api)
    BY <2>1 DEF marks, PInv, Unmoved
  <2> QED
    BY <1>1, <1>4, <2>2 DEF PInv, Unmoved
<1> QED
  BY <1>6, <1>7, <1>8, <1>9, <1>10, <1>11 DEF PInv, EditsInv

----------------------------------------------------------------------------
(* Saves.                                                                  *)

\* A save that writes nothing but what is marked, as it is on screen.
LEMMA SendKeeps ==
  ASSUME PInv, NEW g \in Groups, NEW writes \in PartOf(Held), NEW draft \in [PanelCells -> Held],
         DOMAIN writes \subseteq InGroup(g),
         \A c \in panel.marked : draft[c] = panel.draft[c],
         \A c \in DOMAIN writes \cap Guarded :
           c \in panel.marked /\ writes[c] = IF c \in Compat THEN StoredAs(draft[c]) ELSE draft[c],
         Send(g, writes, draft)
  PROVE  PInv'
<1>1. PICK form \in BOOLEAN :
        saves' = saves \union {[group |-> g, writes |-> writes, form |-> form, at |-> "sent",
                               draft |-> [c \in InGroup(g) |-> draft[c]],
                               edits |-> [c \in InGroup(g) |-> unsaved[c]], answer |-> None]}
  BY DEF Send
<1> DEFINE new == [group |-> g, writes |-> writes, form |-> form, at |-> "sent",
                   draft |-> [c \in InGroup(g) |-> draft[c]],
                   edits |-> [c \in InGroup(g) |-> unsaved[c]], answer |-> None]
<1>2. /\ saves' = saves \union {new} /\ panel' = [panel EXCEPT !.draft = draft, !.busy = TRUE]
      /\ UNCHANGED <<doc, reads, unsaved, lapsed, moved>> /\ Spend("saves", MaxSaves)
  BY <1>1 DEF Send
<1>3. /\ panel \in Panel /\ panel.draft \in [PanelCells -> Held] /\ panel.marked \in SUBSET Guarded
      /\ unsaved \in [Cells -> Held \union {None}] /\ InGroup(g) \in SUBSET PanelCells
  BY DEF PInv, PanelTypeOK, Panel, InGroup
<1>4. /\ panel' \in Panel /\ panel'.marked = panel.marked /\ panel'.api = panel.api
      /\ panel'.nsFound = panel.nsFound /\ panel'.draft = draft
  BY <1>2, <1>3 DEF Panel
<1>5. IsSave(new)
  <2>1. [c \in InGroup(g) |-> draft[c]] \in [InGroup(g) -> Held]
    BY <1>3
  <2>2. [c \in InGroup(g) |-> unsaved[c]] \in [InGroup(g) -> Held \union {None}]
    BY <1>3, CellFacts
  <2>3. new.draft \in PartOf(Held) /\ new.edits \in PartOf(Held \union {None})
    BY <1>3, <2>1, <2>2 DEF PartOf
  <2> QED
    BY <2>3 DEF IsSave
<1>6. /\ new.group = g /\ new.writes = writes /\ new.at = "sent"
      /\ \A c \in InGroup(g) : new.draft[c] = draft[c] /\ new.edits[c] = unsaved[c]
  OBVIOUS
<1> HIDE DEF new
<1>7. PanelTypeOK'
  <2>1. spent' \in Spent
    BY <1>2, SpentType DEF PInv
  <2> QED
    BY <1>2, <1>4, <1>5, <2>1 DEF PInv, PanelTypeOK
<1>8. MarkedIsEdited' /\ EditedIsMarked' /\ RowlessUnmarked'
  BY <1>2, <1>4 DEF PInv, EditsInv, MarkedIsEdited, EditedIsMarked, RowlessUnmarked
<1>9. \A c \in panel.marked : unsaved[c] # None /\ draft[c] = unsaved[c]
  BY DEF PInv, EditsInv, MarkedIsEdited
<1>10. SavesMatchEdits'
  <2> SUFFICES ASSUME NEW s \in saves', NEW c \in (InGroup(s.group) \cap Guarded) \ lapsed,
                      unsaved[c] # None
               PROVE  unsaved[c] = s.draft[c]
    BY <1>2 DEF SavesMatchEdits
  <2>1. CASE s \in saves
    BY <2>1 DEF PInv, EditsInv, SavesMatchEdits
  <2>2. CASE s = new
    <3>1. c \in panel.marked
      BY DEF PInv, EditsInv, EditedIsMarked
    <3> QED
      BY <1>6, <1>9, <2>2, <3>1
  <2> QED
    BY <1>2, <2>1, <2>2
<1>11. SavesWriteOnlyEdits'
  <2> SUFFICES ASSUME NEW s \in saves', NEW c \in DOMAIN s.writes \cap Guarded
               PROVE  /\ s.edits[c] # None
                      /\ s.writes[c] = IF c \in Compat THEN StoredAs(s.edits[c]) ELSE s.edits[c]
    BY DEF SavesWriteOnlyEdits
  <2>1. CASE s \in saves
    BY <2>1 DEF PInv, EditsInv, SavesWriteOnlyEdits
  <2>2. CASE s = new
    BY <1>6, <1>9, <2>2
  <2> QED
    BY <1>2, <2>1, <2>2
<1>12. Unmoved'
  <2> SUFFICES ASSUME ~moved PROVE Unmoved'
    BY <1>2 DEF Unmoved
  <2>1. \A c \in DOMAIN writes \cap Compat : c[2] \in Offered(doc.api)
    BY CellFacts DEF PInv, Unmoved
  <2> QED
    BY <1>2, <1>4, <1>6, <2>1 DEF PInv, Unmoved
<1> QED
  BY <1>7, <1>8, <1>10, <1>11, <1>12 DEF PInv, EditsInv

\* What a batch of compat fields writes: what was edited, as it is stored.
LEMMA UpdateIsMarked ==
  ASSUME PInv, NEW o \in Rows
  PROVE  /\ \A f \in DOMAIN Update(o) :
              <<o, f>> \in panel.marked /\ Update(o)[f] = panel.draft[<<o, f>>]
         /\ \A f \in DOMAIN OpsFor(Update(o)) :
              f \in DOMAIN Update(o) /\ OpsFor(Update(o))[f] = StoredAs(Update(o)[f])
<1> DEFINE changed == {c \in InGroup(o) \cap panel.marked : panel.draft[c] # panel.view[c]}
<1>1. Update(o) = [f \in {c[2] : c \in changed} |-> panel.draft[<<o, f>>]]
  BY DEF Update
<1>2. \A c \in changed : c = <<o, c[2]>> /\ c \in panel.marked
  BY CellFacts DEF InGroup
<1> HIDE DEF changed
<1>3. \A f \in DOMAIN Update(o) : <<o, f>> \in panel.marked /\ Update(o)[f] = panel.draft[<<o, f>>]
  BY <1>1, <1>2
<1>4. \A f \in DOMAIN OpsFor(Update(o)) :
        f \in DOMAIN Update(o) /\ OpsFor(Update(o))[f] = StoredAs(Update(o)[f])
  BY DEF OpsFor
<1> QED
  BY <1>3, <1>4

LEMMA SaveCompatKeeps ==
  ASSUME PInv, NEW o \in Rows, SaveCompat(o) PROVE PInv'
<1> DEFINE ops == OpsFor(Update(o))
<1> DEFINE writes == [c \in {o} \X DOMAIN ops |-> ops[c[2]]]
<1>1. Send(o, writes, panel.draft)
  BY DEF SaveCompat
<1>2. \A f \in DOMAIN ops : <<o, f>> \in panel.marked /\ ops[f] = StoredAs(panel.draft[<<o, f>>])
  BY UpdateIsMarked
<1>3. panel.draft \in [PanelCells -> Held] /\ panel.marked \in SUBSET Guarded
  BY DEF PInv, PanelTypeOK, Panel
<1> HIDE DEF ops
<1>4. \A c \in DOMAIN writes :
        /\ c \in panel.marked /\ c \in PanelCells /\ c[1] = o /\ writes[c] = StoredAs(panel.draft[c])
        /\ writes[c] \in Held
  <2> SUFFICES ASSUME NEW f \in DOMAIN ops
               PROVE  /\ <<o, f>> \in panel.marked /\ <<o, f>> \in PanelCells
                      /\ ops[f] = StoredAs(panel.draft[<<o, f>>]) /\ ops[f] \in Held
    OBVIOUS
  <2>1. <<o, f>> \in panel.marked /\ ops[f] = StoredAs(panel.draft[<<o, f>>]) /\ <<o, f>> \in PanelCells
    BY <1>2, <1>3, CellFacts
  <2>2. panel.draft[<<o, f>>] \in Held
    BY <1>3, <2>1
  <2> QED
    BY <2>1, <2>2, HeldClosed
<1>5. DOMAIN writes \subseteq InGroup(o) /\ DOMAIN writes \in SUBSET PanelCells
  BY <1>4 DEF InGroup
<1>6. writes \in [DOMAIN writes -> Held]
  BY <1>4
<1>7. \A c \in DOMAIN writes : c \in Compat
  BY <1>4, CellFacts
<1> HIDE DEF writes
<1>8. writes \in PartOf(Held)
  BY <1>5, <1>6 DEF PartOf
<1> QED
  BY <1>1, <1>3, <1>4, <1>5, <1>7, <1>8, SendKeeps DEF Groups

LEMMA SaveCompatNothingKeeps ==
  ASSUME PInv, NEW o \in Rows, SaveCompatNothing(o) PROVE PInv'
<1>1. /\ panel' = [panel EXCEPT !.marked = panel.marked \ InGroup(o)]
      /\ \/ /\ unsaved' = [c \in Cells |-> IF c \in InGroup(o) THEN None ELSE unsaved[c]]
            /\ UNCHANGED lapsed
         \/ lapsed' = lapsed \union InGroup(o) /\ UNCHANGED unsaved
      /\ UNCHANGED <<doc, reads, saves, moved, spent>>
  BY DEF SaveCompatNothing, PInv, PanelTypeOK, Panel
<1>2. /\ panel \in Panel /\ panel.marked \in SUBSET Guarded /\ unsaved \in [Cells -> Held \union {None}]
      /\ lapsed \in SUBSET PanelCells /\ InGroup(o) \in SUBSET PanelCells
  BY DEF PInv, PanelTypeOK, Panel, InGroup
<1>3. /\ panel' \in Panel /\ panel'.marked = panel.marked \ InGroup(o)
      /\ panel'.draft = panel.draft /\ panel'.api = panel.api /\ panel'.nsFound = panel.nsFound
  BY <1>1, <1>2 DEF Panel
<1>4. PanelTypeOK'
  <2>1. unsaved' \in [Cells -> Held \union {None}] /\ lapsed' \in SUBSET PanelCells
    BY <1>1, <1>2
  <2> QED
    BY <1>1, <1>3, <2>1 DEF PInv, PanelTypeOK
<1>5. \A c \in PanelCells : c \notin InGroup(o) => unsaved'[c] = unsaved[c]
  BY <1>1, <1>2, CellFacts
<1>6. \A c \in PanelCells : c \in InGroup(o) => c \in lapsed' \/ unsaved'[c] = None
  BY <1>1, <1>2, CellFacts
<1>7. lapsed \subseteq lapsed' /\ lapsed' \subseteq lapsed \union InGroup(o)
  BY <1>1
<1>8. MarkedIsEdited' /\ EditedIsMarked'
  BY <1>3, <1>5, <1>6, <1>7, <1>2, CellFacts DEF PInv, EditsInv, MarkedIsEdited, EditedIsMarked
<1>9. SavesMatchEdits'
  BY <1>1, <1>5, <1>6, <1>7, CellFacts DEF PInv, EditsInv, SavesMatchEdits
<1>10. SavesWriteOnlyEdits' /\ RowlessUnmarked'
  BY <1>1, <1>3 DEF PInv, EditsInv, SavesWriteOnlyEdits, RowlessUnmarked
<1>11. Unmoved'
  BY <1>1, <1>3 DEF PInv, Unmoved
<1> QED
  BY <1>4, <1>8, <1>9, <1>10, <1>11 DEF PInv, EditsInv

LEMMA SaveLeafKeeps ==
  ASSUME PInv, NEW c \in Leaf, SaveLeaf(c) PROVE PInv'
<1> DEFINE writes == [x \in {c} |-> panel.draft[x]]
<1>1. c \in PanelCells /\ c \notin Compat /\ c[1] \in Groups
  <2>1. c \in PanelCells /\ c[1] \in Leaves
    BY DEF PanelCells, Leaf
  <2>2. c[1] \notin Rows
    BY <2>1, PageConstants
  <2> QED
    BY <2>1, <2>2, CellFacts
<1>2. [x \in {c} |-> panel.draft[c]] = writes
  OBVIOUS
<1>3. Send(c[1], writes, panel.draft) /\ (c \in Guarded => c \in panel.marked)
  BY <1>2 DEF SaveLeaf
<1>4. panel.draft \in [PanelCells -> Held]
  BY DEF PInv, PanelTypeOK, Panel
<1>5. writes \in [{c} -> Held] /\ {c} \in SUBSET PanelCells /\ DOMAIN writes = {c}
  BY <1>1, <1>4
<1>6. writes \in PartOf(Held) /\ DOMAIN writes \subseteq InGroup(c[1])
  BY <1>1, <1>5 DEF PartOf, InGroup
<1>7. \A x \in DOMAIN writes \cap Guarded :
        x \in panel.marked /\ writes[x] = IF x \in Compat THEN StoredAs(panel.draft[x]) ELSE panel.draft[x]
  BY <1>1, <1>3
<1> HIDE DEF writes
<1> QED
  BY <1>1, <1>3, <1>4, <1>6, <1>7, SendKeeps

LEMMA FlipKeeps ==
  ASSUME PInv, NEW c \in Leaf, NEW v \in Values, Flip(c, v) PROVE PInv'
<1> DEFINE writes == [x \in {c} |-> v]
<1> DEFINE draft == [panel.draft EXCEPT ![c] = v]
<1>1. Send("toggle", writes, draft) /\ c[1] = "toggle"
  BY DEF Flip
<1>2. c \in PanelCells /\ c \notin Guarded /\ "toggle" \in Groups
  BY <1>1, CellFacts DEF PanelCells
<1>3. panel.draft \in [PanelCells -> Held] /\ panel.marked \in SUBSET Guarded /\ v \in Held
  BY HeldClosed DEF PInv, PanelTypeOK, Panel
<1>4. draft \in [PanelCells -> Held] /\ \A x \in panel.marked : draft[x] = panel.draft[x]
  BY <1>2, <1>3, CellFacts
<1>5. writes \in [{c} -> Held] /\ {c} \in SUBSET PanelCells /\ DOMAIN writes = {c}
  BY <1>2, <1>3
<1>6. writes \in PartOf(Held) /\ DOMAIN writes \subseteq InGroup("toggle")
  BY <1>1, <1>2, <1>5 DEF PartOf, InGroup
<1>7. DOMAIN writes \cap Guarded = {}
  BY <1>2
<1> HIDE DEF writes, draft
<1> QED
  BY <1>1, <1>2, <1>4, <1>6, <1>7, SendKeeps

LEMMA SaveLandsKeeps ==
  ASSUME PInv, NEW s \in saves, SaveLands(s) PROVE PInv'
<1> DEFINE cells == [c \in Cells |-> IF c \in DOMAIN s.writes THEN s.writes[c] ELSE doc.cells[c]]
<1> DEFINE s2 == [s EXCEPT !.at = "landed", !.answer = doc']
<1>1. /\ doc' = [doc EXCEPT !.cells = cells] /\ saves' = (saves \ {s}) \union {s2}
      /\ UNCHANGED <<panel, reads, unsaved, lapsed, moved, spent>>
  BY DEF SaveLands, PInv, PanelTypeOK, Doc
<1>2. doc \in Doc /\ doc.cells \in [Cells -> Held] /\ IsSave(s)
  BY DEF PInv, PanelTypeOK, Doc
<1>3. cells \in [Cells -> Held]
  <2>1. \A c \in DOMAIN s.writes : s.writes[c] \in Held
    BY <1>2 DEF IsSave, PartOf
  <2> QED
    BY <1>2, <2>1
<1> HIDE DEF cells
<1>4. doc' \in Doc /\ doc'.api = doc.api
  BY <1>1, <1>2, <1>3 DEF Doc
<1>5. /\ IsSave(s2) /\ s2.group = s.group /\ s2.writes = s.writes /\ s2.draft = s.draft
      /\ s2.edits = s.edits /\ s2.answer = doc'
  BY <1>2, <1>4 DEF IsSave
<1> HIDE DEF s2
<1>6. PanelTypeOK'
  BY <1>1, <1>4, <1>5 DEF PInv, PanelTypeOK
<1>7. EditsInv'
  <2>1. \A x \in saves' : \E y \in saves :
          x.group = y.group /\ x.writes = y.writes /\ x.draft = y.draft /\ x.edits = y.edits
    BY <1>1, <1>5
  <2> QED
    BY <1>1, <2>1, EditsStay DEF PInv, PanelTypeOK
<1>8. Unmoved'
  BY <1>1, <1>4, <1>5 DEF PInv, Unmoved
<1> QED
  BY <1>6, <1>7, <1>8 DEF PInv

LEMMA SaveRefusedKeeps ==
  ASSUME PInv, NEW s \in saves, SaveRefused(s) PROVE PInv'
<1>1. /\ panel' = [panel EXCEPT !.busy = FALSE] /\ saves' = saves \ {s}
      /\ UNCHANGED spent \/ Spend("others", MaxOthers)
      /\ UNCHANGED <<doc, reads, unsaved, lapsed, moved>>
  BY DEF SaveRefused
<1>2. /\ panel' \in Panel /\ panel'.marked = panel.marked /\ panel'.draft = panel.draft
      /\ panel'.api = panel.api /\ panel'.nsFound = panel.nsFound
  BY <1>1, NotBusy
<1>3. spent' \in Spent
  BY <1>1, SpentType DEF PInv, PanelTypeOK
<1>4. PanelTypeOK'
  BY <1>1, <1>2, <1>3 DEF PInv, PanelTypeOK
<1>5. EditsInv'
  BY <1>1, <1>2, EditsStay
<1>6. Unmoved'
  BY <1>1, <1>2 DEF PInv, Unmoved
<1> QED
  BY <1>4, <1>5, <1>6 DEF PInv

LEMMA SaveAcceptedKeeps ==
  ASSUME PInv, NEW s \in saves, SaveAccepted(s) PROVE PInv'
<1> DEFINE own == InGroup(s.group)
<1> DEFINE settled == Settled(panel, s)
<1>1. /\ s.at = "landed" /\ saves' = saves \ {s}
      /\ unsaved' = [c \in Cells |-> IF c \in own /\ unsaved[c] = s.draft[c] THEN None ELSE unsaved[c]]
      /\ UNCHANGED <<doc, lapsed, moved, spent>>
  BY DEF SaveAccepted, SavedEdits
<1>2. IsSave(s) /\ panel \in Panel /\ doc \in Doc /\ unsaved \in [Cells -> Held \union {None}]
      /\ s.answer \in Doc
  BY <1>1 DEF PInv, PanelTypeOK, IsSave
<1>3. /\ settled \in Panel /\ settled.marked = panel.marked \ own /\ settled.api = panel.api
      /\ \A c \in panel.marked \ own : settled.draft[c] = panel.draft[c]
  BY <1>2, SettledKeeps
<1>4. settled.nsFound = panel.nsFound
  BY <1>2, SettledKeeps
<1>5. \E who \in {"panel", "card"} : reads' \in {reads, reads \union {Asked(who)}}
  BY DEF SaveAccepted
<1>6. /\ panel' \in Panel /\ panel'.marked = panel.marked \ own
      /\ panel'.nsFound \/ ~panel.nsFound
      /\ panel'.api \in {panel.api, s.answer.api}
      /\ \A c \in panel.marked \ own : panel'.draft[c] = panel.draft[c]
  <2> DEFINE found == [settled EXCEPT !.nsFound = TRUE]
  <2> DEFINE answered == Rebuilt(settled, s.answer, Leaf, Leaf)
  <2>1. \/ panel' = settled
        \/ \E rebuilt : panel' = Rebuilt(found, s.answer, Compat, rebuilt)
        \/ panel' = answered
        \/ panel' = Rowless(answered) /\ ~panel.nsFound
    BY DEF SaveAccepted
  <2>2. /\ found \in Panel /\ found.nsFound /\ found.marked = settled.marked
        /\ found.draft = settled.draft /\ found.api = settled.api
    BY <1>3, FoundKeeps
  <2>3. /\ answered \in Panel /\ answered.marked = settled.marked /\ answered.nsFound = settled.nsFound
        /\ answered.api \in {settled.api, s.answer.api}
        /\ \A c \in settled.marked : answered.draft[c] = settled.draft[c]
    BY <1>2, <1>3, RebuiltKeeps
  <2> HIDE DEF settled, found, answered
  <2>4. CASE panel' = settled
    BY <1>3, <1>4, <2>4
  <2>5. ASSUME NEW rebuilt, panel' = Rebuilt(found, s.answer, Compat, rebuilt)
        PROVE  /\ panel' \in Panel /\ panel'.marked = panel.marked \ own
               /\ panel'.nsFound \/ ~panel.nsFound
               /\ panel'.api \in {panel.api, s.answer.api}
               /\ \A c \in panel.marked \ own : panel'.draft[c] = panel.draft[c]
    BY <1>2, <1>3, <2>2, <2>5, RebuiltKeeps
  <2>6. CASE panel' = answered
    BY <1>3, <1>4, <2>3, <2>6
  <2>7. CASE panel' = Rowless(answered) /\ ~panel.nsFound
    <3>1. settled.marked \ Rowed = settled.marked
      BY <1>3, <2>7 DEF PInv, EditsInv, RowlessUnmarked
    <3> QED
      BY <1>3, <2>3, <2>7, <3>1, RowlessKeeps
  <2> QED
    BY <2>1, <2>4, <2>5, <2>6, <2>7
<1> HIDE DEF settled
<1>7. \A r \in reads' : r \in reads \/ (IsRead(r) /\ r.at = "asked")
  BY <1>5, AskedIsRead
<1>8. \A c \in Cells : unsaved'[c] \in {None, unsaved[c]} /\ (c \notin own => unsaved'[c] = unsaved[c])
  BY <1>1
<1>9. PanelTypeOK'
  <2>1. unsaved' \in [Cells -> Held \union {None}]
    BY <1>1, <1>2
  <2>2. \A r \in reads' : IsRead(r)
    BY <1>7 DEF PInv, PanelTypeOK
  <2> QED
    BY <1>1, <1>6, <2>1, <2>2 DEF PInv, PanelTypeOK
<1>10. panel.marked \in SUBSET Guarded
  BY <1>2 DEF Panel
<1>11. MarkedIsEdited'
  BY <1>6, <1>8, <1>10, CellFacts DEF PInv, EditsInv, MarkedIsEdited
<1>12. EditedIsMarked'
  <2> SUFFICES ASSUME NEW c \in Guarded \ lapsed, unsaved'[c] # None PROVE c \in panel'.marked
    BY <1>1 DEF EditedIsMarked
  <2>1. c \in Cells /\ unsaved[c] # None /\ unsaved'[c] = unsaved[c]
    BY <1>8, CellFacts
  <2>2. c \in panel.marked
    BY <2>1 DEF PInv, EditsInv, EditedIsMarked
  <2>3. c \notin own
    <3> SUFFICES ASSUME c \in own PROVE FALSE
      OBVIOUS
    <3>1. unsaved[c] = s.draft[c]
      BY <2>1 DEF PInv, EditsInv, SavesMatchEdits
    <3> QED
      BY <1>1, <2>1, <3>1
  <2> QED
    BY <1>6, <2>2, <2>3
<1>13. SavesMatchEdits'
  <2> SUFFICES ASSUME NEW x \in saves, NEW c \in (InGroup(x.group) \cap Guarded) \ lapsed, unsaved'[c] # None
               PROVE  unsaved'[c] = x.draft[c]
    BY <1>1 DEF SavesMatchEdits
  <2>1. unsaved[c] # None /\ unsaved'[c] = unsaved[c]
    BY <1>8, CellFacts
  <2> QED
    BY <2>1 DEF PInv, EditsInv, SavesMatchEdits
<1>14. SavesWriteOnlyEdits' /\ RowlessUnmarked'
  BY <1>1, <1>6 DEF PInv, EditsInv, SavesWriteOnlyEdits, RowlessUnmarked
<1>15. Unmoved'
  BY <1>1, <1>6, <1>7 DEF PInv, Unmoved
<1> QED
  BY <1>9, <1>11, <1>12, <1>13, <1>14, <1>15 DEF PInv, EditsInv

----------------------------------------------------------------------------
(* The others.                                                             *)

LEMMA OthersWriteKeeps ==
  ASSUME PInv, NEW c \in Cells, NEW v \in Held, OthersWrite(c, v) PROVE PInv'
<1>1. /\ doc' = [doc EXCEPT !.cells[c] = v] /\ UNCHANGED <<panel, reads, saves, unsaved, lapsed, moved>>
      /\ Spend("others", MaxOthers)
  BY DEF OthersWrite
<1>2. doc' \in Doc /\ doc'.api = doc.api
  BY <1>1 DEF PInv, PanelTypeOK, Doc
<1>3. spent' \in Spent
  BY <1>1, SpentType DEF PInv
<1>4. PanelTypeOK'
  BY <1>1, <1>2, <1>3 DEF PInv, PanelTypeOK
<1>5. EditsInv'
  BY <1>1, EditsStay DEF PInv, PanelTypeOK
<1>6. Unmoved'
  BY <1>1, <1>2 DEF PInv, Unmoved
<1> QED
  BY <1>4, <1>5, <1>6 DEF PInv

LEMMA ApiMovesKeeps ==
  ASSUME PInv, NEW api \in Apis, ApiMoves(api) PROVE PInv'
<1>1. /\ doc' = [doc EXCEPT !.api = api] /\ UNCHANGED <<panel, reads, saves, unsaved, lapsed>>
      /\ Spend("others", MaxOthers) /\ moved'
  BY DEF ApiMoves
<1>2. doc' \in Doc
  BY <1>1 DEF PInv, PanelTypeOK, Doc
<1>3. spent' \in Spent
  BY <1>1, SpentType DEF PInv
<1>4. moved' \in BOOLEAN
  BY DEF ApiMoves
<1>5. PanelTypeOK'
  BY <1>1, <1>2, <1>3, <1>4 DEF PInv, PanelTypeOK
<1>6. EditsInv'
  BY <1>1, EditsStay DEF PInv, PanelTypeOK
<1>7. Unmoved'
  BY <1>1 DEF Unmoved
<1> QED
  BY <1>5, <1>6, <1>7 DEF PInv

LEMMA PanelStep ==
  ASSUME PInv, PanelNext PROVE PInv'
<1>1. CASE User
  <2>1. ASSUME NEW c \in Compat, NEW v \in Selections(c[2]), Edit(c, v) PROVE PInv'
    <3>1. c \in PanelCells /\ v \in Held \ {None}
      BY CellFacts, HeldClosed
    <3> QED
      BY <2>1, <3>1, EditKeeps
  <2>2. ASSUME NEW c \in Leaf, NEW v \in Typed(c), Edit(c, v) PROVE PInv'
    <3>1. c \in PanelCells /\ v \in Held \ {None}
      BY HeldClosed DEF PanelCells
    <3> QED
      BY <2>2, <3>1, EditKeeps
  <2>3. ASSUME NEW o \in Rows, SaveCompat(o) \/ SaveCompatNothing(o) PROVE PInv'
    BY <2>3, SaveCompatKeeps, SaveCompatNothingKeeps
  <2>4. ASSUME NEW c \in Leaf, SaveLeaf(c) \/ \E v \in Values : Flip(c, v) PROVE PInv'
    BY <2>4, SaveLeafKeeps, FlipKeeps
  <2> QED
    BY <1>1, <2>1, <2>2, <2>3, <2>4 DEF User
<1>2. CASE PanelAnswers
  BY <1>2, ReadSampledKeeps, PanelReadsKeeps, SaveLandsKeeps, SaveAcceptedKeeps, SaveRefusedKeeps DEF PanelAnswers
<1>3. CASE RuntimeMoves
  BY <1>3, RuntimeMovesKeeps
<1>4. CASE Others
  <2>1. ASSUME NEW c \in Compat, NEW v \in Stored(c[2]), OthersWrite(c, v) PROVE PInv'
    <3>1. c \in Cells /\ v \in Held
      BY CellFacts, HeldClosed
    <3> QED
      BY <2>1, <3>1, OthersWriteKeeps
  <2>2. ASSUME NEW c \in Cells \ Compat, NEW v \in Values, OthersWrite(c, v) PROVE PInv'
    <3>1. c \in Cells /\ v \in Held
      BY HeldClosed
    <3> QED
      BY <2>2, <3>1, OthersWriteKeeps
  <2> QED
    BY <1>4, <2>1, <2>2, ApiMovesKeeps, PageMateReadsKeeps DEF Others
<1>5. CASE \E r \in reads : PanelReadFails(r) \/ PanelReadsWithout(r)
  BY <1>5, PanelReadFailsKeeps, PanelReadsWithoutKeeps
<1>6. CASE \E s \in saves : SaveRefused(s)
  BY <1>6, SaveRefusedKeeps
<1> QED
  BY <1>1, <1>2, <1>3, <1>4, <1>5, <1>6 DEF PanelNext

----------------------------------------------------------------------------
(* The card.                                                               *)

CardInv == CardTypeOK /\ FenceHolds /\ ScreenHolds

\* A step of the card leaves the panel, and at most asks for reads.
LEMMA PanelAside ==
  ASSUME PInv, UNCHANGED <<panel, saves, unsaved, lapsed, moved>>,
         doc' \in Doc, doc'.api = doc.api, spent' \in Spent,
         \A r \in reads' : r \in reads \/ (IsRead(r) /\ r.at = "asked")
  PROVE  PInv'
<1>1. PanelTypeOK'
  BY DEF PInv, PanelTypeOK
<1>2. EditsInv'
  BY EditsStay DEF PInv, PanelTypeOK
<1>3. Unmoved'
  BY DEF PInv, Unmoved
<1> QED
  BY <1>1, <1>2, <1>3 DEF PInv

\* A step of the panel leaves the card, and its fence tells of every write to
\* the section.
LEMMA FencedKeeps ==
  ASSUME PInv, CardInv, UNCHANGED card, Fenced PROVE CardInv'
<1> DEFINE holds == apply.fresh /\ OwnSection(doc') = OwnSection(doc)
<1>1. apply' = [apply EXCEPT !.fresh = holds]
  BY DEF Fenced, CardInv, CardTypeOK, Applies
<1>2. holds \in BOOLEAN
  BY DEF CardInv, CardTypeOK, Applies
<1>3. holds => apply.fresh /\ \A k \in FormatKeys : doc'.cells[<<"format", k>>] = doc.cells[<<"format", k>>]
  <2> SUFFICES ASSUME holds, NEW k \in FormatKeys
               PROVE  apply.fresh /\ doc'.cells[<<"format", k>>] = doc.cells[<<"format", k>>]
    OBVIOUS
  <2>1. /\ OwnSection(doc)[<<"format", k>>] = doc.cells[<<"format", k>>]
        /\ OwnSection(doc')[<<"format", k>>] = doc'.cells[<<"format", k>>]
    BY FormatCells DEF OwnSection
  <2> QED
    BY <2>1
<1> HIDE DEF holds
<1>4. /\ apply'.fresh = holds /\ apply'.at = apply.at /\ apply'.snap = apply.snap
      /\ apply'.ops = apply.ops /\ apply'.draft = apply.draft /\ apply'.since = apply.since
  BY <1>1 DEF CardInv, CardTypeOK, Applies
<1>5. CardTypeOK'
  <2>1. apply' \in Applies
    BY <1>1, <1>2 DEF CardInv, CardTypeOK, Applies
  <2> QED
    BY <1>4, <2>1 DEF CardInv, CardTypeOK
<1>6. FenceHolds'
  BY <1>3, <1>4 DEF CardInv, FenceHolds, FormatOf
<1>7. ScreenHolds'
  BY <1>4 DEF CardInv, ScreenHolds
<1> QED
  BY <1>5, <1>6, <1>7 DEF CardInv

\* An apply that is not under way, or has not been answered yet, is held to nothing.
LEMMA AtRest ==
  ASSUME CardInv, card' \in Drafted, apply' \in Applies, apply'.at \in {"idle", "asked"}
  PROVE  CardInv'
BY DEF CardInv, CardTypeOK, FenceHolds, ScreenHolds

LEMMA IdleType == Idle \in Applies /\ Idle.at = "idle"
BY DEF Idle, Applies

\* The apply, the document and the drafts on screen stay as they are.
LEMMA ApplyAside ==
  ASSUME CardInv, UNCHANGED <<doc, apply>>, card' \in Drafted, card'.draft = card.draft
  PROVE  CardInv'
BY DEF CardInv, CardTypeOK, FenceHolds, FormatOf, ScreenHolds

\* Fields get another draft, and are held to nothing any more.
LEMMA RedraftedKeeps ==
  ASSUME CardInv, UNCHANGED doc, card' \in Drafted,
         NEW ks \in SUBSET FormatKeys, Redrafted(ks),
         \A k \in FormatKeys \ ks : card'.draft[k] = card.draft[k]
  PROVE  CardInv'
<1>1. apply \in Applies
  BY DEF CardInv, CardTypeOK
<1>2. CASE apply.at \in {"sent", "landed"}
  <2> DEFINE since == apply.since \union ks
  <2>1. apply' = [apply EXCEPT !.since = since]
    BY <1>2 DEF Redrafted
  <2>2. since \in SUBSET FormatKeys
    BY <1>1 DEF Applies
  <2>3. \A k \in FormatKeys \ since : k \notin apply.since /\ card'.draft[k] = card.draft[k]
    OBVIOUS
  <2> HIDE DEF since
  <2>4. /\ apply' \in Applies /\ apply'.at = apply.at /\ apply'.snap = apply.snap /\ apply'.since = since
        /\ apply'.ops = apply.ops /\ apply'.draft = apply.draft /\ apply'.fresh = apply.fresh
    BY <1>1, <2>1, <2>2 DEF Applies
  <2>5. CardTypeOK'
    BY <2>4 DEF CardInv, CardTypeOK
  <2>6. FenceHolds'
    BY <2>4 DEF CardInv, FenceHolds, FormatOf
  <2>7. ScreenHolds'
    BY <2>3, <2>4 DEF CardInv, ScreenHolds
  <2> QED
    BY <2>5, <2>6, <2>7 DEF CardInv
<1>3. CASE apply.at \notin {"sent", "landed"}
  <2>1. apply' = apply
    BY <1>3 DEF Redrafted
  <2> QED
    BY <1>3, <2>1 DEF CardInv, CardTypeOK, FenceHolds, FormatOf, ScreenHolds
<1> QED
  BY <1>2, <1>3

LEMMA CardFields ==
  ASSUME CardInv
  PROVE  /\ card.saved \in FormatDraft /\ card.draft \in FormatDraft
         /\ card \in Drafted
         /\ \A b \in BOOLEAN, d \in FormatDraft :
              /\ [card EXCEPT !.busy = b] \in Drafted /\ [card EXCEPT !.busy = b].draft = card.draft
              /\ [card EXCEPT !.draft = d] \in Drafted /\ [card EXCEPT !.draft = d].draft = d
              /\ [card EXCEPT !.saved = d, !.busy = b] \in Drafted
BY DEF CardInv, CardTypeOK, Drafted

\* A batch that is accepted leaves stored all of the draft it was made of.
LEMMA LandedLeaves ==
  ASSUME doc \in Doc, CardTypeOK, FenceHolds, ApplyLands
  PROVE  /\ doc' \in Doc /\ doc'.api = doc.api
         /\ FormatOf(doc') \in FormatDraft
         /\ \A k \in FormatKeys : FormatOf(doc')[k] = apply.draft[k]
<1> DEFINE cells == [c \in Cells |->
               IF c[1] = "format" /\ c[2] \in apply.ops THEN apply.draft[c[2]] ELSE doc.cells[c]]
<1>1. apply.at = "sent" /\ apply.fresh /\ doc' = [doc EXCEPT !.cells = cells]
  BY DEF ApplyLands, Accepts, Doc
<1>2. apply.draft \in FormatDraft /\ apply.ops \in SUBSET FormatKeys /\ doc.cells \in [Cells -> Held]
  BY <1>1 DEF CardTypeOK, Applies, Doc
<1>3. cells \in [Cells -> Held]
  BY <1>2 DEF FormatDraft
<1>4. \A k \in FormatKeys : cells[<<"format", k>>] = apply.draft[k]
  <2> SUFFICES ASSUME NEW k \in FormatKeys PROVE cells[<<"format", k>>] = apply.draft[k]
    OBVIOUS
  <2>1. cells[<<"format", k>>] = IF k \in apply.ops THEN apply.draft[k] ELSE doc.cells[<<"format", k>>]
    BY FormatCells
  <2>2. k \notin apply.ops => doc.cells[<<"format", k>>] = apply.draft[k]
    BY <1>1 DEF FenceHolds
  <2> QED
    BY <2>1, <2>2
<1> HIDE DEF cells
<1>5. doc' \in Doc /\ doc'.api = doc.api /\ doc'.cells = cells
  BY <1>1, <1>3 DEF Doc
<1>6. FormatOf(doc') \in FormatDraft
  BY <1>5, ViewType
<1> QED
  BY <1>4, <1>5, <1>6 DEF FormatOf

LEMMA CardStep ==
  ASSUME PInv, CardInv,
         \/ \E k \in FormatKeys, v \in Values : CardEdits(k, v)
         \/ \E r \in reads : CardReads(r) \/ CardReadFails(r)
         \/ Apply \/ ApplyAnswers \/ ApplyFails
  PROVE  PInv' /\ CardInv'
<1>1. doc \in Doc /\ spent \in Spent
  BY DEF PInv, PanelTypeOK
<1>2. ASSUME NEW k \in FormatKeys, NEW v \in Values, CardEdits(k, v) PROVE PInv' /\ CardInv'
  <2> DEFINE draft == [card.draft EXCEPT ![k] = v]
  <2>1. /\ Spend("edits", MaxEdits) /\ card' = [card EXCEPT !.draft = draft] /\ Redrafted({k})
        /\ UNCHANGED <<doc, panel, reads, saves, unsaved, lapsed, moved>>
    BY <1>2 DEF CardEdits, CardInv, CardTypeOK, Drafted
  <2>2. draft \in FormatDraft /\ \A x \in FormatKeys \ {k} : draft[x] = card.draft[x]
    BY CardFields, HeldClosed DEF FormatDraft
  <2> HIDE DEF draft
  <2>3. card' \in Drafted /\ card'.draft = draft
    BY <2>1, <2>2, CardFields
  <2>4. spent' \in Spent
    BY <2>1, SpentType DEF PInv
  <2>5. CardInv'
    BY <2>1, <2>2, <2>3, RedraftedKeeps
  <2> QED
    BY <1>1, <2>1, <2>4, <2>5, PanelAside
<1>3. ASSUME NEW r \in reads, CardReads(r) PROVE PInv' /\ CardInv'
  <2> DEFINE draft == [k \in FormatKeys |-> IF card.draft[k] = card.saved[k] THEN r.snap[k] ELSE card.draft[k]]
  <2> DEFINE ks == {k \in FormatKeys : card'.draft[k] # card.draft[k]}
  <2>1. /\ r.to = "card" /\ r.at = "answered" /\ card' = [saved |-> r.snap, busy |-> FALSE, draft |-> draft]
        /\ Redrafted(ks)
        /\ reads' = reads \ {r} /\ UNCHANGED <<doc, panel, saves, unsaved, lapsed, moved, spent>>
    BY <1>3 DEF CardReads, Merged
  <2>2. r.snap \in FormatDraft
    BY <2>1 DEF PInv, PanelTypeOK, IsRead
  <2>3. draft \in FormatDraft
    BY <2>2, CardFields DEF FormatDraft
  <2>4. ks \in SUBSET FormatKeys /\ \A k \in FormatKeys \ ks : card'.draft[k] = card.draft[k]
    OBVIOUS
  <2> HIDE DEF draft, ks
  <2>5. card' \in Drafted
    BY <2>1, <2>2, <2>3 DEF Drafted
  <2>6. CardInv'
    BY <2>1, <2>4, <2>5, RedraftedKeeps
  <2> QED
    BY <1>1, <2>1, <2>6, PanelAside
<1>4. ASSUME NEW r \in reads, CardReadFails(r) PROVE PInv' /\ CardInv'
  <2>1. /\ Spend("others", MaxOthers) /\ card' = [card EXCEPT !.busy = FALSE] /\ reads' = reads \ {r}
        /\ UNCHANGED <<doc, panel, saves, unsaved, lapsed, moved, apply>>
    BY <1>4 DEF CardReadFails
  <2>2. spent' \in Spent
    BY <2>1, SpentType DEF PInv
  <2>3. card' \in Drafted /\ card'.draft = card.draft
    BY <2>1, CardFields
  <2> QED
    BY <1>1, <2>1, <2>2, <2>3, PanelAside, ApplyAside
<1>5. CASE Apply
  <2>1. /\ Spend("saves", MaxSaves) /\ card' = [card EXCEPT !.busy = TRUE]
        /\ apply' = [apply EXCEPT !.at = "asked"]
        /\ UNCHANGED <<doc, panel, reads, saves, unsaved, lapsed, moved>>
    BY <1>5 DEF Apply
  <2>2. spent' \in Spent
    BY <2>1, SpentType DEF PInv
  <2>3. apply' \in Applies /\ apply'.at = "asked"
    BY <2>1 DEF CardInv, CardTypeOK, Applies
  <2>4. card' \in Drafted
    BY <2>1, CardFields
  <2> QED
    BY <1>1, <2>1, <2>2, <2>3, <2>4, PanelAside, AtRest
<1>6. CASE ApplySampled
  <2> DEFINE now == FormatOf(doc)
  <2>1. /\ apply' = [apply EXCEPT !.at = "answered", !.snap = now, !.fresh = TRUE]
        /\ UNCHANGED <<doc, panel, reads, saves, unsaved, lapsed, moved, spent, card>>
    BY <1>6 DEF ApplySampled, panelVars
  <2>2. now \in FormatDraft
    BY <1>1, ViewType
  <2>3. now' = now
    BY <2>1 DEF FormatOf
  <2>4. PInv'
    BY <1>1, <2>1, PanelAside
  <2>5. CardInv'
    <3> HIDE DEF now
    <3>1. apply'.at = "answered" /\ apply'.snap = now /\ apply' \in Applies
      BY <2>1, <2>2 DEF CardInv, CardTypeOK, Applies
    <3>2. CardTypeOK'
      BY <2>1, <2>2, <3>1 DEF CardInv, CardTypeOK
    <3>3. FenceHolds'
      BY <2>3, <3>1 DEF FenceHolds, now
    <3>4. ScreenHolds'
      BY <3>1 DEF ScreenHolds
    <3> QED
      BY <3>2, <3>3, <3>4 DEF CardInv
  <2> QED
    BY <2>4, <2>5
<1>7. CASE ApplyWrites
  <2> DEFINE ops == FormatOps(card.draft, apply.snap)
  <2>1. apply.at = "answered" /\ UNCHANGED <<doc, panel, reads, saves, unsaved, lapsed, moved, spent>>
    BY <1>7 DEF ApplyWrites, panelVars
  <2>2. PInv'
    BY <1>1, <2>1, PanelAside
  <2>3. CASE ops = {}
    <3>1. card' = [card EXCEPT !.saved = card.draft, !.busy = FALSE] /\ apply' = Idle
      BY <1>7, <2>3 DEF ApplyWrites
    <3>2. card' \in Drafted
      BY <3>1, CardFields
    <3> QED
      BY <2>2, <3>1, <3>2, IdleType, AtRest
  <2>4. CASE ops # {}
    <3>1. /\ apply' = [apply EXCEPT !.at = "sent", !.snap = None, !.ops = ops, !.draft = card.draft]
          /\ UNCHANGED card
      BY <1>7, <2>4 DEF ApplyWrites
    <3>2. ops \in SUBSET FormatKeys /\ \A k \in FormatKeys \ ops : card.draft[k] = apply.snap[k]
      BY DEF FormatOps
    <3> HIDE DEF ops
    <3>3. /\ apply'.at = "sent" /\ apply'.ops = ops /\ apply'.draft = card.draft /\ apply'.fresh = apply.fresh
          /\ apply' \in Applies
      BY <3>1, <3>2, CardFields DEF CardInv, CardTypeOK, Applies
    <3>4. CardTypeOK'
      BY <3>1, <3>3, CardFields DEF CardInv, CardTypeOK
    <3>5. apply.fresh => \A k \in FormatKeys : apply.snap[k] = doc.cells[<<"format", k>>]
      BY <2>1 DEF CardInv, FenceHolds, FormatOf
    <3>6. FenceHolds'
      BY <2>1, <3>2, <3>3, <3>5 DEF FenceHolds
    <3>7. ScreenHolds'
      BY <3>1, <3>3 DEF ScreenHolds
    <3> QED
      BY <2>2, <3>4, <3>6, <3>7 DEF CardInv
  <2> QED
    BY <2>3, <2>4
<1>8. CASE ApplyLands
  <2> DEFINE left == FormatOf(doc')
  <2>1. /\ apply.at = "sent" /\ apply' = [Idle EXCEPT !.at = "landed", !.snap = left, !.since = apply.since]
        /\ UNCHANGED <<panel, reads, saves, unsaved, lapsed, moved, spent, card>>
    BY <1>8 DEF ApplyLands
  <2>2. /\ doc' \in Doc /\ doc'.api = doc.api
        /\ left \in FormatDraft /\ \A k \in FormatKeys : left[k] = apply.draft[k]
    BY <1>1, <1>8, LandedLeaves DEF CardInv
  <2>3. PInv'
    BY <1>1, <2>1, <2>2, PanelAside
  <2>4. CardInv'
    <3> HIDE DEF left
    <3>1. apply.since \in SUBSET FormatKeys
      BY DEF CardInv, CardTypeOK, Applies
    <3>2. apply' \in Applies /\ apply'.at = "landed" /\ apply'.snap = left /\ apply'.since = apply.since
      BY <2>1, <2>2, <3>1 DEF Idle, Applies
    <3>3. CardTypeOK'
      BY <2>1, <2>2, <3>2 DEF CardInv, CardTypeOK
    <3>4. FenceHolds'
      BY <3>2 DEF FenceHolds
    <3>5. ScreenHolds'
      BY <2>1, <2>2, <3>2 DEF CardInv, ScreenHolds
    <3> QED
      BY <3>3, <3>4, <3>5 DEF CardInv
  <2> QED
    BY <2>3, <2>4
<1>9. CASE ApplyFails
  <2>1. /\ UNCHANGED spent \/ Spend("others", MaxOthers)
        /\ card' = [card EXCEPT !.busy = FALSE] /\ apply' = Idle
        /\ UNCHANGED <<doc, panel, reads, saves, unsaved, lapsed, moved>>
    BY <1>9 DEF ApplyFails
  <2>2. spent' \in Spent
    BY <1>1, <2>1, SpentType DEF PInv
  <2>3. card' \in Drafted
    BY <2>1, CardFields
  <2> QED
    BY <1>1, <2>1, <2>2, <2>3, IdleType, AtRest, PanelAside
<1>10. CASE ApplyAccepted
  <2>1. /\ card' = [card EXCEPT !.saved = card.draft, !.busy = FALSE] /\ apply' = Idle
        /\ reads' = reads \union {Asked("card"), Asked("panel")}
        /\ UNCHANGED <<doc, panel, saves, unsaved, lapsed, moved, spent>>
    BY <1>10 DEF ApplyAccepted
  <2>2. \A r \in reads' : r \in reads \/ (IsRead(r) /\ r.at = "asked")
    BY <2>1, AskedIsRead
  <2>3. card' \in Drafted
    BY <2>1, CardFields
  <2> QED
    BY <1>1, <2>1, <2>2, <2>3, IdleType, AtRest, PanelAside
<1> QED
  BY <1>2, <1>3, <1>4, <1>5, <1>6, <1>7, <1>8, <1>9, <1>10 DEF ApplyAnswers

----------------------------------------------------------------------------
(* The page.                                                               *)

LEMMA InitKeeps == Init => IInv
<1> SUFFICES ASSUME Init PROVE IInv
  OBVIOUS
<1>1. Initially \in Held
  BY PageConstants, HeldClosed DEF Initially
<1>2. doc \in Doc
  <2> DEFINE cells == [c \in Cells |-> IF c \in Compat THEN "absent" ELSE Initially]
  <2>1. cells \in [Cells -> Held]
    BY <1>1, HeldClosed
  <2>2. doc \in [cells : {cells}, api : Apis]
    BY DEF Init, PanelInit
  <2> HIDE DEF cells
  <2> QED
    BY <2>1, <2>2 DEF Doc
<1>3. View(doc) \in [PanelCells -> Held] /\ FormatOf(doc) \in FormatDraft
  BY <1>2, ViewType
<1>4. PanelTypeOK
  BY <1>2, <1>3 DEF Init, PanelInit, PanelTypeOK, Panel, Doc, Spent
<1>5. CardTypeOK
  BY <1>3, IdleType DEF Init, CardTypeOK, Drafted
<1>6. EditsInv /\ Unmoved
  BY CellFacts DEF Init, PanelInit, EditsInv, MarkedIsEdited, EditedIsMarked, SavesMatchEdits,
                   SavesWriteOnlyEdits, RowlessUnmarked, Unmoved
<1>7. FenceHolds /\ ScreenHolds
  BY IdleType DEF Init, FenceHolds, ScreenHolds
<1> QED
  BY <1>4, <1>5, <1>6, <1>7 DEF IInv, PageTypeOK

LEMMA NextKeeps == IInv /\ [Next]_vars => IInv'
<1> SUFFICES ASSUME IInv, [Next]_vars PROVE IInv'
  OBVIOUS
<1>1. PInv /\ CardInv
  BY DEF IInv, PageTypeOK, PInv, CardInv
<1>2. CASE PanelNext /\ UNCHANGED card /\ Fenced
  <2>1. PInv' /\ CardInv'
    BY <1>1, <1>2, PanelStep, FencedKeeps
  <2> QED
    BY <2>1 DEF IInv, PageTypeOK, PInv, CardInv
<1>3. CASE \/ \E k \in FormatKeys, v \in Values : CardEdits(k, v)
           \/ \E r \in reads : CardReads(r) \/ CardReadFails(r)
           \/ Apply \/ ApplyAnswers \/ ApplyFails
  <2>1. PInv' /\ CardInv'
    BY <1>1, <1>3, CardStep
  <2> QED
    BY <2>1 DEF IInv, PageTypeOK, PInv, CardInv
<1>4. CASE UNCHANGED vars
  <2>1. UNCHANGED <<doc, panel, reads, saves, unsaved, lapsed, moved, spent, card, apply>>
    BY <1>4 DEF vars, panelVars
  <2>2. doc \in Doc /\ spent \in Spent /\ card \in Drafted
    BY <1>1 DEF PInv, PanelTypeOK, CardInv, CardTypeOK
  <2>3. PInv' /\ CardInv'
    BY <1>1, <2>1, <2>2, PanelAside, ApplyAside
  <2> QED
    BY <2>3 DEF IInv, PageTypeOK, PInv, CardInv
<1> QED
  BY <1>2, <1>3, <1>4 DEF Next

LEMMA Inductive == Spec => []IInv
BY InitKeeps, NextKeeps, PTL DEF Spec

\* The page's variables keep their types: a read that was answered holds a
\* section, and a save holds the drafts and the edits of its own group.
THEOREM TypeCorrect == Spec => []PageTypeOK
<1>1. IInv => PageTypeOK
  BY DEF IInv
<1> QED
  BY <1>1, Inductive, PTL

\* An edit of the panel stays on screen, marked, until it is saved, whatever
\* reads and saves come in between (section-editor/state.ts:79-81).
THEOREM EditsKeptHolds == Spec => []EditsKept
<1>1. IInv => EditsKept
  BY DEF IInv, EditsInv, EditsKept, MarkedIsEdited, EditedIsMarked
<1> QED
  BY <1>1, Inductive, PTL

\* A save writes what the user has edited, as last edited, and nothing the panel
\* merely shows (SectionEditor.tsx:217-219, 500-502).
THEOREM SavesWriteOnlyEditsHolds == Spec => []SavesWriteOnlyEdits
<1>1. IInv => SavesWriteOnlyEdits
  BY DEF IInv, EditsInv
<1> QED
  BY <1>1, Inductive, PTL

\* A batch holds a field the service refuses only if the route has been given
\* another protocol (gateway/fields.ts:134-142).
THEOREM RefusedOnlyIfMovedHolds == Spec => []RefusedOnlyIfMoved
<1>1. IInv => RefusedOnlyIfMoved
  BY DEF IInv, Unmoved, RefusedOnlyIfMoved, Unoffered
<1> QED
  BY <1>1, Inductive, PTL

\* What an apply reports as saved is what the service held when it answered it, but
\* for the fields drafted anew while the write was under way
\* (OpenCodeFormatCard.tsx:255-287).
THEOREM AppliedMeansStoredHolds == Spec => AppliedMeansStored
<1>1. IInv /\ [Next]_vars =>
        [ApplyAccepted \/ (ApplyWrites /\ apply'.at = "idle") =>
           \A k \in FormatKeys \ apply.since : card'.saved[k] = apply.snap[k]]_vars
  <2> SUFFICES ASSUME IInv, NEW k \in FormatKeys \ apply.since,
                      ApplyAccepted \/ (ApplyWrites /\ apply'.at = "idle")
               PROVE  card'.saved[k] = apply.snap[k]
    OBVIOUS
  <2>1. card \in Drafted
    BY DEF IInv, PageTypeOK, CardTypeOK
  <2>2. CASE ApplyAccepted
    <3>1. apply.at = "landed" /\ card'.saved = card.draft
      BY <2>1, <2>2 DEF ApplyAccepted, Drafted
    <3> QED
      BY <3>1 DEF IInv, ScreenHolds
  <2>3. CASE ApplyWrites /\ apply'.at = "idle"
    <3> DEFINE ops == FormatOps(card.draft, apply.snap)
    <3>1. ops = {} /\ card' = [card EXCEPT !.saved = card.draft, !.busy = FALSE]
      <4>1. ops # {} => apply'.at = "sent"
        BY <2>3 DEF ApplyWrites, IInv, PageTypeOK, CardTypeOK, Applies
      <4> QED
        BY <2>3, <4>1 DEF ApplyWrites
    <3>2. card.draft[k] = apply.snap[k]
      BY <3>1 DEF FormatOps
    <3>3. card'.saved = card.draft
      BY <2>1, <3>1 DEF Drafted
    <3> QED
      BY <3>2, <3>3
  <2> QED
    BY <2>2, <2>3
<1> QED
  BY <1>1, Inductive, PTL DEF Spec, AppliedMeansStored
=============================================================================
