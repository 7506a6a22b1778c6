-------------------------- MODULE ConfigImportProofs --------------------------
(***************************************************************************)
(* What an import promises, for every file, registry and number of         *)
(* imports.  A write is fenced with the revision of the read the plan was  *)
(* made from (or with that of the copy written on top of it), so when the  *)
(* fence still holds the namespace is what was read, and the plan is the   *)
(* plan of what the namespace holds: that is the invariant (IInv) behind   *)
(* the refinement and the wiring.  A second one (CopyInv) follows the copy *)
(* in the same way, and is what the rollback rests on.                     *)
(***************************************************************************)
EXTENDS ConfigImport, TLAPS

----------------------------------------------------------------------------
(* The plan.                                                               *)

LEMMA DictIs == ASSUME NEW d \in Dict PROVE DOMAIN d \in SUBSET Items /\ d \in [DOMAIN d -> Part]
BY DEF Dict

LEMMA IsDict == ASSUME NEW K \in SUBSET Items, NEW d \in [K -> Part] PROVE d \in Dict /\ DOMAIN d = K
BY DEF Dict

LEMMA SectionFields ==
  ASSUME NEW s \in Section
  PROVE  s.dict \in Dict \union {Missing} /\ s.effort \in Efforts \union {Missing}
BY DEF Section

LEMMA SectionWithDict ==
  ASSUME NEW s \in Section, NEW d \in Dict \union {Missing}
  PROVE  [s EXCEPT !.dict = d] \in Section /\ [s EXCEPT !.dict = d].dict = d
BY DEF Section

LEMMA SectionWithBoth ==
  ASSUME NEW s \in Section, NEW d \in Dict \union {Missing}, NEW e \in Efforts \union {Missing}
  PROVE  /\ [s EXCEPT !.dict = d, !.effort = e] \in Section
         /\ [s EXCEPT !.dict = d, !.effort = e].dict = d
BY DEF Section

LEMMA ForEntryType == ASSUME NEW file \in Sections PROVE ForEntryConfig(file) \in Sections
<1>1. file["plugin"] \in Section /\ file["llm"] \in Section
  BY DEF Sections, Namespaces
<1>2. CASE ~EntryConfig
  BY <1>2 DEF ForEntryConfig
<1>3. CASE EntryConfig
  <2> DEFINE e == IF file["plugin"].effort = Missing THEN file["llm"].effort ELSE file["plugin"].effort
  <2>1. e \in Efforts \union {Missing}
    BY <1>1, SectionFields
  <2>2. ForEntryConfig(file) = [plugin |-> [file["plugin"] EXCEPT !.effort = e],
                                llm |-> [file["llm"] EXCEPT !.effort = Missing]]
    BY <1>3 DEF ForEntryConfig
  <2> HIDE DEF e
  <2>3. [file["plugin"] EXCEPT !.effort = e] \in Section /\ [file["llm"] EXCEPT !.effort = Missing] \in Section
    BY <1>1, <2>1 DEF Section
  <2> QED
    BY <2>2, <2>3 DEF Sections, Namespaces
<1> QED
  BY <1>2, <1>3

LEMMA DeclaredType ==
  ASSUME NEW ns \in Namespaces, NEW s \in Section
  PROVE  Declared(ns, s) \in Section /\ Declared(ns, s).dict = s.dict
BY DEF Declared, Section

\* What the wiring rule leaves of a part.
LEMMA RewiredType ==
  ASSUME NEW part \in Part, NEW dict \in Dict \union {Missing}, NEW k \in Items, NEW wire \in BOOLEAN
  PROVE  /\ Local(dict, k) \in Part
         /\ Rewired(part, dict, k, wire) \in Part
         /\ ~wire => Rewired(part, dict, k, wire).wiring = Local(dict, k).wiring
<1>1. Local(dict, k) \in Part
  <2>1. EmptyPart \in Part
    BY DEF EmptyPart, Part
  <2>2. dict # Missing /\ k \in DOMAIN dict => dict[k] \in Part
    BY DictIs
  <2> QED
    BY <2>1, <2>2 DEF Local
<1> DEFINE w == Local(dict, k).wiring
<1>2. w \in Wirings \union {Missing}
  BY <1>1 DEF Part
<1>3. Rewired(part, dict, k, wire) = IF wire THEN part ELSE [part EXCEPT !.wiring = w]
  BY DEF Rewired
<1> HIDE DEF w
<1>4. [part EXCEPT !.wiring = w] \in Part /\ [part EXCEPT !.wiring = w].wiring = w
  BY <1>2 DEF Part
<1> QED
  BY <1>1, <1>3, <1>4 DEF w

\* The incoming section stays a section; without the opt-in its dict carries
\* the wiring this machine has.
LEMMA AdjustType ==
  ASSUME NEW ns \in Namespaces, NEW incoming \in Section, NEW current \in Section, NEW wire \in BOOLEAN
  PROVE  LET a == AdjustIncoming(ns, incoming, current, wire)
         IN  /\ a \in Section
             /\ ~wire /\ a.dict # Missing =>
                  \A k \in DOMAIN a.dict : a.dict[k].wiring = Local(current.dict, k).wiring
<1> DEFINE a == AdjustIncoming(ns, incoming, current, wire)
<1>1. CASE incoming.dict = Missing
  BY <1>1 DEF AdjustIncoming
<1>2. CASE incoming.dict # Missing
  <2> DEFINE new(k) == Rewired(incoming.dict[k], current.dict, k, wire)
  <2> DEFINE known == IF current.dict = Missing THEN {} ELSE DOMAIN current.dict
  <2> DEFINE kept == {k \in DOMAIN incoming.dict : ns = "plugin" \/ k \in known \/ new(k) # EmptyPart}
  <2> DEFINE d == [k \in kept |-> new(k)]
  <2>1. a = [incoming EXCEPT !.dict = d]
    BY <1>2 DEF AdjustIncoming
  <2>2. incoming.dict \in Dict /\ current.dict \in Dict \union {Missing}
    BY <1>2, SectionFields
  <2>3. DOMAIN incoming.dict \in SUBSET Items /\ \A k \in DOMAIN incoming.dict : incoming.dict[k] \in Part
    BY <2>2, DictIs
  <2>4. \A k \in kept : new(k) \in Part /\ (~wire => new(k).wiring = Local(current.dict, k).wiring)
    BY <2>2, <2>3, RewiredType
  <2>5. kept \in SUBSET Items
    BY <2>3
  <2> HIDE DEF new, kept
  <2>6. d \in [kept -> Part]
    BY <2>4
  <2>7. d \in Dict /\ DOMAIN d = kept
    BY <2>5, <2>6, IsDict
  <2>8. \A k \in kept : d[k] = new(k)
    OBVIOUS
  <2> HIDE DEF d
  <2>9. a \in Section /\ a.dict = d
    BY <2>1, <2>7, SectionWithDict
  <2> HIDE DEF a
  <2>10. ~wire /\ a.dict # Missing =>
           \A k \in DOMAIN a.dict : a.dict[k].wiring = Local(current.dict, k).wiring
    BY <2>4, <2>7, <2>8, <2>9
  <2> QED
    BY <2>9, <2>10 DEF a
<1> QED
  BY <1>1, <1>2

LEMMA OverType ==
  ASSUME NEW f \in Dict, NEW g \in Dict
  PROVE  /\ Over(f, g) \in Dict
         /\ DOMAIN Over(f, g) = DOMAIN f \union DOMAIN g
         /\ \A x \in DOMAIN Over(f, g) : Over(f, g)[x] = IF x \in DOMAIN f THEN f[x] ELSE g[x]
<1>1. /\ DOMAIN f \in SUBSET Items /\ DOMAIN g \in SUBSET Items
      /\ \A x \in DOMAIN f : f[x] \in Part
      /\ \A x \in DOMAIN g : g[x] \in Part
  BY DictIs
<1> DEFINE K == DOMAIN f \union DOMAIN g
<1>2. Over(f, g) \in [K -> Part] /\ K \in SUBSET Items
  BY <1>1 DEF Over
<1>3. \A x \in K : Over(f, g)[x] = IF x \in DOMAIN f THEN f[x] ELSE g[x]
  BY DEF Over
<1> HIDE DEF K
<1>4. Over(f, g) \in Dict /\ DOMAIN Over(f, g) = K
  BY <1>2, IsDict
<1> QED
  BY <1>3, <1>4 DEF K

\* What a plan writes to a section is a section; without the opt-in every item
\* of it sends its requests where it sent them before.
LEMMA PlanKeepsWiring ==
  ASSUME NEW ns \in Namespaces, NEW file \in Sections, NEW section \in Section,
         NEW mode \in {"merge", "replace"}, NEW wire \in BOOLEAN
  PROVE  LET w == Written(section, Ops(ns, file, section, mode, wire))
         IN  /\ w \in Section
             /\ ~wire /\ w.dict # Missing =>
                  \A k \in DOMAIN w.dict : w.dict[k].wiring = Local(section.dict, k).wiring
<1> DEFINE current == Declared(ns, section)
<1> DEFINE incoming == AdjustIncoming(ns, ForEntryConfig(file)[ns], current, wire)
<1> DEFINE new(k) == Planned(k, incoming, current, mode)
<1> DEFINE ops == Ops(ns, file, section, mode, wire)
<1> DEFINE d == IF "dict" \in DOMAIN ops THEN ops["dict"] ELSE section.dict
<1> DEFINE e == IF "effort" \in DOMAIN ops THEN ops["effort"] ELSE section.effort
<1>1. current \in Section /\ current.dict = section.dict
  BY DeclaredType
<1>2. ForEntryConfig(file)[ns] \in Section
  BY ForEntryType DEF Sections
<1> HIDE DEF current
<1>3. /\ incoming \in Section
      /\ ~wire /\ incoming.dict # Missing =>
           \A k \in DOMAIN incoming.dict : incoming.dict[k].wiring = Local(section.dict, k).wiring
  <2> DEFINE own == ForEntryConfig(file)[ns]
  <2>1. own \in Section /\ incoming = AdjustIncoming(ns, own, current, wire)
    BY <1>2
  <2> HIDE DEF own, incoming
  <2>2. /\ AdjustIncoming(ns, own, current, wire) \in Section
        /\ ~wire /\ AdjustIncoming(ns, own, current, wire).dict # Missing =>
             \A k \in DOMAIN AdjustIncoming(ns, own, current, wire).dict :
               AdjustIncoming(ns, own, current, wire).dict[k].wiring = Local(current.dict, k).wiring
    BY <1>1, <2>1, AdjustType
  <2> QED
    BY <1>1, <2>1, <2>2
<1>4. /\ "dict" \in DOMAIN ops => ops["dict"] = new("dict")
      /\ "effort" \in DOMAIN ops => ops["effort"] = new("effort")
  BY DEF Ops, current
<1> HIDE DEF incoming, ops
<1>5. new("effort") \in Efforts \union {Missing}
  BY <1>3, SectionFields DEF Planned
<1>6. /\ new("dict") \in Dict \union {Missing}
      /\ ~wire /\ new("dict") # Missing =>
           \A k \in DOMAIN new("dict") : new("dict")[k].wiring = Local(section.dict, k).wiring
  <2>1. CASE mode = "merge" /\ Missing \notin {incoming.dict, current.dict}
    <3>1. new("dict") = Over(incoming.dict, current.dict)
      BY <2>1 DEF Planned
    <3>2. incoming.dict \in Dict /\ current.dict \in Dict
      BY <1>1, <1>3, <2>1, SectionFields
    <3>3. \A k \in DOMAIN current.dict : current.dict[k].wiring = Local(section.dict, k).wiring
      BY <1>1, <2>1 DEF Local
    <3> DEFINE f == incoming.dict
    <3> DEFINE g == current.dict
    <3>4. f \in Dict /\ g \in Dict
      BY <3>2
    <3> HIDE DEF f, g
    <3>5. /\ Over(f, g) \in Dict
          /\ DOMAIN Over(f, g) = DOMAIN f \union DOMAIN g
          /\ \A x \in DOMAIN Over(f, g) : Over(f, g)[x] = IF x \in DOMAIN f THEN f[x] ELSE g[x]
      BY <3>4, OverType
    <3> QED
      BY <1>3, <2>1, <3>1, <3>3, <3>5 DEF f, g
  <2>2. CASE ~(mode = "merge" /\ Missing \notin {incoming.dict, current.dict})
    <3>1. new("dict") = incoming.dict
      BY <2>2 DEF Planned
    <3> QED
      BY <1>3, <3>1, SectionFields
  <2> QED
    BY <2>1, <2>2
<1> HIDE DEF new
<1>7. d \in Dict \union {Missing} /\ e \in Efforts \union {Missing}
  BY <1>4, <1>5, <1>6, SectionFields
<1>8. ~wire /\ d # Missing => \A k \in DOMAIN d : d[k].wiring = Local(section.dict, k).wiring
  BY <1>4, <1>6 DEF Local
<1>9. Written(section, ops) = [section EXCEPT !.dict = d, !.effort = e]
  BY DEF Written
<1> HIDE DEF d, e
<1>10. Written(section, ops) \in Section /\ Written(section, ops).dict = d
  <2>1. [section EXCEPT !.dict = d, !.effort = e] \in Section
        /\ [section EXCEPT !.dict = d, !.effort = e].dict = d
    BY <1>7, SectionWithBoth
  <2> QED
    BY <1>9, <2>1
<1>11. ~wire /\ Written(section, ops).dict # Missing =>
         \A k \in DOMAIN Written(section, ops).dict :
           Written(section, ops).dict[k].wiring = Local(section.dict, k).wiring
  BY <1>8, <1>10
<1> QED
  BY <1>10, <1>11 DEF ops

\* The abstract specification speaks of the same plan.
LEMMA SamePlan ==
  /\ Promise!Sections = Sections /\ Promise!Section = Section /\ Promise!Namespaces = Namespaces
  /\ \A ns, file, section, mode, wire :
       Promise!Written(section, Promise!Ops(ns, file, section, mode, wire))
         = Written(section, Ops(ns, file, section, mode, wire))
<1>1. /\ Promise!Sections = Sections /\ Promise!Section = Section /\ Promise!Namespaces = Namespaces
  BY DEF Promise!Sections, Sections, Promise!Section, Section, Promise!Namespaces, Namespaces,
         Promise!Dict, Dict, Promise!Part, Part
<1>2. ASSUME NEW file PROVE Promise!ForEntryConfig(file) = ForEntryConfig(file)
  BY DEF Promise!ForEntryConfig, ForEntryConfig
<1>3. ASSUME NEW ns, NEW section PROVE Promise!Declared(ns, section) = Declared(ns, section)
  BY DEF Promise!Declared, Declared
<1>4. ASSUME NEW part, NEW dict, NEW k, NEW wire
      PROVE  Promise!Rewired(part, dict, k, wire) = Rewired(part, dict, k, wire)
  BY DEF Promise!Rewired, Rewired, Promise!Local, Local, Promise!EmptyPart, EmptyPart
<1>5. ASSUME NEW ns, NEW incoming, NEW current, NEW wire
      PROVE  Promise!AdjustIncoming(ns, incoming, current, wire) = AdjustIncoming(ns, incoming, current, wire)
  BY <1>4 DEF Promise!AdjustIncoming, AdjustIncoming, Promise!EmptyPart, EmptyPart
<1>6. ASSUME NEW key, NEW incoming, NEW current, NEW mode
      PROVE  Promise!Planned(key, incoming, current, mode) = Planned(key, incoming, current, mode)
  BY DEF Promise!Planned, Planned, Promise!Over, Over
<1>7. ASSUME NEW ns, NEW file, NEW section, NEW mode, NEW wire
      PROVE  Promise!Ops(ns, file, section, mode, wire) = Ops(ns, file, section, mode, wire)
  BY <1>2, <1>3, <1>5, <1>6 DEF Promise!Ops, Ops, Promise!Keys, Keys
<1>8. ASSUME NEW section, NEW ops PROVE Promise!Written(section, ops) = Written(section, ops)
  BY DEF Promise!Written, Written
<1> QED
  BY <1>1, <1>7, <1>8

----------------------------------------------------------------------------
(* The invariant.                                                          *)

Modes == {"merge", "replace"}
Plans == {NoOps} \union {PlanImport(f, s, m, w) : f \in Sections, s \in Sections, m \in Modes, w \in BOOLEAN}
Stages == {"describe", "backup", "plugin", "llm", "report", "skipped", "unread", "threw", "done"}

\* An import under way.
Record == [at : Stages, file : Sections, mode : Modes, wire : BOOLEAN,
           read : Sections \union {None}, fence : [Namespaces -> Nat], plan : Plans,
           copied : BOOLEAN, ok : SUBSET Namespaces, failed : SUBSET Namespaces]

\* The namespaces an import may still write.
Pending(at) == IF at \in {"backup", "plugin"} THEN Namespaces ELSE {"llm"}

\* What an import that is about to write knows of the settings: its plan is the
\* plan of what it read, and a namespace whose fence holds is what it read.
FromRead(im, r, d) ==
  im.at \in {"backup", "plugin", "llm"} =>
    /\ im.read \in Sections
    /\ im.plan = PlanImport(im.file, im.read, im.mode, im.wire)
    /\ \A ns \in Pending(im.at) :
         im.fence[ns] <= r[ns] /\ (im.fence[ns] = r[ns] => d[ns] = im.read[ns])

SettingsTyped ==
  /\ docs \in Sections /\ rev \in [Namespaces -> Nat]
  /\ backup \in Sections \union {None} /\ imported \in [Namespaces -> Nat]

IInv ==
  /\ SettingsTyped
  /\ card \in Card
  /\ imports \in Seq(Record)
  /\ \A i \in DOMAIN imports : FromRead(imports[i], rev, docs)

\* A revision that moves on invalidates every fence of its namespace.
Moved(r, rr, d, dd, ns) ==
  rr = [r EXCEPT ![ns] = @ + 1] /\ \A m \in Namespaces \ {ns} : dd[m] = d[m]

LEMMA PendingIn == \A at : Pending(at) \subseteq Namespaces
BY DEF Pending, Namespaces

LEMMA MovedKeeps ==
  ASSUME NEW r \in [Namespaces -> Nat], NEW rr, NEW d, NEW dd, NEW ns \in Namespaces,
         Moved(r, rr, d, dd, ns), NEW im \in Record, FromRead(im, r, d)
  PROVE  FromRead(im, rr, dd)
<1>1. ASSUME NEW m \in Namespaces, im.fence[m] <= r[m], im.fence[m] = r[m] => d[m] = im.read[m]
      PROVE  im.fence[m] <= rr[m] /\ (im.fence[m] = rr[m] => dd[m] = im.read[m])
  <2>1. im.fence[m] \in Nat /\ r[m] \in Nat
    BY DEF Record
  <2>2. CASE m = ns
    <3>1. rr[m] = r[m] + 1
      BY <2>2 DEF Moved
    <3> QED
      BY <1>1, <2>1, <3>1
  <2>3. CASE m # ns
    BY <1>1, <2>3 DEF Moved
  <2> QED
    BY <2>2, <2>3
<1> QED
  BY <1>1, PendingIn DEF FromRead

\* An import moves on: the others keep what they know.
LEMMA ImportMoves ==
  ASSUME IInv, NEW i \in DOMAIN imports, NEW im \in Record, imports' = [imports EXCEPT ![i] = im],
         im.file = imports[i].file, FromRead(im, rev', docs'), SettingsTyped', card' \in Card,
         \/ rev' = rev /\ docs' = docs
         \/ \E ns \in Namespaces : Moved(rev, rev', docs, docs', ns)
  PROVE  IInv' /\ {imports'[j].file : j \in DOMAIN imports'} = {imports[j].file : j \in DOMAIN imports}
<1>1. /\ imports \in Seq(Record) /\ imports' \in Seq(Record) /\ DOMAIN imports' = DOMAIN imports
      /\ \A j \in DOMAIN imports : imports'[j] = IF j = i THEN im ELSE imports[j]
  BY DEF IInv
<1>2. ASSUME NEW j \in DOMAIN imports PROVE FromRead(imports'[j], rev', docs')
  <2>1. CASE j = i
    BY <1>1, <2>1
  <2>2. CASE j # i
    <3>1. imports'[j] = imports[j] /\ imports[j] \in Record /\ FromRead(imports[j], rev, docs)
          /\ rev \in [Namespaces -> Nat]
      BY <1>1, <2>2 DEF IInv, SettingsTyped
    <3>2. CASE rev' = rev /\ docs' = docs
      BY <3>1, <3>2
    <3>3. CASE \E ns \in Namespaces : Moved(rev, rev', docs, docs', ns)
      BY <3>1, <3>3, MovedKeeps
    <3> QED
      BY <3>2, <3>3
  <2> QED
    BY <2>1, <2>2
<1>3. IInv'
  BY <1>1, <1>2 DEF IInv
<1>4. \A j \in DOMAIN imports : imports'[j].file = imports[j].file
  BY <1>1
<1> QED
  BY <1>1, <1>3, <1>4

\* The settings, or the card, move without an import: all imports keep what
\* they know.
LEMMA SettingsMove ==
  ASSUME IInv, imports' = imports, SettingsTyped', card' \in Card,
         \/ rev' = rev /\ docs' = docs
         \/ \E ns \in Namespaces : Moved(rev, rev', docs, docs', ns)
  PROVE  IInv'
<1>1. ASSUME NEW j \in DOMAIN imports PROVE FromRead(imports[j], rev', docs')
  <2>1. imports[j] \in Record /\ FromRead(imports[j], rev, docs) /\ rev \in [Namespaces -> Nat]
    BY DEF IInv, SettingsTyped
  <2>2. CASE rev' = rev /\ docs' = docs
    BY <2>1, <2>2
  <2>3. CASE \E ns \in Namespaces : Moved(rev, rev', docs, docs', ns)
    BY <2>1, <2>3, MovedKeeps
  <2> QED
    BY <2>2, <2>3
<1> QED
  BY <1>1 DEF IInv

LEMMA BumpType ==
  ASSUME SettingsTyped, NEW ns \in Namespaces, Bump(ns)
  PROVE  rev' \in [Namespaces -> Nat] /\ rev' = [rev EXCEPT ![ns] = @ + 1]
<1> DEFINE n == rev[ns] + 1
<1>1. n \in Nat
  BY DEF SettingsTyped
<1>2. rev' = [rev EXCEPT ![ns] = n]
  BY DEF Bump
<1> HIDE DEF n
<1>3. rev' \in [Namespaces -> Nat]
  BY <1>1, <1>2 DEF SettingsTyped
<1> QED
  BY <1>3 DEF Bump

LEMMA FollowingIn == \A at, plan : Following(at, plan) \in {"plugin", "llm", "report"}
BY DEF Following

LEMMA CardWith ==
  ASSUME card \in Card, NEW b \in BOOLEAN, NEW p \in Sections \union {None}
  PROVE  /\ [card EXCEPT !.busy = b] \in Card
         /\ [card EXCEPT !.preview = p] \in Card
         /\ [card EXCEPT !.busy = b, !.preview = p] \in Card
BY DEF Card

LEMMA InitInv == Init => IInv
<1> SUFFICES ASSUME Init PROVE IInv
  OBVIOUS
<1>1. docs \in Sections /\ rev \in [Namespaces -> Nat] /\ backup = None /\ imported \in [Namespaces -> Nat]
  BY ImportConstants DEF Init
<1>2. card \in Card
  BY DEF Init, Card
<1>3. imports \in Seq(Record) /\ DOMAIN imports = {}
  BY DEF Init
<1> QED
  BY <1>1, <1>2, <1>3 DEF IInv, SettingsTyped

----------------------------------------------------------------------------
(* The steps.  Each keeps the invariant; what it does to the settings is    *)
(* either nothing or one of the steps of the abstract specification.        *)

Offered == {imports[i].file : i \in DOMAIN imports}
Quiet == UNCHANGED <<docs, imported>> /\ Offered' = Offered

\* One namespace goes to what the plan makes of what it holds.
Applies(im, ns) ==
  /\ imported' = [imported EXCEPT ![ns] = @ + 1]
  /\ docs' = [docs EXCEPT ![ns] = Written(docs[ns], Ops(ns, im.file, docs[ns], im.mode, im.wire))]

\* No other import moves.
Alike(i) == \A j \in DOMAIN imports \ {i} : imports'[j] = imports[j]

LEMMA RecordFields ==
  ASSUME NEW im \in Record
  PROVE  /\ im.at \in Stages /\ im.file \in Sections /\ im.mode \in Modes /\ im.wire \in BOOLEAN
         /\ im.fence \in [Namespaces -> Nat] /\ im.plan \in Plans
         /\ im.ok \in SUBSET Namespaces /\ im.failed \in SUBSET Namespaces
BY DEF Record

LEMMA CardFields == ASSUME card \in Card PROVE card.preview \in Sections \union {None}
BY DEF Card

\* Steps that leave the settings and the imports alone.
LEMMA CardSteps ==
  ASSUME IInv,
         \/ LoadAnswers
         \/ \E snapshot \in Files \union ({backup} \ {None}) : Preview(snapshot)
         \/ FileFails \/ Cancel
         \/ \E kind \in {"profile", "rescan"} : EditStarts(kind)
         \/ \E ok \in BOOLEAN : EditReads(ok)
  PROVE  IInv' /\ Quiet
<1>1. UNCHANGED <<docs, rev, backup, imported, imports>>
  BY DEF LoadAnswers, Preview, FileFails, Cancel, EditStarts, EditReads, settings
<1>2. card' \in Card
  <2>1. card \in Card /\ TRUE \in BOOLEAN /\ FALSE \in BOOLEAN /\ None \in Sections \union {None}
    BY DEF IInv
  <2>2. ASSUME LoadAnswers PROVE card' \in Card
    BY <2>1, <2>2 DEF LoadAnswers, Card
  <2>3. ASSUME NEW snapshot \in Files \union ({backup} \ {None}), Preview(snapshot) PROVE card' \in Card
    <3>1. snapshot \in Sections \union {None}
      BY ImportConstants DEF IInv, SettingsTyped
    <3> QED
      BY <2>1, <2>3, <3>1 DEF Preview, Card
  <2>4. ASSUME Cancel PROVE card' \in Card
    BY <2>1, <2>4 DEF Cancel, Card
  <2>7. ASSUME FileFails PROVE card' \in Card
    <3>1. \A b \in BOOLEAN, p \in Sections \union {None} : [busy |-> b, preview |-> p] \in Card
      BY DEF Card
    <3>2. card' = [busy |-> FALSE, preview |-> None]
      BY <2>7 DEF FileFails
    <3> QED
      BY <2>1, <3>1, <3>2
  <2>5. ASSUME NEW kind, EditStarts(kind) PROVE card' \in Card
    BY <2>1, <2>5 DEF EditStarts, Card
  <2>6. ASSUME NEW ok \in BOOLEAN, EditReads(ok) PROVE card' \in Card
    <3> DEFINE b == ok /\ edit.kind = "profile"
    <3>1. b \in BOOLEAN /\ card' = [card EXCEPT !.busy = b]
      BY <2>6 DEF EditReads
    <3> HIDE DEF b
    <3> QED
      BY <2>1, <3>1 DEF Card
  <2> QED
    BY <2>2, <2>3, <2>4, <2>5, <2>6, <2>7
<1>3. SettingsTyped'
  BY <1>1 DEF IInv, SettingsTyped
<1>4. IInv'
  BY <1>1, <1>2, <1>3, SettingsMove
<1> QED
  BY <1>1, <1>4 DEF Quiet, Offered

\* A library write of the card's own, or another client's.
LEMMA EditEndsStep ==
  ASSUME IInv, NEW ok \in BOOLEAN, EditEnds(ok)
  PROVE  IInv' /\ Quiet
<1>1. UNCHANGED <<docs, backup, imported, imports>>
  BY DEF EditEnds
<1>2. card' \in Card
  <2> DEFINE b == card.busy /\ edit.kind = "rescan"
  <2>1. card' = [card EXCEPT !.busy = b] \/ card' = [card EXCEPT !.busy = FALSE]
    BY DEF EditEnds
  <2>2. b \in BOOLEAN /\ card \in Card
    BY DEF IInv, Card
  <2> HIDE DEF b
  <2> QED
    BY <2>1, <2>2 DEF Card
<1>3. \/ rev' = rev
      \/ Bump("plugin")
  BY DEF EditEnds
<1>4. CASE rev' = rev
  BY <1>1, <1>2, <1>4, SettingsMove DEF IInv, SettingsTyped, Quiet, Offered
<1>5. CASE Bump("plugin")
  <2>1. "plugin" \in Namespaces
    BY DEF Namespaces
  <2>2. rev' \in [Namespaces -> Nat] /\ rev' = [rev EXCEPT !["plugin"] = @ + 1]
    BY <1>5, <2>1, BumpType DEF IInv
  <2>3. Moved(rev, rev', docs, docs', "plugin") /\ SettingsTyped'
    BY <1>1, <2>2 DEF Moved, IInv, SettingsTyped
  <2>4. \E ns \in Namespaces : Moved(rev, rev', docs, docs', ns)
    BY <2>1, <2>3
  <2> QED
    BY <1>1, <1>2, <2>3, <2>4, SettingsMove DEF Quiet, Offered
<1> QED
  BY <1>3, <1>4, <1>5

LEMMA OthersWriteStep ==
  ASSUME IInv, NEW ns \in Namespaces, NEW section \in Foreign, OthersWrite(ns, section)
  PROVE  /\ IInv' /\ Offered' = Offered /\ imported' = imported
         /\ docs' = [docs EXCEPT ![ns] = docs'[ns]] /\ docs'[ns] \in Section
<1>1. docs' = [docs EXCEPT ![ns] = section] /\ UNCHANGED <<backup, imported, card, imports>> /\ Bump(ns)
  BY DEF OthersWrite
<1>2. rev' \in [Namespaces -> Nat] /\ rev' = [rev EXCEPT ![ns] = @ + 1]
  BY <1>1, BumpType DEF IInv
<1>3. docs \in [Namespaces -> Section] /\ section \in Section
  BY ImportConstants DEF IInv, SettingsTyped, Sections
<1>4. /\ docs' \in Sections /\ docs'[ns] = section /\ docs' = [docs EXCEPT ![ns] = docs'[ns]]
      /\ \A m \in Namespaces \ {ns} : docs'[m] = docs[m]
  BY <1>1, <1>3 DEF Sections
<1>5. Moved(rev, rev', docs, docs', ns) /\ SettingsTyped' /\ card' \in Card
  BY <1>1, <1>2, <1>4 DEF Moved, IInv, SettingsTyped
<1>6. IInv'
  BY <1>1, <1>5, SettingsMove
<1> QED
  BY <1>1, <1>3, <1>4, <1>6 DEF Offered

LEMMA ConfirmStep ==
  ASSUME IInv, NEW choice \in Choices, Confirm(choice)
  PROVE  IInv' /\ UNCHANGED <<docs, imported>> /\ Offered \subseteq Offered' /\ Offered' \subseteq Sections
<1> DEFINE im == [at |-> "describe", file |-> card.preview, mode |-> choice.mode, wire |-> choice.wire,
                  read |-> None, fence |-> rev, plan |-> NoOps, copied |-> FALSE, ok |-> {}, failed |-> {}]
<1>1. imports' = Append(imports, im) /\ UNCHANGED <<docs, rev, backup, imported>>
      /\ card' = [card EXCEPT !.busy = TRUE] /\ card.preview # None
  BY DEF Confirm, settings
<1>2. choice.mode \in Modes /\ choice.wire \in BOOLEAN
  BY ImportConstants DEF Modes
<1>3. card.preview \in Sections /\ rev \in [Namespaces -> Nat] /\ card \in Card
  BY <1>1, CardFields DEF IInv, SettingsTyped
<1>4. im \in Record /\ im.at = "describe" /\ im.file \in Sections
  BY <1>2, <1>3 DEF Record, Stages, Plans
<1> HIDE DEF im
<1>5. /\ imports \in Seq(Record) /\ imports' \in Seq(Record)
      /\ DOMAIN imports = 1..Len(imports) /\ DOMAIN imports' = 1..(Len(imports) + 1) /\ Len(imports) \in Nat
      /\ \A i \in DOMAIN imports : imports'[i] = imports[i]
      /\ imports'[Len(imports) + 1] = im
  BY <1>1, <1>4 DEF IInv
<1>6. FromRead(im, rev', docs')
  BY <1>4 DEF FromRead
<1>7. \A i \in DOMAIN imports : FromRead(imports'[i], rev', docs')
  BY <1>1, <1>5 DEF IInv
<1>8. card' \in Card
  BY <1>1, <1>3 DEF Card
<1>9. SettingsTyped'
  BY <1>1 DEF IInv, SettingsTyped
<1>10. IInv'
  BY <1>5, <1>6, <1>7, <1>8, <1>9 DEF IInv
<1>11. Offered \subseteq Offered'
  BY <1>5 DEF Offered
<1>12. Offered' \subseteq Sections
  BY <1>5, RecordFields DEF Offered
<1> QED
  BY <1>1, <1>10, <1>11, <1>12

\* Steps of an import that leave the settings alone.
LEMMA QuietImport ==
  ASSUME IInv, NEW i \in DOMAIN imports, NEW im \in Record, imports' = [imports EXCEPT ![i] = im],
         im.file = imports[i].file, UNCHANGED settings, card' \in Card, FromRead(im, rev, docs)
  PROVE  IInv' /\ Quiet
<1>1. docs' = docs /\ rev' = rev /\ backup' = backup /\ imported' = imported
  BY DEF settings
<1>2. SettingsTyped' /\ FromRead(im, rev', docs')
  BY <1>1 DEF IInv, SettingsTyped
<1>3. IInv' /\ {imports'[j].file : j \in DOMAIN imports'} = {imports[j].file : j \in DOMAIN imports}
  BY <1>1, <1>2, ImportMoves
<1> QED
  BY <1>1, <1>3 DEF Quiet, Offered

LEMMA ImportReadsStep ==
  ASSUME IInv, NEW i \in DOMAIN imports, NEW ok \in BOOLEAN, ImportReads(i, ok)
  PROVE  IInv' /\ Quiet
<1> DEFINE im == imports[i]
<1> DEFINE plan == PlanImport(im.file, docs, im.mode, im.wire)
<1>1. /\ im \in Record /\ docs \in Sections /\ rev \in [Namespaces -> Nat] /\ UNCHANGED settings
      /\ card' \in Card
  BY DEF ImportReads, IInv, SettingsTyped
<1>2. \/ imports' = [imports EXCEPT ![i] = [im EXCEPT !.at = "unread"]]
      \/ imports' = [imports EXCEPT ![i] = [im EXCEPT !.at = "skipped"]]
      \/ imports' = [imports EXCEPT ![i] =
            [im EXCEPT !.at = "backup", !.read = docs, !.fence = rev, !.plan = plan]]
  BY DEF ImportReads
<1>3. plan \in Plans
  BY <1>1, RecordFields DEF Plans
<1> HIDE DEF im
<1>4. ASSUME NEW at \in {"unread", "skipped"}, imports' = [imports EXCEPT ![i] = [im EXCEPT !.at = at]]
      PROVE  IInv' /\ Quiet
  <2> DEFINE new == [im EXCEPT !.at = at]
  <2>1. new \in Record /\ new.file = im.file /\ new.at = at
    BY <1>1 DEF Record, Stages
  <2> HIDE DEF new
  <2>2. FromRead(new, rev, docs)
    BY <2>1 DEF FromRead
  <2> QED
    BY <1>1, <1>4, <2>1, <2>2, QuietImport DEF im, new
<1>5. CASE imports' = [imports EXCEPT ![i] =
             [im EXCEPT !.at = "backup", !.read = docs, !.fence = rev, !.plan = plan]]
  <2> HIDE DEF plan
  <2> DEFINE new == [im EXCEPT !.at = "backup", !.read = docs, !.fence = rev, !.plan = plan]
  <2>1. /\ new \in Record /\ new.at = "backup" /\ new.file = im.file /\ new.mode = im.mode
        /\ new.wire = im.wire /\ new.read = docs /\ new.fence = rev /\ new.plan = plan
    BY <1>1, <1>3 DEF Record, Stages
  <2>2. imports' = [imports EXCEPT ![i] = new]
    BY <1>5
  <2> HIDE DEF new
  <2>3. FromRead(new, rev, docs)
    BY <1>1, <2>1, PendingIn DEF FromRead, plan
  <2> QED
    BY <1>1, <2>1, <2>2, <2>3, QuietImport DEF im
<1> QED
  BY <1>2, <1>4, <1>5

\* What an import that has written, or failed to write, a namespace has left.
LEMMA FollowingPending ==
  ASSUME NEW ns \in {"backup", "plugin", "llm"}, NEW plan,
         Following(ns, plan) \in {"backup", "plugin", "llm"}
  PROVE  Pending(Following(ns, plan)) \subseteq Pending(ns) \ {ns}
<1>1. Following(ns, plan) \in {"plugin", "llm"} /\ "backup" \notin Namespaces
  BY DEF Following, Namespaces
<1>2. CASE ns = "backup"
  BY <1>1, <1>2, PendingIn DEF Pending
<1>3. CASE ns = "plugin"
  <2>1. Following(ns, plan) = "llm"
    BY <1>1, <1>3 DEF Following
  <2> QED
    BY <1>3, <2>1 DEF Pending, Namespaces
<1>4. CASE ns = "llm"
  <2>1. Following(ns, plan) = "report"
    BY <1>4 DEF Following
  <2> QED
    BY <1>1, <2>1
<1> QED
  BY <1>2, <1>3, <1>4

\* A namespace less to write: what the import knows of the others stands.
LEMMA FromReadShrinks ==
  ASSUME NEW im \in Record, NEW new \in Record, NEW r, NEW d, FromRead(im, r, d),
         im.at \in {"backup", "plugin", "llm"},
         new.file = im.file, new.mode = im.mode, new.wire = im.wire, new.read = im.read,
         new.fence = im.fence, new.plan = im.plan, new.at = Following(im.at, im.plan)
  PROVE  FromRead(new, r, d)
BY FollowingPending DEF FromRead

LEMMA CopyRefusedStep ==
  ASSUME IInv, NEW i \in DOMAIN imports, CopyRefused(i)
  PROVE  IInv' /\ Quiet
<1> DEFINE im == imports[i]
<1> DEFINE to == Following("backup", im.plan)
<1> DEFINE new == [im EXCEPT !.at = to]
<1>1. im \in Record /\ im.at = "backup" /\ FromRead(im, rev, docs) /\ UNCHANGED settings /\ card' \in Card
      /\ imports' = [imports EXCEPT ![i] = new]
  BY DEF CopyRefused, IInv
<1>2. to \in Stages
  BY FollowingIn DEF Stages
<1> HIDE DEF im, to
<1>3. /\ new \in Record /\ new.at = to /\ new.file = im.file /\ new.mode = im.mode /\ new.wire = im.wire
      /\ new.read = im.read /\ new.fence = im.fence /\ new.plan = im.plan
  BY <1>1, <1>2 DEF Record
<1> HIDE DEF new
<1>4. FromRead(new, rev, docs)
  BY <1>1, <1>3, FromReadShrinks DEF to
<1> QED
  BY <1>1, <1>3, <1>4, QuietImport DEF im

LEMMA WriteRefusedStep ==
  ASSUME IInv, NEW i \in DOMAIN imports, NEW ns \in Namespaces, WriteRefused(i, ns)
  PROVE  IInv' /\ Quiet
<1> DEFINE im == imports[i]
<1> DEFINE to == Following(ns, im.plan)
<1> DEFINE failed == im.failed \union {ns}
<1> DEFINE new == [im EXCEPT !.at = to, !.failed = failed]
<1>1. im \in Record /\ im.at = ns /\ ns \in {"backup", "plugin", "llm"} /\ FromRead(im, rev, docs)
      /\ UNCHANGED settings /\ card' \in Card /\ imports' = [imports EXCEPT ![i] = new]
  BY DEF WriteRefused, IInv, Namespaces
<1>2. to \in Stages /\ failed \in SUBSET Namespaces
  BY <1>1, FollowingIn, RecordFields DEF Stages
<1> HIDE DEF im, to, failed
<1>3. /\ new \in Record /\ new.at = to /\ new.file = im.file /\ new.mode = im.mode /\ new.wire = im.wire
      /\ new.read = im.read /\ new.fence = im.fence /\ new.plan = im.plan
  BY <1>1, <1>2 DEF Record
<1> HIDE DEF new
<1>4. FromRead(new, rev, docs)
  BY <1>1, <1>3, FromReadShrinks DEF to
<1> QED
  BY <1>1, <1>3, <1>4, QuietImport DEF im

LEMMA ImportEndsStep ==
  ASSUME IInv, NEW i \in DOMAIN imports, ImportEnds(i)
  PROVE  IInv' /\ Quiet
<1> DEFINE im == imports[i]
<1> DEFINE zero == [ns \in Namespaces |-> 0]
<1> DEFINE new == [im EXCEPT !.at = "done", !.read = None, !.fence = zero, !.plan = NoOps,
                             !.copied = FALSE, !.ok = {}, !.failed = {}]
<1>1. im \in Record /\ UNCHANGED settings /\ card \in Card /\ card' = [card EXCEPT !.busy = FALSE, !.preview = None]
      /\ imports' = [imports EXCEPT ![i] = new]
  BY DEF ImportEnds, Reports, IInv
<1>2. zero \in [Namespaces -> Nat] /\ NoOps \in Plans /\ None \in Sections \union {None} /\ FALSE \in BOOLEAN
  BY DEF Plans
<1>3. card' \in Card
  BY <1>1, <1>2, CardWith
<1> HIDE DEF im, zero
<1>4. new \in Record /\ new.at = "done" /\ new.file = im.file
  BY <1>1, <1>2 DEF Record, Stages
<1> HIDE DEF new
<1>5. FromRead(new, rev, docs)
  BY <1>4 DEF FromRead
<1> QED
  BY <1>1, <1>3, <1>4, <1>5, QuietImport DEF im

LEMMA CopyLandsStep ==
  ASSUME IInv, NEW i \in DOMAIN imports, CopyLands(i)
  PROVE  IInv' /\ Quiet
<1> DEFINE im == imports[i]
<1> DEFINE to == Following("backup", im.plan)
<1> DEFINE n == rev["plugin"] + 1
<1> DEFINE fence == [im.fence EXCEPT !["plugin"] = n]
<1> DEFINE new == [im EXCEPT !.at = to, !.fence = fence, !.copied = TRUE]
<1>1. /\ im \in Record /\ im.at = "backup" /\ FromRead(im, rev, docs) /\ "plugin" \in Namespaces
      /\ im.fence["plugin"] = rev["plugin"] /\ backup' = im.read /\ Bump("plugin")
      /\ UNCHANGED <<docs, imported, card>> /\ imports' = [imports EXCEPT ![i] = new]
  BY DEF CopyLands, RollbackCopy, CopyFence, IInv, Namespaces
<1>2. im.read \in Sections /\ im.plan = PlanImport(im.file, im.read, im.mode, im.wire)
      /\ \A ns \in Namespaces : im.fence[ns] <= rev[ns] /\ (im.fence[ns] = rev[ns] => docs[ns] = im.read[ns])
  BY <1>1 DEF FromRead, Pending
<1>3. rev \in [Namespaces -> Nat] /\ rev' \in [Namespaces -> Nat] /\ rev' = [rev EXCEPT !["plugin"] = @ + 1]
  BY <1>1, BumpType DEF IInv, SettingsTyped
<1>4. to \in Stages /\ n \in Nat /\ fence \in [Namespaces -> Nat] /\ im.fence \in [Namespaces -> Nat]
  BY <1>1, <1>3, FollowingIn, RecordFields DEF Stages
<1>5. \A ns \in Namespaces : fence[ns] <= rev'[ns] /\ (fence[ns] = rev'[ns] => docs'[ns] = im.read[ns])
  <2> SUFFICES ASSUME NEW ns \in Namespaces
               PROVE  fence[ns] <= rev'[ns] /\ (fence[ns] = rev'[ns] => docs'[ns] = im.read[ns])
    OBVIOUS
  <2>1. CASE ns = "plugin"
    <3>1. fence[ns] = n /\ rev'[ns] = n
      BY <1>3, <1>4, <2>1
    <3>2. docs'[ns] = im.read[ns]
      BY <1>1, <1>2, <2>1
    <3> QED
      BY <1>4, <3>1, <3>2
  <2>2. CASE ns # "plugin"
    <3>1. fence[ns] = im.fence[ns] /\ rev'[ns] = rev[ns]
      BY <1>3, <1>4, <2>2
    <3> QED
      BY <1>1, <1>2, <3>1
  <2> QED
    BY <2>1, <2>2
<1>6. SettingsTyped' /\ card' \in Card /\ Moved(rev, rev', docs, docs', "plugin")
  BY <1>1, <1>2, <1>3 DEF IInv, SettingsTyped, Moved
<1>7. im.file = imports[i].file
  OBVIOUS
<1> HIDE DEF im, to, n, fence
<1>8. /\ new \in Record /\ new.at = to /\ new.file = im.file /\ new.mode = im.mode /\ new.wire = im.wire
      /\ new.read = im.read /\ new.fence = fence /\ new.plan = im.plan
  BY <1>1, <1>4 DEF Record
<1> HIDE DEF new
<1>9. FromRead(new, rev', docs')
  BY <1>2, <1>5, <1>8, PendingIn DEF FromRead
<1>10. new.file = imports[i].file
  BY <1>7, <1>8
<1>11. \E ns \in Namespaces : Moved(rev, rev', docs, docs', ns)
  BY <1>1, <1>6
<1>12. IInv' /\ {imports'[j].file : j \in DOMAIN imports'} = {imports[j].file : j \in DOMAIN imports}
  BY <1>1, <1>6, <1>8, <1>9, <1>10, <1>11, ImportMoves
<1> QED
  BY <1>1, <1>12 DEF Quiet, Offered

\* A fenced write that lands: the plan is the plan of what the namespace holds.
LEMMA WriteEffect ==
  ASSUME IInv, NEW i \in DOMAIN imports, NEW ns \in Namespaces, imports[i].at = ns, Fenced(imports[i], ns),
         docs' = [docs EXCEPT ![ns] = Written(@, imports[i].plan[ns])],
         imported' = [imported EXCEPT ![ns] = @ + 1], Bump(ns), UNCHANGED backup
  PROVE  /\ Applies(imports[i], ns) /\ SettingsTyped' /\ Moved(rev, rev', docs, docs', ns)
         /\ docs'[ns] = Written(docs[ns], Ops(ns, imports[i].file, docs[ns], imports[i].mode, imports[i].wire))
<1> DEFINE im == imports[i]
<1> DEFINE w == Written(docs[ns], Ops(ns, im.file, docs[ns], im.mode, im.wire))
<1>1. /\ im \in Record /\ im.at = ns /\ FromRead(im, rev, docs) /\ docs \in Sections
      /\ rev \in [Namespaces -> Nat] /\ docs \in [Namespaces -> Section]
  BY DEF IInv, SettingsTyped, Sections
<1>2. ns \in {"plugin", "llm"} /\ ns \in Pending(ns)
  BY DEF Pending, Namespaces
<1>3. im.fence[ns] = rev[ns]
  BY DEF Fenced
<1>4. docs[ns] = im.read[ns] /\ im.plan = PlanImport(im.file, im.read, im.mode, im.wire)
  BY <1>1, <1>2, <1>3 DEF FromRead
<1>5. im.plan[ns] = Ops(ns, im.file, docs[ns], im.mode, im.wire)
  BY <1>4 DEF PlanImport
<1>6. docs' = [docs EXCEPT ![ns] = w]
  BY <1>5
<1>7. w \in Section
  BY <1>1, RecordFields, PlanKeepsWiring DEF Modes
<1>8. rev' \in [Namespaces -> Nat] /\ rev' = [rev EXCEPT ![ns] = @ + 1]
  BY BumpType DEF IInv
<1>9. imported' \in [Namespaces -> Nat]
  <2> DEFINE n == imported[ns] + 1
  <2>1. n \in Nat /\ imported' = [imported EXCEPT ![ns] = n]
    BY DEF IInv, SettingsTyped
  <2> HIDE DEF n
  <2> QED
    BY <2>1 DEF IInv, SettingsTyped
<1>10. Applies(im, ns)
  BY <1>6 DEF Applies
<1> HIDE DEF w, im
<1>11. docs' \in Sections /\ docs'[ns] = w /\ \A m \in Namespaces \ {ns} : docs'[m] = docs[m]
  BY <1>1, <1>6, <1>7 DEF Sections
<1>12. SettingsTyped' /\ Moved(rev, rev', docs, docs', ns)
  BY <1>8, <1>9, <1>11 DEF IInv, SettingsTyped, Moved
<1> QED
  BY <1>10, <1>11, <1>12 DEF w, im

LEMMA WriteLandsStep ==
  ASSUME IInv, NEW i \in DOMAIN imports, NEW ns \in Namespaces, WriteLands(i, ns)
  PROVE  IInv' /\ Offered' = Offered /\ Applies(imports[i], ns) /\ Alike(i)
<1> DEFINE im == imports[i]
<1> DEFINE to == Following(ns, im.plan)
<1> DEFINE ok == im.ok \union {ns}
<1> DEFINE new == [im EXCEPT !.at = to, !.ok = ok]
<1>1. /\ im \in Record /\ im.at = ns /\ ns \in {"backup", "plugin", "llm"} /\ FromRead(im, rev, docs)
      /\ card' \in Card /\ imports' = [imports EXCEPT ![i] = new] /\ rev \in [Namespaces -> Nat]
  BY DEF WriteLands, IInv, SettingsTyped, Namespaces
<1>2. Applies(im, ns) /\ SettingsTyped' /\ Moved(rev, rev', docs, docs', ns)
  BY WriteEffect DEF WriteLands
<1>3. to \in Stages /\ ok \in SUBSET Namespaces
  BY <1>1, FollowingIn, RecordFields DEF Stages
<1>4. im.file = imports[i].file
  OBVIOUS
<1> HIDE DEF im, to, ok
<1>5. /\ new \in Record /\ new.at = to /\ new.file = im.file /\ new.mode = im.mode /\ new.wire = im.wire
      /\ new.read = im.read /\ new.fence = im.fence /\ new.plan = im.plan
  BY <1>1, <1>3 DEF Record
<1> HIDE DEF new
<1>6. FromRead(new, rev, docs)
  BY <1>1, <1>5, FromReadShrinks DEF to
<1>7. FromRead(new, rev', docs')
  BY <1>1, <1>2, <1>5, <1>6, MovedKeeps
<1>8. \E m \in Namespaces : Moved(rev, rev', docs, docs', m)
  BY <1>2
<1>9. new.file = imports[i].file
  BY <1>4, <1>5
<1>10. IInv' /\ {imports'[j].file : j \in DOMAIN imports'} = {imports[j].file : j \in DOMAIN imports}
  BY <1>1, <1>2, <1>5, <1>7, <1>8, <1>9, ImportMoves
<1>11. Alike(i)
  BY <1>1 DEF Alike
<1> QED
  BY <1>2, <1>10, <1>11 DEF Offered, im

LEMMA ImportThrowsStep ==
  ASSUME IInv, NEW i \in DOMAIN imports, ImportThrows(i)
  PROVE  /\ IInv' /\ Offered' = Offered
         /\ Quiet \/ \E ns \in Namespaces : Applies(imports[i], ns) /\ Alike(i)
<1> DEFINE im == imports[i]
<1> DEFINE new == [im EXCEPT !.at = "threw"]
<1>1. im \in Record /\ card' \in Card /\ imports' = [imports EXCEPT ![i] = new] /\ im.file = imports[i].file
  BY DEF ImportThrows, IInv
<1>2. \/ UNCHANGED settings
      \/ im.at = "backup" /\ backup' = im.read /\ Bump("plugin") /\ UNCHANGED <<docs, imported>>
      \/ /\ im.at \in Namespaces
         /\ Applies(im, im.at) /\ SettingsTyped' /\ Moved(rev, rev', docs, docs', im.at)
  BY WriteEffect DEF ImportThrows, RollbackCopy
<1> HIDE DEF im
<1>3. new \in Record /\ new.at = "threw" /\ new.file = im.file
  BY <1>1 DEF Record, Stages
<1> HIDE DEF new
<1>4. FromRead(new, rev, docs) /\ FromRead(new, rev', docs') /\ new.file = imports[i].file
  BY <1>1, <1>3 DEF FromRead
<1>5. CASE UNCHANGED settings
  <2>1. IInv' /\ Quiet
    BY <1>1, <1>3, <1>4, <1>5, QuietImport
  <2> QED
    BY <2>1 DEF Quiet
<1>6. CASE /\ im.at \in Namespaces
           /\ Applies(im, im.at) /\ SettingsTyped' /\ Moved(rev, rev', docs, docs', im.at)
  <2>1. \E m \in Namespaces : Moved(rev, rev', docs, docs', m)
    BY <1>6
  <2>2. IInv' /\ {imports'[j].file : j \in DOMAIN imports'} = {imports[j].file : j \in DOMAIN imports}
    BY <1>1, <1>3, <1>4, <1>6, <2>1, ImportMoves
  <2>3. Alike(i)
    BY <1>1 DEF Alike
  <2> QED
    BY <1>6, <2>2, <2>3 DEF Offered, im
<1>7. CASE im.at = "backup" /\ backup' = im.read /\ Bump("plugin") /\ UNCHANGED <<docs, imported>>
  <2>1. "plugin" \in Namespaces /\ FromRead(im, rev, docs)
    BY DEF Namespaces, IInv, im
  <2>2. im.read \in Sections
    BY <1>7, <2>1 DEF FromRead
  <2>3. rev' \in [Namespaces -> Nat] /\ rev' = [rev EXCEPT !["plugin"] = @ + 1]
    BY <1>7, <2>1, BumpType DEF IInv
  <2>4. SettingsTyped' /\ Moved(rev, rev', docs, docs', "plugin")
    BY <1>7, <2>2, <2>3 DEF IInv, SettingsTyped, Moved
  <2>5. \E m \in Namespaces : Moved(rev, rev', docs, docs', m)
    BY <2>1, <2>4
  <2>6. IInv' /\ {imports'[j].file : j \in DOMAIN imports'} = {imports[j].file : j \in DOMAIN imports}
    BY <1>1, <1>3, <1>4, <2>4, <2>5, ImportMoves
  <2> QED
    BY <1>7, <2>6 DEF Quiet, Offered
<1> QED
  BY <1>2, <1>5, <1>6, <1>7

----------------------------------------------------------------------------
(* The theorems.                                                           *)

\* Every step of the card is one of three: it writes a namespace as planned, it
\* leaves the settings alone, or it is another client's write.
LEMMA NextSteps ==
  ASSUME IInv, Next
  PROVE  /\ IInv'
         /\ \/ Quiet
            \/ UNCHANGED <<docs, imported>> /\ Offered \subseteq Offered' /\ Offered' \subseteq Sections
            \/ Offered' = Offered /\ \E i \in DOMAIN imports, ns \in Namespaces :
                                      Applies(imports[i], ns) /\ Alike(i)
            \/ /\ Offered' = Offered /\ imported' = imported
               /\ \E ns \in Namespaces : docs' = [docs EXCEPT ![ns] = docs'[ns]] /\ docs'[ns] \in Section
<1>1. CASE \/ LoadAnswers
           \/ \E snapshot \in Files \union ({backup} \ {None}) : Preview(snapshot)
           \/ FileFails \/ Cancel
           \/ \E kind \in {"profile", "rescan"} : EditStarts(kind)
           \/ \E ok \in BOOLEAN : EditReads(ok)
  BY <1>1, CardSteps
<1>2. CASE \E ok \in BOOLEAN : EditEnds(ok)
  BY <1>2, EditEndsStep
<1>3. CASE \E choice \in Choices : Confirm(choice)
  BY <1>3, ConfirmStep
<1>4. CASE \E ns \in Namespaces, section \in Foreign : OthersWrite(ns, section)
  BY <1>4, OthersWriteStep
<1>5. CASE \E i \in DOMAIN imports : \/ \E ok \in BOOLEAN : ImportReads(i, ok)
                                  \/ CopyLands(i) \/ CopyRefused(i) \/ ImportEnds(i)
                                  \/ \E ns \in Namespaces : WriteRefused(i, ns)
  BY <1>5, ImportReadsStep, CopyLandsStep, CopyRefusedStep, ImportEndsStep, WriteRefusedStep
<1>6. CASE \E i \in DOMAIN imports, ns \in Namespaces : WriteLands(i, ns)
  BY <1>6, WriteLandsStep
<1>7. CASE \E i \in DOMAIN imports : ImportThrows(i)
  BY <1>7, ImportThrowsStep
<1> QED
  BY <1>1, <1>2, <1>3, <1>4, <1>5, <1>6, <1>7 DEF Next, Importing, Editing

LEMMA NextKeepsInv == ASSUME IInv, [Next]_vars PROVE IInv'
<1>1. CASE Next
  BY <1>1, NextSteps
<1>2. CASE UNCHANGED vars
  <2>1. UNCHANGED <<docs, rev, backup, imported, card, imports>>
    BY <1>2 DEF vars, settings
  <2> QED
    BY <2>1 DEF IInv, SettingsTyped
<1> QED
  BY <1>1, <1>2

\* As long as a fence holds, the namespace is what the import read.
LEMMA Invariant == Spec => []IInv
BY InitInv, NextKeepsInv, PTL DEF Spec

\* Every namespace an import writes goes, in one step, from what it holds to
\* what the plan makes of exactly that (apply.ts), however imports, library
\* writes and other clients interleave: the card implements AtomicImport.
THEOREM Atomic == Spec => ImportsAtomically
<1>1. Init => Promise!Init
  <2> SUFFICES ASSUME Init PROVE Promise!Init
    OBVIOUS
  <2>1. Offered = {} /\ docs \in Sections /\ imported = [ns \in Namespaces |-> 0]
    BY ImportConstants DEF Init, Offered
  <2> QED
    BY <2>1, SamePlan DEF Promise!Init, Offered
<1>2. ASSUME IInv, [Next]_vars PROVE [Promise!Next]_(Promise!vars)
  <2>1. CASE UNCHANGED vars
    BY <2>1 DEF vars, settings, Promise!vars
  <2>2. CASE Quiet
    BY <2>2 DEF Quiet, Offered, Promise!vars
  <2>3. CASE UNCHANGED <<docs, imported>> /\ Offered \subseteq Offered' /\ Offered' \subseteq Sections
    <3>1. Promise!Confirm
      BY <2>3, SamePlan DEF Promise!Confirm, Offered
    <3> QED
      BY <3>1 DEF Promise!Next
  <2>4. CASE Offered' = Offered /\ \E i \in DOMAIN imports, ns \in Namespaces :
                                     Applies(imports[i], ns) /\ Alike(i)
    <3>1. PICK i \in DOMAIN imports, ns \in Namespaces : Applies(imports[i], ns)
      BY <2>4
    <3> DEFINE im == imports[i]
    <3>2. im.file \in Offered /\ im.mode \in {"merge", "replace"} /\ im.wire \in BOOLEAN
      BY <1>2, RecordFields DEF IInv, Offered, Modes
    <3>3. docs' = [docs EXCEPT ![ns] =
                    Promise!Written(docs[ns], Promise!Ops(ns, im.file, docs[ns], im.mode, im.wire))]
      <4> DEFINE ops == Ops(ns, im.file, docs[ns], im.mode, im.wire)
      <4>1. Promise!Written(docs[ns], Promise!Ops(ns, im.file, docs[ns], im.mode, im.wire))
              = Written(docs[ns], ops)
        BY SamePlan
      <4>2. docs' = [docs EXCEPT ![ns] = Written(docs[ns], ops)]
        BY <3>1 DEF Applies
      <4> HIDE DEF ops, im
      <4> QED
        BY <4>1, <4>2
    <3>4. imported' = [imported EXCEPT ![ns] = @ + 1]
      BY <3>1 DEF Applies
    <3>5. ns \in Promise!Namespaces
      BY SamePlan
    <3> HIDE DEF im
    <3>6. Promise!Import(ns)
      BY <2>4, <3>2, <3>3, <3>4 DEF Promise!Import, Offered
    <3> QED
      BY <3>5, <3>6 DEF Promise!Next
  <2>5. CASE /\ Offered' = Offered /\ imported' = imported
             /\ \E ns \in Namespaces : docs' = [docs EXCEPT ![ns] = docs'[ns]] /\ docs'[ns] \in Section
    <3>1. \E ns \in Promise!Namespaces : Promise!OthersWrite(ns)
      BY <2>5, SamePlan DEF Promise!OthersWrite, Offered
    <3> QED
      BY <3>1 DEF Promise!Next
  <2> QED
    BY <1>2, <2>1, <2>2, <2>3, <2>4, <2>5, NextSteps
<1> QED
  BY <1>1, <1>2, Invariant, PTL DEF Spec, ImportsAtomically, Promise!Spec

\* An import without the wiring opt-in sends no item of the settings anywhere
\* it was not sent before (wiring.ts, plan.ts), whatever is written between its
\* read and its writes.
THEOREM WiringStays == Spec => WiringStaysHome
<1> DEFINE Home == \A ns \in Namespaces :
       imported'[ns] # imported[ns] /\ docs'[ns].dict # Missing
         /\ (\E i \in DOMAIN imports : imports[i] # imports'[i] /\ ~imports[i].wire)
       => \A k \in DOMAIN docs'[ns].dict :
            docs'[ns].dict[k].wiring = Local(docs[ns].dict, k).wiring
<1>1. ASSUME IInv, Next PROVE Home
  <2>1. CASE imported' = imported
    BY <2>1
  <2>2. CASE \E i \in DOMAIN imports, ns \in Namespaces : Applies(imports[i], ns) /\ Alike(i)
    <3>1. PICK i \in DOMAIN imports, ns \in Namespaces : Applies(imports[i], ns) /\ Alike(i)
      BY <2>2
    <3> DEFINE im == imports[i]
    <3> DEFINE w == Written(docs[ns], Ops(ns, im.file, docs[ns], im.mode, im.wire))
    <3>2. im \in Record /\ docs \in [Namespaces -> Section] /\ imported \in [Namespaces -> Nat]
      BY <1>1 DEF IInv, SettingsTyped, Sections
    <3>3. docs' = [docs EXCEPT ![ns] = w] /\ imported' = [imported EXCEPT ![ns] = @ + 1]
      BY <3>1 DEF Applies
    <3>4. ~im.wire /\ w.dict # Missing =>
            \A k \in DOMAIN w.dict : w.dict[k].wiring = Local(docs[ns].dict, k).wiring
      <4>1. im.file \in Sections /\ im.mode \in {"merge", "replace"} /\ im.wire \in BOOLEAN
            /\ docs[ns] \in Section
        BY <3>2, RecordFields DEF Modes
      <4> HIDE DEF im
      <4> QED
        BY <4>1, PlanKeepsWiring
    <3> HIDE DEF w
    <3>5. docs'[ns] = w /\ \A m \in Namespaces : imported'[m] # imported[m] => m = ns
      BY <3>2, <3>3
    <3>6. (\E j \in DOMAIN imports : imports[j] # imports'[j] /\ ~imports[j].wire) => ~im.wire
      BY <3>1 DEF Alike
    <3> HIDE DEF im
    <3> QED
      BY <3>4, <3>5, <3>6
  <2> HIDE DEF Home
  <2>3. imported' = imported \/ \E i \in DOMAIN imports, ns \in Namespaces : Applies(imports[i], ns) /\ Alike(i)
    BY <1>1, NextSteps DEF Quiet
  <2> QED
    BY <2>1, <2>2, <2>3
<1>2. ASSUME IInv, [Next]_vars PROVE [Home]_vars
  <2> HIDE DEF Home
  <2> QED
    BY <1>1, <1>2
<1> QED
  BY <1>2, Invariant, PTL DEF Spec, WiringStaysHome

----------------------------------------------------------------------------
(* Rolling back.  Replacing with a copy, wiring included, gives back the    *)
(* copied section whatever the settings hold by then; so all that is needed *)
(* of an import is that the copy is still its own.                          *)

\* AdjustIncoming with the opt-in leaves a restorable section as it is.
LEMMA AdjustKeepsCopy ==
  ASSUME NEW ns \in Namespaces, NEW incoming \in Section, NEW current,
         ns = "llm" /\ incoming.dict # Missing => \A k \in DOMAIN incoming.dict : incoming.dict[k] # EmptyPart
  PROVE  AdjustIncoming(ns, incoming, current, TRUE) = incoming
<1>1. CASE incoming.dict = Missing
  BY <1>1 DEF AdjustIncoming
<1>2. CASE incoming.dict # Missing
  <2> DEFINE new(k) == Rewired(incoming.dict[k], current.dict, k, TRUE)
  <2> DEFINE known == IF current.dict = Missing THEN {} ELSE DOMAIN current.dict
  <2> DEFINE kept == {k \in DOMAIN incoming.dict : ns = "plugin" \/ k \in known \/ new(k) # EmptyPart}
  <2>1. AdjustIncoming(ns, incoming, current, TRUE) = [incoming EXCEPT !.dict = [k \in kept |-> new(k)]]
    BY <1>2 DEF AdjustIncoming
  <2>2. \A k : new(k) = incoming.dict[k]
    BY DEF Rewired
  <2> HIDE DEF known, new
  <2>3. kept = DOMAIN incoming.dict
    BY <1>2, <2>2 DEF Namespaces
  <2> HIDE DEF kept
  <2>4. incoming.dict \in Dict
    BY <1>2, SectionFields
  <2>5. incoming.dict = [k \in DOMAIN incoming.dict |-> incoming.dict[k]]
    BY <2>4 DEF Dict
  <2>6. [k \in kept |-> new(k)] = incoming.dict
    BY <2>2, <2>3, <2>5
  <2>7. [incoming EXCEPT !.dict = incoming.dict] = incoming
    BY DEF Section
  <2> QED
    BY <2>1, <2>6, <2>7
<1> QED
  BY <1>1, <1>2

\* A copy that gives back its entries is read as it was written.
LEMMA ForEntryKeepsCopy ==
  ASSUME NEW read \in Sections, Restorable(read), NEW ns \in Namespaces
  PROVE  /\ ForEntryConfig(read)[ns] \in Section
         /\ ForEntryConfig(read)[ns].dict = read[ns].dict
         /\ ForEntryConfig(read)[ns].effort = Declared(ns, read[ns]).effort
<1>1. ForEntryConfig(read)[ns] \in Section /\ read["plugin"] \in Section /\ read["llm"] \in Section
  BY ForEntryType DEF Sections, Namespaces
<1>2. CASE ~EntryConfig
  BY <1>1, <1>2 DEF ForEntryConfig, Declared
<1>3. CASE EntryConfig
  <2> DEFINE e == IF read["plugin"].effort = Missing THEN read["llm"].effort ELSE read["plugin"].effort
  <2>1. e = read["plugin"].effort
    BY <1>3 DEF Restorable
  <2>2. ForEntryConfig(read) = [plugin |-> [read["plugin"] EXCEPT !.effort = e],
                                llm |-> [read["llm"] EXCEPT !.effort = Missing]]
    BY <1>3 DEF ForEntryConfig
  <2> HIDE DEF e
  <2>3. CASE ns = "plugin"
    <3>1. ForEntryConfig(read)[ns] = [read["plugin"] EXCEPT !.effort = e]
      BY <2>2, <2>3
    <3>2. Declared(ns, read[ns]) = read["plugin"]
      BY <2>3 DEF Declared
    <3> QED
      BY <1>1, <2>1, <2>3, <3>1, <3>2 DEF Section
  <2>4. CASE ns = "llm"
    <3>1. ForEntryConfig(read)[ns] = [read["llm"] EXCEPT !.effort = Missing]
      BY <2>2, <2>4
    <3>2. Declared(ns, read[ns]) = [read["llm"] EXCEPT !.effort = Missing]
      BY <1>3, <2>4 DEF Declared
    <3> QED
      BY <1>1, <2>4, <3>1, <3>2 DEF Section
  <2> QED
    BY <2>3, <2>4 DEF Namespaces
<1> QED
  BY <1>2, <1>3

LEMMA WrittenFields ==
  ASSUME NEW s \in Section, NEW ops
  PROVE  /\ DOMAIN Written(s, ops) = {"dict", "effort"}
         /\ Written(s, ops).dict = (IF "dict" \in DOMAIN ops THEN ops["dict"] ELSE s.dict)
         /\ Written(s, ops).effort = (IF "effort" \in DOMAIN ops THEN ops["effort"] ELSE s.effort)
<1> DEFINE d == IF "dict" \in DOMAIN ops THEN ops["dict"] ELSE s.dict
           e == IF "effort" \in DOMAIN ops THEN ops["effort"] ELSE s.effort
<1>1. Written(s, ops) = [s EXCEPT !.dict = d, !.effort = e]
  BY DEF Written
<1> HIDE DEF d, e
<1>2. /\ DOMAIN Written(s, ops) = {"dict", "effort"}
      /\ Written(s, ops).dict = d /\ Written(s, ops).effort = e
  BY <1>1 DEF Section
<1> QED
  BY <1>2 DEF d, e

\* A section is its two entries, as far as it declares them.
LEMMA DeclaredAlike ==
  ASSUME NEW ns \in Namespaces, NEW s, NEW t \in Section,
         DOMAIN s = {"dict", "effort"}, s = [k \in DOMAIN s |-> s[k]], s.dict = t.dict,
         (EntryConfig /\ ns = "llm") \/ s.effort = t.effort
  PROVE  Declared(ns, s) = Declared(ns, t)
<1>1. t = [dict |-> t.dict, effort |-> t.effort] /\ s = [dict |-> s.dict, effort |-> s.effort]
  BY DEF Section
<1> QED
  BY <1>1 DEF Declared

\* Replacing with a copy gives back what was copied.
LEMMA UndoRestores ==
  ASSUME NEW read \in Sections, Restorable(read), NEW ns \in Namespaces, NEW section \in Section
  PROVE  Declared(ns, Written(section, Ops(ns, read, section, "replace", TRUE))) = Declared(ns, read[ns])
<1> DEFINE current == Declared(ns, section)
<1> DEFINE own == ForEntryConfig(read)[ns]
<1> DEFINE incoming == AdjustIncoming(ns, own, current, TRUE)
<1> DEFINE ops == Ops(ns, read, section, "replace", TRUE)
<1> DEFINE w == Written(section, ops)
<1>1. /\ own \in Section /\ own.dict = read[ns].dict /\ own.effort = Declared(ns, read[ns]).effort
      /\ current \in Section /\ current.dict = section.dict /\ read[ns] \in Section
  BY ForEntryKeepsCopy, DeclaredType DEF Sections
<1>2. incoming = own
  <2>1. ns = "llm" /\ own.dict # Missing => \A k \in DOMAIN own.dict : own.dict[k] # EmptyPart
    BY <1>1 DEF Restorable
  <2> HIDE DEF own, current
  <2> QED
    BY <1>1, <2>1, AdjustKeepsCopy
<1>3. ops = [k \in {k \in Keys : Planned(k, own, current, "replace") # current[k]} |->
              Planned(k, own, current, "replace")]
  BY <1>2 DEF Ops
<1>4. \A k : Planned(k, own, current, "replace") = own[k]
  BY DEF Planned
<1> HIDE DEF own, current, ops
<1>5. /\ "dict" \in DOMAIN ops <=> own.dict # current.dict
      /\ "effort" \in DOMAIN ops <=> own.effort # current.effort
      /\ "dict" \in DOMAIN ops => ops["dict"] = own.dict
      /\ "effort" \in DOMAIN ops => ops["effort"] = own.effort
  BY <1>3, <1>4 DEF Keys
<1>6. /\ DOMAIN w = {"dict", "effort"} /\ w = [k \in DOMAIN w |-> w[k]]
      /\ w.dict = (IF "dict" \in DOMAIN ops THEN ops["dict"] ELSE section.dict)
      /\ w.effort = (IF "effort" \in DOMAIN ops THEN ops["effort"] ELSE section.effort)
  <2>1. w = [k \in DOMAIN w |-> w[k]]
    BY DEF Written, Section
  <2> HIDE DEF w
  <2> QED
    BY <2>1, WrittenFields DEF w
<1> HIDE DEF w
<1>7. w.dict = read[ns].dict
  BY <1>1, <1>5, <1>6
<1>8. (EntryConfig /\ ns = "llm") \/ w.effort = read[ns].effort
  <2>1. CASE EntryConfig /\ ns = "llm"
    BY <2>1
  <2>2. CASE ~(EntryConfig /\ ns = "llm")
    <3>1. Declared(ns, read[ns]) = read[ns] /\ current = section
      BY <2>2 DEF Declared, current
    <3> QED
      BY <1>1, <1>5, <1>6, <3>1
  <2> QED
    BY <2>1, <2>2
<1>9. Declared(ns, w) = Declared(ns, read[ns])
  BY <1>1, <1>6, <1>7, <1>8, DeclaredAlike
<1> QED
  BY <1>9 DEF w, ops

\* The namespaces a plan has something for.
Open(plan) == {ns \in Namespaces : DOMAIN plan[ns] # {}}

\* An import takes its copy before it writes anything, then writes what its plan
\* has something for, the plugin's section first, each ending one way.
Orderly(im) ==
  /\ im.ok \intersect im.failed = {}
  /\ im.ok \union im.failed \subseteq Open(im.plan)
  /\ im.at \in {"describe", "backup"} => ~im.copied
  /\ im.at \in {"describe", "backup", "plugin"} => im.ok = {} /\ im.failed = {}
  /\ im.at = "plugin" => "plugin" \in Open(im.plan)
  /\ im.at = "llm" => "llm" \in Open(im.plan) /\ im.ok \union im.failed = Open(im.plan) \ {"llm"}
  /\ im.at = "report" => im.ok \union im.failed = Open(im.plan)

\* The revision the plugin section has after the import's own writes to it.
Due(im) == im.fence["plugin"] + (IF "plugin" \in im.ok THEN 1 ELSE 0)

\* While nobody else has written the section the copy lies in, the copy is of
\* what the import read.
CopyStands(im, r, b) ==
  im.copied /\ im.at \in {"plugin", "llm", "report"} =>
    /\ im.read \in Sections
    /\ Due(im) <= r["plugin"] /\ (Due(im) = r["plugin"] => b = im.read)

CopyInv == \A i \in DOMAIN imports : Orderly(imports[i]) /\ CopyStands(imports[i], rev, backup)

\* What a step may do to the copy: nothing, or a write to its section.
Shifts == \/ rev'["plugin"] = rev["plugin"] /\ backup' = backup
          \/ rev'["plugin"] = rev["plugin"] + 1

LEMMA DueNat == ASSUME NEW im \in Record PROVE Due(im) \in Nat /\ im.fence["plugin"] \in Nat
<1>1. im.fence["plugin"] \in Nat
  BY DEF Record, Namespaces
<1> QED
  BY <1>1 DEF Due

LEMMA ShiftKeeps ==
  ASSUME IInv, Shifts, NEW im \in Record, CopyStands(im, rev, backup)
  PROVE  CopyStands(im, rev', backup')
<1>1. rev["plugin"] \in Nat /\ Due(im) \in Nat
  BY DueNat DEF IInv, SettingsTyped, Namespaces
<1>2. CASE rev'["plugin"] = rev["plugin"] /\ backup' = backup
  BY <1>2 DEF CopyStands
<1>3. CASE rev'["plugin"] = rev["plugin"] + 1
  BY <1>1, <1>3 DEF CopyStands
<1> QED
  BY <1>2, <1>3 DEF Shifts

LEMMA CopyInvMoves ==
  ASSUME IInv, CopyInv, Shifts, NEW i \in DOMAIN imports, NEW im,
         imports' = [imports EXCEPT ![i] = im], Orderly(im), CopyStands(im, rev', backup')
  PROVE  CopyInv'
<1>1. /\ DOMAIN imports' = DOMAIN imports
      /\ \A j \in DOMAIN imports : imports'[j] = IF j = i THEN im ELSE imports[j]
      /\ \A j \in DOMAIN imports : imports[j] \in Record
  BY DEF IInv
<1>2. ASSUME NEW j \in DOMAIN imports PROVE Orderly(imports'[j]) /\ CopyStands(imports'[j], rev', backup')
  <2>1. CASE j = i
    BY <1>1, <2>1
  <2>2. CASE j # i
    <3>1. CopyStands(imports[j], rev', backup') /\ Orderly(imports[j])
      BY <1>1, ShiftKeeps DEF CopyInv
    <3> QED
      BY <1>1, <2>2, <3>1
  <2> QED
    BY <2>1, <2>2
<1> QED
  BY <1>1, <1>2 DEF CopyInv

LEMMA CopyInvStays ==
  ASSUME IInv, CopyInv, Shifts, imports' = imports
  PROVE  CopyInv'
<1>1. \A j \in DOMAIN imports : imports[j] \in Record
  BY DEF IInv
<1>2. \A j \in DOMAIN imports : CopyStands(imports[j], rev', backup') /\ Orderly(imports[j])
  BY <1>1, ShiftKeeps DEF CopyInv
<1> QED
  BY <1>2 DEF CopyInv

LEMMA BumpShifts ==
  ASSUME IInv, NEW ns \in Namespaces, Bump(ns), ns = "plugin" \/ backup' = backup
  PROVE  Shifts /\ (ns # "plugin" => rev'["plugin"] = rev["plugin"])
                /\ (ns = "plugin" => rev'["plugin"] = rev["plugin"] + 1)
BY BumpType DEF IInv, SettingsTyped, Shifts, Namespaces

LEMMA StillShifts == ASSUME rev' = rev, backup' = backup PROVE Shifts
BY DEF Shifts

\* Where an import goes on to: what its plan has left.
LEMMA FollowingOn ==
  ASSUME NEW at \in {"backup", "plugin", "llm"}, NEW plan
  PROVE  LET to == Following(at, plan)
         IN  /\ to \in {"plugin", "llm", "report"}
             /\ to = "plugin" => at = "backup" /\ "plugin" \in Open(plan)
             /\ to = "llm" => /\ at \in {"backup", "plugin"} /\ "llm" \in Open(plan)
                              /\ at = "backup" => "plugin" \notin Open(plan)
             /\ to = "report" => /\ at = "backup" => Open(plan) = {}
                                 /\ at = "plugin" => "llm" \notin Open(plan)
<1>1. Following(at, plan) =
        IF at = "backup" /\ "plugin" \in Open(plan) THEN "plugin"
        ELSE IF at \in {"backup", "plugin"} /\ "llm" \in Open(plan) THEN "llm" ELSE "report"
  BY DEF Following, Open
<1>2. Open(plan) \subseteq {"plugin", "llm"}
  BY DEF Open, Namespaces
<1> QED
  BY <1>1, <1>2

LEMMA FollowingLast == ASSUME NEW ns \in {"plugin", "llm"}, NEW plan PROVE Following(ns, plan) \in {"llm", "report"}
BY DEF Following

\* From its copy, taken or refused, an import goes to what its plan starts with.
LEMMA GoesOn ==
  ASSUME NEW im, NEW new, Orderly(im), im.at = "backup", new.at = Following("backup", im.plan),
         new.plan = im.plan, new.ok = im.ok, new.failed = im.failed
  PROVE  Orderly(new)
<1>1. Open(im.plan) \subseteq {"plugin", "llm"}
  BY DEF Open, Namespaces
<1>2. im.ok = {} /\ im.failed = {}
  BY DEF Orderly
<1> QED
  BY <1>1, <1>2, FollowingOn DEF Orderly

\* From a namespace, written or failed, it goes to the one that is left.
LEMMA Ends ==
  ASSUME NEW im, NEW new, NEW ns \in {"plugin", "llm"}, Orderly(im), im.at = ns,
         new.at = Following(ns, im.plan), new.plan = im.plan,
         \/ new.ok = im.ok \union {ns} /\ new.failed = im.failed
         \/ new.ok = im.ok /\ new.failed = im.failed \union {ns}
  PROVE  Orderly(new)
<1>1. Open(im.plan) \subseteq {"plugin", "llm"} /\ ns \in Open(im.plan) /\ ns \notin im.ok \union im.failed
      /\ im.ok \intersect im.failed = {}
  BY DEF Open, Namespaces, Orderly
<1>2. im.ok \union im.failed = Open(im.plan) \ (IF ns = "plugin" THEN {"plugin", "llm"} ELSE {"llm"})
  BY <1>1 DEF Orderly
<1>3. new.ok \union new.failed = im.ok \union im.failed \union {ns} /\ new.ok \intersect new.failed = {}
  BY <1>1
<1>4. /\ new.at \in {"llm", "report"}
      /\ new.at = "llm" => ns = "plugin" /\ "llm" \in Open(im.plan)
      /\ new.at = "report" => (ns = "plugin" => "llm" \notin Open(im.plan))
  BY FollowingOn
<1> QED
  BY <1>1, <1>2, <1>3, <1>4 DEF Orderly

LEMMA ImportKeepsCopies ==
  ASSUME IInv, CopyInv, NEW i \in DOMAIN imports, Importing(i)
  PROVE  CopyInv'
<1> DEFINE im == imports[i]
<1>1. /\ im \in Record /\ Orderly(im) /\ CopyStands(im, rev, backup) /\ docs \in Sections
      /\ rev["plugin"] \in Nat /\ "plugin" \in Namespaces /\ "llm" \in Namespaces
  BY DEF IInv, SettingsTyped, CopyInv, Namespaces
<1>2. ASSUME NEW ok \in BOOLEAN, ImportReads(i, ok) PROVE CopyInv'
  <2>1. Shifts /\ im.at = "describe"
    BY <1>2, StillShifts DEF ImportReads, settings
  <2> DEFINE plan == PlanImport(im.file, docs, im.mode, im.wire)
  <2> DEFINE new == [im EXCEPT !.at = "backup", !.read = docs, !.fence = rev, !.plan = plan]
  <2>2. CASE imports' = [imports EXCEPT ![i] = [im EXCEPT !.at = "unread"]]
    <3> DEFINE n == [im EXCEPT !.at = "unread"]
    <3>1. /\ n.at = "unread" /\ imports' = [imports EXCEPT ![i] = n]
          /\ n.plan = im.plan /\ n.ok = im.ok /\ n.failed = im.failed
      BY <1>1, <2>2 DEF Record
    <3> HIDE DEF n
    <3>2. Orderly(n) /\ CopyStands(n, rev', backup')
      BY <1>1, <3>1 DEF Orderly, CopyStands
    <3> QED
      BY <2>1, <3>1, <3>2, CopyInvMoves
  <2>3. CASE imports' = [imports EXCEPT ![i] = [im EXCEPT !.at = "skipped"]]
    <3> DEFINE n == [im EXCEPT !.at = "skipped"]
    <3>1. /\ n.at = "skipped" /\ imports' = [imports EXCEPT ![i] = n]
          /\ n.plan = im.plan /\ n.ok = im.ok /\ n.failed = im.failed
      BY <1>1, <2>3 DEF Record
    <3> HIDE DEF n
    <3>2. Orderly(n) /\ CopyStands(n, rev', backup')
      BY <1>1, <3>1 DEF Orderly, CopyStands
    <3> QED
      BY <2>1, <3>1, <3>2, CopyInvMoves
  <2>4. CASE imports' = [imports EXCEPT ![i] = new]
    <3> HIDE DEF plan
    <3>1. new.at = "backup" /\ new.ok = im.ok /\ new.failed = im.failed /\ new.copied = im.copied
      BY <1>1 DEF Record
    <3> HIDE DEF new
    <3>2. Orderly(new) /\ CopyStands(new, rev', backup')
      BY <1>1, <2>1, <3>1 DEF Orderly, CopyStands
    <3> QED
      BY <2>1, <2>4, <3>2, CopyInvMoves
  <2> QED
    BY <1>2, <2>2, <2>3, <2>4 DEF ImportReads
<1>3. CASE CopyLands(i)
  <2> DEFINE n == rev["plugin"] + 1
             fence == [im.fence EXCEPT !["plugin"] = n]
             to == Following("backup", im.plan)
             new == [im EXCEPT !.at = to, !.fence = fence, !.copied = TRUE]
  <2>1. /\ im.at = "backup" /\ backup' = im.read /\ Bump("plugin") /\ imports' = [imports EXCEPT ![i] = new]
    BY <1>3 DEF CopyLands, RollbackCopy, CopyFence
  <2>2. im.read \in Sections
    BY <2>1 DEF IInv, FromRead
  <2>3. fence["plugin"] = n /\ im.fence \in [Namespaces -> Nat] /\ n \in Nat
    BY <1>1, RecordFields
  <2>4. rev'["plugin"] = n /\ Shifts
    BY <1>1, <2>1, BumpShifts
  <2> HIDE DEF n, fence, to
  <2>5. /\ new.read = im.read /\ new.ok = im.ok /\ new.failed = im.failed /\ new.at = to
        /\ new.fence = fence /\ new.plan = im.plan
    BY <1>1 DEF Record
  <2> HIDE DEF new
  <2>6. im.ok = {} /\ im.failed = {} /\ to \in {"plugin", "llm", "report"}
    BY <1>1, <2>1, FollowingIn DEF Orderly, to
  <2>7. Orderly(new)
    BY <1>1, <2>1, <2>5, <2>6, GoesOn DEF to
  <2>8. Due(new) = n
    BY <2>3, <2>5, <2>6 DEF Due
  <2>9. CopyStands(new, rev', backup')
    BY <2>1, <2>2, <2>3, <2>4, <2>5, <2>8 DEF CopyStands
  <2> QED
    BY <2>1, <2>4, <2>7, <2>9, CopyInvMoves
<1>4. CASE CopyRefused(i)
  <2> DEFINE to == Following("backup", im.plan)
             new == [im EXCEPT !.at = to]
  <2>1. im.at = "backup" /\ imports' = [imports EXCEPT ![i] = new] /\ Shifts
    BY <1>4, StillShifts DEF CopyRefused, settings
  <2> HIDE DEF to
  <2>2. /\ new.ok = im.ok /\ new.failed = im.failed /\ new.copied = im.copied /\ new.at = to
        /\ new.plan = im.plan
    BY <1>1 DEF Record
  <2> HIDE DEF new
  <2>3. Orderly(new)
    BY <1>1, <2>1, <2>2, GoesOn DEF to, Orderly
  <2>4. CopyStands(new, rev', backup')
    BY <1>1, <2>1, <2>2 DEF Orderly, CopyStands
  <2> QED
    BY <2>1, <2>3, <2>4, CopyInvMoves
<1>5. ASSUME NEW ns \in Namespaces, WriteLands(i, ns) PROVE CopyInv'
  <2> DEFINE to == Following(ns, im.plan)
             ok == im.ok \union {ns}
             new == [im EXCEPT !.at = to, !.ok = ok]
  <2>1. im.at = ns /\ Fenced(im, ns) /\ Bump(ns) /\ backup' = backup /\ imports' = [imports EXCEPT ![i] = new]
    BY <1>5 DEF WriteLands
  <2>2. /\ Shifts /\ (ns # "plugin" => rev'["plugin"] = rev["plugin"])
        /\ (ns = "plugin" => rev'["plugin"] = rev["plugin"] + 1)
    BY <2>1, BumpShifts
  <2>3. /\ to \in {"llm", "report"} /\ ns \in {"plugin", "llm"}
        /\ "plugin" \in ok <=> "plugin" \in im.ok \/ ns = "plugin"
    BY FollowingLast DEF Namespaces
  <2> HIDE DEF to, ok
  <2>4. /\ new.ok = ok /\ new.failed = im.failed /\ new.copied = im.copied /\ new.at = to
        /\ new.read = im.read /\ new.fence = im.fence /\ new.plan = im.plan
    BY <1>1 DEF Record
  <2> HIDE DEF new
  <2>5. Orderly(new)
    BY <1>1, <2>1, <2>3, <2>4, Ends DEF to, ok
  <2>6. CopyStands(new, rev', backup')
    <3>1. Due(im) \in Nat /\ im.fence["plugin"] \in Nat
      BY <1>1, DueNat
    <3>2. CASE ns = "plugin"
      <4>1. "plugin" \notin im.ok
        BY <1>1, <2>1, <3>2 DEF Orderly
      <4>2. Due(new) = Due(im) + 1
        BY <2>3, <2>4, <3>1, <3>2, <4>1 DEF Due
      <4> QED
        BY <1>1, <2>1, <2>2, <2>3, <2>4, <3>1, <3>2, <4>2 DEF CopyStands
    <3>3. CASE ns # "plugin"
      <4>1. Due(new) = Due(im)
        BY <2>3, <2>4, <3>3 DEF Due
      <4> QED
        BY <1>1, <2>1, <2>2, <2>3, <2>4, <3>3, <4>1 DEF CopyStands
    <3> QED
      BY <3>2, <3>3
  <2> QED
    BY <2>1, <2>2, <2>5, <2>6, CopyInvMoves
<1>6. ASSUME NEW ns \in Namespaces, WriteRefused(i, ns) PROVE CopyInv'
  <2> DEFINE to == Following(ns, im.plan)
             failed == im.failed \union {ns}
             new == [im EXCEPT !.at = to, !.failed = failed]
  <2>1. im.at = ns /\ imports' = [imports EXCEPT ![i] = new] /\ rev' = rev /\ backup' = backup
    BY <1>6 DEF WriteRefused, settings
  <2>2. to \in {"llm", "report"} /\ ns \in {"plugin", "llm"}
    BY FollowingLast DEF Namespaces
  <2> HIDE DEF to, failed
  <2>3. /\ new.ok = im.ok /\ new.failed = failed /\ new.copied = im.copied /\ new.at = to
        /\ new.read = im.read /\ new.fence = im.fence /\ new.plan = im.plan
    BY <1>1 DEF Record
  <2> HIDE DEF new
  <2>4. Orderly(new) /\ Due(new) = Due(im)
    BY <1>1, <2>1, <2>2, <2>3, Ends DEF to, failed, Due
  <2>5. CopyStands(new, rev', backup')
    BY <1>1, <2>1, <2>2, <2>3, <2>4 DEF CopyStands
  <2> QED
    BY <2>1, <2>4, <2>5, StillShifts, CopyInvMoves
<1>7. CASE ImportThrows(i)
  <2> DEFINE new == [im EXCEPT !.at = "threw"]
  <2>1. imports' = [imports EXCEPT ![i] = new]
    BY <1>7 DEF ImportThrows
  <2>2. Shifts
    <3>1. CASE UNCHANGED settings
      BY <3>1, StillShifts DEF settings
    <3>2. CASE im.at \in Namespaces /\ Bump(im.at) /\ UNCHANGED backup
      BY <3>2, BumpShifts
    <3>3. CASE Bump("plugin")
      BY <1>1, <3>3, BumpShifts
    <3> QED
      BY <1>7, <3>1, <3>2, <3>3 DEF ImportThrows
  <2>3. new.at = "threw" /\ new.plan = im.plan /\ new.ok = im.ok /\ new.failed = im.failed
    BY <1>1 DEF Record
  <2> HIDE DEF new
  <2>4. Orderly(new) /\ CopyStands(new, rev', backup')
    BY <1>1, <2>3 DEF Orderly, CopyStands
  <2> QED
    BY <2>1, <2>2, <2>4, CopyInvMoves
<1>8. CASE ImportEnds(i)
  <2> DEFINE zero == [ns \in Namespaces |-> 0]
             new == [im EXCEPT !.at = "done", !.read = None, !.fence = zero, !.plan = NoOps,
                               !.copied = FALSE, !.ok = {}, !.failed = {}]
  <2>1. imports' = [imports EXCEPT ![i] = new] /\ Shifts
    BY <1>8, StillShifts DEF ImportEnds, settings
  <2> HIDE DEF zero
  <2>2. new.at = "done" /\ new.ok = {} /\ new.failed = {}
    BY <1>1 DEF Record
  <2> HIDE DEF new
  <2>3. Orderly(new) /\ CopyStands(new, rev', backup')
    BY <2>2 DEF Orderly, CopyStands
  <2> QED
    BY <2>1, <2>3, CopyInvMoves
<1> QED
  BY <1>2, <1>3, <1>4, <1>5, <1>6, <1>7, <1>8 DEF Importing

LEMMA NextKeepsCopies ==
  ASSUME IInv, CopyInv, [Next]_vars
  PROVE  CopyInv'
<1>1. CASE \/ LoadAnswers
           \/ \E snapshot \in Files \union ({backup} \ {None}) : Preview(snapshot)
           \/ FileFails \/ Cancel
           \/ \E kind \in {"profile", "rescan"} : EditStarts(kind)
           \/ \E ok \in BOOLEAN : EditReads(ok)
           \/ UNCHANGED vars
  <2>1. rev' = rev /\ backup' = backup /\ imports' = imports
    BY <1>1 DEF LoadAnswers, Preview, FileFails, Cancel, EditStarts, EditReads, settings, vars
  <2> QED
    BY <2>1, StillShifts, CopyInvStays
<1>2. CASE \E ok \in BOOLEAN : EditEnds(ok)
  <2>1. imports' = imports /\ backup' = backup /\ (rev' = rev \/ Bump("plugin"))
    BY <1>2 DEF EditEnds
  <2>2. Shifts
    BY <2>1, StillShifts, BumpShifts DEF Namespaces
  <2> QED
    BY <2>1, <2>2, CopyInvStays
<1>3. CASE \E ns \in Namespaces, section \in Foreign : OthersWrite(ns, section)
  <2>1. imports' = imports /\ backup' = backup /\ \E ns \in Namespaces : Bump(ns)
    BY <1>3 DEF OthersWrite
  <2>2. Shifts
    BY <2>1, BumpShifts
  <2> QED
    BY <2>1, <2>2, CopyInvStays
<1>4. ASSUME NEW choice \in Choices, Confirm(choice) PROVE CopyInv'
  <2> DEFINE im == [at |-> "describe", file |-> card.preview, mode |-> choice.mode, wire |-> choice.wire,
                    read |-> None, fence |-> rev, plan |-> NoOps, copied |-> FALSE, ok |-> {}, failed |-> {}]
  <2>1. imports' = Append(imports, im) /\ rev' = rev /\ backup' = backup
    BY <1>4 DEF Confirm, settings
  <2>2. Orderly(im) /\ CopyStands(im, rev', backup')
    BY DEF Orderly, CopyStands, Open
  <2> HIDE DEF im
  <2>3. /\ DOMAIN imports = 1..Len(imports) /\ Len(imports) \in Nat /\ DOMAIN imports' = 1..(Len(imports) + 1)
        /\ \A i \in DOMAIN imports : imports'[i] = imports[i]
        /\ imports'[Len(imports) + 1] = im
    BY <2>1 DEF IInv
  <2>4. \A i \in DOMAIN imports : Orderly(imports'[i]) /\ CopyStands(imports'[i], rev', backup')
    BY <2>1, <2>3 DEF CopyInv
  <2>5. \A i \in DOMAIN imports' : i \in DOMAIN imports \/ i = Len(imports) + 1
    BY <2>3
  <2> QED
    BY <2>2, <2>3, <2>4, <2>5 DEF CopyInv
<1>5. CASE \E i \in DOMAIN imports : Importing(i)
  BY <1>5, ImportKeepsCopies
<1> QED
  BY <1>1, <1>2, <1>3, <1>4, <1>5 DEF Next, Editing

\* Once an import has applied, or half of it, replacing with its rollback copy,
\* wiring included, gives back what it read, entry by entry (apply.ts,
\* snapshot.ts): nobody can have replaced the copy without a revision to show
\* for it, and a replacing plan is computed from what it finds.
THEOREM RollbackRestoresHolds == Spec => []RollbackRestores
<1>1. Init => CopyInv
  BY DEF Init, CopyInv
<1>2. ASSUME IInv, CopyInv PROVE RollbackRestores
  <2> DEFINE undo == PlanImport(backup, docs, "replace", TRUE)
  <2> SUFFICES ASSUME NEW i \in DOMAIN imports, NEW ns \in Namespaces,
                      imports[i].at = "report", imports[i].copied, Alone(imports[i]), Restorable(imports[i].read)
               PROVE  Declared(ns, Written(docs[ns], undo[ns])) = Declared(ns, imports[i].read[ns])
    BY DEF RollbackRestores
  <2> DEFINE im == imports[i]
  <2>1. im \in Record /\ CopyStands(im, rev, backup) /\ docs[ns] \in Section /\ "plugin" \in Namespaces
    BY <1>2 DEF IInv, SettingsTyped, CopyInv, Sections, Namespaces
  <2>2. rev["plugin"] = Due(im)
    BY <2>1 DEF Alone, Due
  <2>3. im.read \in Sections /\ backup = im.read
    BY <2>1, <2>2 DEF CopyStands
  <2>4. undo[ns] = Ops(ns, im.read, docs[ns], "replace", TRUE)
    BY <2>3 DEF PlanImport
  <2> QED
    BY <2>1, <2>3, <2>4, UndoRestores
<1> QED
  BY <1>1, <1>2, NextKeepsCopies, Invariant, PTL DEF Spec

\* The declared shape; and an import that reports has ended, one way or the
\* other, exactly what its plan had something for (apply.ts).
THEOREM TypeCorrect == Spec => []TypeOK
<1> DEFINE Loads == reads \subseteq {"load"}
<1>1. Init => CopyInv /\ Loads
  BY DEF Init, CopyInv
<1>2. ASSUME Loads, [Next]_vars PROVE Loads'
  <2>1. CASE UNCHANGED vars
    BY <1>2, <2>1 DEF vars
  <2>2. CASE LoadAnswers \/ FileFails \/ Cancel \/ Editing
    BY <1>2, <2>2 DEF LoadAnswers, FileFails, Cancel, Editing, EditReads, EditEnds
  <2>3. CASE \/ \E snapshot \in Files \union ({backup} \ {None}) : Preview(snapshot)
             \/ \E choice \in Choices : Confirm(choice)
             \/ \E kind \in {"profile", "rescan"} : EditStarts(kind)
             \/ \E ns \in Namespaces, section \in Foreign : OthersWrite(ns, section)
    BY <1>2, <2>3 DEF Preview, Confirm, EditStarts, OthersWrite
  <2>4. CASE \E i \in DOMAIN imports : Importing(i)
    BY <1>2, <2>4
    DEF Importing, ImportReads, CopyLands, CopyRefused, WriteLands, WriteRefused, ImportThrows, ImportEnds, Reports
  <2> QED
    BY <1>2, <2>1, <2>2, <2>3, <2>4 DEF Next
<1>3. IInv /\ CopyInv /\ Loads => TypeOK
  BY DEF IInv, SettingsTyped, CopyInv, Orderly, Open, TypeOK
<1> HIDE DEF Loads
<1> QED
  BY <1>1, <1>2, <1>3, NextKeepsCopies, Invariant, PTL DEF Spec
=============================================================================
