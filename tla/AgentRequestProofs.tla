--------------------------- MODULE AgentRequestProofs ---------------------------
(***************************************************************************)
(* Proofs about what the Host adds to the requests of agents.  First the   *)
(* session header and its generator, for any sessions, streams, fetches    *)
(* and configurations, any cache bound, any stat interval and any number   *)
(* of edits.  Then the effort and the route of a subagent, for any models, *)
(* custom efforts and settings, and the compaction pass, for a surface of  *)
(* any length.  The two modules share no variable.                         *)
(***************************************************************************)
EXTENDS SessionHeader, AgentPolicies, SequenceTheorems, FiniteSetTheorems,
        WellFoundedInduction, TLAPS

----------------------------------------------------------------------------
(* The invariant.                                                          *)

Entry == [session : Sessions, fingerprint : Configs, value : Value \union {None}]
Call == [at : {"idle", "stat", "import", "join", "joined", "loaded", "answered"},
         session : Sessions \union {None}, config : Configs \union {None}, age : Nat, got : Nat,
         of : Calls \union {None}, value : Value \union {None}]

\* The value is what the configuration makes of the session, whose block is b.
Right(value, s, config, b) ==
  IF value = None THEN config.onInvalid = "drop"
  ELSE /\ value.of = s
       /\ value.by \in IF config.mode = "passthrough" THEN {"raw"}
                       ELSE {"ses"} \union ({config.mode} \ {"ses-derive"})
       /\ value.by # "raw" => IF config.time = "hash" THEN value.hex = 0 ELSE value.hex = b /\ b # 0
       /\ config.onInvalid = "drop" => value.by \in config.accepts

\* A cache holds right values, one a session.
CacheOK(q, blocks) ==
  /\ q \in Seq(Entry)
  /\ \A i, j \in DOMAIN q : q[i].session = q[j].session => i = j
  /\ \A i \in DOMAIN q : Right(q[i].value, q[i].session, q[i].fingerprint, blocks[q[i].session])
Without(q, s) == \A i \in DOMAIN q : q[i].session # s

CacheInv == CacheOK(cache, first) /\ Len(cache) <= MaxEntries

\* The block of a session is the first that was minted for it.
MintInv == minted = first /\ first \in [Sessions -> {0} \union Moments]

\* A step mints no second block.
Grown == \A s \in Sessions : first[s] # 0 => first'[s] = first[s]

\* Calls that wait or have a module to run are of a script, whose slot is there;
\* who waits for a load, or is named by the slot, has one to wait for.
CallsInv ==
  /\ calls \in [Calls -> Call] /\ slot \in Slot \union {None} /\ file \in Nat
  /\ \A c \in Calls : calls[c].at # "idle" => calls[c].session \in Sessions /\ calls[c].config \in Configs
  /\ \A c \in Calls : calls[c].at \notin {"idle", "answered"} => slot # None /\ calls[c].config.mode = "script"
  /\ slot # None => slot.loading = None \/ calls[slot.loading].at = "import"
  /\ \A c \in Calls : calls[c].at = "join" => calls[c].of \in Calls /\ calls[calls[c].of].at = "import"

AnswersInv ==
  \A c \in Calls : calls[c].at = "answered" =>
    Right(calls[c].value, calls[c].session, calls[c].config, first[calls[c].session])

\* A patch that outlives the disposal was covered then, and has the default
\* configuration left to it.
BridgeInv ==
  /\ streams \in [Streams -> Sessions \union {None}]
  /\ snapshot \in [on : BOOLEAN, format : Configs]
  /\ ~installed => (patched => left) /\ snapshot.format = DefaultConfig

FormatterInv == CacheInv /\ MintInv /\ CallsInv /\ AnswersInv
IInv == FormatterInv /\ BridgeInv

----------------------------------------------------------------------------
(* The cache.                                                              *)

LEMMA RemoveAtFacts ==
  ASSUME NEW S, NEW q \in Seq(S), NEW k \in DOMAIN q
  PROVE  /\ RemoveAt(q, k) \in Seq(S) /\ Len(RemoveAt(q, k)) = Len(q) - 1
         /\ \A i \in 1..(Len(q) - 1) : RemoveAt(q, k)[i] = IF i < k THEN q[i] ELSE q[i + 1]
<1> DEFINE a == SubSeq(q, 1, k - 1)
           b == SubSeq(q, k + 1, Len(q))
<1>1. Len(q) \in Nat /\ DOMAIN q = 1..Len(q) /\ k \in 1..Len(q)
  BY LenProperties
<1>2. \A i \in 1..Len(q) : q[i] \in S
  BY ElementOfSeq
<1>3. /\ a \in Seq(S) /\ Len(a) = k - 1
      /\ \A i \in 1..(k - 1) : a[i] = q[i]
  <2>1. /\ a \in Seq(S) /\ Len(a) = IF 1 <= k - 1 THEN k - 1 - 1 + 1 ELSE 0
        /\ \A i \in 1..(k - 1 - 1 + 1) : a[i] = q[1 + i - 1]
    BY <1>1, <1>2, SubSeqProperties
  <2> HIDE DEF a
  <2> QED
    BY <1>1, <2>1
<1>4. /\ b \in Seq(S) /\ Len(b) = Len(q) - k
      /\ \A i \in 1..(Len(q) - k) : b[i] = q[k + i]
  <2>1. /\ b \in Seq(S) /\ Len(b) = IF k + 1 <= Len(q) THEN Len(q) - (k + 1) + 1 ELSE 0
        /\ \A i \in 1..(Len(q) - (k + 1) + 1) : b[i] = q[k + 1 + i - 1]
    BY <1>1, <1>2, SubSeqProperties
  <2> HIDE DEF b
  <2>2. Len(q) - (k + 1) + 1 = Len(q) - k /\ (k + 1 <= Len(q) \/ Len(q) - k = 0)
    BY <1>1
  <2>3. \A i \in 1..(Len(q) - k) : k + 1 + i - 1 = k + i
    BY <1>1
  <2>4. Len(b) = Len(q) - k
    BY <1>1, <2>1, <2>2
  <2> QED
    BY <2>1, <2>2, <2>3, <2>4
<1>5. RemoveAt(q, k) = a \o b
  BY DEF RemoveAt
<1> HIDE DEF a, b
<1>6. /\ a \o b \in Seq(S) /\ Len(a \o b) = Len(a) + Len(b)
      /\ \A i \in 1..(Len(a) + Len(b)) : (a \o b)[i] = IF i <= Len(a) THEN a[i] ELSE b[i - Len(a)]
  BY <1>3, <1>4, ConcatProperties
<1>7. \A i \in 1..(Len(q) - 1) : (a \o b)[i] = IF i < k THEN q[i] ELSE q[i + 1]
  <2> TAKE i \in 1..(Len(q) - 1)
  <2>1. CASE i < k
    <3>1. i \in 1..(k - 1) /\ i <= Len(a) /\ i \in 1..(Len(a) + Len(b))
      BY <2>1, <1>1, <1>3, <1>4
    <3> QED
      BY <3>1, <2>1, <1>3, <1>6
  <2>2. CASE ~(i < k)
    <3>1. /\ ~(i <= Len(a)) /\ i \in 1..(Len(a) + Len(b))
          /\ i - Len(a) \in 1..(Len(q) - k) /\ k + (i - Len(a)) = i + 1
      BY <2>2, <1>1, <1>3, <1>4
    <3>2. b[i - Len(a)] = q[k + (i - Len(a))]
      BY <3>1, <1>4
    <3> QED
      BY <3>1, <3>2, <2>2, <1>6
  <2> QED
    BY <2>1, <2>2
<1> QED
  BY <1>1, <1>3, <1>4, <1>5, <1>6, <1>7

\* A cache that is right stays so when it loses an entry.
LEMMA FewerOK ==
  ASSUME NEW q, NEW r \in Seq(Entry), NEW blocks, CacheOK(q, blocks),
         Len(q) = Len(r) + 1, NEW gap \in Nat,
         \A i \in DOMAIN r : r[i] = IF i < gap THEN q[i] ELSE q[i + 1]
  PROVE  CacheOK(r, blocks)
<1>1. DOMAIN r = 1..Len(r) /\ Len(r) \in Nat /\ DOMAIN q = 1..Len(q)
  BY LenProperties DEF CacheOK
<1>2. ASSUME NEW i \in DOMAIN r, NEW j \in DOMAIN r, r[i].session = r[j].session
      PROVE  i = j
  <2> DEFINE f(x) == IF x < gap THEN x ELSE x + 1
  <2>1. f(i) \in DOMAIN q /\ f(j) \in DOMAIN q /\ r[i] = q[f(i)] /\ r[j] = q[f(j)]
    BY <1>1
  <2>2. f(i) = f(j)
    BY <2>1, <1>2 DEF CacheOK
  <2> QED
    BY <2>2, <1>1
<1>3. ASSUME NEW i \in DOMAIN r
      PROVE  Right(r[i].value, r[i].session, r[i].fingerprint, blocks[r[i].session])
  <2>1. PICK k \in DOMAIN q : r[i] = q[k]
    <3>1. CASE i < gap
      BY <3>1, <1>1
    <3>2. CASE ~(i < gap)
      BY <3>2, <1>1
    <3> QED
      BY <3>1, <3>2
  <2> QED
    BY <2>1 DEF CacheOK
<1> QED
  BY <1>2, <1>3 DEF CacheOK

LEMMA OthersOK ==
  ASSUME NEW blocks, CacheOK(cache, blocks), NEW s \in Sessions
  PROVE  /\ CacheOK(Others(s), blocks) /\ Without(Others(s), s)
         /\ Len(Others(s)) <= Len(cache)
         /\ Places(s) # {} => Len(Others(s)) = Len(cache) - 1
<1>1. cache \in Seq(Entry) /\ Len(cache) \in Nat /\ DOMAIN cache = 1..Len(cache)
  BY LenProperties DEF CacheOK
<1>2. CASE Places(s) = {}
  <2>1. Others(s) = cache
    BY <1>2 DEF Others
  <2>2. Without(cache, s)
    BY <1>2 DEF Without, Places
  <2> QED
    BY <2>1, <2>2, <1>1, <1>2
<1>3. CASE Places(s) # {}
  <2> DEFINE k == CHOOSE i \in Places(s) : TRUE
  <2>1. k \in DOMAIN cache /\ cache[k].session = s
    BY <1>3 DEF Places
  <2>2. Others(s) = RemoveAt(cache, k)
    BY <1>3 DEF Others
  <2> HIDE DEF k
  <2>3. /\ Others(s) \in Seq(Entry) /\ Len(Others(s)) = Len(cache) - 1
        /\ \A i \in 1..(Len(cache) - 1) : Others(s)[i] = IF i < k THEN cache[i] ELSE cache[i + 1]
    BY <2>1, <2>2, <1>1, RemoveAtFacts
  <2>4. DOMAIN Others(s) = 1..(Len(cache) - 1)
    BY <2>3, LenProperties
  <2>5. CacheOK(Others(s), blocks)
    <3>1. k \in Nat /\ Len(cache) = Len(Others(s)) + 1
      BY <2>1, <2>3, <1>1
    <3>2. \A i \in DOMAIN Others(s) : Others(s)[i] = IF i < k THEN cache[i] ELSE cache[i + 1]
      BY <2>3, <2>4
    <3> QED
      BY <3>1, <3>2, <2>3, FewerOK
  <2>6. Without(Others(s), s)
    <3> SUFFICES ASSUME NEW i \in 1..(Len(cache) - 1), Others(s)[i].session = s PROVE FALSE
      BY <2>4 DEF Without
    <3>1. PICK j \in DOMAIN cache : j # k /\ Others(s)[i] = cache[j]
      <4>1. CASE i < k
        BY <4>1, <2>1, <2>3, <1>1
      <4>2. CASE ~(i < k)
        <5>1. i + 1 \in DOMAIN cache /\ i + 1 # k /\ Others(s)[i] = cache[i + 1]
          BY <4>2, <2>1, <2>3, <1>1
        <5> QED
          BY <5>1
      <4> QED
        BY <4>1, <4>2
    <3> QED
      BY <3>1, <2>1 DEF CacheOK
  <2> QED
    BY <2>3, <2>5, <2>6, <1>1
<1> QED
  BY <1>2, <1>3

\* Storing a value leaves room for it first.
LEMMA KeptOK ==
  ASSUME NEW blocks, CacheOK(cache, blocks), Len(cache) <= MaxEntries, NEW s \in Sessions
  PROVE  CacheOK(Kept(s), blocks) /\ Without(Kept(s), s) /\ Len(Kept(s)) + 1 <= MaxEntries
<1> DEFINE o == Others(s)
<1>1. CacheOK(o, blocks) /\ Without(o, s) /\ Len(o) <= Len(cache) /\ Len(cache) <= MaxEntries
  BY OthersOK
<1>2. Len(cache) \in Nat /\ MaxEntries \in Nat \ {0}
  BY LenProperties, FormatterConstants DEF CacheOK
<1>3. o \in Seq(Entry) /\ Len(o) \in Nat /\ DOMAIN o = 1..Len(o)
  BY <1>1, LenProperties DEF CacheOK
<1>4. Kept(s) = IF Len(o) >= MaxEntries THEN Tail(o) ELSE o
  BY DEF Kept
<1> HIDE DEF o
<1>5. CASE Len(o) >= MaxEntries
  <2>1. o # <<>>
    BY <1>2, <1>3, <1>5, EmptySeq
  <2>2. /\ Tail(o) \in Seq(Entry) /\ Len(Tail(o)) = Len(o) - 1
        /\ \A i \in 1..Len(Tail(o)) : Tail(o)[i] = o[i + 1]
    BY <2>1, <1>3, HeadTailProperties
  <2>3. DOMAIN Tail(o) = 1..Len(Tail(o))
    BY <2>2, LenProperties
  <2>4. CacheOK(Tail(o), blocks)
    <3>1. Len(o) = Len(Tail(o)) + 1
      BY <2>2, <1>3
    <3>2. \A i \in DOMAIN Tail(o) : Tail(o)[i] = IF i < 0 THEN o[i] ELSE o[i + 1]
      BY <2>2, <2>3, <1>3
    <3> QED
      BY <3>1, <3>2, <2>2, <1>1, FewerOK
  <2>5. Without(Tail(o), s)
    BY <1>1, <1>3, <2>2, <2>3 DEF Without
  <2> QED
    BY <1>1, <1>2, <1>3, <1>4, <1>5, <2>2, <2>4, <2>5
<1>6. CASE ~(Len(o) >= MaxEntries)
  BY <1>1, <1>2, <1>3, <1>4, <1>6
<1> QED
  BY <1>5, <1>6

\* An entry of a session that has none is right to add.
LEMMA AppendOK ==
  ASSUME NEW q, NEW e \in Entry, NEW blocks, CacheOK(q, blocks), Without(q, e.session),
         Right(e.value, e.session, e.fingerprint, blocks[e.session])
  PROVE  CacheOK(Append(q, e), blocks) /\ Len(Append(q, e)) = Len(q) + 1
<1>1. q \in Seq(Entry) /\ Len(q) \in Nat /\ DOMAIN q = 1..Len(q)
  BY LenProperties DEF CacheOK
<1>2. /\ Append(q, e) \in Seq(Entry) /\ Len(Append(q, e)) = Len(q) + 1
      /\ \A i \in 1..Len(q) : Append(q, e)[i] = q[i]
      /\ Append(q, e)[Len(q) + 1] = e
  BY <1>1, AppendProperties
<1>3. DOMAIN Append(q, e) = 1..(Len(q) + 1)
  BY <1>2, LenProperties
<1> DEFINE r == Append(q, e)
<1> HIDE DEF r
<1>4. \A i \in DOMAIN r : (i \in DOMAIN q /\ r[i] = q[i]) \/ (i = Len(q) + 1 /\ r[i] = e)
  BY <1>1, <1>2, <1>3 DEF r
<1>5. \A i, j \in DOMAIN r : r[i].session = r[j].session => i = j
  BY <1>4 DEF CacheOK, Without
<1>6. \A i \in DOMAIN r : Right(r[i].value, r[i].session, r[i].fingerprint, blocks[r[i].session])
  BY <1>4 DEF CacheOK
<1> QED
  BY <1>2, <1>5, <1>6 DEF CacheOK, r

\* What is right stays so: a block that counts is not minted again.
LEMMA RightStays ==
  ASSUME NEW value, NEW s \in Sessions, NEW config, Grown, Right(value, s, config, first[s])
  PROVE  Right(value, s, config, first'[s])
BY DEF Right, Grown

LEMMA CacheStays ==
  ASSUME NEW q, CacheOK(q, first), Grown
  PROVE  CacheOK(q, first')
<1> SUFFICES ASSUME NEW i \in DOMAIN q
             PROVE  Right(q[i].value, q[i].session, q[i].fingerprint, first'[q[i].session])
  BY DEF CacheOK
<1>1. q[i].session \in Sessions
  <2>1. q \in Seq(Entry) /\ i \in 1..Len(q)
    BY LenProperties DEF CacheOK
  <2>2. q[i] \in Entry
    BY <2>1, ElementOfSeq
  <2> QED
    BY <2>2 DEF Entry
<1>2. Right(q[i].value, q[i].session, q[i].fingerprint, first[q[i].session])
  BY DEF CacheOK
<1> QED
  BY <1>1, <1>2, RightStays

LEMMA StoreKeeps ==
  ASSUME CacheInv, NEW s \in Sessions, NEW config \in Configs, NEW value \in Value \union {None},
         Grown, Right(value, s, config, first'[s]), Store(s, config, value)
  PROVE  CacheInv'
<1> DEFINE e == [session |-> s, fingerprint |-> config, value |-> value]
<1>1. cache' = Append(Kept(s), e)
  BY DEF Store, Fingerprint
<1>2. e \in Entry /\ e.session = s /\ Right(e.value, e.session, e.fingerprint, first'[e.session])
  BY DEF Entry
<1> HIDE DEF e
<1>3. CacheOK(cache, first') /\ Len(cache) <= MaxEntries
  BY CacheStays DEF CacheInv
<1>4. CacheOK(Kept(s), first') /\ Without(Kept(s), s) /\ Len(Kept(s)) + 1 <= MaxEntries
  BY <1>3, KeptOK
<1>5. CacheOK(Append(Kept(s), e), first') /\ Len(Append(Kept(s), e)) = Len(Kept(s)) + 1
  BY <1>2, <1>4, AppendOK
<1>6. CacheOK(cache', first') /\ Len(cache') <= MaxEntries
  BY <1>1, <1>4, <1>5
<1> QED
  BY <1>6 DEF CacheInv, CacheOK, Right

\* An entry that is hit is right, and stays.
LEMMA TouchKeeps ==
  ASSUME CacheInv, NEW s \in Sessions, NEW config \in Configs, NEW e \in Hit(s, config), Touch(e),
         UNCHANGED first
  PROVE  /\ CacheInv'
         /\ e.value \in Value \union {None} /\ Right(e.value, s, config, first[s])
<1>1. PICK i \in DOMAIN cache : e = cache[i]
  BY DEF Hit, ToSet
<1>2. e.session = s /\ e.fingerprint = config
  BY DEF Hit, Fingerprint
<1>3. cache \in Seq(Entry) /\ Len(cache) \in Nat /\ DOMAIN cache = 1..Len(cache) /\ Len(cache) <= MaxEntries
  BY LenProperties DEF CacheInv, CacheOK
<1>4. e \in Entry /\ Right(e.value, e.session, e.fingerprint, first[e.session])
  BY <1>1, <1>3, ElementOfSeq DEF CacheInv, CacheOK
<1>5. i \in Places(s)
  BY <1>1, <1>2 DEF Places
<1>6. CacheOK(Others(s), first) /\ Without(Others(s), s) /\ Len(Others(s)) = Len(cache) - 1
  BY <1>5, OthersOK DEF CacheInv
<1>7. CacheOK(Append(Others(s), e), first) /\ Len(Append(Others(s), e)) = Len(cache)
  <2>1. Without(Others(s), e.session)
    BY <1>2, <1>6
  <2>2. CacheOK(Append(Others(s), e), first) /\ Len(Append(Others(s), e)) = Len(Others(s)) + 1
    BY <2>1, <1>4, <1>6, AppendOK
  <2> QED
    BY <2>2, <1>3, <1>6
<1>8. cache' = Append(Others(s), e)
  BY <1>2 DEF Touch
<1>9. CacheOK(cache', first) /\ Len(cache') <= MaxEntries
  BY <1>3, <1>7, <1>8
<1> QED
  BY <1>2, <1>4, <1>9 DEF CacheInv, CacheOK, Right, Entry

----------------------------------------------------------------------------
(* Values.                                                                 *)

\* What counts for the block of a session that is asked for one.
LEMMA MintingKeeps ==
  ASSUME MintInv, NEW s \in Sessions, NEW config \in Configs, NEW now \in Moments, Minting(s, config, now)
  PROVE  /\ MintInv' /\ Grown /\ Hex(s, config, now) \in Nat
         /\ IF config.time = "hash" THEN Hex(s, config, now) = 0
            ELSE Hex(s, config, now) = first'[s] /\ first'[s] # 0
<1>1. now \in Nat \ {0} /\ Moments \subseteq Nat
  BY FormatterConstants
<1>2. CASE config.time = "hash"
  BY <1>1, <1>2 DEF Minting, MintInv, Grown, Hex
<1>3. CASE config.time # "hash"
  <2> DEFINE h == Hex(s, config, now)
  <2>1. h = IF first[s] # 0 THEN first[s] ELSE now
    BY <1>3 DEF Hex, MintInv
  <2>2. minted' = [minted EXCEPT ![s] = h] /\ first' = [first EXCEPT ![s] = IF @ = 0 THEN h ELSE @]
    BY <1>3 DEF Minting
  <2> HIDE DEF h
  <2>3. h \in Moments /\ h \in Nat \ {0} /\ (first[s] # 0 => h = first[s])
    BY <1>1, <2>1 DEF MintInv
  <2>4. first' = [first EXCEPT ![s] = h] /\ first'[s] = h
    BY <2>2, <2>3 DEF MintInv
  <2>5. minted' = first' /\ first' \in [Sessions -> {0} \union Moments] /\ Grown
    BY <2>2, <2>3, <2>4 DEF MintInv, Grown
  <2> QED
    BY <1>3, <2>3, <2>4, <2>5 DEF MintInv, h
<1> QED
  BY <1>2, <1>3

LEMMA ConfigFacts ==
  \A config \in Configs :
    /\ config.mode \in Modes /\ config.text \in {"empty", "bad", "good"}
    /\ config.onInvalid \in {"warn", "drop", "send"}
BY FormatterConstants DEF Config

\* A value of a generator the configuration may take is right once validated.
LEMMA MadeIsRight ==
  ASSUME NEW s \in Sessions, NEW config \in Configs, NEW by \in Generators, NEW hex \in Nat,
         NEW ver \in Nat, NEW b,
         by \in IF config.mode = "passthrough" THEN {"raw"}
                ELSE {"ses"} \union ({config.mode} \ {"ses-derive"}),
         by # "raw" => IF config.time = "hash" THEN hex = 0 ELSE hex = b /\ b # 0
  PROVE  /\ Validated(Made(by, s, hex, ver), config) \in Value \union {None}
         /\ Right(Validated(Made(by, s, hex, ver), config), s, config, b)
<1> DEFINE v == Made(by, s, hex, ver)
<1>1. v \in Value /\ v.by = by /\ v.of = s /\ v.hex = hex
  BY DEF Made, Value
<1>2. v # None
  BY <1>1, FormatterConstants
<1> HIDE DEF v
<1>3. CASE by \notin config.accepts /\ config.onInvalid = "drop"
  BY <1>1, <1>3 DEF Validated, Right, v
<1>4. CASE ~(by \notin config.accepts /\ config.onInvalid = "drop")
  <2>1. Validated(v, config) = v
    BY <1>1, <1>4 DEF Validated
  <2> QED
    BY <2>1, <1>1, <1>2, <1>4 DEF Right, v
<1> QED
  BY <1>3, <1>4

LEMMA ComputedIsRight ==
  ASSUME NEW s \in Sessions, NEW config \in Configs, NEW h \in Nat, NEW b,
         config.mode # "passthrough" => IF config.time = "hash" THEN h = 0 ELSE h = b /\ b # 0
  PROVE  /\ Computed(s, config, h) \in Value \union {None}
         /\ Right(Computed(s, config, h), s, config, b)
<1>1. config.mode \in Modes
  BY ConfigFacts
<1>2. CASE config.mode = "passthrough"
  <2>1. Computed(s, config, h) = Validated(Made("raw", s, 0, 0), config)
    BY <1>2 DEF Computed
  <2> QED
    BY <2>1, <1>2, MadeIsRight DEF Generators
<1>3. CASE config.mode = "template" /\ config.text # "empty"
  <2>1. Computed(s, config, h) = Validated(Made("template", s, h, 0), config)
    BY <1>3 DEF Computed
  <2> QED
    BY <2>1, <1>3, MadeIsRight DEF Generators
<1>4. CASE config.mode = "expression" /\ config.text = "good"
  <2>1. Computed(s, config, h) = Validated(Made("expression", s, h, 0), config)
    BY <1>4 DEF Computed
  <2> QED
    BY <2>1, <1>4, MadeIsRight DEF Generators
<1>5. CASE /\ config.mode # "passthrough" /\ ~(config.mode = "template" /\ config.text # "empty")
           /\ ~(config.mode = "expression" /\ config.text = "good")
  <2>1. Computed(s, config, h) = Validated(Made("ses", s, h, 0), config)
    BY <1>5 DEF Computed, Derived
  <2> QED
    BY <2>1, <1>5, MadeIsRight DEF Generators
<1> QED
  BY <1>2, <1>3, <1>4, <1>5

LEMMA ByScriptIsRight ==
  ASSUME NEW s \in Sessions, NEW config \in Configs, config.mode = "script", NEW module \in Nat,
         NEW h \in Nat, NEW b, IF config.time = "hash" THEN h = 0 ELSE h = b /\ b # 0
  PROVE  /\ ByScript(s, config, h, module) \in Value \union {None}
         /\ Right(ByScript(s, config, h, module), s, config, b)
<1> DEFINE runs == config.text # "empty" /\ module # 0 /\ module \notin Faulty
<1>1. ByScript(s, config, h, module) =
        Validated(IF runs THEN Made("script", s, h, module) ELSE Made("ses", s, h, 0), config)
  BY DEF ByScript, Derived
<1> HIDE DEF runs
<1>2. CASE runs
  BY <1>1, <1>2, MadeIsRight DEF Generators
<1>3. CASE ~runs
  BY <1>1, <1>3, MadeIsRight DEF Generators
<1> QED
  BY <1>2, <1>3

----------------------------------------------------------------------------
(* Calls.                                                                  *)

CallState == CallsInv /\ AnswersInv

\* A call that is answered with a right value, by a step that waits for nothing.
LEMMA AnsweredKeeps ==
  ASSUME CallState, NEW c \in Calls, NEW s \in Sessions, NEW config \in Configs,
         NEW value \in Value \union {None}, Grown, Right(value, s, config, first'[s]),
         calls[c].at # "import", Answered(c, s, config, value), UNCHANGED <<slot, file>>
  PROVE  CallState'
<1> DEFINE n == [Idle EXCEPT !.at = "answered", !.session = s, !.config = config, !.value = value]
<1>1. n \in Call /\ n.at = "answered" /\ n.session = s /\ n.config = config /\ n.value = value
  BY DEF Call, Idle
<1>2. calls' = [calls EXCEPT ![c] = n]
  BY DEF Answered
<1> HIDE DEF n
<1>3. CallsInv'
  BY <1>1, <1>2 DEF CallState, CallsInv, Slot
<1>4. AnswersInv'
  <2> SUFFICES ASSUME NEW d \in Calls, calls'[d].at = "answered"
               PROVE  Right(calls'[d].value, calls'[d].session, calls'[d].config, first'[calls'[d].session])
    BY DEF AnswersInv, Right
  <2>1. CASE d = c
    BY <1>1, <1>2, <2>1 DEF CallState, CallsInv
  <2>2. CASE d # c
    <3>1. calls'[d] = calls[d] /\ calls[d].session \in Sessions
      BY <1>2, <2>2 DEF CallState, CallsInv
    <3>2. Right(calls[d].value, calls[d].session, calls[d].config, first[calls[d].session])
      BY <3>1 DEF CallState, AnswersInv
    <3> QED
      BY <3>1, <3>2, RightStays
  <2> QED
    BY <2>1, <2>2
<1> QED
  BY <1>3, <1>4 DEF CallState

\* A call that takes another step of its own, and is not answered by it.
LEMMA MovesOn ==
  ASSUME CallState, NEW c \in Calls, NEW n \in Call,
         calls' = [calls EXCEPT ![c] = n], slot' \in Slot, UNCHANGED <<file, first>>,
         n.at \notin {"idle", "answered"}, calls[c].at # "import",
         n.session \in Sessions, n.config \in Configs, n.config.mode = "script",
         n.at = "join" => n.of \in Calls /\ calls[n.of].at = "import",
         slot'.loading = None \/ calls'[slot'.loading].at = "import"
  PROVE  CallState'
<1>1. slot' # None
  BY FormatterConstants
<1>2. \A d \in Calls : d # c => calls'[d] = calls[d]
  BY DEF CallState, CallsInv
<1>3. calls'[c] = n /\ calls' \in [Calls -> Call]
  BY DEF CallState, CallsInv
<1>4. \A d \in Calls : calls'[d].at = "join" => calls'[d].of \in Calls /\ calls'[calls'[d].of].at = "import"
  BY <1>2, <1>3 DEF CallState, CallsInv
<1>5. \A d \in Calls : calls'[d].at # "idle" => calls'[d].session \in Sessions /\ calls'[d].config \in Configs
  BY <1>2, <1>3 DEF CallState, CallsInv
<1>6. \A d \in Calls : calls'[d].at \notin {"idle", "answered"} => slot' # None /\ calls'[d].config.mode = "script"
  BY <1>1, <1>2, <1>3 DEF CallState, CallsInv
<1>7. CallsInv'
  BY <1>1, <1>3, <1>4, <1>5, <1>6 DEF CallState, CallsInv, Slot
<1>8. AnswersInv'
  BY <1>2, <1>3 DEF CallState, AnswersInv, Right
<1> QED
  BY <1>7, <1>8 DEF CallState

LEMMA FormatAsksScriptKeeps ==
  ASSUME CallState, NEW c \in Calls, calls[c] = Idle, NEW s \in Sessions, NEW config \in Configs,
         FormatAsksScript(c, s, config)
  PROVE  CallState'
<1> DEFINE wait == IF slot = None THEN Stat
                   ELSE IF Young(slot) THEN Loaded(slot.module)
                   ELSE IF slot.loading # None THEN Join(slot.loading) ELSE Stat
           n == [Idle EXCEPT !.at = wait.at, !.session = s, !.config = config, !.got = wait.got, !.of = wait.of]
<1>1. slot' \in Slot /\ (slot'.loading = None \/ (slot # None /\ slot' = slot))
  BY DEF FormatAsksScript, CallState, CallsInv, Slot, NewSlot
<1>2. wait \in [at : {"stat", "loaded", "join"}, got : Nat, of : Calls \union {None}]
      /\ (wait.at = "join" => wait.of \in Calls /\ calls[wait.of].at = "import")
  BY DEF CallState, CallsInv, Slot, Stat, Loaded, Join
<1>3. calls' = [calls EXCEPT ![c] = n] /\ config.mode = "script" /\ file' = file /\ first' = first
  BY DEF FormatAsksScript, Waits
<1> HIDE DEF wait
<1>4. /\ n \in Call /\ n.at = wait.at /\ n.session = s /\ n.config = config /\ n.of = wait.of
  BY <1>2 DEF Call, Idle
<1> HIDE DEF n
<1>5. calls[c].at = "idle"
  BY DEF Idle
<1>6. slot'.loading = None \/ calls'[slot'.loading].at = "import"
  BY <1>1, <1>3, <1>5 DEF CallState, CallsInv, Slot
<1> QED
  BY <1>1, <1>2, <1>3, <1>4, <1>5, <1>6, MovesOn

\* What is left of a call that has a module to run.
LEMMA RunsFacts ==
  ASSUME NEW call \in Call, NEW module \in Nat
  PROVE  /\ Runs(call, module) \in Call /\ Runs(call, module).at = "loaded"
         /\ Runs(call, module).session = call.session /\ Runs(call, module).config = call.config
BY DEF Runs, Call

LEMMA StatAnswersKeeps ==
  ASSUME CallState, NEW c \in Calls, StatAnswers(c)
  PROVE  CallState'
<1>1. /\ calls[c] \in Call /\ calls[c].at = "stat" /\ slot \in Slot /\ file' = file /\ file \in Nat
      /\ first' = first /\ calls[c].session \in Sessions /\ calls[c].config \in Configs /\ calls[c].config.mode = "script"
  BY DEF StatAnswers, CallState, CallsInv
<1>2. CASE slot.module # 0 /\ slot.version = file
  <2> DEFINE n == Runs(calls[c], slot.module)
  <2>1. slot' = [slot EXCEPT !.age = calls[c].age] /\ calls' = [calls EXCEPT ![c] = n]
    BY <1>2 DEF StatAnswers, CallState, CallsInv
  <2>2. n \in Call /\ n.at = "loaded" /\ n.session = calls[c].session /\ n.config = calls[c].config
    BY <1>1, RunsFacts DEF Slot
  <2> HIDE DEF n
  <2>3. slot' \in Slot /\ slot'.loading = slot.loading
    BY <1>1, <2>1 DEF Slot, Call
  <2>4. slot'.loading = None \/ calls'[slot'.loading].at = "import"
    BY <1>1, <2>1, <2>3, FormatterConstants DEF CallState, CallsInv, Slot
  <2> QED
    BY <1>1, <2>1, <2>2, <2>3, <2>4, MovesOn
<1>3. CASE ~(slot.module # 0 /\ slot.version = file)
  <2> DEFINE n == [calls[c] EXCEPT !.at = "import", !.got = file]
  <2>1. slot' = [slot EXCEPT !.loading = c] /\ calls' = [calls EXCEPT ![c] = n]
    BY <1>3 DEF StatAnswers, CallState, CallsInv
  <2>2. n \in Call /\ n.at = "import" /\ n.session = calls[c].session /\ n.config = calls[c].config
    BY <1>1 DEF Call
  <2> HIDE DEF n
  <2>3. slot' \in Slot /\ slot'.loading = c /\ calls'[c] = n
    BY <1>1, <2>1 DEF Slot, CallState, CallsInv
  <2> QED
    BY <1>1, <2>1, <2>2, <2>3, MovesOn
<1> QED
  BY <1>2, <1>3

LEMMA StatFailsKeeps ==
  ASSUME CallState, NEW c \in Calls, StatFails(c)
  PROVE  CallState'
<1> DEFINE n == Runs(calls[c], slot.module)
<1>1. /\ calls[c] \in Call /\ calls[c].at = "stat" /\ slot \in Slot /\ file' = file /\ slot' = slot
      /\ first' = first /\ calls[c].session \in Sessions /\ calls[c].config \in Configs /\ calls[c].config.mode = "script"
  BY DEF StatFails, CallState, CallsInv
<1>2. calls' = [calls EXCEPT ![c] = n]
  BY DEF StatFails, CallState, CallsInv
<1>3. n \in Call /\ n.at = "loaded" /\ n.session = calls[c].session /\ n.config = calls[c].config
  BY <1>1, RunsFacts DEF Slot
<1> HIDE DEF n
<1>4. slot'.loading = None \/ calls'[slot'.loading].at = "import"
  BY <1>1, <1>2, FormatterConstants DEF CallState, CallsInv, Slot
<1> QED
  BY <1>1, <1>2, <1>3, <1>4, MovesOn

\* A load that ends is waited for no more.
LEMMA SettlesKeeps ==
  ASSUME CallState, NEW c \in Calls, calls[c].at = "import", NEW module \in Nat,
         Settles(c, module), slot' \in Slot, slot'.loading = None, UNCHANGED <<file, first>>
  PROVE  CallState'
<1> DEFINE joined(d) == [calls[d] EXCEPT !.at = "joined", !.got = module, !.of = None]
<1>1. calls \in [Calls -> Call] /\ slot' # None
  BY FormatterConstants DEF CallState, CallsInv
<1>2. ASSUME NEW d \in Calls
      PROVE  /\ calls'[d] \in Call /\ calls'[d].session = calls[d].session /\ calls'[d].config = calls[d].config
             /\ \/ d = c /\ calls'[d].at = "loaded"
                \/ d # c /\ calls[d].at = "join" /\ calls[d].of = c /\ calls'[d].at = "joined"
                \/ d # c /\ ~(calls[d].at = "join" /\ calls[d].of = c) /\ calls'[d] = calls[d]
  <2>1. CASE d = c
    <3>1. calls'[d] = Runs(calls[d], module)
      BY <2>1 DEF Settles
    <3> QED
      BY <3>1, <2>1, <1>1, RunsFacts
  <2>2. CASE d # c /\ calls[d].at = "join" /\ calls[d].of = c
    <3>1. calls'[d] = joined(d)
      BY <2>2 DEF Settles
    <3> QED
      BY <3>1, <2>2, <1>1 DEF Call
  <2>3. CASE d # c /\ ~(calls[d].at = "join" /\ calls[d].of = c)
    <3>1. calls'[d] = calls[d]
      BY <2>3 DEF Settles
    <3> QED
      BY <3>1, <2>3, <1>1
  <2> QED
    BY <2>1, <2>2, <2>3
<1>3. calls' \in [Calls -> Call]
  BY <1>2 DEF Settles
<1>4. \A d \in Calls : calls'[d].at # "idle" => calls'[d].session \in Sessions /\ calls'[d].config \in Configs
  BY <1>2 DEF CallState, CallsInv
<1>5. \A d \in Calls : calls'[d].at \notin {"idle", "answered"} => slot' # None /\ calls'[d].config.mode = "script"
  BY <1>1, <1>2 DEF CallState, CallsInv
<1>6. \A d \in Calls : calls'[d].at = "join" => calls'[d].of \in Calls /\ calls'[calls'[d].of].at = "import"
  <2> SUFFICES ASSUME NEW d \in Calls, calls'[d].at = "join"
               PROVE  calls'[d].of \in Calls /\ calls'[calls'[d].of].at = "import"
    OBVIOUS
  <2>1. calls'[d] = calls[d] /\ calls[d].of # c
    BY <1>2
  <2>2. calls[d].of \in Calls /\ calls[calls[d].of].at = "import"
    BY <2>1 DEF CallState, CallsInv
  <2> QED
    BY <2>1, <2>2, <1>2
<1>7. CallsInv'
  BY <1>1, <1>3, <1>4, <1>5, <1>6 DEF CallState, CallsInv, Slot
<1>8. \A d \in Calls : calls'[d].at = "answered" => calls'[d] = calls[d]
  BY <1>2
<1>9. AnswersInv'
  BY <1>8 DEF CallState, AnswersInv, Right
<1> QED
  BY <1>7, <1>9 DEF CallState

LEMMA ImportEndsKeeps ==
  ASSUME CallState, NEW c \in Calls, ImportLands(c) \/ ImportFails(c)
  PROVE  CallState'
<1>1. /\ calls[c] \in Call /\ calls[c].at = "import" /\ slot \in Slot /\ file \in Nat /\ file' = file
      /\ first' = first
  BY DEF ImportLands, ImportFails, CallState, CallsInv
<1>2. CASE ImportLands(c)
  <2>1. PICK module \in calls[c].got..file :
          /\ slot' = [version |-> calls[c].got, age |-> calls[c].age, module |-> module, loading |-> None]
          /\ Settles(c, module)
    BY <1>2 DEF ImportLands
  <2>2. module \in Nat
    BY <1>1 DEF Call
  <2>3. slot' \in Slot /\ slot'.loading = None
    BY <1>1, <2>1, <2>2 DEF Slot, Call
  <2> QED
    BY <1>1, <2>1, <2>2, <2>3, SettlesKeeps
<1>3. CASE ImportFails(c)
  <2>1. slot' = [slot EXCEPT !.loading = None] /\ Settles(c, slot.module)
    BY <1>3 DEF ImportFails
  <2>2. slot' \in Slot /\ slot'.loading = None /\ slot.module \in Nat
    BY <1>1, <2>1 DEF Slot
  <2> QED
    BY <1>1, <2>1, <2>2, SettlesKeeps
<1> QED
  BY <1>2, <1>3

LEMMA JoinResumesKeeps ==
  ASSUME CallState, NEW c \in Calls, JoinResumes(c)
  PROVE  CallState'
<1> DEFINE n == Runs(calls[c], calls[c].got)
<1>1. /\ calls[c] \in Call /\ calls[c].at = "joined" /\ slot \in Slot /\ file' = file
      /\ first' = first /\ calls[c].session \in Sessions /\ calls[c].config \in Configs /\ calls[c].config.mode = "script"
  BY DEF JoinResumes, CallState, CallsInv
<1>2. calls' = [calls EXCEPT ![c] = n] /\ slot' = [slot EXCEPT !.age = calls[c].age]
  BY DEF JoinResumes, CallState, CallsInv
<1>3. n \in Call /\ n.at = "loaded" /\ n.session = calls[c].session /\ n.config = calls[c].config
  BY <1>1, RunsFacts DEF Call
<1> HIDE DEF n
<1>4. slot' \in Slot /\ slot'.loading = slot.loading
  BY <1>1, <1>2 DEF Slot, Call
<1>5. slot'.loading = None \/ calls'[slot'.loading].at = "import"
  BY <1>1, <1>2, <1>4, FormatterConstants DEF CallState, CallsInv, Slot
<1> QED
  BY <1>1, <1>2, <1>3, <1>4, <1>5, MovesOn

LEMMA TickKeeps ==
  ASSUME CallState, Tick
  PROVE  CallState'
<1>1. calls \in [Calls -> Call] /\ file' = file /\ first' = first
  BY DEF Tick, CallState, CallsInv
<1>2. \A age \in Nat : Older(age) \in Nat
  BY FormatterConstants DEF Older
<1>3. ASSUME NEW c \in Calls
      PROVE  /\ calls'[c] \in Call /\ calls'[c].at = calls[c].at /\ calls'[c].session = calls[c].session
             /\ calls'[c].config = calls[c].config /\ calls'[c].of = calls[c].of
             /\ calls'[c].value = calls[c].value
  <2>1. CASE calls[c].at \in {"stat", "import", "join", "joined"}
    <3>1. calls'[c] = [calls[c] EXCEPT !.age = Older(@)]
      BY <2>1 DEF Tick
    <3> QED
      BY <3>1, <1>1, <1>2 DEF Call
  <2>2. CASE calls[c].at \notin {"stat", "import", "join", "joined"}
    BY <2>2, <1>1 DEF Tick
  <2> QED
    BY <2>1, <2>2
<1>4. calls' \in [Calls -> Call]
  BY <1>3 DEF Tick
<1>5. slot' \in Slot \union {None} /\ (slot # None => slot' # None /\ slot'.loading = slot.loading) /\ (slot = None => slot' = None)
  <2>1. CASE slot = None
    BY <2>1 DEF Tick
  <2>2. CASE slot # None
    <3>1. slot \in Slot /\ slot' = [slot EXCEPT !.age = Older(@)]
      BY <2>2 DEF Tick, CallState, CallsInv
    <3>2. slot' \in Slot /\ slot'.loading = slot.loading
      BY <3>1, <1>2 DEF Slot
    <3> QED
      BY <3>2, <2>2, FormatterConstants
  <2> QED
    BY <2>1, <2>2
<1>6. slot' # None => slot'.loading = None \/ calls'[slot'.loading].at = "import"
  BY <1>3, <1>5 DEF CallState, CallsInv, Slot
<1>7. \A c \in Calls : calls'[c].at = "join" => calls'[c].of \in Calls /\ calls'[calls'[c].of].at = "import"
  BY <1>3 DEF CallState, CallsInv
<1>8. \A c \in Calls : /\ calls'[c].at # "idle" => calls'[c].session \in Sessions /\ calls'[c].config \in Configs
                       /\ calls'[c].at \notin {"idle", "answered"} => slot' # None /\ calls'[c].config.mode = "script"
  BY <1>3, <1>5 DEF CallState, CallsInv
<1>9. CallsInv'
  BY <1>1, <1>4, <1>5, <1>6, <1>7, <1>8 DEF CallState, CallsInv, Slot
<1>10. AnswersInv'
  BY <1>1, <1>3 DEF CallState, AnswersInv, Right
<1> QED
  BY <1>9, <1>10 DEF CallState

LEMMA GoesOutKeeps ==
  ASSUME CallState, NEW c \in Calls, GoesOut(c)
  PROVE  CallState'
<1>1. /\ calls' = [calls EXCEPT ![c] = Idle] /\ calls[c].at = "answered" /\ slot' = slot /\ file' = file
      /\ first' = first
  BY DEF GoesOut
<1>2. Idle \in Call /\ Idle.at = "idle"
  BY DEF Idle, Call
<1>3. CallsInv'
  BY <1>1, <1>2 DEF CallState, CallsInv, Slot
<1>4. AnswersInv'
  BY <1>1, <1>2 DEF CallState, CallsInv, AnswersInv, Right
<1> QED
  BY <1>3, <1>4 DEF CallState

----------------------------------------------------------------------------
(* The steps of a call, the cache and the blocks together.                 *)

LEMMA SameCache ==
  ASSUME CacheInv, UNCHANGED <<cache, first>>
  PROVE  CacheInv'
BY DEF CacheInv, CacheOK, Right

LEMMA SameMints ==
  ASSUME MintInv, UNCHANGED <<minted, first>>
  PROVE  MintInv'
BY DEF MintInv

LEMMA FormatsKeeps ==
  ASSUME FormatterInv, NEW c \in Calls, Formats(c)
  PROVE  FormatterInv'
<1>1. CallState
  BY DEF FormatterInv, CallState
<1>2. CASE ScriptComputes(c)
  <2> DEFINE s == calls[c].session
             config == calls[c].config
             value(now) == ByScript(s, config, Hex(s, config, now), calls[c].got)
  <2>1. /\ calls[c] \in Call /\ calls[c].at = "loaded" /\ s \in Sessions /\ config \in Configs
        /\ config.mode = "script"
    BY <1>1, <1>2 DEF ScriptComputes, CallState, CallsInv
  <2>2. PICK now \in Moments :
          Minting(s, config, now) /\ Store(s, config, value(now)) /\ Answered(c, s, config, value(now))
    BY <1>2 DEF ScriptComputes
  <2>3. UNCHANGED <<slot, file>>
    BY <1>2 DEF ScriptComputes
  <2>4. /\ MintInv' /\ Grown /\ Hex(s, config, now) \in Nat
        /\ IF config.time = "hash" THEN Hex(s, config, now) = 0
           ELSE Hex(s, config, now) = first'[s] /\ first'[s] # 0
    BY <2>1, <2>2, MintingKeeps DEF FormatterInv
  <2>5. value(now) \in Value \union {None} /\ Right(value(now), s, config, first'[s])
    BY <2>1, <2>4, ByScriptIsRight DEF Call
  <2> HIDE DEF s, config, value
  <2>6. CacheInv'
    BY <2>1, <2>2, <2>4, <2>5, StoreKeeps DEF FormatterInv
  <2>7. CallState'
    BY <1>1, <2>1, <2>2, <2>3, <2>4, <2>5, AnsweredKeeps
  <2> QED
    BY <2>4, <2>6, <2>7 DEF FormatterInv, CallState
<1>3. CASE StatAnswers(c) \/ StatFails(c) \/ ImportLands(c) \/ ImportFails(c) \/ JoinResumes(c)
  <2>1. CallState'
    BY <1>1, <1>3, StatAnswersKeeps, StatFailsKeeps, ImportEndsKeeps, JoinResumesKeeps
  <2>2. UNCHANGED <<cache, minted, first>>
    BY <1>3 DEF StatAnswers, StatFails, ImportLands, ImportFails, JoinResumes
  <2> QED
    BY <2>1, <2>2, SameCache, SameMints DEF FormatterInv, CallState
<1> QED
  BY <1>2, <1>3 DEF Formats

LEMMA MintKeeps ==
  ASSUME MintInv, NEW s \in Sessions, NEW config \in Configs, NEW now \in Moments, Mint(s, config, now)
  PROVE  /\ MintInv' /\ Grown /\ Hex(s, config, now) \in Nat
         /\ config.mode # "passthrough" =>
              IF config.time = "hash" THEN Hex(s, config, now) = 0
              ELSE Hex(s, config, now) = first'[s] /\ first'[s] # 0
<1>1. CASE config.mode = "passthrough"
  <2>1. UNCHANGED <<minted, first>>
    BY <1>1 DEF Mint
  <2>2. Hex(s, config, now) \in Nat
    BY FormatterConstants DEF Hex, MintInv
  <2> QED
    BY <1>1, <2>1, <2>2, SameMints DEF Grown
<1>2. CASE config.mode # "passthrough"
  BY <1>2, MintingKeeps DEF Mint
<1> QED
  BY <1>1, <1>2

LEMMA FetchKeeps ==
  ASSUME FormatterInv, NEW c \in Calls, calls[c] = Idle, NEW s \in Sessions, NEW config \in Configs,
         \/ FormatHits(c, s, config) \/ FormatComputes(c, s, config)
         \/ FormatAsksScript(c, s, config)
  PROVE  FormatterInv'
<1>1. CallState /\ calls[c].at # "import"
  BY DEF FormatterInv, CallState, Idle
<1>2. CASE FormatHits(c, s, config)
  <2>1. PICK e \in Hit(s, config) : Touch(e) /\ Answered(c, s, config, e.value)
    BY <1>2 DEF FormatHits
  <2>2. UNCHANGED <<minted, first, slot, file>>
    BY <1>2 DEF FormatHits
  <2>3. CacheInv' /\ e.value \in Value \union {None} /\ Right(e.value, s, config, first[s])
    BY <2>1, <2>2, TouchKeeps DEF FormatterInv
  <2>4. Grown /\ Right(e.value, s, config, first'[s])
    BY <2>2, <2>3 DEF Grown
  <2>5. CallState'
    BY <1>1, <2>1, <2>2, <2>3, <2>4, AnsweredKeeps
  <2> QED
    BY <2>2, <2>3, <2>5, SameMints DEF FormatterInv, CallState
<1>3. CASE FormatComputes(c, s, config)
  <2> DEFINE value(now) == Computed(s, config, Hex(s, config, now))
  <2>1. PICK now \in Moments :
          Mint(s, config, now) /\ Store(s, config, value(now)) /\ Answered(c, s, config, value(now))
    BY <1>3 DEF FormatComputes
  <2>2. UNCHANGED <<slot, file>>
    BY <1>3 DEF FormatComputes
  <2>3. /\ MintInv' /\ Grown /\ Hex(s, config, now) \in Nat
        /\ config.mode # "passthrough" =>
             IF config.time = "hash" THEN Hex(s, config, now) = 0
             ELSE Hex(s, config, now) = first'[s] /\ first'[s] # 0
    BY <2>1, MintKeeps DEF FormatterInv
  <2>4. value(now) \in Value \union {None} /\ Right(value(now), s, config, first'[s])
    BY <2>3, ComputedIsRight
  <2> HIDE DEF value
  <2>5. CacheInv'
    BY <2>1, <2>3, <2>4, StoreKeeps DEF FormatterInv
  <2>6. CallState'
    BY <1>1, <2>1, <2>2, <2>3, <2>4, AnsweredKeeps
  <2> QED
    BY <2>3, <2>5, <2>6 DEF FormatterInv, CallState
<1>4. CASE FormatAsksScript(c, s, config)
  <2>1. UNCHANGED <<cache, minted, first>>
    BY <1>4 DEF FormatAsksScript
  <2>2. CallState'
    BY <1>1, <1>4, FormatAsksScriptKeeps
  <2> QED
    BY <2>1, <2>2, SameCache, SameMints DEF FormatterInv, CallState
<1> QED
  BY <1>2, <1>3, <1>4

LEMMA SameFormatter ==
  ASSUME FormatterInv, UNCHANGED <<cache, minted, slot, calls, first>>, file' \in Nat
  PROVE  FormatterInv'
<1>1. CacheInv' /\ MintInv'
  BY SameCache, SameMints DEF FormatterInv
<1>2. CallsInv' /\ AnswersInv'
  BY DEF FormatterInv, CallsInv, AnswersInv, Slot, Right
<1> QED
  BY <1>1, <1>2 DEF FormatterInv

----------------------------------------------------------------------------
(* The bridge.                                                             *)

LEMMA InitIsRight == HeaderInit => IInv
<1> SUFFICES ASSUME HeaderInit PROVE IInv
  OBVIOUS
<1>1. CacheInv
  BY EmptySeq, FormatterConstants DEF HeaderInit, FormatterInit, CacheInv, CacheOK
<1>2. MintInv
  BY DEF HeaderInit, FormatterInit, MintInv
<1>3. CallsInv /\ AnswersInv
  BY DEF HeaderInit, FormatterInit, CallsInv, AnswersInv, Idle, Call
<1>4. BridgeInv
  BY HeaderConstants DEF HeaderInit, BridgeInv
<1> QED
  BY <1>1, <1>2, <1>3, <1>4 DEF IInv, FormatterInv

LEMMA StepKeepsFormatter ==
  ASSUME IInv, HeaderNext
  PROVE  FormatterInv'
<1>1. FormatterInv /\ file \in Nat
  BY DEF IInv, FormatterInv, CallsInv
<1>2. ASSUME NEW on \in BOOLEAN, NEW format \in Configs, SettingsChange(on, format)
      PROVE  FormatterInv'
  BY <1>1, <1>2, SameFormatter DEF SettingsChange
<1>3. ASSUME NEW s \in Streams, NEW session \in Sessions, StreamOpens(s, session)
      PROVE  FormatterInv'
  BY <1>1, <1>3, SameFormatter DEF StreamOpens, formatter
<1>4. ASSUME NEW s \in Streams, StreamRuns(s) \/ StreamEnds(s)
      PROVE  FormatterInv'
  BY <1>1, <1>4, SameFormatter DEF StreamRuns, StreamEnds, formatter
<1>5. ASSUME NEW s \in Streams, NEW c \in Calls, Fetch(c, s)
      PROVE  FormatterInv'
  <2>1. streams[s] \in Sessions /\ snapshot.format \in Configs
    BY <1>5 DEF Fetch, IInv, BridgeInv
  <2> QED
    BY <1>1, <1>5, <2>1, FetchKeeps DEF Fetch
<1>6. ASSUME NEW c \in Calls, Calling(c) \/ GoesOut(c)
      PROVE  FormatterInv'
  <2>1. CASE Calling(c)
    BY <1>1, <2>1, FormatsKeeps DEF Calling
  <2>2. CASE GoesOut(c)
    <3>1. CallState' /\ UNCHANGED <<cache, minted, first>>
      BY <1>1, <2>2, GoesOutKeeps DEF GoesOut, FormatterInv, CallState
    <3> QED
      BY <1>1, <3>1, SameCache, SameMints DEF FormatterInv, CallState
  <2> QED
    BY <1>6, <2>1, <2>2
<1>7. CASE Dispose \/ OthersPatch
  BY <1>1, <1>7, SameFormatter DEF Dispose, OthersPatch, formatter
<1>8. CASE Environment
  <2>1. CASE Tick
    <3>1. CallState' /\ UNCHANGED <<cache, minted, first>>
      BY <1>1, <2>1, TickKeeps DEF Tick, FormatterInv, CallState
    <3> QED
      BY <1>1, <3>1, SameCache, SameMints DEF FormatterInv, CallState
  <2>2. CASE Edit
    BY <1>1, <2>2, SameFormatter DEF Edit
  <2> QED
    BY <1>8, <2>1, <2>2 DEF Environment
<1> QED
  BY <1>2, <1>3, <1>4, <1>5, <1>6, <1>7, <1>8 DEF HeaderNext

LEMMA StepKeepsBridge ==
  ASSUME IInv, HeaderNext
  PROVE  BridgeInv'
<1>1. BridgeInv /\ DefaultConfig \in Configs
  BY HeaderConstants DEF IInv
<1>2. ASSUME NEW on \in BOOLEAN, NEW format \in Configs, SettingsChange(on, format)
      PROVE  BridgeInv'
  BY <1>1, <1>2 DEF SettingsChange, BridgeInv
<1>3. ASSUME NEW s \in Streams, NEW session \in Sessions, StreamOpens(s, session)
      PROVE  BridgeInv'
  BY <1>1, <1>3 DEF StreamOpens, BridgeInv
<1>4. ASSUME NEW s \in Streams, StreamRuns(s) \/ StreamEnds(s)
      PROVE  BridgeInv'
  BY <1>1, <1>4 DEF StreamRuns, StreamEnds, BridgeInv
<1>5. CASE UNCHANGED bridge
  BY <1>1, <1>5 DEF bridge, BridgeInv
<1>6. CASE Dispose
  <2>1. /\ ~installed' /\ (patched' => left') /\ streams' = streams
        /\ snapshot' = [on |-> FALSE, format |-> DefaultConfig]
    BY <1>6 DEF Dispose, Restored
  <2> QED
    BY <1>1, <2>1 DEF BridgeInv
<1>7. CASE OthersPatch
  BY <1>1, <1>7 DEF OthersPatch, BridgeInv
<1>8. ASSUME NEW c \in Calls, GoesOut(c) PROVE UNCHANGED bridge
  BY <1>8 DEF GoesOut
<1> QED
  BY <1>2, <1>3, <1>4, <1>5, <1>6, <1>7, <1>8 DEF HeaderNext, Fetch, Calling, Environment

LEMMA SameIInv ==
  ASSUME IInv, UNCHANGED allVars
  PROVE  IInv'
<1>1. UNCHANGED <<cache, minted, slot, calls, first, file>> /\ UNCHANGED bridge
  BY DEF allVars, formatter
<1>2. FormatterInv'
  BY <1>1, SameFormatter DEF IInv, FormatterInv, CallsInv
<1>3. BridgeInv'
  BY <1>1 DEF IInv, BridgeInv, bridge
<1> QED
  BY <1>2, <1>3 DEF IInv

\* IInv is inductive: whatever a step of a stream, a fetch, the settings or the
\* script does.
THEOREM Invariance == HeaderSpec => []IInv
<1>1. IInv /\ [HeaderNext]_allVars => IInv'
  BY StepKeepsFormatter, StepKeepsBridge, SameIInv DEF IInv
<1> QED
  BY InitIsRight, <1>1, PTL DEF HeaderSpec

\* The cache holds one entry a session within its bound, the block of a session
\* is the first that was minted for it, and a load the slot names, or a call has
\* joined, is under way (opencode-session-format.ts), for any sessions, bound
\* and readings of the clock.
THEOREM FormatterTypeCorrect == HeaderSpec => []FormatterTypeOK
<1>1. IInv => FormatterTypeOK
  <2> SUFFICES ASSUME IInv PROVE FormatterTypeOK
    OBVIOUS
  <2>1. Len(cache) <= MaxEntries /\ \A i, j \in DOMAIN cache : cache[i].session = cache[j].session => i = j
    BY DEF IInv, FormatterInv, CacheInv, CacheOK
  <2>2. minted \in [Sessions -> {0} \union Moments] /\ minted = first
    BY DEF IInv, FormatterInv, MintInv
  <2>3. /\ slot # None => slot.loading = None \/ calls[slot.loading].at = "import"
        /\ \A c \in Calls : calls[c].at = "join" => calls[calls[c].of].at = "import"
    BY DEF IInv, FormatterInv, CallsInv
  <2> QED
    BY <2>1, <2>2, <2>3 DEF FormatterTypeOK
<1> QED
  BY Invariance, <1>1, PTL

\* Every call is answered with what the configuration it was made with makes of
\* its session, and with the block first minted for it: through the cache, and
\* while the settings and the script change under the call.
THEOREM AnswersItsConfigHolds == HeaderSpec => []AnswersItsConfig
<1>1. IInv => AnswersItsConfig
  <2> SUFFICES ASSUME IInv, NEW c \in Calls, calls[c].at = "answered"
               PROVE  Right(calls[c].value, calls[c].session, calls[c].config, first[calls[c].session])
    BY DEF AnswersItsConfig, Answers, Right
  <2> QED
    BY DEF IInv, FormatterInv, AnswersInv
<1> QED
  BY Invariance, <1>1, PTL

\* The calls that a step of another's takes from idle: none.
LEMMA OnlyFetchesAsk ==
  ASSUME IInv, NEW c \in Calls, HeaderNext, calls[c] = Idle, calls'[c] # Idle
  PROVE  patched
<1>1. calls \in [Calls -> Call] /\ calls[c].at = "idle"
  BY DEF IInv, FormatterInv, CallsInv, Idle
<1>2. ASSUME NEW s \in Streams, NEW d \in Calls, Fetch(d, s) PROVE patched
  BY <1>2 DEF Fetch
<1>3. ASSUME NEW d \in Calls, Formats(d) PROVE calls'[c] = calls[c]
  <2>1. CASE StatAnswers(d)
    BY <2>1, <1>1 DEF StatAnswers
  <2>2. CASE StatFails(d)
    BY <2>2, <1>1 DEF StatFails
  <2>3. CASE ImportLands(d)
    BY <2>3, <1>1 DEF ImportLands, Settles
  <2>4. CASE ImportFails(d)
    BY <2>4, <1>1 DEF ImportFails, Settles
  <2>5. CASE JoinResumes(d)
    BY <2>5, <1>1 DEF JoinResumes
  <2>6. CASE ScriptComputes(d)
    BY <2>6, <1>1 DEF ScriptComputes, Answered
  <2> QED
    BY <1>3, <2>1, <2>2, <2>3, <2>4, <2>5, <2>6 DEF Formats
<1>4. ASSUME NEW d \in Calls, GoesOut(d) PROVE calls'[c] = calls[c]
  BY <1>4, <1>1 DEF GoesOut
<1>5. CASE Environment
  <2>1. CASE Tick
    BY <2>1, <1>1 DEF Tick
  <2>2. CASE Edit
    BY <2>2 DEF Edit
  <2> QED
    BY <1>5, <2>1, <2>2 DEF Environment
<1>6. CASE Dispose \/ OthersPatch
  BY <1>6 DEF Dispose, OthersPatch, formatter
<1>7. ASSUME NEW on \in BOOLEAN, NEW format \in Configs, SettingsChange(on, format) PROVE calls'[c] = calls[c]
  BY <1>7 DEF SettingsChange
<1>8. ASSUME NEW s \in Streams,
             (\E session \in Sessions : StreamOpens(s, session)) \/ StreamRuns(s) \/ StreamEnds(s)
      PROVE  calls'[c] = calls[c]
  BY <1>8 DEF StreamOpens, StreamRuns, StreamEnds, formatter
<1> QED
  BY <1>2, <1>3, <1>4, <1>5, <1>6, <1>7, <1>8 DEF HeaderNext, Calling

\* Values are asked for while the bridge is installed; afterwards only if
\* another patch lay over this one when it was disposed, and with the default
\* configuration.
THEOREM InjectsWhileInstalledHolds == HeaderSpec => InjectsWhileInstalled
<1> DEFINE Only == \A c \in Calls : Asks(c) => installed \/ (left /\ snapshot.format = DefaultConfig)
<1>1. IInv /\ [HeaderNext]_allVars => [Only]_allVars
  <2> SUFFICES ASSUME IInv, HeaderNext, NEW c \in Calls, calls[c] = Idle, calls'[c] # Idle
               PROVE  installed \/ (left /\ snapshot.format = DefaultConfig)
    BY DEF Asks
  <2>1. patched
    BY OnlyFetchesAsk
  <2> QED
    BY <2>1 DEF IInv, BridgeInv
<1> QED
  BY Invariance, <1>1, PTL DEF HeaderSpec, InjectsWhileInstalled

\* The block first minted for a session is retained for the process lifetime,
\* whatever is evicted.
BlocksAreKept == [][\A s \in Sessions : minted[s] # 0 => minted'[s] = minted[s]]_allVars

\* No step changes a block that was minted.
THEOREM BlocksAreKeptHolds == HeaderSpec => BlocksAreKept
<1> DEFINE Keeps == \A s \in Sessions : minted[s] # 0 => minted'[s] = minted[s]
<1>1. ASSUME IInv, HeaderNext PROVE Keeps
  <2>1. MintInv /\ (MintInv' /\ Grown => Keeps)
    BY <1>1 DEF IInv, FormatterInv, MintInv, Grown
  <2>2. ASSUME NEW s \in Streams, NEW c \in Calls, Fetch(c, s) PROVE Keeps
    <3>1. streams[s] \in Sessions /\ snapshot.format \in Configs
      BY <1>1, <2>2 DEF Fetch, IInv, BridgeInv
    <3>2. CASE FormatComputes(c, streams[s], snapshot.format)
      <4>1. PICK now \in Moments : Mint(streams[s], snapshot.format, now)
        BY <3>2 DEF FormatComputes
      <4>2. MintInv' /\ Grown
        BY <2>1, <3>1, <4>1, MintKeeps
      <4> QED
        BY <2>1, <4>2
    <3> QED
      BY <2>2, <3>2 DEF Fetch, FormatHits, FormatAsksScript
  <2>3. ASSUME NEW c \in Calls, Formats(c) PROVE Keeps
    <3>1. CASE ScriptComputes(c)
      <4>1. calls[c].session \in Sessions /\ calls[c].config \in Configs
        BY <1>1, <3>1 DEF ScriptComputes, IInv, FormatterInv, CallsInv
      <4>2. PICK now \in Moments : Minting(calls[c].session, calls[c].config, now)
        BY <3>1 DEF ScriptComputes
      <4>3. MintInv' /\ Grown
        BY <2>1, <4>1, <4>2, MintingKeeps
      <4> QED
        BY <2>1, <4>3
    <3> QED
      BY <2>3, <3>1 DEF Formats, StatAnswers, StatFails, ImportLands, ImportFails, JoinResumes
  <2>4. ASSUME NEW c \in Calls, GoesOut(c) PROVE Keeps
    BY <2>4 DEF GoesOut
  <2>5. ASSUME Environment \/ Dispose \/ OthersPatch PROVE Keeps
    BY <2>5 DEF Environment, Tick, Edit, Dispose, OthersPatch, formatter
  <2>6. ASSUME NEW on \in BOOLEAN, NEW format \in Configs, SettingsChange(on, format) PROVE Keeps
    BY <2>6 DEF SettingsChange
  <2>7. ASSUME NEW s \in Streams,
               (\E session \in Sessions : StreamOpens(s, session)) \/ StreamRuns(s) \/ StreamEnds(s)
        PROVE  Keeps
    BY <2>7 DEF StreamOpens, StreamRuns, StreamEnds, formatter
  <2> HIDE DEF Keeps
  <2> QED
    BY <1>1, <2>2, <2>3, <2>4, <2>5, <2>6, <2>7 DEF HeaderNext, Calling
<1>2. IInv /\ [HeaderNext]_allVars => [Keeps]_allVars
  BY <1>1
<1> QED
  BY Invariance, <1>2, PTL DEF HeaderSpec, BlocksAreKept

----------------------------------------------------------------------------
(* The subagent's effort and route.                                        *)

\* The shape of an agent, whose values are the settings' own.
AgentShape(a) ==
  a = [subagent |-> a.subagent, selects |-> a.selects, model |-> a.model, effort |-> a.effort,
       created |-> a.created, said |-> a.said, refused |-> a.refused]

\* A selection runs as the settings it was made from say, in the terms of the
\* model it goes to: its route, and its effort.
RunsAs(sel, routed, heeded) ==
  /\ routed /\ sel.said.route # Absent => sel.model = sel.said.route
  /\ heeded /\ Resolved(sel.said, sel.model) # Absent => sel.effort = Resolved(sel.said, sel.model)

\* What the Host refused counts for nothing, nor does the route of an agent
\* that has no selection to write.
Routed == agent.refused # "route"
Heeded == agent.refused = ""

\* Nothing is sent before the agent is created; a subagent that took its
\* selection runs as it says, and so does the last request.
AgentInv ==
  /\ AgentShape(agent)
  /\ ~agent.created => pass.at = "idle" /\ sent = Absent
  /\ agent.created /\ agent.subagent /\ agent.selects => RunsAs(agent, Routed, Heeded)
  /\ sent # Absent /\ agent.subagent => RunsAs(sent, agent.selects /\ Routed, Heeded)

\* An effort resolved for a selection leaves its route as it is.
LEMMA WithEffortRuns ==
  ASSUME NEW sel, NEW said, sel.said = said,
         \/ AgentShape(sel)
         \/ sel = [model |-> sel.model, effort |-> sel.effort, said |-> sel.said]
  PROVE  LET s == WithEffort(sel, said)
         IN  /\ AgentShape(sel) => AgentShape(s)
             /\ s.model = sel.model /\ s.said = said
             /\ Resolved(said, s.model) # Absent => s.effort = Resolved(said, s.model)
             /\ AgentShape(sel) => s.created = sel.created /\ s.refused = sel.refused
                                   /\ s.subagent = sel.subagent /\ s.selects = sel.selects
<1> DEFINE e == Resolved(said, sel.model)
           s == WithEffort(sel, said)
<1>1. s = IF e = Absent THEN sel ELSE [sel EXCEPT !.effort = e]
  BY DEF WithEffort
<1> HIDE DEF s
<1>2. CASE e = Absent
  BY <1>1, <1>2 DEF s
<1>3. CASE e # Absent
  BY <1>1, <1>3 DEF s, AgentShape
<1> QED
  BY <1>2, <1>3

\* A route moves the selection, and takes nothing else with it but the effort.
LEMMA RouteRuns ==
  ASSUME NEW born, NEW said, AgentShape(born), born.said = said
  PROVE  LET r == WithRoute(born, said)
         IN  /\ AgentShape(r) /\ r.said = said
             /\ said.route # Absent => r.model = said.route
             /\ r.created = born.created /\ r.refused = born.refused
             /\ r.subagent = born.subagent /\ r.selects = born.selects
<1>1. CASE said.route = Absent
  BY <1>1 DEF WithRoute
<1>2. CASE said.route # Absent
  BY <1>2 DEF WithRoute, AgentShape
<1> QED
  BY <1>1, <1>2

\* An agent that takes the selection of its settings runs as they say.
LEMMA SelectedRuns ==
  ASSUME NEW born, NEW said, AgentShape(born), born.said = said
  PROVE  LET s == Selected(born, said)
         IN  /\ AgentShape(s) /\ RunsAs(s, TRUE, TRUE)
             /\ s.created = born.created /\ s.refused = born.refused
             /\ s.subagent = born.subagent /\ s.selects = born.selects
<1> DEFINE r == WithRoute(born, said)
           s == WithEffort(r, said)
<1>1. /\ AgentShape(r) /\ r.said = said
      /\ said.route # Absent => r.model = said.route
      /\ r.created = born.created /\ r.refused = born.refused
      /\ r.subagent = born.subagent /\ r.selects = born.selects
  BY RouteRuns
<1> HIDE DEF r
<1>2. /\ AgentShape(s) /\ s.model = r.model /\ s.said = said
      /\ Resolved(said, s.model) # Absent => s.effort = Resolved(said, s.model)
      /\ s.created = r.created /\ s.refused = r.refused
      /\ s.subagent = r.subagent /\ s.selects = r.selects
  BY <1>1, WithEffortRuns
<1>3. Selected(born, said) = s
  BY DEF Selected, r
<1> HIDE DEF s
<1> QED
  BY <1>1, <1>2, <1>3 DEF RunsAs

\* A refused selection is noted in the agent.
LEMMA RefusedShape ==
  ASSUME NEW a, AgentShape(a), NEW r
  PROVE  /\ AgentShape([a EXCEPT !.refused = r])
         /\ [a EXCEPT !.refused = r].refused = r /\ [a EXCEPT !.refused = r].created = a.created
         /\ [a EXCEPT !.refused = r].said = a.said /\ [a EXCEPT !.refused = r].model = a.model
BY DEF AgentShape

\* An agent is created with the settings of the moment.
LEMMA BornShape ==
  ASSUME AgentShape(agent), NEW yes, NEW born, born = [agent EXCEPT !.created = yes, !.said = child]
  PROVE  /\ AgentShape(born) /\ born.said = child /\ born.created = yes /\ born.model = agent.model
         /\ born.subagent = agent.subagent /\ born.selects = agent.selects
<1>1. DOMAIN agent = {"subagent", "selects", "model", "effort", "created", "said", "refused"}
  BY DEF AgentShape
<1>2. born = [f \in DOMAIN agent |-> IF f = "said" THEN child ELSE IF f = "created" THEN yes ELSE agent[f]]
  BY <1>1
<1>3. /\ born.created = yes /\ born.said = child /\ born.subagent = agent.subagent
      /\ born.selects = agent.selects /\ born.model = agent.model /\ born.effort = agent.effort
      /\ born.refused = agent.refused
  BY <1>1, <1>2
<1>4. born = [subagent |-> born.subagent, selects |-> born.selects, model |-> born.model, effort |-> born.effort,
              created |-> born.created, said |-> born.said, refused |-> born.refused]
  BY <1>1, <1>2, <1>3
<1> QED
  BY <1>3, <1>4 DEF AgentShape

LEMMA AgentInit == ASSUME Init PROVE AgentInv
BY DEF Init, NoPass, AgentInv, AgentShape

LEMMA AgentCreated == ASSUME AgentInv, Created PROVE AgentInv'
<1> DEFINE yes == TRUE
           route == "route"
           effort == "effort"
           born == [agent EXCEPT !.created = yes, !.said = child]
           parted == [born EXCEPT !.refused = route]
           routed == WithRoute(born, child)
           half == [routed EXCEPT !.refused = effort]
<1>1. /\ ~agent.created /\ pass' = pass /\ sent' = sent /\ AgentShape(agent)
      /\ pass.at = "idle" /\ sent = Absent
  BY DEF Created, AgentInv
<1>2. \/ agent' = born /\ ~(agent.subagent /\ agent.selects)
      \/ agent' = Selected(born, child)
      \/ agent' = parted
      \/ agent' = half
  BY DEF Created
<1>3. born = [agent EXCEPT !.created = yes, !.said = child]
  OBVIOUS
<1>4. yes /\ route # effort /\ route = "route" /\ effort # "" /\ route # "" /\ effort = "effort"
  OBVIOUS
<1> HIDE DEF yes, route, effort, born
<1>5. /\ AgentShape(born) /\ born.said = child /\ born.created = yes
      /\ born.subagent = agent.subagent /\ born.selects = agent.selects
  BY <1>1, <1>3, BornShape
<1>6. AgentShape(parted) /\ parted.refused = route /\ parted.created = yes
  BY <1>5, RefusedShape
<1>7. /\ AgentShape(routed) /\ routed.said = child /\ routed.created = yes
      /\ child.route # Absent => routed.model = child.route
  BY <1>5, RouteRuns
<1> HIDE DEF parted, routed
<1>8. /\ AgentShape(half) /\ half.refused = effort /\ half.created = yes
      /\ half.said = child /\ half.model = routed.model
  BY <1>7, RefusedShape
<1> HIDE DEF half
<1>9. CASE agent' = born /\ ~(agent.subagent /\ agent.selects)
  BY <1>1, <1>5, <1>9, <1>4 DEF AgentInv
<1>10. CASE agent' = Selected(born, child)
  <2>1. AgentShape(agent') /\ RunsAs(agent', TRUE, TRUE) /\ agent'.created
    BY <1>5, <1>10, <1>4, SelectedRuns
  <2>2. RunsAs(agent, Routed, Heeded)'
    BY <2>1 DEF RunsAs
  <2> QED
    BY <1>1, <2>1, <2>2 DEF AgentInv
<1>11. CASE agent' = parted
  <2>1. ~Routed' /\ ~Heeded'
    BY <1>4, <1>6, <1>11 DEF Routed, Heeded
  <2> QED
    BY <1>1, <1>4, <1>6, <1>11, <2>1 DEF AgentInv, RunsAs
<1>12. CASE agent' = half
  <2>1. ~Heeded'
    BY <1>4, <1>8, <1>12 DEF Heeded
  <2>2. agent'.said.route # Absent => agent'.model = agent'.said.route
    BY <1>7, <1>8, <1>12
  <2> QED
    BY <1>1, <1>4, <1>8, <1>12, <2>1, <2>2 DEF AgentInv, RunsAs
<1> QED
  BY <1>2, <1>9, <1>10, <1>11, <1>12 DEF yes, route, effort, born, parted, routed, half

LEMMA AgentRequests == ASSUME AgentInv, Request PROVE AgentInv'
<1> DEFINE said == IF agent.subagent /\ ~agent.selects THEN child ELSE agent.said
           sel == [model |-> agent.model, effort |-> agent.effort, said |-> said]
<1>1. /\ agent' = agent /\ pass.at = "next" /\ agent.created
      /\ sent' = IF agent.subagent /\ ~agent.selects THEN WithEffort(sel, said) ELSE sel
  BY DEF Request, AgentInv
<1>2. sel.said = said /\ sel = [model |-> sel.model, effort |-> sel.effort, said |-> sel.said]
      /\ sel.model = agent.model /\ sel.effort = agent.effort
  OBVIOUS
<1>3. CASE ~agent.subagent
  BY <1>1, <1>3 DEF AgentInv
<1>4. CASE agent.subagent /\ ~agent.selects
  <2>1. sent' = WithEffort(sel, said)
    BY <1>1, <1>4
  <2> HIDE DEF said, sel
  <2>2. sent'.said = said /\ (Resolved(said, sent'.model) # Absent => sent'.effort = Resolved(said, sent'.model))
    BY <1>2, <2>1, WithEffortRuns
  <2>3. RunsAs(sent, agent.selects /\ Routed, Heeded)'
    BY <1>1, <1>4, <2>2 DEF RunsAs
  <2> QED
    BY <1>1, <1>4, <2>3 DEF AgentInv
<1>5. CASE agent.subagent /\ agent.selects
  <2>1. sent' = sel /\ said = agent.said
    BY <1>1, <1>5
  <2> HIDE DEF said, sel
  <2>2. RunsAs(agent, Routed, Heeded)
    BY <1>1, <1>5 DEF AgentInv
  <2>3. RunsAs(sent, agent.selects /\ Routed, Heeded)'
    BY <1>1, <1>2, <1>5, <2>1, <2>2 DEF RunsAs, Routed, Heeded
  <2> QED
    BY <1>1, <1>5, <2>2, <2>3 DEF AgentInv, RunsAs, Routed, Heeded
<1> QED
  BY <1>3, <1>4, <1>5

\* Between its creation and its requests the agent and its requests stand.
LEMMA AgentKeeps == ASSUME AgentInv, [Next]_vars PROVE AgentInv'
<1>1. CASE Created
  BY <1>1, AgentCreated
<1>2. CASE Request
  BY <1>2, AgentRequests
<1>3. ASSUME agent' = agent, sent' = sent, pass'.at # "idle" => agent.created PROVE AgentInv'
  BY <1>3 DEF AgentInv, AgentShape, RunsAs, Routed, Heeded
<1>4. CASE Turn
  BY <1>3, <1>4 DEF Turn
<1>5. CASE Pass
  <2>1. agent' = agent /\ sent' = sent /\ pass.at # "idle"
    BY <1>5 DEF Pass, PreStep, WindowAnswers, WindowFails, BackendAnswers
  <2> QED
    BY <1>3, <2>1 DEF AgentInv
<1>6. CASE Replies
  <2>1. agent' = agent /\ sent' = sent /\ pass.at # "idle"
    BY <1>6 DEF Replies
  <2> QED
    BY <1>3, <2>1 DEF AgentInv
<1>7. CASE Queued \/ SettingsMove \/ UNCHANGED vars
  <2>1. agent' = agent /\ sent' = sent /\ pass' = pass
    BY <1>7 DEF Queued, SettingsMove, vars
  <2> QED
    BY <1>3, <2>1 DEF AgentInv
<1> QED
  BY <1>1, <1>2, <1>4, <1>5, <1>6, <1>7 DEF Next

\* Every request of a subagent goes to the model its settings configure, unless
\* the Host refused it, and carries the effort they configure, in the terms of
\* that model, unless the Host refused the one or the other (subagent.ts), for
\* every catalogue of models and custom efforts and however the settings change.
THEOREM ChildRunsAsConfiguredHolds == Spec => []ChildRunsAsConfigured
<1>1. AgentInv => ChildRunsAsConfigured
  BY DEF AgentInv, RunsAs, Routed, Heeded, ChildRunsAsConfigured
<1> QED
  BY <1>1, AgentInit, AgentKeeps, PTL DEF Spec

----------------------------------------------------------------------------
(* Sums over a sequence, and walks along it.                               *)


\* What holds of a finite set whenever it holds of its proper subsets holds of all.
LEMMA SetInduction ==
  ASSUME NEW S, IsFiniteSet(S), NEW P,
         ASSUME NEW t \in SUBSET S, \A u \in SUBSET t : u # t => u \in P PROVE t \in P
  PROVE  \A t \in SUBSET S : t \in P
<1> DEFINE T == {t \in SUBSET S : t \notin P}
<1> SUFFICES ASSUME T # {} PROVE FALSE
  OBVIOUS
<1>1. T \subseteq FiniteSubsetsOf(S)
  BY FS_Subset DEF FiniteSubsetsOf
<1>2. IsWellFoundedOn(StrictSubsetOrdering(S), FiniteSubsetsOf(S))
  BY FS_StrictSubsetOrderingWellFounded
<1>3. PICK t \in T : \A u \in T : <<u, t>> \notin StrictSubsetOrdering(S)
  <2> HIDE DEF T
  <2> QED
    BY <1>1, <1>2, WFMin
<1>4. ASSUME NEW u \in SUBSET t, u # t PROVE u \in P
  <2>1. <<u, t>> \in (SUBSET S) \X (SUBSET S)
    OBVIOUS
  <2>2. <<u, t>> \in StrictSubsetOrdering(S)
    BY <1>4, <2>1 DEF StrictSubsetOrdering
  <2> QED
    BY <1>3, <2>2
<1> QED
  BY <1>4

\* The same, step by step up to a number.
LEMMA UpTo ==
  ASSUME NEW n \in Nat, NEW P, 0 \in P, \A k \in 0..(n - 1) : k \in P => k + 1 \in P
  PROVE  \A k \in 0..n : k \in P
<1> DEFINE Q == {t \in SUBSET (1..n) : \A k \in 0..n : t = 1..k => k \in P}
<1>1. IsFiniteSet(1..n)
  BY FS_Interval
<1>2. ASSUME NEW t \in SUBSET (1..n), \A u \in SUBSET t : u # t => u \in Q PROVE t \in Q
  <2> SUFFICES ASSUME NEW k \in 0..n, t = 1..k, k # 0 PROVE k \in P
    OBVIOUS
  <2>1. 1..(k - 1) \in SUBSET t /\ 1..(k - 1) # t /\ k - 1 \in 0..(n - 1) /\ k - 1 \in 0..n
    OBVIOUS
  <2>2. k - 1 \in P
    BY <1>2, <2>1
  <2> QED
    BY <2>1, <2>2
<1> HIDE DEF Q
<1>3. \A t \in SUBSET (1..n) : t \in Q
  BY <1>1, <1>2, SetInduction
<1> QED
  <2> SUFFICES ASSUME NEW k \in 0..n PROVE k \in P
    OBVIOUS
  <2>1. 1..k \in Q
    BY <1>3
  <2> QED
    BY <2>1 DEF Q

\* f[s] is the sum of g over s, for each part s of S.
Sums(S, g, f) ==
  /\ f \in [SUBSET S -> Int] /\ f[{}] = 0
  /\ \A s \in SUBSET S : \A x \in s : f[s] = f[s \ {x}] + g[x]

\* A fold takes its elements in some order.
IsFold(S, c, g, f) == f = [s \in SUBSET S |-> IF s = {} THEN 0 ELSE f[s \ {c[s]}] + g[c[s]]]

LEMMA FoldExists ==
  ASSUME NEW S, IsFiniteSet(S), NEW g \in [S -> Int],
         NEW c, \A s \in SUBSET S : s # {} => c[s] \in s
  PROVE  \E f \in [SUBSET S -> Int] : IsFold(S, c, g, f)
<1> DEFINE n == Cardinality(S)
           More(f) == [s \in SUBSET S |-> IF s = {} THEN 0 ELSE f[s \ {c[s]}] + g[c[s]]]
           Upto(f, k) == \A s \in SUBSET S : Cardinality(s) <= k => f[s] = More(f)[s]
           P == {k \in Nat : \E f \in [SUBSET S -> Int] : Upto(f, k)}
<1>1. n \in Nat /\ \A s \in SUBSET S : IsFiniteSet(s) /\ Cardinality(s) \in Nat /\ Cardinality(s) <= n
  BY FS_CardinalityType, FS_Subset
<1>2. 0 \in P
  <2> DEFINE z == [s \in SUBSET S |-> 0]
  <2>1. \A s \in SUBSET S : Cardinality(s) <= 0 => s = {}
    BY <1>1, FS_EmptySet
  <2>2. z \in [SUBSET S -> Int] /\ Upto(z, 0)
    BY <2>1
  <2> QED
    BY <2>2
<1>3. ASSUME NEW k \in 0..(n - 1), k \in P PROVE k + 1 \in P
  <2>1. PICK f \in [SUBSET S -> Int] : Upto(f, k)
    BY <1>3
  <2>2. More(f) \in [SUBSET S -> Int]
    OBVIOUS
  <2>3. ASSUME NEW s \in SUBSET S, Cardinality(s) <= k + 1, s # {}
        PROVE  More(f)[s] = More(More(f))[s]
    <3>1. c[s] \in s /\ s \ {c[s]} \in SUBSET S
      BY <2>3
    <3>2. Cardinality(s \ {c[s]}) <= k
      BY <1>1, <2>3, <3>1, FS_RemoveElement
    <3>3. f[s \ {c[s]}] = More(f)[s \ {c[s]}]
      BY <2>1, <3>1, <3>2
    <3> QED
      BY <2>3, <3>1, <3>3
  <2>4. Upto(More(f), k + 1)
    BY <2>3
  <2>5. k + 1 \in Nat
    BY <1>1
  <2> HIDE DEF Upto, More
  <2> QED
    BY <2>2, <2>4, <2>5
<1>4. n \in P
  <2> HIDE DEF P, n
  <2> QED
    BY <1>1, <1>2, <1>3, UpTo
<1>5. PICK f \in [SUBSET S -> Int] : Upto(f, n)
  BY <1>4
<1>6. f = More(f)
  BY <1>1, <1>5
<1> QED
  BY <1>6 DEF IsFold

\* Whatever the order, the fold is the sum.
LEMMA FoldsSum ==
  ASSUME NEW S, IsFiniteSet(S), NEW g \in [S -> Int],
         NEW c, \A s \in SUBSET S : s # {} => c[s] \in s,
         NEW f, IsFold(S, c, g, f)
  PROVE  Sums(S, g, f)
<1>1. \A s \in SUBSET S : f[s] = IF s = {} THEN 0 ELSE f[s \ {c[s]}] + g[c[s]]
  BY DEF IsFold
<1>2. \A s \in SUBSET S : f[s] \in Int
  <2> DEFINE P == {s \in SUBSET S : f[s] \in Int}
  <2>1. ASSUME NEW t \in SUBSET S, \A u \in SUBSET t : u # t => u \in P PROVE t \in P
    <3>1. CASE t = {}
      BY <1>1, <3>1
    <3>2. CASE t # {}
      <4>1. c[t] \in t /\ t \ {c[t]} \in SUBSET t /\ t \ {c[t]} # t
        BY <3>2
      <4>2. f[t] = f[t \ {c[t]}] + g[c[t]] /\ f[t \ {c[t]}] \in Int /\ g[c[t]] \in Int
        BY <1>1, <2>1, <3>2, <4>1
      <4> QED
        BY <4>2
    <3> QED
      BY <3>1, <3>2
  <2> HIDE DEF P
  <2>2. \A t \in SUBSET S : t \in P
    BY <2>1, SetInduction
  <2> QED
    BY <2>2 DEF P
<1>3. \A s \in SUBSET S : \A x \in s : f[s] = f[s \ {x}] + g[x]
  <2> DEFINE P == {s \in SUBSET S : \A x \in s : f[s] = f[s \ {x}] + g[x]}
  <2>1. ASSUME NEW t \in SUBSET S, \A u \in SUBSET t : u # t => u \in P PROVE t \in P
    <3> SUFFICES ASSUME NEW x \in t PROVE f[t] = f[t \ {x}] + g[x]
      OBVIOUS
    <3> DEFINE y == c[t]
    <3>1. y \in t /\ f[t] = f[t \ {y}] + g[y]
      BY <1>1
    <3> HIDE DEF y
    <3>2. CASE y # x
      <4>1. t \ {y} \in P /\ x \in t \ {y} /\ t \ {x} \in P /\ y \in t \ {x}
        BY <2>1, <3>1, <3>2
      <4>2. (t \ {y}) \ {x} = (t \ {x}) \ {y}
        OBVIOUS
      <4>3. f[t \ {y}] = f[(t \ {y}) \ {x}] + g[x] /\ f[t \ {x}] = f[(t \ {x}) \ {y}] + g[y]
        BY <4>1
      <4>4. f[(t \ {x}) \ {y}] \in Int /\ g[x] \in Int /\ g[y] \in Int
        BY <1>2, <3>1
      <4>5. f[t] = (f[(t \ {x}) \ {y}] + g[x]) + g[y]
        BY <3>1, <4>2, <4>3
      <4> QED
        BY <4>3, <4>4, <4>5
    <3> QED
      BY <3>1, <3>2
  <2> HIDE DEF P
  <2>2. \A t \in SUBSET S : t \in P
    BY <2>1, SetInduction
  <2> QED
    BY <2>2 DEF P
<1>4. f[{}] = 0
  BY <1>1
<1>5. f \in [SUBSET S -> Int]
  BY <1>2 DEF IsFold
<1> QED
  BY <1>3, <1>4, <1>5 DEF Sums

\* A sum depends on what is summed only.
LEMMA SumsAgree ==
  ASSUME NEW S, IsFiniteSet(S), NEW g, NEW f, Sums(S, g, f),
         NEW R, R \subseteq S, NEW h, NEW e, Sums(R, h, e), \A x \in R : g[x] = h[x]
  PROVE  e[R] = f[R]
<1> DEFINE P == {s \in SUBSET R : e[s] = f[s]}
<1>1. IsFiniteSet(R)
  BY FS_Subset
<1>2. ASSUME NEW t \in SUBSET R, \A u \in SUBSET t : u # t => u \in P PROVE t \in P
  <2>1. CASE t = {}
    BY <2>1 DEF Sums
  <2>2. CASE t # {}
    <3>1. PICK x \in t : TRUE
      BY <2>2
    <3>2. e[t] = e[t \ {x}] + h[x] /\ f[t] = f[t \ {x}] + g[x] /\ g[x] = h[x]
      BY DEF Sums
    <3>3. t \ {x} \in P
      BY <1>2
    <3> QED
      BY <3>2, <3>3
  <2> QED
    BY <2>1, <2>2
<1> HIDE DEF P
<1>3. \A t \in SUBSET R : t \in P
  BY <1>1, <1>2, SetInduction
<1> QED
  BY <1>3 DEF P

LEMMA MaxIsIn ==
  ASSUME NEW n \in Nat, NEW s \in SUBSET (1..n), s # {}
  PROVE  Max(s) \in s /\ \A y \in s : Max(s) >= y
<1> DEFINE P == {t \in SUBSET (1..n) : t # {} => \E x \in t : \A y \in t : x >= y}
<1>1. ASSUME NEW t \in SUBSET (1..n), \A u \in SUBSET t : u # t => u \in P PROVE t \in P
  <2> SUFFICES ASSUME t # {} PROVE \E x \in t : \A y \in t : x >= y
    OBVIOUS
  <2>1. PICK x \in t : TRUE
    OBVIOUS
  <2>2. CASE t \ {x} = {}
    BY <2>2
  <2>3. CASE t \ {x} # {}
    <3>1. t \ {x} \in P
      BY <1>1
    <3>2. PICK m \in t \ {x} : \A y \in t \ {x} : m >= y
      BY <2>3, <3>1
    <3>3. CASE x >= m
      <4>1. \A y \in t : x >= y
        BY <3>2, <3>3
      <4> QED
        BY <4>1
    <3>4. CASE ~(x >= m)
      <4>1. \A y \in t : m >= y
        BY <3>2, <3>4
      <4> QED
        BY <3>2, <4>1
    <3> QED
      BY <3>3, <3>4
  <2> QED
    BY <2>2, <2>3
<1> HIDE DEF P
<1>2. \A t \in SUBSET (1..n) : t \in P
  <2>1. IsFiniteSet(1..n)
    BY FS_Interval
  <2> QED
    BY <1>1, <2>1, SetInduction
<1>3. \E x \in s : \A y \in s : x >= y
  BY <1>2 DEF P
<1> QED
  BY <1>3 DEF Max

\* The prices, or the calls opened, of a stretch of nodes: g at each place.
Weights(W, q) == [i \in 1..Len(q) |-> W[q[i]]]

LEMMA TotalSums ==
  ASSUME NEW W \in [Kinds -> Int], NEW q \in Seq(Kinds)
  PROVE  \E f : Sums(1..Len(q), Weights(W, q), f) /\ Total(W, q) = f[1..Len(q)]
<1> DEFINE S == 1..Len(q)
           g == Weights(W, q)
           c == [s \in SUBSET S |-> Max(s)]
           D(f) == f = [s \in SUBSET S |-> IF s = {} THEN 0 ELSE f[s \ {Max(s)}] + W[q[Max(s)]]]
<1>1. Len(q) \in Nat /\ DOMAIN q = S /\ IsFiniteSet(S) /\ g \in [S -> Int]
  <2>1. Len(q) \in Nat /\ DOMAIN q = S
    BY LenProperties
  <2>2. IsFiniteSet(S)
    BY <2>1, FS_Interval
  <2>3. \A i \in S : q[i] \in Kinds
    BY ElementOfSeq
  <2> QED
    BY <2>1, <2>2, <2>3 DEF Weights
<1>2. \A s \in SUBSET S : s # {} => c[s] \in s
  BY <1>1, MaxIsIn
<1>3. \A s \in SUBSET S : s # {} => c[s] = Max(s) /\ Max(s) \in S /\ g[Max(s)] = W[q[Max(s)]]
  BY <1>2 DEF Weights
<1>4. ASSUME NEW f PROVE D(f) <=> IsFold(S, c, g, f)
  <2>1. [s \in SUBSET S |-> IF s = {} THEN 0 ELSE f[s \ {Max(s)}] + W[q[Max(s)]]]
        = [s \in SUBSET S |-> IF s = {} THEN 0 ELSE f[s \ {c[s]}] + g[c[s]]]
    BY <1>3
  <2> QED
    BY <2>1 DEF IsFold
<1>5. Total(W, q) = (CHOOSE f : D(f))[S]
  BY <1>1 DEF Total, FoldLeft, MapThenFoldSet
<1> HIDE DEF S, g, c
<1>6. PICK e : IsFold(S, c, g, e)
  BY <1>1, <1>2, FoldExists
<1>7. D(CHOOSE f : D(f))
  <2>1. D(e)
    BY <1>4, <1>6
  <2> HIDE DEF D
  <2> QED
    BY <2>1
<1>8. Sums(S, g, CHOOSE f : D(f))
  <2> DEFINE h == CHOOSE f : D(f)
  <2>1. IsFold(S, c, g, h)
    BY <1>4, <1>7
  <2> HIDE DEF h
  <2>2. Sums(S, g, h)
    BY <1>1, <1>2, <2>1, FoldsSum
  <2> QED
    BY <2>2 DEF h
<1> QED
  BY <1>5, <1>8 DEF S, g

LEMMA LastApart == ASSUME NEW a \in Int, NEW b \in Int, a <= b PROVE (a..b) \ {b} = a..(b - 1)
OBVIOUS

LEMMA FirstApart == ASSUME NEW a \in Int, NEW b \in Int, a <= b PROVE (a..b) \ {a} = (a + 1)..b
OBVIOUS

LEMMA Stretch ==
  ASSUME NEW q \in Seq(Kinds), NEW k \in 1..(Len(q) + 1), NEW m \in 0..Len(q)
  PROVE  LET p == SubSeq(q, k, m)
         IN  /\ p \in Seq(Kinds) /\ Len(p) = (IF k <= m THEN m - k + 1 ELSE 0)
             /\ \A i \in 1..Len(p) : p[i] = q[k + i - 1]
<1>1. k \in Int /\ m \in Int
  BY LenProperties
<1>2. \A i \in k..m : q[i] \in Kinds
  <2> SUFFICES ASSUME NEW i \in k..m PROVE q[i] \in Kinds
    OBVIOUS
  <2>1. i \in 1..Len(q)
    BY LenProperties
  <2> QED
    BY <2>1, ElementOfSeq
<1> DEFINE p == SubSeq(q, k, m)
<1>3. /\ p \in Seq(Kinds) /\ Len(p) = (IF k <= m THEN m - k + 1 ELSE 0)
      /\ \A i \in 1..(m - k + 1) : p[i] = q[k + i - 1]
  BY <1>1, <1>2, SubSeqProperties
<1> HIDE DEF p
<1>4. \A i \in 1..Len(p) : p[i] = q[k + i - 1]
  BY <1>1, <1>3
<1> QED
  BY <1>3, <1>4 DEF p

\* The total over a stretch of q is its part of the sum over q.
LEMMA Stretches ==
  ASSUME NEW W \in [Kinds -> Int], NEW q \in Seq(Kinds)
  PROVE  \E F : /\ Sums(1..Len(q), Weights(W, q), F)
               /\ \A k \in 1..(Len(q) + 1), m \in 0..Len(q) : Total(W, SubSeq(q, k, m)) = F[k..m]
<1> DEFINE n == Len(q)
<1>1. PICK F : Sums(1..n, Weights(W, q), F)
  BY TotalSums
<1>2. n \in Nat
  BY LenProperties
<1>3. ASSUME NEW k \in 1..(n + 1), NEW m \in 0..n PROVE Total(W, SubSeq(q, k, m)) = F[k..m]
  <2> DEFINE p == SubSeq(q, k, m)
  <2>1. p \in Seq(Kinds) /\ Len(p) = (IF k <= m THEN m - k + 1 ELSE 0) /\ \A i \in 1..Len(p) : p[i] = q[k + i - 1]
    BY Stretch
  <2>2. Len(p) \in Nat /\ k..m = k..(k + Len(p) - 1) /\ k + Len(p) - 1 <= n
    BY <1>2, <2>1
  <2> HIDE DEF p
  <2>3. PICK f : Sums(1..Len(p), Weights(W, p), f) /\ Total(W, p) = f[1..Len(p)]
    BY <2>1, TotalSums
  <2> DEFINE P == {j \in 0..Len(p) : f[1..j] = F[k..(k + j - 1)]}
  <2>4. 0 \in P
    <3>1. 1..0 = {} /\ k..(k + 0 - 1) = {}
      BY <1>2
    <3> QED
      BY <1>1, <2>2, <2>3, <3>1 DEF Sums
  <2>5. ASSUME NEW j \in 0..(Len(p) - 1), j \in P PROVE j + 1 \in P
    <3> DEFINE s == 1..(j + 1)
               t == k..(k + j)
    <3>1. s \in SUBSET (1..Len(p)) /\ j + 1 \in s /\ s \ {j + 1} = 1..j
      BY <2>2
    <3>2. t \in SUBSET (1..n) /\ k + j \in t /\ t \ {k + j} = k..(k + j - 1)
      <4>1. k \in Nat /\ k >= 1 /\ j \in Nat /\ k + j <= n
        BY <1>2, <2>2
      <4>2. t \in SUBSET (1..n) /\ k + j \in t
        BY <4>1
      <4>3. t \ {k + j} = k..((k + j) - 1)
        BY <4>1, LastApart
      <4> QED
        BY <4>2, <4>3
    <3>3. Weights(W, p)[j + 1] = Weights(W, q)[k + j]
      <4>1. j + 1 \in 1..Len(p) /\ k + j \in 1..n /\ k + (j + 1) - 1 = k + j
        BY <1>2, <2>2
      <4> QED
        BY <2>1, <4>1 DEF Weights
    <3> HIDE DEF s, t
    <3>4. f[s] = f[1..j] + Weights(W, p)[j + 1]
      <4>1. f[s] = f[s \ {j + 1}] + Weights(W, p)[j + 1]
        BY <2>3, <3>1 DEF Sums
      <4> QED
        BY <3>1, <4>1
    <3>5. F[t] = F[k..(k + j - 1)] + Weights(W, q)[k + j]
      <4>1. F[t] = F[t \ {k + j}] + Weights(W, q)[k + j]
        BY <1>1, <3>2 DEF Sums
      <4> QED
        BY <3>2, <4>1
    <3>6. f[s] = F[t]
      BY <2>5, <3>3, <3>4, <3>5
    <3>7. k + (j + 1) - 1 = k + j /\ j + 1 \in 0..Len(p)
      BY <1>2, <2>2
    <3> QED
      BY <3>6, <3>7 DEF s, t
  <2> HIDE DEF P
  <2>6. \A j \in 0..Len(p) : j \in P
    BY <2>2, <2>4, <2>5, UpTo
  <2> QED
    BY <2>2, <2>3, <2>6 DEF P, p
<1> QED
  BY <1>1, <1>3

\* A walk back from a place ends at the newest place at or before it where it may.
Walk(f, n, Stop) == f = [k \in 0..n |-> IF k \in Stop THEN k ELSE f[k - 1]]

LEMMA WalkExists ==
  ASSUME NEW n \in Nat, NEW Stop, 0 \in Stop
  PROVE  \E f : Walk(f, n, Stop)
<1> DEFINE G(f) == [k \in 0..n |-> IF k \in Stop THEN k ELSE f[k - 1]]
           Before(f, j) == \A k \in 0..n : k <= j => f[k] = G(f)[k]
           P == {j \in 0..n : \E f \in [0..n -> Int] : Before(f, j)}
<1>1. 0 \in P
  <2> DEFINE z == [k \in 0..n |-> 0]
  <2>1. z \in [0..n -> Int] /\ Before(z, 0)
    OBVIOUS
  <2> QED
    BY <2>1
<1>2. ASSUME NEW j \in 0..(n - 1), j \in P PROVE j + 1 \in P
  <2>1. PICK f \in [0..n -> Int] : Before(f, j)
    BY <1>2
  <2>2. G(f) \in [0..n -> Int]
    OBVIOUS
  <2>3. ASSUME NEW k \in 0..n, k <= j + 1, k \notin Stop PROVE G(f)[k] = G(G(f))[k]
    <3>1. k - 1 \in 0..n /\ k - 1 <= j
      BY <2>3
    <3>2. f[k - 1] = G(f)[k - 1]
      BY <2>1, <3>1
    <3> QED
      BY <2>3, <3>1, <3>2
  <2>4. Before(G(f), j + 1)
    BY <2>3
  <2>5. j + 1 \in 0..n
    OBVIOUS
  <2> HIDE DEF G, Before
  <2> QED
    BY <2>2, <2>4, <2>5
<1> HIDE DEF P
<1>3. n \in P
  BY <1>1, <1>2, UpTo
<1>4. PICK f \in [0..n -> Int] : Before(f, n)
  BY <1>3 DEF P
<1>5. f = G(f)
  BY <1>4
<1> QED
  BY <1>5 DEF Walk

LEMMA WalkEnds ==
  ASSUME NEW n \in Nat, NEW Stop, 0 \in Stop, NEW f, Walk(f, n, Stop), NEW k \in 0..n
  PROVE  f[k] \in Stop \intersect (0..k) /\ \A j \in Stop \intersect (0..k) : j <= f[k]
<1> DEFINE P == {i \in 0..n : f[i] \in Stop \intersect (0..i) /\ \A j \in Stop \intersect (0..i) : j <= f[i]}
<1>1. \A i \in 0..n : f[i] = IF i \in Stop THEN i ELSE f[i - 1]
  BY DEF Walk
<1>2. 0 \in P
  BY <1>1
<1>3. ASSUME NEW i \in 0..(n - 1), i \in P PROVE i + 1 \in P
  <2>1. i + 1 \in 0..n /\ (i + 1) - 1 = i
    OBVIOUS
  <2>2. CASE i + 1 \in Stop
    BY <1>1, <2>1, <2>2
  <2>3. CASE i + 1 \notin Stop
    <3>1. f[i + 1] = f[i] /\ Stop \intersect (0..(i + 1)) = Stop \intersect (0..i)
      BY <1>1, <2>1, <2>3
    <3> QED
      BY <1>3, <2>1, <3>1
  <2> QED
    BY <2>2, <2>3
<1> HIDE DEF P
<1>4. k \in P
  BY <1>2, <1>3, UpTo
<1> QED
  BY <1>4 DEF P

----------------------------------------------------------------------------
(* What a compaction pass selects.                                         *)

LEMMA WeightsTyped == Price \in [Kinds -> Int] /\ Delta \in [Kinds -> Int]
<1>1. Price \in [Kinds -> Int]
  BY PolicyConstants
<1>2. Delta \in [Kinds -> Int]
  BY DEF Delta
<1> QED
  BY <1>1, <1>2

\* How many of the first j nodes are of these kinds.
Count(q, kinds, j) == Cardinality({i \in 1..j : q[i] \in kinds})

LEMMA CountSteps ==
  ASSUME NEW q, NEW kinds, NEW j \in Nat
  PROVE  /\ Count(q, kinds, 0) = 0 /\ Count(q, kinds, j) \in Nat
         /\ Count(q, kinds, j + 1) = Count(q, kinds, j) + (IF q[j + 1] \in kinds THEN 1 ELSE 0)
<1> DEFINE s == {i \in 1..j : q[i] \in kinds}
           t == {i \in 1..(j + 1) : q[i] \in kinds}
<1>1. IsFiniteSet(s) /\ Cardinality(s) \in Nat
  <2>1. IsFiniteSet(1..j) /\ s \in SUBSET (1..j)
    BY FS_Interval
  <2>2. IsFiniteSet(s)
    BY <2>1, FS_Subset
  <2> QED
    BY <2>2, FS_CardinalityType
<1>2. {i \in 1..0 : q[i] \in kinds} = {}
  OBVIOUS
<1>3. t = IF q[j + 1] \in kinds THEN s \union {j + 1} ELSE s
  OBVIOUS
<1>4. j + 1 \notin s
  OBVIOUS
<1> HIDE DEF s, t
<1>5. Cardinality(t) = Cardinality(s) + (IF q[j + 1] \in kinds THEN 1 ELSE 0)
  <2>1. CASE q[j + 1] \in kinds
    <3>1. Cardinality(s \union {j + 1}) = Cardinality(s) + 1
      BY <1>1, <1>4, FS_AddElement
    <3> QED
      BY <1>3, <2>1, <3>1
  <2>2. CASE q[j + 1] \notin kinds
    BY <1>1, <1>3, <2>2
  <2> QED
    BY <2>1, <2>2
<1>6. Count(q, kinds, 0) = 0
  BY <1>2, FS_EmptySet DEF Count
<1> QED
  BY <1>1, <1>5, <1>6 DEF Count, s, t

LEMMA Adds ==
  ASSUME NEW c \in Nat, NEW s \in Nat, NEW r \in Nat, NEW a \in Nat, NEW b \in Nat, NEW d \in Nat
  PROVE  \A c1, s1, r1 : c1 = c + a /\ s1 = s + b /\ r1 = r + d =>
           (c + 2 * s - r) + (a + 2 * b - d) = c1 + 2 * s1 - r1
OBVIOUS

\* What balanceCuts adds up is what was called and is not answered.
LEMMA OpenCounts ==
  ASSUME NEW q \in Seq(Kinds), NEW D, Sums(1..Len(q), Weights(Delta, q), D), NEW j \in 0..Len(q)
  PROVE  D[1..j] = Count(q, {"call"}, j) + 2 * Count(q, {"calls"}, j) - Count(q, {"result"}, j)
<1> DEFINE c(i) == Count(q, {"call"}, i)
           cs(i) == Count(q, {"calls"}, i)
           r(i) == Count(q, {"result"}, i)
           P == {i \in 0..Len(q) : D[1..i] = c(i) + 2 * cs(i) - r(i)}
<1>1. Len(q) \in Nat
  BY LenProperties
<1>2. 0 \in P
  <2>1. 1..0 = {} /\ D[{}] = 0
    BY DEF Sums
  <2>2. c(0) = 0 /\ cs(0) = 0 /\ r(0) = 0
    BY CountSteps
  <2> HIDE DEF c, cs, r
  <2> QED
    BY <1>1, <2>1, <2>2
<1>3. ASSUME NEW i \in 0..(Len(q) - 1), i \in P PROVE i + 1 \in P
  <2>1. i \in Nat /\ i + 1 \in 1..Len(q) /\ i + 1 \in 0..Len(q)
    BY <1>1
  <2>2. D[1..(i + 1)] = D[1..i] + Delta[q[i + 1]]
    <3>1. 1..(i + 1) \in SUBSET (1..Len(q)) /\ i + 1 \in 1..(i + 1)
      BY <2>1
    <3>2. D[1..(i + 1)] = D[(1..(i + 1)) \ {i + 1}] + Weights(Delta, q)[i + 1]
      BY <3>1 DEF Sums
    <3>3. (1..(i + 1)) \ {i + 1} = 1..((i + 1) - 1) /\ (i + 1) - 1 = i
      BY <2>1, LastApart
    <3>4. Weights(Delta, q)[i + 1] = Delta[q[i + 1]]
      BY <2>1 DEF Weights
    <3> QED
      BY <3>2, <3>3, <3>4
  <2>3. q[i + 1] \in Kinds
    BY <2>1, ElementOfSeq
  <2> DEFINE a == IF q[i + 1] \in {"call"} THEN 1 ELSE 0
             b == IF q[i + 1] \in {"calls"} THEN 1 ELSE 0
             d == IF q[i + 1] \in {"result"} THEN 1 ELSE 0
  <2>0. \A kinds : /\ Count(q, kinds, i) \in Nat
                   /\ Count(q, kinds, i + 1) = Count(q, kinds, i) + (IF q[i + 1] \in kinds THEN 1 ELSE 0)
    BY <2>1, CountSteps
  <2>4. c(i) \in Nat /\ c(i + 1) = c(i) + a
    BY <2>0
  <2>5. cs(i) \in Nat /\ cs(i + 1) = cs(i) + b
    BY <2>0
  <2>6. r(i) \in Nat /\ r(i + 1) = r(i) + d
    BY <2>0
  <2>7. Delta[q[i + 1]] = a + 2 * b - d /\ a \in Nat /\ b \in Nat /\ d \in Nat
    BY <2>3 DEF Delta, Kinds
  <2>8. D[1..i] = c(i) + 2 * cs(i) - r(i)
    BY <1>3
  <2> HIDE DEF c, cs, r, a, b, d
  <2>9. D[1..(i + 1)] = c(i + 1) + 2 * cs(i + 1) - r(i + 1)
    <3>1. D[1..(i + 1)] = (c(i) + 2 * cs(i) - r(i)) + (a + 2 * b - d)
      BY <2>2, <2>7, <2>8
    <3>2. (c(i) + 2 * cs(i) - r(i)) + (a + 2 * b - d) = c(i + 1) + 2 * cs(i + 1) - r(i + 1)
      BY <2>4, <2>5, <2>6, <2>7, Adds
    <3> QED
      BY <3>1, <3>2
  <2> QED
    BY <2>1, <2>9
<1> HIDE DEF P
<1>4. \A i \in 0..Len(q) : i \in P
  BY <1>1, <1>2, <1>3, UpTo
<1> QED
  BY <1>4 DEF P

\* A longer tail is worth no less.
LEMMA TailGrows ==
  ASSUME NEW q \in Seq(Kinds), NEW F, Sums(1..Len(q), Weights(Price, q), F),
         NEW k \in 1..Len(q), NEW j \in 1..k
  PROVE  F[j..Len(q)] \in Int /\ F[k..Len(q)] \in Int /\ F[j..Len(q)] >= F[k..Len(q)]
<1> DEFINE n == Len(q)
           P == {d \in 0..(k - 1) : F[(k - d)..n] \in Int /\ F[(k - d)..n] >= F[k..n]}
<1>1. n \in Nat /\ k \in Nat /\ j \in Nat /\ k <= n /\ j <= k /\ j >= 1
  BY LenProperties
<1> HIDE DEF n
<1>2. Sums(1..n, Weights(Price, q), F)
  BY DEF n
<1>3. k..n \in SUBSET (1..n)
  BY <1>1
<1>4. F[k..n] \in Int
  BY <1>2, <1>3 DEF Sums
<1>5. 0 \in P
  <2>1. k - 0 = k
    BY <1>1
  <2> QED
    BY <1>1, <1>4, <2>1
<1>6. ASSUME NEW d \in 0..((k - 1) - 1), d \in P PROVE d + 1 \in P
  <2> DEFINE a == k - (d + 1)
  <2>1. a \in 1..n /\ a + 1 = k - d /\ a <= n /\ d + 1 \in 0..(k - 1)
    BY <1>1
  <2> HIDE DEF a
  <2>2. a..n \in SUBSET (1..n) /\ a \in a..n
    BY <1>1, <2>1
  <2>3. F[a..n] = F[(a..n) \ {a}] + Weights(Price, q)[a] /\ F[a..n] \in Int
    BY <1>2, <2>2 DEF Sums
  <2>4. (a..n) \ {a} = (a + 1)..n
    BY <1>1, <2>1, FirstApart
  <2>5. Weights(Price, q)[a] \in Nat
    <3>1. q[a] \in Kinds
      BY <2>1, ElementOfSeq DEF n
    <3> QED
      BY <2>1, <3>1, PolicyConstants DEF Weights, n
  <2>6. F[(k - d)..n] \in Int /\ F[(k - d)..n] >= F[k..n]
    BY <1>6
  <2>7. F[a..n] = F[(k - d)..n] + Weights(Price, q)[a]
    BY <2>1, <2>3, <2>4
  <2>8. F[a..n] >= F[k..n]
    BY <1>4, <2>5, <2>6, <2>7
  <2> QED
    BY <2>1, <2>3, <2>8 DEF a
<1> HIDE DEF P
<1>7. \A d \in 0..(k - 1) : d \in P
  <2>1. k - 1 \in Nat
    BY <1>1
  <2> QED
    BY <1>5, <1>6, <2>1, UpTo
<1>8. k - j \in 0..(k - 1) /\ k - (k - j) = j
  BY <1>1
<1>9. k - j \in P
  BY <1>7, <1>8
<1> QED
  BY <1>4, <1>8, <1>9 DEF P, n

\* The property's own sum of the prices of a tail.
LEMMA TailSum ==
  ASSUME NEW q \in Seq(Kinds), NEW F, Sums(1..Len(q), Weights(Price, q), F), NEW k \in 1..Len(q)
  PROVE  Worth(q, k) = F[k..Len(q)]
<1> DEFINE n == Len(q)
           S == k..n
           p == [i \in 1..n |-> Price[q[i]]]
           g == [i \in S |-> Price[q[i]]]
           c == [s \in SUBSET S |-> CHOOSE x \in s : TRUE]
           D(f) == f = [s \in SUBSET S |-> IF s = {} THEN 0
                                           ELSE p[CHOOSE x \in s : TRUE] + f[s \ {CHOOSE x \in s : TRUE}]]
<1>1. n \in Nat /\ S \in SUBSET (1..n)
  BY LenProperties
<1>2. IsFiniteSet(S) /\ IsFiniteSet(1..n)
  BY <1>1, FS_Interval
<1>3. g \in [S -> Int] /\ \A i \in S : g[i] = p[i] /\ g[i] = Weights(Price, q)[i]
  <2>1. \A i \in 1..n : q[i] \in Kinds
    BY ElementOfSeq
  <2> QED
    BY <1>1, <2>1, WeightsTyped DEF Weights
<1>4. Worth(q, k) = (CHOOSE f : D(f))[S]
  BY DEF Worth, SumFunctionOnSet, FoldFunctionOnSet, MapThenFoldSet
<1>5. \A s \in SUBSET S : s # {} => c[s] = (CHOOSE x \in s : TRUE) /\ c[s] \in s
  OBVIOUS
<1> HIDE DEF S, g, c, p
<1>6. PICK e \in [SUBSET S -> Int] : IsFold(S, c, g, e)
  BY <1>2, <1>3, <1>5, FoldExists
<1>7. D(e)
  <2> DEFINE new == [s \in SUBSET S |-> IF s = {} THEN 0
                                        ELSE p[CHOOSE x \in s : TRUE] + e[s \ {CHOOSE x \in s : TRUE}]]
  <2>1. \A s \in SUBSET S : e[s] = IF s = {} THEN 0 ELSE e[s \ {c[s]}] + g[c[s]]
    BY <1>6 DEF IsFold
  <2>2. ASSUME NEW s \in SUBSET S, s # {} PROVE e[s] = new[s]
    <3>1. c[s] = (CHOOSE x \in s : TRUE) /\ c[s] \in S /\ g[c[s]] = p[c[s]]
      BY <1>3, <1>5, <2>2
    <3>2. e[s \ {c[s]}] \in Int /\ g[c[s]] \in Int
      BY <1>3, <1>6, <3>1
    <3>3. new[s] = p[c[s]] + e[s \ {c[s]}]
      BY <2>2, <3>1
    <3>4. e[s] = e[s \ {c[s]}] + g[c[s]]
      BY <2>1, <2>2
    <3> HIDE DEF new
    <3> QED
      BY <3>1, <3>2, <3>3, <3>4
  <2>3. e[{}] = new[{}]
    BY <2>1
  <2>4. \A s \in SUBSET S : e[s] = new[s]
    BY <2>2, <2>3
  <2> QED
    <3>1. e = [s \in SUBSET S |-> e[s]] /\ new = [s \in SUBSET S |-> new[s]]
      OBVIOUS
    <3>2. e = new
      BY <2>4, <3>1
    <3> QED
      BY <3>2
<1> DEFINE h == CHOOSE f : D(f)
<1>8. D(h)
  <2> HIDE DEF D
  <2> QED
    BY <1>7
<1>9. IsFold(S, c, g, h)
  <2> DEFINE P == {s \in SUBSET S : h[s] \in Int}
  <2> HIDE DEF h
  <2>1. \A s \in SUBSET S : h[s] = IF s = {} THEN 0 ELSE p[c[s]] + h[s \ {c[s]}]
    <3> SUFFICES ASSUME NEW s \in SUBSET S PROVE h[s] = IF s = {} THEN 0 ELSE p[c[s]] + h[s \ {c[s]}]
      OBVIOUS
    <3>1. h[s] = IF s = {} THEN 0 ELSE p[CHOOSE x \in s : TRUE] + h[s \ {CHOOSE x \in s : TRUE}]
      BY <1>8
    <3>2. s # {} => c[s] = (CHOOSE x \in s : TRUE)
      BY <1>5
    <3> QED
      BY <3>1, <3>2
  <2>2. ASSUME NEW t \in SUBSET S, \A u \in SUBSET t : u # t => u \in P PROVE t \in P
    <3>1. CASE t = {}
      <4>1. h[t] = 0
        BY <2>1, <3>1
      <4> QED
        BY <4>1
    <3>2. CASE t # {}
      <4>1. c[t] \in t /\ t \ {c[t]} \in SUBSET t /\ t \ {c[t]} # t
        BY <1>5, <3>2
      <4>2. h[t \ {c[t]}] \in Int /\ p[c[t]] \in Int
        BY <1>3, <2>2, <4>1
      <4>3. h[t] = p[c[t]] + h[t \ {c[t]}]
        BY <2>1, <3>2
      <4> QED
        BY <4>2, <4>3
    <3> QED
      BY <3>1, <3>2
  <2> HIDE DEF P
  <2>3. \A t \in SUBSET S : t \in P
    BY <1>2, <2>2, SetInduction
  <2> DEFINE new == [s \in SUBSET S |-> IF s = {} THEN 0 ELSE h[s \ {c[s]}] + g[c[s]]]
  <2>4. ASSUME NEW s \in SUBSET S, s # {} PROVE h[s] = new[s]
    <3>1. c[s] \in S /\ g[c[s]] = p[c[s]] /\ g[c[s]] \in Int /\ h[s \ {c[s]}] \in Int
      BY <1>3, <1>5, <2>3, <2>4 DEF P
    <3>2. h[s] = p[c[s]] + h[s \ {c[s]}]
      BY <2>1, <2>4
    <3>3. new[s] = h[s \ {c[s]}] + g[c[s]]
      BY <2>4
    <3> QED
      BY <3>1, <3>2, <3>3
  <2>5. h[{}] = new[{}]
    BY <2>1
  <2>6. h = [s \in SUBSET S |-> h[s]]
    BY <1>8
  <2>7. h = new
    BY <2>4, <2>5, <2>6
  <2> QED
    BY <2>7 DEF IsFold
<1>10. Sums(S, g, h)
  <2> HIDE DEF h
  <2> QED
    BY <1>2, <1>3, <1>5, <1>9, FoldsSum
<1>11. h[S] = F[S]
  <2> HIDE DEF h
  <2> QED
    <3>1. Sums(1..n, Weights(Price, q), F) /\ S \subseteq 1..n /\ \A x \in S : Weights(Price, q)[x] = g[x]
      BY <1>1, <1>3
    <3> QED
      <4> DEFINE N == 1..n
                 W == Weights(Price, q)
      <4>1. Sums(N, W, F) /\ S \subseteq N /\ IsFiniteSet(N) /\ \A x \in S : W[x] = g[x]
        BY <1>2, <3>1
      <4> HIDE DEF N, W
      <4> QED
        BY <1>10, <4>1, SumsAgree
<1> QED
  BY <1>4, <1>11 DEF S, p

\* What is unanswered before a node is what is open there.
LEMMA UnansweredIsOpen ==
  ASSUME NEW q \in Seq(Kinds), NEW D, Sums(1..Len(q), Weights(Delta, q), D), NEW k \in 1..Len(q)
  PROVE  Unanswered(q, k) = D[1..(k - 1)]
<1>1. k - 1 \in 0..Len(q)
  BY LenProperties
<1>2. D[1..(k - 1)] = Count(q, {"call"}, k - 1) + 2 * Count(q, {"calls"}, k - 1) - Count(q, {"result"}, k - 1)
  BY <1>1, OpenCounts
<1> QED
  BY <1>2 DEF Unanswered, Count

\* The walk over the prices ends at the newest node whose tail is worth the
\* budget, or at the start.
LEMMA KeepFromEnds ==
  ASSUME surface \in Seq(Kinds), NEW budget
  PROVE  LET k == KeepFrom(budget)
         IN  /\ k \in 0..Len(surface) /\ (k <= 1 \/ TailPrice(k) >= budget)
             /\ \A j \in 0..Len(surface) : TailPrice(j) >= budget => j <= k
<1> DEFINE n == Len(surface)
           Stop == {k \in 0..n : k <= 1 \/ TailPrice(k) >= budget}
           D(f) == f = [k \in 0..n |-> IF k <= 1 \/ TailPrice(k) >= budget THEN k ELSE f[k - 1]]
           h == CHOOSE f : D(f)
<1>1. n \in Nat /\ 0 \in Stop
  BY LenProperties
<1>2. KeepFrom(budget) = h[n]
  BY DEF KeepFrom
<1>3. \A f : D(f) <=> Walk(f, n, Stop)
  <2> SUFFICES ASSUME NEW f PROVE D(f) <=> Walk(f, n, Stop)
    OBVIOUS
  <2>1. [k \in 0..n |-> IF k <= 1 \/ TailPrice(k) >= budget THEN k ELSE f[k - 1]]
        = [k \in 0..n |-> IF k \in Stop THEN k ELSE f[k - 1]]
    OBVIOUS
  <2> QED
    BY <2>1 DEF Walk
<1>4. \A k \in 0..n : k \in Stop <=> k <= 1 \/ TailPrice(k) >= budget
  OBVIOUS
<1> HIDE DEF Stop
<1>5. PICK e : Walk(e, n, Stop)
  BY <1>1, WalkExists
<1>6. D(h)
  <2>1. D(e)
    BY <1>3, <1>5
  <2> HIDE DEF D
  <2> QED
    BY <2>1
<1> HIDE DEF h, D
<1>7. Walk(h, n, Stop)
  BY <1>3, <1>6
<1>8. n \in 0..n
  BY <1>1
<1>9. h[n] \in Stop \intersect (0..n) /\ \A j \in Stop \intersect (0..n) : j <= h[n]
  BY <1>1, <1>7, <1>8, WalkEnds
<1> QED
  BY <1>2, <1>4, <1>9

\* And the walk over the calls, at the newest node before which none is open, or
\* at the head.
LEMMA UncutEnds ==
  ASSUME surface \in Seq(Kinds), NEW m \in 0..Len(surface)
  PROVE  LET k == Uncut(m)
         IN  /\ k \in 0..m /\ (k <= HeadAt \/ Open[k] = 0)
             /\ \A j \in 0..m : Open[j] = 0 => j <= k
<1> DEFINE Stop == {k \in 0..m : k <= HeadAt \/ Open[k] = 0}
           D(f) == f = [j \in 0..m |-> IF j <= HeadAt \/ Open[j] = 0 THEN j ELSE f[j - 1]]
           h == CHOOSE f : D(f)
<1>1. m \in Nat /\ 0 \in Stop
  <2>1. m \in Nat /\ HeadAt \in {1, 2}
    BY LenProperties DEF HeadAt
  <2> QED
    BY <2>1
<1>2. Uncut(m) = h[m]
  BY DEF Uncut
<1>3. \A f : D(f) <=> Walk(f, m, Stop)
  <2> SUFFICES ASSUME NEW f PROVE D(f) <=> Walk(f, m, Stop)
    OBVIOUS
  <2>1. [j \in 0..m |-> IF j <= HeadAt \/ Open[j] = 0 THEN j ELSE f[j - 1]]
        = [k \in 0..m |-> IF k \in Stop THEN k ELSE f[k - 1]]
    OBVIOUS
  <2> QED
    BY <2>1 DEF Walk
<1>4. \A k \in 0..m : k \in Stop <=> k <= HeadAt \/ Open[k] = 0
  OBVIOUS
<1> HIDE DEF Stop
<1>5. PICK e : Walk(e, m, Stop)
  BY <1>1, WalkExists
<1>6. D(h)
  <2>1. D(e)
    BY <1>3, <1>5
  <2> HIDE DEF D
  <2> QED
    BY <2>1
<1> HIDE DEF h, D
<1>7. Walk(h, m, Stop)
  BY <1>3, <1>6
<1>8. m \in 0..m
  BY <1>1
<1>9. h[m] \in Stop \intersect (0..m) /\ \A j \in Stop \intersect (0..m) : j <= h[m]
  BY <1>1, <1>7, <1>8, WalkEnds
<1> QED
  BY <1>2, <1>4, <1>9

\* The cut a pass takes is the newest of the safe ones.
LEMMA CutIsNewest ==
  ASSUME surface \in Seq(Kinds), NEW budget \in Int, Cut(budget) > HeadAt
  PROVE  LET safe == SafeCuts(surface, HeadAt, budget)
         IN  Cut(budget) \in safe /\ \A k \in safe : k <= Cut(budget)
<1> DEFINE n == Len(surface)
           k0 == KeepFrom(budget)
           c0 == Cut(budget)
<1>1. n \in Nat /\ HeadAt \in {1, 2}
  BY LenProperties DEF HeadAt
<1>2. PICK F : /\ Sums(1..n, Weights(Price, surface), F)
               /\ \A k \in 1..(n + 1), m \in 0..n : Total(Price, SubSeq(surface, k, m)) = F[k..m]
  BY WeightsTyped, Stretches
<1>3. PICK D : /\ Sums(1..n, Weights(Delta, surface), D)
               /\ \A k \in 1..(n + 1), m \in 0..n : Total(Delta, SubSeq(surface, k, m)) = D[k..m]
  BY WeightsTyped, Stretches
<1>4. \A k \in 1..n : TailPrice(k) = F[k..n] /\ Worth(surface, k) = F[k..n]
  <2> SUFFICES ASSUME NEW k \in 1..n PROVE TailPrice(k) = F[k..n] /\ Worth(surface, k) = F[k..n]
    OBVIOUS
  <2>1. k \in 1..(n + 1) /\ n \in 0..n
    BY <1>1
  <2>2. TailPrice(k) = F[k..n]
    BY <1>2, <2>1 DEF TailPrice
  <2>3. Worth(surface, k) = F[k..n]
    BY <1>2, TailSum
  <2> QED
    BY <2>2, <2>3
<1>5. \A k \in 1..n : Open[k] = Unanswered(surface, k)
  <2> SUFFICES ASSUME NEW k \in 1..n PROVE Open[k] = Unanswered(surface, k)
    OBVIOUS
  <2>1. k \in 1..(n + 1) /\ 1 \in 1..(n + 1) /\ k - 1 \in 0..n
    BY <1>1
  <2>2. Open[k] = Total(Delta, SubSeq(surface, 1, k - 1))
    BY <2>1 DEF Open
  <2>3. Open[k] = D[1..(k - 1)]
    BY <1>3, <2>1, <2>2
  <2> QED
    BY <1>3, <2>3, UnansweredIsOpen
<1>6. /\ k0 \in 0..n /\ (k0 <= 1 \/ TailPrice(k0) >= budget)
      /\ \A j \in 0..n : TailPrice(j) >= budget => j <= k0
  BY KeepFromEnds
<1>7. k0 > HeadAt /\ c0 = Uncut(k0)
  <2>1. CASE k0 <= HeadAt
    <3>1. c0 = HeadAt
      BY <2>1 DEF Cut
    <3> QED
      BY <1>1, <3>1
  <2>2. CASE ~(k0 <= HeadAt)
    <3>1. c0 = Uncut(k0)
      BY <2>2 DEF Cut
    <3> HIDE DEF k0, c0
    <3> QED
      BY <1>1, <1>6, <2>2, <3>1
  <2> QED
    BY <2>1, <2>2
<1>8. c0 \in 0..k0 /\ (c0 <= HeadAt \/ Open[c0] = 0) /\ \A j \in 0..k0 : Open[j] = 0 => j <= c0
  BY <1>6, <1>7, UncutEnds
<1> HIDE DEF c0, k0
<1>9. k0 \in 1..n /\ c0 \in 1..k0 /\ c0 \in (HeadAt + 1)..n /\ TailPrice(k0) >= budget /\ Open[c0] = 0
  BY <1>1, <1>6, <1>7, <1>8 DEF c0
<1>10. Worth(surface, c0) >= budget
  <2>1. F[c0..n] \in Int /\ F[k0..n] \in Int /\ F[c0..n] >= F[k0..n]
    BY <1>2, <1>9, TailGrows
  <2>2. TailPrice(k0) = F[k0..n] /\ Worth(surface, c0) = F[c0..n]
    BY <1>1, <1>4, <1>9
  <2> QED
    BY <1>9, <2>1, <2>2
<1>11. c0 \in SafeCuts(surface, HeadAt, budget)
  <2>1. Unanswered(surface, c0) = 0
    BY <1>1, <1>5, <1>9
  <2> QED
    BY <1>9, <1>10, <2>1 DEF SafeCuts
<1>12. ASSUME NEW k \in SafeCuts(surface, HeadAt, budget) PROVE k <= c0
  <2>1. k \in (HeadAt + 1)..n /\ Unanswered(surface, k) = 0 /\ Worth(surface, k) >= budget
    BY <1>12 DEF SafeCuts
  <2>2. k \in 1..n /\ k \in 0..n
    BY <1>1, <2>1
  <2>3. TailPrice(k) >= budget /\ Open[k] = 0
    BY <1>4, <1>5, <2>1, <2>2
  <2>4. k <= k0
    BY <1>6, <2>2, <2>3
  <2>5. k \in 0..k0
    BY <1>6, <2>2, <2>4
  <2> QED
    BY <1>8, <2>3, <2>5
<1> QED
  BY <1>11, <1>12 DEF c0

----------------------------------------------------------------------------
(* The invariant of the pass.                                              *)

\* A policy with its leaves filled in.
Filled == [enabled : BOOLEAN, threshold : Nat, retain : Nat, models : [Models -> Ratios]]

SurfaceInv ==
  /\ surface \in Seq(Kinds)
  /\ \A i \in 1..Len(surface) : surface[i] = "system" => i = 1

RouteInv ==
  /\ policy \in Policies /\ child \in Children
  /\ agent.model \in Models /\ (sent # Absent => sent.model \in Models)
  /\ pass.at \in {"window", "compacting"} => agent.created

PassInv ==
  /\ pass.at = "window" => pass.policy \in Filled /\ Window[Route] # Absent
  /\ pass.at = "compacting" =>
       /\ pass.size \in 0..Len(surface) /\ pass.first \in {1, 2}
       /\ pass.end \in pass.first..pass.size
       /\ CompactsWhatIsSafe

CompactInv == SurfaceInv /\ RouteInv /\ PassInv

LEMMA PolicyFilled == ASSUME NEW stored \in Policy \union {Absent} PROVE PolicyFrom(stored) \in Filled
BY DEF PolicyFrom, Policy, Filled, Ratios

LEMMA RatioTyped ==
  ASSUME NEW p \in Filled, NEW model \in Models, NEW which \in {"threshold", "retain"}
  PROVE  Ratio(p, model, which) \in Nat
BY DEF Filled, Ratio, Ratios

\* A budget is a number of tokens where the window is declared.
LEMMA TokensTyped ==
  ASSUME NEW model \in Models, Window[model] # Absent, NEW ratio \in Nat
  PROVE  Tokens(model, ratio) \in Int
<1>1. Window[model] \in Nat
  BY PolicyConstants
<1>2. Window[model] * ratio \in Nat
  BY <1>1
<1> QED
  BY <1>2 DEF Tokens

LEMMA RouteTyped == ASSUME RouteInv PROVE Route \in Models
BY DEF RouteInv, Route

LEMMA Joined ==
  ASSUME NEW p \in Seq(Kinds), NEW q \in Seq(Kinds)
  PROVE  \A m, k : m = Len(p) /\ k = Len(q) =>
           /\ p \o q \in Seq(Kinds) /\ Len(p \o q) = m + k
           /\ \A i \in 1..(m + k) : (p \o q)[i] = IF i <= m THEN p[i] ELSE q[i - m]
BY LenProperties, ConcatProperties

\* What was measured stays the start of a surface that grows.
LEMMA GrowsOn ==
  ASSUME SurfaceInv, NEW nodes \in Seq(Kinds), \A i \in 1..Len(nodes) : nodes[i] # "system",
         surface' = surface \o nodes
  PROVE  /\ SurfaceInv' /\ Len(surface') >= Len(surface)
         /\ \A m \in 0..Len(surface) : SubSeq(surface', 1, m) = SubSeq(surface, 1, m)
<1> DEFINE t == surface \o nodes
<1>1. surface \in Seq(Kinds)
  BY DEF SurfaceInv
<1>2. /\ Len(surface) \in Nat /\ Len(nodes) \in Nat /\ t \in Seq(Kinds)
      /\ Len(t) = Len(surface) + Len(nodes)
      /\ \A i \in 1..Len(t) : t[i] = IF i <= Len(surface) THEN surface[i] ELSE nodes[i - Len(surface)]
  BY <1>1, LenProperties, ConcatProperties
<1> HIDE DEF t
<1>3. surface' = t
  BY DEF t
<1>4. \A i \in 1..Len(t) : t[i] = "system" => i = 1
  <2> SUFFICES ASSUME NEW i \in 1..Len(t), t[i] = "system" PROVE i = 1
    OBVIOUS
  <2>1. CASE i <= Len(surface)
    BY <1>2, <2>1 DEF SurfaceInv
  <2>2. CASE ~(i <= Len(surface))
    <3>1. i - Len(surface) \in 1..Len(nodes)
      BY <1>2, <2>2
    <3> QED
      BY <1>2, <2>2, <3>1
  <2> QED
    BY <2>1, <2>2
<1>5. ASSUME NEW m \in 0..Len(surface) PROVE SubSeq(t, 1, m) = SubSeq(surface, 1, m)
  <2>1. /\ SubSeq(t, 1, m) \in Seq(Kinds) /\ Len(SubSeq(t, 1, m)) = m
        /\ \A i \in 1..m : SubSeq(t, 1, m)[i] = t[i]
    BY <1>2, SubSeqProperties
  <2>2. /\ SubSeq(surface, 1, m) \in Seq(Kinds) /\ Len(SubSeq(surface, 1, m)) = m
        /\ \A i \in 1..m : SubSeq(surface, 1, m)[i] = surface[i]
    BY <1>1, <1>2, SubSeqProperties
  <2>3. \A i \in 1..m : t[i] = surface[i]
    BY <1>2
  <2> QED
    BY <2>1, <2>2, <2>3, SeqEqual
<1> QED
  BY <1>2, <1>3, <1>4, <1>5 DEF SurfaceInv

\* The window is answered.
LEMMA SelectionIsSafe == ASSUME CompactInv, WindowAnswers PROVE PassInv'
<1> DEFINE budget == Tokens(Route, Ratio(pass.policy, Route, "retain"))
           n == Len(surface)
           c == Cut(budget)
<1>1. Route \in Models /\ surface \in Seq(Kinds) /\ n \in Nat /\ HeadAt \in {1, 2}
  BY RouteTyped, LenProperties DEF CompactInv, SurfaceInv, HeadAt
<1>2. budget \in Int
  <2>1. pass.policy \in Filled /\ Window[Route] # Absent
    BY DEF CompactInv, PassInv, WindowAnswers
  <2>2. Ratio(pass.policy, Route, "retain") \in Nat
    BY <1>1, <2>1, RatioTyped
  <2> QED
    BY <1>1, <2>1, <2>2, TokensTyped
<1> HIDE DEF budget
<1>3. surface' = surface
  BY DEF WindowAnswers
<1>4. CASE pass' = At("next")
  BY <1>4 DEF PassInv, At, NoPass, CompactsWhatIsSafe
<1>5. CASE ~(c <= HeadAt) /\ pass' = [At("compacting") EXCEPT !.size = n, !.retain = budget,
                                        !.first = HeadAt, !.end = c - 1]
  <2>1. /\ pass'.at = "compacting" /\ pass'.size = n /\ pass'.retain = budget
        /\ pass'.first = HeadAt /\ pass'.end = c - 1
    BY <1>5 DEF At, NoPass
  <2>2. c \in Int
    <3>1. KeepFrom(budget) \in 0..n
      BY <1>1, KeepFromEnds
    <3>2. Uncut(KeepFrom(budget)) \in 0..KeepFrom(budget)
      BY <1>1, <3>1, UncutEnds
    <3> HIDE DEF n
    <3> QED
      BY <1>1, <3>1, <3>2 DEF Cut
  <2>3. c > HeadAt
    BY <1>1, <1>5, <2>2
  <2>4. c \in SafeCuts(surface, HeadAt, budget) /\ \A k \in SafeCuts(surface, HeadAt, budget) : k <= c
    BY <1>1, <1>2, <2>3, CutIsNewest
  <2>5. c \in (HeadAt + 1)..n
    BY <2>4 DEF SafeCuts
  <2> HIDE DEF c, n
  <2>6. c - 1 \in HeadAt..n /\ (c - 1) + 1 = c
    BY <1>1, <2>5
  <2>7. SubSeq(surface, 1, n) = surface
    <3>1. SubSeq(surface, 1, n) \in Seq(Kinds) /\ Len(SubSeq(surface, 1, n)) = n
          /\ \A i \in 1..n : SubSeq(surface, 1, n)[i] = surface[i]
      BY <1>1, SubSeqProperties DEF n
    <3> QED
      BY <1>1, <3>1, SeqEqual DEF n
  <2>8. \A i \in HeadAt..(c - 1) : surface[i] # "system"
    <3> SUFFICES ASSUME NEW i \in HeadAt..(c - 1), surface[i] = "system" PROVE FALSE
      OBVIOUS
    <3>1. i \in 1..n
      BY <1>1, <2>6
    <3>2. i = 1
      BY <3>1 DEF CompactInv, SurfaceInv, n
    <3>3. HeadAt = 1 /\ surface # <<>>
      BY <1>1, <3>1, <3>2, EmptySeq DEF n
    <3> QED
      BY <3>2, <3>3 DEF HeadAt
  <2>9. CompactsWhatIsSafe'
    BY <1>3, <2>1, <2>4, <2>6, <2>7, <2>8 DEF CompactsWhatIsSafe
  <2> QED
    BY <1>1, <1>3, <2>1, <2>6, <2>9 DEF PassInv, n
<1> QED
  BY <1>4, <1>5 DEF WindowAnswers, budget, c, n

\* The summary leaves what is above the head where it is.
LEMMA SummaryKeeps == ASSUME CompactInv, NEW ok \in BOOLEAN, BackendAnswers(ok) PROVE SurfaceInv'
<1> DEFINE n == Len(surface)
           begin == pass.first
           end == pass.end
           a == SubSeq(surface, 1, begin - 1)
           b == SubSeq(surface, end + 1, n)
           t == a \o <<"text">> \o b
<1>1. CASE ~ok
  BY <1>1 DEF BackendAnswers, CompactInv, SurfaceInv
<1>2. CASE ok
  <2>1. surface' = t
    BY <1>2 DEF BackendAnswers
  <2>2. surface \in Seq(Kinds) /\ n \in Nat /\ begin \in {1, 2} /\ end \in begin..n
    BY LenProperties DEF CompactInv, SurfaceInv, PassInv, BackendAnswers
  <2>3. \A i \in 1..n : surface[i] = "system" => i = 1
    BY DEF CompactInv, SurfaceInv
  <2> HIDE DEF begin, end
  <2>4. a \in Seq(Kinds) /\ Len(a) = begin - 1
    <3>1. begin \in 1..n /\ begin - 1 \in 0..n
      BY <2>2
    <3> QED
      BY <2>2, <3>1, SubSeqProperties
  <2>5. b \in Seq(Kinds) /\ Len(b) = n - end /\ \A i \in 1..Len(b) : b[i] = surface[end + i]
    <3>1. end + 1 \in 1..(n + 1) /\ n \in 0..n
      BY <2>2
    <3>2. b \in Seq(Kinds) /\ Len(b) = (IF end + 1 <= n THEN n - (end + 1) + 1 ELSE 0)
          /\ \A i \in 1..Len(b) : b[i] = surface[(end + 1) + i - 1]
      BY <2>2, <3>1, SubSeqProperties
    <3>3. Len(b) = n - end
      BY <2>2, <3>2
    <3>4. \A i \in 1..Len(b) : (end + 1) + i - 1 = end + i
      BY <2>2, <3>3
    <3> QED
      BY <3>2, <3>3, <3>4
  <2> HIDE DEF a, b
  <2> DEFINE u == a \o <<"text">>
  <2>6. u \in Seq(Kinds) /\ Len(u) = begin /\ u[begin] = "text"
    <3>1. <<"text">> \in Seq(Kinds) /\ Len(<<"text">>) = 1 /\ <<"text">>[1] = "text"
      BY DEF Kinds
    <3> DEFINE w == <<"text">>
    <3> HIDE DEF w
    <3>2. w \in Seq(Kinds) /\ Len(w) = 1 /\ w[1] = "text"
      BY <3>1 DEF w
    <3>3. a \o w \in Seq(Kinds) /\ Len(a \o w) = Len(a) + 1
          /\ \A i \in 1..(Len(a) + 1) : (a \o w)[i] = IF i <= Len(a) THEN a[i] ELSE w[i - Len(a)]
      <4>1. a \in Seq(Kinds) /\ Len(a) \in Nat
        BY <2>4, LenProperties
      <4>2. \A m, k : m = Len(a) /\ k = Len(w) =>
               /\ a \o w \in Seq(Kinds) /\ Len(a \o w) = m + k
               /\ \A i \in 1..(m + k) : (a \o w)[i] = IF i <= m THEN a[i] ELSE w[i - m]
        BY <3>2, <4>1, Joined
      <4> DEFINE m == Len(a)
      <4>3. m = Len(a) /\ 1 = Len(w)
        BY <3>2
      <4> HIDE DEF m
      <4>4. /\ a \o w \in Seq(Kinds) /\ Len(a \o w) = m + 1
            /\ \A i \in 1..(m + 1) : (a \o w)[i] = IF i <= m THEN a[i] ELSE w[i - m]
        BY <4>2, <4>3
      <4> QED
        BY <4>4 DEF m
    <3>4. begin \in 1..(Len(a) + 1) /\ ~(begin <= Len(a)) /\ begin - Len(a) = 1 /\ Len(a) + 1 = begin
      BY <2>2, <2>4
    <3> QED
      BY <3>2, <3>3, <3>4 DEF w
  <2> HIDE DEF u
  <2>7. /\ u \o b \in Seq(Kinds) /\ Len(u \o b) = begin + (n - end)
        /\ \A i \in 1..(begin + (n - end)) : (u \o b)[i] = IF i <= begin THEN u[i] ELSE b[i - begin]
    <3>1. u \in Seq(Kinds) /\ b \in Seq(Kinds)
      BY <2>5, <2>6
    <3> QED
      BY <2>5, <2>6, <3>1, Joined
  <2>8. ASSUME NEW i \in 1..(begin + (n - end)), (u \o b)[i] = "system" PROVE i = 1
    <3>1. CASE i <= begin
      <4>1. u[i] = "system"
        BY <2>7, <2>8, <3>1
      <4>2. i # begin
        BY <2>6, <4>1
      <4> QED
        BY <2>2, <2>8, <3>1, <4>2
    <3>2. CASE ~(i <= begin)
      <4>1. i - begin \in 1..Len(b) /\ end + (i - begin) \in 1..n /\ end + (i - begin) # 1
        BY <2>2, <2>5, <2>8, <3>2
      <4>2. surface[end + (i - begin)] = "system"
        BY <2>5, <2>7, <2>8, <3>2, <4>1
      <4> QED
        BY <2>3, <4>1, <4>2
    <3> QED
      BY <3>1, <3>2
  <2>9. t = u \o b
    BY DEF u
  <2> QED
    BY <2>1, <2>7, <2>8, <2>9 DEF SurfaceInv
<1> QED
  BY <1>1, <1>2

\* A pass that is not under way asks nothing of the surface.
LEMMA OtherwiseNoPass == ASSUME pass'.at \notin {"window", "compacting"} PROVE PassInv'
BY DEF PassInv

LEMMA CompactInit == ASSUME Init PROVE CompactInv
<1>1. surface \in Seq(Kinds) /\ \A i \in 1..Len(surface) : i = 1
  <2>1. <<>> \in Seq(Kinds) /\ Len(<<>>) = 0
    BY EmptySeq
  <2>2. <<"system">> \in Seq(Kinds) /\ Len(<<"system">>) = 1
    BY DEF Kinds
  <2>3. CASE surface = <<>>
    BY <2>1, <2>3
  <2>4. CASE surface = <<"system">>
    BY <2>2, <2>4
  <2> QED
    BY <2>3, <2>4 DEF Init
<1>2. pass.at = "idle"
  BY DEF Init, NoPass
<1>3. agent.model \in Models /\ sent = Absent /\ policy \in Policies /\ child \in Children
  BY DEF Init
<1> QED
  BY <1>1, <1>2, <1>3 DEF CompactInv, SurfaceInv, RouteInv, PassInv

\* A selection is of a model there is.
LEMMA EffortModel == ASSUME NEW sel, NEW said, sel.model \in Models,
                            \/ AgentShape(sel)
                            \/ sel = [model |-> sel.model, effort |-> sel.effort, said |-> sel.said]
                     PROVE  WithEffort(sel, said).model \in Models
<1> DEFINE e == Resolved(said, sel.model)
<1>1. WithEffort(sel, said) = IF e = Absent THEN sel ELSE [sel EXCEPT !.effort = e]
  BY DEF WithEffort
<1> HIDE DEF e
<1> QED
  BY <1>1 DEF AgentShape

LEMMA RouteModel ==
  ASSUME NEW sel, NEW said \in Children, sel.model \in Models, AgentShape(sel)
  PROVE  WithRoute(sel, said).model \in Models /\ AgentShape(WithRoute(sel, said))
<1>1. said.route \in Models \union {Absent}
  BY PolicyConstants
<1> QED
  BY <1>1 DEF WithRoute, AgentShape

LEMMA CreatedModel ==
  ASSUME AgentInv, child \in Children, agent.model \in Models, Created
  PROVE  agent'.model \in Models
<1> DEFINE yes == TRUE
           route == "route"
           effort == "effort"
           born == [agent EXCEPT !.created = yes, !.said = child]
           routed == WithRoute(born, child)
<1>1. \/ agent' = born \/ agent' = Selected(born, child) \/ agent' = [born EXCEPT !.refused = route]
      \/ agent' = [routed EXCEPT !.refused = effort]
  BY DEF Created
<1>2. born = [agent EXCEPT !.created = yes, !.said = child]
  OBVIOUS
<1> HIDE DEF yes, route, effort, born
<1>3. AgentShape(born) /\ born.model = agent.model
  BY <1>2, BornShape DEF AgentInv
<1>4. Selected(born, child).model \in Models
  BY <1>3, RouteModel, EffortModel DEF Selected
<1>5. [born EXCEPT !.refused = route].model = born.model
  BY <1>3 DEF AgentShape
<1>6. routed.model \in Models /\ AgentShape(routed)
  BY <1>3, RouteModel
<1> HIDE DEF routed
<1>7. [routed EXCEPT !.refused = effort].model = routed.model
  BY <1>6, RefusedShape
<1> QED
  BY <1>1, <1>3, <1>4, <1>5, <1>6, <1>7

LEMMA RequestModel ==
  ASSUME agent.model \in Models, Request
  PROVE  sent'.model \in Models
<1> DEFINE said == IF agent.subagent /\ ~agent.selects THEN child ELSE agent.said
           sel == [model |-> agent.model, effort |-> agent.effort, said |-> said]
<1>1. sel.model = agent.model /\ sel = [model |-> sel.model, effort |-> sel.effort, said |-> sel.said]
  OBVIOUS
<1>2. sent' = WithEffort(sel, said) \/ sent' = sel
  BY DEF Request
<1> HIDE DEF sel
<1>3. WithEffort(sel, said).model \in Models
  BY <1>1, EffortModel
<1> QED
  BY <1>1, <1>2, <1>3

\* Only a summary, a message or an answer changes the surface, and only the
\* window's answer starts a compaction.
LEMMA NodesGrow ==
  ASSUME SurfaceInv, Turn \/ Replies \/ Queued
  PROVE  /\ SurfaceInv' /\ Len(surface') >= Len(surface)
         /\ \A m \in 0..Len(surface) : SubSeq(surface', 1, m) = SubSeq(surface, 1, m)
<1> DEFINE New == {<<"text">>, <<"call">>, <<"call", "result">>, <<"calls", "result", "result">>}
<1>1. \A nodes \in New : nodes \in Seq(Kinds) /\ \A i \in 1..Len(nodes) : nodes[i] # "system"
  <2> DEFINE Plain(nodes) == nodes \in Seq(Kinds) /\ \A i \in 1..Len(nodes) : nodes[i] # "system"
  <2>1. Plain(<<"text">>) /\ Plain(<<"call">>)
    BY DEF Kinds
  <2>2. Plain(<<"call", "result">>)
    BY DEF Kinds
  <2>3. Plain(<<"calls", "result", "result">>)
    BY DEF Kinds
  <2> HIDE DEF Plain
  <2>4. \A nodes \in New : Plain(nodes)
    BY <2>1, <2>2, <2>3
  <2> QED
    BY <2>4 DEF Plain
<1>2. Len(surface) \in Nat
  BY LenProperties DEF SurfaceInv
<1>3. surface' = surface \/ \E nodes \in New : surface' = surface \o nodes
  BY DEF Turn, Replies, Queued, Grow
<1> HIDE DEF New
<1>4. CASE surface' = surface
  BY <1>2, <1>4 DEF SurfaceInv
<1>5. CASE \E nodes \in New : surface' = surface \o nodes
  BY <1>1, <1>5, GrowsOn
<1> QED
  BY <1>3, <1>4, <1>5

\* The pass keeps what it has while the surface grows under it.
LEMMA PassKeeps ==
  ASSUME CompactInv, pass' = pass, agent' = agent \/ ~agent.created, sent' = sent,
         Len(surface') \in Nat, Len(surface') >= Len(surface),
         \A m \in 0..Len(surface) : SubSeq(surface', 1, m) = SubSeq(surface, 1, m)
  PROVE  PassInv'
<1>1. Len(surface) \in Nat
  BY LenProperties DEF CompactInv, SurfaceInv
<1>2. CASE pass.at = "window"
  <2>1. agent' = agent /\ pass.policy \in Filled /\ Window[Route] # Absent
    BY <1>2 DEF CompactInv, RouteInv, PassInv
  <2>2. Route' = Route
    BY <2>1 DEF Route
  <2> QED
    BY <1>2, <2>1, <2>2 DEF PassInv
<1>3. CASE pass.at = "compacting"
  <2>1. /\ pass.size \in 0..Len(surface) /\ pass.first \in {1, 2}
        /\ pass.end \in pass.first..pass.size /\ CompactsWhatIsSafe
    BY <1>3 DEF CompactInv, PassInv
  <2>2. SubSeq(surface', 1, pass.size) = SubSeq(surface, 1, pass.size)
    BY <2>1
  <2>3. CompactsWhatIsSafe'
    BY <2>1, <2>2 DEF CompactsWhatIsSafe
  <2>4. pass.size \in 0..Len(surface')
    BY <1>1, <2>1
  <2> QED
    BY <1>3, <2>1, <2>3, <2>4 DEF PassInv
<1> QED
  BY <1>2, <1>3, OtherwiseNoPass

LEMMA CompactKeeps == ASSUME CompactInv, AgentInv, [Next]_vars PROVE CompactInv'
<1> USE DEF CompactInv
<1>0. surface \in Seq(Kinds) /\ Len(surface) \in Nat
  BY LenProperties DEF SurfaceInv
<1>1. CASE Created
  <2>1. UNCHANGED <<policy, child, surface, pass, sent>> /\ ~agent.created /\ pass.at = "idle"
    BY <1>1 DEF Created, AgentInv
  <2>2. agent'.model \in Models
    BY <1>1, CreatedModel DEF RouteInv
  <2> QED
    BY <2>1, <2>2 DEF SurfaceInv, RouteInv, PassInv
<1>2. CASE Turn
  <2>1. SurfaceInv'
    BY <1>2, NodesGrow
  <2>2. pass'.at = "preStep" /\ UNCHANGED <<policy, child, agent, sent>>
    BY <1>2 DEF Turn, At, NoPass
  <2> QED
    BY <2>1, <2>2 DEF RouteInv, PassInv
<1>3. CASE PreStep
  <2>1. UNCHANGED <<policy, child, agent, surface, sent>> /\ pass.at = "preStep"
    BY <1>3 DEF PreStep
  <2>2. SurfaceInv' /\ Route' = Route
    BY <2>1 DEF SurfaceInv, Route
  <2>3. agent.created
    BY <2>1 DEF AgentInv
  <2>4. RouteInv'
    BY <2>1, <2>3 DEF RouteInv
  <2>5. PolicyFrom(policy) \in Filled
    BY PolicyConstants, PolicyFilled DEF RouteInv
  <2>6. PassInv'
    <3> DEFINE read == PolicyFrom(policy)
    <3>1. CASE read.enabled /\ Window[Route] # Absent
      <4>1. pass' = [At("window") EXCEPT !.policy = read]
        BY <1>3, <3>1 DEF PreStep
      <4> HIDE DEF read
      <4>2. pass'.at = "window" /\ pass'.policy = read
        BY <4>1 DEF At, NoPass
      <4> QED
        BY <2>2, <2>5, <3>1, <4>2 DEF PassInv, read
    <3>2. CASE ~(read.enabled /\ Window[Route] # Absent)
      <4>1. pass'.at = "next"
        BY <1>3, <3>2 DEF PreStep, At, NoPass
      <4> QED
        BY <4>1, OtherwiseNoPass
    <3> QED
      BY <3>1, <3>2
  <2> QED
    BY <2>2, <2>4, <2>6
<1>4. CASE WindowAnswers
  <2>1. PassInv'
    BY <1>4, SelectionIsSafe
  <2>2. UNCHANGED <<policy, child, agent, surface, sent>> /\ pass.at = "window"
    BY <1>4 DEF WindowAnswers
  <2> QED
    BY <2>1, <2>2 DEF SurfaceInv, RouteInv
<1>5. CASE WindowFails
  <2>1. UNCHANGED <<policy, child, agent, surface, sent>> /\ pass'.at = "next"
    BY <1>5 DEF WindowFails, Absorbed, At, NoPass
  <2> QED
    BY <2>1 DEF SurfaceInv, RouteInv, PassInv
<1>6. ASSUME NEW ok \in BOOLEAN, BackendAnswers(ok) PROVE CompactInv'
  <2>1. SurfaceInv'
    BY <1>6, SummaryKeeps
  <2>2. UNCHANGED <<policy, child, agent, sent>> /\ pass'.at = "next"
    BY <1>6 DEF BackendAnswers, Absorbed, At, NoPass
  <2> QED
    BY <2>1, <2>2 DEF RouteInv, PassInv
<1>7. CASE Request
  <2>1. UNCHANGED <<policy, child, agent, surface>> /\ pass'.at = "replying"
    BY <1>7 DEF Request, At, NoPass
  <2>2. sent'.model \in Models
    BY <1>7, RequestModel DEF RouteInv
  <2> QED
    BY <2>1, <2>2 DEF SurfaceInv, RouteInv, PassInv
<1>8. CASE Replies
  <2>1. SurfaceInv'
    BY <1>8, NodesGrow
  <2>2. UNCHANGED <<policy, child, agent, sent>> /\ pass'.at \in {"idle", "preStep"}
    BY <1>8 DEF Replies, At, NoPass
  <2> QED
    BY <2>1, <2>2 DEF RouteInv, PassInv
<1>9. CASE Queued
  <2>1. UNCHANGED <<policy, child, agent, pass, sent>>
    BY <1>9 DEF Queued
  <2>2. /\ SurfaceInv' /\ Len(surface') >= Len(surface)
        /\ \A m \in 0..Len(surface) : SubSeq(surface', 1, m) = SubSeq(surface, 1, m)
    BY <1>9, NodesGrow
  <2>3. Len(surface') \in Nat
    BY <2>2, LenProperties DEF SurfaceInv
  <2>4. PassInv'
    BY <2>1, <2>2, <2>3, PassKeeps
  <2> QED
    BY <2>1, <2>2, <2>4 DEF RouteInv
<1>10. CASE SettingsMove
  <2>1. UNCHANGED <<agent, surface, pass, sent>> /\ policy' \in Policies /\ child' \in Children
    BY <1>10 DEF SettingsMove
  <2>2. PassInv'
    BY <1>0, <2>1, PassKeeps
  <2> QED
    BY <2>1, <2>2 DEF SurfaceInv, RouteInv
<1>11. CASE UNCHANGED vars
  <2>1. PassInv'
    BY <1>0, <1>11, PassKeeps DEF vars
  <2> QED
    BY <1>11, <2>1 DEF SurfaceInv, RouteInv, vars
<1> QED
  BY <1>1, <1>2, <1>3, <1>4, <1>5, <1>6, <1>7, <1>8, <1>9, <1>10, <1>11 DEF Next, Pass

\* A compaction pass under way replaces exactly what CompactsWhatIsSafe allows,
\* for any surface, prices, windows and policies: the walks of
\* selectCompactableRange over the running sums of balanceCuts and of the prices
\* end at the newest cut that parts no call from its result and keeps the budget.
THEOREM CompactsWhatIsSafeHolds == Spec => []CompactsWhatIsSafe
<1>1. CompactInv => CompactsWhatIsSafe
  BY DEF CompactInv, PassInv, CompactsWhatIsSafe
<1>2. Init => AgentInv /\ CompactInv
  BY AgentInit, CompactInit
<1>3. AgentInv /\ CompactInv /\ [Next]_vars => (AgentInv /\ CompactInv)'
  BY AgentKeeps, CompactKeeps
<1> QED
  BY <1>1, <1>2, <1>3, PTL DEF Spec
=================================================================================
