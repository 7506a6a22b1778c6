--------------------------- MODULE SessionFormatter ---------------------------
(***************************************************************************)
(* The generator of the session header's value                             *)
(* (src/host/opencode-session-format.ts): a bounded cache of values, the   *)
(* hex blocks minted at a session's first use, and the script a user may   *)
(* have configured, stat'ed at most once per interval and imported anew    *)
(* when it changed.  SessionHeader makes the calls.                        *)
(*                                                                         *)
(* A value is what it was made of: the generator, the session, the hex     *)
(* block (a moment, 0: derived from the digest) and, for a script, the      *)
(* version that ran.  The other inputs of a template, an expression or a script (`now`, *)
(* the provider and the model) are left out, and so are warnings.          *)
(*                                                                         *)
(* Between two awaits the program runs alone.  The file system is          *)
(* external: a stat samples the version, an import reads the file some     *)
(* time after it.  Time is an age since each stamp, up to the interval.    *)
(***************************************************************************)
EXTENDS Naturals, FiniteSets, SequencesExt

CONSTANTS
  Sessions,    \* normalized session ids
  Calls,       \* fetches that may be under way at once
  Configs,     \* the format configurations the settings may hold
  None,
  MaxEntries,  \* CACHE_MAX_ENTRIES
  Moments,     \* readings of the clock a block is made of
  Interval,    \* SCRIPT_STAT_MIN_INTERVAL_MS, in steps of the clock
  Faulty,      \* versions of the script whose format() throws
  MaxSpent     \* bound: what the environment does to the program (edits of the
               \* script; in SessionHeader, of the settings and the patches)

Modes == {"passthrough", "ses-derive", "template", "expression", "script"}
Generators == {"raw", "ses", "template", "expression", "script"}
Config == [mode : Modes, time : {"firstUse", "hash"}, text : {"empty", "bad", "good"},
           accepts : SUBSET Generators, onInvalid : {"warn", "drop", "send"}]

\* A value: the generator, the session, the block and the script's version.
Value == [by : Generators, of : Sessions, hex : Nat, ver : Nat]

\* ScriptSlot: what was loaded, and who loads (a call).
Slot == [version : Nat, age : Nat, module : Nat, loading : Calls \union {None}]

ASSUME FormatterConstants ==
  /\ Configs \subseteq Config
  /\ {MaxEntries, Interval} \subseteq Nat \ {0} /\ Moments \subseteq Nat \ {0} /\ MaxSpent \in Nat
  /\ Faulty \subseteq Nat
  /\ IsFiniteSet(Sessions)
  /\ None \notin Slot /\ None \notin Value /\ None \notin Calls \union Sessions

VARIABLES
  cache,     \* the value cache, least recently used first
  minted,    \* hex block of each session used, 0 before
  slot,      \* the script's slot, or None
  file,      \* version of the script on disk
  calls,     \* where each call stands
  spent,     \* of the bound
  first      \* history: the block first minted for each session, 0 before

formatter == <<cache, minted, slot, file, calls, spent, first>>

\* A call waits at a stat, at an import of its own, for another's (`of`), or has
\* a module (`got`) to run.
Idle == [at |-> "idle", session |-> None, config |-> None, age |-> 0, got |-> 0, of |-> None,
         value |-> None]

\* Nothing is loaded: `module` and `version` (mtimeMs) start out empty.
NewSlot == [version |-> 0, age |-> 0, module |-> 0, loading |-> None]

FormatterInit ==
  /\ cache = <<>>
  /\ minted = [s \in Sessions |-> 0]
  /\ slot = None
  /\ file = 1
  /\ calls = [c \in Calls |-> Idle]
  /\ spent = 0
  /\ first = [s \in Sessions |-> 0]

Spend == spent < MaxSpent /\ spent' = spent + 1

----------------------------------------------------------------------------
(* Generating a value.                                                     *)

\* contextHex12, mintHex12: a session that has no block takes the clock's.
Hex(s, config, now) ==
  IF config.time = "hash" THEN 0 ELSE IF minted[s] # 0 THEN minted[s] ELSE now

\* The session's block is minted by whichever generator asks for it first.
Minting(s, config, now) ==
  /\ minted' = IF config.time = "hash" THEN minted ELSE [minted EXCEPT ![s] = Hex(s, config, now)]
  /\ first' = IF config.time = "hash" THEN first
              ELSE [first EXCEPT ![s] = IF @ = 0 THEN Hex(s, config, now) ELSE @]

Made(by, s, hex, ver) == [by |-> by, of |-> s, hex |-> hex, ver |-> ver]
Derived(s, hex) == Made("ses", s, hex, 0)

\* applyValidation.
Validated(value, config) ==
  IF value.by \notin config.accepts /\ config.onInvalid = "drop" THEN None ELSE value

\* computeValue: a template that is not there, or an expression that is not or
\* does not evaluate, falls back to the derived value.
Computed(s, config, hex) ==
  Validated(CASE config.mode = "passthrough" -> Made("raw", s, 0, 0)
              [] config.mode = "template" /\ config.text # "empty" -> Made("template", s, hex, 0)
              [] config.mode = "expression" /\ config.text = "good" -> Made("expression", s, hex, 0)
              [] OTHER -> Derived(s, hex),
            config)

\* Of a script: the module that was loaded, unless it throws.
ByScript(s, config, hex, module) ==
  Validated(IF config.text # "empty" /\ module # 0 /\ module \notin Faulty
            THEN Made("script", s, hex, module)
            ELSE Derived(s, hex),
            config)

----------------------------------------------------------------------------
(* The cache.                                                              *)

\* The session's entry, and the cache without it.
Places(s) == {i \in DOMAIN cache : cache[i].session = s}
Others(s) == IF Places(s) = {} THEN cache ELSE RemoveAt(cache, CHOOSE i \in Places(s) : TRUE)

\* configFingerprint.
Fingerprint(config) == config

\* A hit of `format`, which makes the entry the most recently used one.
Hit(s, config) == {e \in ToSet(cache) : e.session = s /\ e.fingerprint = Fingerprint(config)}
Touch(e) == cache' = Append(Others(e.session), e)

\* A mutant of Kept: the entry of the session itself counts against the bound.
KeptTooMany(s) == IF Len(Others(s)) > MaxEntries THEN Tail(Others(s)) ELSE Others(s)

\* storeAndReturn: the oldest entry makes room.
Kept(s) == IF Len(Others(s)) >= MaxEntries THEN Tail(Others(s)) ELSE Others(s)
Store(s, config, value) ==
  cache' = Append(Kept(s), [session |-> s, fingerprint |-> Fingerprint(config), value |-> value])

----------------------------------------------------------------------------
(* Calling `format`, for call c.                                           *)

Answered(c, s, config, value) ==
  calls' = [calls EXCEPT ![c] =
    [Idle EXCEPT !.at = "answered", !.session = s, !.config = config, !.value = value]]

FormatHits(c, s, config) ==
  \E e \in Hit(s, config) :
    /\ Touch(e)
    /\ Answered(c, s, config, e.value)
    /\ UNCHANGED <<minted, first, slot, file, spent>>

\* A mutant of Mint: the block goes with the cached value that is evicted.
MintUntilEvicted(s, config, now) ==
  LET kept == {e.session : e \in ToSet(Kept(s))} \union {s}
  IN IF config.mode = "passthrough" THEN UNCHANGED <<minted, first>>
     ELSE /\ minted' = [t \in Sessions |-> IF t = s THEN Hex(s, config, now) ELSE IF t \in kept THEN minted[t] ELSE 0]
          /\ first' = [first EXCEPT ![s] = IF @ = 0 THEN Hex(s, config, now) ELSE @]

\* What a computed value mints: `passthrough` asks for no block.
Mint(s, config, now) ==
  IF config.mode = "passthrough" THEN UNCHANGED <<minted, first>> ELSE Minting(s, config, now)

\* What takes no await: everything but a script, and a script that has no path.
FormatComputes(c, s, config) ==
  /\ Hit(s, config) = {} /\ (config.mode = "script" => config.text = "empty")
  /\ \E now \in Moments :
       LET value == Computed(s, config, Hex(s, config, now))
       IN /\ Mint(s, config, now)
          /\ Store(s, config, value)
          /\ Answered(c, s, config, value)
  /\ UNCHANGED <<slot, file, spent>>

Waits(c, s, config, wait) ==
  calls' = [calls EXCEPT ![c] =
    [Idle EXCEPT !.at = wait.at, !.session = s, !.config = config, !.got = wait.got, !.of = wait.of]]
Stat == [at |-> "stat", got |-> 0, of |-> None]
Loaded(module) == [at |-> "loaded", got |-> module, of |-> None]
Join(c) == [at |-> "join", got |-> 0, of |-> c]

\* A mutant of Young: a module that was loaded is looked at no more.
YoungForGood(sl) == sl.age < Interval \/ sl.module # 0

\* The slot was stat'ed within the interval.
Young(sl) == sl.age < Interval

\* computeScriptValue up to its first await: a slot that is young enough, a load
\* to join, or a stat.  A first call leaves a young slot behind.
FormatAsksScript(c, s, config) ==
  /\ Hit(s, config) = {} /\ config.mode = "script" /\ config.text # "empty"
  /\ slot' = IF slot = None THEN NewSlot ELSE slot
  /\ Waits(c, s, config,
           IF slot = None THEN Stat
           ELSE IF Young(slot) THEN Loaded(slot.module)
           ELSE IF slot.loading # None THEN Join(slot.loading) ELSE Stat)
  /\ UNCHANGED <<cache, minted, file, spent, first>>

Runs(call, module) == [call EXCEPT !.at = "loaded", !.age = 0, !.got = module, !.of = None]

\* The stat answers.  An unchanged file needs no import; a changed one, or one
\* that was never loaded, is imported, whoever else imports it by now.
StatAnswers(c) ==
  /\ calls[c].at = "stat"
  /\ IF slot.module # 0 /\ slot.version = file
     THEN /\ slot' = [slot EXCEPT !.age = calls[c].age]
          /\ calls' = [calls EXCEPT ![c] = Runs(@, slot.module)]
     ELSE /\ slot' = [slot EXCEPT !.loading = c]
          /\ calls' = [calls EXCEPT ![c].at = "import", ![c].got = file]
  /\ UNCHANGED <<cache, minted, file, spent, first>>

StatFails(c) ==
  /\ calls[c].at = "stat"
  /\ calls' = [calls EXCEPT ![c] = Runs(@, slot.module)]
  /\ UNCHANGED <<cache, minted, slot, file, spent, first>>

\* The load of c settles with a module, for c and for those who joined it.
Settles(c, module) ==
  calls' = [d \in Calls |->
    IF d = c THEN Runs(calls[d], module)
    ELSE IF calls[d].at = "join" /\ calls[d].of = c
    THEN [calls[d] EXCEPT !.at = "joined", !.got = module, !.of = None]
    ELSE calls[d]]

\* The import answers with the file as it is now, or as it was at some time
\* since the stat.  The slot is left to nobody, whichever load it stood for.
ImportLands(c) ==
  /\ calls[c].at = "import"
  /\ \E module \in calls[c].got..file :
       /\ slot' = [version |-> calls[c].got, age |-> calls[c].age, module |-> module, loading |-> None]
       /\ Settles(c, module)
  /\ UNCHANGED <<cache, minted, file, spent, first>>

\* What was loaded before is what is left; the stamp stays as it is.
ImportFails(c) ==
  /\ calls[c].at = "import"
  /\ slot' = [slot EXCEPT !.loading = None]
  /\ Settles(c, slot.module)
  /\ UNCHANGED <<cache, minted, file, spent, first>>

\* A call that joined a load stamps the slot with its own start.
JoinResumes(c) ==
  /\ calls[c].at = "joined"
  /\ slot' = [slot EXCEPT !.age = calls[c].age]
  /\ calls' = [calls EXCEPT ![c] = Runs(@, calls[c].got)]
  /\ UNCHANGED <<cache, minted, file, spent, first>>

\* The script runs, and its value is stored under the configuration the call
\* was made with.
ScriptComputes(c) ==
  LET s == calls[c].session
      config == calls[c].config
  IN /\ calls[c].at = "loaded"
     /\ \E now \in Moments :
          LET value == ByScript(s, config, Hex(s, config, now), calls[c].got)
          IN /\ Minting(s, config, now)
             /\ Store(s, config, value)
             /\ Answered(c, s, config, value)
     /\ UNCHANGED <<slot, file, spent>>

Formats(c) ==
  StatAnswers(c) \/ StatFails(c) \/ ImportLands(c) \/ ImportFails(c) \/ JoinResumes(c) \/ ScriptComputes(c)

----------------------------------------------------------------------------
(* The environment.                                                        *)

Older(age) == IF age < Interval THEN age + 1 ELSE age

Tick ==
  /\ slot' = IF slot = None THEN None ELSE [slot EXCEPT !.age = Older(@)]
  /\ calls' = [c \in Calls |->
       IF calls[c].at \in {"stat", "import", "join", "joined"}
       THEN [calls[c] EXCEPT !.age = Older(@)] ELSE calls[c]]
  /\ UNCHANGED <<cache, minted, file, spent, first>>

Edit ==
  /\ Spend
  /\ file' = file + 1
  /\ UNCHANGED <<cache, minted, slot, calls, first>>

----------------------------------------------------------------------------
(* Properties.                                                             *)

\* The cache holds one entry a session within its bound, the block of a session
\* is the one first minted for it, never a second, and a load the slot names, or
\* a call has joined, is under way.  (Two sessions first used in the same
\* millisecond do have the same block: hexTime12 of the clock.)
FormatterTypeOK ==
  /\ Len(cache) <= MaxEntries
  /\ \A i, j \in DOMAIN cache : cache[i].session = cache[j].session => i = j
  /\ minted \in [Sessions -> {0} \union Moments] /\ minted = first
  /\ slot # None => slot.loading = None \/ calls[slot.loading].at = "import"
  /\ \A c \in Calls : calls[c].at = "join" => calls[calls[c].of].at = "import"

Answers == {calls[c] : c \in {d \in Calls : calls[d].at = "answered"}}

\* Every call is answered with what the configuration it was made with makes of
\* its session, however the configuration changed while a script was loading,
\* or since the value was cached; and with the block first minted for it,
\* whichever generator asked first, however often the value was evicted and the
\* script came and went (minted: retained for the process lifetime).
AnswersItsConfig ==
  \A a \in Answers :
    IF a.value = None THEN a.config.onInvalid = "drop"
    ELSE /\ a.value.of = a.session
         /\ a.value.by \in IF a.config.mode = "passthrough" THEN {"raw"}
                           ELSE {"ses"} \union ({a.config.mode} \ {"ses-derive"})
         /\ a.value.by # "raw" => a.value.hex = IF a.config.time = "hash" THEN 0 ELSE first[a.session]
         /\ a.config.onInvalid = "drop" => a.value.by \in a.config.accepts
=============================================================================
