---------------------------- MODULE SessionHeader ----------------------------
(***************************************************************************)
(* The request bridge of src/host/opencode-session.ts: streams opened for  *)
(* a model that asked for the header run under an AsyncLocalStorage, and a *)
(* patched global fetch asks the formatter for a value on behalf of the    *)
(* stream it runs under.  Composed with SessionFormatter, whose calls are  *)
(* these fetches.                                                          *)
(*                                                                         *)
(* A fetch that is passed on as it came changes nothing here: one outside  *)
(* every stream, of a stream that ended, or that carries a header of its   *)
(* own.  So does the `user-agent` override.  AsyncLocalStorage is external *)
(* (run turns a disabled storage on again, as its documentation says), as  *)
(* are the patches other code puts over this one.                          *)
(***************************************************************************)
EXTENDS SessionFormatter

CONSTANTS
  Streams,     \* streams that may be open at once
  Starts       \* the format configurations the settings start with

VARIABLES
  snapshot,    \* settingsSnapshot: the switch and the format configuration
  streams,     \* the session each wrapped stream is of, while it is active
  storageOn,   \* the storage answers getStore
  patched,     \* a fetch passes through patchedFetch
  covered,     \* another patch lies over it
  installed,   \* the effect has not been disposed
  left         \* history: the patch was covered when it was disposed

bridge == <<snapshot, streams, storageOn, patched, covered, installed, left>>
allVars == <<formatter, bridge>>

\* resolveFormatConfig of settings that say nothing.
DefaultConfig == [mode |-> "ses-derive", time |-> "firstUse", text |-> "empty",
                  accepts |-> Generators, onInvalid |-> "warn"]

ASSUME HeaderConstants == DefaultConfig \in Configs /\ Starts \subseteq Configs

HeaderInit ==
  /\ FormatterInit
  /\ snapshot \in [on : {TRUE}, format : Starts]
  /\ streams = [s \in Streams |-> None]
  /\ storageOn = FALSE /\ patched = TRUE /\ covered = FALSE /\ installed = TRUE /\ left = FALSE

\* onChange, after a change of the section.
SettingsChange(on, format) ==
  /\ installed /\ Spend
  /\ snapshot' = [on |-> on, format |-> format]
  /\ UNCHANGED <<cache, minted, slot, file, calls, first, streams, storageOn, patched, covered,
                 installed, left>>

\* The llm/stream listener, and the stream's first step: the switch counts as
\* it stands when the stream is opened.  One that is off leaves it as it is.
StreamOpens(s, session) ==
  /\ installed /\ snapshot.on /\ streams[s] = None
  /\ streams' = [streams EXCEPT ![s] = session]
  /\ storageOn' = TRUE
  /\ UNCHANGED <<formatter, snapshot, patched, covered, installed, left>>

\* next, return or throw of the wrapped iterator runs under the storage, and
\* what it leaves running keeps the context.
StreamRuns(s) ==
  /\ streams[s] # None
  /\ storageOn' = TRUE
  /\ UNCHANGED <<formatter, snapshot, streams, patched, covered, installed, left>>

\* A result that is done, an error, or the answer of return: deactivate.
StreamEnds(s) ==
  /\ streams[s] # None
  /\ streams' = [streams EXCEPT ![s] = None]
  /\ UNCHANGED <<formatter, snapshot, storageOn, patched, covered, installed, left>>

\* fetchWithSession, under the context of stream s: in the middle of a step, or
\* from what a step left running.  The format counts as it stands now.
Fetch(c, s) ==
  /\ patched /\ storageOn
  /\ streams[s] # None
  /\ calls[c] = Idle
  /\ \/ FormatHits(c, streams[s], snapshot.format)
     \/ FormatComputes(c, streams[s], snapshot.format)
     \/ FormatAsksScript(c, streams[s], snapshot.format)
  /\ UNCHANGED bridge

Calling(c) == Formats(c) /\ UNCHANGED bridge

\* The request goes out with its value.
GoesOut(c) ==
  /\ calls[c].at = "answered"
  /\ calls' = [calls EXCEPT ![c] = Idle]
  /\ UNCHANGED <<cache, minted, slot, file, spent, first, bridge>>

\* A mutant of Restored: disposing leaves the patch in place.
RestoredNever == patched

\* Only a patch that is on top can be taken off.
Restored == patched /\ covered

\* The disposers of the effect and of the section.
Dispose ==
  /\ installed
  /\ installed' = FALSE
  /\ storageOn' = FALSE
  /\ patched' = Restored /\ left' = covered
  /\ snapshot' = [on |-> FALSE, format |-> DefaultConfig]
  /\ UNCHANGED <<formatter, streams, covered>>

\* Another patch is put over the one there is, or takes itself off again.
OthersPatch ==
  /\ covered' = ~covered
  /\ Spend
  /\ UNCHANGED <<cache, minted, slot, file, calls, first, snapshot, streams, storageOn, patched,
                 installed, left>>

Environment == (Tick \/ Edit) /\ UNCHANGED bridge

HeaderNext ==
  \/ \E on \in BOOLEAN, format \in Configs : SettingsChange(on, format)
  \/ \E s \in Streams :
       \/ \E session \in Sessions : StreamOpens(s, session)
       \/ StreamRuns(s) \/ StreamEnds(s)
       \/ \E c \in Calls : Fetch(c, s)
  \/ \E c \in Calls : Calling(c) \/ GoesOut(c)
  \/ Dispose \/ OthersPatch
  \/ Environment

HeaderSpec == HeaderInit /\ [][HeaderNext]_allVars

\* Stats and imports are answered, continuations run, and time passes.
HeaderFairSpec ==
  /\ HeaderSpec
  /\ \A c \in Calls : WF_allVars(Calling(c)) /\ WF_allVars(GoesOut(c))
  /\ WF_allVars(Tick /\ UNCHANGED bridge)

----------------------------------------------------------------------------
(* Properties.                                                             *)

Asks(c) == calls[c] = Idle /\ calls'[c] # Idle

\* Values are asked for while the bridge is installed.  After it was disposed
\* that can only be on behalf of a stream opened before, with the default format,
\* and only if another patch lay over this one when it was: the patch is left in
\* place then, and such a stream goes on turning the storage on (the effect's
\* disposer: `globalThis.fetch === patchedFetch`).
InjectsWhileInstalled ==
  [][\A c \in Calls : Asks(c) => installed \/ (left /\ snapshot.format = DefaultConfig)]_allVars

\* "restores only its own fetch patch and stops injecting after disposal"
\* (tests/opencode-session.test.ts:458): no value is asked for once the bridge
\* has been disposed, the case of a patch that lay over it then included.
StopsInjecting == [][\A c \in Calls : Asks(c) => installed]_allVars

\* The script in use becomes the one on disk, once it is edited no more and
\* reading it fails no more, as long as values are asked of it: whatever
\* overlapped and failed before.
AsksScript == \E c \in Calls : Asks(c) /\ calls'[c].at # "answered"
Fails == \E c \in Calls : StatFails(c) \/ ImportFails(c)

ScriptCatchesUp ==
  []<><<AsksScript>>_allVars => []<><<Fails>>_allVars \/ <>[](slot # None /\ slot.module = file)
=============================================================================
