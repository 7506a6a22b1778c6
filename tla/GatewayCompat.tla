---------------------------- MODULE GatewayCompat ----------------------------
(***************************************************************************)
(* The gateway compat fields (src/compat/gateway): which of them a route   *)
(* offers, how a stored value reads as a selection of the panel, and what  *)
(* a batch of selections writes.  The registry has eighteen fields; the    *)
(* ones here stand for their kinds and for the offers a protocol makes.    *)
(* A stored value is named by a string; "absent" is a field not stored.    *)
(***************************************************************************)

CONSTANTS
  Fields,      \* the registered fields a route is looked at for
  Declared,    \* those the running host's schema and version declare
  Apis         \* the protocols a route may have, "undeclared" for one without

Kind == [supportsDeveloperRole |-> "boolean", thinkingTokenBudgetField |-> "enum",
         vllmPriority |-> "number", supportsMaxOutputTokens |-> "boolean"]

Protocols == [supportsDeveloperRole |-> {"completions", "responses"},
              thinkingTokenBudgetField |-> {"completions"},
              vllmPriority |-> {"completions"},
              supportsMaxOutputTokens |-> {"responses"}]

ASSUME FieldsAreRegistered == Fields \subseteq DOMAIN Kind /\ Declared \subseteq Fields

\* fieldsForApi: a route that declares no protocol, or one that offers nothing,
\* keeps every field.
Offered(api) ==
  LET offered == {f \in Fields : api \in Protocols[f]}
  IN  IF offered = {} THEN Fields ELSE offered

\* A mutant of Available: the route's protocol is not asked.
AvailableToAny(api) == Declared

\* editableProviderCompatFields, as the views ask it: with the route's protocol.
Available(api) == Declared \cap Offered(api)

\* What the controls of a field let the user choose.  A number box hands over
\* whatever number was typed.
Selections(f) ==
  {"auto"} \union CASE Kind[f] = "boolean" -> {"supported", "unsupported"}
                    [] Kind[f] = "enum" -> {"thinking_budget"}
                    [] Kind[f] = "number" -> {"7", "1.5"}

\* selectionFor.
Selection(stored) ==
  CASE stored = "absent" -> "auto"
    [] stored = "true" -> "supported"
    [] stored = "false" -> "unsupported"
    [] OTHER -> stored

\* fieldValue: a fraction is none that DSH's schema takes.
Writable(selection) == selection # "1.5"

StoredAs(selection) ==
  CASE selection = "auto" -> "absent"
    [] selection = "supported" -> "true"
    [] selection = "unsupported" -> "false"
    [] OTHER -> selection

\* opsForProviderCompat, opsForModelCompat, opsForModelArrayCompat: one selection
\* that cannot be written leaves the batch without an op.  The editability they
\* are given is asked without a protocol.
OpsFor(update) ==
  IF \A f \in DOMAIN update : f \in Declared /\ Writable(update[f])
    THEN [f \in DOMAIN update |-> StoredAs(update[f])]
    ELSE [f \in {} |-> "absent"]

\* What a field may be stored as.
Stored(f) == {StoredAs(s) : s \in {t \in Selections(f) : Writable(t)}}
=============================================================================
