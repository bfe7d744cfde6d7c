-------------------------------- MODULE Rules --------------------------------
(***************************************************************************)
(* Download rules: rules.rs and commands/rules.rs.  The rules table holds  *)
(* global rows and per-show overrides, one row per key; a show's rules are *)
(* the defaults, overlaid by the global rows, overlaid by its own.         *)
(*                                                                         *)
(* Any number of commands edit the table at the same time: `rules set`     *)
(* reads and validates first and writes in a later transaction, `rules     *)
(* reset` and the "always" answer write without a look at the rest.        *)
(***************************************************************************)
EXTENDS Integers, Sequences

CONSTANTS
    Shows,
    Editors,        \* `rules set` commands that may run at the same time
    Edits,          \* <<target, key, value>>: what the user may set
    Resets,         \* <<target, keys>>: what the user may reset
    Unset           \* no row for this key

Global  == "global"
Targets == Shows \cup {Global}

\* Rules::default, for the keys that validate or the scorer read.
Default ==
    [groups |-> <<>>, preferred_resolution |-> 4, min_resolution |-> 3,
     codecs_blocked |-> {}, preferred_languages |-> {},
     min_size_mb |-> 100, max_size_mb |-> 4096,
     seed_auto_threshold |-> 10, seed_ask_min |-> 1, seed_ask_max |-> 9,
     prefer_batch_when_finished |-> TRUE]

Keys == DOMAIN Default

\* What a rule of each key may say.
RuleType ==
    [groups |-> Seq(STRING), preferred_resolution |-> Nat, min_resolution |-> Nat,
     codecs_blocked |-> SUBSET STRING, preferred_languages |-> SUBSET STRING,
     min_size_mb |-> Nat, max_size_mb |-> Nat,
     seed_auto_threshold |-> Nat, seed_ask_min |-> Nat, seed_ask_max |-> Nat,
     prefer_batch_when_finished |-> BOOLEAN]

ASSUME RulesAssumption ==
    /\ Global \notin Shows
    /\ \A e \in Edits : e[1] \in Targets /\ e[2] \in Keys /\ e[3] \in RuleType[e[2]] \ {Unset}
    /\ \A r \in Resets : r[1] \in Targets /\ r[2] \subseteq Keys

VARIABLES
    rows,       \* the rules table: [Targets -> [Keys -> value or Unset]]
    editor,     \* what each command has validated and not yet written
    unchecked   \* history: targets whose rules changed unchecked

rulesVars == <<rows, editor, unchecked>>

Overlay(below, above) ==
    [k \in Keys |-> IF above[k] = Unset THEN below[k] ELSE above[k]]

\* get_rules: Rules::global or Rules::for_show.
get_rules(t) ==
    LET global == Overlay(Default, rows[Global])
    IN  IF t = Global THEN global ELSE Overlay(global, rows[t])

validate(r) ==
    /\ r.seed_ask_min <= r.seed_ask_max
    /\ r.seed_auto_threshold >= r.seed_ask_max
    /\ r.min_size_mb < r.max_size_mb

\* The targets whose effective rules a write to key k of target t changes.
Affected(t, k) ==
    IF t # Global THEN {t}
    ELSE {Global} \cup {s \in Shows : rows[s][k] = Unset}

\* Mutant: only the new value is looked at, not the rules it goes into.
update_rule_read_unvalidated(p, t, k, v) ==
    /\ editor[p] = {}
    /\ editor' = [editor EXCEPT ![p] = {[target |-> t, key |-> k, value |-> v,
                                         seen |-> get_rules(t)]}]
    /\ UNCHANGED <<rows, unchecked>>

\* update_rule: the new value, in the effective rules of its own target, must
\* be valid.
update_rule_read(p, t, k, v) ==
    /\ editor[p] = {}
    /\ validate([get_rules(t) EXCEPT ![k] = v])
    /\ editor' = [editor EXCEPT ![p] = {[target |-> t, key |-> k, value |-> v,
                                         seen |-> get_rules(t)]}]
    /\ UNCHANGED <<rows, unchecked>>

\* update_rule: the INSERT ... ON CONFLICT DO UPDATE of a later transaction.
update_rule_write(p) ==
    \E w \in editor[p] :
        /\ rows' = [rows EXCEPT ![w.target][w.key] = w.value]
        /\ editor' = [editor EXCEPT ![p] = {}]
        /\ LET checked == IF get_rules(w.target) = w.seen THEN {w.target} ELSE {}
           IN  unchecked' = (unchecked \cup Affected(w.target, w.key)) \ checked

\* reset_rule: one key or all of them.
reset_rule(t, keys) ==
    /\ \E k \in keys : rows[t][k] # Unset
    /\ rows' = [rows EXCEPT ![t] = [k \in Keys |-> IF k \in keys THEN Unset ELSE @[k]]]
    /\ unchecked' = unchecked \cup UNION {Affected(t, k) : k \in keys}
    /\ UNCHANGED editor

\* set_override, by an "always" answer to a match review.  The write of a key
\* that validate does not read needs no check.
set_override(s, k, v) ==
    rows' = [rows EXCEPT ![s][k] = v]

RulesInit ==
    /\ rows = [t \in Targets |-> [k \in Keys |-> Unset]]
    /\ editor = [p \in Editors |-> {}]
    /\ unchecked = {}

RulesNext ==
    \/ \E p \in Editors, e \in Edits : update_rule_read(p, e[1], e[2], e[3])
    \/ \E p \in Editors : update_rule_write(p)
    \/ \E r \in Resets : reset_rule(r[1], r[2])

RulesTypeOK ==
    /\ DOMAIN rows = Targets /\ \A t \in Targets : DOMAIN rows[t] = Keys
    /\ \A p \in Editors : \A w \in editor[p] : w.target \in Targets /\ w.key \in Keys
    /\ unchecked \subseteq Targets

\* update_rule validates "against full effective rules": the rules of a target
\* whose last change was checked against the rules it went into are valid.  The
\* exceptions are the exact ways around the check: a reset, a global change
\* below an override, and a change by another command since the check.
CheckedRulesValid ==
    \A t \in Targets : t \notin unchecked => validate(get_rules(t))

=============================================================================
