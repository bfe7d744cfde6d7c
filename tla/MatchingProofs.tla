--------------------------- MODULE MatchingProofs ---------------------------
(***************************************************************************)
(* Rules that were checked are valid, a torrent chosen without a question  *)
(* is the right one, and "nothing usable" is true of what was found, for   *)
(* any shows, releases, swarms, rules and any number of searches.          *)
(***************************************************************************)
EXTENDS Matching, FiniteSetTheorems, TLAPS

-----------------------------------------------------------------------------
(* Sorting.                                                                *)

\* before gives every element of S those before it in a strict total order.
Orders(before, S) ==
    /\ before \in [S -> SUBSET S]
    /\ \A t \in S : t \notin before[t]
    /\ \A t, u \in S : t # u => t \in before[u] \/ u \in before[t]
    /\ \A t, u \in S : t \in before[u] => before[t] \subseteq before[u]

\* Every element of S has a number of its own, its place in the order, and
\* every number up to the size of S is the place of one.
LEMMA Places ==
    ASSUME NEW S, IsFiniteSet(S), NEW before, Orders(before, S)
    PROVE  LET place == [t \in S |-> Cardinality(before[t])]
           IN  /\ place \in [S -> 0 .. Cardinality(S) - 1]
               /\ \A t, u \in S : place[t] = place[u] => t = u
               /\ \A k \in 0 .. Cardinality(S) - 1 : \E t \in S : place[t] = k
<1> DEFINE place == [t \in S |-> Cardinality(before[t])]
           n     == Cardinality(S)
<1>1. n \in Nat
  BY FS_CardinalityType
<1>2. ASSUME NEW t \in S
      PROVE  /\ IsFiniteSet(before[t]) /\ Cardinality(before[t]) \in Nat
             /\ Cardinality(before[t]) < n
  <2>1. before[t] \in SUBSET S /\ t \notin before[t]
    BY DEF Orders
  <2>2. /\ IsFiniteSet(before[t]) /\ Cardinality(before[t]) <= n
        /\ n = Cardinality(before[t]) => S = before[t]
    BY <2>1, FS_Subset
  <2>3. Cardinality(before[t]) \in Nat
    BY <2>2, FS_CardinalityType
  <2> QED
    BY <1>1, <2>1, <2>2, <2>3
<1>3. place \in [S -> 0 .. n - 1]
  BY <1>1, <1>2
<1>4. ASSUME NEW t \in S, NEW u \in S, t \in before[u]
      PROVE  Cardinality(before[t]) < Cardinality(before[u])
  <2>1. before[t] \in SUBSET before[u] /\ t \notin before[t]
    BY <1>4 DEF Orders
  <2>2. /\ Cardinality(before[t]) <= Cardinality(before[u])
        /\ Cardinality(before[u]) = Cardinality(before[t]) => before[u] = before[t]
    BY <2>1, <1>2, FS_Subset
  <2> QED
    BY <1>2, <1>4, <2>1, <2>2
<1>5. ASSUME NEW t \in S, NEW u \in S, place[t] = place[u]
      PROVE  t = u
  <2>1. ASSUME t # u PROVE FALSE
    <3>1. t \in before[u] \/ u \in before[t]
      BY <2>1 DEF Orders
    <3> QED
      BY <1>2, <1>4, <1>5, <3>1
  <2> QED
    BY <2>1
<1>6. IsFiniteSet(0 .. n - 1) /\ Cardinality(0 .. n - 1) = n
  BY <1>1, FS_Interval
<1>7. place \in Injection(S, 0 .. n - 1)
  BY <1>3, <1>5 DEF Injection, IsInjective
<1>8. place \in Surjection(S, 0 .. n - 1)
  BY <1>6, <1>7, FS_Injection
<1> QED
  BY <1>3, <1>5, <1>8 DEF Surjection

\* Sorted puts each element at its place.
LEMMA SortedPlaces ==
    ASSUME NEW S, IsFiniteSet(S), NEW before, Orders(before, S)
    PROVE  /\ Sorted(S, before) \in Seq(S) /\ Len(Sorted(S, before)) = Cardinality(S)
           /\ \A t \in S : /\ Cardinality(before[t]) \in 0 .. Cardinality(S) - 1
                           /\ Sorted(S, before)[Cardinality(before[t]) + 1] = t
<1> DEFINE place == [t \in S |-> Cardinality(before[t])]
           n     == Cardinality(S)
           at(k) == CHOOSE t \in S : Cardinality(before[t]) = k - 1
<1>1. n \in Nat
  BY FS_CardinalityType
<1>2. /\ place \in [S -> 0 .. n - 1]
      /\ \A t, u \in S : place[t] = place[u] => t = u
      /\ \A k \in 0 .. n - 1 : \E t \in S : place[t] = k
  BY Places
<1>3. ASSUME NEW k \in 1 .. n
      PROVE  at(k) \in S /\ Cardinality(before[at(k)]) = k - 1
  <2>1. \E t \in S : Cardinality(before[t]) = k - 1
    BY <1>1, <1>2
  <2> QED
    BY <2>1
<1>4. Sorted(S, before) = [k \in 1 .. n |-> at(k)]
  BY DEF Sorted
<1>5. Sorted(S, before) \in Seq(S) /\ Len(Sorted(S, before)) = n
  BY <1>1, <1>3, <1>4
<1>6. ASSUME NEW t \in S
      PROVE  /\ Cardinality(before[t]) \in 0 .. n - 1
             /\ Sorted(S, before)[Cardinality(before[t]) + 1] = t
  <2>1. Cardinality(before[t]) \in 0 .. n - 1
    BY <1>2
  <2>2. Cardinality(before[t]) + 1 \in 1 .. n
    BY <1>1, <2>1
  <2> HIDE DEF at
  <2>3. at(Cardinality(before[t]) + 1) \in S
        /\ Cardinality(before[at(Cardinality(before[t]) + 1)]) = Cardinality(before[t])
    BY <1>1, <1>3, <2>1, <2>2
  <2>4. at(Cardinality(before[t]) + 1) = t
    BY <1>2, <2>3
  <2> QED
    BY <1>4, <2>1, <2>2, <2>4
<1> QED
  BY <1>5, <1>6

\* Truncated keeps the first n.
LEMMA TruncatedKeeps ==
    ASSUME NEW S, NEW s \in Seq(S), NEW n \in Nat
    PROVE  /\ Truncated(s, n) \in Seq(S)
           /\ Len(Truncated(s, n)) = IF Len(s) < n THEN Len(s) ELSE n
           /\ \A i \in 1 .. Len(Truncated(s, n)) : Truncated(s, n)[i] = s[i]
  BY DEF Truncated

\* The first n of S: all of them, and none left out that has fewer than n
\* before it.
LEMMA FirstOnes ==
    ASSUME NEW S, IsFiniteSet(S), NEW before, Orders(before, S), NEW n \in Nat \ {0}
    PROVE  LET first == Truncated(Sorted(S, before), n)
           IN  /\ first \in Seq(S) /\ Elements(first) \subseteq S
               /\ first = <<>> => S = {}
               /\ \A t \in S : Cardinality(before[t]) < n => t \in Elements(first)
<1> DEFINE all == Sorted(S, before)  first == Truncated(Sorted(S, before), n)
<1>1. /\ all \in Seq(S) /\ Len(all) = Cardinality(S)
      /\ \A t \in S : /\ Cardinality(before[t]) \in 0 .. Cardinality(S) - 1
                      /\ all[Cardinality(before[t]) + 1] = t
  BY SortedPlaces
<1> HIDE DEF all
<1>2. Cardinality(S) \in Nat
  BY FS_CardinalityType
<1>3. /\ first \in Seq(S)
      /\ Len(first) = IF Len(all) < n THEN Len(all) ELSE n
      /\ \A i \in 1 .. Len(first) : first[i] = all[i]
  BY <1>1, TruncatedKeeps DEF all
<1> HIDE DEF first
<1>4. DOMAIN first = 1 .. Len(first) /\ \A i \in 1 .. Len(first) : first[i] \in S
  BY <1>3
<1>5. Elements(first) \subseteq S
  BY <1>4 DEF Elements
<1>6. ASSUME first = <<>> PROVE S = {}
  <2>1. Len(first) = 0
    BY <1>6
  <2>2. Cardinality(S) = 0
    BY <1>1, <1>2, <1>3, <2>1
  <2> QED
    BY <2>2, FS_EmptySet
<1>7. ASSUME NEW t \in S, Cardinality(before[t]) < n
      PROVE  t \in Elements(first)
  <2>1. Cardinality(before[t]) + 1 \in 1 .. Len(first)
    BY <1>1, <1>2, <1>3, <1>7
  <2>2. first[Cardinality(before[t]) + 1] = t
    BY <1>1, <1>3, <2>1
  <2> QED
    BY <1>4, <2>1, <2>2 DEF Elements
<1> QED
  BY <1>3, <1>5, <1>6, <1>7 DEF first

\* ByNumber sorts by a strict total order.
LEMMA ByNumberOrders ==
    ASSUME NEW S, S \subseteq Nat, NEW w, \A t \in S : w[t] \in Int
    PROVE  Orders([t \in S |-> {u \in S : w[u] > w[t] \/ (w[u] = w[t] /\ u < t)}], S)
<1> DEFINE before == [t \in S |-> {u \in S : w[u] > w[t] \/ (w[u] = w[t] /\ u < t)}]
<1>1. before \in [S -> SUBSET S]
  OBVIOUS
<1>2. \A t, u \in S : t \in before[u] <=> w[t] > w[u] \/ (w[t] = w[u] /\ t < u)
  OBVIOUS
<1> HIDE DEF before
<1>3. \A t \in S : t \notin before[t]
  BY <1>2
<1>4. \A t, u \in S : t # u => t \in before[u] \/ u \in before[t]
  BY <1>2
<1>5. ASSUME NEW t \in S, NEW u \in S, t \in before[u], NEW v \in before[t]
      PROVE  v \in before[u]
  <2>1. v \in S /\ v \in before[t]
    BY <1>1
  <2>2. /\ w[t] > w[u] \/ (w[t] = w[u] /\ t < u)
        /\ w[v] > w[t] \/ (w[v] = w[t] /\ v < t)
    BY <1>2, <1>5, <2>1
  <2>3. /\ w[t] \in Int /\ w[u] \in Int /\ w[v] \in Int
        /\ t \in Nat /\ u \in Nat /\ v \in Nat
    BY <2>1
  <2>4. w[v] > w[u] \/ (w[v] = w[u] /\ v < u)
    BY <2>2, <2>3
  <2> QED
    BY <1>2, <2>1, <2>4
<1>6. Orders(before, S)
  BY <1>1, <1>3, <1>4, <1>5 DEF Orders
<1> QED
  BY <1>6 DEF before

-----------------------------------------------------------------------------
(* Rules.                                                                  *)

AnyRule == {Unset} \cup UNION {RuleType[k] : k \in Keys}

Pending == [target : Targets, key : Keys, value : AnyRule, seen : [Keys -> AnyRule]]

\* The rows and the edits under way have their types, and each edit was valid
\* in the rules it has seen.
RowsOK(R) ==
    /\ R \in [Targets -> [Keys -> AnyRule]]
    /\ \A t \in Targets, k \in Keys : R[t][k] \in RuleType[k] \cup {Unset}

EditOK(w) ==
    /\ w \in Pending /\ w.value \in RuleType[w.key] /\ w.value # Unset
    /\ validate([w.seen EXCEPT ![w.key] = w.value])

EditorsOK ==
    /\ editor \in [Editors -> SUBSET Pending]
    /\ \A p \in Editors : \A w \in editor[p] : EditOK(w)

RulesInv == RowsOK(rows) /\ EditorsOK /\ unchecked \subseteq Targets /\ CheckedRulesValid

\* The rules of t when the table holds R.
Effective(R, t) ==
    [k \in Keys |-> IF t # Global /\ R[t][k] # Unset THEN R[t][k]
                    ELSE IF R[Global][k] # Unset THEN R[Global][k] ELSE Default[k]]

LEMMA GetRules ==
    ASSUME NEW t
    PROVE  get_rules(t) = Effective(rows, t) /\ get_rules(t)' = Effective(rows', t)
<1>1. get_rules(t) = Effective(rows, t)
  <2>1. CASE t = Global
    BY <2>1 DEF get_rules, Overlay, Effective
  <2>2. CASE t # Global
    BY <2>2 DEF get_rules, Overlay, Effective
  <2> QED
    BY <2>1, <2>2
<1>2. get_rules(t)' = Effective(rows', t)
  <2>1. CASE t = Global
    BY <2>1 DEF get_rules, Overlay, Effective
  <2>2. CASE t # Global
    BY <2>2 DEF get_rules, Overlay, Effective
  <2> QED
    BY <2>1, <2>2
<1> QED
  BY <1>1, <1>2

LEMMA KeysAre ==
    Keys = {"groups", "preferred_resolution", "min_resolution", "codecs_blocked",
            "preferred_languages", "min_size_mb", "max_size_mb", "seed_auto_threshold",
            "seed_ask_min", "seed_ask_max", "prefer_batch_when_finished"}
  BY DEF Keys, Default

LEMMA DefaultTyped ==
    \A k \in Keys : Default[k] \in RuleType[k]
<1>1. <<>> \in Seq(STRING) /\ {} \in SUBSET STRING
  OBVIOUS
<1>2. ASSUME NEW k \in Keys PROVE Default[k] \in RuleType[k]
  <2>1. CASE k = "groups"
    BY <1>1, <2>1 DEF Default, RuleType
  <2>2. CASE k \in {"codecs_blocked", "preferred_languages"}
    BY <1>1, <2>2 DEF Default, RuleType
  <2>3. CASE k \in {"preferred_resolution", "min_resolution", "min_size_mb", "max_size_mb",
                     "seed_auto_threshold", "seed_ask_min", "seed_ask_max"}
    BY <2>3 DEF Default, RuleType
  <2>4. CASE k = "prefer_batch_when_finished"
    BY <2>4 DEF Default, RuleType
  <2> QED
    BY <2>1, <2>2, <2>3, <2>4, KeysAre
<1> QED
  BY <1>2

LEMMA AnyRuleHas ==
    ASSUME NEW k \in Keys, NEW v \in RuleType[k] \cup {Unset}
    PROVE  v \in AnyRule
<1>1. RuleType[k] \in {RuleType[j] : j \in Keys}
  OBVIOUS
<1> QED
  BY <1>1, Zenon DEF AnyRule

\* Rules are of their types, whatever the rows say.
LEMMA EffectiveTyped ==
    ASSUME NEW R, RowsOK(R), NEW t \in Targets
    PROVE  /\ Effective(R, t) \in [Keys -> AnyRule]
           /\ \A k \in Keys : Effective(R, t)[k] \in RuleType[k]
<1>1. Global \in Targets
  BY DEF Targets
<1>2. ASSUME NEW k \in Keys
      PROVE  Effective(R, t)[k] \in RuleType[k]
  BY <1>1, DefaultTyped DEF Effective, RowsOK
<1>3. ASSUME NEW k \in Keys
      PROVE  Effective(R, t)[k] \in AnyRule
  BY <1>2, AnyRuleHas
<1>4. Effective(R, t) = [k \in Keys |-> Effective(R, t)[k]]
  BY DEF Effective
<1> QED
  BY <1>2, <1>3, <1>4

\* validate does not read the groups.
LEMMA GroupsNeedNoCheck ==
    ASSUME NEW r, NEW q, \A k \in Keys \ {"groups"} : r[k] = q[k], validate(r)
    PROVE  validate(q)
  BY KeysAre DEF validate

LEMMA RulesStart ==
    ASSUME RulesInit PROVE RulesInv
<1>1. Unset \in AnyRule /\ Global \in Targets
  BY Zenon DEF AnyRule, Targets
<1>2. RowsOK(rows)
  BY <1>1 DEF RulesInit, RowsOK
<1>3. EditorsOK /\ unchecked \subseteq Targets
  BY DEF RulesInit, EditorsOK
<1>4. ASSUME NEW t \in Targets PROVE validate(get_rules(t))
  <2>1. \A k \in Keys : get_rules(t)[k] = Default[k]
    BY <1>1, GetRules DEF RulesInit, Effective
  <2> QED
    BY <2>1, KeysAre DEF validate, Default
<1> QED
  BY <1>2, <1>3, <1>4 DEF RulesInv, CheckedRulesValid

LEMMA ReadKeeps ==
    ASSUME RulesInv, NEW p \in Editors, NEW e \in Edits, update_rule_read(p, e[1], e[2], e[3])
    PROVE  RulesInv'
<1> DEFINE w == [target |-> e[1], key |-> e[2], value |-> e[3], seen |-> get_rules(e[1])]
<1>1. e[1] \in Targets /\ e[2] \in Keys /\ e[3] \in RuleType[e[2]] /\ e[3] # Unset
  BY RulesAssumption
<1>2. e[3] \in AnyRule
  BY <1>1, AnyRuleHas
<1>3. get_rules(e[1]) \in [Keys -> AnyRule]
  BY <1>1, GetRules, EffectiveTyped DEF RulesInv
<1>4. w \in Pending
  BY <1>1, <1>2, <1>3 DEF Pending
<1>5. EditOK(w)
  BY <1>1, <1>4 DEF EditOK, update_rule_read
<1>6. editor' = [editor EXCEPT ![p] = {w}] /\ UNCHANGED <<rows, unchecked>>
  BY DEF update_rule_read
<1> HIDE DEF w
<1>7. EditorsOK'
  BY <1>4, <1>5, <1>6 DEF RulesInv, EditorsOK
<1>8. RowsOK(rows)' /\ unchecked' \subseteq Targets
  BY <1>6 DEF RulesInv
<1>9. \A t \in Targets : get_rules(t)' = get_rules(t)
  BY <1>6, GetRules
<1>10. CheckedRulesValid'
  BY <1>6, <1>9 DEF RulesInv, CheckedRulesValid
<1> QED
  BY <1>7, <1>8, <1>10 DEF RulesInv

LEMMA WriteKeeps ==
    ASSUME RulesInv, NEW p \in Editors, update_rule_write(p)
    PROVE  RulesInv'
<1>1. PICK w \in editor[p] :
        /\ rows' = [rows EXCEPT ![w.target][w.key] = w.value]
        /\ editor' = [editor EXCEPT ![p] = {}]
        /\ unchecked' = (unchecked \cup Affected(w.target, w.key))
                        \ (IF get_rules(w.target) = w.seen THEN {w.target} ELSE {})
  BY DEF update_rule_write
<1>2. EditOK(w) /\ w.target \in Targets /\ w.key \in Keys /\ w.value \in AnyRule
  BY DEF RulesInv, EditorsOK, EditOK, Pending
<1>3. w.value \in RuleType[w.key] /\ w.value # Unset
  BY <1>2 DEF EditOK
<1>4. rows \in [Targets -> [Keys -> AnyRule]]
      /\ \A t \in Targets, k \in Keys : rows[t][k] \in RuleType[k] \cup {Unset}
  BY DEF RulesInv, RowsOK
<1>5. \A t \in Targets, k \in Keys :
        rows'[t][k] = IF t = w.target /\ k = w.key THEN w.value ELSE rows[t][k]
  BY <1>1, <1>2, <1>4
<1>6. RowsOK(rows)'
  <2>1. rows' \in [Targets -> [Keys -> AnyRule]]
    BY <1>1, <1>2, <1>4
  <2> QED
    BY <1>3, <1>4, <1>5, <2>1 DEF RowsOK
<1>7. EditorsOK'
  BY <1>1 DEF RulesInv, EditorsOK
<1>8. Affected(w.target, w.key) \subseteq Targets
  BY <1>2 DEF Affected, Targets
<1>9. unchecked' \subseteq Targets
  BY <1>1, <1>8 DEF RulesInv
<1>10. ASSUME NEW t \in Targets, t \notin unchecked'
       PROVE  validate(get_rules(t)')
  <2>1. CASE t \in Affected(w.target, w.key)
    <3>1. get_rules(w.target) = w.seen /\ t = w.target
      BY <1>1, <1>10, <2>1
    <3>2. w.seen \in [Keys -> AnyRule]
      BY <1>2 DEF EditOK, Pending
    <3>3. \A k \in Keys :
            get_rules(t)'[k] = IF k = w.key THEN w.value ELSE get_rules(t)[k]
      BY <1>2, <1>3, <1>5, <3>1, GetRules DEF Effective, Targets
    <3>4. \A k \in Keys : get_rules(t)'[k] = [w.seen EXCEPT ![w.key] = w.value][k]
      BY <1>2, <3>1, <3>2, <3>3
    <3>5. validate([w.seen EXCEPT ![w.key] = w.value])
      BY <1>2 DEF EditOK
    <3> QED
      BY <3>4, <3>5, GroupsNeedNoCheck
  <2>2. CASE t \notin Affected(w.target, w.key)
    <3>1. t \notin unchecked
      BY <1>1, <1>10, <2>2 DEF Affected
    <3>2. \A k \in Keys : get_rules(t)'[k] = get_rules(t)[k]
      <4>1. CASE w.target = Global
        <5>1. t \in Shows /\ t # Global /\ rows[t][w.key] # Unset
          BY <2>2, <4>1, RulesAssumption DEF Affected, Targets
        <5> QED
          BY <1>2, <1>5, <4>1, <5>1, GetRules DEF Effective, Targets
      <4>2. CASE w.target # Global
        <5>1. t # w.target
          BY <2>2, <4>2 DEF Affected
        <5> QED
          BY <1>5, <4>2, <5>1, GetRules DEF Effective, Targets
      <4> QED
        BY <4>1, <4>2
    <3>3. validate(get_rules(t))
      BY <3>1 DEF RulesInv, CheckedRulesValid
    <3> QED
      BY <3>2, <3>3, GroupsNeedNoCheck
  <2> QED
    BY <2>1, <2>2
<1>11. CheckedRulesValid'
  BY <1>10 DEF CheckedRulesValid
<1> QED
  BY <1>6, <1>7, <1>9, <1>11 DEF RulesInv

LEMMA ResetKeeps ==
    ASSUME RulesInv, NEW r \in Resets, reset_rule(r[1], r[2])
    PROVE  RulesInv'
<1> DEFINE a == r[1]  keys == r[2]
<1>1. a \in Targets /\ keys \subseteq Keys
  BY RulesAssumption
<1>2. /\ \E k \in keys : rows[a][k] # Unset
      /\ rows' = [rows EXCEPT ![a] = [k \in Keys |-> IF k \in keys THEN Unset ELSE @[k]]]
      /\ unchecked' = unchecked \cup UNION {Affected(a, k) : k \in keys}
      /\ editor' = editor
  BY DEF reset_rule
<1> HIDE DEF a, keys
<1>3. rows \in [Targets -> [Keys -> AnyRule]]
      /\ \A t \in Targets, k \in Keys : rows[t][k] \in RuleType[k] \cup {Unset}
  BY DEF RulesInv, RowsOK
<1>4. Unset \in AnyRule
  BY Zenon DEF AnyRule
<1>5. \A t \in Targets, k \in Keys :
        rows'[t][k] = IF t = a /\ k \in keys THEN Unset ELSE rows[t][k]
  BY <1>1, <1>2, <1>3
<1>6. RowsOK(rows)'
  <2>1. rows' \in [Targets -> [Keys -> AnyRule]]
    BY <1>1, <1>2, <1>3, <1>4
  <2> QED
    BY <1>3, <1>5, <2>1 DEF RowsOK
<1>7. EditorsOK'
  BY <1>2 DEF RulesInv, EditorsOK
<1>8. \A k \in keys : Affected(a, k) \subseteq unchecked'
  BY <1>2, Zenon
<1>9. \A k \in keys : Affected(a, k) \subseteq Targets
  BY <1>1 DEF Affected, Targets
<1>10. unchecked' \subseteq Targets
  BY <1>2, <1>9 DEF RulesInv
<1>11. ASSUME NEW t \in Targets, t \notin unchecked'
       PROVE  validate(get_rules(t)')
  <2>1. t \notin unchecked
    BY <1>2, <1>11
  <2>2. \A k \in keys : t \notin Affected(a, k)
    BY <1>8, <1>11
  <2>3. PICK j \in keys : rows[a][j] # Unset
    BY <1>2
  <2>4. \A k \in Keys : get_rules(t)'[k] = get_rules(t)[k]
    <3>1. CASE a = Global
      <4>1. t \in Shows /\ t # Global /\ \A k \in keys : rows[t][k] # Unset
        BY <2>2, <2>3, <3>1, RulesAssumption DEF Affected, Targets
      <4> QED
        BY <1>1, <1>5, <3>1, <4>1, GetRules DEF Effective, Targets
    <3>2. CASE a # Global
      <4>1. t # a
        BY <2>2, <2>3, <3>2 DEF Affected
      <4> QED
        BY <1>5, <3>2, <4>1, GetRules DEF Effective, Targets
    <3> QED
      BY <3>1, <3>2
  <2>5. validate(get_rules(t))
    BY <2>1 DEF RulesInv, CheckedRulesValid
  <2> QED
    BY <2>4, <2>5, GroupsNeedNoCheck
<1>12. CheckedRulesValid'
  BY <1>11 DEF CheckedRulesValid
<1> QED
  BY <1>6, <1>7, <1>10, <1>12 DEF RulesInv

\* The "always" answer writes a key no check reads.
LEMMA AlwaysKeeps ==
    ASSUME RulesInv, NEW s \in Shows, NEW g \in STRING,
           set_override(s, "groups", <<g>>), UNCHANGED <<editor, unchecked>>
    PROVE  RulesInv'
<1>1. s \in Targets /\ "groups" \in Keys /\ <<g>> \in RuleType["groups"]
  BY KeysAre DEF Targets, RuleType
<1>2. <<g>> \in AnyRule
  BY <1>1, AnyRuleHas
<1>3. rows \in [Targets -> [Keys -> AnyRule]]
      /\ \A t \in Targets, k \in Keys : rows[t][k] \in RuleType[k] \cup {Unset}
  BY DEF RulesInv, RowsOK
<1>4. rows' = [rows EXCEPT ![s]["groups"] = <<g>>]
  BY DEF set_override
<1>5. \A t \in Targets, k \in Keys :
        rows'[t][k] = IF t = s /\ k = "groups" THEN <<g>> ELSE rows[t][k]
  BY <1>1, <1>3, <1>4
<1>6. RowsOK(rows)'
  <2>1. rows' \in [Targets -> [Keys -> AnyRule]]
    BY <1>1, <1>2, <1>3, <1>4
  <2> QED
    BY <1>1, <1>3, <1>5, <2>1 DEF RowsOK
<1>7. EditorsOK'
  BY DEF RulesInv, EditorsOK
<1>8. ASSUME NEW t \in Targets, t \notin unchecked'
      PROVE  validate(get_rules(t)')
  <2>1. \A k \in Keys \ {"groups"} : get_rules(t)'[k] = get_rules(t)[k]
    BY <1>5, GetRules DEF Effective, Targets
  <2>2. validate(get_rules(t))
    BY <1>8 DEF RulesInv, CheckedRulesValid
  <2> QED
    BY <2>1, <2>2, GroupsNeedNoCheck
<1>9. CheckedRulesValid'
  BY <1>8 DEF CheckedRulesValid
<1> QED
  BY <1>6, <1>7, <1>9 DEF RulesInv

LEMMA RulesStutter ==
    ASSUME RulesInv, UNCHANGED rulesVars PROVE RulesInv'
<1>1. rows' = rows /\ editor' = editor /\ unchecked' = unchecked
  BY DEF rulesVars
<1>2. RowsOK(rows)' /\ EditorsOK' /\ unchecked' \subseteq Targets
  BY <1>1 DEF RulesInv, EditorsOK
<1>3. \A t \in Targets : get_rules(t)' = get_rules(t)
  BY <1>1, GetRules
<1> QED
  BY <1>1, <1>2, <1>3 DEF RulesInv, CheckedRulesValid

LEMMA RulesNextKeeps ==
    ASSUME RulesInv, RulesNext PROVE RulesInv'
<1>1. CASE \E p \in Editors, e \in Edits : update_rule_read(p, e[1], e[2], e[3])
  BY <1>1, ReadKeeps
<1>2. CASE \E p \in Editors : update_rule_write(p)
  BY <1>2, WriteKeeps
<1>3. CASE \E r \in Resets : reset_rule(r[1], r[2])
  BY <1>3, ResetKeeps
<1> QED
  BY <1>1, <1>2, <1>3 DEF RulesNext

-----------------------------------------------------------------------------
(* The operators of a choice.                                              *)

\* A nonempty set of numbers has a least one.
LEMMA MinOf ==
    ASSUME NEW S, S \subseteq Nat, S # {}
    PROVE  Min(S) \in S
<1>1. PICK n \in S : TRUE
  OBVIOUS
<1> DEFINE T == {m \in S : m <= n}
           w == [m \in T |-> 0]
           before == [t \in T |-> {u \in T : w[u] > w[t] \/ (w[u] = w[t] /\ u < t)}]
<1>2. T \subseteq Nat /\ n \in Nat /\ n \in T
  <2>1. n \in S /\ n \in Nat
    BY <1>1
  <2>2. n <= n
    BY <2>1
  <2> QED
    BY <2>1, <2>2
<1>3. IsFiniteSet(T)
  BY <1>2, FS_BoundedSetOfNaturals
<1>4. Orders(before, T)
  <2>1. \A t \in T : w[t] \in Int
    OBVIOUS
  <2> HIDE DEF T, w
  <2> QED
    BY <1>2, <2>1, ByNumberOrders
<1>5. 0 \in 0 .. Cardinality(T) - 1
  <2>1. Cardinality(T) \in Nat
    BY <1>3, FS_CardinalityType
  <2>2. Cardinality(T) # 0
    BY <1>2, <1>3, FS_EmptySet
  <2> QED
    BY <2>1, <2>2
<1>6. \E t \in T : Cardinality(before[t]) = 0
  <2> DEFINE place == [t \in T |-> Cardinality(before[t])]
  <2>1. \A k \in 0 .. Cardinality(T) - 1 : \E t \in T : place[t] = k
    <3> HIDE DEF T, before
    <3> QED
      BY <1>3, <1>4, Places
  <2> QED
    BY <1>5, <2>1
<1>7. PICK t \in T : Cardinality(before[t]) = 0
  BY <1>6
<1>8. before[t] = {}
  <2>1. before[t] \in SUBSET T
    BY <1>4 DEF Orders
  <2>2. IsFiniteSet(before[t])
    BY <1>3, <2>1, FS_Subset
  <2> QED
    BY <1>7, <2>2, FS_EmptySet
<1>9. \A u \in T : ~ (u < t)
  BY <1>8
<1>10. \A u \in S : t <= u
  BY <1>2, <1>9
<1> QED
  BY <1>10 DEF Min

\* ByNumber returns the elements of its set, and Truncated the first of them.
LEMMA FirstByNumber ==
    ASSUME NEW S, S \subseteq Torrents, NEW w, \A t \in S : w[t] \in Int, NEW n \in Nat \ {0}
    PROVE  LET first == Truncated(ByNumber(S, w), n)
           IN  first \in Seq(S) /\ Elements(first) \subseteq S /\ (first = <<>> => S = {})
<1> DEFINE before == [t \in S |-> {u \in S : w[u] > w[t] \/ (w[u] = w[t] /\ u < t)}]
<1>1. S \subseteq Nat /\ IsFiniteSet(S)
  BY MatchingAssumption, FS_Subset
<1>2. Orders(before, S)
  BY <1>1, ByNumberOrders
<1>3. ByNumber(S, w) = Sorted(S, before)
  BY DEF ByNumber
<1> HIDE DEF before
<1> QED
  BY <1>1, <1>2, <1>3, FirstOnes

RowType  == [show : Shows \cup {"none"}, seeders : Nat, at : 0 .. MaxSearches,
             rejected : BOOLEAN]
JobType  == [pc : {"search", "remember", "choose", "auto", "thin", "review", "batch_only",
                   "notfound", "answered"},
             todo : Seq(Torrents), chosen : Torrents \cup {None}, options : SUBSET Torrents]

MatchTypes ==
    /\ swarm \in [Torrents -> Nat] /\ table \in [Torrents -> RowType]
    /\ job \in [Shows -> JobType] /\ searches \in 0 .. MaxSearches
    /\ found \in [Shows -> SUBSET Torrents]

\* A search brings torrents.
LEMMA SearchBrings ==
    ASSUME MatchTypes, NEW queries \in Seq(SUBSET Torrents)
    PROVE  search_candidates(queries) \in Seq(Torrents)
<1>1. ASSUME NEW hits \in SUBSET Torrents
      PROVE  nyaa_search(hits) \subseteq Torrents
  <2> DEFINE alive == {t \in hits : swarm[t] >= 1}
  <2>1. alive \subseteq Torrents /\ PerName \in Nat \ {0}
    BY MatchingAssumption
  <2>2. \A t \in alive : swarm[t] \in Int
    BY DEF MatchTypes
  <2>3. nyaa_search(hits) = Elements(Truncated(ByNumber(alive, swarm), PerName))
    BY DEF nyaa_search
  <2> HIDE DEF alive
  <2> QED
    BY <2>1, <2>2, <2>3, FirstByNumber
<1> DEFINE answers(K) == UNION {nyaa_search(queries[k]) : k \in K}
           asked == {k \in DOMAIN queries : Cardinality(answers(1 .. k - 1)) < StopAfter}
<1>2. asked \subseteq DOMAIN queries
  OBVIOUS
<1>3. \A k \in DOMAIN queries : queries[k] \in SUBSET Torrents
  OBVIOUS
<1>4. search_candidates(queries) = Truncated(ByNumber(answers(asked), swarm), StopAfter)
  BY DEF search_candidates
<1> HIDE DEF asked
<1>5. answers(asked) \subseteq Torrents
  BY <1>1, <1>2, <1>3
<1> HIDE DEF answers
<1>6. \A t \in answers(asked) : swarm[t] \in Int
  BY <1>5 DEF MatchTypes
<1>7. StopAfter \in Nat \ {0}
  BY MatchingAssumption
<1>8. search_candidates(queries) \in Seq(answers(asked))
  BY <1>4, <1>5, <1>6, <1>7, FirstByNumber
<1> QED
  BY <1>5, <1>8

\* The rules a choice reads are of their types.
RulesTyped(rules) ==
    /\ rules.groups \in Seq(STRING) /\ rules.prefer_batch_when_finished \in BOOLEAN
    /\ rules.seed_auto_threshold \in Nat

LEMMA GetRulesTyped ==
    ASSUME RulesInv, NEW s \in Shows PROVE RulesTyped(get_rules(s))
<1>1. s \in Targets
  BY DEF Targets
<1>2. \A k \in Keys : get_rules(s)[k] \in RuleType[k]
  BY <1>1, GetRules, EffectiveTyped DEF RulesInv
<1>3. RuleType.groups = Seq(STRING) /\ RuleType.prefer_batch_when_finished = BOOLEAN
      /\ RuleType.seed_auto_threshold = Nat
  BY DEF RuleType
<1> QED
  BY <1>2, <1>3, KeysAre DEF RulesTyped

LEMMA GroupRankType ==
    ASSUME NEW r, NEW rules, RulesTyped(rules) PROVE GroupRank(r, rules) \in Nat
<1> DEFINE at == {i \in DOMAIN rules.groups : rules.groups[i] = r.group}
<1>1. at \subseteq Nat
  BY DEF RulesTyped
<1>2. at # {} => Min(at) \in Nat
  BY <1>1, MinOf
<1> QED
  BY <1>2 DEF GroupRank

\* All the signals there are.
SignalValues ==
    {title + episode + year + batch : title \in {0, 50}, episode \in {0, 30},
                                      year \in {0, -20}, batch \in {0, 30, 50}}

LEMMA SignalIsOne ==
    ASSUME NEW t, NEW s, NEW rules PROVE Signal(t, s, rules) \in SignalValues
<1> DEFINE r == Release[t]  show == Show[s]
           a == Points(s \in r.names, 50)
           b == Points(r.episode = show.episode, 30)
           c == Points(r.remade, 20)
           d == Points(is_batch(r) /\ show.aired,
                       IF rules.prefer_batch_when_finished THEN 50 ELSE 30)
<1>1. a \in {0, 50} /\ b \in {0, 30} /\ c \in {0, 20} /\ d \in {0, 30, 50}
  BY DEF Points
<1>2. Signal(t, s, rules) = a + b - c + d
  BY DEF Signal
<1> HIDE DEF a, b, c, d
<1>3. PICK y \in {0, -20} : a + b - c + d = a + b + y + d
  BY <1>1
<1>4. \E title \in {0, 50}, episode \in {0, 30}, year \in {0, -20}, batch \in {0, 30, 50} :
        a + b + y + d = title + episode + year + batch
  BY <1>1, <1>3
<1>5. a + b + y + d \in SignalValues
  BY <1>4 DEF SignalValues
<1> QED
  BY <1>2, <1>3, <1>5

LEMMA SignalType ==
    ASSUME NEW t, NEW s, NEW rules PROVE Signal(t, s, rules) \in Int
  BY SignalIsOne DEF SignalValues

LEMMA RankingType ==
    ASSUME MatchTypes, NEW t \in Torrents, NEW s, NEW rules, RulesTyped(rules)
    PROVE  Ranking(t, s, rules) \in Int
<1> DEFINE r == Release[t]  g == GroupRank(Release[t], rules)
           a == Points(g > 0, 45 - 5 * g)
           b == Points(r.res > 0, IF r.res = rules.preferred_resolution THEN 25 ELSE 10)
           c == seeder_points(table[t].seeders)
           d == IF r.audio \in rules.preferred_languages THEN 15 ELSE Points(r.audio = "dual", 10)
           e == recency(searches - table[t].at)
           f == Points(r.batch /\ ~(Show[s].aired /\ rules.prefer_batch_when_finished), 50)
           h == Points(r.audio = "dub" /\ "dub" \notin rules.preferred_languages, 40)
<1>1. a \in Int
  BY GroupRankType DEF Points
<1>2. b \in Int /\ d \in Int /\ f \in Int /\ h \in Int
  BY DEF Points
<1>3. c \in Int
  BY DEF seeder_points
<1>4. e \in Int
  BY DEF recency, Points
<1>5. Ranking(t, s, rules) = a + b + c + d + e - f - h
  BY DEF Ranking
<1> HIDE DEF a, b, c, d, e, f, h
<1> QED
  BY <1>1, <1>2, <1>3, <1>4, <1>5

\* candidate_rows leaves out a candidate only behind RowLimit others.
LEMMA RowsRead ==
    ASSUME MatchTypes, NEW s \in Shows
    PROVE  /\ candidate_rows(s) \subseteq Candidates(s)
           /\ \A t \in Candidates(s) : t \notin candidate_rows(s) =>
                Cardinality({u \in Candidates(s) : table[u].at >= table[t].at}) > RowLimit
<1> DEFINE Newer(a, b) ==
             \/ table[a].at > table[b].at
             \/ table[a].at = table[b].at /\ table[a].seeders > table[b].seeders
             \/ table[a].at = table[b].at /\ table[a].seeders = table[b].seeders /\ a < b
           mine  == Candidates(s)
           newer == [t \in mine |-> {u \in mine : Newer(u, t)}]
<1>1. mine \subseteq Torrents /\ mine \subseteq Nat /\ IsFiniteSet(mine)
  BY MatchingAssumption, FS_Subset DEF Candidates
<1>2. \A t \in mine : t \in Nat /\ table[t].at \in Nat /\ table[t].seeders \in Nat
  BY <1>1, MatchingAssumption DEF MatchTypes, RowType
<1>3. candidate_rows(s) = Elements(Truncated(Sorted(mine, newer), RowLimit))
  BY DEF candidate_rows
<1> HIDE DEF mine
<1>4. newer \in [mine -> SUBSET mine] /\ \A t, u \in mine : u \in newer[t] <=> Newer(u, t)
  OBVIOUS
<1> HIDE DEF newer
<1>5. Orders(newer, mine)
  <2>1. \A t \in mine : t \notin newer[t]
    BY <1>2, <1>4
  <2>2. \A t, u \in mine : t # u => t \in newer[u] \/ u \in newer[t]
    BY <1>2, <1>4
  <2>3. ASSUME NEW t \in mine, NEW u \in mine, t \in newer[u], NEW v \in newer[t]
        PROVE  v \in newer[u]
    <3>1. v \in mine /\ v \in newer[t]
      BY <1>4
    <3>2. Newer(t, u) /\ Newer(v, t)
      BY <1>4, <2>3, <3>1
    <3>3. Newer(v, u)
      BY <1>2, <3>1, <3>2
    <3> QED
      BY <1>4, <3>1, <3>3
  <2> QED
    BY <1>4, <2>1, <2>2, <2>3 DEF Orders
<1>6. RowLimit \in Nat \ {0}
  BY MatchingAssumption
<1>7. /\ Elements(Truncated(Sorted(mine, newer), RowLimit)) \subseteq mine
      /\ \A t \in mine : Cardinality(newer[t]) < RowLimit =>
           t \in Elements(Truncated(Sorted(mine, newer), RowLimit))
  BY <1>1, <1>5, <1>6, FirstOnes
<1>8. ASSUME NEW t \in mine, t \notin candidate_rows(s)
      PROVE  Cardinality({u \in mine : table[u].at >= table[t].at}) > RowLimit
  <2> DEFINE there == {u \in mine : table[u].at >= table[t].at}
  <2>1. ~ (Cardinality(newer[t]) < RowLimit)
    BY <1>3, <1>7, <1>8
  <2>2. IsFiniteSet(newer[t]) /\ t \notin newer[t]
    BY <1>1, <1>5, FS_Subset DEF Orders
  <2>3. Cardinality(newer[t]) \in Nat
    BY <2>2, FS_CardinalityType
  <2>4. IsFiniteSet(newer[t] \cup {t}) /\ Cardinality(newer[t] \cup {t}) = Cardinality(newer[t]) + 1
    BY <2>2, FS_AddElement
  <2>5. newer[t] \cup {t} \subseteq there
    BY <1>2, <1>4
  <2>6. IsFiniteSet(there)
    BY <1>1, FS_Subset
  <2>7. Cardinality(there) \in Nat /\ Cardinality(newer[t] \cup {t}) <= Cardinality(there)
    BY <2>5, <2>6, FS_Subset, FS_CardinalityType
  <2> QED
    BY <1>6, <2>1, <2>3, <2>4, <2>7
<1> QED
  BY <1>3, <1>7, <1>8 DEF mine

\* What is ranked has passed, and nothing is ranked only if nothing passes.
LEMMA RankedPass ==
    ASSUME MatchTypes, NEW s \in Shows, NEW rules, RulesTyped(rules)
    PROVE  /\ Passing(s, rules) \subseteq Torrents
           /\ rank(s, rules) \in Seq(Passing(s, rules))
           /\ rank(s, rules) = <<>> => Passing(s, rules) = {}
<1> DEFINE passing == Passing(s, rules)
           total   == [t \in passing |-> Total(t, s, rules)]
<1>1. passing \subseteq Torrents
  BY RowsRead DEF Passing, Candidates
<1>2. \A t \in passing : Total(t, s, rules) \in Int
  BY <1>1, SignalType, RankingType DEF Total
<1>3. rank(s, rules) = Truncated(ByNumber(passing, total), RankLimit)
  BY DEF rank
<1>4. \A t \in passing : total[t] \in Int
  BY <1>2
<1>5. RankLimit \in Nat \ {0}
  BY MatchingAssumption
<1> HIDE DEF passing, total
<1>6. rank(s, rules) \in Seq(passing) /\ (rank(s, rules) = <<>> => passing = {})
  BY <1>1, <1>3, <1>4, <1>5, FirstByNumber
<1> QED
  BY <1>1, <1>6 DEF passing

\* The preferred pick is one of the tied.
LEMMA PickIsTied ==
    ASSUME NEW ranked \in Seq(Torrents), NEW tied \in SUBSET DOMAIN ranked,
           NEW rules, RulesTyped(rules)
    PROVE  \/ preferred_pick(ranked, tied, rules) = None
           \/ \E i \in tied : preferred_pick(ranked, tied, rules) = ranked[i]
<1> DEFINE gr(i)   == GroupRank(Release[ranked[i]], rules)
           ofGroup == {i \in tied : gr(i) > 0}
           ranks   == {gr(i) : i \in ofGroup}
           first   == {i \in ofGroup : gr(i) = Min(ranks)}
<1>1. preferred_pick(ranked, tied, rules) =
        IF ofGroup = {} THEN None ELSE ranked[Min(first)]
  BY DEF preferred_pick
<1>2. CASE ofGroup # {}
  <2>1. \A i \in tied : gr(i) \in Nat
    BY GroupRankType
  <2> HIDE DEF gr
  <2>2. ranks \subseteq Nat /\ ranks # {}
    BY <1>2, <2>1
  <2>3. Min(ranks) \in ranks
    BY <2>2, MinOf
  <2>4. first # {}
    BY <2>3
  <2>5. first \subseteq Nat /\ first \subseteq tied
    OBVIOUS
  <2> HIDE DEF first
  <2>6. Min(first) \in first
    BY <2>4, <2>5, MinOf
  <2> QED
    BY <1>1, <1>2, <2>5, <2>6
<1> QED
  BY <1>1, <1>2

\* No signal lies between the threshold and a margin below it, so what is tied
\* with a confident match is confident too.
MarginIsSafe ==
    \A n \in SignalValues : n > score_threshold - score_margin => n >= score_threshold

\* With the settings as they come, a threshold of 80 and a margin of 15, the
\* margin is safe.
LEMMA DefaultMarginIsSafe ==
    ASSUME score_threshold = 80, score_margin = 15 PROVE MarginIsSafe
<1>1. ASSUME NEW n \in SignalValues, n > 80 - 15
      PROVE  n >= 80
  <2>1. PICK a \in {0, 50}, b \in {0, 30}, c \in {0, -20}, d \in {0, 30, 50} : n = a + b + c + d
    BY DEF SignalValues
  <2> QED
    BY <1>1, <2>1
<1> QED
  BY <1>1 DEF MarginIsSafe

\* A verdict that names a torrent names a ranked one, and a confident one if
\* the margin is safe; it is "not found" only if nothing is ranked.
LEMMA VerdictIs ==
    ASSUME NEW s, NEW rules, RulesTyped(rules), NEW ranked \in Seq(Torrents)
    PROVE  LET v == decide_verdict(ranked, s, rules)
           IN  /\ v = [kind |-> v.kind, chosen |-> v.chosen]
               /\ \/ v.kind \in {"notfound", "review"} /\ v.chosen = None
                  \/ /\ v.kind \in {"auto", "thin"}
                     /\ \E i \in DOMAIN ranked :
                          /\ v.chosen = ranked[i]
                          /\ MarginIsSafe => Signal(ranked[i], s, rules) >= score_threshold
               /\ ranked = <<>> <=> v.kind = "notfound"
<1> DEFINE signal(i)  == Score(ranked[i], s, rules)
           batchFirst == /\ Release[ranked[1]].batch /\ ~Release[ranked[2]].batch
                         /\ rules.prefer_batch_when_finished
           close      == Len(ranked) > 1 /\ ~batchFirst /\ signal(1) - signal(2) < score_margin
           tied       == {i \in DOMAIN ranked : signal(1) - signal(i) < score_margin}
           picked     == preferred_pick(ranked, tied, rules)
           v          == decide_verdict(ranked, s, rules)
           best       == IF close THEN picked ELSE ranked[1]
<1>1. v = IF ranked = <<>> THEN [kind |-> "notfound", chosen |-> None]
          ELSE IF signal(1) < score_threshold \/ (close /\ picked = None)
               THEN [kind |-> "review", chosen |-> None]
          ELSE ByHealth(best, s, rules)
  BY DEF decide_verdict
<1>2. \/ ByHealth(best, s, rules) = [kind |-> "auto", chosen |-> best]
      \/ ByHealth(best, s, rules) = [kind |-> "thin", chosen |-> best]
  BY DEF ByHealth
<1>3. \A i \in DOMAIN ranked : signal(i) = Signal(ranked[i], s, rules) /\ signal(i) \in SignalValues
                               /\ signal(i) \in Int
  BY SignalIsOne, SignalType DEF Score
<1>4. picked = None \/ \E i \in tied : picked = ranked[i]
  BY PickIsTied
<1>5. {score_threshold, score_margin} \subseteq Int
  BY MatchingAssumption
<1> HIDE DEF v, signal, close, picked
<1>6. CASE ranked # <<>> /\ ~ (signal(1) < score_threshold \/ (close /\ picked = None))
  <2>1. 1 \in DOMAIN ranked
    BY <1>6
  <2>2. signal(1) \in Int /\ signal(1) >= score_threshold
    BY <1>3, <1>5, <1>6, <2>1
  <2>3. CASE close
    <3>1. PICK i \in DOMAIN ranked : signal(1) - signal(i) < score_margin /\ picked = ranked[i]
      BY <1>4, <1>6, <2>3
    <3>2. signal(i) > score_threshold - score_margin
      BY <1>3, <1>5, <2>2, <3>1
    <3>3. MarginIsSafe => signal(i) >= score_threshold
      BY <1>3, <3>2 DEF MarginIsSafe
    <3>4. best = ranked[i] /\ (MarginIsSafe => Signal(ranked[i], s, rules) >= score_threshold)
      BY <1>3, <2>3, <3>1, <3>3
    <3> QED
      BY <1>1, <1>2, <1>6, <3>4 DEF v
  <2>4. CASE ~close
    <3>1. best = ranked[1] /\ Signal(ranked[1], s, rules) >= score_threshold
      BY <1>3, <2>1, <2>2, <2>4
    <3> QED
      BY <1>1, <1>2, <1>6, <2>1, <3>1 DEF v
  <2> QED
    BY <2>3, <2>4
<1>7. CASE ranked = <<>>
  BY <1>1, <1>7 DEF v
<1>8. CASE ranked # <<>> /\ (signal(1) < score_threshold \/ (close /\ picked = None))
  BY <1>1, <1>8 DEF v
<1> QED
  BY <1>6, <1>7, <1>8

\* What Choose writes: a torrent is named exactly with the four verdicts that
\* have one, and every torrent named has passed.
LEMMA Chosen ==
    ASSUME MatchTypes, RulesInv, NEW s \in Shows
    PROVE  LET v == Verdict(s)  passing == Passing(s, get_rules(s))
           IN  /\ \/ v.kind \in {"notfound", "review"} /\ v.chosen = None
                  \/ v.kind \in {"auto", "thin", "batch_only"} /\ v.chosen \in passing
               /\ v.kind = "notfound" => passing = {}
               /\ v.kind = "auto" /\ MarginIsSafe =>
                    Signal(v.chosen, s, get_rules(s)) >= score_threshold
<1> DEFINE rules == get_rules(s)  ranked == rank(s, rules)  passing == Passing(s, rules)
           v == decide_verdict(ranked, s, rules)
           only == ~Show[s].aired /\ ranked # <<>> /\ \A t \in Elements(ranked) : Release[t].batch
<1>1. RulesTyped(rules)
  BY GetRulesTyped
<1>2. passing \subseteq Torrents /\ ranked \in Seq(passing) /\ (ranked = <<>> => passing = {})
  BY <1>1, RankedPass
<1>3. Verdict(s) = IF only THEN [kind |-> "batch_only", chosen |-> ranked[1]]
                   ELSE IF v.kind = "thin" THEN [v EXCEPT !.chosen = ranked[1]] ELSE v
  BY DEF Verdict
<1> HIDE DEF rules, ranked, passing
<1>4. ranked \in Seq(Torrents) /\ \A i \in DOMAIN ranked : ranked[i] \in passing
  BY <1>2
<1>5. ranked # <<>> => ranked[1] \in passing
  BY <1>2
<1>6. /\ v = [kind |-> v.kind, chosen |-> v.chosen]
      /\ \/ v.kind \in {"notfound", "review"} /\ v.chosen = None
         \/ /\ v.kind \in {"auto", "thin"}
            /\ \E i \in DOMAIN ranked :
                 /\ v.chosen = ranked[i]
                 /\ MarginIsSafe => Signal(ranked[i], s, rules) >= score_threshold
      /\ ranked = <<>> <=> v.kind = "notfound"
  BY <1>1, <1>4, VerdictIs
<1> HIDE DEF v
<1>7. CASE only
  BY <1>3, <1>5, <1>7 DEF rules, passing
<1>8. CASE ~only /\ v.kind = "thin"
  <2>1. ranked # <<>>
    BY <1>6, <1>8
  <2>2. Verdict(s) = [kind |-> "thin", chosen |-> ranked[1]]
    BY <1>3, <1>6, <1>8
  <2> QED
    BY <1>5, <2>1, <2>2 DEF rules, passing
<1>9. CASE ~only /\ v.kind # "thin"
  <2>1. Verdict(s) = v
    BY <1>3, <1>9
  <2> QED
    BY <1>2, <1>4, <1>6, <1>9, <2>1 DEF rules, passing
<1> QED
  BY <1>7, <1>8, <1>9

-----------------------------------------------------------------------------
(* The inductive invariant of the match.                                   *)

\* A job names a torrent exactly while a choice stands.
NamesOK ==
    \A s \in Shows : (job[s].chosen # None) <=>
                       job[s].pc \in {"auto", "thin", "batch_only", "answered"}

\* What a search has brought is in the table or about to be, and a row that is
\* not of its show's last search is older than it.
FoundOK ==
    /\ \A t \in Torrents : table[t].at <= searches
    /\ \A s \in Shows : /\ Elements(job[s].todo) \subseteq found[s]
                        /\ job[s].pc # "remember" => job[s].todo = <<>>
                        /\ \A t \in found[s] : t \in Elements(job[s].todo) \/ table[t].show \in Shows
    /\ \A t \in Torrents, s \in Shows :
         table[t].show = s => t \in found[s] \/ table[t].at < searches

MInv == RulesInv /\ MatchTypes /\ NamesOK /\ FoundOK

LEMMA NoneIsNone ==
    None \notin Torrents
  BY MatchingAssumption DEF None

LEMMA MStart ==
    ASSUME Init PROVE MInv
<1>1. RulesInv
  BY RulesStart DEF Init
<1>2. ASSUME NEW t \in Torrents PROVE Max(Seeders[t]) \in Nat
  <2>1. /\ Seeders[t] \subseteq Nat
        /\ \E m \in Seeders[t] : \A n \in Seeders[t] : m >= n
    BY MatchingAssumption
  <2>2. Max(Seeders[t]) \in Seeders[t]
    BY <2>1 DEF Max
  <2> QED
    BY <2>1, <2>2
<1>3. MaxSearches \in Nat
  BY MatchingAssumption
<1>4. <<>> \in Seq(Torrents) /\ Elements(<<>>) = {}
  BY DEF Elements
<1>5. MatchTypes
  BY <1>2, <1>3, <1>4 DEF Init, MatchTypes, RowType, JobType, Absent
<1>6. NamesOK
  BY DEF Init, NamesOK
<1>7. FoundOK
  BY <1>4, MatchingAssumption DEF Init, FoundOK, Absent
<1> QED
  BY <1>1, <1>5, <1>6, <1>7 DEF MInv

LEMMA SearchKeeps ==
    ASSUME MInv, NEW s \in Shows, Search(s) PROVE MInv'
<1> USE DEF MInv
<1>1. PICK seq : /\ seq \in Seq(Torrents)
                 /\ job' = [job EXCEPT ![s] = [job[s] EXCEPT !.pc = "remember", !.todo = seq]]
                 /\ found' = [found EXCEPT ![s] = Elements(seq)]
  <2> DEFINE batch == Show[s].aired /\ get_rules(s).prefer_batch_when_finished
             queries == (IF batch THEN BatchHits[s] ELSE <<>>) \o Hits[s]
  <2>1. Hits[s] \in Seq(SUBSET Torrents) /\ BatchHits[s] \in Seq(SUBSET Torrents)
    BY MatchingAssumption
  <2>2. queries \in Seq(SUBSET Torrents)
    BY <2>1
  <2> HIDE DEF queries
  <2>3. search_candidates(queries) \in Seq(Torrents)
    BY <2>2, SearchBrings
  <2> QED
    BY <2>3 DEF Search, queries
<1>2. /\ job[s].pc = "search" /\ searches < MaxSearches /\ searches' = searches + 1
      /\ UNCHANGED <<rulesVars, swarm, table>>
  BY DEF Search
<1>3. Elements(seq) \subseteq Torrents
  BY <1>1 DEF Elements
<1>4. RulesInv'
  BY <1>2, RulesStutter
<1>5. job[s] \in JobType /\ MaxSearches \in Nat
  BY MatchingAssumption DEF MatchTypes
<1>6. [job[s] EXCEPT !.pc = "remember", !.todo = seq] \in JobType
  BY <1>1, <1>5 DEF JobType
<1>7. MatchTypes'
  BY <1>1, <1>2, <1>3, <1>5, <1>6 DEF MatchTypes
<1>8. NamesOK'
  BY <1>1, <1>2, <1>5 DEF MatchTypes, NamesOK, JobType
<1>9. \A t \in Torrents : table[t].at \in Nat /\ searches \in Nat
  BY <1>5 DEF MatchTypes, RowType
<1>10. FoundOK'
  <2>1. \A t \in Torrents : table'[t].at <= searches' /\ table'[t].at < searches'
    BY <1>2, <1>9 DEF FoundOK
  <2>2. \A q \in Shows : job'[q] = IF q = s THEN [job[s] EXCEPT !.pc = "remember", !.todo = seq]
                                   ELSE job[q]
    BY <1>1 DEF MatchTypes
  <2>3. job'[s].pc = "remember" /\ job'[s].todo = seq
    BY <1>5, <2>2 DEF JobType
  <2>4. \A q \in Shows : found'[q] = IF q = s THEN Elements(seq) ELSE found[q]
    BY <1>1 DEF MatchTypes
  <2> QED
    BY <1>2, <2>1, <2>2, <2>3, <2>4 DEF FoundOK
<1> QED
  BY <1>4, <1>7, <1>8, <1>10

LEMMA RememberKeeps ==
    ASSUME MInv, NEW s \in Shows, remember_candidate(s) PROVE MInv'
<1> USE DEF MInv
<1> DEFINE todo == job[s].todo  t == Head(job[s].todo)
           row  == IF table[t] = Absent
                   THEN [show |-> s, seeders |-> swarm[t], at |-> searches, rejected |-> FALSE]
                   ELSE [table[t] EXCEPT !.show = s, !.seeders = swarm[t]]
<1>1. /\ job[s].pc = "remember" /\ todo # <<>>
      /\ table' = [table EXCEPT ![t] = row]
      /\ job' = [job EXCEPT ![s].todo = Tail(todo)]
      /\ UNCHANGED <<rulesVars, swarm, searches, found>>
  BY DEF remember_candidate
<1>2. job[s] \in JobType /\ todo \in Seq(Torrents)
  BY DEF MatchTypes, JobType
<1>3. /\ t \in Torrents /\ t \in Elements(todo) /\ Tail(todo) \in Seq(Torrents)
      /\ Elements(todo) = {t} \cup Elements(Tail(todo))
  <2>1. t \in Torrents /\ t = todo[1] /\ 1 \in DOMAIN todo /\ Tail(todo) \in Seq(Torrents)
    BY <1>1, <1>2
  <2>2. /\ Len(Tail(todo)) = Len(todo) - 1
        /\ \A i \in 1 .. Len(todo) - 1 : Tail(todo)[i] = todo[i + 1]
        /\ DOMAIN todo = 1 .. Len(todo) /\ DOMAIN Tail(todo) = 1 .. Len(todo) - 1
        /\ Len(todo) \in Nat
    BY <1>1, <1>2, <2>1
  <2> HIDE DEF todo, t
  <2>3. ASSUME NEW x \in Elements(todo) PROVE x \in {t} \cup Elements(Tail(todo))
    <3>1. PICK i \in 1 .. Len(todo) : x = todo[i]
      BY <2>2 DEF Elements
    <3>2. CASE i # 1
      <4>1. i - 1 \in 1 .. Len(todo) - 1 /\ Tail(todo)[i - 1] = x
        BY <2>2, <3>1, <3>2
      <4> QED
        BY <2>2, <4>1 DEF Elements
    <3> QED
      BY <2>1, <3>1, <3>2
  <2>4. ASSUME NEW x \in Elements(Tail(todo)) PROVE x \in Elements(todo)
    <3>1. PICK i \in 1 .. Len(todo) - 1 : x = todo[i + 1]
      BY <2>2 DEF Elements
    <3>2. i + 1 \in 1 .. Len(todo)
      BY <2>2
    <3> QED
      BY <2>2, <3>1, <3>2 DEF Elements
  <2>5. t \in Elements(todo)
    BY <2>1 DEF Elements
  <2> QED
    BY <2>1, <2>3, <2>4, <2>5
<1> HIDE DEF t, todo
<1>4. table[t] \in RowType /\ swarm[t] \in Nat /\ searches \in 0 .. MaxSearches
  BY <1>3 DEF MatchTypes
<1>5. row \in RowType /\ row.show = s
      /\ row.at = IF table[t] = Absent THEN searches ELSE table[t].at
  BY <1>4 DEF RowType
<1> HIDE DEF row
<1>6. \A u \in Torrents : table'[u] = IF u = t THEN row ELSE table[u]
  BY <1>1, <1>3 DEF MatchTypes
<1>7. \A q \in Shows : job'[q] = IF q = s THEN [job[s] EXCEPT !.todo = Tail(todo)] ELSE job[q]
  BY <1>1 DEF MatchTypes
<1>8. [job[s] EXCEPT !.todo = Tail(todo)] \in JobType
      /\ job'[s].pc = "remember" /\ job'[s].chosen = job[s].chosen /\ job'[s].todo = Tail(todo)
  <2> DEFINE j == [job[s] EXCEPT !.todo = Tail(todo)]
  <2>1. j \in JobType
    BY <1>2, <1>3 DEF JobType
  <2>2. j.pc = job[s].pc /\ j.chosen = job[s].chosen /\ j.todo = Tail(todo)
    BY <1>2 DEF JobType
  <2> HIDE DEF j
  <2>3. job'[s] = j
    BY <1>7 DEF j
  <2> QED
    BY <1>1, <2>1, <2>2, <2>3 DEF j
<1>9. MatchTypes'
  BY <1>1, <1>3, <1>5, <1>8 DEF MatchTypes
<1>10. RulesInv'
  BY <1>1, RulesStutter
<1>11. NamesOK'
  BY <1>1, <1>7, <1>8 DEF NamesOK
<1>12. FoundOK'
  <2>1. \A u \in Torrents : table[u].at \in Nat /\ searches \in Nat
    BY MatchingAssumption DEF MatchTypes, RowType
  <2>2. \A u \in Torrents : table'[u].at <= searches'
    BY <1>1, <1>5, <1>6, <2>1 DEF FoundOK
  <2>3. \A q \in Shows : Elements(job'[q].todo) \subseteq found'[q]
    BY <1>1, <1>3, <1>7, <1>8 DEF FoundOK, todo
  <2>4. \A q \in Shows : job'[q].pc # "remember" => job'[q].todo = <<>>
    BY <1>7, <1>8 DEF FoundOK
  <2>5. \A u \in Torrents : table[u].show \in Shows => table'[u].show \in Shows
    BY <1>5, <1>6
  <2>6. \A q \in Shows : \A u \in found'[q] :
          u \in Elements(job'[q].todo) \/ table'[u].show \in Shows
    <3> SUFFICES ASSUME NEW q \in Shows, NEW u \in found'[q]
                 PROVE  u \in Elements(job'[q].todo) \/ table'[u].show \in Shows
      OBVIOUS
    <3>1. u \in Torrents /\ (u \in Elements(job[q].todo) \/ table[u].show \in Shows)
      BY <1>1 DEF FoundOK, MatchTypes
    <3>2. CASE q = s /\ u = t
      BY <1>5, <1>6, <3>1, <3>2
    <3>3. CASE q = s /\ u # t
      BY <1>3, <1>8, <2>5, <3>1, <3>3 DEF todo
    <3>4. CASE q # s
      BY <1>7, <2>5, <3>1, <3>4
    <3> QED
      BY <3>2, <3>3, <3>4
  <2>7. ASSUME NEW u \in Torrents, NEW q \in Shows, table'[u].show = q
        PROVE  u \in found'[q] \/ table'[u].at < searches'
    <3>1. CASE u = t
      <4>1. q = s /\ t \in found[s]
        BY <1>3, <1>5, <1>6, <2>7, <3>1 DEF FoundOK, todo
      <4> QED
        BY <1>1, <3>1, <4>1
    <3>2. CASE u # t
      BY <1>1, <1>6, <2>7, <3>2 DEF FoundOK
    <3> QED
      BY <3>1, <3>2
  <2> QED
    BY <2>2, <2>3, <2>4, <2>6, <2>7 DEF FoundOK
<1> QED
  BY <1>9, <1>10, <1>11, <1>12

\* A step of s that moves its job on with nothing left to remember, and at most
\* rejects rows, keeps what was found.
LEMMA FoundKept ==
    ASSUME MInv, NEW s \in Shows, NEW j, j.todo = <<>>, job[s].todo = <<>>,
           job' = [job EXCEPT ![s] = j],
           UNCHANGED <<searches, found>>,
           \A t \in Torrents : table'[t].at = table[t].at /\ table'[t].show = table[t].show
    PROVE  FoundOK'
<1> USE DEF MInv
<1>1. \A q \in Shows : job'[q] = IF q = s THEN j ELSE job[q]
  BY DEF MatchTypes
<1>2. \A q \in Shows : job'[q].todo = job[q].todo
  BY <1>1
<1>3. \A q \in Shows : found[q] \subseteq Torrents
  BY DEF MatchTypes
<1>4. \A q \in Shows : job'[q].pc # "remember" => job'[q].todo = <<>>
  BY <1>1 DEF FoundOK
<1>5. \A q \in Shows : \A t \in found'[q] :
        t \in Elements(job'[q].todo) \/ table'[t].show \in Shows
  BY <1>2, <1>3 DEF FoundOK
<1>6. \A q \in Shows : Elements(job'[q].todo) \subseteq found'[q]
  BY <1>2 DEF FoundOK
<1> QED
  BY <1>4, <1>5, <1>6 DEF FoundOK

\* A step of s that keeps the swarm and the history and gives it a job that
\* names a torrent when it should.
LEMMA MoveKeeps ==
    ASSUME MInv, RulesInv', NEW s \in Shows, NEW j \in JobType,
           j.todo = <<>> /\ job[s].todo = <<>>,
           (j.chosen # None) <=> j.pc \in {"auto", "thin", "batch_only", "answered"},
           job' = [job EXCEPT ![s] = j],
           UNCHANGED <<swarm, searches, found>>, table' \in [Torrents -> RowType],
           \A t \in Torrents : table'[t].at = table[t].at /\ table'[t].show = table[t].show
    PROVE  MInv'
<1>1. FoundOK'
  BY FoundKept
<1>2. MatchTypes'
  BY DEF MInv, MatchTypes
<1>3. NamesOK'
  BY DEF MInv, MatchTypes, NamesOK
<1> QED
  BY <1>1, <1>2, <1>3 DEF MInv

LEMMA RememberedKeeps ==
    ASSUME MInv, NEW s \in Shows, Remembered(s) PROVE MInv'
<1> DEFINE j == [job[s] EXCEPT !.pc = "choose"]
<1>1. /\ job[s].pc = "remember" /\ job[s].todo = <<>> /\ job' = [job EXCEPT ![s] = j]
      /\ UNCHANGED <<rulesVars, swarm, table, searches, found>>
  BY DEF Remembered
<1>2. job[s] \in JobType
  BY DEF MInv, MatchTypes
<1>3. j \in JobType /\ j.todo = job[s].todo /\ j.pc = "choose" /\ j.chosen = job[s].chosen
  BY <1>2 DEF JobType
<1>4. job[s].chosen = None
  BY <1>1 DEF MInv, NamesOK
<1>5. RulesInv'
  BY <1>1, RulesStutter DEF MInv
<1>6. table' \in [Torrents -> RowType]
  BY <1>1 DEF MInv, MatchTypes
<1> HIDE DEF j
<1> QED
  BY <1>1, <1>3, <1>4, <1>5, <1>6, MoveKeeps

LEMMA SearchAgainKeeps ==
    ASSUME MInv, NEW s \in Shows, SearchAgain(s) PROVE MInv'
<1> DEFINE j == [job[s] EXCEPT !.pc = "search"]
<1>1. /\ job[s].pc = "notfound" /\ job' = [job EXCEPT ![s] = j]
      /\ UNCHANGED <<rulesVars, swarm, table, searches, found>>
  BY DEF SearchAgain
<1>2. job[s] \in JobType /\ job[s].todo = <<>>
  BY <1>1 DEF MInv, MatchTypes, FoundOK
<1>3. j \in JobType /\ j.todo = job[s].todo /\ j.pc = "search" /\ j.chosen = job[s].chosen
  BY <1>2 DEF JobType
<1>4. job[s].chosen = None
  BY <1>1 DEF MInv, NamesOK
<1>5. RulesInv'
  BY <1>1, RulesStutter DEF MInv
<1>6. table' \in [Torrents -> RowType]
  BY <1>1 DEF MInv, MatchTypes
<1> HIDE DEF j
<1> QED
  BY <1>1, <1>2, <1>3, <1>4, <1>5, <1>6, MoveKeeps

LEMMA RejectKeeps ==
    ASSUME MInv, NEW s \in Shows, reject_candidate(s) PROVE MInv'
<1> DEFINE j == [job[s] EXCEPT !.pc = "search", !.chosen = None]
           c == job[s].chosen
<1>1. /\ job[s].pc = "auto" /\ job' = [job EXCEPT ![s] = j]
      /\ table' = [table EXCEPT ![c].rejected = TRUE]
      /\ UNCHANGED <<rulesVars, swarm, searches, found>>
  BY DEF reject_candidate
<1>2. job[s] \in JobType /\ job[s].todo = <<>>
  BY <1>1 DEF MInv, MatchTypes, FoundOK
<1>3. j \in JobType /\ j.todo = job[s].todo /\ j.pc = "search" /\ j.chosen = None
  BY <1>2 DEF JobType
<1>4. table \in [Torrents -> RowType]
  BY DEF MInv, MatchTypes
<1>5. RulesInv'
  BY <1>1, RulesStutter DEF MInv
<1>6. table' \in [Torrents -> RowType]
      /\ \A t \in Torrents : table'[t].at = table[t].at /\ table'[t].show = table[t].show
  BY <1>1, <1>4 DEF RowType
<1> HIDE DEF j, c
<1> QED
  BY <1>1, <1>2, <1>3, <1>5, <1>6, MoveKeeps

LEMMA ChooseKeeps ==
    ASSUME MInv, NEW s \in Shows, Choose(s) PROVE MInv'
<1> DEFINE v == Verdict(s)  passing == Passing(s, get_rules(s))
           options == IF v.kind = "review" THEN Elements(Truncated(rank(s, get_rules(s)), Shown))
                      ELSE {}
           j == [job[s] EXCEPT !.pc = v.kind, !.chosen = v.chosen, !.options = options]
<1>1. /\ job[s].pc = "choose" /\ job' = [job EXCEPT ![s] = j]
      /\ UNCHANGED <<rulesVars, swarm, table, searches, found>>
  BY DEF Choose
<1>2. job[s] \in JobType /\ job[s].todo = <<>>
  BY <1>1 DEF MInv, MatchTypes, FoundOK
<1>3. \/ v.kind \in {"notfound", "review"} /\ v.chosen = None
      \/ v.kind \in {"auto", "thin", "batch_only"} /\ v.chosen \in passing
  BY Chosen DEF MInv
<1>4. passing \subseteq Torrents /\ rank(s, get_rules(s)) \in Seq(passing)
  BY GetRulesTyped, RankedPass DEF MInv
<1>5. options \subseteq Torrents
  <2>1. Shown \in Nat
    BY MatchingAssumption
  <2>2. Truncated(rank(s, get_rules(s)), Shown) \in Seq(passing)
    BY <1>4, <2>1, TruncatedKeeps
  <2>3. Elements(Truncated(rank(s, get_rules(s)), Shown)) \subseteq passing
    BY <2>2 DEF Elements
  <2> QED
    BY <1>4, <2>3
<1> HIDE DEF v, options, passing
<1>6. j \in JobType /\ j.todo = job[s].todo /\ j.pc = v.kind /\ j.chosen = v.chosen
  <2>1. v.kind \in {"notfound", "review", "auto", "thin", "batch_only"}
        /\ v.chosen \in Torrents \cup {None}
    BY <1>3, <1>4
  <2> QED
    BY <1>2, <1>5, <2>1 DEF JobType
<1>7. (j.chosen # None) <=> j.pc \in {"auto", "thin", "batch_only", "answered"}
  BY <1>3, <1>4, <1>6, NoneIsNone
<1>8. RulesInv'
  BY <1>1, RulesStutter DEF MInv
<1>9. table' \in [Torrents -> RowType]
  BY <1>1 DEF MInv, MatchTypes
<1> HIDE DEF j
<1> QED
  BY <1>1, <1>2, <1>6, <1>7, <1>8, <1>9, MoveKeeps

LEMMA UseThisKeeps ==
    ASSUME MInv, NEW s \in Shows, NEW t \in Torrents, NEW always \in BOOLEAN,
           UseThis(s, t, always)
    PROVE  MInv'
<1> DEFINE j == [job[s] EXCEPT !.pc = "answered", !.chosen = t, !.options = {}]
<1>1. /\ job[s].pc = "review" /\ job' = [job EXCEPT ![s] = j]
      /\ IF always THEN set_override(s, "groups", <<Release[t].group>>) ELSE UNCHANGED rows
      /\ UNCHANGED <<editor, unchecked, swarm, table, searches, found>>
  BY DEF UseThis
<1>2. job[s] \in JobType /\ job[s].todo = <<>>
  BY <1>1 DEF MInv, MatchTypes, FoundOK
<1>3. j \in JobType /\ j.todo = job[s].todo /\ j.pc = "answered" /\ j.chosen = t
  BY <1>2 DEF JobType
<1>4. RulesInv'
  <2>1. Release[t].group \in STRING
    BY MatchingAssumption DEF ReleaseType
  <2>2. CASE always
    BY <1>1, <2>1, <2>2, AlwaysKeeps DEF MInv
  <2>3. CASE ~always
    BY <1>1, <2>3, RulesStutter DEF MInv, rulesVars
  <2> QED
    BY <2>2, <2>3
<1>5. table' \in [Torrents -> RowType]
  BY <1>1 DEF MInv, MatchTypes
<1>6. t # None
  BY NoneIsNone
<1> HIDE DEF j
<1> QED
  BY <1>1, <1>2, <1>3, <1>4, <1>5, <1>6, MoveKeeps

LEMMA MStep ==
    ASSUME MInv, [Next]_vars PROVE MInv'
<1>1. CASE UNCHANGED matchVars /\ RulesInv'
  BY <1>1 DEF MInv, MatchTypes, NamesOK, FoundOK, matchVars
<1>2. CASE UNCHANGED vars
  BY <1>1, <1>2, RulesStutter DEF vars, MInv
<1>3. CASE EditRules
  BY <1>1, <1>3, RulesNextKeeps DEF EditRules, MInv
<1>4. ASSUME NEW t \in Torrents, NEW n \in Seeders[t], SwarmChanges(t, n)
      PROVE  MInv'
  <2>1. /\ swarm' = [swarm EXCEPT ![t] = n] /\ n \in Nat
        /\ UNCHANGED <<rulesVars, table, job, searches, found>>
    BY <1>4, MatchingAssumption DEF SwarmChanges
  <2>2. RulesInv'
    BY <2>1, RulesStutter DEF MInv
  <2>3. MatchTypes'
    BY <2>1 DEF MInv, MatchTypes
  <2> QED
    BY <2>1, <2>2, <2>3 DEF MInv, NamesOK, FoundOK
<1>5. ASSUME NEW s \in Shows,
             \/ Search(s) \/ remember_candidate(s) \/ Remembered(s) \/ Choose(s)
             \/ SearchAgain(s) \/ reject_candidate(s)
      PROVE  MInv'
  BY <1>5, SearchKeeps, RememberKeeps, RememberedKeeps, ChooseKeeps, SearchAgainKeeps,
     RejectKeeps
<1>6. ASSUME NEW s \in Shows, NEW t \in Torrents, NEW always \in BOOLEAN, UseThis(s, t, always)
      PROVE  MInv'
  BY <1>6, UseThisKeeps
<1> QED
  BY <1>2, <1>3, <1>4, <1>5, <1>6 DEF Next

LEMMA Inductive ==
    Spec => []MInv
  BY MStart, MStep, PTL DEF Spec

-----------------------------------------------------------------------------
(* What a choice promises.                                                 *)

\* Only Choose leaves "choose", with the verdict for its show.
LEMMA LeavesChoose ==
    ASSUME MInv, [Next]_vars, NEW s \in Shows, job[s].pc = "choose", job'[s].pc # "choose"
    PROVE  job'[s].pc = Verdict(s).kind /\ job'[s].chosen = Verdict(s).chosen
<1>1. job \in [Shows -> JobType] /\ job[s] \in JobType
  BY DEF MInv, MatchTypes
<1>2. job' # job
  OBVIOUS
<1>3. ASSUME NEW q \in Shows, q # s,
             \/ Search(q) \/ remember_candidate(q) \/ Remembered(q) \/ Choose(q)
             \/ SearchAgain(q) \/ reject_candidate(q)
             \/ \E t \in Torrents, always \in BOOLEAN : UseThis(q, t, always)
      PROVE  FALSE
  <2>1. job'[s] = job[s]
    BY <1>1, <1>3 DEF Search, remember_candidate, Remembered, Choose, SearchAgain,
                      reject_candidate, UseThis
  <2> QED
    BY <2>1
<1>4. ~ (\/ Search(s) \/ remember_candidate(s) \/ Remembered(s)
         \/ SearchAgain(s) \/ reject_candidate(s)
         \/ \E t \in Torrents, always \in BOOLEAN : UseThis(s, t, always))
  BY DEF Search, remember_candidate, Remembered, SearchAgain, reject_candidate, UseThis
<1>5. ~ (EditRules \/ UNCHANGED vars
         \/ \E t \in Torrents : \E n \in Seeders[t] : SwarmChanges(t, n))
  BY <1>2 DEF EditRules, matchVars, vars, SwarmChanges
<1>6. Choose(s)
  BY <1>3, <1>4, <1>5 DEF Next
<1> QED
  BY <1>1, <1>6 DEF Choose, JobType

\* What passes the filters is right, and what is right and within the limits
\* passes.
LEMMA PassingIsRight ==
    ASSUME NEW t \in Torrents, NEW s \in Shows, NEW rules, Passes(t, s, rules)
    PROVE  Right(t, s) /\ table[t].seeders > 0
<1>1. Release[t] \in ReleaseType /\ Show[s] \in ShowType
  BY MatchingAssumption
<1>2. /\ Show[s].episode \in Nat /\ Release[t].from \in Nat /\ Release[t].to \in Nat
      /\ Release[t].season \in Nat /\ Show[s].season \in Nat
  BY <1>1 DEF ReleaseType, ShowType
<1> QED
  BY <1>2 DEF Passes, Right, is_batch

LEMMA UsablePasses ==
    ASSUME NEW t \in Torrents, NEW s \in Shows, Usable(t, s)
    PROVE  Passes(t, s, get_rules(s))
<1>1. Release[t] \in ReleaseType /\ Show[s] \in ShowType
  BY MatchingAssumption
<1>2. /\ Show[s].episode \in Nat /\ Release[t].from \in Nat /\ Release[t].to \in Nat
      /\ Release[t].season \in Nat /\ Show[s].season \in Nat \ {0}
  BY <1>1 DEF ReleaseType, ShowType
<1> QED
  BY <1>2 DEF Usable, Passes, Right, is_batch

LEMMA ChoiceStep ==
    ASSUME MInv, [Next]_vars, MarginIsSafe, NEW s \in Shows,
           job[s].pc = "choose", job'[s].pc = "auto"
    PROVE  Confident(job'[s].chosen, s)
<1> DEFINE t == job'[s].chosen
<1>1. Verdict(s).kind = "auto" /\ t = Verdict(s).chosen
  BY LeavesChoose
<1>2. t \in Passing(s, get_rules(s)) /\ Signal(t, s, get_rules(s)) >= score_threshold
  BY <1>1, Chosen DEF MInv
<1> HIDE DEF t
<1>3. Passes(t, s, get_rules(s)) /\ t \in candidate_rows(s)
  BY <1>2 DEF Passing
<1>4. t \in Candidates(s)
  BY <1>3, RowsRead DEF MInv
<1>5. t \in Torrents /\ table[t].show = s
  BY <1>4 DEF Candidates
<1>6. t \in found[s] \cup {u \in Torrents : table[u].at < searches}
  BY <1>5 DEF MInv, FoundOK
<1>7. Right(t, s) /\ table[t].seeders > 0
  BY <1>3, <1>5, PassingIsRight
<1> QED
  BY <1>2, <1>6, <1>7 DEF Confident, t

LEMMA NotFoundStep ==
    ASSUME MInv, [Next]_vars, NEW s \in Shows, job[s].pc = "choose", job'[s].pc = "notfound",
           NEW t \in Torrents, Usable(t, s)
    PROVE  \/ \E o \in Shows \ {s} : table[t].show = o
           \/ table[t].show = s
              /\ Cardinality({u \in Candidates(s) : table[u].at >= table[t].at}) > RowLimit
<1>1. Passing(s, get_rules(s)) = {}
  BY LeavesChoose, Chosen DEF MInv
<1>2. table[t].show \in Shows
  <2>1. Elements(job[s].todo) = {}
    BY DEF MInv, FoundOK, Elements
  <2> QED
    BY <2>1 DEF Usable, MInv, FoundOK
<1>3. CASE table[t].show = s
  <2>1. t \in Candidates(s)
    BY <1>3 DEF Usable, Candidates
  <2>2. t \notin candidate_rows(s)
    BY <1>1, UsablePasses DEF Passing
  <2> QED
    BY <1>3, <2>1, <2>2, RowsRead DEF MInv
<1> QED
  BY <1>2, <1>3

\* The rules, the swarm, the torrents table and the jobs keep their types, and
\* a job names a torrent exactly while a choice stands, for any shows, torrents
\* and searches.
THEOREM TypeCorrect ==
    Spec => []TypeOK
<1>1. ASSUME MInv PROVE TypeOK
  <2>1. RulesTypeOK
    BY <1>1 DEF MInv, RulesInv, RowsOK, EditorsOK, EditOK, Pending, RulesTypeOK
  <2>2. \A s \in Shows : job[s] \in JobType
    BY <1>1 DEF MInv, MatchTypes
  <2>3. ASSUME NEW s \in Shows
        PROVE  /\ job[s].pc \in {"search", "remember", "choose", "auto", "thin", "review",
                                 "batch_only", "notfound", "answered"}
               /\ Elements(job[s].todo) \subseteq Torrents
               /\ job[s].chosen \in Torrents \cup {None} /\ job[s].options \subseteq Torrents
    BY <2>2 DEF JobType, Elements
  <2> QED
    BY <1>1, <2>1, <2>3 DEF MInv, MatchTypes, NamesOK, RowType, TypeOK
<1> QED
  BY <1>1, Inductive, PTL

\* Whoever edits, resets and answers at the same time, the rules of a target
\* whose last change was checked against the rules it went into are valid.
THEOREM CheckedRulesAreValid ==
    Spec => []CheckedRulesValid
<1>1. MInv => CheckedRulesValid
  BY DEF MInv, RulesInv
<1> QED
  BY <1>1, Inductive, PTL

\* While the margin is safe, as it is with the default settings, what decide_verdict
\* downloads without a question is right, alive when it was found, and confident.
THEOREM ChosenIsAlwaysRight ==
    ASSUME MarginIsSafe PROVE Spec => ChosenIsRight
<1>1. ASSUME MInv, [Next]_vars
      PROVE  [\A s \in Shows : (job[s].pc = "choose" /\ job'[s].pc = "auto") =>
                                  Confident(job'[s].chosen, s)]_vars
  BY <1>1, ChoiceStep
<1> QED
  BY <1>1, Inductive, PTL DEF Spec, ChosenIsRight

\* "Nothing usable" is true of what the last search has brought, but for rows
\* another show has taken over and rows beyond the limit of candidate_rows.
THEOREM NotFoundIsTrue ==
    Spec => NotFoundIsReal
<1>1. ASSUME MInv, [Next]_vars
      PROVE  [\A s \in Shows :
                (job[s].pc = "choose" /\ job'[s].pc = "notfound") =>
                    \A t \in Torrents : Usable(t, s) =>
                        \/ \E o \in Shows \ {s} : table[t].show = o
                        \/ table[t].show = s
                           /\ Cardinality({u \in Candidates(s) : table[u].at >= table[t].at})
                                > RowLimit]_vars
  BY <1>1, NotFoundStep
<1> QED
  BY <1>1, Inductive, PTL DEF Spec, NotFoundIsReal
=============================================================================
