------------------------------ MODULE Matching ------------------------------
(***************************************************************************)
(* From a search to a choice: matching/*.rs, score/*.rs, nyaa::search, the *)
(* torrents table (jobs/enqueue.rs, worker/helpers.rs) and the parts of    *)
(* the search and choose steps that use them, under the rules of Rules.    *)
(*                                                                         *)
(* One job per show looks for one episode.  A search remembers what it     *)
(* finds, one transaction per torrent, in a table that all shows share; a  *)
(* later step reads the show's rows back, scores and decides.  In between  *)
(* the other shows search, the swarm changes and the user edits rules.     *)
(*                                                                         *)
(* A release is what filename::parse_release reads from its name:          *)
(*   names     shows with a name at or above the fuzzy threshold           *)
(*   mentions  shows with a name of four letters or more in the raw name   *)
(*   season    0 when the name has none                                    *)
(*   episode   None when the name has none                                 *)
(*   batch     is_batch;  from, to  the episode range, 0 when there is none *)
(*   res, codec, group, size, audio, remade (a year too far off)           *)
(* The type, category, uploader and trusted flag of a candidate are always *)
(* unknown here: candidate_rows does not read them back.  A job always     *)
(* wants a numbered episode.                                               *)
(***************************************************************************)
EXTENDS Rules, FiniteSets, FiniteSetsExt

CONSTANTS
    Torrents,       \* ids, numbers: the order SQLite breaks ties by
    Release,        \* [Torrents -> what the name says]
    Show,           \* [Shows -> [season, episode, aired, auto, total]]
    Hits,           \* [Shows -> Seq(SUBSET Torrents)]: a query per name
    BatchHits,      \* the same for the batch queries of a finished show
    Seeders,        \* [Torrents -> SUBSET Nat]: what the swarm may be
    PerName, StopAfter, \* search_candidates: 1000 and 1000
    RowLimit,       \* candidate_rows: LIMIT 50
    RankLimit,      \* rank: 20
    Shown,          \* match options of a review: 4
    score_threshold, score_margin, min_episode_mb, max_episode_mb, max_batch_mb,
    MaxSearches     \* bound: searches of all jobs

None == -1

ReleaseType ==
    [names : SUBSET Shows, mentions : SUBSET Shows, season : Nat, episode : Nat \cup {None},
     batch : BOOLEAN, from : Nat, to : Nat, res : Nat, codec : STRING, group : STRING,
     size : Nat, audio : STRING, remade : BOOLEAN]

ShowType ==
    [season : Nat \ {0}, episode : Nat, aired : BOOLEAN, auto : BOOLEAN, total : Nat]

ASSUME MatchingAssumption ==
    /\ Torrents \subseteq Nat /\ IsFiniteSet(Torrents) /\ "none" \notin Shows
    /\ \A t \in Torrents : Release[t] \in ReleaseType
    /\ Show \in [Shows -> ShowType]
    /\ \A s \in Shows : {Hits[s], BatchHits[s]} \subseteq Seq(SUBSET Torrents)
    /\ \A t \in Torrents : /\ Seeders[t] \subseteq Nat
                            /\ \E m \in Seeders[t] : \A n \in Seeders[t] : n <= m
    /\ {PerName, StopAfter, RowLimit, RankLimit, Shown} \subseteq Nat \ {0} /\ MaxSearches \in Nat
    /\ {score_threshold, score_margin, min_episode_mb, max_episode_mb, max_batch_mb} \subseteq Int

VARIABLES
    swarm,      \* [Torrents -> Nat]: seeders on Nyaa right now
    table,      \* the torrents table: absent, or show, seeders, found_at, rejected
    job,        \* [Shows -> [pc, todo, chosen, options]]
    searches,   \* searches so far: the clock of found_at
    found       \* history: what the last search of a show remembered

matchVars == <<swarm, table, job, searches, found>>
vars == <<rulesVars, matchVars>>

Absent == [show |-> "none", seeders |-> 0, at |-> 0, rejected |-> FALSE]

\* S in the order in which before[t] are the elements before t.
Sorted(S, before) ==
    [k \in 1 .. Cardinality(S) |-> CHOOSE t \in S : Cardinality(before[t]) = k - 1]

Truncated(s, n) == SubSeq(s, 1, IF Len(s) < n THEN Len(s) ELSE n)
Elements(s) == {s[i] : i \in DOMAIN s}

-----------------------------------------------------------------------------
(* Search.                                                                 *)

\* By the number in w, greatest first, and by id.
ByNumber(S, w) ==
    Sorted(S, [t \in S |-> {u \in S : w[u] > w[t] \/ (w[u] = w[t] /\ u < t)}])

\* nyaa::search, with min_seeders = 1 and the limit of search_candidates.
nyaa_search(hits) ==
    Elements(Truncated(ByNumber({t \in hits : swarm[t] >= 1}, swarm), PerName))

\* search_candidates: name after name until enough is found, each torrent once.
search_candidates(queries) ==
    LET answers(K) == UNION {nyaa_search(queries[k]) : k \in K}
        asked == {k \in DOMAIN queries : Cardinality(answers(1 .. k - 1)) < StopAfter}
    IN  Truncated(ByNumber(answers(asked), swarm), StopAfter)

\* search_step: a finished show whose rules prefer batches is first searched
\* for as a batch.
Search(s) ==
    /\ job[s].pc = "search"
    /\ searches < MaxSearches /\ searches' = searches + 1
    /\ LET batch == Show[s].aired /\ get_rules(s).prefer_batch_when_finished
           seq   == search_candidates((IF batch THEN BatchHits[s] ELSE <<>>) \o Hits[s])
       IN  /\ seq # <<>>    \* else fail_or_reschedule: the job searches again
           /\ job' = [job EXCEPT ![s] = [@ EXCEPT !.pc = "remember", !.todo = seq]]
           /\ found' = [found EXCEPT ![s] = Elements(seq)]
    /\ UNCHANGED <<rulesVars, swarm, table>>

\* remember_candidate: a new row, or new seeders and a new owner for the old
\* one; found_at and rejected stay.
remember_candidate(s) ==
    /\ job[s].pc = "remember" /\ job[s].todo # <<>>
    /\ LET t == Head(job[s].todo)
       IN  table' = [table EXCEPT ![t] =
                IF @ = Absent THEN [show |-> s, seeders |-> swarm[t], at |-> searches,
                                    rejected |-> FALSE]
                ELSE [@ EXCEPT !.show = s, !.seeders = swarm[t]]]
    /\ job' = [job EXCEPT ![s].todo = Tail(@)]
    /\ UNCHANGED <<rulesVars, swarm, searches, found>>

Remembered(s) ==
    /\ job[s].pc = "remember" /\ job[s].todo = <<>>
    /\ job' = [job EXCEPT ![s].pc = "choose"]
    /\ UNCHANGED <<rulesVars, swarm, table, searches, found>>

-----------------------------------------------------------------------------
(* Score.                                                                  *)

\* A release counts as a batch also when a TV release names no episode.
is_batch(r) == r.batch \/ r.episode = None

\* The size policy: a batch by its total and by its share per episode.
SizeFits(r, show) ==
    LET count  == IF r.to > 0 THEN r.to - r.from + 1
                  ELSE IF show.total > 0 THEN show.total ELSE 1
        per_ep == IF is_batch(r) THEN (r.size + count - 1) \div count ELSE r.size
    IN  /\ is_batch(r) => r.size <= max_batch_mb
        /\ per_ep \in min_episode_mb .. max_episode_mb

\* Mutant: a release without a season tag is of no season.
Passes_tagged(t, s, rules) ==
    LET r == Release[t]  show == Show[s]
    IN  /\ table[t].seeders > 0
        /\ r.res > 0 => r.res >= rules.min_resolution
        /\ r.codec \notin rules.codecs_blocked
        /\ SizeFits(r, show)
        /\ s \in r.names \/ r.names \ {s} = {}
        /\ r.mentions \subseteq {s}
        /\ r.episode \notin {None, show.episode} => r.batch
        /\ r.to > 0 => show.episode \in r.from .. r.to
        /\ r.season = show.season

\* evaluate, stage 1 and the rejections of stage 2, in one conjunction.
Passes(t, s, rules) ==
    LET r == Release[t]  show == Show[s]
    IN  /\ table[t].seeders > 0
        /\ r.res > 0 => r.res >= rules.min_resolution
        /\ r.codec \notin rules.codecs_blocked
        /\ SizeFits(r, show)
        /\ s \in r.names \/ r.names \ {s} = {}
        /\ r.mentions \subseteq {s}
        /\ r.episode \notin {None, show.episode} => r.batch
        /\ r.to > 0 => show.episode \in r.from .. r.to
        /\ (IF r.season = 0 THEN 1 ELSE r.season) = show.season

Points(condition, n) == IF condition THEN n ELSE 0

\* evaluate, stage 2: title 50, episode 30, a remake's year -20, and a batch
\* of a finished show 50 or 30.
Signal(t, s, rules) ==
    LET r == Release[t]  show == Show[s]
    IN  Points(s \in r.names, 50) + Points(r.episode = show.episode, 30)
        - Points(r.remade, 20)
        + Points(is_batch(r) /\ show.aired,
                 IF rules.prefer_batch_when_finished THEN 50 ELSE 30)

\* 20 * log10(n + 1) / log10(1001), to the integer below.
seeder_points(n) ==
    IF n >= 100 THEN 13 ELSE IF n >= 10 THEN 6 ELSE 2

\* 10 * 0.5 ^ weeks, to the integer below.
recency(weeks) ==
    IF weeks = 0 THEN 10 ELSE IF weeks = 1 THEN 5 ELSE IF weeks = 2 THEN 2
    ELSE Points(weeks = 3, 1)

GroupRank(r, rules) ==
    LET at == {i \in DOMAIN rules.groups : rules.groups[i] = r.group}
    IN  IF at = {} THEN 0 ELSE Min(at)

\* evaluate, stage 3.  A search is a week: recency halves with each.
Ranking(t, s, rules) ==
    LET r == Release[t]  g == GroupRank(r, rules)
    IN  Points(g > 0, 45 - 5 * g)
        + Points(r.res > 0, IF r.res = rules.preferred_resolution THEN 25 ELSE 10)
        + seeder_points(table[t].seeders)
        + (IF r.audio \in rules.preferred_languages THEN 15
           ELSE Points(r.audio = "dual", 10))
        + recency(searches - table[t].at)
        - Points(r.batch /\ ~(Show[s].aired /\ rules.prefer_batch_when_finished), 50)
        - Points(r.audio = "dub" /\ "dub" \notin rules.preferred_languages, 40)

\* Mutant: the threshold and the margin look at the total.
Score_total(t, s, rules) == Signal(t, s, rules) + Ranking(t, s, rules)

\* What the threshold and the margin look at.
Score(t, s, rules) == Signal(t, s, rules)

-----------------------------------------------------------------------------
(* Choose.                                                                 *)

Candidates(s) == {t \in Torrents : table[t].show = s /\ ~table[t].rejected}

\* candidate_rows: ORDER BY found_at DESC, seeders DESC LIMIT 50.
candidate_rows(s) ==
    LET Newer(a, b) ==
          \/ table[a].at > table[b].at
          \/ table[a].at = table[b].at /\ table[a].seeders > table[b].seeders
          \/ table[a].at = table[b].at /\ table[a].seeders = table[b].seeders /\ a < b
        mine  == Candidates(s)
        newer == [t \in mine |-> {u \in mine : Newer(u, t)}]
    IN  Elements(Truncated(Sorted(mine, newer), RowLimit))

Passing(s, rules) == {t \in candidate_rows(s) : Passes(t, s, rules)}

Total(t, s, rules) == Signal(t, s, rules) + Ranking(t, s, rules)

\* rank: the ones that pass, by total, the best of them.
rank(s, rules) ==
    LET passing == Passing(s, rules)
        total   == [t \in passing |-> Total(t, s, rules)]
    IN  Truncated(ByNumber(passing, total), RankLimit)

\* The first of the tied candidates that is of the most preferred group, or None.
preferred_pick(ranked, tied, rules) ==
    LET ofGroup == {i \in tied : GroupRank(Release[ranked[i]], rules) > 0}
        best    == Min({GroupRank(Release[ranked[i]], rules) : i \in ofGroup})
    IN  IF ofGroup = {} THEN None
        ELSE ranked[Min({i \in ofGroup : GroupRank(Release[ranked[i]], rules) = best})]

\* seed_health and the end of decide_verdict.
ByHealth(t, s, rules) ==
    IF table[t].seeders >= rules.seed_auto_threshold \/ Show[s].auto
    THEN [kind |-> "auto", chosen |-> t]
    ELSE [kind |-> "thin", chosen |-> t]

decide_verdict(ranked, s, rules) ==
    LET signal(i)  == Score(ranked[i], s, rules)
        batchFirst == /\ Release[ranked[1]].batch /\ ~Release[ranked[2]].batch
                      /\ rules.prefer_batch_when_finished
        close      == Len(ranked) > 1 /\ ~batchFirst /\ signal(1) - signal(2) < score_margin
        tied       == {i \in DOMAIN ranked : signal(1) - signal(i) < score_margin}
        picked     == preferred_pick(ranked, tied, rules)
    IN  IF ranked = <<>> THEN [kind |-> "notfound", chosen |-> None]
        ELSE IF signal(1) < score_threshold \/ (close /\ picked = None)
             THEN [kind |-> "review", chosen |-> None]
        ELSE ByHealth(IF close THEN picked ELSE ranked[1], s, rules)

\* choose_step.  Only batches of a show still airing: ask.  A thin match asks
\* about the first of the ranking, whichever was picked.
Verdict(s) ==
    LET rules  == get_rules(s)
        ranked == rank(s, rules)
    IN  IF ~Show[s].aired /\ ranked # <<>> /\ \A t \in Elements(ranked) : Release[t].batch
        THEN [kind |-> "batch_only", chosen |-> ranked[1]]
        ELSE LET v == decide_verdict(ranked, s, rules)
             IN  IF v.kind = "thin" THEN [v EXCEPT !.chosen = ranked[1]] ELSE v

Choose(s) ==
    /\ job[s].pc = "choose"
    /\ LET v == Verdict(s)
       IN  job' = [job EXCEPT ![s] = [@ EXCEPT !.pc = v.kind, !.chosen = v.chosen,
                     !.options = IF v.kind = "review"
                                 THEN Elements(Truncated(rank(s, get_rules(s)), Shown))
                                 ELSE {}]]
    /\ UNCHANGED <<rulesVars, swarm, table, searches, found>>

-----------------------------------------------------------------------------
(* What happens around the choice.                                         *)

\* Nothing usable: fail_or_reschedule sends the job back to its search.
SearchAgain(s) ==
    /\ job[s].pc = "notfound"
    /\ job' = [job EXCEPT ![s].pc = "search"]
    /\ UNCHANGED <<rulesVars, swarm, table, searches, found>>

\* next_candidate: the chosen torrent stalls, is rejected, and the job searches.
reject_candidate(s) ==
    /\ job[s].pc = "auto"
    /\ table' = [table EXCEPT ![job[s].chosen].rejected = TRUE]
    /\ job' = [job EXCEPT ![s] = [@ EXCEPT !.pc = "search", !.chosen = None]]
    /\ UNCHANGED <<rulesVars, swarm, searches, found>>

\* apply_answer to a review: use this one, perhaps always its group.
UseThis(s, t, always) ==
    /\ job[s].pc = "review" /\ t \in job[s].options
    /\ job' = [job EXCEPT ![s] = [@ EXCEPT !.pc = "answered", !.chosen = t, !.options = {}]]
    /\ IF always THEN set_override(s, "groups", <<Release[t].group>>) ELSE UNCHANGED rows
    /\ UNCHANGED <<editor, unchecked, swarm, table, searches, found>>

\* Peers come and go on Nyaa.
SwarmChanges(t, n) ==
    /\ swarm[t] # n
    /\ swarm' = [swarm EXCEPT ![t] = n]
    /\ UNCHANGED <<rulesVars, table, job, searches, found>>

EditRules == RulesNext /\ UNCHANGED matchVars

Init ==
    /\ RulesInit
    /\ swarm = [t \in Torrents |-> Max(Seeders[t])]
    /\ table = [t \in Torrents |-> Absent]
    /\ job = [s \in Shows |-> [pc |-> "search", todo |-> <<>>, chosen |-> None,
                               options |-> {}]]
    /\ searches = 0
    /\ found = [s \in Shows |-> {}]

Next ==
    \/ \E s \in Shows : \/ Search(s) \/ remember_candidate(s) \/ Remembered(s) \/ Choose(s)
                        \/ SearchAgain(s) \/ reject_candidate(s)
    \/ \E s \in Shows, t \in Torrents, always \in BOOLEAN : UseThis(s, t, always)
    \/ \E t \in Torrents : \E n \in Seeders[t] : SwarmChanges(t, n)
    \/ EditRules

Spec == Init /\ [][Next]_vars

-----------------------------------------------------------------------------
(* Properties.                                                             *)

\* The rules, the swarm, the torrents table and the jobs have their types, and
\* a job has a torrent exactly when a choice was made and not taken back.
TypeOK ==
    /\ RulesTypeOK
    /\ swarm \in [Torrents -> Nat]
    /\ table \in [Torrents -> [show : Shows \cup {"none"}, seeders : Nat,
                               at : 0 .. MaxSearches, rejected : BOOLEAN]]
    /\ \A s \in Shows :
         /\ job[s].pc \in {"search", "remember", "choose", "auto", "thin", "review",
                           "batch_only", "notfound", "answered"}
         /\ Elements(job[s].todo) \subseteq Torrents
         /\ job[s].chosen \in Torrents \cup {None} /\ job[s].options \subseteq Torrents
         /\ found[s] \subseteq Torrents
         /\ (job[s].chosen # None) <=>
              job[s].pc \in {"auto", "thin", "batch_only", "answered"}
    /\ searches \in 0 .. MaxSearches

\* What a reader of the release names would call the right release: of this
\* show, or of no show by name, of its season, with the wanted episode in it.
Right(t, s) ==
    LET r == Release[t]
    IN  /\ s \in r.names \/ r.names = {}
        /\ r.mentions \subseteq {s}
        /\ r.season = Show[s].season \/ (r.season = 0 /\ Show[s].season = 1)
        /\ r.episode = Show[s].episode \/ is_batch(r)
        /\ r.to > 0 => r.from <= Show[s].episode /\ Show[s].episode <= r.to

\* A right torrent that was alive when it was found, with a signal that reaches
\* the threshold.
Confident(t, s) ==
    /\ Right(t, s) /\ t \in found[s] \cup {u \in Torrents : table[u].at < searches}
    /\ table[t].seeders > 0
    /\ Signal(t, s, get_rules(s)) >= score_threshold

\* Whatever the others do to the shared table, and whatever the user's group
\* preferences, a torrent chosen without a question is right and confident:
\* "ranking never rescues a candidate the signal score doubts".
ChosenIsRight ==
    [][\A s \in Shows : (job[s].pc = "choose" /\ job'[s].pc = "auto") =>
                           Confident(job'[s].chosen, s)]_vars

\* A right torrent within the limits of the rules and the size policy that
\* the last search of the show has brought.
Usable(t, s) ==
    /\ t \in found[s] /\ Right(t, s)
    /\ table[t].seeders > 0 /\ ~table[t].rejected
    /\ Release[t].res >= get_rules(s).min_resolution
    /\ Release[t].codec \notin get_rules(s).codecs_blocked
    /\ SizeFits(Release[t], Show[s])

\* "Nothing usable" is true of what the search has just found, but for two
\* ways a find gets lost: another show's search has taken over its row, or
\* RowLimit other rows of the show stand before it.
NotFoundIsReal ==
    [][\A s \in Shows :
        (job[s].pc = "choose" /\ job'[s].pc = "notfound") =>
            \A t \in Torrents : Usable(t, s) =>
                \/ \E o \in Shows \ {s} : table[t].show = o
                \/ table[t].show = s
                   /\ Cardinality({u \in Candidates(s) : table[u].at >= table[t].at}) > RowLimit]_vars

\* "Candidate limit is applied AFTER episode and season matching": more rows
\* than the limit do not hide a usable one.  candidate_rows refutes it.
LimitAfterMatching ==
    [][\A s \in Shows :
        (job[s].pc = "choose" /\ job'[s].pc = "notfound") =>
            \A t \in Candidates(s) : ~Passes(t, s, get_rules(s))]_vars

=============================================================================
