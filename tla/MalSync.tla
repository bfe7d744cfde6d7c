------------------------------- MODULE MalSync -------------------------------
(***************************************************************************)
(* The mirror of the user's MyAnimeList: sync.rs, jikan_sync.rs and the    *)
(* season chains of models.rs, behind the token handling of client.rs,     *)
(* connect.rs and login.rs.                                                *)
(*                                                                         *)
(* The daemon syncs in the background while the CLI syncs, logs in, asks   *)
(* for the status or disconnects: processes that share the database, the   *)
(* keyring and the response cache, and nothing else.                       *)
(*                                                                         *)
(* A list entry is kept as a version: 0 not on the list, 1 watching, more  *)
(* for other states.  A token is good while it is the newest one that MAL  *)
(* has issued: a refresh or a login makes every other copy bad.            *)
(***************************************************************************)
EXTENDS Naturals, Sequences, FiniteSetsExt

CONSTANTS
    Shows,          \* MAL ids
    Sequel,         \* <<a, b>>: b is the sequel of a, on MAL
    Versions,       \* the states the list entry of a show takes (bound)
    Procs, Daemon,
    MaxEvents       \* edits of the list, failures, kills, commands (bound)

ASSUME MalSyncAssumption ==
    /\ Shows \subseteq Nat \ {0} /\ IsFiniteSet(Shows) /\ Sequel \subseteq Shows \X Shows
    /\ \A s \in Shows : 1 \in Versions[s] /\ Versions[s] \subseteq Nat
    /\ Daemon \in Procs /\ MaxEvents \in Nat

Sources == {"mal", "jikan"}
Lists   == {l \in [Shows -> UNION {Versions[s] : s \in Shows}] :
              \A s \in Shows : l[s] \in Versions[s]}

VARIABLES
    list,       \* external: the user's list
    cache,      \* the gate's cached answer with the list, of each source
    entries,    \* mal_entries: version and source
    auto,       \* shows.auto
    season,     \* shows.season, 0 while there is no row
    ring,       \* the refresh token in the keyring: none, good or bad
    account,    \* state.account_source, and whether a public profile is set
    due,        \* the sync interval has passed
    f,          \* the processes
    events,     \* counts what MaxEvents bounds
    spoiled,    \* history: a fault cost the account its token
    torn        \* history: shows that a kill left without their entry

db    == <<entries, auto, season, account>>
vars  == <<list, cache, db, ring, due, f, events, spoiled, torn>>

Event == events < MaxEvents /\ events' = events + 1

Empty == [s \in Shows |-> 0]
Idle == [pc |-> "idle", job |-> "none", src |-> "mal", try |-> 2, tok |-> "none",
         got |-> Empty, links |-> {}, order |-> Empty, todo |-> {}, clean |-> FALSE]

Goes(p, pc) == f' = [f EXCEPT ![p].pc = pc]
Ends(p)     == f' = [f EXCEPT ![p] = Idle]

\* A write to the database disturbs the syncs of the other processes.
Writes(p, new) ==
    f' = [r \in Procs |-> IF r = p THEN new ELSE [f[r] EXCEPT !.clean = FALSE]]

-----------------------------------------------------------------------------
(* Chains.                                                                 *)

\* The entries linked with s, directly or not.
Component(on, links, s) ==
    {t \in on : \A C \in SUBSET on :
        s \in C /\ (\A l \in links : l[1] \in C <=> l[2] \in C) => t \in C}

\* Mutant: ids are taken in their order.
Ready_ids(rest, links) == {Min(rest)}

\* The entries nothing that remains precedes; in a cycle, the smallest id.
Ready(rest, links) ==
    LET free == {t \in rest : ~\E u \in rest : <<u, t>> \in links}
    IN  IF free = {} THEN {Min(rest)} ELSE free

\* The orders Kahn's loop may emit: a HashSet yields the ready entries in any.
Orders(component, links) ==
    {o \in [1 .. Cardinality(component) -> component] :
        \A k \in DOMAIN o : o[k] \in Ready(component \ {o[i] : i \in 1 .. k - 1}, links)}

\* build_chains: an entry's season is its place in the order of its component
\* (the code prefers a season named by the title; the titles here name none).
build_chains(on, links) ==
    LET parts == {Component(on, links, s) : s \in on}
        choices == {c \in [parts -> UNION {Orders(q, links) : q \in parts}] :
                      \A q \in parts : c[q] \in Orders(q, links)}
        place(c, s) == LET o == c[Component(on, links, s)]
                       IN  CHOOSE k \in DOMAIN o : o[k] = s
    IN  {[s \in Shows |-> IF s \in on THEN place(c, s) ELSE 0] : c \in choices}

-----------------------------------------------------------------------------
(* Who syncs.                                                              *)

Begins(p, job, try) ==
    f' = [f EXCEPT ![p] = [Idle EXCEPT !.pc = "token", !.job = job, !.try = try]]

\* Mutant: due only before the first sync.
sync_if_due_once(p) ==
    /\ p = Daemon /\ f[p].pc = "idle"
    /\ due /\ ring # "none" /\ \A s \in Shows : season[s] = 0
    /\ Begins(p, "sync", 1)
    /\ UNCHANGED <<list, cache, db, ring, due, events, spoiled, torn>>

\* The daemon's background sync.
sync_if_due(p) ==
    /\ p = Daemon /\ f[p].pc = "idle"
    /\ due /\ ring # "none"
    /\ Begins(p, "sync", 1)
    /\ UNCHANGED <<list, cache, db, ring, due, events, spoiled, torn>>

\* `genrl mal sync`: the public profile if it is the source, or all there is.
mal_sync(p) ==
    /\ p # Daemon /\ f[p].pc = "idle" /\ Event
    /\ LET public == account.profile /\ (account.source = "jikan" \/ ring = "none")
       IN  \/ /\ public
              /\ f' = [f EXCEPT ![p] = [Idle EXCEPT !.pc = "list", !.job = "sync", !.src = "jikan"]]
           \/ /\ ~public /\ ring # "none"
              /\ Begins(p, "sync", 1)
    /\ UNCHANGED <<list, cache, db, ring, due, spoiled, torn>>

mal_status(p) ==
    /\ p # Daemon /\ f[p].pc = "idle" /\ ring # "none" /\ Event
    /\ Begins(p, "status", 2)
    /\ UNCHANGED <<list, cache, db, ring, due, spoiled, torn>>

\* The browser has brought the code back: redirect_code.
mal_login(p) ==
    /\ p # Daemon /\ f[p].pc = "idle" /\ Event
    /\ f' = [f EXCEPT ![p] = [Idle EXCEPT !.pc = "post", !.job = "login", !.tok = "good"]]
    /\ UNCHANGED <<list, cache, db, ring, due, spoiled, torn>>

mal_disconnect ==
    /\ Event
    /\ ring' = "none" /\ account' = [source |-> "none", profile |-> FALSE]
    \* a process that holds a token will still store it
    /\ spoiled' = (spoiled \/ \E p \in Procs : f[p].tok # "none")
    /\ UNCHANGED <<list, cache, entries, auto, season, due, f, torn>>

mal_set_public_profile ==
    /\ Event
    /\ account' = [source |-> "jikan", profile |-> TRUE]
    /\ UNCHANGED <<list, cache, entries, auto, season, ring, due, f, spoiled, torn>>

-----------------------------------------------------------------------------
(* Tokens.                                                                 *)

\* A step fails, the processes being g.  sync() ignores that the account could not be read and tries
\* again for the list; the daemon waits an interval after a failed sync.
Fails(p, g) ==
    IF f[p].job = "sync" /\ f[p].try = 1
    THEN /\ f' = [g EXCEPT ![p] = [@ EXCEPT !.pc = "token", !.try = 2, !.tok = "none"]]
         /\ UNCHANGED due
    ELSE /\ f' = [g EXCEPT ![p] = Idle]
         /\ due' = (due /\ ~(p = Daemon /\ f[p].job = "sync"))

\* A new client holds no access token, so every sync refreshes.
access_token(p) ==
    /\ f[p].pc = "token"
    /\ IF ring = "none" THEN Fails(p, f)
       ELSE /\ f' = [f EXCEPT ![p] = [@ EXCEPT !.pc = "post", !.tok = ring]]
            /\ UNCHANGED due
    /\ UNCHANGED <<list, cache, db, ring, events, spoiled, torn>>

\* The code of a login that is under way, which no refresh makes bad.
HasCode(p) == f[p].job = "login" /\ f[p].pc = "post"

\* MAL issues a token to p: every other copy is bad from now on.
Rotated(p, new) ==
    [r \in Procs |-> IF r = p THEN new
                     ELSE IF f[r].tok = "good" /\ ~HasCode(r)
                          THEN [f[r] EXCEPT !.tok = "bad"] ELSE f[r]]
Outdated == IF ring = "good" THEN "bad" ELSE ring

Holds(p) == f[p].pc = "store" /\ f[p].tok = "good"

\* token_request, answered.
token_request(p) ==
    /\ f[p].pc = "post" /\ f[p].tok = "good"
    /\ ring' = Outdated
    /\ f' = Rotated(p, [f[p] EXCEPT !.pc = "store"])
    /\ spoiled' = (spoiled \/ (f[p].job = "login" /\ \E r \in Procs \ {p} : Holds(r)))
    /\ UNCHANGED <<list, cache, db, due, events, torn>>

\* invalid_grant
token_rejected(p) ==
    /\ f[p].pc = "post" /\ f[p].tok = "bad"
    /\ Fails(p, f)
    /\ UNCHANGED <<list, cache, db, ring, events, spoiled, torn>>

\* No answer: the request, or the answer to it, is lost.
token_lost(p) ==
    /\ f[p].pc = "post" /\ Event
    /\ \/ /\ Fails(p, f)
          /\ UNCHANGED <<ring, spoiled>>
       \/ /\ f[p].tok = "good" /\ Fails(p, Rotated(p, f[p]))
          /\ ring' = Outdated /\ spoiled' = TRUE
    /\ UNCHANGED <<list, cache, db, torn>>

\* Mutant: the rotated token is not stored.
set_refresh_token_not(p) ==
    /\ f[p].pc = "store"
    /\ IF f[p].job = "sync"
       THEN f' = [f EXCEPT ![p] = [@ EXCEPT !.pc = "list", !.tok = "none"]]
       ELSE Ends(p)
    /\ account' = [account EXCEPT !.source = IF f[p].job = "sync" THEN @ ELSE "mal"]
    /\ UNCHANGED <<list, cache, entries, auto, season, ring, due, events, spoiled, torn>>

\* The rotated token is stored before anything else is asked.  A login, and a
\* status that finds its account, make MAL the source.
set_refresh_token(p) ==
    /\ f[p].pc = "store"
    /\ ring' = f[p].tok
    /\ IF f[p].job = "sync"
       THEN f' = [f EXCEPT ![p] = [@ EXCEPT !.pc = "list", !.tok = "none"]]
       ELSE Ends(p)
    /\ account' = [account EXCEPT !.source = IF f[p].job = "sync" THEN @ ELSE "mal"]
    /\ UNCHANGED <<list, cache, entries, auto, season, due, events, spoiled, torn>>

-----------------------------------------------------------------------------
(* A sync.                                                                 *)

\* fetch_list, through the gate's cache.  The sync is clean while no other
\* process writes.
fetch_list(p) ==
    /\ f[p].pc = "list"
    /\ \E got \in IF cache[f[p].src] = {} THEN {list} ELSE cache[f[p].src] :
         /\ cache' = [cache EXCEPT ![f[p].src] = {got}]
         /\ f' = [f EXCEPT ![p] = [@ EXCEPT !.pc = "relations", !.got = got,
                    !.clean = \A r \in Procs \ {p} : f[r].pc = "idle"]]
    /\ UNCHANGED <<list, db, ring, due, events, spoiled, torn>>

\* The list cannot be read (the account was).
fetch_fails(p) ==
    /\ f[p].pc = "list" /\ Event
    /\ Ends(p)
    /\ due' = (due /\ p # Daemon)
    /\ UNCHANGED <<list, cache, db, ring, spoiled, torn>>

\* A lookup of either end finds a link.
KnownLinks(on, failed) ==
    {l \in Sequel : {l[1], l[2]} \subseteq on /\ ~({l[1], l[2]} \subseteq failed)}

\* The relations of every entry, any of which may fail to be looked up; all of
\* them, and a sync from MAL is off.  load.json, the usual public source, is
\* used without.
relations(p) ==
    /\ f[p].pc = "relations"
    /\ LET on == {s \in Shows : f[p].got[s] # 0}
       IN  \E failed \in SUBSET on :
             /\ IF failed = {} \/ (f[p].src = "jikan" /\ failed = on)
                THEN UNCHANGED events ELSE Event
             /\ IF failed # {} /\ failed = on /\ f[p].src = "mal"
                THEN Ends(p) /\ due' = (due /\ p # Daemon)
                ELSE \E order \in build_chains(on, KnownLinks(on, failed)) :
                       /\ f' = [f EXCEPT ![p] = [@ EXCEPT !.order = order, !.todo = on,
                                  !.links = KnownLinks(on, failed),
                                  !.pc = IF on = {} THEN "known" ELSE "upsert"]]
                       /\ UNCHANGED due
    /\ UNCHANGED <<list, cache, db, ring, spoiled, torn>>

\* Mutant: a new show is not inserted.
upsert_show_full_update(p) ==
    /\ f[p].pc = "upsert"
    /\ Writes(p, [f[p] EXCEPT !.pc = "save"])
    /\ UNCHANGED <<list, cache, entries, auto, season, account, ring, due, events, spoiled, torn>>

\* The show, and its names ...
upsert_show_full(p) ==
    /\ f[p].pc = "upsert"
    /\ LET s == Min(f[p].todo)
       IN  /\ season' = [season EXCEPT ![s] = f[p].order[s]]
           /\ auto' = [auto EXCEPT ![s] = (f[p].got[s] = 1)]
           /\ torn' = torn \ {s}
    /\ Writes(p, [f[p] EXCEPT !.pc = "save"])
    /\ UNCHANGED <<list, cache, entries, account, ring, due, events, spoiled>>

\* ... and the entry, if it changed.
save_mal_entry(p) ==
    /\ f[p].pc = "save"
    /\ LET s == Min(f[p].todo)  left == f[p].todo \ {s}
       IN  /\ entries' = [entries EXCEPT ![s] = [v |-> f[p].got[s], src |-> f[p].src]]
           /\ Writes(p, [f[p] EXCEPT !.todo = left,
                           !.pc = IF left = {} THEN "known" ELSE "upsert"])
    /\ UNCHANGED <<list, cache, auto, season, account, ring, due, events, spoiled, torn>>

Gone(p) == {s \in Shows : entries[s].v # 0 /\ f[p].got[s] = 0}

\* Mutant: a sync from MAL looks at the rows of the public profile.
known_jikan(p) == {s \in Gone(p) : entries[s].src = "jikan"}

\* What left the list; for the public profile, of its own rows only.
known(p) == {s \in Gone(p) : f[p].src = "jikan" => entries[s].src = "jikan"}

select_known(p) ==
    /\ f[p].pc = "known"
    /\ f' = [f EXCEPT ![p] = [@ EXCEPT !.todo = known(p),
               !.pc = IF known(p) = {} THEN "end" ELSE "remove"]]
    /\ UNCHANGED <<list, cache, db, ring, due, events, spoiled, torn>>

\* Delete the row, and then switch the show off.
remove_entry(p) ==
    /\ f[p].pc = "remove"
    /\ entries' = [entries EXCEPT ![Min(f[p].todo)] = [v |-> 0, src |-> "mal"]]
    /\ Writes(p, [f[p] EXCEPT !.pc = "off"])
    /\ UNCHANGED <<list, cache, auto, season, account, ring, due, events, spoiled, torn>>

switch_off(p) ==
    /\ f[p].pc = "off"
    /\ LET s == Min(f[p].todo)  left == f[p].todo \ {s}
       IN  /\ auto' = [auto EXCEPT ![s] = FALSE]
           /\ torn' = torn \ {s}
           /\ Writes(p, [f[p] EXCEPT !.todo = left,
                           !.pc = IF left = {} THEN "end" ELSE "remove"])
    /\ UNCHANGED <<list, cache, entries, season, account, ring, due, events, spoiled>>

\* last_mal_sync_at
finish_sync(p) ==
    /\ f[p].pc = "end"
    /\ due' = FALSE
    /\ Ends(p)
    /\ UNCHANGED <<list, cache, db, ring, events, spoiled, torn>>

-----------------------------------------------------------------------------
(* Around it.                                                              *)

\* The user edits the list, on MAL.
Edit(s, v) ==
    /\ list[s] # v /\ Event
    /\ list' = [list EXCEPT ![s] = v]
    /\ UNCHANGED <<cache, db, ring, due, f, spoiled, torn>>

\* Half an hour passes: mal_sync_interval_min, and the gate's cache_ttl.
Elapse ==
    /\ ~due /\ due' = TRUE
    /\ UNCHANGED <<list, cache, db, ring, f, events, spoiled, torn>>

Expire(src) ==
    /\ cache[src] # {}
    /\ cache' = [cache EXCEPT ![src] = {}]
    /\ UNCHANGED <<list, db, ring, due, f, events, spoiled, torn>>

\* A kill may come when a token is on its way, or between two statements.
Kill(p) ==
    /\ f[p].pc # "idle" /\ Event
    /\ torn' = IF f[p].pc \in {"save", "off"} THEN torn \cup {Min(f[p].todo)} ELSE torn
    /\ \/ /\ Ends(p)
          /\ spoiled' = (spoiled \/ Holds(p))
          /\ UNCHANGED ring
       \/ /\ f[p].pc = "post" /\ f[p].tok = "good"
          /\ f' = Rotated(p, Idle)
          /\ ring' = Outdated /\ spoiled' = TRUE
    /\ UNCHANGED <<list, cache, db, due>>

-----------------------------------------------------------------------------
\* The account is connected, perhaps beside a public profile; nothing has been
\* synced.
Init ==
    /\ list = [s \in Shows |-> 1]
    /\ cache = [src \in Sources |-> {}]
    /\ entries = [s \in Shows |-> [v |-> 0, src |-> "mal"]]
    /\ auto = [s \in Shows |-> FALSE]
    /\ season = Empty
    /\ ring = "good"
    /\ account \in {[source |-> "mal", profile |-> FALSE], [source |-> "jikan", profile |-> TRUE]}
    /\ due = TRUE
    /\ f = [p \in Procs |-> Idle]
    /\ events = 0 /\ spoiled = FALSE /\ torn = {}

Step(p) ==
    \/ access_token(p) \/ token_request(p) \/ token_rejected(p) \/ token_lost(p)
    \/ set_refresh_token(p)
    \/ fetch_list(p) \/ fetch_fails(p) \/ relations(p)
    \/ upsert_show_full(p) \/ save_mal_entry(p)
    \/ select_known(p) \/ remove_entry(p) \/ switch_off(p) \/ finish_sync(p)

Next ==
    \/ \E p \in Procs :
         \/ sync_if_due(p) \/ mal_sync(p) \/ mal_status(p) \/ mal_login(p)
         \/ Step(p) \/ Kill(p)
    \/ mal_disconnect \/ mal_set_public_profile
    \/ \E s \in Shows : \E v \in Versions[s] : Edit(s, v)
    \/ Elapse \/ \E src \in Sources : Expire(src)

Spec == Init /\ [][Next]_vars

\* The scheduler starts a sync when one is due; requests end; time passes.
FairSpec ==
    /\ Spec
    /\ WF_vars(sync_if_due(Daemon))
    /\ \A p \in Procs : WF_vars(Step(p))
    /\ WF_vars(Elapse) /\ WF_vars(Expire("mal"))

-----------------------------------------------------------------------------
\* Types; and an entry has its show, which the foreign key asks for.
TypeOK ==
    /\ list \in Lists
    /\ \A src \in Sources : cache[src] \subseteq Lists /\ Cardinality(cache[src]) <= 1
    /\ \A s \in Shows : entries[s] \in [v : Versions[s] \cup {0}, src : Sources]
    /\ auto \in [Shows -> BOOLEAN]
    /\ season \in [Shows -> 0 .. Cardinality(Shows)]
    /\ \A s \in Shows : entries[s].v # 0 => season[s] # 0
    /\ ring \in {"none", "good", "bad"}
    /\ account \in [source : {"none"} \cup Sources, profile : BOOLEAN]
    /\ due \in BOOLEAN /\ spoiled \in BOOLEAN
    /\ \A p \in Procs : f[p].todo \subseteq Shows /\ f[p].tok \in {"none", "good", "bad"}

\* MAL "rotates the refresh token; the fresh one is stored before this returns".
\* So the newest token is in the keyring, or in the hands of the process about
\* to put it there, unless a kill, a lost answer, a login or a disconnect came
\* in between.  A second process that refreshes at the same time costs nothing.
TokenKept ==
    spoiled \/ ring \in {"good", "none"} \/ \E p \in Procs : Holds(p)

\* A sync that no other process disturbs leaves what it read from its source:
\* the entries, and the shows switched on that are being watched.  A show that
\* a kill left switched on without an entry stays so when it leaves the list.
SyncIsExact ==
    [][\A p \in Procs : f[p].pc = "end" /\ f'[p].pc = "idle" /\ f[p].clean =>
         \A s \in Shows :
           /\ f[p].got[s] # 0 => entries[s] = [v |-> f[p].got[s], src |-> f[p].src]
           /\ f[p].got[s] = 0 /\ f[p].src = "mal" => entries[s].v = 0
           /\ (f[p].got[s] # 0 \/ f[p].src = "mal") /\ s \notin torn
                => auto[s] = (f[p].got[s] = 1)]_vars

\* Along the sequel links a sync knows, seasons go up; and the seasons of a
\* chain are 1 .. n.
ChainInOrder ==
    \A p \in Procs : f[p].pc = "upsert" =>
        LET on == {s \in Shows : f[p].got[s] # 0}
            chain(s) == Component(on, f[p].links, s)
        IN  /\ \A l \in f[p].links : f[p].order[l[1]] < f[p].order[l[2]]
            /\ \A s \in on : {f[p].order[t] : t \in chain(s)} = 1 .. Cardinality(chain(s))

\* While the token is good, the mirror catches up with the list again and
\* again, in spite of the cache, of failures and of what the CLI does.
MirrorCatchesUp ==
    []<>(ring # "good" \/ \A s \in Shows : entries[s].v = list[s])
=============================================================================
