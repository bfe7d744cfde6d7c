---------------------------- MODULE MalSyncProofs ----------------------------
(***************************************************************************)
(* The mirror of the MAL list, for any number of shows and processes:      *)
(* the newest token is not lost without a fault, a sync that is left alone *)
(* is exact, and seasons follow the sequel links.                          *)
(***************************************************************************)
EXTENDS MalSync, TLAPS, FiniteSetTheorems, WellFoundedInduction

\* The smallest of a set of numbers is one of them.
LEMMA MinIn ==
    ASSUME NEW S, S \subseteq Nat, S # {}
    PROVE  Min(S) \in S /\ \A y \in S : Min(S) <= y
<1> DEFINE R == OpToRel(<, Nat)
<1>1. IsWellFoundedOn(R, Nat)
  BY NatLessThanWellFounded, Zenon
<1>2. \A x, y \in Nat : y < x => <<y, x>> \in R
  BY DEF OpToRel
<1> HIDE DEF R
<1>3. PICK x \in S : \A y \in S : ~ (<<y, x>> \in R)
  BY <1>1, WFMin
<1>4. \A y \in S : ~(y < x)
  BY <1>2, <1>3
<1>5. \A y \in S : x <= y
  BY <1>4
<1> QED
  BY <1>5 DEF Min

-----------------------------------------------------------------------------
(* Chains.  A component is closed under links, and an order of it gives    *)
(* each of its entries one place.                                          *)

Closed(C, links) == \A l \in links : l[1] \in C <=> l[2] \in C

\* An entry is in its component, which no link leaves.
LEMMA ComponentClosed ==
    ASSUME NEW on, NEW links \in SUBSET (on \X on), NEW s \in on
    PROVE  /\ s \in Component(on, links, s) /\ Component(on, links, s) \subseteq on
           /\ Closed(Component(on, links, s), links)
<1>1. \A l \in links : l[1] \in on /\ l[2] \in on
  OBVIOUS
<1> QED
  BY <1>1 DEF Component, Closed

\* The entries of a component have the same one.
LEMMA ComponentShared ==
    ASSUME NEW on, NEW links \in SUBSET (on \X on), NEW s \in on,
           NEW t \in Component(on, links, s)
    PROVE  Component(on, links, t) = Component(on, links, s)
<1>0. t \in on /\ \A l \in links : l[1] \in on /\ l[2] \in on
  BY DEF Component
<1>1. Component(on, links, t) \subseteq Component(on, links, s)
  BY DEF Component
<1>2. s \in Component(on, links, t)
  <2> SUFFICES ASSUME NEW C \in SUBSET on, t \in C, Closed(C, links), s \notin C
               PROVE  FALSE
    BY DEF Component, Closed
  <2>1. Closed(on \ C, links)
    BY <1>0 DEF Closed
  <2> QED
    BY <2>1 DEF Component, Closed
<1>3. Component(on, links, s) \subseteq Component(on, links, t)
  BY <1>2 DEF Component
<1> QED
  BY <1>1, <1>3

\* What is ready remains to be placed.
LEMMA ReadyRemains ==
    ASSUME NEW rest \in SUBSET Nat, rest # {}, NEW links
    PROVE  Ready(rest, links) \subseteq rest
BY MinIn DEF Ready

\* k - 1 places do not hold all of a component.
LEMMA PlacesLeft ==
    ASSUME NEW q, IsFiniteSet(q), NEW o \in [1 .. Cardinality(q) -> q],
           NEW k \in 1 .. Cardinality(q)
    PROVE  q \ {o[i] : i \in 1 .. k - 1} # {}
<1>0. Cardinality(q) \in Nat
  BY FS_CardinalityType
<1> SUFFICES ASSUME q \subseteq {o[i] : i \in 1 .. k - 1}
             PROVE  FALSE
  OBVIOUS
<1> DEFINE g == [i \in 1 .. k - 1 |-> o[i]]
<1>1. g \in Surjection(1 .. k - 1, q)
  <2>1. g \in [1 .. k - 1 -> q]
    BY <1>0
  <2>2. \A x \in q : \E i \in 1 .. k - 1 : g[i] = x
    OBVIOUS
  <2> QED
    BY <2>1, <2>2 DEF Surjection
<1> HIDE DEF g
<1>2. IsFiniteSet(1 .. k - 1) /\ Cardinality(1 .. k - 1) = k - 1
  <2>1. 1 \in Int /\ k - 1 \in Int /\ k \in Nat /\ k >= 1
    BY <1>0
  <2>2. Cardinality(1 .. k - 1) = IF 1 > k - 1 THEN 0 ELSE (k - 1) - 1 + 1
    BY <2>1, FS_Interval, Zenon
  <2>3. IsFiniteSet(1 .. k - 1)
    BY <2>1, FS_Interval
  <2> QED
    BY <2>1, <2>2, <2>3
<1>3. Cardinality(q) <= k - 1
  BY <1>1, <1>2, FS_Surjection
<1> QED
  BY <1>0, <1>3

\* Every entry of a component has one place in an order of it.
LEMMA OrderPlaces ==
    ASSUME NEW q \in SUBSET Nat, IsFiniteSet(q), NEW links, NEW o \in Orders(q, links)
    PROVE  /\ o \in [1 .. Cardinality(q) -> q] /\ Cardinality(q) \in Nat
           /\ \A i, k \in 1 .. Cardinality(q) : o[i] = o[k] => i = k
           /\ \A t \in q : \E k \in 1 .. Cardinality(q) : o[k] = t
<1> DEFINE n == Cardinality(q)
           rest(k) == q \ {o[i] : i \in 1 .. k - 1}
<1>1. o \in [1 .. n -> q] /\ \A k \in 1 .. n : o[k] \in Ready(rest(k), links)
  BY DEF Orders
<1>2. n \in Nat
  BY FS_CardinalityType
<1>3. \A k \in 1 .. n : o[k] \in rest(k)
  <2> TAKE k \in 1 .. n
  <2>1. rest(k) # {}
    BY <1>1, PlacesLeft
  <2>2. rest(k) \in SUBSET Nat
    OBVIOUS
  <2> HIDE DEF rest
  <2> QED
    BY <1>1, <2>1, <2>2, ReadyRemains
<1>4. \A i, k \in 1 .. n : i < k => o[i] # o[k]
  BY <1>2, <1>3
<1>5. \A i, k \in 1 .. n : o[i] = o[k] => i = k
  <2> SUFFICES ASSUME NEW i \in 1 .. n, NEW k \in 1 .. n, o[i] = o[k], i # k
               PROVE  FALSE
    OBVIOUS
  <2>1. i < k \/ k < i
    BY <1>2
  <2> QED
    BY <2>1, <1>4
<1> HIDE DEF n
<1>6. o \in Injection(1 .. n, q)
  BY <1>1, <1>5 DEF Injection, IsInjective
<1>7. Cardinality(1 .. n) = n
  BY <1>2, FS_Interval
<1>8. o \in Surjection(1 .. n, q)
  BY <1>6, <1>7, FS_Injection DEF n
<1> QED
  BY <1>1, <1>2, <1>5, <1>8 DEF Surjection, n

\* Some assignment of ranks goes up along the sequel links: they have no cycle.
Acyclic ==
    \E rank \in [Shows -> Nat] : \A l \in Sequel : rank[l[1]] < rank[l[2]]

\* Without a cycle, nothing is placed before an entry that precedes it.
LEMMA OrderRises ==
    ASSUME Acyclic, NEW q \in SUBSET Shows, NEW links \in SUBSET Sequel,
           NEW o \in Orders(q, links),
           NEW i \in 1 .. Cardinality(q), NEW k \in 1 .. Cardinality(q),
           <<o[i], o[k]>> \in links
    PROVE  i < k
<1>0. q \in SUBSET Nat /\ IsFiniteSet(q)
  BY MalSyncAssumption, FS_Subset
<1>1. /\ o \in [1 .. Cardinality(q) -> q] /\ Cardinality(q) \in Nat
      /\ \A a, b \in 1 .. Cardinality(q) : o[a] = o[b] => a = b
  BY <1>0, OrderPlaces
<1> PICK rank \in [Shows -> Nat] : \A l \in Sequel : rank[l[1]] < rank[l[2]]
  BY DEF Acyclic
<1>a. \A a, b : <<a, b>> \in links => rank[a] < rank[b]
  OBVIOUS
<1> DEFINE rest == q \ {o[m] : m \in 1 .. k - 1}
<1> SUFFICES ASSUME k <= i PROVE FALSE
  BY <1>1
<1>2. o[k] \in Ready(rest, links)
  BY DEF Orders
<1>3. o[i] \in rest
  <2> SUFFICES ASSUME NEW m \in 1 .. k - 1, o[m] = o[i] PROVE FALSE
    BY <1>1
  <2>1. m \in 1 .. Cardinality(q) /\ m # i
    BY <1>1
  <2> QED
    BY <2>1, <1>1
<1> HIDE DEF rest
<1>4. PICK t \in rest : \A u \in rest : rank[t] <= rank[u]
  <2> DEFINE ranks == {rank[u] : u \in rest}
  <2>1. ranks \subseteq Nat /\ ranks # {}
    BY <1>3 DEF rest
  <2>2. Min(ranks) \in ranks /\ \A y \in ranks : Min(ranks) <= y
    BY <2>1, MinIn
  <2> HIDE DEF ranks
  <2>3. PICK t \in rest : rank[t] = Min(ranks)
    BY <2>2 DEF ranks
  <2>4. \A u \in rest : rank[u] \in ranks
    BY DEF ranks
  <2> QED
    BY <2>2, <2>3, <2>4
<1>5. ~\E u \in rest : <<u, t>> \in links
  <2> SUFFICES ASSUME NEW u \in rest, <<u, t>> \in links PROVE FALSE
    OBVIOUS
  <2>1. rank[u] < rank[t] /\ rank[t] <= rank[u]
    BY <1>4, <1>a
  <2>2. rank[u] \in Nat /\ rank[t] \in Nat
    BY DEF rest
  <2> QED
    BY <2>1, <2>2
<1> QED
  BY <1>2, <1>3, <1>4, <1>5 DEF Ready

\* build_chains gives the entries of each chain the seasons 1 .. n, in an order
\* that agrees with the links.
LEMMA ChainsPlaced ==
    ASSUME NEW on \in SUBSET Shows, NEW links \in SUBSET Sequel, links \subseteq on \X on,
           NEW order \in build_chains(on, links)
    PROVE  /\ order \in [Shows -> 0 .. Cardinality(Shows)] /\ \A s \in on : order[s] # 0
           /\ \A s \in on : {order[t] : t \in Component(on, links, s)}
                              = 1 .. Cardinality(Component(on, links, s))
           /\ Acyclic => \A l \in links : order[l[1]] < order[l[2]]
<1> DEFINE comp(s) == Component(on, links, s)
           parts == {comp(s) : s \in on}
           place(c, s) == CHOOSE k \in DOMAIN c[comp(s)] : c[comp(s)][k] = s
<1>1. PICK c \in [parts -> UNION {Orders(q, links) : q \in parts}] :
         /\ \A q \in parts : c[q] \in Orders(q, links)
         /\ order = [s \in Shows |-> IF s \in on THEN place(c, s) ELSE 0]
  BY DEF build_chains
<1>2. \A s \in on : s \in comp(s) /\ comp(s) \in SUBSET on /\ Closed(comp(s), links)
  BY ComponentClosed
<1>3. \A s \in on : \A t \in comp(s) : comp(t) = comp(s)
  BY ComponentShared
<1>4. \A s \in on : comp(s) \in SUBSET Nat /\ IsFiniteSet(comp(s)) /\ comp(s) \in SUBSET Shows
                    /\ Cardinality(comp(s)) <= Cardinality(Shows)
  BY <1>2, MalSyncAssumption, FS_Subset
<1>5. Cardinality(Shows) \in Nat
  BY MalSyncAssumption, FS_CardinalityType
<1>6. \A s \in on : c[comp(s)] \in Orders(comp(s), links) /\ order[s] = place(c, s)
  BY <1>1
<1> HIDE DEF comp, parts, place
<1>7. \A s \in on :
         /\ order[s] \in 1 .. Cardinality(comp(s)) /\ c[comp(s)][order[s]] = s
         /\ Cardinality(comp(s)) \in Nat
         /\ c[comp(s)] \in [1 .. Cardinality(comp(s)) -> comp(s)]
         /\ \A i, k \in 1 .. Cardinality(comp(s)) : c[comp(s)][i] = c[comp(s)][k] => i = k
  <2> TAKE s \in on
  <2> DEFINE o == c[comp(s)]  n == Cardinality(comp(s))
  <2>1. /\ o \in [1 .. n -> comp(s)] /\ n \in Nat
        /\ \A i, k \in 1 .. n : o[i] = o[k] => i = k
        /\ \A t \in comp(s) : \E k \in 1 .. n : o[k] = t
    BY <1>4, <1>6, OrderPlaces
  <2>2. \E k \in DOMAIN o : o[k] = s
    BY <2>1, <1>2
  <2>3. place(c, s) \in DOMAIN o /\ o[place(c, s)] = s
    BY <2>2 DEF place
  <2> QED
    BY <2>1, <2>3, <1>6
<1>8. order \in [Shows -> 0 .. Cardinality(Shows)] /\ \A s \in on : order[s] # 0
  <2>1. \A s \in Shows : order[s] \in 0 .. Cardinality(Shows) /\ (s \in on => order[s] # 0)
    <3> TAKE s \in Shows
    <3>1. CASE s \in on
      BY <3>1, <1>7, <1>4, <1>5
    <3>2. CASE s \notin on
      BY <3>2, <1>1, <1>5
    <3> QED
      BY <3>1, <3>2
  <2> QED
    BY <2>1, <1>1
<1>9. ASSUME NEW s \in on
      PROVE  {order[t] : t \in comp(s)} = 1 .. Cardinality(comp(s))
  <2>1. \A t \in comp(s) : t \in on /\ comp(t) = comp(s)
    BY <1>2, <1>3
  <2>2. \A t \in comp(s) : order[t] \in 1 .. Cardinality(comp(s))
    BY <2>1, <1>7
  <2>3. ASSUME NEW k \in 1 .. Cardinality(comp(s))
        PROVE  \E t \in comp(s) : order[t] = k
    <3> DEFINE t == c[comp(s)][k]
    <3>1. t \in comp(s)
      BY <1>7
    <3>2. /\ order[t] \in 1 .. Cardinality(comp(s)) /\ c[comp(s)][order[t]] = t
      BY <3>1, <2>1, <1>7
    <3>3. order[t] = k
      BY <3>2, <1>7
    <3> QED
      BY <3>1, <3>3
  <2> QED
    BY <2>2, <2>3
<1>10. ASSUME Acyclic, NEW l \in links
       PROVE  order[l[1]] < order[l[2]]
  <2>1. l[1] \in on /\ l[2] \in on /\ l = <<l[1], l[2]>>
    OBVIOUS
  <2>2. l[2] \in comp(l[1])
    BY <2>1, <1>2 DEF Closed
  <2>3. comp(l[2]) = comp(l[1])
    BY <2>1, <2>2, <1>3
  <2> DEFINE q == comp(l[1])  o == c[q]  i == order[l[1]]  k == order[l[2]]
  <2>4. /\ o \in Orders(q, links) /\ q \in SUBSET Shows
        /\ i \in 1 .. Cardinality(q) /\ k \in 1 .. Cardinality(q)
        /\ o[i] = l[1] /\ o[k] = l[2]
    BY <2>1, <2>3, <1>6, <1>4, <1>7
  <2>5. <<o[i], o[k]>> \in links
    BY <2>1, <2>4
  <2> HIDE DEF q, o, i, k
  <2>6. i < k
    BY <1>10, <2>4, <2>5, OrderRises
  <2> QED
    BY <2>6 DEF i, k
<1> QED
  BY <1>8, <1>9, <1>10 DEF comp

\* The links a sync knows join entries of its list.
LEMMA LinksKnown ==
    ASSUME NEW on \in SUBSET Shows, NEW failed
    PROVE  /\ KnownLinks(on, failed) \in SUBSET Sequel
           /\ KnownLinks(on, failed) \subseteq on \X on
BY MalSyncAssumption DEF KnownLinks

-----------------------------------------------------------------------------
(* The inductive invariant.                                                *)

Proc == [pc : {"idle", "token", "post", "store", "list", "relations", "upsert", "save",
               "known", "remove", "off", "end"},
         job : {"none", "sync", "status", "login"}, src : Sources, try : {1, 2},
         tok : {"none", "good", "bad"}, got : [Shows -> Nat], links : SUBSET Sequel,
         order : [Shows -> 0 .. Cardinality(Shows)], todo : SUBSET Shows, clean : BOOLEAN]

\* What a process has read from the list.
On(r) == {s \in Shows : r.got[s] # 0}

\* ChainInOrder, of one process.
ChainOK(r) ==
    /\ Acyclic => \A l \in r.links : r.order[l[1]] < r.order[l[2]]
    /\ \A s \in On(r) : {r.order[t] : t \in Component(On(r), r.links, s)}
                          = 1 .. Cardinality(Component(On(r), r.links, s))

\* A process at its pc has what that needs.
ProcOK(r) ==
    /\ r \in Proc
    /\ \A s \in Shows : r.got[s] \in Versions[s] \cup {0}
    /\ r.pc \in {"post", "store"} => r.tok # "none"
    /\ r.pc \in {"upsert", "save", "remove", "off"} => r.todo # {}
    /\ r.pc \in {"upsert", "save"} =>
         r.todo \subseteq On(r) /\ (\A s \in On(r) : r.order[s] # 0) /\ ChainOK(r)
    /\ r.clean => r.pc \notin {"idle", "token", "post", "store", "list"}

ProcsOK == f = [p \in Procs |-> f[p]] /\ \A p \in Procs : ProcOK(f[p])

SourceOK ==
    /\ list \in Lists
    /\ cache = [src \in Sources |-> cache[src]]
    /\ \A src \in Sources : cache[src] \subseteq Lists /\ Cardinality(cache[src]) <= 1

\* An entry has its show, and one about to be written will.
MirrorOK ==
    /\ entries = [s \in Shows |-> entries[s]]
    /\ \A s \in Shows : entries[s] \in [v : Versions[s] \cup {0}, src : Sources]
    /\ auto \in [Shows -> BOOLEAN] /\ season \in [Shows -> 0 .. Cardinality(Shows)]
    /\ \A s \in Shows : entries[s].v # 0 => season[s] # 0
    /\ \A p \in Procs : f[p].pc = "save" => season[Min(f[p].todo)] # 0

AccountOK ==
    /\ ring \in {"none", "good", "bad"}
    /\ account \in [source : {"none"} \cup Sources, profile : BOOLEAN]

Types == ProcsOK /\ SourceOK /\ MirrorOK /\ AccountOK /\ due \in BOOLEAN /\ spoiled \in BOOLEAN

\* While a process holds the newest token, every other copy of a token is bad:
\* in the keyring and in the other processes.  One that holds a bad token to
\* store got it there by a fault.
TokenInv ==
    /\ \A p, r \in Procs : Holds(p) /\ r # p => f[r].tok # "good" \/ HasCode(r)
    /\ \A p \in Procs : Holds(p) => ring # "good"
    /\ \A p \in Procs : f[p].pc = "store" /\ f[p].tok = "bad" => spoiled
    /\ TokenKept

\* The row of s is what p read.
Mirrored(p, s) ==
    entries[s] = [v |-> f[p].got[s], src |-> f[p].src] /\ auto[s] = (f[p].got[s] = 1)

\* How far a sync that nothing has disturbed has got.
Progress(p) ==
    /\ f[p].pc \in {"upsert", "save"} => \A s \in On(f[p]) \ f[p].todo : Mirrored(p, s)
    /\ f[p].pc = "save" => auto[Min(f[p].todo)] = (f[p].got[Min(f[p].todo)] = 1)
    /\ f[p].pc \in {"known", "remove", "off", "end"} => \A s \in On(f[p]) : Mirrored(p, s)
    /\ f[p].pc \in {"remove", "off"} =>
         /\ f[p].todo \cap On(f[p]) = {}
         /\ f[p].src = "mal" => Gone(p) \subseteq f[p].todo
    /\ f[p].pc = "off" => entries[Min(f[p].todo)].v = 0
    /\ f[p].pc = "end" /\ f[p].src = "mal" => Gone(p) = {}

\* Between the two writes of a show.
Between(p) == f[p].pc \in {"save", "off"}

ExactInv ==
    /\ \A p, r \in Procs : f[p].clean /\ f[r].clean => p = r
    /\ \A p, r \in Procs : f[p].clean /\ r # p => ~Between(r)
    /\ \A p \in Procs : f[p].clean => Progress(p)
    \* a show is on without an entry only between those writes, or after a kill there
    /\ \A s \in Shows : auto[s] /\ entries[s].v = 0 =>
         s \in torn \/ \E p \in Procs : Between(p) /\ s = Min(f[p].todo)

Inv == Types /\ TokenInv /\ ExactInv

-----------------------------------------------------------------------------
(* Records.                                                                *)

\* A list that was read is of the type of the field that keeps it.
LEMMA ListType ==
    ASSUME NEW l \in Lists
    PROVE  l \in [Shows -> Nat] /\ \A s \in Shows : l[s] \in Versions[s]
BY MalSyncAssumption DEF Lists

LEMMA EmptyType ==
    Empty \in [Shows -> Nat] /\ Empty \in [Shows -> 0 .. Cardinality(Shows)]
<1>1. 0 \in 0 .. Cardinality(Shows)
  BY MalSyncAssumption, FS_CardinalityType
<1> QED
  BY <1>1 DEF Empty

\* Where processes begin.
LEMMA NewProcs ==
    /\ ProcOK(Idle)
    /\ ProcOK([Idle EXCEPT !.pc = "token", !.job = "sync", !.try = 1])
    /\ ProcOK([Idle EXCEPT !.pc = "token", !.job = "status", !.try = 2])
    /\ ProcOK([Idle EXCEPT !.pc = "list", !.job = "sync", !.src = "jikan"])
    /\ ProcOK([Idle EXCEPT !.pc = "post", !.job = "login", !.tok = "good"])
<1>1. \A s \in Shows : Empty[s] = 0
  BY DEF Empty
<1> USE EmptyType DEF ProcOK, Proc, Sources, Idle
<1>2. ProcOK(Idle)
  BY <1>1
<1>3. /\ ProcOK([Idle EXCEPT !.pc = "token", !.job = "sync", !.try = 1])
      /\ ProcOK([Idle EXCEPT !.pc = "token", !.job = "status", !.try = 2])
  BY <1>1
<1>4. ProcOK([Idle EXCEPT !.pc = "list", !.job = "sync", !.src = "jikan"])
  BY <1>1
<1>5. ProcOK([Idle EXCEPT !.pc = "post", !.job = "login", !.tok = "good"])
  BY <1>1
<1> QED
  BY <1>2, <1>3, <1>4, <1>5, Zenon

\* The next item of what a process has to do.
LEMMA NextItem ==
    ASSUME NEW r, ProcOK(r), r.pc \in {"upsert", "save", "remove", "off"}
    PROVE  Min(r.todo) \in r.todo /\ Min(r.todo) \in Shows
<1>1. r.todo \subseteq Nat /\ r.todo # {} /\ r.todo \subseteq Shows
  BY MalSyncAssumption DEF ProcOK, Proc
<1> QED
  BY <1>1, MinIn

\* A process that keeps its list, its links and its order keeps its chains.
LEMMA ChainKept ==
    ASSUME NEW r, NEW new,
           new.got = r.got, new.links = r.links, new.order = r.order
    PROVE  On(new) = On(r) /\ (ChainOK(r) => ChainOK(new))
<1>1. On(new) = On(r)
  BY DEF On
<1> QED
  BY <1>1 DEF ChainOK

\* What the actions make of a process, before it has the list ...
LEMMA TokenWrites ==
    ASSUME NEW r, ProcOK(r)
    PROVE  /\ ProcOK([r EXCEPT !.clean = FALSE]) /\ ProcOK([r EXCEPT !.tok = "bad"])
           /\ r.pc \in {"token", "post"} =>
                ProcOK([r EXCEPT !.pc = "token", !.try = 2, !.tok = "none"])
           /\ r.pc = "token" => \A t \in {"good", "bad"} :
                ProcOK([r EXCEPT !.pc = "post", !.tok = t])
           /\ r.pc = "post" => ProcOK([r EXCEPT !.pc = "store"])
           /\ r.pc = "store" => ProcOK([r EXCEPT !.pc = "list", !.tok = "none"])
           /\ r.pc = "list" => \A got \in Lists, c \in BOOLEAN :
                ProcOK([r EXCEPT !.pc = "relations", !.got = got, !.clean = c])
<1> USE DEF ProcOK, Proc
<1>1. ProcOK([r EXCEPT !.clean = FALSE])
  <2> DEFINE new == [r EXCEPT !.clean = FALSE]
  <2>1. On(new) = On(r) /\ (ChainOK(r) => ChainOK(new))
    BY ChainKept
  <2> QED
    BY <2>1
<1>2. ProcOK([r EXCEPT !.tok = "bad"])
  <2> DEFINE new == [r EXCEPT !.tok = "bad"]
  <2>1. On(new) = On(r) /\ (ChainOK(r) => ChainOK(new))
    BY ChainKept
  <2> QED
    BY <2>1
<1>3. r.pc \in {"token", "post"} =>
        ProcOK([r EXCEPT !.pc = "token", !.try = 2, !.tok = "none"])
  OBVIOUS
<1>4. r.pc = "token" => \A t \in {"good", "bad"} : ProcOK([r EXCEPT !.pc = "post", !.tok = t])
  OBVIOUS
<1>5. r.pc = "post" => ProcOK([r EXCEPT !.pc = "store"])
  OBVIOUS
<1>6. r.pc = "store" => ProcOK([r EXCEPT !.pc = "list", !.tok = "none"])
  OBVIOUS
<1>7. r.pc = "list" => \A got \in Lists, c \in BOOLEAN :
        ProcOK([r EXCEPT !.pc = "relations", !.got = got, !.clean = c])
  BY ListType
<1> QED
  BY <1>1, <1>2, <1>3, <1>4, <1>5, <1>6, <1>7

\* ... when it has the relations ...
LEMMA ChainWrites ==
    ASSUME NEW r, ProcOK(r), r.pc = "relations", NEW failed,
           NEW order \in build_chains(On(r), KnownLinks(On(r), failed))
    PROVE  ProcOK([r EXCEPT !.order = order, !.todo = On(r),
                     !.links = KnownLinks(On(r), failed),
                     !.pc = IF On(r) = {} THEN "known" ELSE "upsert"])
<1> DEFINE on == On(r)
           links == KnownLinks(on, failed)
           new == [r EXCEPT !.order = order, !.todo = on, !.links = links,
                     !.pc = IF on = {} THEN "known" ELSE "upsert"]
<1>1. on \in SUBSET Shows
  BY DEF On
<1>2. links \in SUBSET Sequel /\ links \subseteq on \X on
  BY <1>1, LinksKnown
<1> HIDE DEF on, links
<1>3. /\ order \in [Shows -> 0 .. Cardinality(Shows)] /\ \A s \in on : order[s] # 0
      /\ \A s \in on : {order[t] : t \in Component(on, links, s)}
                              = 1 .. Cardinality(Component(on, links, s))
      /\ Acyclic => \A l \in links : order[l[1]] < order[l[2]]
  BY <1>1, <1>2, ChainsPlaced DEF on, links
<1>4. /\ new.order = order /\ new.todo = on /\ new.links = links /\ new.got = r.got
      /\ new.pc = (IF on = {} THEN "known" ELSE "upsert") /\ new.tok = r.tok
      /\ new.clean = r.clean
  BY DEF ProcOK, Proc
<1>5. new \in Proc
  BY <1>1, <1>2, <1>3 DEF ProcOK, Proc
<1> HIDE DEF new
<1>6. On(new) = on
  BY <1>4 DEF On, on
<1>7. ChainOK(new)
  BY <1>3, <1>4, <1>6 DEF ChainOK
<1>8. ProcOK(new)
  BY <1>3, <1>4, <1>5, <1>6, <1>7 DEF ProcOK
<1> QED
  BY <1>8 DEF new, on, links

\* ... and as it writes.
LEMMA SyncWrites ==
    ASSUME NEW r, ProcOK(r)
    PROVE  /\ r.pc = "upsert" => ProcOK([r EXCEPT !.pc = "save"])
           /\ r.pc = "save" => \A left \in SUBSET r.todo :
                ProcOK([r EXCEPT !.todo = left, !.pc = IF left = {} THEN "known" ELSE "upsert"])
           /\ r.pc = "known" => \A todo \in SUBSET Shows :
                ProcOK([r EXCEPT !.todo = todo, !.pc = IF todo = {} THEN "end" ELSE "remove"])
           /\ r.pc = "remove" => ProcOK([r EXCEPT !.pc = "off"])
           /\ r.pc = "off" => \A left \in SUBSET r.todo :
                ProcOK([r EXCEPT !.todo = left, !.pc = IF left = {} THEN "end" ELSE "remove"])
<1> USE DEF ProcOK, Proc
<1>1. r.pc = "upsert" => ProcOK([r EXCEPT !.pc = "save"])
  <2> DEFINE new == [r EXCEPT !.pc = "save"]
  <2>1. On(new) = On(r) /\ (ChainOK(r) => ChainOK(new))
    BY ChainKept
  <2> QED
    BY <2>1
<1>2. r.pc = "save" => \A left \in SUBSET r.todo :
        ProcOK([r EXCEPT !.todo = left, !.pc = IF left = {} THEN "known" ELSE "upsert"])
  <2> SUFFICES ASSUME r.pc = "save", NEW left \in SUBSET r.todo
               PROVE  ProcOK([r EXCEPT !.todo = left,
                                !.pc = IF left = {} THEN "known" ELSE "upsert"])
    OBVIOUS
  <2> DEFINE new == [r EXCEPT !.todo = left, !.pc = IF left = {} THEN "known" ELSE "upsert"]
  <2>1. On(new) = On(r) /\ (ChainOK(r) => ChainOK(new))
    BY ChainKept
  <2> QED
    BY <2>1
<1>3. r.pc = "known" => \A todo \in SUBSET Shows :
        ProcOK([r EXCEPT !.todo = todo, !.pc = IF todo = {} THEN "end" ELSE "remove"])
  OBVIOUS
<1>4. r.pc = "remove" => ProcOK([r EXCEPT !.pc = "off"])
  OBVIOUS
<1>5. r.pc = "off" => \A left \in SUBSET r.todo :
        ProcOK([r EXCEPT !.todo = left, !.pc = IF left = {} THEN "end" ELSE "remove"])
  OBVIOUS
<1> QED
  BY <1>1, <1>2, <1>3, <1>4, <1>5

-----------------------------------------------------------------------------
(* What steps leave alone.                                                 *)

\* A step that reads and writes no row keeps the mirror.
LEMMA MirrorKept ==
    ASSUME MirrorOK, UNCHANGED <<entries, auto, season>>,
           \A r \in Procs : f'[r].pc = "save" =>
               f[r].pc = "save" /\ f'[r].todo = f[r].todo
    PROVE  MirrorOK'
BY DEF MirrorOK

\* A step that hands out no token and loses none.
LEMMA TokensKept ==
    ASSUME TokenInv, UNCHANGED <<ring, spoiled>>,
           \A r \in Procs :
               /\ f'[r].pc = "store" <=> f[r].pc = "store"
               /\ f'[r].pc = "store" => f'[r].tok = f[r].tok
               /\ f'[r].tok = "good" /\ ~HasCode(r)' => f[r].tok = "good" /\ ~HasCode(r)
    PROVE  TokenInv'
<1>1. \A r \in Procs : Holds(r)' <=> Holds(r)
  BY DEF Holds
<1>2. TokenKept'
  BY <1>1 DEF TokenInv, TokenKept
<1> QED
  BY <1>1, <1>2 DEF TokenInv

\* A process is where it was in its sync, or it is in none and was not between
\* two writes.
Unmoved(r) ==
    \/ /\ f'[r].pc = f[r].pc /\ f'[r].todo = f[r].todo /\ f'[r].got = f[r].got
       /\ f'[r].src = f[r].src /\ (f'[r].clean => f[r].clean)
    \/ ~f'[r].clean /\ f'[r].pc \notin {"save", "off"} /\ f[r].pc \notin {"save", "off"}

\* A step outside the syncs leaves them where they are.
LEMMA SyncsKept ==
    ASSUME ExactInv, UNCHANGED <<entries, auto, torn>>, \A r \in Procs : Unmoved(r)
    PROVE  ExactInv'
<1>1. \A r \in Procs : Between(r)' <=> Between(r)
  BY DEF Unmoved, Between
<1>2. \A r \in Procs : Between(r) => f'[r].todo = f[r].todo
  BY DEF Unmoved, Between
<1>3. \A r \in Procs : f'[r].clean =>
        /\ f[r].clean /\ f'[r].pc = f[r].pc /\ f'[r].todo = f[r].todo
        /\ f'[r].got = f[r].got /\ f'[r].src = f[r].src
  BY DEF Unmoved
<1>4. ASSUME NEW r \in Procs, f'[r].clean PROVE Progress(r)'
  <2>1. Progress(r)
    BY <1>3, <1>4 DEF ExactInv
  <2>2. On(f[r])' = On(f[r]) /\ Gone(r)' = Gone(r)
    BY <1>3, <1>4 DEF On, Gone
  <2>3. \A s : Mirrored(r, s)' <=> Mirrored(r, s)
    BY <1>3, <1>4 DEF Mirrored
  <2> QED
    BY <2>1, <2>2, <2>3, <1>3, <1>4 DEF Progress
<1> QED
  BY <1>1, <1>2, <1>3, <1>4 DEF ExactInv

\* A step of a process that has not read the list yet, at which the others keep
\* everything but perhaps a token.
LEMMA TokenPhase ==
    ASSUME Inv, NEW p \in Procs,
           f[p].pc \in {"idle", "token", "post", "store", "list"},
           f'[p].pc \in {"idle", "token", "post", "store", "list"}, ~f'[p].clean,
           \A r \in Procs \ {p} : f'[r] = f[r] \/ f'[r] = [f[r] EXCEPT !.tok = "bad"],
           UNCHANGED <<list, cache, entries, auto, season, torn>>
    PROVE  SourceOK' /\ MirrorOK' /\ ExactInv'
<1>1. \A r \in Procs \ {p} :
        /\ f'[r].pc = f[r].pc /\ f'[r].todo = f[r].todo /\ f'[r].got = f[r].got
        /\ f'[r].src = f[r].src /\ f'[r].clean = f[r].clean
  <2> TAKE r \in Procs \ {p}
  <2>1. f[r] \in Proc
    BY DEF Inv, Types, ProcsOK, ProcOK
  <2>2. CASE f'[r] = f[r]
    BY <2>2
  <2>3. CASE f'[r] = [f[r] EXCEPT !.tok = "bad"]
    BY <2>1, <2>3 DEF Proc
  <2> QED
    BY <2>2, <2>3
<1>2. \A r \in Procs : Unmoved(r)
  BY <1>1 DEF Unmoved
<1>3. MirrorOK'
  BY <1>1, MirrorKept DEF Inv, Types
<1>4. ExactInv'
  BY <1>2, SyncsKept DEF Inv
<1> QED
  BY <1>3, <1>4 DEF Inv, Types, SourceOK

-----------------------------------------------------------------------------
(* One lemma per action.                                                   *)

\* Nothing has been synced, and the token is in the keyring.
LEMMA InitOK == Init => Inv
<1> SUFFICES ASSUME Init PROVE Inv
  OBVIOUS
<1> USE DEF Init
<1>1. ProcsOK /\ \A p \in Procs : f[p].pc = "idle" /\ ~f[p].clean /\ f[p].tok = "none"
  BY NewProcs DEF ProcsOK, Idle
<1>2. SourceOK
  <2>1. list \in Lists
    BY MalSyncAssumption DEF Lists
  <2>2. \A src \in Sources : cache[src] \subseteq Lists /\ Cardinality(cache[src]) <= 1
    BY FS_EmptySet
  <2> QED
    BY <2>1, <2>2 DEF SourceOK
<1>3. MirrorOK
  <2>1. \A s \in Shows : entries[s] \in [v : Versions[s] \cup {0}, src : Sources] /\ entries[s].v = 0
    BY DEF Sources
  <2>2. season \in [Shows -> 0 .. Cardinality(Shows)]
    BY EmptyType
  <2> QED
    BY <1>1, <2>1, <2>2 DEF MirrorOK
<1>4. AccountOK
  <2>1. CASE account = [source |-> "mal", profile |-> FALSE]
    BY <2>1 DEF AccountOK, Sources
  <2>2. CASE account = [source |-> "jikan", profile |-> TRUE]
    BY <2>2 DEF AccountOK, Sources
  <2> QED
    BY <2>1, <2>2
<1>5. TokenInv
  BY <1>1 DEF TokenInv, TokenKept, Holds, HasCode
<1>6. ExactInv
  BY <1>1 DEF ExactInv, Between
<1> QED
  BY <1>1, <1>2, <1>3, <1>4, <1>5, <1>6 DEF Inv, Types

\* A process begins: its token, if it has one, is a code.
LEMMA StartOK ==
    ASSUME Inv, NEW p \in Procs, f[p].pc = "idle", NEW new, ProcOK(new), ~new.clean,
           new.pc \in {"token", "post", "list"},
           new.tok = "good" => new.pc = "post" /\ new.job = "login",
           f' = [f EXCEPT ![p] = new],
           UNCHANGED <<list, cache, db, ring, due, spoiled, torn>>
    PROVE  Inv'
<1>0. f'[p] = new /\ \A r \in Procs \ {p} : f'[r] = f[r]
  BY DEF Inv, Types, ProcsOK
<1>1. ProcsOK'
  BY <1>0 DEF Inv, Types, ProcsOK
<1>2. SourceOK' /\ MirrorOK' /\ ExactInv'
  BY <1>0, TokenPhase DEF db
<1>3. TokenInv'
  BY <1>0, TokensKept DEF Inv, HasCode
<1> QED
  BY <1>1, <1>2, <1>3 DEF Inv, Types, AccountOK, db

LEMMA BeginsOK ==
    ASSUME Inv, NEW p \in Procs, sync_if_due(p) \/ mal_sync(p) \/ mal_status(p) \/ mal_login(p)
    PROVE  Inv'
<1>0. f[p].pc = "idle" /\ UNCHANGED <<list, cache, db, ring, due, spoiled, torn>>
  BY DEF sync_if_due, mal_sync, mal_status, mal_login
<1> DEFINE syncs == [Idle EXCEPT !.pc = "token", !.job = "sync", !.try = 1]
           asks == [Idle EXCEPT !.pc = "token", !.job = "status", !.try = 2]
           reads == [Idle EXCEPT !.pc = "list", !.job = "sync", !.src = "jikan"]
           logs == [Idle EXCEPT !.pc = "post", !.job = "login", !.tok = "good"]
<1>1. PICK new \in {syncs, asks, reads, logs} : f' = [f EXCEPT ![p] = new]
  BY DEF sync_if_due, mal_sync, mal_status, mal_login, Begins
<1>2. /\ ProcOK(new) /\ ~new.clean /\ new.pc \in {"token", "post", "list"}
      /\ new.tok = "good" => new.pc = "post" /\ new.job = "login"
  BY NewProcs DEF Idle
<1> HIDE DEF syncs, asks, reads, logs
<1> QED
  BY <1>0, <1>1, <1>2, StartOK

\* The account is disconnected: a process that holds a token is remembered.
LEMMA DisconnectOK == ASSUME Inv, mal_disconnect PROVE Inv'
<1> USE DEF mal_disconnect
<1>1. ProcsOK' /\ SourceOK' /\ MirrorOK'
  BY DEF Inv, Types, ProcsOK, SourceOK, MirrorOK
<1>2. AccountOK'
  BY DEF AccountOK
<1>3. spoiled' \in BOOLEAN
  BY DEF Inv, Types
<1>4. TokenInv'
  BY DEF Inv, TokenInv, TokenKept, Holds, HasCode
<1>5. ExactInv'
  BY SyncsKept DEF Inv, Unmoved
<1> QED
  BY <1>1, <1>2, <1>3, <1>4, <1>5 DEF Inv, Types

\* What changes nothing but the world around the processes.
LEMMA WorldOK ==
    ASSUME Inv, UNCHANGED <<entries, auto, season, ring, f, spoiled, torn>>,
           SourceOK', AccountOK', due' \in BOOLEAN
    PROVE  Inv'
<1>1. ProcsOK' /\ MirrorOK'
  BY DEF Inv, Types, ProcsOK, MirrorOK
<1>2. TokenInv'
  BY TokensKept DEF Inv, HasCode
<1>3. ExactInv'
  BY SyncsKept DEF Inv, Unmoved
<1> QED
  BY <1>1, <1>2, <1>3 DEF Inv, Types

LEMMA AroundOK ==
    ASSUME Inv,
           \/ mal_set_public_profile \/ Elapse
           \/ \E s \in Shows : \E v \in Versions[s] : Edit(s, v)
           \/ \E src \in Sources : Expire(src)
    PROVE  Inv'
<1>1. CASE mal_set_public_profile
  BY <1>1, WorldOK DEF mal_set_public_profile, Inv, Types, SourceOK, AccountOK, Sources
<1>2. CASE Elapse
  BY <1>2, WorldOK DEF Elapse, Inv, Types, SourceOK, AccountOK, db
<1>3. ASSUME NEW s \in Shows, NEW v \in Versions[s], Edit(s, v) PROVE Inv'
  <2>1. list' \in Lists
    BY <1>3 DEF Edit, Inv, Types, SourceOK, Lists
  <2> QED
    BY <2>1, <1>3, WorldOK DEF Edit, Inv, Types, SourceOK, AccountOK, db
<1>4. ASSUME NEW src \in Sources, Expire(src) PROVE Inv'
  <2>0. {} \subseteq Lists /\ Cardinality({}) <= 1
    BY FS_EmptySet
  <2>1. SourceOK'
    BY <1>4, <2>0 DEF Expire, Inv, Types, SourceOK
  <2> QED
    BY <2>1, <1>4, WorldOK DEF Expire, Inv, Types, AccountOK, db
<1> QED
  BY <1>1, <1>2, <1>3, <1>4

\* A step that fails is retried, or the process ends.
LEMMA FailsShape ==
    ASSUME Types, NEW p \in Procs, f[p].pc \in {"token", "post"},
           NEW g, g = [r \in Procs |-> g[r]], g[p] = f[p], Fails(p, g)
    PROVE  /\ due' \in BOOLEAN /\ f' = [r \in Procs |-> f'[r]]
           /\ ProcOK(f'[p]) /\ ~f'[p].clean /\ f'[p].tok = "none"
           /\ f'[p].pc \in {"idle", "token"}
           /\ \A r \in Procs \ {p} : f'[r] = g[r]
<1> DEFINE retry == [f[p] EXCEPT !.pc = "token", !.try = 2, !.tok = "none"]
<1>1. due' \in BOOLEAN
  BY DEF Types, Fails
<1>2. PICK new \in {retry, Idle} : f' = [g EXCEPT ![p] = new]
  BY DEF Fails
<1>3. ProcOK(f[p])
  BY DEF Types, ProcsOK
<1>4. ProcOK(retry) /\ retry.pc = "token" /\ retry.tok = "none" /\ ~retry.clean
  <2>1. ProcOK(retry)
    BY <1>3, TokenWrites
  <2>2. f[p] \in Proc /\ ~f[p].clean
    BY <1>3 DEF ProcOK
  <2> QED
    BY <2>1, <2>2 DEF Proc
<1>5. ProcOK(Idle) /\ Idle.pc = "idle" /\ Idle.tok = "none" /\ ~Idle.clean
  BY NewProcs DEF Idle
<1> HIDE DEF retry
<1> QED
  BY <1>1, <1>2, <1>4, <1>5

\* A step that fails without having had an answer from MAL.
LEMMA FailedOK ==
    ASSUME Inv, NEW p \in Procs, f[p].pc \in {"token", "post"}, Fails(p, f),
           UNCHANGED <<list, cache, db, ring, spoiled, torn>>
    PROVE  Inv'
<1>0. Types /\ f = [r \in Procs |-> f[r]]
  BY DEF Inv, Types, ProcsOK
<1>1. /\ due' \in BOOLEAN /\ f' = [r \in Procs |-> f'[r]]
      /\ ProcOK(f'[p]) /\ ~f'[p].clean /\ f'[p].tok = "none"
      /\ f'[p].pc \in {"idle", "token"} /\ \A r \in Procs \ {p} : f'[r] = f[r]
  BY <1>0, FailsShape
<1>2. ProcsOK'
  BY <1>1 DEF Inv, Types, ProcsOK
<1>3. SourceOK' /\ MirrorOK' /\ ExactInv'
  BY <1>1, TokenPhase DEF db
<1>4. TokenInv'
  BY <1>1, TokensKept DEF Inv, HasCode
<1> QED
  BY <1>1, <1>2, <1>3, <1>4 DEF Inv, Types, AccountOK, db

\* A client starts with the token of the keyring.
LEMMA AccessOK == ASSUME Inv, NEW p \in Procs, access_token(p) PROVE Inv'
<1>0. f[p].pc = "token" /\ UNCHANGED <<list, cache, db, ring, spoiled, torn>>
  BY DEF access_token
<1>1. CASE ring = "none"
  BY <1>0, <1>1, FailedOK DEF access_token
<1>2. CASE ring # "none"
  <2> DEFINE new == [f[p] EXCEPT !.pc = "post", !.tok = ring]
  <2>1. f' = [f EXCEPT ![p] = new] /\ due' = due
    BY <1>2 DEF access_token
  <2>2. ProcOK(f[p]) /\ ring \in {"good", "bad"}
    BY <1>2 DEF Inv, Types, ProcsOK, AccountOK
  <2>3. ProcOK(new) /\ new.pc = "post" /\ new.tok = ring /\ ~new.clean
    <3>1. ProcOK(new)
      BY <1>0, <2>2, TokenWrites
    <3>2. f[p] \in Proc /\ ~f[p].clean
      BY <1>0, <2>2 DEF ProcOK
    <3> QED
      BY <3>1, <3>2 DEF Proc
  <2> HIDE DEF new
  <2>4. f'[p] = new /\ \A r \in Procs \ {p} : f'[r] = f[r]
    BY <2>1 DEF Inv, Types, ProcsOK
  <2>5. ProcsOK'
    BY <2>1, <2>3 DEF Inv, Types, ProcsOK
  <2>6. SourceOK' /\ MirrorOK' /\ ExactInv'
    BY <1>0, <2>3, <2>4, TokenPhase DEF db
  <2>7. TokenInv'
    <3>1. \A r \in Procs : (Holds(r)' <=> Holds(r)) /\ (r # p => HasCode(r)' = HasCode(r))
      BY <1>0, <2>3, <2>4 DEF Holds, HasCode
    <3>2. \A q, r \in Procs : Holds(q)' /\ r # q => f'[r].tok # "good" \/ HasCode(r)'
      BY <1>0, <2>3, <2>4, <3>1 DEF Inv, TokenInv
    <3>3. TokenKept'
      BY <1>0, <3>1 DEF Inv, TokenInv, TokenKept
    <3>4. \A r \in Procs : Holds(r)' => ring' # "good"
      BY <1>0, <3>1 DEF Inv, TokenInv
    <3>5. \A r \in Procs : f'[r].pc = "store" /\ f'[r].tok = "bad" => spoiled'
      BY <1>0, <2>3, <2>4 DEF Inv, TokenInv
    <3> QED
      BY <3>2, <3>3, <3>4, <3>5 DEF TokenInv
  <2> QED
    BY <1>0, <2>1, <2>5, <2>6, <2>7 DEF Inv, Types, AccountOK, db
<1> QED
  BY <1>1, <1>2

\* After MAL has issued a token to p, no other process holds a good one.
LEMMA RotatedShape ==
    ASSUME Types, NEW p \in Procs, NEW new, NEW r \in Procs \ {p}
    PROVE  /\ Rotated(p, new)[r] = f[r] \/ Rotated(p, new)[r] = [f[r] EXCEPT !.tok = "bad"]
           /\ ProcOK(Rotated(p, new)[r]) /\ Rotated(p, new)[r].pc = f[r].pc
           /\ Rotated(p, new)[r].job = f[r].job
           /\ Rotated(p, new)[r].tok = "good" => HasCode(r)
           /\ Rotated(p, new)[r].tok = "bad" => f[r].tok \in {"good", "bad"}
<1>1. ProcOK(f[r]) /\ f[r] \in Proc
  BY DEF Types, ProcsOK, ProcOK
<1>2. ProcOK([f[r] EXCEPT !.tok = "bad"])
  BY <1>1, TokenWrites
<1>3. /\ [f[r] EXCEPT !.tok = "bad"].pc = f[r].pc /\ [f[r] EXCEPT !.tok = "bad"].job = f[r].job
      /\ [f[r] EXCEPT !.tok = "bad"].tok = "bad"
  BY <1>1 DEF Proc
<1>4. Rotated(p, new)[r] = IF f[r].tok = "good" /\ ~HasCode(r)
                           THEN [f[r] EXCEPT !.tok = "bad"] ELSE f[r]
  BY DEF Rotated
<1>5. CASE f[r].tok = "good" /\ ~HasCode(r)
  BY <1>1, <1>2, <1>3, <1>4, <1>5
<1>6. CASE ~(f[r].tok = "good" /\ ~HasCode(r))
  BY <1>1, <1>4, <1>6
<1> QED
  BY <1>5, <1>6

\* MAL answers: the token in the keyring and the copies of the others are bad.
LEMMA RequestOK == ASSUME Inv, NEW p \in Procs, token_request(p) PROVE Inv'
<1> DEFINE new == [f[p] EXCEPT !.pc = "store"]
<1>0. /\ f[p].pc = "post" /\ f[p].tok = "good" /\ f' = Rotated(p, new) /\ ring' = Outdated
      /\ spoiled' = (spoiled \/ (f[p].job = "login" /\ \E r \in Procs \ {p} : Holds(r)))
      /\ UNCHANGED <<list, cache, db, due, torn>>
  BY DEF token_request
<1>1. /\ ProcOK(new) /\ new.pc = "store" /\ new.tok = "good" /\ new.job = f[p].job /\ ~new.clean
  <2>1. ProcOK(f[p])
    BY DEF Inv, Types, ProcsOK
  <2>2. ProcOK(new)
    BY <1>0, <2>1, TokenWrites
  <2>3. f[p] \in Proc /\ ~f[p].clean
    BY <1>0, <2>1 DEF ProcOK
  <2> QED
    BY <1>0, <2>2, <2>3 DEF Proc
<1> HIDE DEF new
<1>2. f' = [r \in Procs |-> f'[r]] /\ f'[p] = new
  BY <1>0 DEF Rotated
<1>3. \A r \in Procs \ {p} :
        /\ f'[r] = f[r] \/ f'[r] = [f[r] EXCEPT !.tok = "bad"]
        /\ ProcOK(f'[r]) /\ f'[r].pc = f[r].pc /\ f'[r].job = f[r].job
        /\ f'[r].tok = "good" => HasCode(r)
        /\ f'[r].tok = "bad" => f[r].tok \in {"good", "bad"}
  BY <1>0, RotatedShape DEF Inv
<1>4. ProcsOK'
  BY <1>1, <1>2, <1>3 DEF ProcsOK
<1>5. SourceOK' /\ MirrorOK' /\ ExactInv'
  BY <1>0, <1>1, <1>2, <1>3, TokenPhase DEF db
<1>6. AccountOK' /\ spoiled' \in BOOLEAN /\ ring' # "good"
  BY <1>0 DEF Inv, Types, AccountOK, Outdated, db
<1>7. TokenInv'
  <2>1. \A r \in Procs \ {p} : ~Holds(r)' /\ (f'[r].tok = "good" => HasCode(r)')
    BY <1>3 DEF Holds, HasCode
  <2>2. Holds(p)'
    BY <1>1, <1>2 DEF Holds
  <2>3. ASSUME NEW r \in Procs, f'[r].pc = "store", f'[r].tok = "bad" PROVE spoiled'
    <3>1. r # p /\ f[r].pc = "store" /\ f[r].tok \in {"good", "bad"}
      BY <1>1, <1>2, <1>3, <2>3
    <3>2. CASE f[r].tok = "bad"
      BY <1>0, <3>1, <3>2 DEF Inv, TokenInv
    <3>3. CASE f[r].tok = "good"
      <4>1. Holds(r) /\ HasCode(p)
        BY <1>0, <3>1, <3>3 DEF Inv, TokenInv, Holds
      <4> QED
        BY <1>0, <3>1, <4>1 DEF HasCode
    <3> QED
      BY <3>1, <3>2, <3>3
  <2> QED
    BY <1>6, <2>1, <2>2, <2>3 DEF TokenInv, TokenKept
<1> QED
  BY <1>0, <1>4, <1>5, <1>6, <1>7 DEF Inv, Types

\* A token that MAL issued and p never gets: the others have bad copies, and
\* the fault is remembered.
LEMMA TokenGone ==
    ASSUME Inv, NEW p \in Procs, NEW old, f' = [r \in Procs |-> f'[r]],
           \A r \in Procs \ {p} : f'[r] = Rotated(p, old)[r],
           f[p].pc = "post", ProcOK(f'[p]), ~f'[p].clean, f'[p].tok = "none",
           f'[p].pc \in {"idle", "token"}, due' \in BOOLEAN, ring' = Outdated, spoiled',
           spoiled' \in BOOLEAN, UNCHANGED <<list, cache, db, torn>>
    PROVE  Inv'
<1>1. \A r \in Procs \ {p} :
        /\ f'[r] = f[r] \/ f'[r] = [f[r] EXCEPT !.tok = "bad"]
        /\ ProcOK(f'[r]) /\ f'[r].pc = f[r].pc
        /\ f'[r].tok = "good" => HasCode(r)
  <2> TAKE r \in Procs \ {p}
  <2> DEFINE g == Rotated(p, old)[r]
  <2>1. /\ g = f[r] \/ g = [f[r] EXCEPT !.tok = "bad"]
        /\ ProcOK(g) /\ g.pc = f[r].pc /\ (g.tok = "good" => HasCode(r))
    BY RotatedShape DEF Inv
  <2>2. f'[r] = g
    OBVIOUS
  <2> HIDE DEF g
  <2> QED
    BY <2>1, <2>2
<1>2. ProcsOK'
  BY <1>1 DEF ProcsOK
<1>3. SourceOK' /\ MirrorOK' /\ ExactInv'
  BY <1>1, TokenPhase DEF db
<1>4. AccountOK'
  BY DEF Inv, Types, AccountOK, Outdated, db
<1>5. \A r \in Procs : ~Holds(r)'
  BY <1>1 DEF Holds, HasCode
<1>6. TokenInv'
  BY <1>5 DEF TokenInv, TokenKept
<1> QED
  BY <1>2, <1>3, <1>4, <1>6 DEF Inv, Types

\* MAL refuses, or nothing comes back.
LEMMA LostOK ==
    ASSUME Inv, NEW p \in Procs, token_rejected(p) \/ token_lost(p)
    PROVE  Inv'
<1>0. f[p].pc = "post" /\ UNCHANGED <<list, cache, db, torn>>
  BY DEF token_rejected, token_lost
<1>1. CASE Fails(p, f) /\ UNCHANGED <<ring, spoiled>>
  BY <1>0, <1>1, FailedOK
<1>2. CASE Fails(p, Rotated(p, f[p])) /\ ring' = Outdated /\ spoiled' = TRUE
  <2> DEFINE g == Rotated(p, f[p])
  <2>1. g = [r \in Procs |-> g[r]] /\ g[p] = f[p]
    BY DEF Rotated
  <2>2. spoiled' /\ spoiled' \in BOOLEAN
    BY <1>2
  <2> HIDE DEF g
  <2>3. /\ due' \in BOOLEAN /\ f' = [r \in Procs |-> f'[r]]
        /\ ProcOK(f'[p]) /\ ~f'[p].clean /\ f'[p].tok = "none"
        /\ f'[p].pc \in {"idle", "token"} /\ \A r \in Procs \ {p} : f'[r] = g[r]
    BY <1>0, <1>2, <2>1, FailsShape DEF Inv, g
  <2> QED
    BY <1>0, <1>2, <2>2, <2>3, TokenGone DEF g
<1> QED
  BY <1>1, <1>2 DEF token_rejected, token_lost

\* The token is stored.
LEMMA StoreOK == ASSUME Inv, NEW p \in Procs, set_refresh_token(p) PROVE Inv'
<1> DEFINE next == [f[p] EXCEPT !.pc = "list", !.tok = "none"]
<1>0. /\ f[p].pc = "store" /\ ring' = f[p].tok
      /\ UNCHANGED <<list, cache, entries, auto, season, due, spoiled, torn>>
  BY DEF set_refresh_token
<1>1. PICK new \in {next, Idle} : f' = [f EXCEPT ![p] = new]
  BY DEF set_refresh_token, Ends
<1>2. ProcOK(f[p]) /\ f[p] \in Proc /\ f[p].tok \in {"good", "bad"} /\ ~f[p].clean
  BY <1>0 DEF Inv, Types, ProcsOK, ProcOK, Proc
<1>3. ProcOK(next) /\ next.pc = "list" /\ next.tok = "none" /\ ~next.clean
  <2>1. ProcOK(next)
    BY <1>0, <1>2, TokenWrites
  <2> QED
    BY <1>2, <2>1 DEF Proc
<1>4. ProcOK(Idle) /\ Idle.pc = "idle" /\ Idle.tok = "none" /\ ~Idle.clean
  BY NewProcs DEF Idle
<1> HIDE DEF next
<1>5. /\ f'[p] = new /\ ProcOK(new) /\ new.pc \in {"list", "idle"} /\ new.tok = "none" /\ ~new.clean
      /\ \A r \in Procs \ {p} : f'[r] = f[r]
  BY <1>1, <1>3, <1>4 DEF Inv, Types, ProcsOK
<1>6. ProcsOK'
  BY <1>1, <1>5 DEF Inv, Types, ProcsOK
<1>7. SourceOK' /\ MirrorOK' /\ ExactInv'
  BY <1>0, <1>5, TokenPhase
<1>8. AccountOK'
  BY <1>0, <1>2 DEF Inv, Types, AccountOK, set_refresh_token, Sources
<1>9. TokenInv'
  <2>1. \A r \in Procs : (Holds(r)' => Holds(r)) /\ ~Holds(p)'
    BY <1>5 DEF Holds
  <2>2. \A r \in Procs \ {p} : HasCode(r)' = HasCode(r)
    BY <1>5 DEF HasCode
  <2>3. \A q, r \in Procs : Holds(q)' /\ r # q => f'[r].tok # "good" \/ HasCode(r)'
    BY <1>5, <2>1, <2>2 DEF Inv, TokenInv
  <2>4. \A r \in Procs : Holds(r)' => ring' # "good"
    <3> SUFFICES ASSUME NEW r \in Procs, Holds(r)', f[p].tok = "good" PROVE FALSE
      BY <1>0
    <3>1. r # p /\ Holds(r)
      BY <2>1
    <3> QED
      BY <1>0, <3>1 DEF Inv, TokenInv, HasCode
  <2>5. \A r \in Procs : f'[r].pc = "store" /\ f'[r].tok = "bad" => spoiled'
    BY <1>0, <1>5 DEF Inv, TokenInv
  <2>6. TokenKept'
    BY <1>0, <1>2 DEF Inv, TokenInv, TokenKept
  <2> QED
    BY <2>3, <2>4, <2>5, <2>6 DEF TokenInv
<1> QED
  BY <1>0, <1>6, <1>7, <1>8, <1>9 DEF Inv, Types

\* A step of a sync hands out no token.
LEMMA SyncTokens ==
    ASSUME Inv, NEW p \in Procs, f[p].pc \notin {"post", "store"},
           f'[p].pc \notin {"post", "store"}, f'[p].tok \in {f[p].tok, "none"},
           \A r \in Procs \ {p} :
               f'[r].pc = f[r].pc /\ f'[r].tok = f[r].tok /\ f'[r].job = f[r].job,
           UNCHANGED <<ring, spoiled>>
    PROVE  TokenInv'
<1>1. \A r \in Procs \ {p} : HasCode(r)' = HasCode(r)
  BY DEF HasCode
<1>2. ~HasCode(p)' /\ ~HasCode(p)
  BY DEF HasCode
<1> QED
  BY <1>1, <1>2, TokensKept DEF Inv

\* The others read on as they were, when p reads.
LEMMA ReadExact ==
    ASSUME Inv, NEW p \in Procs, NEW new, f' = [f EXCEPT ![p] = new],
           f[p].pc \notin {"save", "off"}, new.pc \notin {"save", "off"},
           new.clean => f[p].clean /\ Progress(p)',
           UNCHANGED <<entries, auto, torn>>
    PROVE  ExactInv'
<1>0. f'[p] = new /\ \A r \in Procs \ {p} : f'[r] = f[r]
  BY DEF Inv, Types, ProcsOK
<1>1. \A r \in Procs : Between(r)' <=> Between(r)
  BY <1>0 DEF Between
<1>2. \A r \in Procs : Between(r) => f'[r].todo = f[r].todo
  BY <1>0 DEF Between
<1>3. \A r \in Procs : f'[r].clean => f[r].clean
  BY <1>0
<1>4. ASSUME NEW r \in Procs, f'[r].clean PROVE Progress(r)'
  <2>1. CASE r = p
    BY <2>1, <1>0, <1>4
  <2>2. CASE r # p
    <3>1. Progress(r) /\ f'[r] = f[r]
      BY <1>0, <1>3, <1>4, <2>2 DEF Inv, ExactInv
    <3>2. On(f[r])' = On(f[r]) /\ Gone(r)' = Gone(r)
      BY <3>1 DEF On, Gone
    <3>3. \A s : Mirrored(r, s)' <=> Mirrored(r, s)
      BY <3>1 DEF Mirrored
    <3> QED
      BY <3>1, <3>2, <3>3 DEF Progress
  <2> QED
    BY <2>1, <2>2
<1> QED
  BY <1>1, <1>2, <1>3, <1>4 DEF Inv, ExactInv

\* The list is read.  The sync is clean if nobody else is at work, so that none
\* is clean yet.
LEMMA FetchOK == ASSUME Inv, NEW p \in Procs, fetch_list(p) PROVE Inv'
<1> DEFINE alone == \A r \in Procs \ {p} : f[r].pc = "idle"
<1>0. f[p].pc = "list" /\ UNCHANGED <<list, db, ring, due, spoiled, torn>>
  BY DEF fetch_list
<1>1. PICK got \in (IF cache[f[p].src] = {} THEN {list} ELSE cache[f[p].src]) :
        /\ cache' = [cache EXCEPT ![f[p].src] = {got}]
        /\ f' = [f EXCEPT ![p] = [@ EXCEPT !.pc = "relations", !.got = got, !.clean = alone]]
  BY DEF fetch_list
<1>2. ProcOK(f[p]) /\ f[p] \in Proc /\ f[p].src \in Sources
  BY DEF Inv, Types, ProcsOK, ProcOK, Proc
<1>3. got \in Lists
  BY <1>1, <1>2 DEF Inv, Types, SourceOK
<1> DEFINE new == [f[p] EXCEPT !.pc = "relations", !.got = got, !.clean = alone]
<1>4. /\ ProcOK(new) /\ new.pc = "relations" /\ new.tok = f[p].tok /\ new.job = f[p].job
      /\ new.clean = alone
  <2>1. alone \in BOOLEAN
    OBVIOUS
  <2> HIDE DEF alone
  <2>2. ProcOK(new)
    BY <1>0, <1>2, <1>3, <2>1, TokenWrites
  <2> QED
    BY <1>2, <2>2 DEF Proc
<1>5. f' = [f EXCEPT ![p] = new]
  BY <1>1
<1> HIDE DEF new, alone
<1>6. f'[p] = new /\ \A r \in Procs \ {p} : f'[r] = f[r]
  BY <1>5 DEF Inv, Types, ProcsOK
<1>7. ProcsOK'
  BY <1>4, <1>5, <1>6 DEF Inv, Types, ProcsOK
<1>8. SourceOK'
  <2>1. {got} \subseteq Lists /\ Cardinality({got}) <= 1
    BY <1>3, FS_Singleton
  <2> QED
    BY <1>0, <1>1, <2>1 DEF Inv, Types, SourceOK
<1>9. MirrorOK'
  BY <1>0, <1>4, <1>6, MirrorKept DEF Inv, Types, db
<1>10. TokenInv'
  BY <1>0, <1>4, <1>6, SyncTokens
<1>11. ExactInv'
  <2>1. CASE alone
    <3>1. \A r \in Procs \ {p} : ~f'[r].clean /\ ~Between(r)'
      BY <1>6, <2>1 DEF alone, Between, Inv, Types, ProcsOK, ProcOK
    <3>2. Progress(p)'
      BY <1>4, <1>6 DEF Progress
    <3>3. \A r \in Procs : Between(r)' <=> Between(r)
      BY <1>0, <1>4, <1>6 DEF Between
    <3>4. \A r \in Procs : Between(r) => f'[r].todo = f[r].todo
      BY <1>0, <1>6 DEF Between
    <3> QED
      BY <1>0, <3>1, <3>2, <3>3, <3>4 DEF Inv, ExactInv, db
  <2>2. CASE ~alone
    BY <1>0, <1>4, <1>5, <2>2, ReadExact DEF db
  <2> QED
    BY <2>1, <2>2
<1> QED
  BY <1>0, <1>7, <1>8, <1>9, <1>10, <1>11 DEF Inv, Types, AccountOK, db

\* A sync ends outside its writes.
LEMMA EndOK ==
    ASSUME Inv, NEW p \in Procs, f[p].pc \notin {"post", "store", "save", "off"}, Ends(p),
           due' \in BOOLEAN, UNCHANGED <<list, cache, db, ring, spoiled, torn>>
    PROVE  Inv'
<1>0. ProcOK(Idle) /\ Idle.pc = "idle" /\ Idle.tok = "none" /\ ~Idle.clean
  BY NewProcs DEF Idle
<1>1. f' = [f EXCEPT ![p] = Idle]
  BY DEF Ends
<1>2. f'[p] = Idle /\ \A r \in Procs \ {p} : f'[r] = f[r]
  BY <1>1 DEF Inv, Types, ProcsOK
<1>3. ProcsOK'
  BY <1>0, <1>1, <1>2 DEF Inv, Types, ProcsOK
<1>4. MirrorOK'
  BY <1>0, <1>2, MirrorKept DEF Inv, Types, db
<1>5. TokenInv'
  BY <1>0, <1>2, SyncTokens
<1>6. ExactInv'
  BY <1>0, <1>1, ReadExact DEF db
<1> QED
  BY <1>3, <1>4, <1>5, <1>6 DEF Inv, Types, SourceOK, AccountOK, db

\* The chains are built, and nothing is mirrored yet; or the sync is off.
LEMMA RelationsOK == ASSUME Inv, NEW p \in Procs, relations(p) PROVE Inv'
<1> DEFINE on == On(f[p])
<1>0. f[p].pc = "relations" /\ UNCHANGED <<list, cache, db, ring, spoiled, torn>>
  BY DEF relations
<1>1. PICK failed \in SUBSET on :
        \/ Ends(p) /\ due' = (due /\ p # Daemon)
        \/ \E order \in build_chains(on, KnownLinks(on, failed)) :
             /\ f' = [f EXCEPT ![p] = [@ EXCEPT !.order = order, !.todo = on,
                        !.links = KnownLinks(on, failed),
                        !.pc = IF on = {} THEN "known" ELSE "upsert"]]
             /\ UNCHANGED due
  BY Zenon DEF relations, On
<1>2. CASE Ends(p) /\ due' = (due /\ p # Daemon)
  <2>1. due' \in BOOLEAN
    BY <1>2 DEF Inv, Types
  <2> QED
    BY <1>0, <1>2, <2>1, EndOK
<1>3. ASSUME NEW order \in build_chains(on, KnownLinks(on, failed)), UNCHANGED due,
             f' = [f EXCEPT ![p] = [@ EXCEPT !.order = order, !.todo = on,
                     !.links = KnownLinks(on, failed),
                     !.pc = IF on = {} THEN "known" ELSE "upsert"]]
      PROVE  Inv'
  <2> DEFINE links == KnownLinks(on, failed)
             new == [f[p] EXCEPT !.order = order, !.todo = on, !.links = links,
                       !.pc = IF on = {} THEN "known" ELSE "upsert"]
  <2>1. ProcOK(f[p]) /\ f[p] \in Proc
    BY DEF Inv, Types, ProcsOK, ProcOK
  <2>2. ProcOK(new)
    BY <1>0, <2>1, ChainWrites
  <2> HIDE DEF on, links
  <2>3. /\ new.pc = (IF on = {} THEN "known" ELSE "upsert") /\ new.todo = on
        /\ new.got = f[p].got /\ new.tok = f[p].tok /\ new.clean = f[p].clean
    BY <2>1 DEF Proc
  <2>4. f' = [f EXCEPT ![p] = new]
    BY <1>3 DEF links
  <2> HIDE DEF new
  <2>5. f'[p] = new /\ \A r \in Procs \ {p} : f'[r] = f[r]
    BY <2>4 DEF Inv, Types, ProcsOK
  <2>6. ProcsOK'
    BY <2>2, <2>4, <2>5 DEF Inv, Types, ProcsOK
  <2>7. MirrorOK'
    BY <1>0, <2>3, <2>5, MirrorKept DEF Inv, Types, db
  <2>8. TokenInv'
    BY <1>0, <2>3, <2>5, SyncTokens
  <2>9. On(f'[p]) = on
    BY <2>3, <2>5 DEF On, on
  <2>10. Progress(p)'
    BY <2>3, <2>5, <2>9 DEF Progress
  <2>11. ExactInv'
    BY <1>0, <2>3, <2>4, <2>10, ReadExact DEF db
  <2> QED
    BY <1>0, <1>3, <2>6, <2>7, <2>8, <2>11 DEF Inv, Types, SourceOK, AccountOK, db
<1> QED
  BY <1>1, <1>2, <1>3

\* The rows that left the list are selected: for a sync from MAL, all of them.
LEMMA KnownOK == ASSUME Inv, NEW p \in Procs, select_known(p) PROVE Inv'
<1> DEFINE gone == known(p)
           new == [f[p] EXCEPT !.todo = gone, !.pc = IF gone = {} THEN "end" ELSE "remove"]
<1>0. /\ f[p].pc = "known" /\ f' = [f EXCEPT ![p] = new]
      /\ UNCHANGED <<list, cache, db, ring, due, spoiled, torn>>
  BY DEF select_known
<1>1. ProcOK(f[p]) /\ f[p] \in Proc
  BY DEF Inv, Types, ProcsOK, ProcOK
<1>2. gone \in SUBSET Shows /\ (f[p].src = "mal" => gone = Gone(p))
      /\ gone \subseteq Gone(p) /\ gone \cap On(f[p]) = {}
  BY DEF known, Gone, On
<1> HIDE DEF gone
<1>3. ProcOK(new)
  BY <1>0, <1>1, <1>2, SyncWrites
<1>4. /\ new.pc = (IF gone = {} THEN "end" ELSE "remove") /\ new.todo = gone
      /\ new.got = f[p].got /\ new.tok = f[p].tok /\ new.clean = f[p].clean
      /\ new.src = f[p].src
  BY <1>1 DEF Proc
<1> HIDE DEF new
<1>5. f'[p] = new /\ \A r \in Procs \ {p} : f'[r] = f[r]
  BY <1>0 DEF Inv, Types, ProcsOK
<1>6. ProcsOK'
  BY <1>0, <1>3, <1>5 DEF Inv, Types, ProcsOK
<1>7. MirrorOK'
  BY <1>0, <1>4, <1>5, MirrorKept DEF Inv, Types, db
<1>8. TokenInv'
  BY <1>0, <1>4, <1>5, SyncTokens
<1>9. ASSUME f[p].clean PROVE Progress(p)'
  <2>1. Progress(p)
    BY <1>9 DEF Inv, ExactInv
  <2>2. On(f[p])' = On(f[p]) /\ Gone(p)' = Gone(p)
    BY <1>0, <1>4, <1>5 DEF On, Gone, db
  <2>3. \A s : Mirrored(p, s)' <=> Mirrored(p, s)
    BY <1>0, <1>4, <1>5 DEF Mirrored, db
  <2> QED
    BY <1>0, <1>2, <1>4, <1>5, <2>1, <2>2, <2>3 DEF Progress
<1>10. ExactInv'
  BY <1>0, <1>4, <1>9, ReadExact DEF db
<1> QED
  BY <1>0, <1>6, <1>7, <1>8, <1>10 DEF Inv, Types, SourceOK, AccountOK, db

\* A write makes the syncs of the others unclean and changes nothing else of them.
LEMMA WriteOK ==
    ASSUME Inv, NEW p \in Procs, NEW new, Writes(p, new), ProcOK(new),
           f[p].pc \in {"upsert", "save", "remove", "off"},
           new.pc \notin {"post", "store"}, new.tok = f[p].tok, new.clean = f[p].clean,
           UNCHANGED <<list, cache, account, ring, due, spoiled>>,
           MirrorOK', f[p].clean => Progress(p)',
           \A s \in Shows : auto'[s] /\ entries'[s].v = 0 =>
               s \in torn' \/ \E r \in Procs : Between(r)' /\ s = Min(f'[r].todo)
    PROVE  Inv'
<1>1. f' = [r \in Procs |-> f'[r]] /\ f'[p] = new
      /\ \A r \in Procs \ {p} : f'[r] = [f[r] EXCEPT !.clean = FALSE]
  BY DEF Writes
<1>2. \A r \in Procs \ {p} :
        /\ ProcOK(f'[r]) /\ ~f'[r].clean /\ f'[r].pc = f[r].pc
        /\ f'[r].tok = f[r].tok /\ f'[r].job = f[r].job
  <2> TAKE r \in Procs \ {p}
  <2>1. ProcOK(f[r]) /\ f[r] \in Proc
    BY DEF Inv, Types, ProcsOK, ProcOK
  <2>2. ProcOK([f[r] EXCEPT !.clean = FALSE])
    BY <2>1, TokenWrites
  <2> QED
    BY <1>1, <2>1, <2>2 DEF Proc
<1>3. ProcsOK'
  BY <1>1, <1>2 DEF ProcsOK
<1>4. TokenInv'
  BY <1>1, <1>2, SyncTokens
<1>5. ExactInv'
  <2>1. \A r \in Procs : f'[r].clean => r = p /\ f[p].clean
    BY <1>1, <1>2
  <2>2. \A r \in Procs \ {p} : f[p].clean => ~Between(r)'
    BY <1>2 DEF Inv, ExactInv, Between
  <2> QED
    BY <2>1, <2>2 DEF ExactInv
<1> QED
  BY <1>3, <1>4, <1>5 DEF Inv, Types, SourceOK, AccountOK

LEMMA OthersKept ==
    ASSUME Types, NEW p \in Procs, NEW new, Writes(p, new)
    PROVE  /\ f'[p] = new
           /\ \A r \in Procs \ {p} : f'[r].pc = f[r].pc /\ f'[r].todo = f[r].todo
<1>1. \A r \in Procs \ {p} : f[r] \in Proc /\ f'[r] = [f[r] EXCEPT !.clean = FALSE]
  BY DEF Types, ProcsOK, ProcOK, Writes
<1> QED
  BY <1>1 DEF Writes, Proc

\* The show is written, and its entry is about to be.
LEMMA UpsertOK == ASSUME Inv, NEW p \in Procs, upsert_show_full(p) PROVE Inv'
<1> DEFINE m == Min(f[p].todo)
           new == [f[p] EXCEPT !.pc = "save"]
<1>0. /\ f[p].pc = "upsert" /\ Writes(p, new)
      /\ season' = [season EXCEPT ![m] = f[p].order[m]]
      /\ auto' = [auto EXCEPT ![m] = (f[p].got[m] = 1)] /\ torn' = torn \ {m}
      /\ UNCHANGED <<list, cache, entries, account, ring, due, spoiled>>
  BY DEF upsert_show_full
<1>1. ProcOK(f[p]) /\ f[p] \in Proc
  BY DEF Inv, Types, ProcsOK, ProcOK
<1>2. m \in f[p].todo /\ m \in Shows
  BY <1>0, <1>1, NextItem
<1>3. f[p].order[m] # 0 /\ f[p].order[m] \in 0 .. Cardinality(Shows)
  BY <1>0, <1>1, <1>2 DEF ProcOK, Proc
<1>4. ProcOK(new)
  BY <1>0, <1>1, SyncWrites
<1>5. /\ new.pc = "save" /\ new.todo = f[p].todo /\ new.got = f[p].got /\ new.src = f[p].src
      /\ new.tok = f[p].tok /\ new.clean = f[p].clean
  BY <1>1 DEF Proc
<1> HIDE DEF m, new
<1>6. /\ f'[p] = new
      /\ \A r \in Procs \ {p} : f'[r].pc = f[r].pc /\ f'[r].todo = f[r].todo
  BY <1>0, OthersKept DEF Inv
<1>7. MirrorOK'
  <2>1. auto' \in [Shows -> BOOLEAN]
    BY <1>0 DEF Inv, Types, MirrorOK
  <2>2. season' \in [Shows -> 0 .. Cardinality(Shows)]
    BY <1>0, <1>3 DEF Inv, Types, MirrorOK
  <2>3. \A s \in Shows : season'[s] # 0 \/ (s # m /\ season'[s] = season[s])
    BY <1>0, <1>2, <1>3 DEF Inv, Types, MirrorOK
  <2>4. ASSUME NEW r \in Procs, f'[r].pc = "save" PROVE season'[Min(f'[r].todo)] # 0
    <3>1. CASE r = p
      BY <3>1, <1>0, <1>2, <1>3, <1>5, <1>6 DEF m, Inv, Types, MirrorOK
    <3>2. CASE r # p
      <4>1. f[r].pc = "save" /\ ProcOK(f[r]) /\ f'[r].todo = f[r].todo
        BY <3>2, <2>4, <1>6 DEF Inv, Types, ProcsOK
      <4>2. Min(f[r].todo) \in Shows /\ season[Min(f[r].todo)] # 0
        BY <4>1, NextItem DEF Inv, Types, MirrorOK
      <4> QED
        BY <4>1, <4>2, <2>3
    <3> QED
      BY <3>1, <3>2
  <2> QED
    BY <1>0, <2>1, <2>2, <2>3, <2>4 DEF Inv, Types, MirrorOK
<1>8. ASSUME f[p].clean PROVE Progress(p)'
  <2>1. \A s \in On(f[p]) \ f[p].todo : Mirrored(p, s) /\ s # m /\ s \in Shows
    BY <1>0, <1>2, <1>8 DEF Inv, ExactInv, Progress, On
  <2>2. \A s \in On(f[p]) \ f[p].todo : Mirrored(p, s)'
    BY <1>0, <1>5, <1>6, <2>1 DEF Mirrored, Inv, Types, MirrorOK
  <2>3. On(f[p])' = On(f[p])
    BY <1>5, <1>6 DEF On
  <2>4. auto'[m] = (f[p].got[m] = 1)
    BY <1>0, <1>2 DEF Inv, Types, MirrorOK
  <2> QED
    BY <1>5, <1>6, <2>2, <2>3, <2>4 DEF Progress, m
<1>9. ASSUME NEW s \in Shows, auto'[s], entries'[s].v = 0
      PROVE  s \in torn' \/ \E r \in Procs : Between(r)' /\ s = Min(f'[r].todo)
  <2>1. CASE s = m
    BY <2>1, <1>5, <1>6 DEF Between, m
  <2>2. CASE s # m
    <3>1. auto[s] /\ entries[s].v = 0
      BY <1>0, <1>9, <2>2 DEF Inv, Types, MirrorOK
    <3>2. s \in torn \/ \E r \in Procs : Between(r) /\ s = Min(f[r].todo)
      BY <3>1 DEF Inv, ExactInv
    <3>3. ASSUME NEW r \in Procs, Between(r), s = Min(f[r].todo)
          PROVE  Between(r)' /\ s = Min(f'[r].todo)
      BY <1>0, <1>6, <2>2, <3>3 DEF Between, m
    <3> QED
      BY <1>0, <2>2, <3>2, <3>3
  <2> QED
    BY <2>1, <2>2
<1> QED
  BY <1>0, <1>4, <1>5, <1>7, <1>8, <1>9, WriteOK

\* The entry is written: the show is mirrored.
LEMMA SaveOK == ASSUME Inv, NEW p \in Procs, save_mal_entry(p) PROVE Inv'
<1> DEFINE m == Min(f[p].todo)
           left == f[p].todo \ {m}
           e == [v |-> f[p].got[m], src |-> f[p].src]
           new == [f[p] EXCEPT !.todo = left, !.pc = IF left = {} THEN "known" ELSE "upsert"]
<1>0. /\ f[p].pc = "save" /\ Writes(p, new) /\ entries' = [entries EXCEPT ![m] = e]
      /\ UNCHANGED <<list, cache, auto, season, account, ring, due, spoiled, torn>>
  BY DEF save_mal_entry
<1>1. ProcOK(f[p]) /\ f[p] \in Proc
  BY DEF Inv, Types, ProcsOK, ProcOK
<1>2. m \in f[p].todo /\ m \in Shows /\ f[p].got[m] # 0
  BY <1>0, <1>1, NextItem DEF ProcOK, On
<1>3. e \in [v : Versions[m] \cup {0}, src : Sources]
  BY <1>1, <1>2 DEF ProcOK, Proc
<1>4. ProcOK(new)
  BY <1>0, <1>1, SyncWrites
<1>5. /\ new.pc = (IF left = {} THEN "known" ELSE "upsert") /\ new.todo = left
      /\ new.got = f[p].got /\ new.src = f[p].src
      /\ new.tok = f[p].tok /\ new.clean = f[p].clean
  BY <1>1 DEF Proc
<1> HIDE DEF m, new, left
<1>6. /\ f'[p] = new
      /\ \A r \in Procs \ {p} : f'[r].pc = f[r].pc /\ f'[r].todo = f[r].todo
  BY <1>0, OthersKept DEF Inv
<1>7. MirrorOK'
  <2>1. season[m] # 0
    BY <1>0 DEF Inv, Types, MirrorOK, m
  <2>2. \A r \in Procs : f'[r].pc = "save" => f[r].pc = "save" /\ f'[r].todo = f[r].todo
    BY <1>5, <1>6
  <2> QED
    BY <1>0, <1>2, <1>3, <2>1, <2>2 DEF Inv, Types, MirrorOK
<1>8. ASSUME f[p].clean PROVE Progress(p)'
  <2>1. /\ \A s \in On(f[p]) \ f[p].todo : Mirrored(p, s)
        /\ auto[m] = (f[p].got[m] = 1)
    BY <1>0, <1>8 DEF Inv, ExactInv, Progress, m
  <2>2. \A s \in Shows : entries'[s] = IF s = m THEN e ELSE entries[s]
    BY <1>0 DEF Inv, Types, MirrorOK
  <2> HIDE DEF e
  <2>3. \A s \in On(f[p]) \ left : Mirrored(p, s)'
    <3> TAKE s \in On(f[p]) \ left
    <3>1. CASE s = m
      BY <3>1, <1>0, <1>2, <1>5, <1>6, <2>1, <2>2 DEF Mirrored, e
    <3>2. CASE s # m
      BY <3>2, <1>0, <1>5, <1>6, <2>1, <2>2 DEF Mirrored, left, On
    <3> QED
      BY <3>1, <3>2
  <2>4. On(f[p])' = On(f[p])
    BY <1>5, <1>6 DEF On
  <2> QED
    BY <1>5, <1>6, <2>3, <2>4 DEF Progress
<1>9. ASSUME NEW s \in Shows, auto'[s], entries'[s].v = 0
      PROVE  s \in torn' \/ \E r \in Procs : Between(r)' /\ s = Min(f'[r].todo)
  <2>1. s # m /\ entries[s].v = 0
    BY <1>0, <1>2, <1>9 DEF Inv, Types, MirrorOK
  <2>2. s \in torn \/ \E r \in Procs : Between(r) /\ s = Min(f[r].todo)
    BY <1>0, <1>9, <2>1 DEF Inv, ExactInv
  <2>3. ASSUME NEW r \in Procs, Between(r), s = Min(f[r].todo)
        PROVE  Between(r)' /\ s = Min(f'[r].todo)
    BY <1>6, <2>1, <2>3 DEF Between, m
  <2> QED
    BY <1>0, <2>2, <2>3
<1> QED
  BY <1>0, <1>4, <1>5, <1>7, <1>8, <1>9, WriteOK

\* The row of an entry that left the list is deleted ...
LEMMA RemoveOK == ASSUME Inv, NEW p \in Procs, remove_entry(p) PROVE Inv'
<1> DEFINE m == Min(f[p].todo)
           e == [v |-> 0, src |-> "mal"]
           new == [f[p] EXCEPT !.pc = "off"]
<1>0. /\ f[p].pc = "remove" /\ Writes(p, new) /\ entries' = [entries EXCEPT ![m] = e]
      /\ UNCHANGED <<list, cache, auto, season, account, ring, due, spoiled, torn>>
  BY DEF remove_entry
<1>1. ProcOK(f[p]) /\ f[p] \in Proc
  BY DEF Inv, Types, ProcsOK, ProcOK
<1>2. m \in f[p].todo /\ m \in Shows
  BY <1>0, <1>1, NextItem
<1>3. e \in [v : Versions[m] \cup {0}, src : Sources] /\ e.v = 0
  BY DEF Sources
<1>4. ProcOK(new)
  BY <1>0, <1>1, SyncWrites
<1>5. /\ new.pc = "off" /\ new.todo = f[p].todo /\ new.got = f[p].got /\ new.src = f[p].src
      /\ new.tok = f[p].tok /\ new.clean = f[p].clean
  BY <1>1 DEF Proc
<1> HIDE DEF m, new, e
<1>6. /\ f'[p] = new
      /\ \A r \in Procs \ {p} : f'[r].pc = f[r].pc /\ f'[r].todo = f[r].todo
  BY <1>0, OthersKept DEF Inv
<1>7. MirrorOK'
  <2>1. \A r \in Procs : f'[r].pc = "save" => f[r].pc = "save" /\ f'[r].todo = f[r].todo
    BY <1>5, <1>6
  <2> QED
    BY <1>0, <1>2, <1>3, <2>1 DEF Inv, Types, MirrorOK
<1>8. \A s \in Shows : entries'[s] = IF s = m THEN e ELSE entries[s]
  BY <1>0 DEF Inv, Types, MirrorOK
<1>9. ASSUME f[p].clean PROVE Progress(p)'
  <2>1. /\ \A s \in On(f[p]) : Mirrored(p, s)
        /\ f[p].todo \cap On(f[p]) = {} /\ (f[p].src = "mal" => Gone(p) \subseteq f[p].todo)
    BY <1>0, <1>9 DEF Inv, ExactInv, Progress
  <2>2. \A s \in On(f[p]) : Mirrored(p, s)'
    BY <1>0, <1>2, <1>5, <1>6, <1>8, <2>1 DEF Mirrored, On
  <2>3. On(f[p])' = On(f[p])
    BY <1>5, <1>6 DEF On
  <2>4. Gone(p)' \subseteq Gone(p)
    BY <1>3, <1>5, <1>6, <1>8 DEF Gone
  <2>5. entries'[m].v = 0
    BY <1>2, <1>3, <1>8
  <2> QED
    BY <1>5, <1>6, <2>1, <2>2, <2>3, <2>4, <2>5 DEF Progress, m
<1>10. ASSUME NEW s \in Shows, auto'[s], entries'[s].v = 0
       PROVE  s \in torn' \/ \E r \in Procs : Between(r)' /\ s = Min(f'[r].todo)
  <2>1. CASE s = m
    BY <2>1, <1>5, <1>6 DEF Between, m
  <2>2. CASE s # m
    <3>1. s \in torn \/ \E r \in Procs : Between(r) /\ s = Min(f[r].todo)
      BY <1>0, <1>8, <1>10, <2>2 DEF Inv, ExactInv
    <3>2. ASSUME NEW r \in Procs, Between(r), s = Min(f[r].todo)
          PROVE  Between(r)' /\ s = Min(f'[r].todo)
      BY <1>6, <2>2, <3>2 DEF Between, m
    <3> QED
      BY <1>0, <3>1, <3>2
  <2> QED
    BY <2>1, <2>2
<1> QED
  BY <1>0, <1>4, <1>5, <1>7, <1>9, <1>10, WriteOK

\* ... and its show is switched off.
LEMMA OffOK == ASSUME Inv, NEW p \in Procs, switch_off(p) PROVE Inv'
<1> DEFINE m == Min(f[p].todo)
           left == f[p].todo \ {m}
           new == [f[p] EXCEPT !.todo = left, !.pc = IF left = {} THEN "end" ELSE "remove"]
<1>0. /\ f[p].pc = "off" /\ Writes(p, new) /\ auto' = [auto EXCEPT ![m] = FALSE]
      /\ torn' = torn \ {m}
      /\ UNCHANGED <<list, cache, entries, season, account, ring, due, spoiled>>
  BY DEF switch_off
<1>1. ProcOK(f[p]) /\ f[p] \in Proc
  BY DEF Inv, Types, ProcsOK, ProcOK
<1>2. m \in f[p].todo /\ m \in Shows
  BY <1>0, <1>1, NextItem
<1>3. ProcOK(new)
  BY <1>0, <1>1, SyncWrites
<1>4. /\ new.pc = (IF left = {} THEN "end" ELSE "remove") /\ new.todo = left
      /\ new.got = f[p].got /\ new.src = f[p].src
      /\ new.tok = f[p].tok /\ new.clean = f[p].clean
  BY <1>1 DEF Proc
<1>5. left \subseteq f[p].todo /\ \A s \in f[p].todo : s = m \/ s \in left
  OBVIOUS
<1> HIDE DEF m, new, left
<1>6. /\ f'[p] = new
      /\ \A r \in Procs \ {p} : f'[r].pc = f[r].pc /\ f'[r].todo = f[r].todo
  BY <1>0, OthersKept DEF Inv
<1>7. auto' \in [Shows -> BOOLEAN] /\ ~auto'[m]
      /\ \A s \in Shows : s # m => auto'[s] = auto[s]
  BY <1>0, <1>2 DEF Inv, Types, MirrorOK
<1>8. MirrorOK'
  <2>1. \A r \in Procs : f'[r].pc = "save" => f[r].pc = "save" /\ f'[r].todo = f[r].todo
    BY <1>4, <1>6
  <2> QED
    BY <1>0, <1>7, <2>1 DEF Inv, Types, MirrorOK
<1>9. ASSUME f[p].clean PROVE Progress(p)'
  <2>1. /\ \A s \in On(f[p]) : Mirrored(p, s)
        /\ f[p].todo \cap On(f[p]) = {} /\ (f[p].src = "mal" => Gone(p) \subseteq f[p].todo)
        /\ entries[m].v = 0
    BY <1>0, <1>9 DEF Inv, ExactInv, Progress, m
  <2>2. \A s \in On(f[p]) : Mirrored(p, s)'
    <3> TAKE s \in On(f[p])
    <3>1. s \in Shows /\ s # m
      BY <1>2, <2>1 DEF On
    <3>2. auto'[s] = auto[s] /\ entries' = entries /\ f'[p].got = f[p].got /\ f'[p].src = f[p].src
      BY <1>0, <1>4, <1>6, <1>7, <3>1
    <3> QED
      BY <2>1, <3>2 DEF Mirrored
  <2>3. On(f[p])' = On(f[p]) /\ Gone(p)' = Gone(p) /\ m \notin Gone(p)
    BY <1>0, <1>4, <1>6, <2>1 DEF On, Gone
  <2>4. f[p].src = "mal" => Gone(p) \subseteq left
    BY <1>5, <2>1, <2>3
  <2>5. left \cap On(f[p]) = {}
    BY <1>5, <2>1
  <2> QED
    BY <1>4, <1>6, <2>2, <2>3, <2>4, <2>5 DEF Progress
<1>10. ASSUME NEW s \in Shows, auto'[s], entries'[s].v = 0
       PROVE  s \in torn' \/ \E r \in Procs : Between(r)' /\ s = Min(f'[r].todo)
  <2>1. s # m /\ auto[s]
    BY <1>7, <1>10
  <2>2. s \in torn \/ \E r \in Procs : Between(r) /\ s = Min(f[r].todo)
    BY <1>0, <1>10, <2>1 DEF Inv, ExactInv
  <2>3. ASSUME NEW r \in Procs, Between(r), s = Min(f[r].todo)
        PROVE  Between(r)' /\ s = Min(f'[r].todo)
    BY <1>6, <2>1, <2>3 DEF Between, m
  <2> QED
    BY <1>0, <2>1, <2>2, <2>3
<1> QED
  BY <1>0, <1>3, <1>4, <1>8, <1>9, <1>10, WriteOK

\* A kill is remembered: between two writes the show is torn, with a token in
\* hand the account is spoiled.
LEMMA KillOK == ASSUME Inv, NEW p \in Procs, Kill(p) PROVE Inv'
<1> DEFINE ends == Ends(p) /\ spoiled' = (spoiled \/ Holds(p)) /\ UNCHANGED ring
           gone == f[p].pc = "post" /\ f' = Rotated(p, Idle) /\ ring' = Outdated /\ spoiled' = TRUE
<1>0. /\ torn' = IF Between(p) THEN torn \cup {Min(f[p].todo)} ELSE torn
      /\ ends \/ gone
      /\ UNCHANGED <<list, cache, db, due>>
  BY DEF Kill, Between
<1>1. ProcOK(Idle) /\ Idle.pc = "idle" /\ Idle.tok = "none" /\ ~Idle.clean
  BY NewProcs DEF Idle
<1>2. CASE ends
  <2>1. f' = [f EXCEPT ![p] = Idle]
    BY <1>2 DEF Ends
  <2>2. f'[p] = Idle /\ \A r \in Procs \ {p} : f'[r] = f[r]
    BY <2>1 DEF Inv, Types, ProcsOK
  <2>3. ProcsOK'
    BY <1>1, <2>1, <2>2 DEF Inv, Types, ProcsOK
  <2>4. MirrorOK'
    BY <1>0, <1>1, <2>2, MirrorKept DEF Inv, Types, db
  <2>5. TokenInv'
    <3>1. \A r \in Procs : (Holds(r)' => Holds(r)) /\ (r # p => (Holds(r)' <=> Holds(r)))
      BY <1>1, <2>2 DEF Holds
    <3>2. \A r \in Procs \ {p} : HasCode(r)' = HasCode(r)
      BY <2>2 DEF HasCode
    <3>3. \A q, r \in Procs : Holds(q)' /\ r # q => f'[r].tok # "good" \/ HasCode(r)'
      BY <1>1, <2>2, <3>1, <3>2 DEF Inv, TokenInv
    <3>4. \A r \in Procs : Holds(r)' => ring' # "good"
      BY <1>2, <3>1 DEF Inv, TokenInv
    <3>5. \A r \in Procs : f'[r].pc = "store" /\ f'[r].tok = "bad" => spoiled'
      BY <1>1, <1>2, <2>2 DEF Inv, TokenInv
    <3>6. TokenKept'
      <4>1. CASE Holds(p)
        BY <1>2, <4>1 DEF TokenKept
      <4>2. CASE ~Holds(p)
        BY <1>2, <3>1, <4>2 DEF Inv, TokenInv, TokenKept
      <4> QED
        BY <4>1, <4>2
    <3> QED
      BY <3>3, <3>4, <3>5, <3>6 DEF TokenInv
  <2>6. ExactInv'
    <3>1. CASE ~Between(p)
      BY <1>0, <1>1, <2>1, <3>1, ReadExact DEF Between, db
    <3>2. CASE Between(p)
      <4>1. \A r \in Procs : ~f'[r].clean
        BY <1>1, <2>2, <3>2 DEF Inv, ExactInv
      <4>2. ASSUME NEW s \in Shows, auto'[s], entries'[s].v = 0
            PROVE  s \in torn' \/ \E r \in Procs : Between(r)' /\ s = Min(f'[r].todo)
        <5>1. s \in torn \/ \E r \in Procs : Between(r) /\ s = Min(f[r].todo)
          BY <1>0, <4>2 DEF Inv, ExactInv, db
        <5>2. CASE s \in torn \/ s = Min(f[p].todo)
          BY <1>0, <3>2, <5>2
        <5>3. ASSUME NEW r \in Procs \ {p}, Between(r), s = Min(f[r].todo)
              PROVE  Between(r)' /\ s = Min(f'[r].todo)
          BY <2>2, <5>3 DEF Between
        <5> QED
          BY <5>1, <5>2, <5>3
      <4> QED
        BY <4>1, <4>2 DEF ExactInv
    <3> QED
      BY <3>1, <3>2
  <2>7. spoiled' \in BOOLEAN
    BY <1>2 DEF Inv, Types
  <2> QED
    BY <1>0, <1>2, <2>3, <2>4, <2>5, <2>6, <2>7 DEF Inv, Types, SourceOK, AccountOK, db
<1>3. CASE gone
  <2>1. f' = [r \in Procs |-> f'[r]] /\ f'[p] = Idle
    BY <1>3 DEF Rotated
  <2>2. \A r \in Procs \ {p} : f'[r] = Rotated(p, Idle)[r]
    BY <1>3
  <2>3. torn' = torn /\ due' \in BOOLEAN
    BY <1>0, <1>3 DEF Between, Inv, Types
  <2>4. spoiled' /\ spoiled' \in BOOLEAN
    BY <1>3
  <2> QED
    BY <1>0, <1>1, <1>3, <2>1, <2>2, <2>3, <2>4, TokenGone
<1> QED
  BY <1>0, <1>2, <1>3

-----------------------------------------------------------------------------
(* The theorems.                                                           *)

LEMMA NextOK == ASSUME Inv, Next PROVE Inv'
<1>1. ASSUME NEW p \in Procs, fetch_fails(p) \/ finish_sync(p) PROVE Inv'
  <2>1. due' \in BOOLEAN
    BY <1>1 DEF fetch_fails, finish_sync, Inv, Types
  <2> QED
    BY <1>1, <2>1, EndOK DEF fetch_fails, finish_sync
<1>2. ASSUME NEW p \in Procs, Step(p) PROVE Inv'
  BY <1>1, <1>2, AccessOK, RequestOK, LostOK, StoreOK, FetchOK, RelationsOK, UpsertOK, SaveOK,
     KnownOK, RemoveOK, OffOK DEF Step
<1> QED
  BY <1>2, BeginsOK, KillOK, DisconnectOK, AroundOK DEF Next

LEMMA StutterOK == ASSUME Inv, UNCHANGED vars PROVE Inv'
<1>1. UNCHANGED <<list, cache, entries, auto, season, account, ring, due, f, spoiled, torn>>
  BY DEF vars, db
<1>2. SourceOK' /\ AccountOK' /\ due' \in BOOLEAN
  BY <1>1 DEF Inv, Types, SourceOK, AccountOK
<1> QED
  BY <1>1, <1>2, WorldOK

LEMMA Invariant == Spec => []Inv
<1>1. Inv /\ [Next]_vars => Inv'
  BY NextOK, StutterOK
<1> QED
  BY <1>1, InitOK, PTL DEF Spec

\* The mirror and the processes keep their types, and an entry has its show.
THEOREM TypeCorrect == Spec => []TypeOK
<1>1. Inv => TypeOK
  BY DEF Inv, Types, ProcsOK, ProcOK, Proc, SourceOK, MirrorOK, AccountOK, TypeOK
<1> QED
  BY <1>1, Invariant, PTL

\* Two processes that refresh at the same time never cost the account its
\* token: the one that holds the newest stores it.
THEOREM TokenIsKept == Spec => []TokenKept
<1>1. Inv => TokenKept
  BY DEF Inv, TokenInv
<1> QED
  BY <1>1, Invariant, PTL

\* If MAL's sequel links have no cycle, build_chains gives every chain the
\* seasons 1 .. n, whatever order its HashSet yields the ready entries in.
THEOREM ChainsInOrder == ASSUME Acyclic PROVE Spec => []ChainInOrder
<1>1. Inv => ChainInOrder
  BY DEF Inv, Types, ProcsOK, ProcOK, ChainOK, On, ChainInOrder
<1> QED
  BY <1>1, Invariant, PTL

\* A sync that no other process disturbs leaves the database as its list.
THEOREM SyncsAreExact == Spec => SyncIsExact
<1> DEFINE Exact(p) == \A s \in Shows :
             /\ f[p].got[s] # 0 => entries[s] = [v |-> f[p].got[s], src |-> f[p].src]
             /\ f[p].got[s] = 0 /\ f[p].src = "mal" => entries[s].v = 0
             /\ (f[p].got[s] # 0 \/ f[p].src = "mal") /\ s \notin torn
                  => auto[s] = (f[p].got[s] = 1)
           Ending == \A p \in Procs : f[p].pc = "end" /\ f'[p].pc = "idle" /\ f[p].clean => Exact(p)
<1>1. ASSUME Inv, NEW p \in Procs, f[p].pc = "end", f[p].clean PROVE Exact(p)
  <2>1. \A s \in On(f[p]) : Mirrored(p, s)
    BY <1>1 DEF Inv, ExactInv, Progress
  <2>2. f[p].src = "mal" => Gone(p) = {}
    BY <1>1 DEF Inv, ExactInv, Progress
  <2>3. \A r \in Procs : ~Between(r)
    BY <1>1 DEF Inv, ExactInv, Between
  <2>4. \A s \in Shows : entries[s].v = 0 /\ s \notin torn => auto[s] = FALSE
    BY <2>3, <1>1 DEF Inv, ExactInv, Types, MirrorOK
  <2>5. ASSUME NEW s \in Shows, f[p].got[s] # 0
        PROVE  entries[s] = [v |-> f[p].got[s], src |-> f[p].src] /\ auto[s] = (f[p].got[s] = 1)
    BY <2>1, <2>5 DEF On, Mirrored
  <2>6. ASSUME NEW s \in Shows, f[p].got[s] = 0, f[p].src = "mal"
        PROVE  entries[s].v = 0 /\ (s \notin torn => auto[s] = FALSE) /\ (f[p].got[s] = 1) = FALSE
    BY <2>2, <2>4, <2>6 DEF Gone
  <2> QED
    BY <2>5, <2>6
<1>2. Inv => [Ending]_vars
  BY <1>1
<1> QED
  BY <1>2, Invariant, PTL DEF SyncIsExact
=============================================================================
