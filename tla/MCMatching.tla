------------------------------ MODULE MCMatching ------------------------------
(***************************************************************************)
(* A finished first season "a" and its airing sequel "b" whose searches    *)
(* bring up one another's releases.                                        *)
(***************************************************************************)
EXTENDS Matching

Plain == [names |-> {"a"}, mentions |-> {}, season |-> 0, episode |-> 1,
          batch |-> FALSE, from |-> 0, to |-> 0, res |-> 4, codec |-> "avc",
          group |-> "G", size |-> 500, audio |-> "sub", remade |-> FALSE]

MCRelease ==
    << Plain,                                                       \* the episode
       [Plain EXCEPT !.group = "H", !.res = 3],                     \* by another group
       [Plain EXCEPT !.episode = None, !.batch = TRUE, !.from = 1, !.to = 2,
                     !.group = "H", !.size = 1000],                 \* the season
       [Plain EXCEPT !.episode = 2],                                \* another episode
       [Plain EXCEPT !.names = {"a", "b"}, !.season = 2],           \* the sequel
       [Plain EXCEPT !.remade = TRUE, !.audio = "dual"] >>          \* a remake

MCShow == [s \in Shows |->
    IF s = "a"
    THEN [season |-> 1, episode |-> 1, aired |-> TRUE,  auto |-> FALSE, total |-> 2]
    ELSE [season |-> 2, episode |-> 1, aired |-> FALSE, auto |-> TRUE,  total |-> 0]]

MCHits      == [s \in Shows |-> IF s = "a" THEN <<{1, 2, 4}, {5, 6}>> ELSE <<{1, 4, 5}>>]
MCBatchHits == [s \in Shows |-> IF s = "a" THEN <<{3}>> ELSE <<{}>>]
MCSeeders   == [t \in Torrents |-> CASE t = 1 -> {5} [] t = 2 -> {20} [] t = 3 -> {0, 200}
                                     [] t = 4 -> {300} [] t = 5 -> {3} [] t = 6 -> {50}]

MCEdits == {<<Global, "seed_auto_threshold", 20>>, <<"a", "seed_ask_max", 15>>,
            <<"a", "prefer_batch_when_finished", FALSE>>}
MCResets == {<<Global, Keys>>, <<"a", {"seed_ask_max"}>>}

=============================================================================
