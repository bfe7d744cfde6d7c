------------------------------- MODULE Season -------------------------------
(***************************************************************************)
(* What the user's list wants next of a franchise: the walk of             *)
(* season/walk.rs along a season chain.  Pure operators.                   *)
(*                                                                         *)
(* A chain is a sequence of entries, first season to last.  An entry has   *)
(* its list status, the episodes watched and the episode count (total),    *)
(* which is NoCount while MAL does not know it.                            *)
(***************************************************************************)
EXTENDS Integers, Sequences

NoCount == 0

ListStatus == {"watching", "completed", "on_hold", "dropped", "plan_to_watch"}

(***************************************************************************)
(* The walk.  It answers the position of the entry that wants an episode   *)
(* and the episode's number, or Nothing.                                   *)
(***************************************************************************)
Nothing == [at |-> 0, episode |-> 0]

FullyWatched(entry) == entry.total # NoCount /\ entry.watched >= entry.total

\* The entries the walk passes by; it ends at the first one of the others.
WalkedPast(entry, planAllowed) ==
    \/ entry.status = "completed"
    \/ entry.status = "plan_to_watch" /\ planAllowed /\ FullyWatched(entry)

wanted(chain, planAllowed) ==
    LET stops == {i \in DOMAIN chain : ~WalkedPast(chain[i], planAllowed)}
        i     == CHOOSE k \in stops : \A l \in stops : k <= l
    IN  IF stops = {} THEN Nothing
        ELSE IF \/ chain[i].status = "watching" /\ ~FullyWatched(chain[i])
                \/ chain[i].status = "plan_to_watch" /\ planAllowed
             THEN [at |-> i, episode |-> chain[i].watched + 1]
             ELSE Nothing
=============================================================================
