------------------------------ MODULE MCPlanner ------------------------------
(***************************************************************************)
(* Planner on a small list: a show of one episode that is being watched,   *)
(* and a finished show of two that one may also ask for by itself.         *)
(***************************************************************************)
EXTENDS Planner

MCChains == << <<"s1">>, <<"s2">> >>
MCTotals == [s \in Shows |-> IF s = "s1" THEN 1 ELSE 2]
MCList   == [s \in Shows |->
               [status |-> IF s = "s1" THEN "watching" ELSE "plan_to_watch",
                watched |-> 0]]
MCAsked  == {<<"s2", 0>>}

=============================================================================
