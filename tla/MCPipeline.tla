----------------------------- MODULE MCPipeline -----------------------------
(***************************************************************************)
(* Pipeline on small instances.  Torrents "t1" and "t2" are singles of two *)
(* groups, "b1" a batch of the first group.                                *)
(***************************************************************************)
EXTENDS Pipeline

MCGroup == [t \in Torrents |-> IF t = "t2" THEN "g2" ELSE "g1"]

NoAnswers == {}

=============================================================================
