----------------------------- MODULE MCPipeline -----------------------------
(* Pipeline for TLC: the bounds are given in the configuration. *)
EXTENDS Pipeline

\* The states that the last round and the last container lead to are the same
\* whatever their numbers, so three rounds show every way in which a round can
\* find the files of an earlier one.
MCRounds == 3
=============================================================================
