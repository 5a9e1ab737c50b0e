----------------------------- MODULE ModelRoundMC -----------------------------
(* An instance of ModelRound for TLC. *)
EXTENDS ModelRound

ResidentTools == {"search_tools", "ask_user"}
LoadableTools == {"read_only", "spawn_subagents", "collect_subagent_results"}
ExclusiveTools == {"ask_user", "spawn_subagents", "collect_subagent_results"}

\* Each kind of batch: ordinary tools alone and beside a search, each runtime tool, one that
\* mixes both, and a tool that does not exist.
SmallBatches ==
  {{"search_tools", "read_only"}, {"ask_user"}, {"spawn_subagents"},
   {"collect_subagent_results"}, {"spawn_subagents", "read_only"}, {Unknown}}
=============================================================================
