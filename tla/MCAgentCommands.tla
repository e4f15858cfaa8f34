-------------------------- MODULE MCAgentCommands --------------------------
(* Instances of AgentCommands for TLC. *)
EXTENDS AgentCommands, TLC

\* Commands, handlers and workers are interchangeable; only safety runs use this.
Symmetry == Permutations(Cmds) \union Permutations(Legacy)
              \union Permutations(Handlers) \union Permutations(Workers)
============================================================================
