--------------------------- MODULE MCClaudeAgents ---------------------------
(* Small workspaces for ClaudeAgents: the run configures every constant. *)
EXTENDS ClaudeAgents
=============================================================================
