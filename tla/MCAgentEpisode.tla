--------------------------- MODULE MCAgentEpisode ---------------------------
(* An instance of AgentEpisode for TLC.                                    *)
EXTENDS AgentEpisode

(* No calls, and more than MaxCalls = 3 of them, with a submission, an     *)
(* illegal name and, for either kind of model, a search that is executed.  *)
SomeReplies == {<<>>, <<"submit", "illegal", "tool", "tool">>}
=============================================================================
