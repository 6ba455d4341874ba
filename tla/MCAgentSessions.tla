--------------------------- MODULE MCAgentSessions --------------------------
(* A small instance of AgentSessions for TLC. *)
EXTENDS AgentSessions

\* One that may do everything and delegate once, one that may only delegate, twice over.
MCProfiles ==
    {[tools |-> Kinds, depth |-> 1], [tools |-> {"delegate"}, depth |-> 2]}

\* Two kinds of calls in one reply, a delegation, and what a prompt may ask for.
MCAsks ==
    {[natives |-> <<"work">>, directives |-> <<"send">>],
     [natives |-> <<"delegate">>, directives |-> <<>>],
     [natives |-> <<>>, directives |-> <<"send">>]}
=============================================================================
