---------------------------- MODULE MCAgentTools ----------------------------
(* AgentTools with a few plans of at most three calls, for TLC. *)
EXTENDS AgentTools, Sequences

Kind(s, i) == IF i <= Len(s) THEN s[i] ELSE "none"
PlanOf(parent, child) ==
  [c \in Calls |-> Kind(IF c[1] = "parent" THEN parent ELSE child, c[2])]
FewPlans == {PlanOf(<<"write", "finish", "read">>, <<>>),
             PlanOf(<<"read", "search", "finish">>, <<>>),
             PlanOf(<<"spawn", "write", "wait">>, <<"finish">>),
             PlanOf(<<"spawn", "write", "cancel">>, <<"read">>),
             PlanOf(<<"spawn", "wait">>, <<"read", "finish">>)}
=============================================================================
