------------------------------ MODULE MCServer ------------------------------
(* Model of Server for TLC: two requests at a time, windows and lifetimes  *)
(* that the clocks outrun, limits that the calls reach, and inputs of      *)
(* every kind the code tells apart.                                        *)
EXTENDS Server, TLC

Clocks == [SA |-> 1, LM |-> 3, MO |-> 3]
Budgets == [SA |-> 2, LM |-> 4, PR |-> 3, CT |-> 2, SC |-> 5, MK |-> 4, AF |-> 5, HY |-> 5, MO |-> 6]
Symmetry == Permutations(Workers) \cup Permutations(Secrets) \cup Permutations(HyKeys)

\* The two actions on a token, which share its status and so can undo each other.
OnToken == {<<"token", "suspend_token">>, <<"token", "disable_token">>}
OneLimit == <<"token">>
Limited == [token |-> 3, tpm |-> 1]
TwoOptions == <<"model_ratio", "model_price">>

\* Talks: roles and forms that the adapters treat differently, in an order that mixes them.
Conversation(s) == [i \in DOMAIN s |-> [role |-> s[i][1], form |-> s[i][2], id |-> i]]
Talks ==
  {Conversation(<<<<"system", "text">>, <<"user", "parts">>, <<"odd", "text">>, <<"system", "text">>,
                  <<"assistant", "text">>, <<"user", "text">>>>),
   Conversation(<<<<"user", "parts">>>>)}

\* Guards: off, watching only, and with advertisements swallowed, kept or a phrase
\* that blocks.
Policy(on, mode, strip, inj) == [on |-> on, mode |-> mode, ads |-> TRUE, strip |-> strip, inj |-> inj]
Guards ==
  {Policy(FALSE, "protect", TRUE, TRUE), Policy(TRUE, "monitor", TRUE, TRUE), Policy(TRUE, "protect", TRUE, FALSE),
   Policy(TRUE, "strict", TRUE, TRUE), Policy(TRUE, "protect", FALSE, TRUE), Policy(TRUE, "protect", FALSE, FALSE)}

\* Requests with every kind of block, and selections of up to three channels.
Block(t, i) == [type |-> t, id |-> i]
Turn(role, form, blocks) == [role |-> role, form |-> form, blocks |-> blocks]
Turns ==
  {<<>>, <<Turn("user", "text", <<Block("text", 1)>>)>>,
   <<Turn("user", "blocks", <<Block("text", 1), Block("image", 2), Block("text", 3), Block("tool_result", 4), Block("tool_result", 5)>>),
     Turn("assistant", "blocks", <<Block("text", 6), Block("tool_use", 7), Block("image", 8)>>), Turn("user", "odd", <<>>),
     Turn("user", "blocks", <<Block("tool_result", 9), Block("text", 10), Block("text", 11)>>)>>}
Asked == [system : {"none", "text", "blocks"}, msgs : Turns]
OneOf == [type : {"claude", "gemini", "other"}, policy : {"off", "guard", "refuse"}]
Selections ==
  {<<a>> : a \in OneOf} \cup {<<a, b>> : a, b \in OneOf}
  \cup {<<a, b, [type |-> "other", policy |-> "guard"]>> : a, b \in OneOf}

\* What the selector may give a call whose channel was remembered.
Chosen(c, m, g) == [ch |-> c, model |-> m, group |-> g]
Remembered == {<<Chosen(1, "a", "own")>>, <<Chosen(1, "a", "own"), Chosen(2, "b", "own"), Chosen(3, "a", "other")>>}
=============================================================================
