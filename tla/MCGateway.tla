----------------------------- MODULE MCGateway -----------------------------
(***************************************************************************)
(* Small instances of the gateway: two requests, one tenant with a budget  *)
(* that the requests can exhaust, one model that two providers serve and   *)
(* one that no provider or price table lists, a feed that changes the      *)
(* price of the first.  A micro-dollar is 20 units, so that the prices of  *)
(* gpt-4o-mini (0.15 and 0.60) are whole numbers.                          *)
(***************************************************************************)
EXTENDS Gateway, TLC

CONSTANTS q1, q2

Chat(stream, max, findings, redactedDecodes) ==
  [decodes |-> TRUE, model |-> "gpt-4o-mini", stream |-> stream, prompt |-> 2,
   max |-> max, findings |-> findings, redactedDecodes |-> redactedDecodes,
   redactedPrompt |-> 1]
Garbage == [Chat(FALSE, 0, {}, TRUE) EXCEPT !.decodes = FALSE]

MCModel == {"gpt-4o-mini", "mystery"}
MCDefaultPrices == [m \in {"gpt-4o-mini"} |-> [input |-> 3, output |-> 12]]
MCFeed == {[m \in {"gpt-4o-mini"} |-> [input |-> 4, output |-> 14]]}
MCTenant == {"default"}
MCCostCfg == [daily |-> 130, perReq |-> 90]
MCTenantBudget == [t \in {} |-> 0]
MCRequest == {q1, q2}
MCProviders ==
  <<[type |-> "anthropic", models |-> {"gpt-4o-mini"}],
    [type |-> "openai", models |-> {}],
    [type |-> "openai-compatible", models |-> {"gpt-4o-mini"}]>>
MCFound ==
  {Chat(TRUE, 0, {"pii"}, TRUE), Chat(FALSE, 1, {"pii"}, TRUE),
   Chat(FALSE, 1, {"pii"}, FALSE), Chat(FALSE, 1, {"pii", "prompt_injection"}, TRUE),
   Garbage}
MCBody ==
  MCFound \cup {Chat(FALSE, 1, {}, TRUE),
               [Chat(FALSE, 1, {}, TRUE) EXCEPT !.model = "mystery", !.prompt = 1]}
MCSymmetry == Permutations(MCRequest)
=============================================================================
