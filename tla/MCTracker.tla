----------------------------- MODULE MCTracker -----------------------------
(***************************************************************************)
(* Two callers of one tenant that has a daily budget of its own and the    *)
(* global per-request budget, two days, a clock that is set back once.     *)
(* The feed makes the known model dearer and prices the unknown one.       *)
(***************************************************************************)
EXTENDS Tracker, TLC

CONSTANTS q1, q2

MCModel == {"gpt", "local"}
MCDefaultPrices == [m \in {"gpt"} |-> [input |-> 1, output |-> 1]]
MCFeed == {[m \in MCModel |-> [input |-> 1, output |-> 2]]}
MCCostCfg == [daily |-> 3, perReq |-> 3]

OneTenant == {"default"}
OneTenantBudget == [t \in OneTenant |-> [daily |-> 4, perReq |-> 0]]

MCRequest == {q1, q2}
MCSymmetry == Permutations(MCRequest)
=============================================================================
