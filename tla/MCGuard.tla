------------------------------ MODULE MCGuard ------------------------------
(***************************************************************************)
(* Small instances of module Guard: every pair of modes, some of them      *)
(* mistyped or oddly spelled, one custom pattern that compiles and one     *)
(* that does not, and bodies with up to two spots.                         *)
(***************************************************************************)
EXTENDS Guard

Exactly(mode) == [mode |-> mode, exact |-> TRUE]
MCModes == {Exactly(mode) : mode \in Mode \cup {"", "other"}}
             \cup {[mode |-> mode, exact |-> FALSE] : mode \in {"off", "block"}}
Extra == <<[rule |-> "custom_1", compiles |-> FALSE], [rule |-> "custom_2", compiles |-> TRUE]>>
MCConfigs == {[prompt |-> p, pii |-> i, extra |-> e] : p \in MCModes, i \in MCModes, e \in {<<>>, Extra}}

MCPIIRule == <<"email", "credit_card">>
MCSpots == {s \in Spot : s.bare => s.place \in {"text", "elsewhere"} /\ s.rule = "credit_card"}
MCBodies == {{s1, s2} : s1 \in MCSpots, s2 \in MCSpots}

RedactConfigs == {[prompt |-> Exactly("warn"), pii |-> Exactly("redact"), extra |-> <<>>]}
=============================================================================
