------------------------------- MODULE Guard -------------------------------
(***************************************************************************)
(* The security guard, internal/security/security.go, and the part of      *)
(* gateway/chat.go that inspects a prompt and redacts a body.              *)
(*                                                                         *)
(* Inspect reads the PROMPT: the decoded texts of the messages, joined     *)
(* with line breaks.  Redact rewrites the BODY: the JSON as it was sent.   *)
(* A body is therefore the set of what a rule can find in it, and each of  *)
(* these spots says where it shows:                                        *)
(*   - in one message's text, as such;                                     *)
(*   - in one message's text, but JSON writes it with an escape (a quote,  *)
(*     a backslash, a \u sequence), so the body does not show it;          *)
(*   - across the line break between two messages: in the prompt only;     *)
(*   - in another member of the JSON: in the body only.                    *)
(***************************************************************************)
EXTENDS Integers, Sequences, FiniteSets

CONSTANTS
  PromptRule,      \* built-in rules for prompt injection
  PIIRule,         \* built-in rules for PII, in order
  CustomRule,      \* names of custom rules, custom_1, custom_2, ...
  SecurityConfigs, \* security sections in play
  Bodies           \* request bodies in play

Mode == {"off", "warn", "redact", "block"}
Action == {"allow", "warn", "redact", "block"}

\* A mode as written: one of the four, nothing, or something else; exact
\* unless it has capitals or white space.
WrittenMode == [mode : Mode \cup {"", "other"}, exact : BOOLEAN]
SecurityConfig == [prompt : WrittenMode, pii : WrittenMode,
                   extra : Seq([rule : CustomRule, compiles : BOOLEAN])]

BuiltInPII == {PIIRule[i] : i \in DOMAIN PIIRule}
Place == {"text", "escaped", "across", "elsewhere"}
\* bare: what is found is not inside a JSON string (a number), so that
\* replacing it leaves no valid JSON.
Spot == [rule : PromptRule \cup BuiltInPII \cup CustomRule, place : Place, bare : BOOLEAN]

ASSUME GuardAssumption ==
  /\ PIIRule \in Seq(BuiltInPII)
  /\ SecurityConfigs \subseteq SecurityConfig
  /\ Bodies \subseteq SUBSET Spot
  /\ PromptRule \cap (BuiltInPII \cup CustomRule) = {}
  /\ BuiltInPII \cap CustomRule = {}

InPrompt(spot) == spot.place \in {"text", "escaped", "across"}
InBody(spot) == spot.place \in {"text", "elsewhere"}

----------------------------------------------------------------------------
\* Mutant: only the exact spelling counts.
NormalizeModeExact(written, fallback) ==
  IF written.mode \in Mode /\ written.exact THEN written.mode ELSE fallback

\* Mutant: an unknown mode is kept.
NormalizeModeKept(written, fallback) == IF written.mode = "" THEN fallback ELSE written.mode

NormalizeMode(written, fallback) == IF written.mode \in Mode THEN written.mode ELSE fallback

\* The rules in the order of their use; a pattern that does not compile is
\* dropped.  rules[i] are those after the first i of the extra patterns.
PIIRules(c) ==
  LET rules[i \in 0..Len(c.extra)] ==
        IF i = 0 THEN PIIRule
        ELSE IF c.extra[i].compiles THEN Append(rules[i - 1], c.extra[i].rule)
        ELSE rules[i - 1]
  IN  rules[Len(c.extra)]

MakeGuard(c) ==
  [promptMode |-> NormalizeMode(c.prompt, "warn"),
   piiMode |-> NormalizeMode(c.pii, "redact"),
   pii |-> PIIRules(c)]

RangeOf(rules) == {rules[i] : i \in DOMAIN rules}

----------------------------------------------------------------------------
VARIABLES
  cfg,     \* the security section
  guard,   \* the guard made of it
  request  \* the request at hand: its body, the decision, what is forwarded

vars == <<cfg, guard, request>>

NoGuard == [promptMode |-> "off", piiMode |-> "off", pii |-> <<>>]
NoRequest == [pc |-> "none", body |-> {}, findings |-> {}, action |-> "allow",
              rule |-> 0, forward |-> {}, broken |-> FALSE]

TypeOK ==
  /\ cfg \in SecurityConfigs
  /\ guard.promptMode \in Mode /\ guard.piiMode \in Mode
  /\ guard.pii \in Seq(BuiltInPII \cup CustomRule)
  /\ request \in [pc : {"none", "inspected", "redacting", "blocked", "rejected", "forwarded"},
                  body : SUBSET Spot, findings : SUBSET [kind : {"prompt_injection", "pii"},
                                                         rule : PromptRule \cup RangeOf(guard.pii)],
                  action : Action, rule : 0..Len(guard.pii), forward : SUBSET Spot,
                  broken : BOOLEAN]

Init == cfg \in SecurityConfigs /\ guard = NoGuard /\ request = NoRequest

NewGuard ==
  /\ guard = NoGuard
  /\ guard' = MakeGuard(cfg)
  /\ UNCHANGED <<cfg, request>>

----------------------------------------------------------------------------
FindingsOf(body) ==
  LET shown == {spot.rule : spot \in {s \in body : InPrompt(s)}}
  IN  {[kind |-> "prompt_injection", rule |-> r] : r \in shown \cap PromptRule}
        \cup {[kind |-> "pii", rule |-> r] : r \in shown \cap RangeOf(guard.pii)}

ActionFromMode(mode) == IF mode = "off" THEN "allow" ELSE mode
Rank == [allow |-> 0, warn |-> 1, redact |-> 2, block |-> 3]

ActionFor(findings) ==
  LET asked == {"allow"} \cup {ActionFromMode(IF f.kind = "pii" THEN guard.piiMode
                                              ELSE guard.promptMode) : f \in findings}
  IN  CHOOSE a \in asked : \A b \in asked : Rank[b] <= Rank[a]

Inspect(body) ==
  /\ guard # NoGuard /\ request = NoRequest
  /\ LET findings == FindingsOf(body) IN
       request' = [pc |-> "inspected", body |-> body, findings |-> findings,
                   action |-> ActionFor(findings), rule |-> 0, forward |-> body, broken |-> FALSE]
  /\ UNCHANGED <<cfg, guard>>

Become(r) == request' = r /\ UNCHANGED <<cfg, guard>>

Block ==
  /\ request.pc = "inspected" /\ request.action = "block"
  /\ Become([request EXCEPT !.pc = "blocked"])

Forward ==
  /\ request.pc = "inspected" /\ request.action \in {"allow", "warn"}
  /\ Become([request EXCEPT !.pc = "forwarded"])

StartRedaction ==
  /\ request.pc = "inspected" /\ request.action = "redact"
  /\ Become([request EXCEPT !.pc = "redacting"])

\* What ReplaceAllString replaces: all the rule finds in the body, wherever.
Replaced(rule) == {spot \in request.forward : InBody(spot) /\ spot.rule = rule}

RedactRule ==
  /\ request.pc = "redacting" /\ request.rule < Len(guard.pii)
  /\ LET hits == Replaced(guard.pii[request.rule + 1]) IN
       Become([request EXCEPT !.rule = @ + 1, !.forward = @ \ hits,
                              !.broken = @ \/ \E spot \in hits : spot.bare])

\* Mutant: the last rule is left out.
RedactionDoneEarly ==
  /\ request.pc = "redacting" /\ request.rule >= Len(guard.pii) - 1
  /\ Become([request EXCEPT !.pc = IF request.broken THEN "rejected" ELSE "forwarded"])

\* The result is decoded again, and not inspected again.
RedactionDone ==
  /\ request.pc = "redacting" /\ request.rule = Len(guard.pii)
  /\ Become([request EXCEPT !.pc = IF request.broken THEN "rejected" ELSE "forwarded"])

NextRequest ==
  /\ request.pc \in {"blocked", "rejected", "forwarded"}
  /\ Become(NoRequest)

Next ==
  \/ NewGuard \/ NextRequest
  \/ \E body \in Bodies : Inspect(body)
  \/ Block \/ Forward \/ StartRedaction \/ RedactRule \/ RedactionDone

Spec == Init /\ [][Next]_vars

----------------------------------------------------------------------------
Found(kind) == \E f \in request.findings : f.kind = kind
Forwarded == request.pc = "forwarded"

(***************************************************************************)
(* Modes mean what the operator wrote, in capitals or with white space, or *)
(* mistyped: with "block" for a kind nothing with a finding of that kind   *)
(* is forwarded, whatever the mode of the other kind; and only a mode that *)
(* was written "off" lets a finding pass without a mark.                   *)
(***************************************************************************)
ModesHonoured ==
  Forwarded =>
    /\ cfg.prompt.mode = "block" => ~Found("prompt_injection")
    /\ cfg.pii.mode = "block" => ~Found("pii")
    /\ request.action = "allow" => /\ Found("prompt_injection") => cfg.prompt.mode = "off"
                                   /\ Found("pii") => cfg.pii.mode = "off"

(***************************************************************************)
(* A body that is redacted shows no rule, built-in or custom, anything any *)
(* more, in whatever member of the JSON; and nothing else was taken out.   *)
(***************************************************************************)
RedactedBodyClean ==
  Forwarded /\ request.action = "redact" =>
    /\ \A spot \in request.forward : spot.rule \in RangeOf(guard.pii) => ~InBody(spot)
    /\ \A spot \in request.body \ request.forward : spot.rule \in RangeOf(guard.pii)

(***************************************************************************)
(* README.md: "PII and API-key redaction before upstream forwarding."      *)
(* What Inspect found as PII is not forwarded when pii_mode is redact.     *)
(***************************************************************************)
FoundIsRedacted ==
  Forwarded /\ guard.piiMode = "redact" =>
    \A spot \in request.forward :
      ~(InPrompt(spot) /\ [kind |-> "pii", rule |-> spot.rule] \in request.findings)
=============================================================================
