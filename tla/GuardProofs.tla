---------------------------- MODULE GuardProofs ----------------------------
(***************************************************************************)
(* Proofs about the security guard, for any rules, any number of custom    *)
(* patterns, any security section and any bodies.                          *)
(***************************************************************************)
EXTENDS Guard, WellFoundedInduction, TLAPS

PII == BuiltInPII \cup CustomRule

----------------------------------------------------------------------------
(***************************************************************************)
(* Induction over the naturals: G holds the numbers for which what is to   *)
(* be shown holds.                                                         *)
(***************************************************************************)
LEMMA Naturals ==
  ASSUME NEW G, 0 \in G, \A n \in Nat : n \in G => n + 1 \in G
  PROVE  Nat \subseteq G
<1> DEFINE Bad == Nat \ G
<1> SUFFICES ASSUME Bad # {} PROVE FALSE
  OBVIOUS
<1>1. PICK n \in Bad : \A m \in Bad : ~(<<m, n>> \in OpToRel(<, Nat))
  BY NatLessThanWellFounded, WFMin
<1>2. n \in Nat /\ n # 0 /\ n \notin G
  OBVIOUS
<1>3. n - 1 \in Nat /\ (n - 1) + 1 = n /\ n - 1 < n
  BY <1>2
<1>4. n - 1 \in Bad
  BY <1>2, <1>3
<1>5. <<n - 1, n>> \in OpToRel(<, Nat)
  BY <1>2, <1>3 DEF OpToRel
<1> QED
  BY <1>1, <1>4, <1>5

(***************************************************************************)
(* The loop of NewGuard that compiles the custom patterns: its rules after *)
(* the first i of them, given those after the first i - 1.                 *)
(***************************************************************************)
Loop(c, rules, i) ==
  IF i = 0 THEN PIIRule
  ELSE IF c.extra[i].compiles THEN Append(rules[i - 1], c.extra[i].rule)
  ELSE rules[i - 1]
Runs(c, n, rules) == rules = [i \in 0..n |-> Loop(c, rules, i)]

(***************************************************************************)
(* The loop can be run over any number of custom rules: some list of       *)
(* successive results exists that follows it step by step (security.go     *)
(* NewGuard).                                                              *)
(***************************************************************************)
LEMMA LoopRuns == ASSUME NEW c, NEW n \in Nat PROVE \E rules : Runs(c, n, rules)
<1> DEFINE G == {m \in Nat : \E rules : Runs(c, m, rules)}
<1>1. 0 \in G
  <2> DEFINE rules == [i \in 0..0 |-> PIIRule]
  <2>1. Runs(c, 0, rules)
    BY DEF Runs, Loop
  <2> QED BY <2>1
<1>2. ASSUME NEW m \in Nat, m \in G PROVE m + 1 \in G
  <2>1. PICK rules : Runs(c, m, rules)
    BY <1>2
  <2> DEFINE more == [i \in 0..(m + 1) |-> Loop(c, rules, i)]
  <2>2. ASSUME NEW i \in 0..(m + 1) PROVE Loop(c, more, i) = Loop(c, rules, i)
    <3>1. CASE i = 0
      BY <3>1 DEF Loop
    <3>2. CASE i # 0
      <4>1. i - 1 \in 0..m /\ i - 1 \in 0..(m + 1)
        BY <3>2
      <4>2. more[i - 1] = rules[i - 1]
        BY <2>1, <4>1 DEF Runs
      <4> HIDE DEF more
      <4> QED BY <3>2, <4>2 DEF Loop
    <3> QED BY <3>1, <3>2
  <2>3. more = [i \in 0..(m + 1) |-> Loop(c, more, i)]
    BY <2>2
  <2> HIDE DEF more
  <2>4. Runs(c, m + 1, more)
    BY <2>3 DEF Runs
  <2> QED BY <2>4
<1>3. Nat \subseteq G
  <2> HIDE DEF G
  <2> QED BY <1>1, <1>2, Naturals
<1> QED BY <1>3

(***************************************************************************)
(* The rules of a guard are what that loop ends with.                      *)
(***************************************************************************)
LEMMA RulesAreLoop ==
  ASSUME NEW c, Len(c.extra) \in Nat
  PROVE  \E rules : Runs(c, Len(c.extra), rules) /\ PIIRules(c) = rules[Len(c.extra)]
<1> DEFINE rules == CHOOSE r : Runs(c, Len(c.extra), r)
<1>1. PIIRules(c) = rules[Len(c.extra)]
  BY DEF PIIRules, Runs, Loop
<1>2. Runs(c, Len(c.extra), rules)
  BY LoopRuns
<1> HIDE DEF rules
<1> QED BY <1>1, <1>2

(***************************************************************************)
(* The guard's rules are a sequence of built-in and custom ones.           *)
(***************************************************************************)
LEMMA RulesType ==
  ASSUME NEW c \in SecurityConfig
  PROVE  PIIRules(c) \in Seq(PII)
<1>1. /\ c.extra \in Seq([rule : CustomRule, compiles : BOOLEAN]) /\ Len(c.extra) \in Nat
      /\ \A i \in 1..Len(c.extra) : c.extra[i].rule \in CustomRule
  <2>1. c.extra \in Seq([rule : CustomRule, compiles : BOOLEAN])
    BY DEF SecurityConfig
  <2>2. ASSUME NEW R, NEW e \in Seq(R) PROVE Len(e) \in Nat /\ \A i \in 1..Len(e) : e[i] \in R
    OBVIOUS
  <2>3. /\ Len(c.extra) \in Nat
        /\ \A i \in 1..Len(c.extra) : c.extra[i] \in [rule : CustomRule, compiles : BOOLEAN]
    BY <2>1, <2>2
  <2>4. \A e \in [rule : CustomRule, compiles : BOOLEAN] : e.rule \in CustomRule
    OBVIOUS
  <2> QED BY <2>1, <2>3, <2>4
<1>2. PICK rules : Runs(c, Len(c.extra), rules) /\ PIIRules(c) = rules[Len(c.extra)]
  BY <1>1, RulesAreLoop
<1> DEFINE G == {n \in Nat : n <= Len(c.extra) => rules[n] \in Seq(PII)}
<1>3. 0 \in G
  <2>1. PIIRule \in Seq(PII)
    BY GuardAssumption DEF PII
  <2>2. rules[0] = PIIRule
    BY <1>1, <1>2 DEF Runs, Loop
  <2> QED BY <2>1, <2>2
<1>4. ASSUME NEW n \in Nat, n \in G PROVE n + 1 \in G
  <2> SUFFICES ASSUME n + 1 <= Len(c.extra) PROVE rules[n + 1] \in Seq(PII)
    OBVIOUS
  <2>1. rules[n] \in Seq(PII) /\ n + 1 \in 0..Len(c.extra) /\ n + 1 \in 1..Len(c.extra)
    BY <1>1, <1>4
  <2>2. rules[n + 1] = Loop(c, rules, n + 1)
    BY <1>2, <2>1 DEF Runs
  <2>3. c.extra[n + 1].rule \in PII /\ (n + 1) - 1 = n /\ n + 1 # 0
    BY <1>1, <2>1 DEF PII
  <2>4. rules[n + 1] = Append(rules[n], c.extra[n + 1].rule) \/ rules[n + 1] = rules[n]
    BY <2>2, <2>3 DEF Loop
  <2>5. ASSUME NEW r \in Seq(PII), NEW e \in PII PROVE Append(r, e) \in Seq(PII)
    OBVIOUS
  <2> QED BY <2>1, <2>3, <2>4, <2>5
<1>5. Nat \subseteq G
  <2> HIDE DEF G
  <2> QED BY <1>3, <1>4, Naturals
<1>6. Len(c.extra) \in G
  BY <1>1, <1>5
<1> QED BY <1>1, <1>2, <1>6

(***************************************************************************)
(* What a list holds after one more rule is appended.                      *)
(***************************************************************************)
LEMMA AppendRange ==
  ASSUME NEW R, NEW s \in Seq(R), NEW e \in R
  PROVE  RangeOf(Append(s, e)) = RangeOf(s) \cup {e}
<1>1. /\ Len(s) \in Nat /\ DOMAIN s = 1..Len(s) /\ DOMAIN Append(s, e) = 1..(Len(s) + 1)
      /\ \A i \in 1..Len(s) : Append(s, e)[i] = s[i]
      /\ Append(s, e)[Len(s) + 1] = e
  OBVIOUS
<1>2. 1..(Len(s) + 1) = 1..Len(s) \cup {Len(s) + 1}
  BY <1>1
<1> QED BY <1>1, <1>2 DEF RangeOf

InForce(c) == BuiltInPII \cup {c.extra[i].rule : i \in {j \in DOMAIN c.extra : c.extra[j].compiles}}

(***************************************************************************)
(* A pattern that does not compile costs no other rule its place: every    *)
(* built-in rule and every custom one that compiles is in force            *)
(* (security.go NewGuard).                                                 *)
(***************************************************************************)
LEMMA RulesComplete ==
  ASSUME NEW c \in SecurityConfig
  PROVE  InForce(c) \subseteq RangeOf(PIIRules(c))
<1> DEFINE n == Len(c.extra)
           E == [rule : CustomRule, compiles : BOOLEAN]
           Upto(m) == {c.extra[i].rule : i \in {j \in 1..m : c.extra[j].compiles}}
<1>1. n \in Nat /\ DOMAIN c.extra = 1..n /\ \A i \in 1..n : c.extra[i].rule \in PII
  <2>1. c.extra \in Seq(E)
    BY DEF SecurityConfig
  <2>2. ASSUME NEW R, NEW e \in Seq(R)
        PROVE  Len(e) \in Nat /\ DOMAIN e = 1..Len(e) /\ \A i \in 1..Len(e) : e[i] \in R
    OBVIOUS
  <2>3. n \in Nat /\ DOMAIN c.extra = 1..n /\ \A i \in 1..n : c.extra[i] \in E
    BY <2>1, <2>2
  <2>4. \A e \in E : e.rule \in CustomRule
    OBVIOUS
  <2> QED BY <2>3, <2>4 DEF PII
<1>2. PICK rules : Runs(c, n, rules) /\ PIIRules(c) = rules[n]
  BY <1>1, RulesAreLoop
<1> DEFINE G == {m \in Nat : m <= n => /\ rules[m] \in Seq(PII)
                                       /\ BuiltInPII \cup Upto(m) \subseteq RangeOf(rules[m])}
<1>3. 0 \in G
  <2>1. PIIRule \in Seq(PII) /\ RangeOf(PIIRule) = BuiltInPII
    BY GuardAssumption DEF PII, RangeOf, BuiltInPII
  <2>2. rules[0] = PIIRule
    BY <1>1, <1>2 DEF Runs, Loop
  <2>3. Upto(0) = {}
    OBVIOUS
  <2> HIDE DEF Upto
  <2> QED BY <2>1, <2>2, <2>3
<1>4. ASSUME NEW m \in Nat, m \in G PROVE m + 1 \in G
  <2> SUFFICES ASSUME m + 1 <= n
               PROVE  /\ rules[m + 1] \in Seq(PII)
                      /\ BuiltInPII \cup Upto(m + 1) \subseteq RangeOf(rules[m + 1])
    OBVIOUS
  <2> DEFINE e == c.extra[m + 1]
  <2>1. /\ rules[m] \in Seq(PII) /\ BuiltInPII \cup Upto(m) \subseteq RangeOf(rules[m])
        /\ m + 1 \in 0..n /\ m + 1 \in 1..n /\ e.rule \in PII
    BY <1>1, <1>4
  <2>2. rules[m + 1] = IF e.compiles THEN Append(rules[m], e.rule) ELSE rules[m]
    <3>1. rules[m + 1] = Loop(c, rules, m + 1)
      BY <1>2, <2>1 DEF Runs
    <3>2. (m + 1) - 1 = m /\ m + 1 # 0
      OBVIOUS
    <3> QED BY <3>1, <3>2 DEF Loop
  <2>3. Upto(m + 1) \subseteq Upto(m) \cup (IF e.compiles THEN {e.rule} ELSE {})
    <3>1. 1..(m + 1) = 1..m \cup {m + 1}
      OBVIOUS
    <3> QED BY <3>1
  <2> HIDE DEF Upto, e
  <2>4. CASE e.compiles
    <3>1. Append(rules[m], e.rule) \in Seq(PII)
      BY <2>1
    <3>2. RangeOf(Append(rules[m], e.rule)) = RangeOf(rules[m]) \cup {e.rule}
      BY <2>1, AppendRange
    <3> QED BY <2>1, <2>2, <2>3, <2>4, <3>1, <3>2
  <2>5. CASE ~e.compiles
    BY <2>1, <2>2, <2>3, <2>5
  <2> QED BY <2>4, <2>5
<1>5. Nat \subseteq G
  <2> HIDE DEF G
  <2> QED BY <1>3, <1>4, Naturals
<1>6. BuiltInPII \cup Upto(n) \subseteq RangeOf(rules[n])
  <2>1. n \in G
    BY <1>1, <1>5
  <2> QED BY <1>1, <2>1
<1> QED BY <1>1, <1>2, <1>6 DEF InForce

----------------------------------------------------------------------------
(***************************************************************************)
(* actionFor: of the actions that the findings ask for, the strongest.     *)
(***************************************************************************)
Asked(g, findings) ==
  {"allow"} \cup {ActionFromMode(IF f.kind = "pii" THEN g.piiMode ELSE g.promptMode) :
                   f \in findings}

(***************************************************************************)
(* The action for a set of findings is one that a mode asks for, and none  *)
(* of the others is stronger (security.go actionFor).                      *)
(***************************************************************************)
LEMMA Strongest ==
  ASSUME guard.promptMode \in Mode, guard.piiMode \in Mode, NEW findings
  PROVE  /\ ActionFor(findings) \in Asked(guard, findings) /\ ActionFor(findings) \in Action
         /\ \A b \in Asked(guard, findings) : Rank[b] <= Rank[ActionFor(findings)]
<1> DEFINE A == Asked(guard, findings)
           Top(a) == a \in A /\ \A b \in A : Rank[b] <= Rank[a]
<1>1. "allow" \in A /\ A \subseteq Action
  BY DEF Asked, ActionFromMode, Mode, Action
<1>2. ActionFor(findings) = CHOOSE a \in A : \A b \in A : Rank[b] <= Rank[a]
  BY DEF ActionFor, Asked
<1>3. Rank["allow"] = 0 /\ Rank["warn"] = 1 /\ Rank["redact"] = 2 /\ Rank["block"] = 3
  BY DEF Rank
<1> HIDE DEF A
<1>4. \E a \in A : \A b \in A : Rank[b] <= Rank[a]
  <2>1. CASE "block" \in A
    BY <1>1, <1>3, <2>1 DEF Action
  <2>2. CASE "block" \notin A /\ "redact" \in A
    BY <1>1, <1>3, <2>2 DEF Action
  <2>3. CASE "block" \notin A /\ "redact" \notin A /\ "warn" \in A
    BY <1>1, <1>3, <2>3 DEF Action
  <2>4. CASE "block" \notin A /\ "redact" \notin A /\ "warn" \notin A
    BY <1>1, <1>3, <2>4 DEF Action
  <2> QED BY <2>1, <2>2, <2>3, <2>4
<1>5. ActionFor(findings) \in A /\ \A b \in A : Rank[b] <= Rank[ActionFor(findings)]
  BY <1>2, <1>4
<1> QED BY <1>1, <1>5 DEF A

----------------------------------------------------------------------------
(***************************************************************************)
(* The inductive invariant.  A guard, once made, is that of its section;   *)
(* a request has been inspected under it, its action is at least as strong *)
(* as any its findings ask for, it left the rule loop only at its end, and *)
(* what the loop has been through shows nothing any more.                  *)
(***************************************************************************)
GuardOK == cfg \in SecurityConfigs /\ (guard = NoGuard \/ guard = MakeGuard(cfg))

Requests(g) ==
  [pc : {"none", "inspected", "redacting", "blocked", "rejected", "forwarded"},
   body : SUBSET Spot,
   findings : SUBSET [kind : {"prompt_injection", "pii"},
                      rule : PromptRule \cup RangeOf(g.pii)],
   action : Action, rule : 0..Len(g.pii), forward : SUBSET Spot, broken : BOOLEAN]

Decided(g, r) == \A b \in Asked(g, r.findings) : Rank[b] <= Rank[r.action]
LeftLoop(g, r) == r.pc = "forwarded" => \/ r.action \in {"allow", "warn"}
                                        \/ r.action = "redact" /\ r.rule = Len(g.pii)
Cleaned(g, r) == \A spot \in r.forward :
                InBody(spot) => \A i \in 1..r.rule : spot.rule # g.pii[i]
OnlyRules(g, r) == \A spot \in r.body \ r.forward : spot.rule \in RangeOf(g.pii)
InLoop(r) == r.pc = "redacting" => r.action = "redact"

Handled(g, r) == /\ r \in Requests(g)
                 /\ Decided(g, r) /\ LeftLoop(g, r) /\ InLoop(r) /\ Cleaned(g, r) /\ OnlyRules(g, r)
RequestOK == request = NoRequest \/ (guard = MakeGuard(cfg) /\ Handled(guard, request))
IInv == GuardOK /\ RequestOK

(***************************************************************************)
(* What NewGuard makes of a security section.                              *)
(***************************************************************************)
LEMMA GuardFacts ==
  ASSUME NEW c \in SecurityConfigs
  PROVE  /\ MakeGuard(c).promptMode \in Mode /\ MakeGuard(c).piiMode \in Mode
         /\ MakeGuard(c).pii = PIIRules(c) /\ PIIRules(c) \in Seq(PII)
         /\ MakeGuard(c).promptMode = NormalizeMode(c.prompt, "warn")
         /\ MakeGuard(c).piiMode = NormalizeMode(c.pii, "redact")
<1>1. c \in SecurityConfig
  BY GuardAssumption
<1>2. PIIRules(c) \in Seq(PII)
  BY <1>1, RulesType
<1>3. ASSUME NEW w PROVE NormalizeMode(w, "warn") \in Mode /\ NormalizeMode(w, "redact") \in Mode
  BY DEF NormalizeMode, Mode
<1> QED BY <1>2, <1>3 DEF MakeGuard

(***************************************************************************)
(* Whatever its state, the guard is a record of two modes and a sequence   *)
(* of rules.                                                               *)
(***************************************************************************)
LEMMA GuardType ==
  ASSUME GuardOK
  PROVE  /\ guard.promptMode \in Mode /\ guard.piiMode \in Mode /\ guard.pii \in Seq(PII)
         /\ Len(guard.pii) \in Nat /\ DOMAIN guard.pii = 1..Len(guard.pii)
<1>1. guard.promptMode \in Mode /\ guard.piiMode \in Mode /\ guard.pii \in Seq(PII)
  <2>1. CASE guard = NoGuard
    <3>1. <<>> \in Seq(PII)
      OBVIOUS
    <3> QED BY <2>1, <3>1 DEF NoGuard, Mode
  <2>2. CASE guard = MakeGuard(cfg)
    BY <2>2, GuardFacts DEF GuardOK
  <2> QED BY <2>1, <2>2 DEF GuardOK
<1>2. ASSUME NEW R, NEW s \in Seq(R) PROVE Len(s) \in Nat /\ DOMAIN s = 1..Len(s)
  OBVIOUS
<1> QED BY <1>1, <1>2

(***************************************************************************)
(* Inspect reads the decision off the prompt and leaves the body as it is. *)
(***************************************************************************)
LEMMA InspectKeeps ==
  ASSUME IInv, NEW body \in Bodies, Inspect(body)
  PROVE  IInv'
<1> DEFINE F == FindingsOf(body)
           r == [pc |-> "inspected", body |-> body, findings |-> F, action |-> ActionFor(F),
                 rule |-> 0, forward |-> body, broken |-> FALSE]
<1>1. guard' = guard /\ cfg' = cfg /\ guard = MakeGuard(cfg) /\ request' = r
  BY DEF Inspect, IInv, GuardOK
<1>2. /\ guard.promptMode \in Mode /\ guard.piiMode \in Mode /\ Len(guard.pii) \in Nat
      /\ body \subseteq Spot
  BY GuardType, GuardAssumption DEF IInv
<1>3. F \subseteq [kind : {"prompt_injection", "pii"}, rule : PromptRule \cup RangeOf(guard.pii)]
  BY DEF FindingsOf
<1>4. ActionFor(F) \in Action /\ \A b \in Asked(guard, F) : Rank[b] <= Rank[ActionFor(F)]
  <2> HIDE DEF F
  <2> QED BY <1>2, Strongest
<1> HIDE DEF F
<1>5. /\ r.pc = "inspected" /\ r.body = body /\ r.findings = F /\ r.action = ActionFor(F)
      /\ r.rule = 0 /\ r.forward = body
  OBVIOUS
<1>6. r \in Requests(guard)
  BY <1>2, <1>3, <1>4 DEF Requests
<1> HIDE DEF r
<1>7. Decided(guard, r)
  BY <1>4, <1>5 DEF Decided
<1>8. LeftLoop(guard, r) /\ InLoop(r) /\ Cleaned(guard, r) /\ OnlyRules(guard, r)
  BY <1>5 DEF LeftLoop, InLoop, Cleaned, OnlyRules
<1>9. Handled(guard, r)
  BY <1>1, <1>6, <1>7, <1>8 DEF Handled
<1>10. RequestOK'
  <2>1. MakeGuard(cfg') = MakeGuard(cfg)
    BY <1>1
  <2> QED BY <1>1, <1>9, <2>1 DEF RequestOK
<1> QED BY <1>1, <1>10 DEF IInv, GuardOK

(***************************************************************************)
(* A step that only moves the request on: forwarded it may be only as      *)
(* LeftLoop says, and redacted only when that was decided.                 *)
(***************************************************************************)
LEMMA PcKeeps ==
  ASSUME IInv, request # NoRequest,
         NEW p \in {"inspected", "redacting", "blocked", "rejected", "forwarded"},
         Become([request EXCEPT !.pc = p]),
         p = "redacting" => request.action = "redact",
         p = "forwarded" => \/ request.action \in {"allow", "warn"}
                            \/ request.action = "redact" /\ request.rule = Len(guard.pii)
  PROVE  IInv'
<1> DEFINE r == [request EXCEPT !.pc = p]
<1>1. guard' = guard /\ cfg' = cfg /\ guard = MakeGuard(cfg) /\ request' = r /\ Handled(guard, request)
  BY DEF Become, IInv, RequestOK
<1>2. request \in Requests(guard)
  BY <1>1 DEF Handled
<1>3. /\ r.pc = p /\ r.body = request.body /\ r.findings = request.findings
      /\ r.action = request.action /\ r.rule = request.rule /\ r.forward = request.forward
  BY <1>2 DEF Requests
<1>4. r \in Requests(guard)
  BY <1>2 DEF Requests
<1> HIDE DEF r
<1>5. LeftLoop(guard, r) /\ InLoop(r)
  BY <1>3 DEF LeftLoop, InLoop
<1>6. Decided(guard, r)
  BY <1>1, <1>3 DEF Handled, Decided
<1>7. Cleaned(guard, r) /\ OnlyRules(guard, r)
  BY <1>1, <1>3 DEF Handled, Cleaned, OnlyRules
<1>8. Handled(guard, r)
  BY <1>4, <1>5, <1>6, <1>7 DEF Handled
<1> QED BY <1>1, <1>8 DEF IInv, GuardOK, RequestOK

(***************************************************************************)
(* One turn of the loop of Redact: the rule finds nothing any more in what *)
(* it leaves, and takes out only what it finds.                            *)
(***************************************************************************)
LEMMA RedactRuleKeeps == ASSUME IInv, RedactRule PROVE IInv'
<1> DEFINE n == request.rule + 1
           hits == Replaced(guard.pii[n])
           r == [request EXCEPT !.rule = @ + 1, !.forward = @ \ hits,
                                !.broken = @ \/ \E spot \in hits : spot.bare]
<1>1. /\ guard' = guard /\ cfg' = cfg /\ guard = MakeGuard(cfg) /\ request' = r
      /\ Handled(guard, request) /\ request.pc = "redacting" /\ request.rule < Len(guard.pii)
  BY DEF RedactRule, Become, IInv, RequestOK, NoRequest
<1>2. /\ request \in Requests(guard) /\ request.rule \in 0..Len(guard.pii)
      /\ Len(guard.pii) \in Nat /\ DOMAIN guard.pii = 1..Len(guard.pii)
  BY <1>1, GuardType DEF Handled, Requests, IInv
<1>3. /\ r.pc = "redacting" /\ r.body = request.body /\ r.findings = request.findings
      /\ r.action = request.action /\ r.rule = n /\ r.forward = request.forward \ hits
  BY <1>1, <1>2 DEF Requests
<1>4. r \in Requests(guard)
  <2>1. n \in 0..Len(guard.pii)
    BY <1>1, <1>2
  <2>2. request.forward \ hits \in SUBSET Spot
    BY <1>2 DEF Requests
  <2>3. (request.broken \/ \E spot \in hits : spot.bare) \in BOOLEAN
    OBVIOUS
  <2> HIDE DEF hits
  <2> QED BY <1>2, <2>1, <2>2, <2>3 DEF Requests
<1>5. n \in Nat /\ n \in 1..Len(guard.pii) /\ 1..n = 1..request.rule \cup {n}
  BY <1>1, <1>2
<1>6. hits = {spot \in request.forward : InBody(spot) /\ spot.rule = guard.pii[n]}
  BY DEF Replaced
<1> HIDE DEF r, hits, n
<1>7. Decided(guard, r) /\ LeftLoop(guard, r) /\ InLoop(r)
  BY <1>1, <1>3 DEF Handled, Decided, LeftLoop, InLoop
<1>8. Cleaned(guard, r)
  BY <1>1, <1>3, <1>5, <1>6 DEF Handled, Cleaned
<1>9. OnlyRules(guard, r)
  <2>1. guard.pii[n] \in RangeOf(guard.pii)
    BY <1>2, <1>5 DEF RangeOf
  <2> QED BY <1>1, <1>3, <1>6, <2>1 DEF Handled, OnlyRules
<1>10. Handled(guard, r)
  BY <1>4, <1>7, <1>8, <1>9 DEF Handled
<1> QED BY <1>1, <1>10 DEF IInv, GuardOK, RequestOK

(***************************************************************************)
(* The invariant holds in every state.                                     *)
(***************************************************************************)
THEOREM Inductive == Spec => []IInv
<1>1. Init => IInv
  BY DEF Init, IInv, GuardOK, RequestOK
<1>2. IInv /\ [Next]_vars => IInv'
  <2> SUFFICES ASSUME IInv, [Next]_vars PROVE IInv'
    OBVIOUS
  <2>1. CASE NewGuard
    <3>1. guard' = MakeGuard(cfg) /\ cfg' = cfg /\ request' = request /\ guard = NoGuard
      BY <2>1 DEF NewGuard
    <3>2. MakeGuard(cfg') = MakeGuard(cfg)
      BY <3>1
    <3>3. RequestOK'
      BY <3>1, <3>2 DEF IInv, RequestOK
    <3> QED BY <3>1, <3>2, <3>3 DEF IInv, GuardOK
  <2>2. CASE NextRequest
    BY <2>2 DEF NextRequest, Become, IInv, GuardOK, RequestOK
  <2>3. CASE \E body \in Bodies : Inspect(body)
    BY <2>3, InspectKeeps
  <2>4. CASE Block
    BY <2>4, PcKeeps DEF Block, NoRequest
  <2>5. CASE Forward
    BY <2>5, PcKeeps DEF Forward, NoRequest
  <2>6. CASE StartRedaction
    BY <2>6, PcKeeps DEF StartRedaction, NoRequest
  <2>7. CASE RedactRule
    BY <2>7, RedactRuleKeeps
  <2>8. CASE RedactionDone
    <3>1. request # NoRequest /\ request.action = "redact"
      BY <2>8 DEF RedactionDone, NoRequest, IInv, RequestOK, Handled, InLoop
    <3> QED BY <2>8, <3>1, PcKeeps DEF RedactionDone
  <2>9. CASE UNCHANGED vars
    <3>1. cfg' = cfg /\ guard' = guard /\ request' = request
      BY <2>9 DEF vars
    <3> QED BY <3>1 DEF IInv, GuardOK, RequestOK
  <2> QED BY <2>1, <2>2, <2>3, <2>4, <2>5, <2>6, <2>7, <2>8, <2>9 DEF Next
<1> QED BY <1>1, <1>2, PTL DEF Spec

(***************************************************************************)
(* Types: modes are modes however they were written, and the rule loop     *)
(* stays within the rules of the guard.                                    *)
(***************************************************************************)
THEOREM TypeCorrect == Spec => []TypeOK
<1>1. IInv => TypeOK
  <2> SUFFICES ASSUME IInv PROVE TypeOK
    OBVIOUS
  <2>1. /\ cfg \in SecurityConfigs /\ guard.promptMode \in Mode /\ guard.piiMode \in Mode
        /\ guard.pii \in Seq(BuiltInPII \cup CustomRule) /\ Len(guard.pii) \in Nat
    BY GuardType DEF IInv, GuardOK, PII
  <2>2. request \in Requests(guard)
    <3>1. NoRequest \in Requests(guard)
      BY <2>1 DEF NoRequest, Requests, Action
    <3> QED BY <3>1 DEF IInv, RequestOK, Handled
  <2> QED BY <2>1, <2>2 DEF TypeOK, Requests
<1> QED BY <1>1, Inductive, PTL

(***************************************************************************)
(* Modes mean what the operator wrote, for any findings of either kind.    *)
(***************************************************************************)
THEOREM ModesTheorem == Spec => []ModesHonoured
<1>1. IInv => ModesHonoured
  <2> SUFFICES ASSUME IInv, Forwarded PROVE ModesHonoured
    BY DEF ModesHonoured
  <2>1. guard = MakeGuard(cfg) /\ Handled(guard, request) /\ cfg \in SecurityConfigs
    BY DEF IInv, RequestOK, NoRequest, Forwarded, GuardOK
  <2>2. /\ request.action \in {"allow", "warn", "redact"}
        /\ \A b \in Asked(guard, request.findings) : Rank[b] <= Rank[request.action]
    BY <2>1 DEF Handled, LeftLoop, Decided, Forwarded
  <2>3. /\ guard.promptMode = NormalizeMode(cfg.prompt, "warn")
        /\ guard.piiMode = NormalizeMode(cfg.pii, "redact")
        /\ guard.promptMode \in Mode /\ guard.piiMode \in Mode
    BY <2>1, GuardFacts
  <2>4. /\ Found("prompt_injection") => ActionFromMode(guard.promptMode) \in Asked(guard, request.findings)
        /\ Found("pii") => ActionFromMode(guard.piiMode) \in Asked(guard, request.findings)
    BY DEF Found, Asked
  <2>5. ASSUME NEW m \in Mode, ActionFromMode(m) \in Asked(guard, request.findings)
        PROVE  m # "block" /\ (request.action = "allow" => m = "off")
    <3>1. Rank["allow"] = 0 /\ Rank["warn"] = 1 /\ Rank["redact"] = 2 /\ Rank["block"] = 3
      BY DEF Rank
    <3> QED BY <2>2, <2>5, <3>1 DEF ActionFromMode, Mode
  <2>6. ASSUME NEW w
        PROVE  /\ w.mode = "block" => /\ NormalizeMode(w, "warn") = "block"
                                      /\ NormalizeMode(w, "redact") = "block"
               /\ NormalizeMode(w, "warn") = "off" \/ NormalizeMode(w, "redact") = "off" => w.mode = "off"
    BY DEF NormalizeMode, Mode
  <2> QED BY <2>3, <2>4, <2>5, <2>6 DEF ModesHonoured
<1> QED BY <1>1, Inductive, PTL

(***************************************************************************)
(* A redacted body shows no rule anything any more, and lost nothing else. *)
(***************************************************************************)
THEOREM RedactionTheorem == Spec => []RedactedBodyClean
<1>1. IInv => RedactedBodyClean
  <2> SUFFICES ASSUME IInv, Forwarded, request.action = "redact" PROVE RedactedBodyClean
    BY DEF RedactedBodyClean
  <2>1. Handled(guard, request)
    BY DEF IInv, RequestOK, NoRequest, Forwarded
  <2>2. request.rule = Len(guard.pii) /\ DOMAIN guard.pii = 1..Len(guard.pii)
    BY <2>1, GuardType DEF Handled, LeftLoop, Forwarded, IInv
  <2> QED BY <2>1, <2>2 DEF RedactedBodyClean, Handled, Cleaned, OnlyRules, RangeOf
<1> QED BY <1>1, Inductive, PTL

(***************************************************************************)
(* And the rules are all there: in a redacted body no built-in rule and no *)
(* custom pattern that compiles finds anything, whatever patterns before   *)
(* it did not compile.                                                     *)
(***************************************************************************)
NothingInForceShows ==
  Forwarded /\ request.action = "redact" =>
    \A spot \in request.forward : spot.rule \in InForce(cfg) => ~InBody(spot)

(***************************************************************************)
(* In the raw body that a redacting guard forwards no rule in force, built *)
(* in or configured, finds anything (security.go NewGuard, Redact). What   *)
(* only shows once the JSON is decoded is not among it: Redact works on    *)
(* the raw bytes.                                                          *)
(***************************************************************************)
THEOREM NothingLeftOut == Spec => []NothingInForceShows
<1>1. IInv /\ RedactedBodyClean => NothingInForceShows
  <2> SUFFICES ASSUME IInv, RedactedBodyClean, Forwarded, request.action = "redact"
               PROVE  NothingInForceShows
    BY DEF NothingInForceShows
  <2>1. guard = MakeGuard(cfg) /\ cfg \in SecurityConfigs
    BY DEF IInv, RequestOK, NoRequest, Forwarded, GuardOK
  <2>2. guard.pii = PIIRules(cfg)
    BY <2>1, GuardFacts
  <2>3. InForce(cfg) \subseteq RangeOf(guard.pii)
    BY <2>1, <2>2, RulesComplete, GuardAssumption
  <2> QED BY <2>3 DEF NothingInForceShows, RedactedBodyClean
<1> QED BY <1>1, Inductive, RedactionTheorem, PTL
=============================================================================
