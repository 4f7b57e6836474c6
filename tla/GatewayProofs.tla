--------------------------- MODULE GatewayProofs ---------------------------
(***************************************************************************)
(* Proofs about the chat completion handler, for any number of requests    *)
(* and tenants, any bodies, providers, budgets, prices and feeds.          *)
(*                                                                         *)
(* The tracker's own proofs are used through INSTANCE: the handler is      *)
(* shown to keep to the tracker's protocol, and then everything proved of  *)
(* the tracker by itself holds of the tracker inside the gateway.          *)
(***************************************************************************)
EXTENDS Gateway, FiniteSetTheorems, TLAPS

(***************************************************************************)
(* The tracker as TrackerProofs proves it, on the variables of the         *)
(* gateway.                                                                *)
(***************************************************************************)
TP == INSTANCE TrackerProofs

----------------------------------------------------------------------------
(***************************************************************************)
(* Sums over finite sets.                                                  *)
(***************************************************************************)
(***************************************************************************)
(* A set of naturals that is not empty has a least element. This is what   *)
(* the inductions below rest on: a property of all naturals is shown by    *)
(* looking at the least that would violate it.                             *)
(***************************************************************************)
LEMMA LeastNatural ==
  ASSUME NEW Bad, Bad \subseteq Nat, Bad # {}
  PROVE  \E n \in Bad : \A m \in Bad : n <= m
<1>1. PICK n \in Bad : \A m \in Bad : ~(<<m, n>> \in OpToRel(<, Nat))
  BY NatLessThanWellFounded, WFMin
<1>2. \A m \in Bad : ~(m < n)
  BY <1>1 DEF OpToRel
<1> QED
  BY <1>2

(***************************************************************************)
(* Induction over a finite set: G is the set of the subsets for which what *)
(* is to be shown holds.                                                   *)
(***************************************************************************)
LEMMA FiniteInduction ==
  ASSUME NEW S, IsFiniteSet(S), NEW G, {} \in G,
         \A s \in SUBSET S : s # {} /\ (\A c \in s : s \ {c} \in G) => s \in G
  PROVE  S \in G
<1> DEFINE Bad == {n \in Nat : \E s \in SUBSET S : Cardinality(s) = n /\ s \notin G}
<1>0. ASSUME NEW s \in SUBSET S PROVE IsFiniteSet(s) /\ Cardinality(s) \in Nat
  BY FS_Subset, FS_CardinalityType
<1>1. Bad = {}
  <2> SUFFICES ASSUME Bad # {} PROVE FALSE
    OBVIOUS
  <2>1. PICK n \in Bad : \A m \in Bad : n <= m
    BY LeastNatural
  <2>2. PICK s \in SUBSET S : Cardinality(s) = n /\ s \notin G
    OBVIOUS
  <2>3. PICK c \in s : s \ {c} \notin G
    BY <2>2
  <2>4. s \ {c} \in SUBSET S /\ Cardinality(s \ {c}) = n - 1 /\ Cardinality(s \ {c}) \in Nat
    BY <1>0, <2>2, FS_RemoveElement
  <2>5. n - 1 \in Bad
    BY <2>3, <2>4
  <2>6. n \in Nat
    OBVIOUS
  <2> HIDE DEF Bad
  <2> QED BY <2>1, <2>5, <2>6
<1>2. Cardinality(S) \in Nat
  BY <1>0
<1> QED BY <1>1, <1>2

(***************************************************************************)
(* One step of the fold of Functions!SumFunctionOnSet, for a function g of *)
(* the sums of the subsets; g is a sum if it takes that step everywhere;   *)
(* and the subsets with at most n elements.                                *)
(***************************************************************************)
Step(f, g, s) ==
  IF s = {} THEN 0 ELSE f[CHOOSE x \in s : TRUE] + g[s \ {CHOOSE x \in s : TRUE}]
IsSum(f, S, g) == g = [s \in SUBSET S |-> Step(f, g, s)]
Layer(S, n) == {s \in SUBSET S : Cardinality(s) <= n}

(***************************************************************************)
(* The element that a fold takes next, and the set it leaves.              *)
(***************************************************************************)
LEMMA Chosen == ASSUME NEW s, s # {}, IsFiniteSet(s)
  PROVE  /\ (CHOOSE x \in s : TRUE) \in s
         /\ IsFiniteSet(s \ {CHOOSE x \in s : TRUE})
         /\ Cardinality(s \ {CHOOSE x \in s : TRUE}) = Cardinality(s) - 1
         /\ Cardinality(s) \in Nat
<1> DEFINE c == CHOOSE x \in s : TRUE
<1>1. c \in s
  OBVIOUS
<1> HIDE DEF c
<1>2. IsFiniteSet(s \ {c}) /\ Cardinality(s \ {c}) = Cardinality(s) - 1
  BY <1>1, FS_RemoveElement
<1>3. Cardinality(s) \in Nat
  BY FS_CardinalityType
<1> QED BY <1>1, <1>2, <1>3 DEF c

(***************************************************************************)
(* A function as the fold defines it exists, layer of subsets by layer.    *)
(***************************************************************************)
LEMMA SumExists == ASSUME NEW f, NEW S, IsFiniteSet(S) PROVE \E g : IsSum(f, S, g)
<1> DEFINE P(n) == \E g : g = [s \in Layer(S, n) |-> Step(f, g, s)]
           Bad == {n \in Nat : ~P(n)}
<1>1. P(0)
  <2> DEFINE g == [s \in Layer(S, 0) |-> 0]
  <2>1. \A s \in Layer(S, 0) : s = {}
    BY FS_EmptySet, FS_Subset, FS_CardinalityType DEF Layer
  <2>2. g = [s \in Layer(S, 0) |-> Step(f, g, s)]
    BY <2>1 DEF Step
  <2> QED BY <2>2
<1>2. ASSUME NEW n \in Nat, n > 0, P(n - 1) PROVE P(n)
  <2>1. PICK g : g = [s \in Layer(S, n - 1) |-> Step(f, g, s)]
    BY <1>2
  <2> DEFINE h == [s \in Layer(S, n) |-> Step(f, g, s)]
  <2>2. ASSUME NEW s \in Layer(S, n) PROVE Step(f, g, s) = Step(f, h, s)
    <3>1. CASE s = {}
      BY <3>1 DEF Step
    <3>2. CASE s # {}
      <4> DEFINE c == CHOOSE x \in s : TRUE
      <4>0. s \subseteq S /\ IsFiniteSet(s) /\ Cardinality(s) <= n
        BY FS_Subset DEF Layer
      <4>1. c \in s /\ Cardinality(s \ {c}) = Cardinality(s) - 1 /\ Cardinality(s) \in Nat
        BY <3>2, <4>0, Chosen
      <4> HIDE DEF c
      <4>2. s \ {c} \in Layer(S, n - 1) /\ s \ {c} \in Layer(S, n)
        BY <4>0, <4>1 DEF Layer
      <4>3. h[s \ {c}] = Step(f, g, s \ {c}) /\ g[s \ {c}] = Step(f, g, s \ {c})
        BY <4>2, <2>1
      <4>4. Step(f, g, s) = f[c] + g[s \ {c}] /\ Step(f, h, s) = f[c] + h[s \ {c}]
        BY <3>2 DEF Step, c
      <4> QED BY <4>3, <4>4
    <3> QED BY <3>1, <3>2
  <2>3. h = [s \in Layer(S, n) |-> Step(f, h, s)]
    BY <2>2
  <2> QED BY <2>3
<1>3. Bad = {}
  <2> SUFFICES ASSUME Bad # {} PROVE FALSE
    OBVIOUS
  <2>1. PICK n \in Bad : \A m \in Bad : n <= m
    BY LeastNatural
  <2>2. n \in Nat /\ ~P(n)
    OBVIOUS
  <2>3. n # 0
    BY <2>2, <1>1
  <2>4. n - 1 \in Nat /\ ~(n - 1 \in Bad)
    BY <2>1, <2>2, <2>3
  <2>5. P(n - 1)
    BY <2>4
  <2> HIDE DEF P
  <2> QED BY <2>2, <2>3, <2>5, <1>2
<1>4. P(Cardinality(S))
  BY <1>3, FS_CardinalityType
<1>5. Layer(S, Cardinality(S)) = SUBSET S
  BY FS_Subset DEF Layer
<1> QED BY <1>4, <1>5 DEF IsSum

(***************************************************************************)
(* SumFunctionOnSet is the value of such a function.                       *)
(***************************************************************************)
LEMMA SumIs == ASSUME NEW f, NEW S, IsFiniteSet(S) PROVE \E g : IsSum(f, S, g) /\ SumFunctionOnSet(f, S) = g[S]
<1> DEFINE g == CHOOSE h : IsSum(f, S, h)
<1>1. SumFunctionOnSet(f, S) = g[S]
  BY DEF SumFunctionOnSet, FoldFunctionOnSet, MapThenFoldSet, IsSum, Step
<1>2. IsSum(f, S, g)
  BY SumExists
<1> HIDE DEF g
<1> QED BY <1>1, <1>2

(***************************************************************************)
(* Functions for a set and a subset of it agree.                           *)
(***************************************************************************)
LEMMA SumsAgree ==
  ASSUME NEW f, NEW S, NEW U, NEW g, NEW h, IsFiniteSet(S), U \subseteq S,
         IsSum(f, S, g), IsSum(f, U, h)
  PROVE  g[U] = h[U]
<1> DEFINE Bad == {n \in Nat : \E s \in SUBSET U : Cardinality(s) = n /\ g[s] # h[s]}
<1>0. ASSUME NEW s \in SUBSET U PROVE IsFiniteSet(s) /\ Cardinality(s) \in Nat /\ s \in SUBSET S
  BY FS_Subset, FS_CardinalityType
<1>1. Bad = {}
  <2> SUFFICES ASSUME Bad # {} PROVE FALSE
    OBVIOUS
  <2>1. PICK n \in Bad : \A m \in Bad : n <= m
    BY LeastNatural
  <2>2. PICK s \in SUBSET U : Cardinality(s) = n /\ g[s] # h[s]
    OBVIOUS
  <2>3. g[s] = Step(f, g, s) /\ h[s] = Step(f, h, s)
    BY <1>0 DEF IsSum
  <2>4. s # {}
    BY <2>2, <2>3 DEF Step
  <2> DEFINE c == CHOOSE x \in s : TRUE
  <2>5. c \in s /\ Cardinality(s \ {c}) = Cardinality(s) - 1 /\ Cardinality(s) \in Nat
    BY <1>0, <2>4, Chosen
  <2>6. g[s] = f[c] + g[s \ {c}] /\ h[s] = f[c] + h[s \ {c}]
    BY <2>3, <2>4 DEF Step
  <2> HIDE DEF c
  <2>7. n - 1 \in Nat /\ ~(n - 1 \in Bad)
    BY <2>1, <2>2, <2>5, <1>0
  <2>8. g[s \ {c}] = h[s \ {c}]
    BY <2>7, <2>5, <2>2
  <2> QED BY <2>2, <2>6, <2>8
<1> QED BY <1>0, <1>1

(***************************************************************************)
(* The sum over nothing is zero.                                           *)
(***************************************************************************)
LEMMA SumEmpty == ASSUME NEW f PROVE SumFunctionOnSet(f, {}) = 0
<1>1. PICK g : IsSum(f, {}, g) /\ SumFunctionOnSet(f, {}) = g[{}]
  BY FS_EmptySet, SumIs
<1>2. g[{}] = Step(f, g, {})
  BY <1>1 DEF IsSum
<1> QED BY <1>1, <1>2 DEF Step

(***************************************************************************)
(* A sum is its first term and the sum of the rest.                        *)
(***************************************************************************)
LEMMA SumUnfold ==
  ASSUME NEW f, NEW S, IsFiniteSet(S), S # {}
  PROVE  LET c == CHOOSE x \in S : TRUE
         IN  SumFunctionOnSet(f, S) = f[c] + SumFunctionOnSet(f, S \ {c})
<1> DEFINE c == CHOOSE x \in S : TRUE
<1>1. c \in S /\ IsFiniteSet(S \ {c})
  BY Chosen
<1>2. PICK g : IsSum(f, S, g) /\ SumFunctionOnSet(f, S) = g[S]
  BY SumIs
<1>3. g[S] = f[c] + g[S \ {c}]
  BY <1>2 DEF IsSum, Step
<1> HIDE DEF c
<1>4. PICK h : IsSum(f, S \ {c}, h) /\ SumFunctionOnSet(f, S \ {c}) = h[S \ {c}]
  BY <1>1, SumIs
<1>5. g[S \ {c}] = h[S \ {c}]
  BY <1>2, <1>4, SumsAgree
<1> QED BY <1>2, <1>3, <1>4, <1>5 DEF c

(***************************************************************************)
(* A sum of integers is an integer.                                        *)
(***************************************************************************)
LEMMA SumInt ==
  ASSUME NEW S, IsFiniteSet(S), NEW f, \A x \in S : f[x] \in Int
  PROVE  SumFunctionOnSet(f, S) \in Int
<1> DEFINE G == {s \in SUBSET S : SumFunctionOnSet(f, s) \in Int}
<1>1. {} \in G
  BY SumEmpty
<1>2. ASSUME NEW s \in SUBSET S, s # {}, \A c \in s : s \ {c} \in G PROVE s \in G
  <2> DEFINE c == CHOOSE x \in s : TRUE
  <2>1. c \in s /\ SumFunctionOnSet(f, s) = f[c] + SumFunctionOnSet(f, s \ {c})
    BY <1>2, FS_Subset, SumUnfold, Chosen
  <2> HIDE DEF c
  <2> QED BY <1>2, <2>1
<1>3. S \in G
  <2> HIDE DEF G
  <2> QED BY <1>1, <1>2, FiniteInduction
<1> QED BY <1>3

(***************************************************************************)
(* The order does not matter: any term can be taken out first.             *)
(***************************************************************************)
LEMMA SumRemove ==
  ASSUME NEW S, IsFiniteSet(S), NEW f, \A x \in S : f[x] \in Int, NEW y \in S
  PROVE  SumFunctionOnSet(f, S) = f[y] + SumFunctionOnSet(f, S \ {y})
<1> DEFINE Good(s) == \A x \in s : SumFunctionOnSet(f, s) = f[x] + SumFunctionOnSet(f, s \ {x})
           G == {s \in SUBSET S : Good(s)}
<1>0. \A s \in SUBSET S : IsFiniteSet(s) /\ SumFunctionOnSet(f, s) \in Int
  BY FS_Subset, SumInt
<1>1. {} \in G
  OBVIOUS
<1>2. ASSUME NEW s \in SUBSET S, s # {}, \A c \in s : s \ {c} \in G, NEW x \in s
      PROVE  SumFunctionOnSet(f, s) = f[x] + SumFunctionOnSet(f, s \ {x})
  <2> DEFINE c == CHOOSE z \in s : TRUE
             rest == SumFunctionOnSet(f, (s \ {c}) \ {x})
  <2>1. c \in s /\ SumFunctionOnSet(f, s) = f[c] + SumFunctionOnSet(f, s \ {c})
    BY <1>0, <1>2, SumUnfold, Chosen
  <2> HIDE DEF c
  <2> SUFFICES ASSUME x # c
               PROVE  SumFunctionOnSet(f, s) = f[x] + SumFunctionOnSet(f, s \ {x})
    BY <2>1
  <2>2. SumFunctionOnSet(f, s \ {c}) = f[x] + rest
    BY <1>2, <2>1
  <2>3. SumFunctionOnSet(f, s \ {x}) = f[c] + SumFunctionOnSet(f, (s \ {x}) \ {c})
    BY <1>2, <2>1
  <2>4. (s \ {c}) \ {x} = (s \ {x}) \ {c}
    OBVIOUS
  <2>5. rest \in Int /\ f[c] \in Int /\ f[x] \in Int
    BY <1>0, <2>1
  <2>6. SumFunctionOnSet(f, s \ {x}) = f[c] + rest
    BY <2>3, <2>4
  <2> HIDE DEF rest
  <2>7. f[c] + (f[x] + rest) = f[x] + (f[c] + rest)
    BY <2>5
  <2> QED BY <2>1, <2>2, <2>6, <2>7
<1>3. S \in G
  <2>1. \A s \in SUBSET S : s # {} /\ (\A c \in s : s \ {c} \in G) => s \in G
    BY <1>2
  <2> HIDE DEF G
  <2> QED BY <1>1, <2>1, FiniteInduction
<1> QED BY <1>3

(***************************************************************************)
(* Larger terms make no smaller sum.                                       *)
(***************************************************************************)
LEMMA SumMonotone ==
  ASSUME NEW S, IsFiniteSet(S), NEW f, NEW h,
         \A x \in S : f[x] \in Int /\ h[x] \in Int /\ f[x] <= h[x]
  PROVE  SumFunctionOnSet(f, S) <= SumFunctionOnSet(h, S)
<1> DEFINE G == {s \in SUBSET S : SumFunctionOnSet(f, s) <= SumFunctionOnSet(h, s)}
<1>1. {} \in G
  BY SumEmpty
<1>2. ASSUME NEW s \in SUBSET S, NEW c \in s, s \ {c} \in G PROVE s \in G
  <2>1. /\ IsFiniteSet(s) /\ IsFiniteSet(s \ {c})
        /\ \A x \in s : f[x] \in Int /\ h[x] \in Int
    BY FS_Subset
  <2>2. /\ SumFunctionOnSet(f, s) = f[c] + SumFunctionOnSet(f, s \ {c})
        /\ SumFunctionOnSet(h, s) = h[c] + SumFunctionOnSet(h, s \ {c})
    BY <2>1, SumRemove
  <2>3. /\ SumFunctionOnSet(f, s \ {c}) \in Int
        /\ SumFunctionOnSet(h, s \ {c}) \in Int
    BY <2>1, SumInt
  <2> QED BY <1>2, <2>1, <2>2, <2>3
<1>3. S \in G
  <2>1. \A s \in SUBSET S : s # {} /\ (\A c \in s : s \ {c} \in G) => s \in G
    BY <1>2
  <2> HIDE DEF G
  <2> QED BY <1>1, <2>1, FiniteInduction
<1> QED BY <1>3

(***************************************************************************)
(* Equal terms make equal sums.                                            *)
(***************************************************************************)
LEMMA SumEqual ==
  ASSUME NEW S, IsFiniteSet(S), NEW f, NEW h,
         \A x \in S : f[x] \in Int /\ h[x] = f[x]
  PROVE  SumFunctionOnSet(h, S) = SumFunctionOnSet(f, S)
<1>1. SumFunctionOnSet(f, S) <= SumFunctionOnSet(h, S) /\ SumFunctionOnSet(h, S) <= SumFunctionOnSet(f, S)
  BY SumMonotone
<1>2. SumFunctionOnSet(f, S) \in Int /\ SumFunctionOnSet(h, S) \in Int
  BY SumInt
<1> QED BY <1>1, <1>2

(***************************************************************************)
(* A change of one term is the change of the sum.                          *)
(***************************************************************************)
LEMMA SumChange ==
  ASSUME NEW S, IsFiniteSet(S), NEW f, NEW h, NEW y \in S, NEW d \in Int,
         \A x \in S : f[x] \in Int /\ h[x] = IF x = y THEN f[x] + d ELSE f[x]
  PROVE  SumFunctionOnSet(h, S) = SumFunctionOnSet(f, S) + d
<1>1. IsFiniteSet(S \ {y})
  BY FS_RemoveElement
<1>2. SumFunctionOnSet(f, S) = f[y] + SumFunctionOnSet(f, S \ {y})
  BY SumRemove
<1>3. SumFunctionOnSet(h, S) = h[y] + SumFunctionOnSet(h, S \ {y})
  BY SumRemove
<1>4. SumFunctionOnSet(h, S \ {y}) = SumFunctionOnSet(f, S \ {y})
  BY <1>1, SumEqual
<1>5. SumFunctionOnSet(f, S \ {y}) \in Int
  BY <1>1, SumInt
<1> QED BY <1>2, <1>3, <1>4, <1>5

(***************************************************************************)
(* A sum of zeros is zero.                                                 *)
(***************************************************************************)
LEMMA SumZero ==
  ASSUME NEW S, IsFiniteSet(S), NEW f, \A x \in S : f[x] = 0
  PROVE  SumFunctionOnSet(f, S) = 0
<1> DEFINE G == {s \in SUBSET S : SumFunctionOnSet(f, s) = 0}
<1>1. {} \in G
  BY SumEmpty
<1>2. ASSUME NEW s \in SUBSET S, NEW c \in s, s \ {c} \in G PROVE s \in G
  <2>1. /\ IsFiniteSet(s) /\ IsFiniteSet(s \ {c})
        /\ \A x \in s : f[x] \in Int
    BY FS_Subset
  <2>2. /\ SumFunctionOnSet(f, s) = f[c] + SumFunctionOnSet(f, s \ {c})
    BY <2>1, SumRemove
  <2>3. /\ SumFunctionOnSet(f, s \ {c}) \in Int
    BY <2>1, SumInt
  <2> QED BY <1>2, <2>1, <2>2, <2>3
<1>3. S \in G
  <2>1. \A s \in SUBSET S : s # {} /\ (\A c \in s : s \ {c} \in G) => s \in G
    BY <1>2
  <2> HIDE DEF G
  <2> QED BY <1>1, <2>1, FiniteInduction
<1> QED BY <1>3

(***************************************************************************)
(* The same for functions summed over their domain: one value changes, a   *)
(* sequence of values gets one more, all values are zero.                  *)
(***************************************************************************)
LEMMA SumType ==
  ASSUME NEW S, IsFiniteSet(S), NEW f \in [S -> Int]
  PROVE  SumFunction(f) \in Int
BY SumInt DEF SumFunction

(***************************************************************************)
(* A sum changes by what its one changed term changes.                     *)
(***************************************************************************)
LEMMA SumUpdate ==
  ASSUME NEW S, IsFiniteSet(S), NEW f \in [S -> Int], NEW h \in [S -> Int],
         NEW y \in S, \A x \in S : x # y => h[x] = f[x]
  PROVE  SumFunction(h) = SumFunction(f) + (h[y] - f[y])
<1> DEFINE d == h[y] - f[y]
<1>1. DOMAIN f = S /\ DOMAIN h = S /\ d \in Int
  OBVIOUS
<1>2. \A x \in S : f[x] \in Int /\ h[x] = IF x = y THEN f[x] + d ELSE f[x]
  OBVIOUS
<1>3. SumFunctionOnSet(h, S) = SumFunctionOnSet(f, S) + d
  <2> HIDE DEF d
  <2> QED BY <1>1, <1>2, SumChange
<1> QED
  BY <1>1, <1>3 DEF SumFunction

(***************************************************************************)
(* A sum over a sequence that gets one more term grows by that term.       *)
(***************************************************************************)
LEMMA SumExtend ==
  ASSUME NEW n \in Nat, NEW f \in [1..n -> Int], NEW h \in [1..(n + 1) -> Int],
         \A i \in 1..n : h[i] = f[i]
  PROVE  SumFunction(h) = SumFunction(f) + h[n + 1]
<1>1. /\ DOMAIN f = 1..n /\ DOMAIN h = 1..(n + 1) /\ n + 1 \in 1..(n + 1)
      /\ (1..(n + 1)) \ {n + 1} = 1..n
  OBVIOUS
<1>2. IsFiniteSet(1..n) /\ IsFiniteSet(1..(n + 1))
  BY FS_Interval
<1>3. SumFunctionOnSet(h, 1..(n + 1)) = h[n + 1] + SumFunctionOnSet(h, 1..n)
  BY <1>1, <1>2, SumRemove
<1>4. SumFunctionOnSet(h, 1..n) = SumFunctionOnSet(f, 1..n)
  <2>1. \A i \in 1..n : f[i] \in Int /\ h[i] = f[i]
    OBVIOUS
  <2> QED
    BY <1>2, <2>1, SumEqual
<1>5. SumFunctionOnSet(f, 1..n) \in Int /\ h[n + 1] \in Int
  BY <1>1, <1>2, SumInt
<1> QED
  BY <1>1, <1>3, <1>4, <1>5 DEF SumFunction

(***************************************************************************)
(* A sum of zeros is zero.                                                 *)
(***************************************************************************)
LEMMA SumNothing ==
  ASSUME NEW S, IsFiniteSet(S), NEW f, DOMAIN f = S, \A x \in S : f[x] = 0
  PROVE  SumFunction(f) = 0
BY SumZero DEF SumFunction

(***************************************************************************)
(* Terms that are zero can be left out; a count is a sum of ones; sums add *)
(* up and scale term by term.                                              *)
(***************************************************************************)
LEMMA SumRest ==
  ASSUME NEW S, IsFiniteSet(S), NEW f, \A x \in S : f[x] \in Int,
         NEW u \in SUBSET S, \A x \in S \ u : f[x] = 0
  PROVE  SumFunctionOnSet(f, u) = SumFunctionOnSet(f, S)
<1> DEFINE G == {s \in SUBSET S : SumFunctionOnSet(f, s \cap u) = SumFunctionOnSet(f, s)}
<1>1. {} \in G
  <2>1. {} \cap u = {}
    OBVIOUS
  <2> QED BY <2>1
<1>2. ASSUME NEW s \in SUBSET S, NEW c \in s, s \ {c} \in G PROVE s \in G
  <2>1. /\ IsFiniteSet(s) /\ IsFiniteSet(s \ {c}) /\ IsFiniteSet(s \cap u)
        /\ \A x \in s : f[x] \in Int
    BY FS_Subset
  <2>2. /\ SumFunctionOnSet(f, s) = f[c] + SumFunctionOnSet(f, s \ {c})
        /\ SumFunctionOnSet(f, s \ {c}) \in Int
    BY <2>1, SumRemove, SumInt
  <2>3. CASE c \in u
    <3>1. (s \cap u) \ {c} = (s \ {c}) \cap u /\ c \in s \cap u
      BY <2>3
    <3>2. SumFunctionOnSet(f, s \cap u) = f[c] + SumFunctionOnSet(f, (s \cap u) \ {c})
      BY <2>1, <3>1, SumRemove
    <3> QED BY <1>2, <2>2, <3>1, <3>2
  <2>4. CASE c \notin u
    <3>1. (s \ {c}) \cap u = s \cap u /\ f[c] = 0
      BY <2>4
    <3>2. SumFunctionOnSet(f, s \cap u) = SumFunctionOnSet(f, s \ {c})
      BY <1>2, <3>1
    <3> QED BY <2>2, <3>1, <3>2
  <2> QED BY <2>3, <2>4
<1>3. S \in G
  <2>1. \A s \in SUBSET S : s # {} /\ (\A c \in s : s \ {c} \in G) => s \in G
    BY <1>2
  <2> HIDE DEF G
  <2> QED BY <1>1, <2>1, FiniteInduction
<1>4. S \cap u = u
  OBVIOUS
<1> QED BY <1>3, <1>4

(***************************************************************************)
(* A count is a sum of ones.                                               *)
(***************************************************************************)
LEMMA SumOnes ==
  ASSUME NEW S, IsFiniteSet(S), NEW f, \A x \in S : f[x] = 1
  PROVE  SumFunctionOnSet(f, S) = Cardinality(S)
<1> DEFINE G == {s \in SUBSET S : SumFunctionOnSet(f, s) = Cardinality(s)}
<1>1. {} \in G
  BY SumEmpty, FS_EmptySet
<1>2. ASSUME NEW s \in SUBSET S, NEW c \in s, s \ {c} \in G PROVE s \in G
  <2>1. /\ IsFiniteSet(s) /\ IsFiniteSet(s \ {c})
        /\ \A x \in s : f[x] \in Int
    BY FS_Subset
  <2>2. /\ SumFunctionOnSet(f, s) = f[c] + SumFunctionOnSet(f, s \ {c})
    BY <2>1, SumRemove
  <2>3. /\ SumFunctionOnSet(f, s \ {c}) \in Int
    BY <2>1, SumInt
  <2>4. Cardinality(s) = Cardinality(s \ {c}) + 1
    BY <2>1, FS_RemoveElement, FS_CardinalityType
  <2> QED BY <1>2, <2>1, <2>2, <2>3, <2>4
<1>3. S \in G
  <2>1. \A s \in SUBSET S : s # {} /\ (\A c \in s : s \ {c} \in G) => s \in G
    BY <1>2
  <2> HIDE DEF G
  <2> QED BY <1>1, <2>1, FiniteInduction
<1> QED BY <1>3

(***************************************************************************)
(* Sums are added term by term.                                            *)
(***************************************************************************)
LEMMA SumPlus ==
  ASSUME NEW S, IsFiniteSet(S), NEW f, NEW g, NEW h,
         \A x \in S : f[x] \in Int /\ g[x] \in Int /\ h[x] = f[x] + g[x]
  PROVE  SumFunctionOnSet(h, S) = SumFunctionOnSet(f, S) + SumFunctionOnSet(g, S)
<1> DEFINE G == {s \in SUBSET S : SumFunctionOnSet(h, s) = SumFunctionOnSet(f, s) + SumFunctionOnSet(g, s)}
<1>1. {} \in G
  BY SumEmpty
<1>2. ASSUME NEW s \in SUBSET S, NEW c \in s, s \ {c} \in G PROVE s \in G
  <2>1. /\ IsFiniteSet(s) /\ IsFiniteSet(s \ {c})
        /\ \A x \in s : f[x] \in Int /\ g[x] \in Int /\ h[x] \in Int
    BY FS_Subset
  <2>2. /\ SumFunctionOnSet(f, s) = f[c] + SumFunctionOnSet(f, s \ {c})
        /\ SumFunctionOnSet(g, s) = g[c] + SumFunctionOnSet(g, s \ {c})
        /\ SumFunctionOnSet(h, s) = h[c] + SumFunctionOnSet(h, s \ {c})
    BY <2>1, SumRemove
  <2>3. /\ SumFunctionOnSet(f, s \ {c}) \in Int
        /\ SumFunctionOnSet(g, s \ {c}) \in Int
        /\ SumFunctionOnSet(h, s \ {c}) \in Int
    BY <2>1, SumInt
  <2>4. SumFunctionOnSet(h, s \ {c})
          = SumFunctionOnSet(f, s \ {c}) + SumFunctionOnSet(g, s \ {c})
    BY <1>2
  <2>5. f[c] \in Int /\ g[c] \in Int /\ h[c] = f[c] + g[c]
    OBVIOUS
  <2>6. SumFunctionOnSet(h, s) = SumFunctionOnSet(f, s) + SumFunctionOnSet(g, s)
    BY <2>2, <2>3, <2>4, <2>5
  <2> QED BY <2>6
<1>3. S \in G
  <2>1. \A s \in SUBSET S : s # {} /\ (\A c \in s : s \ {c} \in G) => s \in G
    BY <1>2
  <2> HIDE DEF G
  <2> QED BY <1>1, <2>1, FiniteInduction
<1> QED BY <1>3

(***************************************************************************)
(* Sums are scaled term by term.                                           *)
(***************************************************************************)
LEMMA SumTimes ==
  ASSUME NEW S, IsFiniteSet(S), NEW k \in Int, NEW f, NEW h,
         \A x \in S : f[x] \in Int /\ h[x] = f[x] * k
  PROVE  SumFunctionOnSet(h, S) = SumFunctionOnSet(f, S) * k
<1> DEFINE G == {s \in SUBSET S : SumFunctionOnSet(h, s) = SumFunctionOnSet(f, s) * k}
<1>1. {} \in G
  BY SumEmpty
<1>2. ASSUME NEW s \in SUBSET S, NEW c \in s, s \ {c} \in G PROVE s \in G
  <2>1. /\ IsFiniteSet(s) /\ IsFiniteSet(s \ {c})
        /\ \A x \in s : f[x] \in Int /\ h[x] \in Int
    BY FS_Subset
  <2>2. /\ SumFunctionOnSet(f, s) = f[c] + SumFunctionOnSet(f, s \ {c})
        /\ SumFunctionOnSet(h, s) = h[c] + SumFunctionOnSet(h, s \ {c})
    BY <2>1, SumRemove
  <2>3. /\ SumFunctionOnSet(f, s \ {c}) \in Int
        /\ SumFunctionOnSet(h, s \ {c}) \in Int
    BY <2>1, SumInt
  <2>4. \A a, b \in Int : (a + b) * k = a * k + b * k
    OBVIOUS
  <2> QED BY <1>2, <2>1, <2>2, <2>3, <2>4
<1>3. S \in G
  <2>1. \A s \in SUBSET S : s # {} /\ (\A c \in s : s \ {c} \in G) => s \in G
    BY <1>2
  <2> HIDE DEF G
  <2> QED BY <1>1, <2>1, FiniteInduction
<1> QED BY <1>3

(***************************************************************************)
(* How many elements have a property, as a sum over all of them.           *)
(***************************************************************************)
LEMMA SumCounts ==
  ASSUME NEW S, IsFiniteSet(S), NEW s \in SUBSET S, NEW f, DOMAIN f = S,
         \A x \in S : f[x] = IF x \in s THEN 1 ELSE 0
  PROVE  SumFunction(f) = Cardinality(s)
<1>1. \A x \in S : f[x] \in Int
  OBVIOUS
<1>2. SumFunctionOnSet(f, s) = SumFunctionOnSet(f, S)
  <2>1. \A x \in S \ s : f[x] = 0
    OBVIOUS
  <2> QED BY <1>1, <2>1, SumRest
<1>3. SumFunctionOnSet(f, s) = Cardinality(s)
  <2>1. IsFiniteSet(s) /\ \A x \in s : f[x] = 1
    BY FS_Subset
  <2> QED BY <2>1, SumOnes
<1> QED
  BY <1>2, <1>3 DEF SumFunction

----------------------------------------------------------------------------
(***************************************************************************)
(* The two instances of the tracker, Gateway's and the one of its proofs,  *)
(* are the same.                                                           *)
(***************************************************************************)
LEMMA TrackerAssumptions ==
  TP!PriceAssumption /\ TP!BudgetAssumption /\ TP!RequestAssumption /\ TP!CostAssumption
<1>1. TP!BudgetAssumption
  BY TrackerAssumption DEF T!BudgetAssumption, TP!BudgetAssumption, T!Budget, TP!Budget
<1>2. TP!PriceAssumption
  BY TrackerAssumption DEF T!PriceAssumption, TP!PriceAssumption, T!ModelPrice, TP!ModelPrice
<1>3. TP!RequestAssumption
  BY TrackerAssumption DEF T!RequestAssumption, TP!RequestAssumption, T!IsFiniteSet, TP!IsFiniteSet
<1>4. TP!CostAssumption
  BY TrackerAssumption
     DEF T!CostAssumption, TP!CostAssumption, T!PriceTables, TP!PriceTables, T!Overlay,
         TP!Overlay, T!Price, TP!Price, T!PriceOf, TP!PriceOf, T!UnknownPrice, TP!UnknownPrice
<1> QED
  BY <1>1, <1>2, <1>3, <1>4

(***************************************************************************)
(* The price table of the tracker inside the gateway is the one the        *)
(* tracker was proved about (pricing.go).                                  *)
(***************************************************************************)
LEMMA SamePrices ==
  /\ T!PriceTables = TP!PriceTables
  /\ \A table, m, p, c : T!Price(table, m, p, c) = TP!Price(table, m, p, c)
  /\ \A feed : T!Refresh(feed) <=> TP!Refresh(feed)
BY DEF T!PriceTables, TP!PriceTables, T!Overlay, TP!Overlay, T!Refresh, TP!Refresh,
       T!Price, TP!Price, T!PriceOf, TP!PriceOf, T!UnknownPrice, TP!UnknownPrice

(***************************************************************************)
(* So are the initial state and the types of its variables (tracker.go     *)
(* NewTracker).                                                            *)
(***************************************************************************)
LEMMA SameState ==
  /\ T!Init <=> TP!Init
  /\ T!TypeOK <=> TP!TypeOK
  /\ T!Idle = TP!Idle /\ T!Day = TP!Day /\ T!NoSpend = TP!NoSpend
<1>1. T!Idle = TP!Idle /\ T!Day = TP!Day
  BY DEF T!Idle, TP!Idle, T!Day, TP!Day
<1>2. T!NoSpend = TP!NoSpend
  BY <1>1 DEF T!NoSpend, TP!NoSpend
<1>3. T!Init <=> TP!Init
  BY <1>1, <1>2 DEF T!Init, TP!Init, T!InitPrices, TP!InitPrices
<1>4. T!TypeOK <=> TP!TypeOK
  BY <1>1, SamePrices DEF T!TypeOK, TP!TypeOK, T!Call, TP!Call, T!Phase, TP!Phase
<1> QED
  BY <1>1, <1>2, <1>3, <1>4

(***************************************************************************)
(* So are the budgets, the tests of Allow and what RecordUsage adds to the *)
(* counters (tracker.go).                                                  *)
(***************************************************************************)
LEMMA SameBudgets ==
  /\ \A t : T!BudgetForTenant(t) = TP!BudgetForTenant(t)
  /\ \A id : T!TenantOrDefault(id) = TP!TenantOrDefault(id)
  /\ \A t, d : T!Spent(t, d) = TP!Spent(t, d)
  /\ \A q : T!OverPerRequest(q) <=> TP!OverPerRequest(q)
  /\ \A q : T!OverDaily(q) <=> TP!OverDaily(q)
  /\ \A spend, q : T!AddSpend(spend, q) = TP!AddSpend(spend, q)
<1>1. \A t : T!BudgetForTenant(t) = TP!BudgetForTenant(t)
  BY DEF T!BudgetForTenant, TP!BudgetForTenant, T!Own, TP!Own
<1>2. \A id : T!TenantOrDefault(id) = TP!TenantOrDefault(id)
  BY DEF T!TenantOrDefault, TP!TenantOrDefault
<1>3. \A t, d : T!Spent(t, d) = TP!Spent(t, d)
  BY DEF T!Spent, TP!Spent
<1>4. \A q : T!OverPerRequest(q) <=> TP!OverPerRequest(q)
  BY <1>1 DEF T!OverPerRequest, TP!OverPerRequest
<1>5. \A q : T!OverDaily(q) <=> TP!OverDaily(q)
  BY <1>1, <1>3 DEF T!OverDaily, TP!OverDaily
<1>6. \A spend, q : T!AddSpend(spend, q) = TP!AddSpend(spend, q)
  BY DEF T!AddSpend, TP!AddSpend
<1> QED
  BY <1>1, <1>2, <1>3, <1>4, <1>5, <1>6

(***************************************************************************)
(* So is every step: the tracker that the handler calls is the tracker     *)
(* that TrackerProofs is about.                                            *)
(***************************************************************************)
LEMMA SameSteps == T!Next <=> TP!Next
<1> USE DEF T!costVars, TP!costVars, T!clock, TP!clock, T!Leave, TP!Leave,
            T!CacheSpend, TP!CacheSpend
<1>1. ASSUME NEW q \in Request PROVE T!CallerStep(q) <=> TP!CallerStep(q)
  <2>1. \A id, m, p, c : T!Estimate(q, id, m, p, c) <=> TP!Estimate(q, id, m, p, c)
    BY SamePrices, SameBudgets, SameState DEF T!Estimate, TP!Estimate
  <2>2. T!AllowError(q) <=> TP!AllowError(q)
    BY SameState DEF T!AllowError, TP!AllowError
  <2>3. T!AllowReject(q) <=> TP!AllowReject(q)
    BY SameState, SameBudgets DEF T!AllowReject, TP!AllowReject
  <2>4. T!AllowAdmit(q) <=> TP!AllowAdmit(q)
    BY SameState, SameBudgets DEF T!AllowAdmit, TP!AllowAdmit
  <2>5. T!Abandon(q) <=> TP!Abandon(q)
    BY SameState DEF T!Abandon, TP!Abandon
  <2>6. \A c : T!PriceUsage(q, c) <=> TP!PriceUsage(q, c)
    BY SamePrices DEF T!PriceUsage, TP!PriceUsage
  <2>7. T!RecordFails(q) <=> TP!RecordFails(q)
    BY SameState DEF T!RecordFails, TP!RecordFails
  <2>8. T!RecordUnread(q) <=> TP!RecordUnread(q)
    BY SameState, SameBudgets DEF T!RecordUnread, TP!RecordUnread
  <2>9. T!Record(q) <=> TP!Record(q)
    BY SameState, SameBudgets DEF T!Record, TP!Record
  <2> QED
    BY <2>1, <2>2, <2>3, <2>4, <2>5, <2>6, <2>7, <2>8, <2>9 DEF T!CallerStep, TP!CallerStep
<1>2. \A id : T!Snapshot(id) <=> TP!Snapshot(id)
  BY SameBudgets DEF T!Snapshot, TP!Snapshot
<1>3. \A feed : T!RefreshPrices(feed) <=> TP!RefreshPrices(feed)
  BY SamePrices DEF T!RefreshPrices, TP!RefreshPrices
<1>4. T!NextDay <=> TP!NextDay
  BY DEF T!NextDay, TP!NextDay
<1>5. T!ClockBack <=> TP!ClockBack
  BY DEF T!ClockBack, TP!ClockBack
<1>6. T!Crash <=> TP!Crash
  BY SameState DEF T!Crash, TP!Crash
<1> QED
  BY <1>1, <1>2, <1>3, <1>4, <1>5, <1>6 DEF T!Next, TP!Next
----------------------------------------------------------------------------
(***************************************************************************)
(* Types, and the refinement of the tracker.                               *)
(***************************************************************************)
\* The write of an answer ends, one way or the other.
WriteEnds(q) == ResponseWritten(q) \/ WriteFails(q)

OwnTypes == handler \in [Request -> Handler] /\ metrics \in Registry /\ audit \in Seq(Event)

TInv == TP!IInv /\ OwnTypes

(***************************************************************************)
(* What the tracker's invariant says of its state, for use in the gateway. *)
(***************************************************************************)
LEMMA TrackerFacts ==
  ASSUME TP!IInv
  PROVE  /\ T!TypeOK
         /\ \A q \in Request :
              /\ call[q] \in T!Call
              /\ call[q].phase # "idle" => call[q].model \in Model
              /\ call[q].phase = "priced" =>
                   call[q].completion \in Completion /\ call[q].prompt \in Tokens
<1>1. T!TypeOK
  BY SameState DEF TP!IInv
<1> QED
  BY <1>1 DEF TP!IInv, T!TypeOK, TP!CallsOK, TP!CallOK

(***************************************************************************)
(* The built-in price of what a caller used is a natural number.           *)
(***************************************************************************)
LEMMA FallbackType ==
  ASSUME TP!IInv, NEW q \in Request, call[q].phase = "priced"
  PROVE  FallbackCost(q) \in Nat /\ call[q].cost \in Nat
<1>1. /\ call[q].model \in Model /\ call[q].prompt \in Nat /\ call[q].completion \in Nat
      /\ call[q].cost \in Nat
  BY TrackerFacts DEF T!Call
<1>2. DefaultPrices \in TP!PriceTables
  BY DEF TP!PriceTables
<1>3. TP!Price(DefaultPrices, call[q].model, call[q].prompt, call[q].completion) \in Nat
  BY <1>1, <1>2, TrackerAssumptions, TP!PriceFacts
<1> QED
  BY <1>1, <1>3, SamePrices DEF FallbackCost, T!StaticPrice

(***************************************************************************)
(* What a body holds (llm/chat.go), with the limit set if it has none.     *)
(***************************************************************************)
LEMMA BodyFacts ==
  ASSUME NEW b \in Body
  PROVE  /\ b.model \in Model /\ MaxTokens(b) \in Tokens
         /\ b.prompt \in Tokens /\ b.redactedPrompt \in Tokens
BY GatewayAssumption DEF BodyType, MaxTokens

(***************************************************************************)
(* What the assumptions on the constants say about bodies, tenants, days   *)
(* and the micro-dollar.                                                   *)
(***************************************************************************)
LEMMA ModeFacts ==
  /\ NoBody \in Body /\ DefaultTenant \in Tenant /\ NoTenant \notin Tenant
  /\ \A id \in Tenant \cup {NoTenant} : T!TenantOrDefault(id) \in Tenant
  /\ Micro \in Nat \ {0} /\ IsFiniteSet(Request) /\ T!Day = 0..MaxDay /\ MaxDay \in Nat
<1>1. /\ DefaultTenant \in Tenant /\ NoTenant \notin Tenant
      /\ \A id \in Tenant \cup {NoTenant} : T!TenantOrDefault(id) \in Tenant
  BY TrackerAssumption DEF T!BudgetAssumption, T!TenantOrDefault
<1>2. Micro \in Nat \ {0}
  BY TrackerAssumption DEF T!PriceAssumption
<1>3. IsFiniteSet(Request) /\ MaxDay \in Nat
  BY TrackerAssumption DEF T!RequestAssumption, T!IsFiniteSet, IsFiniteSet
<1>4. NoBody \in Body
  BY GatewayAssumption DEF NoBody
<1> QED
  BY <1>1, <1>2, <1>3, <1>4 DEF T!Day

(***************************************************************************)
(* There are finitely many days.                                           *)
(***************************************************************************)
LEMMA DaysFinite == IsFiniteSet(T!Day)
<1>1. T!Day = 0..MaxDay /\ 0 \in Int /\ MaxDay \in Int
  BY ModeFacts
<1> QED
  BY <1>1, FS_Interval

(***************************************************************************)
(* A provider's status that ends the failover is not 0 and below 500       *)
(* (chat.go callProviders).                                                *)
(***************************************************************************)
LEMMA AnswerStatus ==
  ASSUME NEW s \in UpstreamStatus, ~Retryable(s) PROVE s \notin {0, 500, 502}
<1>1. s \in 100..999
  BY GatewayAssumption
<1> QED
  BY <1>1 DEF Retryable

(***************************************************************************)
(* Every step of the gateway is a step of the tracker or leaves it alone.  *)
(***************************************************************************)
LEMMA TrackerStep ==
  ASSUME handler \in [Request -> Handler], [Next]_vars
  PROVE  [T!Next]_trackerVars
<1> SUFFICES ASSUME Next PROVE [T!Next]_trackerVars
  BY DEF vars
<1>1. ASSUME NEW q \in Request, NEW id \in Tenant \cup {NoTenant}, NEW b \in Body,
             Arrive(q, id, b) \/ ArriveLimited(q, id, b)
      PROVE  UNCHANGED trackerVars
  BY <1>1 DEF Arrive, ArriveLimited
<1>2. ASSUME NEW q \in Request, Disconnect(q)
      PROVE  UNCHANGED trackerVars
  BY <1>2 DEF Disconnect
<1>3. ASSUME Around PROVE T!Next
  BY <1>3 DEF Around, T!Next
<1>4. ASSUME NEW q \in Request, Handle(q) \/ ResponseWritten(q) PROVE [T!Next]_trackerVars
  <2>1. handler[q].tenant \in Tenant /\ handler[q].body \in Body
    BY DEF Handler
  <2>2. CASE EstimateBudget(q)
    <3>1. T!CallerStep(q)
      BY <2>1, <2>2, BodyFacts DEF EstimateBudget, PromptTokens, T!CallerStep
    <3> QED
      BY <3>1 DEF T!Next
  <2>3. CASE BudgetError(q) \/ OverBudget(q) \/ WithinBudget(q) \/ AllProvidersFailed(q)
             \/ RecordUsage(q) \/ RecordUsageFails(q) \/ RecordUsageUnread(q)
    <3>1. T!CallerStep(q)
      BY <2>3 DEF BudgetError, OverBudget, WithinBudget, AllProvidersFailed, RecordUsage,
                  RecordUsageFails, RecordUsageUnread, T!CallerStep
    <3> QED
      BY <3>1 DEF T!Next
  <2>4. ASSUME NEW c \in Completion, PriceResponse(q, c) PROVE T!Next
    <3>1. T!CallerStep(q)
      BY <2>4 DEF PriceResponse, T!CallerStep
    <3> QED
      BY <3>1 DEF T!Next
  <2>5. CASE BadBody(q) \/ BlockedByGuard(q) \/ BrokenByRedaction(q) \/ Screened(q)
             \/ ProviderFails(q) \/ WriteEnds(q) \/ RecordAudit(q) \/ RecordAuditFails(q)
    BY <2>5 DEF BadBody, BlockedByGuard, BrokenByRedaction, Screened, ProviderFails,
                WriteEnds, ResponseWritten, WriteFails, RecordAudit, RecordAuditFails
  <2>6. ASSUME NEW s \in UpstreamStatus, ProviderAnswers(q, s) PROVE UNCHANGED trackerVars
    BY <2>6 DEF ProviderAnswers
  <2> QED
    BY <1>4, <2>2, <2>3, <2>4, <2>5, <2>6 DEF Handle, WriteEnds
<1> QED
  BY <1>1, <1>2, <1>3, <1>4 DEF Next

(***************************************************************************)
(* The tracker keeps its inductive invariant in every step of the gateway. *)
(***************************************************************************)
LEMMA TrackerKept == ASSUME TInv, [Next]_vars PROVE TP!IInv'
<1>1. [TP!Next]_trackerVars
  BY TrackerStep, SameSteps DEF TInv, OwnTypes
<1>2. trackerVars = TP!vars /\ trackerVars' = TP!vars'
  BY DEF trackerVars, TP!vars
<1>3. [TP!Next]_(TP!vars)
  BY <1>1, <1>2
<1> QED
  BY <1>3, TP!NextInv, TrackerAssumptions DEF TInv

(***************************************************************************)
(* A goroutine that moves on keeps the types of its locals.                *)
(***************************************************************************)
LEMMA PcSet ==
  ASSUME NEW h \in Handler, NEW pc \in PC PROVE [h EXCEPT !.pc = pc] \in Handler
BY DEF Handler

(***************************************************************************)
(* So does one that moves on with a reply.                                 *)
(***************************************************************************)
LEMMA PcStatusSet ==
  ASSUME NEW h \in Handler, NEW pc \in PC, NEW s \in Status
  PROVE  /\ [h EXCEPT !.status = s, !.pc = pc] \in Handler
         /\ [h EXCEPT !.pc = pc, !.status = s] \in Handler
BY DEF Handler

(***************************************************************************)
(* Every step keeps the types of handlers, metrics and audit log.          *)
(***************************************************************************)
LEMMA OwnTypesKept == ASSUME TInv, [Next]_vars PROVE OwnTypes'
<1> USE DEF OwnTypes
<1>0. OwnTypes /\ TP!IInv
  BY DEF TInv
<1>1. CASE UNCHANGED vars
  BY <1>0, <1>1 DEF vars
<1>2. ASSUME NEW q \in Request, NEW id \in Tenant \cup {NoTenant}, NEW b \in Body,
             Arrive(q, id, b) \/ ArriveLimited(q, id, b)
      PROVE  OwnTypes'
  <2>1. NewHandler \in Handler
    BY ModeFacts DEF NewHandler, Handler, PC, Status, Text
  <2>2. Arrived(id, b) \in Handler
    BY <2>1, ModeFacts DEF Arrived, Handler
  <2>3. [Arrived(id, b) EXCEPT !.pc = "screen"] \in Handler
    <3>1. "screen" \in PC
      BY DEF PC
    <3> QED
      BY <2>2, <3>1, PcSet
  <2>4. [Arrived(id, b) EXCEPT !.pc = "audit", !.status = 429] \in Handler
    <3>1. "audit" \in PC /\ 429 \in Status
      BY DEF PC, Status
    <3>2. \A a \in Handler, pc \in PC, s \in Status :
            [a EXCEPT !.pc = pc, !.status = s] \in Handler
      BY PcStatusSet
    <3> HIDE DEF OwnTypes
    <3> QED
      BY <2>2, <3>1, <3>2, Zenon
  <2>5. handler' \in [Request -> Handler]
    <3> HIDE DEF OwnTypes
    <3>1. handler \in [Request -> Handler]
      BY <1>0 DEF OwnTypes
    <3> QED
      BY <1>2, <2>3, <2>4, <3>1 DEF Arrive, ArriveLimited
  <2>6. metrics' \in Registry
    <3>1. CASE Arrive(q, id, b)
      BY <1>0, <3>1 DEF Arrive, Registry
    <3>2. CASE ArriveLimited(q, id, b)
      <4>1. metrics.requests + 1 \in Nat /\ metrics.blocked + 1 \in Nat
        BY <1>0 DEF Registry
      <4>2. \A m, n \in Nat : [metrics EXCEPT !.requests = m, !.blocked = n] \in Registry
        BY <1>0 DEF Registry
      <4> QED
        BY <3>2, <4>1, <4>2 DEF ArriveLimited
    <3> QED
      BY <1>2, <3>1, <3>2
  <2>7. audit' = audit
    BY <1>2 DEF Arrive, ArriveLimited
  <2> QED
    BY <1>0, <2>5, <2>6, <2>7
<1>3. ASSUME NEW q \in Request, Disconnect(q) PROVE OwnTypes'
  <2>1. [handler[q] EXCEPT !.gone = TRUE] \in Handler
    BY <1>0 DEF Handler
  <2> QED
    BY <1>0, <1>3, <2>1 DEF Disconnect
<1>4. CASE Around
  BY <1>0, <1>4 DEF Around
<1>5. ASSUME NEW q \in Request, Handle(q) \/ ResponseWritten(q) PROVE OwnTypes'
  <2> DEFINE h == handler[q]
  <2>0. h \in Handler /\ h.cost \in Nat
    BY <1>0 DEF Handler
  <2>1. ASSUME NEW pc \in PC PROVE [h EXCEPT !.pc = pc] \in Handler
    BY <2>0, PcSet
  <2>2. ASSUME NEW pc \in PC, NEW s \in Status PROVE [h EXCEPT !.status = s, !.pc = pc] \in Handler
    BY <2>0, PcStatusSet
  <2>3. CASE EstimateBudget(q) \/ WithinBudget(q) \/ RecordAuditFails(q) \/ WriteEnds(q)
             \/ \E c \in Completion : PriceResponse(q, c)
    <3>1. /\ \E pc \in PC : handler' = [handler EXCEPT ![q] = [h EXCEPT !.pc = pc]]
          /\ UNCHANGED <<metrics, audit>>
      BY <2>3 DEF EstimateBudget, WithinBudget, RecordAuditFails, PriceResponse, WriteEnds,
                  ResponseWritten, WriteFails, Goto, PC
    <3> QED
      BY <1>0, <2>1, <3>1
  <2>4. CASE BadBody(q) \/ BlockedByGuard(q) \/ BrokenByRedaction(q) \/ BudgetError(q)
             \/ OverBudget(q) \/ AllProvidersFailed(q)
    <3>1. /\ \E pc \in PC, s \in Status :
               handler' = [handler EXCEPT ![q] = [h EXCEPT !.status = s, !.pc = pc]]
          /\ UNCHANGED audit
      <4>1. \E pc \in PC, s \in Status : Reply(q, s, pc)
        BY <2>4 DEF BadBody, BlockedByGuard, BrokenByRedaction, BudgetError, OverBudget,
                    AllProvidersFailed, PC, Status
      <4>2. audit' = audit
        BY <2>4 DEF BadBody, BlockedByGuard, BrokenByRedaction, BudgetError, OverBudget,
                    AllProvidersFailed
      <4> QED
        BY <1>0, <4>1, <4>2 DEF Reply
    <3>2. metrics' = metrics \/ RecordBlocked
      BY <2>4 DEF BadBody, BlockedByGuard, BrokenByRedaction, BudgetError, OverBudget,
                  AllProvidersFailed
    <3>3. metrics' \in Registry
      BY <1>0, <3>2 DEF RecordBlocked, Registry
    <3> QED
      BY <1>0, <2>2, <3>1, <3>3
  <2>5. ASSUME CountFailover(q) PROVE metrics' \in Registry
    BY <1>0, <2>5 DEF CountFailover, Registry
  <2>6. ASSUME NEW p PROVE SentTo(q, p) \in SUBSET Text
    BY <2>0 DEF SentTo, Forwarded, Handler
  <2>7. CASE ProviderFails(q)
    <3>0. h.hop + 1 \in Nat
      BY <2>0 DEF Handler
    <3>1. ASSUME NEW sent \in SUBSET Text
          PROVE  [h EXCEPT !.sent = sent, !.hop = h.hop + 1] \in Handler
      <4>1. \A n \in Nat : [h EXCEPT !.sent = sent, !.hop = n] \in Handler
        BY <2>0 DEF Handler
      <4> QED
        BY <3>0, <4>1
    <3>2. \E sent \in SUBSET Text :
            handler' = [handler EXCEPT ![q] = [h EXCEPT !.sent = sent, !.hop = h.hop + 1]]
      BY <2>6, <2>7 DEF ProviderFails
    <3> QED
      BY <1>0, <2>5, <2>7, <3>1, <3>2 DEF ProviderFails
  <2>8. ASSUME NEW s \in UpstreamStatus, ProviderAnswers(q, s) PROVE OwnTypes'
    <3>0. h.body.stream \in BOOLEAN /\ h.hop + 1 \in Nat
      BY <2>0, GatewayAssumption DEF Handler, BodyType
    <3>1. ASSUME NEW sent \in SUBSET Text
          PROVE  [h EXCEPT !.sent = sent, !.hop = h.hop + 1, !.answered = TRUE,
                           !.streaming = h.body.stream, !.status = s, !.pc = "write"] \in Handler
      <4>1. \A n \in Nat, st \in BOOLEAN :
              [h EXCEPT !.sent = sent, !.hop = n, !.answered = TRUE, !.streaming = st,
                        !.status = s, !.pc = "write"] \in Handler
        <5>1. s \in Status /\ "write" \in PC
          BY DEF Status, PC
        <5> QED
          BY <2>0, <5>1 DEF Handler
      <4> QED
        BY <3>0, <4>1
    <3>2. \E sent \in SUBSET Text :
            handler' = [handler EXCEPT ![q] =
                          [h EXCEPT !.sent = sent, !.hop = h.hop + 1, !.answered = TRUE,
                                    !.streaming = h.body.stream, !.status = s, !.pc = "write"]]
      BY <2>6, <2>8 DEF ProviderAnswers
    <3> QED
      BY <1>0, <2>5, <2>8, <3>1, <3>2 DEF ProviderAnswers
  <2>9. CASE RecordUsage(q) \/ RecordUsageFails(q) \/ RecordUsageUnread(q)
    <3>1. call[q].phase = "priced"
      BY <2>9 DEF RecordUsage, RecordUsageFails, RecordUsageUnread, T!Record, T!RecordFails,
                  T!RecordUnread
    <3>2. PICK c \in Nat : Charged(q, c)
      BY <1>0, <2>9, <3>1, FallbackType DEF RecordUsage, RecordUsageFails, RecordUsageUnread
    <3>3. [h EXCEPT !.cost = c, !.pc = "audit"] \in Handler
      BY <2>0 DEF Handler, PC
    <3>4. c \div Micro \in Nat
      BY ModeFacts
    <3>5. metrics' \in Registry
      BY <1>0, <3>2, <3>4 DEF Charged, RecordCost, Registry
    <3> QED
      BY <1>0, <3>2, <3>3, <3>5 DEF Charged
  <2>10. CASE RecordAudit(q)
    <3>1. AuditEvent(q) \in Event
      BY <2>0 DEF AuditEvent, Event, Handler
    <3>2. "done" \in PC
      BY DEF PC
    <3> QED
      BY <1>0, <2>1, <2>10, <3>1, <3>2 DEF RecordAudit, Goto
  <2>11. CASE Screened(q)
    <3>1. Redacted(q) \in Text
      BY DEF Redacted, Text
    <3>2. \A x \in Text : [h EXCEPT !.forwardBody = x, !.chat = x, !.pc = "estimate"] \in Handler
      BY <2>0 DEF Handler, PC
    <3> QED
      BY <1>0, <2>11, <3>1, <3>2 DEF Screened
  <2> QED
    BY <1>5, <2>3, <2>4, <2>7, <2>8, <2>9, <2>10, <2>11 DEF Handle, WriteEnds
<1> QED
  BY <1>1, <1>2, <1>3, <1>4, <1>5 DEF Next

(***************************************************************************)
(* The gateway starts with the types right (server.go New).                *)
(***************************************************************************)
LEMMA InitTypes == Init => TInv
<1> SUFFICES ASSUME Init PROVE TInv
  OBVIOUS
<1>1. TP!IInv
  BY SameState, TrackerAssumptions, TP!InitInv DEF Init
<1>2. NewHandler \in Handler
  BY ModeFacts DEF NewHandler, Handler, PC, Status, Text
<1> QED
  BY <1>1, <1>2 DEF Init, TInv, OwnTypes, Registry

(***************************************************************************)
(* The types, and the invariant of the tracker, hold at all times.         *)
(***************************************************************************)
LEMMA Types == Spec => []TInv
<1>1. TInv /\ [Next]_vars => TInv'
  BY TrackerKept, OwnTypesKept DEF TInv
<1> QED
  BY <1>1, InitTypes, PTL DEF Spec

(***************************************************************************)
(* The state of handlers, tracker, metrics and audit log keeps its types,  *)
(* with any faults and disconnects: no charge, counter or audited cost is  *)
(* ever negative, and the status sent is always one that chat.go sends.    *)
(***************************************************************************)
THEOREM TypeCorrect == Spec => []TypeOK
<1>1. TInv => TypeOK
  BY TrackerFacts DEF TInv, OwnTypes, TypeOK
<1> QED
  BY <1>1, Types, PTL

(***************************************************************************)
(* Every behaviour of the gateway is one of the tracker: whatever fails    *)
(* and whoever disconnects, RecordTenant is called at most once for a      *)
(* request and only after an AllowTenant that admitted it.                 *)
(***************************************************************************)
THEOREM TrackerProtocol == Spec => KeepsTrackerProtocol
<1>1. TInv /\ [Next]_vars => [T!Next]_trackerVars
  BY TrackerStep DEF TInv, OwnTypes
<1>2. Init => T!Init
  BY DEF Init
<1> QED
  BY <1>1, <1>2, Types, PTL DEF Spec, KeepsTrackerProtocol

(***************************************************************************)
(* So the bounds proved of the tracker hold in the gateway, for all that   *)
(* its requests do and however many run at once: a daily budget is never   *)
(* overspent by more than one maximal request per goroutine, and a charge  *)
(* is within the per-request budget if nothing was repriced.               *)
(***************************************************************************)
THEOREM BudgetsKept == Spec => [](T!OverspendBounded /\ T!PerRequestHonoured)
<1>1. TP!OverspendBounded => T!OverspendBounded
  BY SameState, SameBudgets
     DEF TP!OverspendBounded, T!OverspendBounded, TP!Ceiling, T!Ceiling, TP!Allowance,
         T!Allowance, T!Cardinality, TP!Cardinality
<1>2. TP!PerRequestHonoured => T!PerRequestHonoured
  BY SameBudgets DEF TP!PerRequestHonoured, T!PerRequestHonoured
<1>3. T!Init => TP!Init
  BY SameState
<1>4. [T!Next]_trackerVars => [TP!Next]_(TP!vars)
  BY SameSteps DEF trackerVars, TP!vars
<1>5. Spec => TP!Spec
  BY <1>3, <1>4, TrackerProtocol, PTL DEF KeepsTrackerProtocol, TP!Spec
<1>6. TP!Spec => [](TP!OverspendBounded /\ TP!PerRequestHonoured)
  BY TrackerAssumptions, TP!OverspendTheorem, TP!PerRequestTheorem, PTL
<1> QED
  BY <1>1, <1>2, <1>5, <1>6, PTL
----------------------------------------------------------------------------
(***************************************************************************)
(* What a goroutine has done by the time it is at a place in the handler,  *)
(* h being its locals and c its call of the tracker.                       *)
(***************************************************************************)
InStep(h, c) ==
  /\ h.pc \in {"idle", "screen", "estimate", "audit", "done"} => c.phase = "idle"
  /\ h.pc = "allow" => c.phase = "estimated"
  /\ h.pc \in {"route", "write", "usage"} => c.phase = "admitted"
  /\ h.pc = "record" => c.phase = "priced"
  /\ c.phase # "idle" => c.tenant = h.tenant

\* The gateway's own 400, which is not audited.
Dropped(h) == ~h.answered /\ h.status = 400

Progress(h) ==
  /\ h.pc = "idle" => h = NewHandler
  /\ h.pc \in {"screen", "estimate", "allow"} => h.sent = {} /\ h.hop = 0
  /\ h.pc \in {"screen", "estimate", "allow", "route"} => h.status = 0 /\ ~h.answered
  /\ h.pc \in {"write", "usage", "record"} => h.answered
  /\ h.pc \in {"audit", "done"} => h.status # 0
  /\ h.pc = "audit" => ~Dropped(h)
  /\ h.pc \in {"screen", "estimate", "allow", "route", "write", "usage", "record"} => h.cost = 0
  /\ h.answered => h.status \notin {0, 502}
  /\ h.cost # 0 => h.answered
  /\ h.status = 502 => h.hop = Len(Candidates(h.body.model))

AsScreened(h) ==
  /\ h.pc \in {"estimate", "allow", "route", "write", "usage", "record"} =>
       /\ ActionFor(h.body.findings) # "block"
       /\ ActionFor(h.body.findings) = "redact" => h.forwardBody # "raw" /\ h.chat # "raw"
  /\ h.sent # {} =>
       /\ h.answered \/ h.status \in {0, 502}
       /\ ActionFor(h.body.findings) # "block"
       /\ ActionFor(h.body.findings) = "redact" => "raw" \notin h.sent

Undisturbed(h) == ~Disconnects => ~h.gone

HandlersOK ==
  \A q \in Request : /\ InStep(handler[q], call[q]) /\ Progress(handler[q])
                     /\ AsScreened(handler[q]) /\ Undisturbed(handler[q])

HInv == TInv /\ HandlersOK

----------------------------------------------------------------------------
(***************************************************************************)
(* What the assignments of the handler change, and what they leave alone.  *)
(***************************************************************************)
Others(q) == \A r \in Request : r # q => handler'[r] = handler[r]
OtherCalls(q) == \A r \in Request : r # q => call'[r] = call[r]
SameRequest(h, g) == h.tenant = g.tenant /\ h.body = g.body /\ h.gone = g.gone
SameRoute(h, g) == h.hop = g.hop /\ h.sent = g.sent /\ h.answered = g.answered
SameText(h, g) == h.forwardBody = g.forwardBody /\ h.chat = g.chat

(***************************************************************************)
(* A goroutine that moves on changes nothing but its place.                *)
(***************************************************************************)
LEMMA GotoFacts ==
  ASSUME handler \in [Request -> Handler], NEW q \in Request, NEW pc, Goto(q, pc)
  PROVE  /\ Others(q) /\ SameRequest(handler'[q], handler[q]) /\ SameRoute(handler'[q], handler[q])
         /\ SameText(handler'[q], handler[q])
         /\ handler'[q].pc = pc /\ handler'[q].status = handler[q].status
         /\ handler'[q].cost = handler[q].cost
BY DEF Goto, Handler, Others, SameRequest, SameRoute, SameText

(***************************************************************************)
(* A reply changes the place and the status.                               *)
(***************************************************************************)
LEMMA ReplyFacts ==
  ASSUME handler \in [Request -> Handler], NEW q \in Request, NEW s, NEW pc, Reply(q, s, pc)
  PROVE  /\ Others(q) /\ SameRequest(handler'[q], handler[q]) /\ SameRoute(handler'[q], handler[q])
         /\ SameText(handler'[q], handler[q])
         /\ handler'[q].pc = pc /\ handler'[q].status = s
         /\ handler'[q].cost = handler[q].cost
BY DEF Reply, Handler, Others, SameRequest, SameRoute, SameText

(***************************************************************************)
(* Screening sets the bytes to forward and the decoded request alike       *)
(* (chat.go chatCompletions).                                              *)
(***************************************************************************)
LEMMA ScreenedFacts ==
  ASSUME handler \in [Request -> Handler], NEW q \in Request, Screened(q)
  PROVE  /\ Others(q) /\ SameRequest(handler'[q], handler[q]) /\ SameRoute(handler'[q], handler[q])
         /\ handler[q].pc = "screen" /\ handler'[q].pc = "estimate"
         /\ handler'[q].status = handler[q].status /\ handler'[q].cost = handler[q].cost
         /\ handler'[q].forwardBody = Redacted(q) /\ handler'[q].chat = Redacted(q)
BY DEF Screened, At, Handler, Others, SameRequest, SameRoute

(***************************************************************************)
(* The end of recordUsage changes the place and the cost.                  *)
(***************************************************************************)
LEMMA ChargedFacts ==
  ASSUME handler \in [Request -> Handler], NEW q \in Request, NEW c, Charged(q, c)
  PROVE  /\ Others(q) /\ SameRequest(handler'[q], handler[q]) /\ SameRoute(handler'[q], handler[q])
         /\ SameText(handler'[q], handler[q])
         /\ handler'[q].pc = "audit" /\ handler'[q].status = handler[q].status
         /\ handler'[q].cost = c
BY DEF Charged, Handler, Others, SameRequest, SameRoute, SameText

(***************************************************************************)
(* A new request starts with no hop, nothing sent and no cost; one over    *)
(* the rate limit goes straight to its audit event (chat.go                *)
(* chatCompletions).                                                       *)
(***************************************************************************)
LEMMA ArrivedFacts ==
  ASSUME handler \in [Request -> Handler], NEW q \in Request, NEW id, NEW b
  PROVE  /\ Arrive(q, id, b) =>
              /\ Others(q) /\ handler'[q].pc = "screen" /\ handler'[q].status = 0
         /\ ArriveLimited(q, id, b) =>
              /\ Others(q) /\ handler'[q].pc = "audit" /\ handler'[q].status = 429
         /\ Arrive(q, id, b) \/ ArriveLimited(q, id, b) =>
              /\ handler'[q].tenant = T!TenantOrDefault(id) /\ handler'[q].body = b
              /\ handler'[q].hop = 0 /\ handler'[q].sent = {} /\ ~handler'[q].answered /\ handler'[q].cost = 0
              /\ ~handler'[q].gone
<1>1. ASSUME Arrive(q, id, b)
      PROVE  Others(q) /\ handler'[q] = [Arrived(id, b) EXCEPT !.pc = "screen"]
  BY <1>1 DEF Arrive, Others
<1>2. ASSUME ArriveLimited(q, id, b)
      PROVE  Others(q) /\ handler'[q] = [Arrived(id, b) EXCEPT !.pc = "audit", !.status = 429]
  BY <1>2 DEF ArriveLimited, Others
<1>3. ASSUME NEW h, h = [Arrived(id, b) EXCEPT !.pc = "screen"]
      PROVE  /\ h.pc = "screen" /\ h.status = 0
             /\ h.tenant = T!TenantOrDefault(id) /\ h.body = b
             /\ h.hop = 0 /\ h.sent = {} /\ ~h.answered /\ h.cost = 0 /\ ~h.gone
  BY <1>3 DEF Arrived, NewHandler
<1>4. ASSUME NEW h, h = [Arrived(id, b) EXCEPT !.pc = "audit", !.status = 429]
      PROVE  /\ h.pc = "audit" /\ h.status = 429
             /\ h.tenant = T!TenantOrDefault(id) /\ h.body = b
             /\ h.hop = 0 /\ h.sent = {} /\ ~h.answered /\ h.cost = 0 /\ ~h.gone
  BY <1>4 DEF Arrived, NewHandler
<1> QED
  BY <1>1, <1>2, <1>3, <1>4

(***************************************************************************)
(* One attempt of the failover loop moves one hop on and notes what it     *)
(* sent; an answer sets the status (chat.go callProviders).                *)
(***************************************************************************)
LEMMA ProviderFacts ==
  ASSUME handler \in [Request -> Handler], NEW q \in Request, NEW s
  PROVE  /\ ProviderFails(q) =>
              /\ handler'[q].pc = "route" /\ handler'[q].status = handler[q].status
              /\ handler'[q].answered = handler[q].answered
         /\ ProviderAnswers(q, s) =>
              /\ handler'[q].pc = "write" /\ handler'[q].status = s /\ handler'[q].answered
         /\ ProviderFails(q) \/ ProviderAnswers(q, s) =>
              /\ Others(q) /\ SameRequest(handler'[q], handler[q])
              /\ SameText(handler'[q], handler[q])
              /\ handler'[q].hop = handler[q].hop + 1 /\ handler'[q].cost = handler[q].cost
              /\ handler'[q].sent = SentTo(q, CandidatesOf(q)[handler[q].hop + 1])
<1>1. ASSUME ProviderFails(q)
      PROVE  /\ Others(q) /\ SameRequest(handler'[q], handler[q])
             /\ handler'[q].pc = "route" /\ handler'[q].status = handler[q].status
             /\ handler'[q].answered = handler[q].answered /\ SameText(handler'[q], handler[q])
             /\ handler'[q].hop = handler[q].hop + 1 /\ handler'[q].cost = handler[q].cost
             /\ handler'[q].sent = SentTo(q, CandidatesOf(q)[handler[q].hop + 1])
  BY <1>1 DEF ProviderFails, At, Others, SameRequest, SameText, Handler
<1>2. ASSUME ProviderAnswers(q, s)
      PROVE  /\ Others(q) /\ SameRequest(handler'[q], handler[q])
             /\ handler'[q].pc = "write" /\ handler'[q].status = s
             /\ handler'[q].answered /\ SameText(handler'[q], handler[q])
             /\ handler'[q].hop = handler[q].hop + 1 /\ handler'[q].cost = handler[q].cost
             /\ handler'[q].sent = SentTo(q, CandidatesOf(q)[handler[q].hop + 1])
  BY <1>2 DEF ProviderAnswers, At, Others, SameRequest, SameText, Handler
<1> QED
  BY <1>1, <1>2

(***************************************************************************)
(* A client that goes away leaves everything else of its request alone.    *)
(***************************************************************************)
LEMMA DisconnectFacts ==
  ASSUME handler \in [Request -> Handler], NEW q \in Request, Disconnect(q)
  PROVE  /\ Others(q) /\ SameRoute(handler'[q], handler[q])
         /\ handler'[q].pc = handler[q].pc /\ handler'[q].status = handler[q].status
         /\ handler'[q].cost = handler[q].cost /\ handler'[q].tenant = handler[q].tenant
         /\ handler'[q].body = handler[q].body /\ SameText(handler'[q], handler[q])
         /\ handler[q].pc # "idle" /\ Disconnects
BY DEF Disconnect, At, Handler, Others, SameRoute, SameText

(***************************************************************************)
(* The caller's side of the tracker's actions.                             *)
(***************************************************************************)
LEMMA CallSteps ==
  ASSUME T!TypeOK, NEW q \in Request
  PROVE  /\ \A id, m, p, c : T!Estimate(q, id, m, p, c) =>
              /\ OtherCalls(q) /\ call'[q].phase = "estimated"
              /\ call'[q].tenant = T!TenantOrDefault(id)
         /\ T!AllowError(q) \/ T!AllowReject(q) \/ T!Abandon(q) \/ T!RecordFails(q)
              \/ T!RecordUnread(q) \/ T!Record(q) =>
              /\ OtherCalls(q) /\ call'[q].phase = "idle"
         /\ T!AllowAdmit(q) =>
              /\ OtherCalls(q) /\ call'[q].phase = "admitted" /\ call'[q].tenant = call[q].tenant
         /\ \A c : T!PriceUsage(q, c) =>
              /\ OtherCalls(q) /\ call'[q].phase = "priced" /\ call'[q].tenant = call[q].tenant
<1>0. call \in [Request -> T!Call]
  BY DEF T!TypeOK
<1>1. ASSUME NEW id, NEW m, NEW p, NEW c, T!Estimate(q, id, m, p, c)
      PROVE  /\ OtherCalls(q) /\ call'[q].phase = "estimated"
             /\ call'[q].tenant = T!TenantOrDefault(id)
  BY <1>0, <1>1 DEF T!Estimate, T!Idle, OtherCalls
<1>2. ASSUME T!Leave(q) PROVE OtherCalls(q) /\ call'[q].phase = "idle"
  BY <1>0, <1>2 DEF T!Leave, T!Idle, OtherCalls
<1>3. ASSUME T!AllowAdmit(q)
      PROVE  OtherCalls(q) /\ call'[q].phase = "admitted" /\ call'[q].tenant = call[q].tenant
  BY <1>0, <1>3 DEF T!AllowAdmit, T!Call, OtherCalls
<1>4. ASSUME NEW c, T!PriceUsage(q, c)
      PROVE  OtherCalls(q) /\ call'[q].phase = "priced" /\ call'[q].tenant = call[q].tenant
  BY <1>0, <1>4 DEF T!PriceUsage, T!Call, OtherCalls
<1> QED
  BY <1>1, <1>2, <1>3, <1>4
     DEF T!AllowError, T!AllowReject, T!Abandon, T!RecordFails, T!RecordUnread, T!Record

----------------------------------------------------------------------------
(***************************************************************************)
(* actionFor: the strongest of what the modes ask for wins, so a blocking  *)
(* mode blocks and a redacting one redacts, unless the other blocks.       *)
(***************************************************************************)
LEMMA Strongest ==
  ASSUME NEW findings
  PROVE  /\ ActionFor(findings) \in Action
         /\ "pii" \in findings /\ PIIMode = "block" => ActionFor(findings) = "block"
         /\ "prompt_injection" \in findings /\ PromptMode = "block" =>
              ActionFor(findings) = "block"
         /\ "pii" \in findings /\ PIIMode = "redact" /\ ActionFor(findings) # "block" =>
              ActionFor(findings) = "redact"
<1> DEFINE asked == {"allow"}
                     \cup (IF "prompt_injection" \in findings
                             THEN {ActionFromMode(PromptMode)} ELSE {})
                     \cup (IF "pii" \in findings THEN {ActionFromMode(PIIMode)} ELSE {})
           Wins(a) == \A other \in asked : Rank(other) <= Rank(a)
<1>1. asked \subseteq Action /\ "allow" \in asked
  BY GatewayAssumption DEF ActionFromMode, Mode, Action
<1>2. Rank("allow") = 0 /\ Rank("warn") = 1 /\ Rank("redact") = 2 /\ Rank("block") = 3
  BY DEF Rank
<1>3. ("pii" \in findings => ActionFromMode(PIIMode) \in asked)
      /\ ("prompt_injection" \in findings => ActionFromMode(PromptMode) \in asked)
  OBVIOUS
<1>4. ActionFor(findings) = CHOOSE a \in asked : Wins(a)
  BY DEF ActionFor
<1> HIDE DEF asked
<1>5. \E a \in asked : Wins(a)
  <2>1. CASE "block" \in asked
    BY <1>1, <1>2, <2>1 DEF Action
  <2>2. CASE "block" \notin asked /\ "redact" \in asked
    BY <1>1, <1>2, <2>2 DEF Action
  <2>3. CASE "block" \notin asked /\ "redact" \notin asked /\ "warn" \in asked
    BY <1>1, <1>2, <2>3 DEF Action
  <2>4. CASE "block" \notin asked /\ "redact" \notin asked /\ "warn" \notin asked
    BY <1>1, <1>2, <2>4 DEF Action
  <2> QED
    BY <2>1, <2>2, <2>3, <2>4
<1>6. ActionFor(findings) \in asked /\ Wins(ActionFor(findings))
  <2> HIDE DEF Wins
  <2> QED
    BY <1>4, <1>5
<1> HIDE DEF Wins
<1>7. ASSUME NEW a \in Action, Wins(a)
      PROVE  /\ "block" \in asked => a = "block"
             /\ "redact" \in asked /\ a # "block" => a = "redact"
  BY <1>2, <1>7 DEF Action, Wins
<1>8. /\ "block" \in asked => ActionFor(findings) = "block"
      /\ "redact" \in asked /\ ActionFor(findings) # "block" => ActionFor(findings) = "redact"
  BY <1>1, <1>6, <1>7
<1> QED
  BY <1>1, <1>3, <1>6, <1>8 DEF ActionFromMode

(***************************************************************************)
(* A step that changes one goroutine keeps the invariant of the others.    *)
(***************************************************************************)
OK(h, c) == InStep(h, c) /\ Progress(h) /\ AsScreened(h) /\ Undisturbed(h)

(***************************************************************************)
(* If the goroutine that moved is in order, all are.                       *)
(***************************************************************************)
LEMMA OneHandler ==
  ASSUME HandlersOK, NEW q \in Request, Others(q), OtherCalls(q), OK(handler'[q], call'[q])
  PROVE  HandlersOK'
<1> SUFFICES ASSUME NEW r \in Request PROVE OK(handler'[r], call'[r])
  BY DEF HandlersOK, OK, InStep, Progress, AsScreened, Undisturbed
<1>1. CASE r = q
  BY <1>1
<1>2. CASE r # q
  BY <1>2 DEF Others, OtherCalls, HandlersOK, OK
<1> QED
  BY <1>1, <1>2

(***************************************************************************)
(* Every step keeps it: handler and tracker stay in step, status, cost and *)
(* what was sent are what the place in the handler says.                   *)
(***************************************************************************)
LEMMA HandlersKept == ASSUME HInv, [Next]_vars PROVE HandlersOK'
<1> USE DEF InStep, Progress, AsScreened, Undisturbed, Dropped
<1>0. /\ TInv /\ HandlersOK /\ handler \in [Request -> Handler] /\ T!TypeOK
      /\ \A r \in Request : OK(handler[r], call[r]) /\ handler[r] \in Handler
  BY TrackerFacts DEF HInv, TInv, OwnTypes, HandlersOK, OK
<1>1. CASE UNCHANGED <<handler, call>>
  BY <1>0, <1>1 DEF HandlersOK
<1>2. ASSUME NEW q \in Request, UNCHANGED call PROVE OtherCalls(q)
  BY <1>2 DEF OtherCalls
<1>3. ASSUME NEW q \in Request, NEW id \in Tenant \cup {NoTenant}, NEW b \in Body,
             Arrive(q, id, b) \/ ArriveLimited(q, id, b)
      PROVE  HandlersOK'
  <2>1. UNCHANGED call /\ handler[q].pc = "idle" /\ call[q].phase = "idle"
    BY <1>0, <1>3 DEF Arrive, ArriveLimited, trackerVars, At, OK
  <2>2. OK(handler'[q], call'[q])
    BY <1>0, <1>3, <2>1, ArrivedFacts DEF OK
  <2> QED
    BY <1>0, <1>2, <1>3, <2>1, <2>2, ArrivedFacts, OneHandler
<1>4. ASSUME NEW q \in Request, Disconnect(q) PROVE HandlersOK'
  <2>1. UNCHANGED call
    BY <1>4 DEF Disconnect, trackerVars
  <2>2. OK(handler'[q], call'[q])
    BY <1>0, <1>4, <2>1, DisconnectFacts DEF OK, SameRoute, SameText
  <2> QED
    BY <1>0, <1>2, <1>4, <2>1, <2>2, DisconnectFacts, OneHandler
<1>5. ASSUME Around PROVE UNCHANGED <<handler, call>>
  BY <1>5 DEF Around, T!Snapshot, T!RefreshPrices, T!NextDay
<1>6. ASSUME NEW q \in Request, Handle(q) \/ ResponseWritten(q) PROVE HandlersOK'
  <2>0. OK(handler[q], call[q]) /\ handler[q] \in Handler
    BY <1>0
  <2> SUFFICES Others(q) /\ OtherCalls(q) /\ OK(handler'[q], call'[q])
    BY <1>0, OneHandler
  <2>1. CASE BadBody(q) \/ BrokenByRedaction(q)
    <3>1. /\ handler[q].pc = "screen" /\ Reply(q, 400, "done") /\ UNCHANGED call
      BY <2>1 DEF BadBody, BrokenByRedaction, At, trackerVars
    <3> QED
      BY <1>0, <1>2, <2>0, <3>1, ReplyFacts DEF OK, SameRequest, SameRoute, SameText
  <2>2. CASE BlockedByGuard(q)
    <3>1. /\ handler[q].pc = "screen" /\ Reply(q, 403, "audit") /\ UNCHANGED call
      BY <2>2 DEF BlockedByGuard, At, trackerVars
    <3> QED
      BY <1>0, <1>2, <2>0, <3>1, ReplyFacts DEF OK, SameRequest, SameRoute, SameText
  <2>3. CASE Screened(q)
    <3>1. /\ ActionFor(handler[q].body.findings) # "block" /\ UNCHANGED call
          /\ ActionFor(handler[q].body.findings) = "redact" => Redacted(q) # "raw"
      BY <2>3 DEF Screened, Redacted, trackerVars
    <3> QED
      BY <1>0, <1>2, <2>0, <2>3, <3>1, ScreenedFacts DEF OK, SameRequest, SameRoute
  <2>4. CASE EstimateBudget(q)
    <3>1. /\ handler[q].pc = "estimate" /\ Goto(q, "allow")
          /\ OtherCalls(q) /\ call'[q].phase = "estimated"
          /\ call'[q].tenant = T!TenantOrDefault(handler[q].tenant)
      BY <1>0, <2>4, CallSteps DEF EstimateBudget, At
    <3>2. T!TenantOrDefault(handler[q].tenant) = handler[q].tenant
      BY <2>0, ModeFacts DEF T!TenantOrDefault, Handler
    <3> QED
      BY <1>0, <2>0, <3>1, <3>2, GotoFacts DEF OK, SameRequest, SameRoute, SameText
  <2>5. CASE BudgetError(q) \/ OverBudget(q)
    <3>1. /\ handler[q].pc = "allow" /\ (Reply(q, 500, "audit") \/ Reply(q, 402, "audit"))
          /\ OtherCalls(q) /\ call'[q].phase = "idle"
      BY <1>0, <2>5, CallSteps DEF BudgetError, OverBudget, At
    <3> QED
      BY <1>0, <2>0, <3>1, ReplyFacts DEF OK, SameRequest, SameRoute, SameText
  <2>6. CASE WithinBudget(q)
    <3>1. /\ handler[q].pc = "allow" /\ Goto(q, "route")
          /\ OtherCalls(q) /\ call'[q].phase = "admitted" /\ call'[q].tenant = call[q].tenant
      BY <1>0, <2>6, CallSteps DEF WithinBudget, At
    <3> QED
      BY <1>0, <2>0, <3>1, GotoFacts DEF OK, SameRequest, SameRoute, SameText
  <2>7. ASSUME NEW p, handler[q].pc = "route",
               ActionFor(handler[q].body.findings) = "redact"
        PROVE  "raw" \notin SentTo(q, p)
    BY <2>0, <2>7 DEF SentTo, Forwarded, OK
  <2>8. CASE ProviderFails(q)
    <3>1. handler[q].pc = "route" /\ UNCHANGED call
      BY <2>8 DEF ProviderFails, At, trackerVars
    <3> QED
      BY <1>0, <1>2, <2>0, <2>7, <2>8, <3>1, ProviderFacts DEF OK, SameRequest, SameText
  <2>9. ASSUME NEW s \in UpstreamStatus, ProviderAnswers(q, s)
        PROVE  Others(q) /\ OtherCalls(q) /\ OK(handler'[q], call'[q])
    <3>1. handler[q].pc = "route" /\ UNCHANGED call /\ ~Retryable(s)
      BY <2>9 DEF ProviderAnswers, At, trackerVars
    <3>2. s \notin {0, 502}
      BY <3>1, AnswerStatus
    <3> QED
      BY <1>0, <1>2, <2>0, <2>7, <2>9, <3>1, <3>2, ProviderFacts DEF OK, SameRequest, SameText
  <2>10. CASE AllProvidersFailed(q)
    <3>1. /\ handler[q].pc = "route" /\ Reply(q, 502, "audit")
          /\ handler[q].hop = Len(Candidates(handler[q].body.model))
          /\ OtherCalls(q) /\ call'[q].phase = "idle"
      BY <1>0, <2>10, CallSteps DEF AllProvidersFailed, At, CandidatesOf
    <3> QED
      BY <1>0, <2>0, <3>1, ReplyFacts DEF OK, SameRequest, SameRoute, SameText
  <2>11. ASSUME NEW c \in Completion, PriceResponse(q, c)
         PROVE  Others(q) /\ OtherCalls(q) /\ OK(handler'[q], call'[q])
    <3>1. /\ handler[q].pc = "usage" /\ Goto(q, "record")
          /\ OtherCalls(q) /\ call'[q].phase = "priced" /\ call'[q].tenant = call[q].tenant
      BY <1>0, <2>11, CallSteps DEF PriceResponse, At
    <3> QED
      BY <1>0, <2>0, <3>1, GotoFacts DEF OK, SameRequest, SameRoute, SameText
  <2>12. CASE RecordUsage(q) \/ RecordUsageFails(q) \/ RecordUsageUnread(q)
    <3>1. /\ handler[q].pc = "record" /\ \E c : Charged(q, c)
          /\ OtherCalls(q) /\ call'[q].phase = "idle"
      BY <1>0, <2>12, CallSteps DEF RecordUsage, RecordUsageFails, RecordUsageUnread, At
    <3> QED
      BY <1>0, <2>0, <3>1, ChargedFacts DEF OK, SameRequest, SameRoute, SameText
  <2>13. CASE RecordAudit(q) \/ RecordAuditFails(q)
    <3>1. handler[q].pc = "audit" /\ Goto(q, "done") /\ UNCHANGED call
      BY <2>13 DEF RecordAudit, RecordAuditFails, At, trackerVars
    <3> QED
      BY <1>0, <1>2, <2>0, <3>1, GotoFacts DEF OK, SameRequest, SameRoute, SameText
  <2>14. CASE WriteEnds(q)
    <3>1. handler[q].pc = "write" /\ Goto(q, "usage") /\ UNCHANGED call
      BY <2>14 DEF WriteEnds, ResponseWritten, WriteFails, At, trackerVars
    <3> QED
      BY <1>0, <1>2, <2>0, <3>1, GotoFacts DEF OK, SameRequest, SameRoute, SameText
  <2> QED
    BY <1>6, <2>1, <2>2, <2>3, <2>4, <2>5, <2>6, <2>8, <2>9, <2>10, <2>11, <2>12, <2>13, <2>14
       DEF Handle, WriteEnds
<1> QED
  BY <1>1, <1>3, <1>4, <1>5, <1>6 DEF Next, vars, trackerVars

(***************************************************************************)
(* No goroutine has done anything at the start.                            *)
(***************************************************************************)
LEMMA InitHandlers == Init => HInv
<1> SUFFICES ASSUME Init PROVE HandlersOK
  BY InitTypes DEF HInv
<1>1. ASSUME NEW q \in Request PROVE handler[q] = NewHandler /\ call[q].phase = "idle"
  BY DEF Init, T!Init, T!Idle
<1>2. /\ NewHandler.pc = "idle" /\ NewHandler.status = 0 /\ NewHandler.sent = {}
      /\ NewHandler.cost = 0 /\ ~NewHandler.answered /\ ~NewHandler.gone
  BY DEF NewHandler
<1> QED
  BY <1>1, <1>2 DEF HandlersOK, InStep, Progress, AsScreened, Undisturbed

(***************************************************************************)
(* Every goroutine is always in order, and the tracker and the types with  *)
(* it.                                                                     *)
(***************************************************************************)
LEMMA HandlersInv == Spec => []HInv
<1>1. HInv /\ [Next]_vars => HInv'
  BY TrackerKept, OwnTypesKept, HandlersKept DEF HInv, TInv
<1> QED
  BY <1>1, InitHandlers, PTL DEF Spec

(***************************************************************************)
(* Whatever fails and however often a request fails over: a provider sees  *)
(* a request only after guard and budget let it through, and sees only the *)
(* redacted form of one whose findings are to be redacted.                 *)
(***************************************************************************)
THEOREM Screening == Spec => []ForwardedAsScreened
<1>1. HInv => ForwardedAsScreened
  BY Strongest DEF HInv, HandlersOK, AsScreened, ForwardedAsScreened
<1> QED
  BY <1>1, HandlersInv, PTL

----------------------------------------------------------------------------
(***************************************************************************)
(* The audit log.                                                          *)
(***************************************************************************)
Clean == ~Faults /\ ~Disconnects
Written(h) == h.pc = "done" /\ ~Dropped(h)

(***************************************************************************)
(* Costs are set once, when usage is recorded, and belong to the tenant of *)
(* the request; a goroutine that has ended does nothing any more.          *)
(***************************************************************************)
CostKept(h, g) ==
  /\ g.cost = h.cost
  /\ h.cost # 0 => g.tenant = h.tenant
  /\ h.pc = "done" => g = h

(***************************************************************************)
(* Only the steps of recordUsage touch the ledger, the cost counter or the *)
(* cost of a request (chat.go recordUsage).                                *)
(***************************************************************************)
LEMMA CostSteps ==
  ASSUME HInv, [Next]_vars
  PROVE  \/ \E q \in Request : RecordUsage(q) \/ RecordUsageFails(q) \/ RecordUsageUnread(q)
         \/ /\ ledger' = ledger /\ metrics'.costMicro = metrics.costMicro
            /\ \A r \in Request : CostKept(handler[r], handler'[r])
<1> USE DEF CostKept
<1>0. /\ handler \in [Request -> Handler] /\ metrics \in Registry /\ T!TypeOK
      /\ \A r \in Request : handler[r] \in Handler /\ Progress(handler[r])
  BY TrackerFacts DEF HInv, TInv, OwnTypes, HandlersOK
<1>1. ASSUME NEW q \in Request, NEW id \in Tenant \cup {NoTenant}, NEW b \in Body,
             Arrive(q, id, b) \/ ArriveLimited(q, id, b)
      PROVE  /\ ledger' = ledger /\ metrics'.costMicro = metrics.costMicro
             /\ \A r \in Request : CostKept(handler[r], handler'[r])
  <2>1. handler[q].pc = "idle" /\ ledger' = ledger
    BY <1>1 DEF Arrive, ArriveLimited, At, trackerVars
  <2>2. handler[q].cost = 0
    BY <1>0, <2>1 DEF Progress, NewHandler
  <2>3. metrics'.costMicro = metrics.costMicro
    BY <1>0, <1>1 DEF Arrive, ArriveLimited, Registry
  <2> QED
    BY <1>0, <1>1, <2>1, <2>2, <2>3, ArrivedFacts DEF Others
<1>2. ASSUME NEW q \in Request, Disconnect(q)
      PROVE  /\ ledger' = ledger /\ metrics'.costMicro = metrics.costMicro
             /\ \A r \in Request : CostKept(handler[r], handler'[r])
  <2>1. handler[q].pc # "done" /\ ledger' = ledger /\ metrics' = metrics
    BY <1>2 DEF Disconnect, At, trackerVars
  <2> QED
    BY <1>0, <1>2, <2>1, DisconnectFacts DEF Others
<1>3. ASSUME Around
      PROVE  ledger' = ledger /\ metrics' = metrics /\ handler' = handler
  BY <1>3 DEF Around, T!Snapshot, T!RefreshPrices, T!NextDay, T!costVars
<1>4. ASSUME NEW q \in Request, Handle(q) \/ ResponseWritten(q),
             ~(RecordUsage(q) \/ RecordUsageFails(q) \/ RecordUsageUnread(q))
      PROVE  /\ ledger' = ledger /\ metrics'.costMicro = metrics.costMicro
             /\ \A r \in Request : CostKept(handler[r], handler'[r])
  <2>1. CASE BadBody(q) \/ BlockedByGuard(q) \/ BrokenByRedaction(q) \/ BudgetError(q)
             \/ OverBudget(q) \/ AllProvidersFailed(q)
    <3>1. /\ handler[q].pc \in {"screen", "allow", "route"} /\ ledger' = ledger
          /\ \E s \in Status, pc \in PC : Reply(q, s, pc)
      BY <2>1 DEF BadBody, BlockedByGuard, BrokenByRedaction, BudgetError, OverBudget,
                  AllProvidersFailed, At, trackerVars, T!AllowError, T!AllowReject, T!Abandon,
                  T!costVars, Status, PC
    <3>2. metrics' = metrics \/ RecordBlocked
      BY <2>1 DEF BadBody, BlockedByGuard, BrokenByRedaction, BudgetError, OverBudget,
                  AllProvidersFailed
    <3>3. metrics'.costMicro = metrics.costMicro
      BY <1>0, <3>2 DEF RecordBlocked, Registry
    <3>4. handler[q].cost = 0 /\ handler[q].pc # "done"
      BY <1>0, <3>1 DEF Progress
    <3> QED
      BY <1>0, <3>1, <3>3, <3>4, ReplyFacts DEF Others
  <2>2. CASE EstimateBudget(q) \/ WithinBudget(q) \/ WriteEnds(q)
             \/ (\E c \in Completion : PriceResponse(q, c)) \/ RecordAudit(q) \/ RecordAuditFails(q)
    <3>1. /\ handler[q].pc # "done" /\ ledger' = ledger /\ metrics' = metrics
          /\ \E pc \in PC : Goto(q, pc)
      BY <2>2 DEF EstimateBudget, WithinBudget, PriceResponse, RecordAudit, WriteEnds,
                  ResponseWritten, WriteFails, RecordAuditFails, At, trackerVars, T!Estimate, T!AllowAdmit, T!PriceUsage,
                  T!costVars, PC
    <3> QED
      BY <1>0, <3>1, GotoFacts DEF Others, SameRequest
  <2>3. CASE ProviderFails(q) \/ \E s \in UpstreamStatus : ProviderAnswers(q, s)
    <3>1. handler[q].pc = "route" /\ ledger' = ledger /\ CountFailover(q)
      BY <2>3 DEF ProviderFails, ProviderAnswers, At, trackerVars
    <3>2. metrics'.costMicro = metrics.costMicro
      BY <1>0, <3>1 DEF CountFailover, Registry
    <3>3. handler[q].cost = 0
      BY <1>0, <3>1 DEF Progress
    <3> QED
      BY <1>0, <2>3, <3>1, <3>2, <3>3, ProviderFacts DEF Others
  <2>4. CASE Screened(q)
    <3>1. ledger' = ledger /\ metrics' = metrics
      BY <2>4 DEF Screened, trackerVars
    <3> QED
      BY <1>0, <2>4, <3>1, ScreenedFacts DEF Others, SameRequest
  <2> QED
    BY <1>4, <2>1, <2>2, <2>3, <2>4 DEF Handle, WriteEnds
<1>5. CASE UNCHANGED vars
  BY <1>0, <1>5 DEF vars, trackerVars
<1> QED
  BY <1>1, <1>2, <1>3, <1>4, <1>5 DEF Next

(***************************************************************************)
(* Without faults and disconnects, only recordAudit touches the log, and   *)
(* only a request that it wrote of, or a 400, ends.                        *)
(***************************************************************************)
LEMMA AuditSteps ==
  ASSUME HInv, [Next]_vars, Clean
  PROVE  \/ \E q \in Request : RecordAudit(q)
         \/ /\ audit' = audit
            /\ \A r \in Request : /\ Written(handler'[r]) <=> Written(handler[r])
                                  /\ Written(handler[r]) => handler'[r] = handler[r]
<1> USE DEF Written, Dropped
<1>0. /\ handler \in [Request -> Handler]
      /\ \A r \in Request : handler[r] \in Handler /\ Progress(handler[r]) /\ ~handler[r].gone
  BY DEF HInv, TInv, OwnTypes, HandlersOK, Undisturbed, Clean
<1>1. ASSUME NEW q \in Request, Others(q), handler[q].pc # "done", ~Written(handler'[q])
      PROVE  \A r \in Request : /\ Written(handler'[r]) <=> Written(handler[r])
                                /\ Written(handler[r]) => handler'[r] = handler[r]
  BY <1>1 DEF Others
<1>2. ASSUME NEW q \in Request, NEW id \in Tenant \cup {NoTenant}, NEW b \in Body,
             Arrive(q, id, b) \/ ArriveLimited(q, id, b)
      PROVE  audit' = audit /\ Others(q) /\ handler[q].pc # "done" /\ ~Written(handler'[q])
  <2>1. audit' = audit /\ handler[q].pc # "done"
    BY <1>2 DEF Arrive, ArriveLimited, At
  <2>2. Others(q) /\ handler'[q].pc \in {"screen", "audit"}
    BY <1>0, <1>2, ArrivedFacts
  <2> QED
    BY <2>1, <2>2
<1>3. ASSUME NEW q \in Request, Handle(q) \/ ResponseWritten(q), ~RecordAudit(q)
      PROVE  audit' = audit /\ Others(q) /\ handler[q].pc # "done" /\ ~Written(handler'[q])
  <2>1. CASE BadBody(q) \/ BrokenByRedaction(q)
    <3>1. audit' = audit /\ handler[q].pc = "screen" /\ Reply(q, 400, "done")
      BY <2>1 DEF BadBody, BrokenByRedaction, At
    <3> QED
      BY <1>0, <3>1, ReplyFacts DEF SameRoute, Progress
  <2>2. CASE BlockedByGuard(q) \/ BudgetError(q) \/ OverBudget(q) \/ AllProvidersFailed(q)
    <3>1. /\ audit' = audit /\ handler[q].pc # "done"
          /\ \E s \in {402, 403, 500, 502} : Reply(q, s, "audit")
      BY <2>2 DEF BlockedByGuard, BudgetError, OverBudget, AllProvidersFailed, At
    <3> QED
      BY <1>0, <3>1, ReplyFacts
  <2>3. CASE EstimateBudget(q) \/ WithinBudget(q) \/ WriteEnds(q)
             \/ (\E c \in Completion : PriceResponse(q, c))
    <3>1. /\ audit' = audit /\ handler[q].pc # "done"
          /\ \E pc \in {"usage", "allow", "route", "record"} : Goto(q, pc)
      BY <2>3 DEF EstimateBudget, WithinBudget, PriceResponse, WriteEnds, ResponseWritten,
                  WriteFails, At
    <3> QED
      BY <1>0, <3>1, GotoFacts
  <2>4. CASE ProviderFails(q) \/ \E s \in UpstreamStatus : ProviderAnswers(q, s)
    BY <1>0, <2>4, ProviderFacts DEF ProviderFails, ProviderAnswers, At
  <2>5. CASE RecordUsage(q) \/ RecordUsageFails(q) \/ RecordUsageUnread(q)
    <3>1. audit' = audit /\ handler[q].pc # "done" /\ \E c : Charged(q, c)
      BY <2>5 DEF RecordUsage, RecordUsageFails, RecordUsageUnread, Charged, At
    <3> QED
      BY <1>0, <3>1, ChargedFacts
  <2>6. ~RecordAuditFails(q)
    BY <1>0 DEF RecordAuditFails, Clean
  <2>7. CASE Screened(q)
    BY <1>0, <2>7, ScreenedFacts DEF Screened
  <2> QED
    BY <1>3, <2>1, <2>2, <2>3, <2>4, <2>5, <2>6, <2>7 DEF Handle, WriteEnds
<1>4. CASE UNCHANGED vars \/ Around
  BY <1>4 DEF vars, Around
<1>5. \A q \in Request : ~Disconnect(q)
  BY DEF Disconnect, Clean
<1> QED
  BY <1>1, <1>2, <1>3, <1>4, <1>5 DEF Next

(***************************************************************************)
(* Behind AuditTrail: a request that has ended, other than as a bad one,   *)
(* has exactly one event, the one recordAudit writes for it; any other has *)
(* none.                                                                   *)
(***************************************************************************)
AuditOK ==
  \A q \in Request :
    IF Written(handler[q])
      THEN \E i \in 1..Len(audit) : EventsOf(q) = {i} /\ audit[i] = AuditEvent(q)
      ELSE EventsOf(q) = {}

(***************************************************************************)
(* With no failing store and no client gone, every step keeps the audit    *)
(* log in order: recordAudit is the only one to write it, once a request,  *)
(* with what the request came to (audit.go recordAudit).                   *)
(***************************************************************************)
LEMMA AuditKept == ASSUME HInv, [Next]_vars, Clean, AuditOK PROVE AuditOK'
<1>0. /\ handler \in [Request -> Handler] /\ audit \in Seq(Event)
      /\ \A r \in Request : Progress(handler[r])
  BY DEF HInv, TInv, OwnTypes, HandlersOK
<1>1. ASSUME audit' = audit, NEW r \in Request, Written(handler'[r]) <=> Written(handler[r]),
             Written(handler[r]) => handler'[r] = handler[r]
      PROVE  IF Written(handler[r])'
               THEN \E i \in 1..Len(audit') : EventsOf(r)' = {i} /\ audit'[i] = AuditEvent(r)'
               ELSE EventsOf(r)' = {}
  <2>1. EventsOf(r)' = EventsOf(r)
    BY <1>1 DEF EventsOf
  <2>2. Written(handler[r]) => AuditEvent(r)' = AuditEvent(r)
    BY <1>1 DEF AuditEvent
  <2>3. Written(handler[r])' <=> Written(handler[r])
    BY <1>1 DEF Written
  <2> QED
    BY <1>1, <2>1, <2>2, <2>3 DEF AuditOK
<1>2. ASSUME NEW q \in Request, RecordAudit(q), NEW r \in Request
      PROVE  IF Written(handler[r])'
               THEN \E i \in 1..Len(audit') : EventsOf(r)' = {i} /\ audit'[i] = AuditEvent(r)'
               ELSE EventsOf(r)' = {}
  <2> DEFINE n == Len(audit) + 1
  <2>1. /\ Len(audit') = n /\ n \in Nat /\ n \in 1..n /\ audit'[n] = AuditEvent(q)
        /\ \A i \in 1..Len(audit) : audit'[i] = audit[i]
        /\ 1..n = 1..Len(audit) \cup {n} /\ n \notin 1..Len(audit)
    BY <1>0, <1>2 DEF RecordAudit
  <2>2. /\ handler[q].pc = "audit" /\ handler'[q].pc = "done" /\ Others(q)
        /\ handler'[q].status = handler[q].status /\ handler'[q].tenant = handler[q].tenant
        /\ handler'[q].cost = handler[q].cost /\ handler'[q].answered = handler[q].answered
    BY <1>0, <1>2, GotoFacts DEF RecordAudit, At, SameRequest, SameRoute
  <2>3. AuditEvent(q).request = q
    BY DEF AuditEvent
  <2> HIDE DEF n
  <2>4. CASE r = q
    <3>1. EventsOf(q) = {} /\ Written(handler[q])' /\ AuditEvent(q)' = AuditEvent(q)
      <4>1. ~Written(handler[q])
        BY <2>2 DEF Written
      <4>2. Written(handler[q])'
        BY <1>0, <2>2 DEF Written, Dropped, Progress
      <4>3. AuditEvent(q)' = AuditEvent(q)
        BY <2>2 DEF AuditEvent
      <4> QED
        BY <4>1, <4>2, <4>3 DEF AuditOK
    <3>2. EventsOf(q)' = {n}
      BY <2>1, <2>3, <3>1 DEF EventsOf
    <3> QED
      BY <2>1, <2>4, <3>1, <3>2
  <2>5. CASE r # q
    <3>1. handler'[r] = handler[r]
      BY <2>2, <2>5 DEF Others
    <3>2. EventsOf(r)' = EventsOf(r)
      BY <2>1, <2>3, <2>5 DEF EventsOf
    <3>3. AuditEvent(r)' = AuditEvent(r)
      BY <3>1 DEF AuditEvent
    <3> QED
      BY <2>1, <3>1, <3>2, <3>3 DEF AuditOK
  <2> QED
    BY <2>4, <2>5
<1> QED
  BY <1>1, <1>2, AuditSteps DEF AuditOK

(***************************************************************************)
(* As long as SQLite works and clients stay, every request that got past   *)
(* decoding is in the audit log exactly once when it is done, with its     *)
(* tenant and the status that its client was sent; the gateway's own 400   *)
(* is not in it, a relayed one is.                                         *)
(***************************************************************************)
THEOREM AuditTheorem == Clean => (Spec => []AuditTrail)
<1> SUFFICES ASSUME Clean PROVE Spec => []AuditTrail
  OBVIOUS
<1>1. Init => AuditOK
  BY DEF Init, AuditOK, NewHandler, Written, EventsOf
<1>2. HInv /\ AuditOK /\ [Next]_vars => AuditOK'
  BY AuditKept
<1>3. HInv /\ AuditOK => AuditTrail
  BY DEF AuditOK, AuditTrail, Written, Dropped, Discarded, At
<1> QED
  BY <1>1, <1>2, <1>3, HandlersInv, PTL DEF Spec

----------------------------------------------------------------------------
(***************************************************************************)
(* Ledger and audit log.                                                   *)
(***************************************************************************)
Owed(q, t) == IF At(q, "audit") /\ handler[q].tenant = t THEN handler[q].cost ELSE 0
Paid(i, t) == IF audit[i].tenant = t THEN audit[i].cost ELSE 0

(***************************************************************************)
(* What recordAudit adds to sums over the audit log.                       *)
(***************************************************************************)
LEMMA RecordAuditFacts ==
  ASSUME HInv, NEW q \in Request, RecordAudit(q)
  PROVE  /\ Others(q) /\ handler[q].pc = "audit" /\ handler'[q].pc = "done"
         /\ handler'[q].status = handler[q].status /\ handler'[q].tenant = handler[q].tenant
         /\ handler'[q].cost = handler[q].cost /\ ~Dropped(handler[q])
         /\ handler'[q].answered = handler[q].answered
         /\ Len(audit) \in Nat /\ Len(audit') = Len(audit) + 1
         /\ audit'[Len(audit) + 1] = AuditEvent(q)
         /\ \A i \in 1..Len(audit) : audit'[i] = audit[i]
         /\ \A i \in 1..Len(audit) : audit[i] \in Event
         /\ AuditEvent(q).tenant = handler[q].tenant /\ AuditEvent(q).cost = handler[q].cost
         /\ AuditEvent(q).status = handler[q].status
         /\ UNCHANGED trackerVars /\ UNCHANGED metrics
<1>0. handler \in [Request -> Handler] /\ audit \in Seq(Event) /\ Progress(handler[q])
  BY DEF HInv, TInv, OwnTypes, HandlersOK
<1>1. /\ Others(q) /\ handler[q].pc = "audit" /\ handler'[q].pc = "done"
      /\ handler'[q].status = handler[q].status /\ handler'[q].tenant = handler[q].tenant
      /\ handler'[q].cost = handler[q].cost /\ ~Dropped(handler[q])
         /\ handler'[q].answered = handler[q].answered
  BY <1>0, GotoFacts DEF RecordAudit, At, SameRequest, SameRoute, Progress
<1>2. /\ Len(audit) \in Nat /\ Len(audit') = Len(audit) + 1
      /\ audit'[Len(audit) + 1] = AuditEvent(q)
      /\ \A i \in 1..Len(audit) : audit'[i] = audit[i]
      /\ \A i \in 1..Len(audit) : audit[i] \in Event
  BY <1>0 DEF RecordAudit
<1>3. /\ AuditEvent(q).tenant = handler[q].tenant /\ AuditEvent(q).cost = handler[q].cost
      /\ AuditEvent(q).status = handler[q].status
  BY DEF AuditEvent
<1> QED
  BY <1>1, <1>2, <1>3 DEF RecordAudit

(***************************************************************************)
(* An audit event adds the cost of its request to the total of its tenant  *)
(* and nothing to any other.                                               *)
(***************************************************************************)
LEMMA AuditTotalStep ==
  ASSUME HInv, NEW q \in Request, RecordAudit(q), NEW t \in Tenant
  PROVE  /\ AuditTotal(t) \in Int
         /\ AuditTotal(t)' = AuditTotal(t) + IF handler[q].tenant = t THEN handler[q].cost ELSE 0
<1> DEFINE f == [i \in 1..Len(audit) |-> Paid(i, t)]
           g == [i \in 1..(Len(audit) + 1) |-> IF audit'[i].tenant = t THEN audit'[i].cost ELSE 0]
<1>0. handler[q].cost \in Nat
  BY DEF HInv, TInv, OwnTypes, Handler
<1>1. AuditTotal(t) = SumFunction(f) /\ AuditTotal(t)' = SumFunction(g)
  BY RecordAuditFacts DEF AuditTotal, Paid
<1>2. \A i \in 1..Len(audit) : Paid(i, t) \in Int
  BY RecordAuditFacts DEF Paid, Event
<1>3. f \in [1..Len(audit) -> Int]
  BY <1>2
<1>4. g[Len(audit) + 1] = IF handler[q].tenant = t THEN handler[q].cost ELSE 0
  BY RecordAuditFacts
<1>5. \A i \in 1..Len(audit) : g[i] = f[i]
  BY RecordAuditFacts DEF Paid
<1>6. ASSUME NEW i \in 1..(Len(audit) + 1) PROVE g[i] \in Int
  <2>1. Len(audit) \in Nat
    BY RecordAuditFacts
  <2>2. CASE i = Len(audit) + 1
    BY <1>0, <1>4, <2>2
  <2>3. CASE i \in 1..Len(audit)
    BY <1>2, <1>5, <2>3
  <2> HIDE DEF g
  <2> QED
    BY <2>1, <2>2, <2>3
<1>7. g \in [1..(Len(audit) + 1) -> Int]
  BY <1>6
<1>8. Len(audit) \in Nat /\ IsFiniteSet(1..Len(audit))
  BY RecordAuditFacts, FS_Interval
<1> HIDE DEF f, g
<1>9. SumFunction(g) = SumFunction(f) + g[Len(audit) + 1] /\ SumFunction(f) \in Int
  BY <1>3, <1>5, <1>7, <1>8, SumExtend, SumType
<1> QED
  BY <1>1, <1>4, <1>9

(***************************************************************************)
(* What is about to be audited, when one request's share of it changes.    *)
(***************************************************************************)
LEMMA PendingStep ==
  ASSUME HInv, HInv', NEW q \in Request, Others(q), NEW t \in Tenant
  PROVE  /\ PendingTotal(t) \in Int
         /\ PendingTotal(t)' = PendingTotal(t) + (Owed(q, t)' - Owed(q, t))
<1> DEFINE f == [r \in Request |-> Owed(r, t)]
           g == [r \in Request |-> Owed(r, t)']
<1>1. PendingTotal(t) = SumFunction(f) /\ PendingTotal(t)' = SumFunction(g)
  BY DEF PendingTotal, Owed, At
<1>2. f \in [Request -> Int]
  BY DEF HInv, TInv, OwnTypes, Handler, Owed
<1>3. g \in [Request -> Int]
  BY DEF HInv, TInv, OwnTypes, Handler, Owed
<1>4. \A r \in Request : r # q => g[r] = f[r]
  BY DEF Others, Owed, At
<1>5. g[q] = Owed(q, t)' /\ f[q] = Owed(q, t)
  OBVIOUS
<1> HIDE DEF f, g
<1>6. SumFunction(g) = SumFunction(f) + (g[q] - f[q]) /\ SumFunction(f) \in Int
  BY <1>2, <1>3, <1>4, ModeFacts, SumUpdate, SumType
<1> QED
  BY <1>1, <1>5, <1>6

(***************************************************************************)
(* What AddSpend adds to a tenant's charges of all days.                   *)
(***************************************************************************)
LEMMA LedgerStep ==
  ASSUME HInv, NEW q \in Request, call[q].phase = "priced", ledger' = T!AddSpend(ledger, q),
         NEW t \in Tenant
  PROVE  LedgerTotal(t)' = LedgerTotal(t) + IF call[q].tenant = t THEN call[q].cost ELSE 0
<1>0. /\ ledger \in [Tenant -> [T!Day -> Nat]] /\ today \in T!Day
      /\ call[q].tenant \in Tenant /\ call[q].cost \in Nat
  BY TrackerFacts DEF HInv, TInv, T!TypeOK, T!Call
<1>1. IsFiniteSet(T!Day)
  BY DaysFinite
<1> DEFINE f == ledger[t]
           g == ledger'[t]
<1>2. f \in [T!Day -> Int]
  BY <1>0
<1>3. CASE call[q].tenant = t
  <2>1. g = [f EXCEPT ![today] = @ + call[q].cost]
    BY <1>0, <1>3 DEF T!AddSpend
  <2>2. /\ g \in [T!Day -> Int] /\ g[today] - f[today] = call[q].cost
        /\ \A d \in T!Day : d # today => g[d] = f[d]
    BY <1>0, <2>1
  <2> HIDE DEF f, g
  <2>3. SumFunction(g) = SumFunction(f) + (g[today] - f[today])
    BY <1>0, <1>1, <1>2, <2>2, SumUpdate
  <2> QED
    BY <1>3, <2>2, <2>3 DEF LedgerTotal, f, g
<1>4. CASE call[q].tenant # t
  <2>1. g = f
    BY <1>0, <1>4 DEF T!AddSpend
  <2>2. SumFunction(f) \in Int
    BY <1>1, <1>2, SumType
  <2> QED
    BY <1>4, <2>1, <2>2 DEF LedgerTotal
<1> QED
  BY <1>3, <1>4

(***************************************************************************)
(* Nobody's share of what is about to be audited changes where no cost and *)
(* no audit event is written.                                              *)
(***************************************************************************)
LEMMA OwedKept ==
  ASSUME HInv, HInv', NEW r \in Request, NEW t \in Tenant,
         CostKept(handler[r], handler'[r]), Written(handler'[r]) <=> Written(handler[r])
  PROVE  Owed(r, t)' = Owed(r, t)
<1>1. /\ handler[r] \in Handler /\ handler'[r] \in Handler
      /\ Progress(handler[r]) /\ Progress(handler'[r])
  <2>1. handler \in [Request -> Handler] /\ Progress(handler[r])
    BY DEF HInv, TInv, OwnTypes, HandlersOK
  <2>2. handler' \in [Request -> Handler] /\ Progress(handler'[r])
    BY DEF HInv, TInv, OwnTypes, HandlersOK, Progress
  <2> QED
    BY <2>1, <2>2
<1>2. CASE handler[r].cost = 0
  BY <1>2 DEF Owed, CostKept
<1>3. CASE handler[r].cost # 0
  <2>1. /\ handler'[r].cost = handler[r].cost /\ handler'[r].tenant = handler[r].tenant
        /\ handler[r].answered /\ handler'[r].answered
    BY <1>1, <1>3 DEF CostKept, Progress
  <2>2. handler[r].pc \in {"audit", "done"}
    BY <1>1, <1>3 DEF Progress, Handler, PC, NewHandler
  <2>3. handler'[r].pc \in {"audit", "done"}
    BY <1>1, <1>3, <2>1 DEF Progress, Handler, PC, NewHandler
  <2>4. handler'[r].pc = handler[r].pc
    BY <2>1, <2>2, <2>3 DEF Written, Dropped
  <2> QED
    BY <2>1, <2>4 DEF Owed, At
<1> QED
  BY <1>2, <1>3

(***************************************************************************)
(* Without faults and disconnects usage is recorded by RecordUsage alone.  *)
(***************************************************************************)
LEMMA RecordUsageFacts ==
  ASSUME HInv, Clean, NEW q \in Request,
         RecordUsage(q) \/ RecordUsageFails(q) \/ RecordUsageUnread(q)
  PROVE  /\ RecordUsage(q) /\ call[q].phase = "priced" /\ call[q].tenant = handler[q].tenant
         /\ Others(q) /\ SameRequest(handler'[q], handler[q])
         /\ handler[q].pc = "record" /\ handler'[q].pc = "audit"
         /\ handler'[q].cost = call[q].cost /\ handler[q].cost = 0
         /\ call[q].cost \in Nat /\ audit' = audit
         /\ Persistent => ledger' = T!AddSpend(ledger, q)
<1>0. /\ handler \in [Request -> Handler] /\ InStep(handler[q], call[q])
      /\ Progress(handler[q]) /\ ~handler[q].gone /\ TP!IInv
  BY DEF HInv, TInv, OwnTypes, HandlersOK, Undisturbed, Clean
<1>1. RecordUsage(q)
  BY <1>0 DEF RecordUsageFails, RecordUsageUnread, Clean
<1>2. /\ handler[q].pc = "record" /\ Charged(q, call[q].cost)
      /\ Persistent => ledger' = T!AddSpend(ledger, q)
  BY <1>1 DEF RecordUsage, At, T!Record
<1>3. /\ Others(q) /\ SameRequest(handler'[q], handler[q])
      /\ handler'[q].pc = "audit" /\ handler'[q].cost = call[q].cost /\ audit' = audit
  BY <1>0, <1>2, ChargedFacts DEF Charged
<1>4. call[q].phase = "priced" /\ call[q].tenant = handler[q].tenant /\ handler[q].cost = 0
  BY <1>0, <1>2 DEF InStep, Progress
<1>5. call[q].cost \in Nat
  BY <1>0, <1>4, FallbackType
<1> QED
  BY <1>1, <1>2, <1>3, <1>4, <1>5

(***************************************************************************)
(* What the ledger holds for a tenant is an integer.                       *)
(***************************************************************************)
LEMMA LedgerType ==
  ASSUME HInv, NEW t \in Tenant
  PROVE  LedgerTotal(t) \in Int
<1>1. ledger[t] \in [T!Day -> Int]
  BY TrackerFacts DEF HInv, TInv, T!TypeOK
<1>2. IsFiniteSet(T!Day)
  BY DaysFinite
<1> QED
  BY <1>1, <1>2, SumType DEF LedgerTotal

(***************************************************************************)
(* What the audit log holds for a tenant is an integer.                    *)
(***************************************************************************)
LEMMA AuditTotalType ==
  ASSUME HInv, NEW t \in Tenant
  PROVE  AuditTotal(t) \in Int
<1> DEFINE f == [i \in 1..Len(audit) |-> IF audit[i].tenant = t THEN audit[i].cost ELSE 0]
<1>1. audit \in Seq(Event)
  BY DEF HInv, TInv, OwnTypes
<1>2. Len(audit) \in Nat /\ \A i \in 1..Len(audit) : audit[i] \in Event
  BY <1>1
<1>3. \A i \in 1..Len(audit) : audit[i].cost \in Int
  BY <1>2 DEF Event
<1>4. f \in [1..Len(audit) -> Int]
  BY <1>3
<1>5. IsFiniteSet(1..Len(audit))
  BY <1>2, FS_Interval
<1> HIDE DEF f
<1> QED
  BY <1>4, <1>5, SumType DEF AuditTotal, f

(***************************************************************************)
(* Every step keeps ledger and audit log reconciled: what recordUsage adds *)
(* to the ledger is owed to the log until recordAudit writes it.           *)
(***************************************************************************)
LEMMA ReconciledKept ==
  ASSUME HInv, [Next]_vars, Clean, Persistent, Reconciled
  PROVE  Reconciled'
<1>0. HInv'
  BY TrackerKept, OwnTypesKept, HandlersKept DEF HInv, TInv
<1> SUFFICES ASSUME NEW t \in Tenant
             PROVE  LedgerTotal(t)' = AuditTotal(t)' + PendingTotal(t)'
  BY DEF Reconciled
<1>1. /\ LedgerTotal(t) = AuditTotal(t) + PendingTotal(t)
      /\ LedgerTotal(t) \in Int /\ AuditTotal(t) \in Int
  BY LedgerType, AuditTotalType DEF Reconciled
<1>2. ASSUME NEW q \in Request,
             RecordUsage(q) \/ RecordUsageFails(q) \/ RecordUsageUnread(q)
      PROVE  LedgerTotal(t)' = AuditTotal(t)' + PendingTotal(t)'
  <2>1. /\ call[q].phase = "priced" /\ call[q].tenant = handler[q].tenant
        /\ Others(q) /\ handler'[q].tenant = handler[q].tenant
        /\ handler[q].pc = "record" /\ handler'[q].pc = "audit"
        /\ handler'[q].cost = call[q].cost /\ call[q].cost \in Nat /\ audit' = audit
        /\ ledger' = T!AddSpend(ledger, q)
    BY <1>2, RecordUsageFacts DEF SameRequest
  <2>2. LedgerTotal(t)' = LedgerTotal(t) + IF call[q].tenant = t THEN call[q].cost ELSE 0
    BY <2>1, LedgerStep
  <2>3. /\ PendingTotal(t)' = PendingTotal(t) + (Owed(q, t)' - Owed(q, t))
        /\ PendingTotal(t) \in Int
    BY <1>0, <2>1, PendingStep
  <2>4. Owed(q, t) = 0 /\ Owed(q, t)' = IF call[q].tenant = t THEN call[q].cost ELSE 0
    BY <2>1 DEF Owed, At
  <2>5. AuditTotal(t)' = AuditTotal(t)
    BY <2>1 DEF AuditTotal
  <2> QED
    BY <1>1, <2>1, <2>2, <2>3, <2>4, <2>5
<1>3. ASSUME NEW q \in Request, RecordAudit(q)
      PROVE  LedgerTotal(t)' = AuditTotal(t)' + PendingTotal(t)'
  <2>1. /\ Others(q) /\ handler[q].pc = "audit" /\ handler'[q].pc = "done"
        /\ UNCHANGED trackerVars /\ handler[q].cost \in Nat
    BY <1>3, RecordAuditFacts DEF HInv, TInv, OwnTypes, Handler
  <2>2. AuditTotal(t)' = AuditTotal(t) + IF handler[q].tenant = t THEN handler[q].cost ELSE 0
    BY <1>3, AuditTotalStep
  <2>3. /\ PendingTotal(t)' = PendingTotal(t) + (Owed(q, t)' - Owed(q, t))
        /\ PendingTotal(t) \in Int
    BY <1>0, <2>1, PendingStep
  <2>4. Owed(q, t)' = 0 /\ Owed(q, t) = IF handler[q].tenant = t THEN handler[q].cost ELSE 0
    BY <2>1 DEF Owed, At
  <2>5. LedgerTotal(t)' = LedgerTotal(t)
    BY <2>1 DEF LedgerTotal, trackerVars
  <2> QED
    BY <1>1, <2>1, <2>2, <2>3, <2>4, <2>5
<1>4. ASSUME ledger' = ledger, audit' = audit,
             \A r \in Request : CostKept(handler[r], handler'[r]),
             \A r \in Request : Written(handler'[r]) <=> Written(handler[r])
      PROVE  LedgerTotal(t)' = AuditTotal(t)' + PendingTotal(t)'
  <2>1. \A r \in Request : Owed(r, t)' = Owed(r, t)
    BY <1>0, <1>4, OwedKept
  <2>2. PendingTotal(t)' = PendingTotal(t)
    <3>1. [r \in Request |-> Owed(r, t)]' = [r \in Request |-> Owed(r, t)]
      BY <2>1
    <3>2. PendingTotal(t) = SumFunction([r \in Request |-> Owed(r, t)])
      BY DEF PendingTotal, Owed
    <3>3. PendingTotal(t)' = SumFunction([r \in Request |-> Owed(r, t)'])
      BY DEF PendingTotal, Owed, At
    <3> QED
      BY <3>1, <3>2, <3>3
  <2>3. LedgerTotal(t)' = LedgerTotal(t) /\ AuditTotal(t)' = AuditTotal(t)
    BY <1>4 DEF LedgerTotal, AuditTotal
  <2> QED
    BY <1>1, <2>2, <2>3
<1> QED
  BY <1>2, <1>3, <1>4, CostSteps, AuditSteps

(***************************************************************************)
(* With the ledger in SQLite and as long as that works and clients stay,   *)
(* what a tenant was charged is at every moment what its audit events and  *)
(* those about to be written say, to the unit: no charge is lost, doubled  *)
(* or booked at a price the audit does not tell, whatever the interleaving *)
(* with price refreshes and with midnight.                                 *)
(***************************************************************************)
THEOREM ReconciledTheorem == Persistent /\ Clean => (Spec => []Reconciled)
<1> SUFFICES ASSUME Persistent, Clean PROVE Spec => []Reconciled
  OBVIOUS
<1>1. ASSUME Init, NEW t \in Tenant
      PROVE  LedgerTotal(t) = AuditTotal(t) + PendingTotal(t)
  <2>1. LedgerTotal(t) = 0
    <3>1. DOMAIN ledger[t] = T!Day /\ \A d \in T!Day : ledger[t][d] = 0
      BY <1>1 DEF Init, T!Init, T!NoSpend
    <3>2. IsFiniteSet(T!Day)
      BY DaysFinite
    <3> QED
      BY <3>1, <3>2, SumNothing DEF LedgerTotal
  <2>2. AuditTotal(t) = 0
    <3> DEFINE f == [i \in 1..Len(audit) |-> IF audit[i].tenant = t THEN audit[i].cost ELSE 0]
    <3>1. DOMAIN f = {} /\ \A i \in {} : f[i] = 0
      BY <1>1 DEF Init
    <3>2. IsFiniteSet({})
      BY FS_EmptySet
    <3> HIDE DEF f
    <3> QED
      BY <3>1, <3>2, SumNothing DEF AuditTotal, f
  <2>3. PendingTotal(t) = 0
    <3> DEFINE f == [r \in Request |-> Owed(r, t)]
    <3>1. DOMAIN f = Request /\ \A r \in Request : f[r] = 0
      BY <1>1 DEF Init, Owed, At, NewHandler
    <3>2. PendingTotal(t) = SumFunction(f)
      BY DEF PendingTotal, Owed
    <3> HIDE DEF f
    <3> QED
      BY <3>1, <3>2, ModeFacts, SumNothing
  <2> QED
    BY <2>1, <2>2, <2>3
<1>2. Init => Reconciled
  BY <1>1 DEF Reconciled
<1>3. HInv /\ Reconciled /\ [Next]_vars => Reconciled'
  BY ReconciledKept
<1> QED
  BY <1>2, <1>3, HandlersInv, PTL DEF Spec

----------------------------------------------------------------------------
(***************************************************************************)
(* What is left of AuditTrail when SQLite fails or clients go: a request   *)
(* may be missing from the log, but it is never in it twice, or before it  *)
(* has ended, or for the gateway's own 400, and its event tells the        *)
(* tenant, the status and the cost it ended with (audit.go recordAudit).   *)
(***************************************************************************)
AuditHonest ==
  \A q \in Request :
    EventsOf(q) # {} =>
      /\ Written(handler[q])
      /\ \E i \in 1..Len(audit) : EventsOf(q) = {i} /\ audit[i] = AuditEvent(q)

(***************************************************************************)
(* A goroutine that has ended does nothing any more, and only recordAudit  *)
(* writes the log.                                                         *)
(***************************************************************************)
LEMMA EndedStays ==
  ASSUME HInv, [Next]_vars
  PROVE  /\ \A r \in Request : handler[r].pc = "done" => handler'[r] = handler[r]
         /\ audit' = audit \/ \E q \in Request : RecordAudit(q)
<1>0. handler \in [Request -> Handler]
  BY DEF HInv, TInv, OwnTypes
<1>1. \A r \in Request : handler[r].pc = "done" => handler'[r] = handler[r]
  <2>1. CASE \E q \in Request : RecordUsage(q) \/ RecordUsageFails(q) \/ RecordUsageUnread(q)
    BY <1>0, <2>1, ChargedFacts DEF RecordUsage, RecordUsageFails, RecordUsageUnread, At, Others
  <2>2. CASE \A r \in Request : CostKept(handler[r], handler'[r])
    BY <2>2 DEF CostKept
  <2> QED
    BY <2>1, <2>2, CostSteps
<1>2. ASSUME NEW q \in Request, Handle(q) \/ ResponseWritten(q), ~RecordAudit(q)
      PROVE  audit' = audit
  BY <1>2 DEF Handle, ResponseWritten, WriteFails, BadBody, BlockedByGuard, BrokenByRedaction, Screened, EstimateBudget,
              BudgetError, OverBudget, WithinBudget, ProviderFails, ProviderAnswers,
              AllProvidersFailed, PriceResponse, RecordUsage, RecordUsageFails,
              RecordUsageUnread, Charged, RecordAuditFails
<1>3. ASSUME NEW q \in Request, NEW id, NEW b,
             Arrive(q, id, b) \/ ArriveLimited(q, id, b) \/ Disconnect(q)
      PROVE  audit' = audit
  BY <1>3 DEF Arrive, ArriveLimited, Disconnect
<1>4. CASE Around \/ UNCHANGED vars
  BY <1>4 DEF Around, vars
<1>5. audit' = audit \/ \E q \in Request : RecordAudit(q)
  BY <1>2, <1>3, <1>4 DEF Next
<1> QED
  BY <1>1, <1>5

(***************************************************************************)
(* The audit log is honest whatever fails, for any number of requests.     *)
(***************************************************************************)
THEOREM HonestTheorem == Spec => []AuditHonest
<1>1. Init => AuditHonest
  BY DEF Init, AuditHonest, EventsOf
<1>2. HInv /\ AuditHonest /\ [Next]_vars => AuditHonest'
  <2> SUFFICES ASSUME HInv, AuditHonest, [Next]_vars, NEW r \in Request, EventsOf(r)' # {}
               PROVE  /\ Written(handler[r])'
                      /\ \E i \in 1..Len(audit') : EventsOf(r)' = {i} /\ audit'[i] = AuditEvent(r)'
    BY DEF AuditHonest
  <2>1. ASSUME EventsOf(r)' = EventsOf(r), Len(audit) \in Nat, Len(audit') \in Nat,
               Len(audit) <= Len(audit'), \A i \in 1..Len(audit) : audit'[i] = audit[i]
        PROVE  /\ Written(handler[r])'
               /\ \E i \in 1..Len(audit') : EventsOf(r)' = {i} /\ audit'[i] = AuditEvent(r)'
    <3>1. PICK i \in 1..Len(audit) : EventsOf(r) = {i} /\ audit[i] = AuditEvent(r)
      BY <2>1 DEF AuditHonest
    <3>2. Written(handler[r]) /\ handler'[r] = handler[r]
      BY <2>1, EndedStays DEF AuditHonest, Written
    <3>3. AuditEvent(r)' = AuditEvent(r) /\ Written(handler[r])'
      BY <3>2 DEF AuditEvent, Written
    <3>4. i \in 1..Len(audit') /\ audit'[i] = audit[i]
      BY <2>1
    <3> QED
      BY <2>1, <3>1, <3>3, <3>4
  <2>2. CASE audit' = audit
    <3>1. EventsOf(r)' = EventsOf(r)
      BY <2>2 DEF EventsOf
    <3>2. Len(audit) \in Nat
      BY DEF HInv, TInv, OwnTypes
    <3> QED
      BY <2>1, <2>2, <3>1, <3>2
  <2>3. ASSUME NEW q \in Request, RecordAudit(q)
        PROVE  /\ Written(handler[r])'
               /\ \E i \in 1..Len(audit') : EventsOf(r)' = {i} /\ audit'[i] = AuditEvent(r)'
    <3> DEFINE n == Len(audit) + 1
    <3>1. /\ Len(audit) \in Nat /\ Len(audit') = n /\ audit'[n] = AuditEvent(q)
          /\ \A i \in 1..Len(audit) : audit'[i] = audit[i]
          /\ handler[q].pc = "audit" /\ handler'[q].pc = "done" /\ ~Dropped(handler[q])
          /\ handler'[q].answered = handler[q].answered
          /\ handler'[q].status = handler[q].status /\ handler'[q].tenant = handler[q].tenant
          /\ handler'[q].cost = handler[q].cost
      BY <2>3, RecordAuditFacts
    <3>2. 1..n = 1..Len(audit) \cup {n} /\ n \notin 1..Len(audit) /\ n \in 1..n /\ n \in Nat
      BY <3>1
    <3>3. AuditEvent(q).request = q
      BY DEF AuditEvent
    <3> HIDE DEF n
    <3>4. CASE r = q
      <4>1. EventsOf(q) = {}
        BY <3>1 DEF AuditHonest, Written
      <4>2. EventsOf(q)' = {n}
        BY <3>1, <3>2, <3>3, <4>1 DEF EventsOf
      <4>3. AuditEvent(q)' = AuditEvent(q) /\ Written(handler[q])'
        BY <3>1 DEF AuditEvent, Written, Dropped
      <4> QED
        BY <3>1, <3>2, <3>4, <4>2, <4>3
    <3>5. CASE r # q
      <4>1. EventsOf(r)' = EventsOf(r)
        BY <3>1, <3>2, <3>3, <3>5 DEF EventsOf
      <4>2. Len(audit) <= Len(audit') /\ Len(audit') \in Nat
        BY <3>1, <3>2 DEF n
      <4> QED
        BY <2>1, <3>1, <4>1, <4>2
    <3> QED
      BY <3>4, <3>5
  <2> QED
    BY <2>2, <2>3, EndedStays
<1> QED
  BY <1>1, <1>2, HandlersInv, PTL DEF Spec

----------------------------------------------------------------------------
(***************************************************************************)
(* Charges and answers.  A request's share of what its tenant owes; with   *)
(* no price feed the tracker and the handler's fallback price alike.       *)
(***************************************************************************)
Share(q, t) == IF handler[q].tenant = t THEN handler[q].cost ELSE 0
Billed(t) == SumFunction([q \in Request |-> Share(q, t)])
Covered == \A t \in Tenant : LedgerTotal(t) <= Billed(t)

(***************************************************************************)
(* Without a feed no charge is ever repriced (pricing.go Refresh).         *)
(***************************************************************************)
LEMMA NothingRepriced ==
  ASSUME Feed = {}, HInv, repriced = {}, [Next]_vars
  PROVE  repriced' = {}
<1>1. handler \in [Request -> Handler]
  BY DEF HInv, TInv, OwnTypes
<1>2. [T!Next]_trackerVars
  BY <1>1, TrackerStep
<1>3. CASE UNCHANGED trackerVars
  BY <1>3 DEF trackerVars
<1>4. ASSUME NEW q \in Request, T!CallerStep(q) PROVE repriced' = repriced
  BY <1>4 DEF T!CallerStep, T!Estimate, T!AllowError, T!AllowReject, T!AllowAdmit, T!Abandon,
              T!PriceUsage, T!RecordFails, T!RecordUnread, T!Record
<1>5. ASSUME NEW id, T!Snapshot(id) PROVE repriced' = repriced
  BY <1>5 DEF T!Snapshot
<1>6. ASSUME T!NextDay \/ T!ClockBack PROVE repriced' = repriced
  BY <1>6 DEF T!NextDay, T!ClockBack
<1>7. ASSUME T!Crash PROVE repriced' = {}
  BY <1>7 DEF T!Crash
<1> QED
  BY <1>2, <1>3, <1>4, <1>5, <1>6, <1>7 DEF T!Next

(***************************************************************************)
(* Without a feed the fallback of recordUsage comes to the cost that the   *)
(* tracker charged (chat.go recordUsage).                                  *)
(***************************************************************************)
LEMMA OnePrice ==
  ASSUME Feed = {}, HInv, repriced = {}, NEW q \in Request, call[q].phase = "priced"
  PROVE  FallbackCost(q) = call[q].cost
<1>1. prices \in TP!PriceTables /\ TP!CallOK(q)
  BY DEF HInv, TInv, TP!IInv, TP!TypeOK, TP!CallsOK
<1>2. prices = DefaultPrices
  BY <1>1 DEF TP!PriceTables
<1>3. call[q].cost = TP!Price(DefaultPrices, call[q].model, call[q].prompt, call[q].completion)
  BY <1>1, <1>2 DEF TP!CallOK
<1> QED
  BY <1>3, SamePrices DEF FallbackCost, T!StaticPrice

(***************************************************************************)
(* What a tenant is billed changes by what the one moving request changes. *)
(***************************************************************************)
LEMMA BilledStep ==
  ASSUME HInv, HInv', NEW q \in Request, Others(q), NEW t \in Tenant
  PROVE  Billed(t) \in Int /\ Billed(t)' = Billed(t) + (Share(q, t)' - Share(q, t))
<1> DEFINE f == [r \in Request |-> Share(r, t)]
           g == [r \in Request |-> Share(r, t)']
<1>1. Billed(t) = SumFunction(f) /\ Billed(t)' = SumFunction(g)
  BY DEF Billed
<1>2. f \in [Request -> Int]
  BY DEF HInv, TInv, OwnTypes, Handler, Share
<1>3. g \in [Request -> Int]
  BY DEF HInv, TInv, OwnTypes, Handler, Share
<1>4. \A r \in Request : r # q => g[r] = f[r]
  BY DEF Others, Share
<1>5. g[q] = Share(q, t)' /\ f[q] = Share(q, t)
  OBVIOUS
<1> HIDE DEF f, g
<1>6. SumFunction(g) = SumFunction(f) + (g[q] - f[q]) /\ SumFunction(f) \in Int
  BY <1>2, <1>3, <1>4, ModeFacts, SumUpdate, SumType
<1> QED
  BY <1>1, <1>5, <1>6

(***************************************************************************)
(* Every step keeps the ledger within what the answers of the tenant       *)
(* report (chat.go recordUsage).                                           *)
(***************************************************************************)
LEMMA CoveredKept ==
  ASSUME Feed = {}, HInv, repriced = {}, Covered, [Next]_vars
  PROVE  Covered'
<1>0. HInv'
  BY TrackerKept, OwnTypesKept, HandlersKept DEF HInv, TInv
<1> SUFFICES ASSUME NEW t \in Tenant PROVE LedgerTotal(t)' <= Billed(t)'
  BY DEF Covered
<1>1. LedgerTotal(t) <= Billed(t) /\ LedgerTotal(t) \in Int
  BY LedgerType DEF Covered
<1>2. ASSUME NEW q \in Request,
             RecordUsage(q) \/ RecordUsageFails(q) \/ RecordUsageUnread(q)
      PROVE  LedgerTotal(t)' <= Billed(t)'
  <2>1. /\ handler \in [Request -> Handler] /\ InStep(handler[q], call[q])
        /\ Progress(handler[q]) /\ TP!IInv
    BY DEF HInv, TInv, OwnTypes, HandlersOK
  <2>2. handler[q].pc = "record"
    BY <1>2 DEF RecordUsage, RecordUsageFails, RecordUsageUnread, At
  <2>3. call[q].phase = "priced" /\ call[q].tenant = handler[q].tenant /\ handler[q].cost = 0
    BY <2>1, <2>2 DEF InStep, Progress
  <2>4. FallbackCost(q) = call[q].cost /\ call[q].cost \in Nat
    BY <2>1, <2>3, OnePrice, FallbackType
  <2>5. Charged(q, call[q].cost)
    BY <1>2, <2>4 DEF RecordUsage, RecordUsageFails, RecordUsageUnread
  <2>6. /\ Others(q) /\ handler'[q].tenant = handler[q].tenant
        /\ handler'[q].cost = call[q].cost
    BY <2>1, <2>5, ChargedFacts DEF SameRequest
  <2>7. /\ Billed(t) \in Int
        /\ Billed(t)' = Billed(t) + IF call[q].tenant = t THEN call[q].cost ELSE 0
    <3>1. Share(q, t) = 0 /\ Share(q, t)' = IF call[q].tenant = t THEN call[q].cost ELSE 0
      BY <2>3, <2>6 DEF Share
    <3>2. Billed(t) \in Int /\ Billed(t)' = Billed(t) + (Share(q, t)' - Share(q, t))
      BY <1>0, <2>6, BilledStep
    <3> QED
      BY <2>4, <3>1, <3>2
  <2>8. ledger' = ledger \/ ledger' = T!AddSpend(ledger, q)
    BY <1>2 DEF RecordUsage, RecordUsageFails, RecordUsageUnread, T!Record, T!RecordFails,
                T!RecordUnread, T!costVars
  <2>9. CASE ledger' = ledger
    BY <1>1, <2>4, <2>7, <2>9 DEF LedgerTotal
  <2>10. CASE ledger' = T!AddSpend(ledger, q)
    <3>1. LedgerTotal(t)' = LedgerTotal(t) + IF call[q].tenant = t THEN call[q].cost ELSE 0
      BY <2>3, <2>10, LedgerStep
    <3> QED
      BY <1>1, <2>4, <2>7, <3>1
  <2> QED
    BY <2>8, <2>9, <2>10
<1>3. ASSUME ledger' = ledger, \A r \in Request : CostKept(handler[r], handler'[r])
      PROVE  LedgerTotal(t)' <= Billed(t)'
  <2>1. \A r \in Request : Share(r, t)' = Share(r, t)
    BY <1>3 DEF Share, CostKept
  <2>2. Billed(t)' = Billed(t)
    BY <2>1 DEF Billed
  <2> QED
    BY <1>1, <1>3, <2>2 DEF LedgerTotal
<1> QED
  BY <1>2, <1>3, CostSteps

(***************************************************************************)
(* What a tenant is billed is the reported cost of the requests that were  *)
(* answered: no other request has a cost.                                  *)
(***************************************************************************)
LEMMA BilledIsReported ==
  ASSUME HInv, NEW t \in Tenant
  PROVE  Billed(t) = ReportedCost(t, {q \in Request : handler[q].answered})
<1> DEFINE answered == {q \in Request : handler[q].answered}
           f == [q \in Request |-> Share(q, t)]
           g == [q \in answered |-> Share(q, t)]
<1>1. /\ Billed(t) = SumFunctionOnSet(f, Request)
      /\ ReportedCost(t, answered) = SumFunctionOnSet(g, answered)
  BY DEF Billed, ReportedCost, Share, SumFunction
<1>2. \A q \in Request : handler[q] \in Handler /\ Progress(handler[q])
  BY DEF HInv, TInv, OwnTypes, HandlersOK
<1>3. \A q \in Request : f[q] \in Int
  BY <1>2 DEF Share, Handler
<1>4. \A q \in Request \ answered : f[q] = 0
  BY <1>2 DEF Share, Progress
<1>5. answered \in SUBSET Request /\ IsFiniteSet(answered) /\ IsFiniteSet(Request)
  BY ModeFacts, FS_Subset
<1>6. \A q \in answered : f[q] \in Int /\ g[q] = f[q]
  BY <1>3
<1> HIDE DEF answered, f, g
<1>7. SumFunctionOnSet(f, answered) = SumFunctionOnSet(f, Request)
  BY <1>3, <1>4, <1>5, SumRest
<1>8. SumFunctionOnSet(g, answered) = SumFunctionOnSet(f, answered)
  BY <1>5, <1>6, SumEqual
<1> QED
  BY <1>1, <1>7, <1>8 DEF answered

(***************************************************************************)
(* As long as prices stay what they are, no tenant is ever charged more    *)
(* than its answered requests cost, whatever SQLite and the clients do: a  *)
(* charge that went in although RecordTenant reported an error is not      *)
(* repeated, and nothing is charged for a request nobody answered.         *)
(***************************************************************************)
THEOREM ChargesTheorem == Feed = {} => (Spec => []NeverOvercharged)
<1> SUFFICES ASSUME Feed = {} PROVE Spec => []NeverOvercharged
  OBVIOUS
<1> DEFINE Inv == repriced = {} /\ Covered
<1>1. Init => Inv
  <2> SUFFICES ASSUME Init, NEW t \in Tenant PROVE repriced = {} /\ LedgerTotal(t) <= Billed(t)
    BY ModeFacts DEF Covered
  <2>1. repriced = {} /\ DOMAIN ledger[t] = T!Day /\ \A d \in T!Day : ledger[t][d] = 0
    BY DEF Init, T!Init, T!NoSpend
  <2>2. IsFiniteSet(T!Day)
    BY DaysFinite
  <2>3. LedgerTotal(t) = 0
    BY <2>1, <2>2, SumNothing DEF LedgerTotal
  <2> DEFINE f == [r \in Request |-> Share(r, t)]
  <2>4. DOMAIN f = Request /\ \A r \in Request : f[r] = 0
    BY DEF Init, Share, NewHandler
  <2>5. Billed(t) = SumFunction(f)
    BY DEF Billed
  <2> HIDE DEF f
  <2>6. Billed(t) = 0
    BY <2>4, <2>5, ModeFacts, SumNothing
  <2> QED
    BY <2>1, <2>3, <2>6
<1>2. HInv /\ Inv /\ [Next]_vars => Inv'
  BY NothingRepriced, CoveredKept
<1>3. HInv /\ Inv => NeverOvercharged
  BY BilledIsReported DEF Covered, NeverOvercharged
<1> QED
  BY <1>1, <1>2, <1>3, HandlersInv, PTL DEF Spec

----------------------------------------------------------------------------
(***************************************************************************)
(* Metrics.  What one goroutine adds to each counter by the time its       *)
(* locals are h.                                                           *)
(***************************************************************************)
Tried(h) == IF h.hop > 0 THEN h.hop - 1 ELSE 0
Counted(h) == IF h.pc # "idle" THEN 1 ELSE 0
TurnedAway(h) == IF ~h.answered /\ h.status \notin {0, 502} THEN 1 ELSE 0
Micros(h) == h.cost \div Micro

(***************************************************************************)
(* Each counter is the sum of what the goroutines have added to it.        *)
(***************************************************************************)
CountersOK ==
  /\ metrics.failovers = SumFunction([q \in Request |-> Tried(handler[q])])
  /\ metrics.requests = SumFunction([q \in Request |-> Counted(handler[q])])
  /\ metrics.blocked = SumFunction([q \in Request |-> TurnedAway(handler[q])])
  /\ metrics.costMicro = SumFunction([q \in Request |-> Micros(handler[q])])

(***************************************************************************)
(* A step of the goroutine of q moves each counter by what q now adds to   *)
(* it.                                                                     *)
(***************************************************************************)
Accounted(q) ==
  /\ Others(q)
  /\ metrics'.failovers = metrics.failovers + (Tried(handler'[q]) - Tried(handler[q]))
  /\ metrics'.requests = metrics.requests + (Counted(handler'[q]) - Counted(handler[q]))
  /\ metrics'.blocked = metrics.blocked + (TurnedAway(handler'[q]) - TurnedAway(handler[q]))
  /\ metrics'.costMicro = metrics.costMicro + (Micros(handler'[q]) - Micros(handler[q]))

(***************************************************************************)
(* RecordCost cuts off less than a micro-dollar.                           *)
(***************************************************************************)
LEMMA CutOff ==
  ASSUME NEW h, h.cost \in Nat
  PROVE  /\ Micros(h) \in Nat /\ (h.cost = 0 => Micros(h) = 0)
         /\ Micros(h) * Micro \in Nat /\ Micros(h) * Micro <= h.cost
         /\ h.cost <= Micros(h) * Micro + (Micro - 1)
<1>1. Micro \in Nat \ {0}
  BY ModeFacts
<1>2. ASSUME NEW m \in Nat \ {0}, NEW c \in Nat
      PROVE  /\ c \div m \in Nat /\ (c = 0 => c \div m = 0)
             /\ (c \div m) * m \in Nat /\ (c \div m) * m <= c /\ c <= (c \div m) * m + (m - 1)
  <2>1. c \div m \in Nat
    OBVIOUS
  <2>2. c = 0 => c \div m = 0
    OBVIOUS
  <2>3. (c \div m) * m \in Nat
    BY <2>1
  <2>4. (c \div m) * m <= c
    OBVIOUS
  <2>5. c <= (c \div m) * m + (m - 1)
    OBVIOUS
  <2> QED
    BY <2>1, <2>2, <2>3, <2>4, <2>5
<1> QED
  BY <1>1, <1>2 DEF Micros

(***************************************************************************)
(* What a goroutine adds to a counter is a natural number.                 *)
(***************************************************************************)
LEMMA Contributions ==
  ASSUME NEW h \in Handler
  PROVE  /\ Tried(h) \in Nat /\ Counted(h) \in Nat /\ TurnedAway(h) \in Nat /\ Micros(h) \in Nat
         /\ (h.cost = 0 => Micros(h) = 0)
<1>1. h.hop \in Nat /\ h.cost \in Nat
  BY DEF Handler
<1> QED
  BY <1>1, CutOff DEF Tried, Counted, TurnedAway

(***************************************************************************)
(* Every step adds to the counters what it adds to its goroutine's share.  *)
(***************************************************************************)
LEMMA MetricsSteps ==
  ASSUME HInv, HInv', [Next]_vars
  PROVE  \/ handler' = handler /\ metrics' = metrics
         \/ \E q \in Request : Accounted(q)
<1>0. /\ handler \in [Request -> Handler] /\ metrics \in Registry
      /\ \A r \in Request : handler[r] \in Handler /\ Progress(handler[r])
  BY DEF HInv, TInv, OwnTypes, HandlersOK
<1>00. \A r \in Request : handler'[r] \in Handler
  BY DEF HInv, TInv, OwnTypes
<1>000. /\ metrics.failovers \in Nat /\ metrics.requests \in Nat /\ metrics.blocked \in Nat
        /\ metrics.costMicro \in Nat
  BY <1>0 DEF Registry
<1>1. ASSUME NEW q \in Request, NEW id \in Tenant \cup {NoTenant}, NEW b \in Body,
             Arrive(q, id, b) \/ ArriveLimited(q, id, b)
      PROVE  Accounted(q)
  <2>1. handler[q].pc = "idle"
    BY <1>1 DEF Arrive, ArriveLimited, At
  <2>2. handler[q].hop = 0 /\ handler[q].status = 0 /\ handler[q].cost = 0
    BY <1>0, <2>1 DEF Progress, NewHandler
  <2>3. Others(q) /\ handler'[q].hop = 0 /\ handler'[q].cost = 0 /\ handler'[q].pc \in {"screen", "audit"}
    BY <1>0, <1>1, ArrivedFacts
  <2>4. /\ metrics'.failovers = metrics.failovers /\ metrics'.costMicro = metrics.costMicro
        /\ metrics'.requests = metrics.requests + 1
    <3>1. CASE Arrive(q, id, b)
      BY <1>0, <3>1 DEF Arrive, Registry
    <3>2. CASE ArriveLimited(q, id, b)
      BY <1>0, <3>2 DEF ArriveLimited, Registry
    <3> QED
      BY <1>1, <3>1, <3>2
  <2>5. /\ Tried(handler[q]) = 0 /\ Tried(handler'[q]) = 0
        /\ Counted(handler[q]) = 0 /\ Counted(handler'[q]) = 1 /\ TurnedAway(handler[q]) = 0
        /\ Micros(handler[q]) = 0 /\ Micros(handler'[q]) = 0
    BY <2>1, <2>2, <2>3, CutOff DEF Tried, Counted, TurnedAway
  <2>6. CASE Arrive(q, id, b)
    <3>1. metrics'.blocked = metrics.blocked /\ handler'[q].status = 0
      BY <1>0, <2>6, ArrivedFacts DEF Arrive, Registry
    <3>2. TurnedAway(handler'[q]) = 0
      BY <3>1 DEF TurnedAway
    <3> QED
      BY <1>000, <2>3, <2>4, <2>5, <3>1, <3>2 DEF Accounted
  <2>7. CASE ArriveLimited(q, id, b)
    <3>1. metrics'.blocked = metrics.blocked + 1 /\ handler'[q].status = 429
      BY <1>0, <2>7, ArrivedFacts DEF ArriveLimited, Registry
    <3>2. ~handler'[q].answered
      BY <1>0, <2>7, ArrivedFacts
    <3>3. TurnedAway(handler'[q]) = 1
      BY <3>1, <3>2 DEF TurnedAway
    <3> QED
      BY <1>000, <2>3, <2>4, <2>5, <3>1, <3>3 DEF Accounted
  <2> QED
    BY <1>1, <2>6, <2>7
<1>2. ASSUME NEW q \in Request, Others(q), metrics' = metrics,
             handler'[q].hop = handler[q].hop, handler'[q].cost = handler[q].cost,
             handler'[q].pc # "idle", handler[q].pc # "idle",
             TurnedAway(handler'[q]) = TurnedAway(handler[q])
      PROVE  Accounted(q)
  <2>1. /\ Tried(handler'[q]) = Tried(handler[q]) /\ Counted(handler'[q]) = Counted(handler[q])
        /\ Micros(handler'[q]) = Micros(handler[q])
    BY <1>2 DEF Tried, Counted, Micros
  <2> QED
    BY <1>0, <1>000, <1>2, <2>1, Contributions DEF Accounted
<1>3. ASSUME NEW q \in Request, Disconnect(q) PROVE Accounted(q)
  <2>1. metrics' = metrics
    BY <1>3 DEF Disconnect
  <2>2. /\ Others(q) /\ handler'[q].pc = handler[q].pc /\ handler'[q].status = handler[q].status
        /\ handler'[q].cost = handler[q].cost /\ handler'[q].hop = handler[q].hop
        /\ handler[q].pc # "idle" /\ handler'[q].answered = handler[q].answered
    BY <1>0, <1>3, DisconnectFacts DEF SameRoute
  <2>3. TurnedAway(handler'[q]) = TurnedAway(handler[q])
    BY <2>2 DEF TurnedAway
  <2> QED
    BY <1>2, <2>1, <2>2, <2>3
<1>4. ASSUME NEW q \in Request, Handle(q) \/ ResponseWritten(q) PROVE Accounted(q)
  <2>1. CASE BadBody(q) \/ BlockedByGuard(q) \/ BrokenByRedaction(q) \/ BudgetError(q)
             \/ OverBudget(q)
    <3>1. /\ handler[q].pc \in {"screen", "allow"} /\ RecordBlocked
          /\ \E s \in {400, 402, 403, 500}, pc \in {"audit", "done"} : Reply(q, s, pc)
      BY <2>1 DEF BadBody, BlockedByGuard, BrokenByRedaction, BudgetError, OverBudget, At
    <3>2. /\ Others(q) /\ handler'[q].hop = handler[q].hop /\ handler'[q].pc # "idle"
          /\ handler'[q].cost = handler[q].cost /\ handler'[q].status \in {400, 402, 403, 500}
          /\ handler'[q].answered = handler[q].answered
      BY <1>0, <3>1, ReplyFacts DEF SameRoute
    <3>3. /\ metrics'.failovers = metrics.failovers /\ metrics'.costMicro = metrics.costMicro
          /\ metrics'.requests = metrics.requests /\ metrics'.blocked = metrics.blocked + 1
      BY <1>0, <3>1 DEF RecordBlocked, Registry
    <3>4. handler[q].status = 0 /\ handler[q].pc # "idle" /\ ~handler[q].answered
      BY <1>0, <3>1 DEF Progress
    <3>5. TurnedAway(handler[q]) = 0 /\ TurnedAway(handler'[q]) = 1
      BY <3>2, <3>4 DEF TurnedAway
    <3>6. /\ Tried(handler'[q]) = Tried(handler[q]) /\ Counted(handler'[q]) = Counted(handler[q])
          /\ Micros(handler'[q]) = Micros(handler[q])
      BY <3>2, <3>4 DEF Tried, Counted, Micros
    <3> QED
      BY <1>0, <1>000, <3>2, <3>3, <3>5, <3>6, Contributions DEF Accounted
  <2>2. CASE AllProvidersFailed(q)
    <3>1. handler[q].pc = "route" /\ metrics' = metrics /\ Reply(q, 502, "audit")
      BY <2>2 DEF AllProvidersFailed, At
    <3>2. /\ Others(q) /\ handler'[q].hop = handler[q].hop /\ handler'[q].pc = "audit"
          /\ handler'[q].cost = handler[q].cost /\ handler'[q].status = 502
          /\ handler'[q].answered = handler[q].answered
      BY <1>0, <3>1, ReplyFacts DEF SameRoute
    <3>3. TurnedAway(handler'[q]) = TurnedAway(handler[q])
      BY <1>0, <3>1, <3>2 DEF TurnedAway, Progress
    <3> QED
      BY <1>2, <3>1, <3>2, <3>3
  <2>3. CASE EstimateBudget(q) \/ WithinBudget(q) \/ WriteEnds(q)
             \/ (\E c \in Completion : PriceResponse(q, c)) \/ RecordAudit(q) \/ RecordAuditFails(q)
    <3>1. /\ handler[q].pc # "idle" /\ metrics' = metrics
          /\ \E pc \in PC \ {"idle"} : Goto(q, pc)
      BY <2>3 DEF EstimateBudget, WithinBudget, PriceResponse, RecordAudit, WriteEnds,
                  ResponseWritten, WriteFails, RecordAuditFails, At, PC
    <3>2. /\ Others(q) /\ handler'[q].hop = handler[q].hop /\ handler'[q].pc # "idle"
          /\ handler'[q].cost = handler[q].cost /\ handler'[q].status = handler[q].status
          /\ handler'[q].answered = handler[q].answered
      BY <1>0, <3>1, GotoFacts DEF SameRoute
    <3>3. TurnedAway(handler'[q]) = TurnedAway(handler[q])
      BY <3>2 DEF TurnedAway
    <3> QED
      BY <1>2, <3>1, <3>2, <3>3
  <2>4. CASE ProviderFails(q) \/ \E s \in UpstreamStatus : ProviderAnswers(q, s)
    <3>1. handler[q].pc = "route" /\ CountFailover(q)
      BY <2>4 DEF ProviderFails, ProviderAnswers, At
    <3>2. /\ Others(q) /\ handler'[q].hop = handler[q].hop + 1 /\ handler'[q].pc # "idle"
          /\ handler'[q].cost = handler[q].cost
          /\ handler'[q].status = 0 \/ handler'[q].answered
      <4>1. handler[q].status = 0
        BY <1>0, <3>1 DEF Progress
      <4>2. CASE ProviderFails(q)
        BY <1>0, <4>1, <4>2, ProviderFacts
      <4>3. ASSUME NEW s \in UpstreamStatus, ProviderAnswers(q, s)
            PROVE  /\ Others(q) /\ handler'[q].hop = handler[q].hop + 1 /\ handler'[q].pc # "idle"
                   /\ handler'[q].cost = handler[q].cost /\ handler'[q].answered
        BY <1>0, <4>3, ProviderFacts
      <4> QED
        BY <2>4, <4>2, <4>3
    <3>3. /\ metrics'.requests = metrics.requests /\ metrics'.costMicro = metrics.costMicro
          /\ metrics'.blocked = metrics.blocked
          /\ metrics'.failovers = IF handler[q].hop > 0 THEN metrics.failovers + 1
                                  ELSE metrics.failovers
      BY <1>0, <3>1 DEF CountFailover, Registry
    <3>4. handler[q].hop \in Nat /\ handler[q].status = 0
      BY <1>0, <3>1 DEF Handler, Progress
    <3>5. Tried(handler'[q]) - Tried(handler[q]) = IF handler[q].hop > 0 THEN 1 ELSE 0
      BY <3>2, <3>4 DEF Tried
    <3>6. /\ TurnedAway(handler'[q]) = TurnedAway(handler[q])
          /\ Counted(handler'[q]) = Counted(handler[q]) /\ Micros(handler'[q]) = Micros(handler[q])
      BY <3>1, <3>2, <3>4 DEF TurnedAway, Counted, Micros
    <3> QED
      BY <1>0, <1>000, <3>2, <3>3, <3>4, <3>5, <3>6, Contributions DEF Accounted
  <2>5. CASE RecordUsage(q) \/ RecordUsageFails(q) \/ RecordUsageUnread(q)
    <3>1. PICK c : handler[q].pc = "record" /\ Charged(q, c)
      BY <2>5 DEF RecordUsage, RecordUsageFails, RecordUsageUnread, At
    <3>2. /\ Others(q) /\ handler'[q].hop = handler[q].hop /\ handler'[q].pc = "audit"
          /\ handler'[q].cost = c /\ handler'[q].status = handler[q].status
          /\ handler'[q].answered = handler[q].answered
      BY <1>0, <3>1, ChargedFacts DEF SameRoute
    <3>3. /\ metrics'.failovers = metrics.failovers /\ metrics'.requests = metrics.requests
          /\ metrics'.blocked = metrics.blocked
          /\ metrics'.costMicro = metrics.costMicro + Micros(handler'[q])
      BY <1>0, <3>1, <3>2 DEF Charged, RecordCost, Registry, Micros
    <3>4. handler[q].cost = 0
      BY <1>0, <3>1 DEF Progress
    <3>5. Micros(handler[q]) = 0 /\ Micros(handler'[q]) \in Nat
      BY <1>0, <1>00, <3>4, Contributions
    <3>6. /\ TurnedAway(handler'[q]) = TurnedAway(handler[q])
          /\ Counted(handler'[q]) = Counted(handler[q]) /\ Tried(handler'[q]) = Tried(handler[q])
      BY <3>1, <3>2 DEF TurnedAway, Counted, Tried
    <3> QED
      BY <1>0, <1>000, <3>2, <3>3, <3>5, <3>6, Contributions DEF Accounted
  <2>6. CASE Screened(q)
    <3>1. metrics' = metrics
      BY <2>6 DEF Screened
    <3>2. TurnedAway(handler'[q]) = TurnedAway(handler[q])
      BY <1>0, <2>6, ScreenedFacts DEF TurnedAway, SameRoute
    <3> QED
      BY <1>0, <1>2, <2>6, <3>1, <3>2, ScreenedFacts DEF SameRoute
  <2> QED
    BY <1>4, <2>1, <2>2, <2>3, <2>4, <2>5, <2>6 DEF Handle, WriteEnds
<1>5. CASE UNCHANGED vars \/ Around
  BY <1>5 DEF vars, Around
<1> QED
  BY <1>1, <1>3, <1>4, <1>5 DEF Next

(***************************************************************************)
(* So the contributions of all goroutines can be summed.                   *)
(***************************************************************************)
LEMMA ShareTypes ==
  ASSUME HInv
  PROVE  /\ [q \in Request |-> Tried(handler[q])] \in [Request -> Int]
         /\ [q \in Request |-> Counted(handler[q])] \in [Request -> Int]
         /\ [q \in Request |-> TurnedAway(handler[q])] \in [Request -> Int]
         /\ [q \in Request |-> Micros(handler[q])] \in [Request -> Int]
<1>1. \A q \in Request : handler[q] \in Handler
  BY DEF HInv, TInv, OwnTypes
<1>2. \A q \in Request : /\ Tried(handler[q]) \in Int /\ Counted(handler[q]) \in Int
                         /\ TurnedAway(handler[q]) \in Int /\ Micros(handler[q]) \in Int
  BY <1>1, Contributions
<1> QED
  BY <1>2

(***************************************************************************)
(* Every step moves a counter by exactly what its goroutine now adds to it *)
(* (metrics.go).                                                           *)
(***************************************************************************)
LEMMA CountersKept ==
  ASSUME HInv, [Next]_vars, CountersOK
  PROVE  CountersOK'
<1>0. HInv'
  BY TrackerKept, OwnTypesKept, HandlersKept DEF HInv, TInv
<1>1. CASE handler' = handler /\ metrics' = metrics
  BY <1>1 DEF CountersOK
<1>2. ASSUME NEW q \in Request, Accounted(q) PROVE CountersOK'
  <2>1. ASSUME NEW f \in [Request -> Int], NEW g \in [Request -> Int],
               \A r \in Request : r # q => g[r] = f[r]
        PROVE  SumFunction(g) = SumFunction(f) + (g[q] - f[q])
    BY <2>1, ModeFacts, SumUpdate
  <2> DEFINE f1 == [r \in Request |-> Tried(handler[r])]
             g1 == [r \in Request |-> Tried(handler'[r])]
             f2 == [r \in Request |-> Counted(handler[r])]
             g2 == [r \in Request |-> Counted(handler'[r])]
             f3 == [r \in Request |-> TurnedAway(handler[r])]
             g3 == [r \in Request |-> TurnedAway(handler'[r])]
             f4 == [r \in Request |-> Micros(handler[r])]
             g4 == [r \in Request |-> Micros(handler'[r])]
  <2>2. f1 \in [Request -> Int] /\ f2 \in [Request -> Int] /\ f3 \in [Request -> Int]
        /\ f4 \in [Request -> Int]
    BY ShareTypes
  <2>3. g1 \in [Request -> Int] /\ g2 \in [Request -> Int] /\ g3 \in [Request -> Int]
        /\ g4 \in [Request -> Int]
    <3>1. \A r \in Request : handler'[r] \in Handler
      BY <1>0 DEF HInv, TInv, OwnTypes
    <3>2. \A r \in Request : /\ Tried(handler'[r]) \in Int /\ Counted(handler'[r]) \in Int
                             /\ TurnedAway(handler'[r]) \in Int /\ Micros(handler'[r]) \in Int
      BY <3>1, Contributions
    <3> QED
      BY <3>2
  <2>4. \A r \in Request : r # q => g1[r] = f1[r] /\ g2[r] = f2[r] /\ g3[r] = f3[r] /\ g4[r] = f4[r]
    BY <1>2 DEF Accounted, Others
  <2>5. /\ g1[q] = Tried(handler'[q]) /\ f1[q] = Tried(handler[q])
        /\ g2[q] = Counted(handler'[q]) /\ f2[q] = Counted(handler[q])
        /\ g3[q] = TurnedAway(handler'[q]) /\ f3[q] = TurnedAway(handler[q])
        /\ g4[q] = Micros(handler'[q]) /\ f4[q] = Micros(handler[q])
    OBVIOUS
  <2>6. /\ metrics.failovers = SumFunction(f1) /\ metrics.requests = SumFunction(f2)
        /\ metrics.blocked = SumFunction(f3) /\ metrics.costMicro = SumFunction(f4)
    BY DEF CountersOK
  <2>7. /\ metrics'.failovers = SumFunction(g1) /\ metrics'.requests = SumFunction(g2)
        /\ metrics'.blocked = SumFunction(g3) /\ metrics'.costMicro = SumFunction(g4)
    <3> HIDE DEF f1, g1, f2, g2, f3, g3, f4, g4
    <3>1. /\ SumFunction(g1) = SumFunction(f1) + (g1[q] - f1[q])
          /\ SumFunction(g2) = SumFunction(f2) + (g2[q] - f2[q])
          /\ SumFunction(g3) = SumFunction(f3) + (g3[q] - f3[q])
          /\ SumFunction(g4) = SumFunction(f4) + (g4[q] - f4[q])
      BY <2>1, <2>2, <2>3, <2>4
    <3> QED
      BY <1>2, <2>5, <2>6, <3>1 DEF Accounted
  <2> QED
    BY <2>7 DEF CountersOK, Tried, Counted, TurnedAway, Micros
<1> QED
  BY <1>0, <1>1, <1>2, MetricsSteps

(***************************************************************************)
(* Whatever one adds up over the audit log (w is the weight of an event)   *)
(* can as well be added up over the requests that were written.            *)
(***************************************************************************)
LogSum(w) == SumFunction([i \in 1..Len(audit) |-> w[audit[i]]])
Weight(w, q) == IF Written(handler[q]) THEN w[AuditEvent(q)] ELSE 0
LogOK == \A w \in [Event -> Int] : LogSum(w) = SumFunction([q \in Request |-> Weight(w, q)])

(***************************************************************************)
(* What recordAudit writes is an audit event.                              *)
(***************************************************************************)
LEMMA AuditEventType == ASSUME HInv, NEW q \in Request PROVE AuditEvent(q) \in Event
<1>1. handler[q] \in Handler
  BY DEF HInv, TInv, OwnTypes
<1> QED
  BY <1>1 DEF AuditEvent, Event, Handler

(***************************************************************************)
(* Every step keeps sums over the log equal to sums over the requests.     *)
(***************************************************************************)
LEMMA LogKept ==
  ASSUME HInv, [Next]_vars, Clean, LogOK
  PROVE  LogOK'
<1>0. HInv'
  BY TrackerKept, OwnTypesKept, HandlersKept DEF HInv, TInv
<1> SUFFICES ASSUME NEW w \in [Event -> Int]
             PROVE  LogSum(w)' = SumFunction([r \in Request |-> Weight(w, r)'])
  BY DEF LogOK, LogSum, Weight, AuditEvent, Written, Dropped
<1> DEFINE f == [r \in Request |-> Weight(w, r)]
           g == [r \in Request |-> Weight(w, r)']
<1>1. LogSum(w) = SumFunction(f)
  BY DEF LogOK
<1>2. ASSUME NEW q \in Request, RecordAudit(q)
      PROVE  LogSum(w)' = SumFunction(g)
  <2> DEFINE n == Len(audit)
             a == [i \in 1..n |-> w[audit[i]]]
             b == [i \in 1..(n + 1) |-> w[audit'[i]]]
  <2>1. /\ Others(q) /\ handler[q].pc = "audit" /\ handler'[q].pc = "done"
        /\ handler'[q].status = handler[q].status /\ handler'[q].tenant = handler[q].tenant
        /\ handler'[q].cost = handler[q].cost /\ ~Dropped(handler[q])
        /\ handler'[q].answered = handler[q].answered
        /\ n \in Nat /\ Len(audit') = n + 1 /\ audit'[n + 1] = AuditEvent(q)
        /\ \A i \in 1..n : audit'[i] = audit[i] /\ audit[i] \in Event
    BY <1>2, RecordAuditFacts
  <2>2. AuditEvent(q)' = AuditEvent(q) /\ AuditEvent(q) \in Event
    BY <2>1, AuditEventType DEF AuditEvent
  <2>3. Weight(w, q) = 0 /\ Weight(w, q)' = w[AuditEvent(q)] /\ w[AuditEvent(q)] \in Int
    BY <2>1, <2>2 DEF Weight, Written, Dropped
  <2>4. f \in [Request -> Int] /\ g \in [Request -> Int]
    <3>1. \A r \in Request : Weight(w, r) \in Int
      BY AuditEventType DEF Weight
    <3>2. \A r \in Request : Weight(w, r)' \in Int
      <4>1. ASSUME NEW r \in Request PROVE AuditEvent(r)' \in Event
        <5>1. handler'[r] \in Handler
          BY <1>0 DEF HInv, TInv, OwnTypes
        <5> QED
          BY <5>1 DEF AuditEvent, Event, Handler
      <4> QED
        BY <4>1 DEF Weight
    <3> QED
      BY <3>1, <3>2
  <2>5. \A r \in Request : r # q => g[r] = f[r]
    BY <2>1 DEF Others, Weight, Written, AuditEvent
  <2>6. g[q] = w[AuditEvent(q)] /\ f[q] = 0
    BY <2>3
  <2>7. a \in [1..n -> Int] /\ \A i \in 1..n : b[i] = a[i]
    BY <2>1
  <2>8. b \in [1..(n + 1) -> Int] /\ b[n + 1] = w[AuditEvent(q)]
    <3>1. ASSUME NEW i \in 1..(n + 1) PROVE audit'[i] \in Event
      <4>1. i \in 1..n \/ i = n + 1
        BY <2>1
      <4> QED
        BY <2>1, <2>2, <4>1
    <3> QED
      BY <2>1, <3>1
  <2>9. LogSum(w) = SumFunction(a) /\ LogSum(w)' = SumFunction(b)
    BY <2>1 DEF LogSum
  <2>10. n \in Nat
    BY <2>1
  <2> HIDE DEF f, g, a, b, n
  <2>11. SumFunction(b) = SumFunction(a) + b[n + 1]
    BY <2>7, <2>8, <2>10, SumExtend
  <2>12. SumFunction(g) = SumFunction(f) + (g[q] - f[q]) /\ SumFunction(f) \in Int
    BY <2>4, <2>5, ModeFacts, SumUpdate, SumType
  <2>13. b[n + 1] = w[AuditEvent(q)]
    BY <2>8
  <2>14. SumFunction(g) = SumFunction(f) + w[AuditEvent(q)]
    BY <2>3, <2>6, <2>12
  <2> QED
    BY <1>1, <2>9, <2>11, <2>13, <2>14
<1>3. ASSUME audit' = audit,
             \A r \in Request : /\ Written(handler'[r]) <=> Written(handler[r])
                                /\ Written(handler[r]) => handler'[r] = handler[r]
      PROVE  LogSum(w)' = SumFunction(g)
  <2>1. LogSum(w)' = LogSum(w)
    BY <1>3 DEF LogSum
  <2>2. ASSUME NEW r \in Request PROVE Weight(w, r)' = Weight(w, r)
    <3>1. Written(handler[r])' <=> Written(handler[r])
      BY <1>3 DEF Written
    <3>2. Written(handler[r]) => AuditEvent(r)' = AuditEvent(r)
      BY <1>3 DEF AuditEvent
    <3> QED
      BY <3>1, <3>2 DEF Weight
  <2>3. g = f
    BY <2>2
  <2> QED
    BY <1>1, <2>1, <2>3
<1> QED
  BY <1>2, <1>3, AuditSteps

(***************************************************************************)
(* The audit log's totals, once every request is idle or done.             *)
(***************************************************************************)
Bad(q) == IF Dropped(handler[q]) THEN 1 ELSE 0
Refused(q) == IF ~handler[q].answered /\ handler[q].status \notin {0, 400, 502} THEN 1 ELSE 0
Paying(q) == IF handler[q].cost > 0 THEN 1 ELSE 0
Logged(q) == IF Written(handler[q]) THEN 1 ELSE 0

(***************************************************************************)
(* Once nobody is inside the handler, a counted request is in the log or   *)
(* was a bad request, and only logged ones were refused or cost anything.  *)
(***************************************************************************)
LEMMA QuietFacts ==
  ASSUME HInv, Quiet, NEW q \in Request
  PROVE  /\ handler[q] \in Handler /\ Written(handler[q]) \in BOOLEAN
         /\ Counted(handler[q]) = Logged(q) + Bad(q)
         /\ TurnedAway(handler[q]) = Bad(q) + Refused(q)
         /\ ~Written(handler[q]) => Refused(q) = 0 /\ handler[q].cost = 0
         /\ Written(handler[q]) => handler[q].status # 0 /\ ~Dropped(handler[q])
<1>1. /\ handler[q] \in Handler /\ Progress(handler[q])
      /\ handler[q].pc = "idle" \/ handler[q].pc = "done"
  BY DEF HInv, TInv, OwnTypes, HandlersOK, Quiet, At
<1>2. CASE handler[q].pc = "idle"
  <2>1. handler[q].status = 0 /\ handler[q].cost = 0
    BY <1>1, <1>2 DEF Progress, NewHandler
  <2> QED
    BY <1>1, <1>2, <2>1 DEF Written, Counted, Logged, Bad, Dropped, TurnedAway, Refused
<1>3. CASE handler[q].pc = "done"
  <2>1. handler[q].status # 0 /\ (handler[q].cost # 0 => handler[q].answered)
    BY <1>1, <1>3 DEF Progress
  <2>2. CASE Dropped(handler[q])
    BY <1>1, <1>3, <2>1, <2>2 DEF Written, Counted, Logged, Bad, Dropped, TurnedAway, Refused
  <2>3. CASE ~Dropped(handler[q])
    BY <1>1, <1>3, <2>1, <2>3 DEF Written, Counted, Logged, Bad, Dropped, TurnedAway, Refused
  <2> QED
    BY <2>2, <2>3
<1> QED
  BY <1>1, <1>2, <1>3

(***************************************************************************)
(* What the weight of an event is worth for a count of events.             *)
(***************************************************************************)
LEMMA LogCounts ==
  ASSUME HInv, LogOK, NEW E \in SUBSET Event
  PROVE  Cardinality({i \in 1..Len(audit) : audit[i] \in E})
           = SumFunction([q \in Request |->
                            IF Written(handler[q]) /\ AuditEvent(q) \in E THEN 1 ELSE 0])
<1> DEFINE w == [e \in Event |-> IF e \in E THEN 1 ELSE 0]
           a == [i \in 1..Len(audit) |-> w[audit[i]]]
           s == {i \in 1..Len(audit) : audit[i] \in E}
           g == [q \in Request |-> IF Written(handler[q]) /\ AuditEvent(q) \in E THEN 1 ELSE 0]
<1>1. Len(audit) \in Nat /\ \A i \in 1..Len(audit) : audit[i] \in Event
  BY DEF HInv, TInv, OwnTypes
<1>2. w \in [Event -> Int]
  OBVIOUS
<1>3. DOMAIN a = 1..Len(audit) /\ \A i \in 1..Len(audit) : a[i] = IF i \in s THEN 1 ELSE 0
  BY <1>1
<1>4. [q \in Request |-> Weight(w, q)] = g
  <2>1. \A q \in Request : Weight(w, q) = IF Written(handler[q]) /\ AuditEvent(q) \in E THEN 1 ELSE 0
    BY AuditEventType DEF Weight
  <2> HIDE DEF w
  <2> QED BY <2>1
<1>5. IsFiniteSet(1..Len(audit)) /\ s \in SUBSET (1..Len(audit))
  BY <1>1, FS_Interval
<1>6. LogSum(w) = SumFunction(a)
  BY DEF LogSum
<1> HIDE DEF w, a, s, g
<1>7. SumFunction(a) = Cardinality(s)
  BY <1>3, <1>5, SumCounts
<1>8. LogSum(w) = SumFunction(g)
  BY <1>2, <1>4 DEF LogOK
<1> QED
  BY <1>6, <1>7, <1>8 DEF s, g

(***************************************************************************)
(* So the totals of the log are sums over the requests.                    *)
(***************************************************************************)
LEMMA QuietTotals ==
  ASSUME HInv, LogOK, Quiet
  PROVE  /\ Len(audit) = SumFunction([q \in Request |-> Logged(q)])
         /\ Audited(Refusal) = SumFunction([q \in Request |-> Refused(q)])
         /\ Audited(LAMBDA e : e.cost > 0) = SumFunction([q \in Request |-> Paying(q)])
         /\ AuditedCost = SumFunction([q \in Request |-> handler[q].cost])
<1>0. Len(audit) \in Nat /\ \A i \in 1..Len(audit) : audit[i] \in Event
  BY DEF HInv, TInv, OwnTypes
<1>1. \A q \in Request : /\ AuditEvent(q) \in Event /\ AuditEvent(q).status = handler[q].status
                         /\ AuditEvent(q).cost = handler[q].cost
                         /\ AuditEvent(q).answered = handler[q].answered
  BY AuditEventType DEF AuditEvent
<1>2. Len(audit) = SumFunction([q \in Request |-> Logged(q)])
  <2>1. {i \in 1..Len(audit) : audit[i] \in Event} = 1..Len(audit)
    BY <1>0
  <2>2. Cardinality(1..Len(audit)) = Len(audit)
    <3>1. ASSUME NEW n \in Nat PROVE Cardinality(1..n) = n
      BY FS_Interval
    <3> QED
      BY <1>0, <3>1
  <2>3. [q \in Request |-> IF Written(handler[q]) /\ AuditEvent(q) \in Event THEN 1 ELSE 0]
          = [q \in Request |-> Logged(q)]
    BY <1>1 DEF Logged
  <2> QED
    BY <2>1, <2>2, <2>3, LogCounts
<1>3. Audited(Refusal) = SumFunction([q \in Request |-> Refused(q)])
  <2> DEFINE E == {e \in Event : ~e.answered /\ e.status # 502}
  <2>1. {i \in 1..Len(audit) : audit[i] \in E} = {i \in 1..Len(audit) : Refusal(audit[i])}
    BY <1>0 DEF Refusal
  <2>2. ASSUME NEW q \in Request
        PROVE  (IF Written(handler[q]) /\ AuditEvent(q) \in E THEN 1 ELSE 0) = Refused(q)
    BY <1>1, QuietFacts DEF Refused, Dropped
  <2>3. [q \in Request |-> IF Written(handler[q]) /\ AuditEvent(q) \in E THEN 1 ELSE 0]
          = [q \in Request |-> Refused(q)]
    <3> HIDE DEF E
    <3> QED BY <2>2
  <2>4. E \in SUBSET Event
    OBVIOUS
  <2> HIDE DEF E
  <2> QED
    BY <2>1, <2>3, <2>4, LogCounts DEF Audited
<1>4. Audited(LAMBDA e : e.cost > 0) = SumFunction([q \in Request |-> Paying(q)])
  <2> DEFINE E == {e \in Event : e.cost > 0}
  <2>1. {i \in 1..Len(audit) : audit[i] \in E} = {i \in 1..Len(audit) : audit[i].cost > 0}
    BY <1>0
  <2>2. ASSUME NEW q \in Request
        PROVE  (IF Written(handler[q]) /\ AuditEvent(q) \in E THEN 1 ELSE 0) = Paying(q)
    BY <1>1, QuietFacts DEF Paying
  <2>3. [q \in Request |-> IF Written(handler[q]) /\ AuditEvent(q) \in E THEN 1 ELSE 0]
          = [q \in Request |-> Paying(q)]
    <3> HIDE DEF E
    <3> QED BY <2>2
  <2>4. E \in SUBSET Event
    OBVIOUS
  <2> HIDE DEF E
  <2> QED
    BY <2>1, <2>3, <2>4, LogCounts DEF Audited
<1>5. AuditedCost = SumFunction([q \in Request |-> handler[q].cost])
  <2> DEFINE w == [e \in Event |-> e.cost]
  <2>1. w \in [Event -> Int]
    BY DEF Event
  <2>2. [i \in 1..Len(audit) |-> w[audit[i]]] = [i \in 1..Len(audit) |-> audit[i].cost]
    BY <1>0
  <2>3. ASSUME NEW q \in Request PROVE Weight(w, q) = handler[q].cost
    BY <1>1, QuietFacts DEF Weight
  <2> HIDE DEF w
  <2>4. LogSum(w) = SumFunction([q \in Request |-> Weight(w, q)])
    BY <2>1 DEF LogOK
  <2>5. LogSum(w) = AuditedCost
    BY <2>2 DEF LogSum, AuditedCost
  <2>6. [q \in Request |-> Weight(w, q)] = [q \in Request |-> handler[q].cost]
    BY <2>3
  <2> QED
    BY <2>4, <2>5, <2>6
<1> QED
  BY <1>2, <1>3, <1>4, <1>5

(***************************************************************************)
(* And the counters agree with the log, the cost counter to within the     *)
(* fraction of a micro-dollar that RecordCost cuts off per charge          *)
(* (metrics.go RecordCost).                                                *)
(***************************************************************************)
LEMMA QuietMetrics ==
  ASSUME HInv, CountersOK, LogOK, Quiet
  PROVE  /\ metrics.requests - Len(audit) = Cardinality({q \in Request : Discarded(q)})
         /\ metrics.blocked = (metrics.requests - Len(audit)) + Audited(Refusal)
         /\ metrics.costMicro * Micro <= AuditedCost
         /\ AuditedCost - metrics.costMicro * Micro
              <= (Micro - 1) * Audited(LAMBDA e : e.cost > 0)
<1> DEFINE S(f) == SumFunctionOnSet(f, Request)
           counted == [q \in Request |-> Counted(handler[q])]
           turned == [q \in Request |-> TurnedAway(handler[q])]
           micros == [q \in Request |-> Micros(handler[q])]
           logged == [q \in Request |-> Logged(q)]
           refused == [q \in Request |-> Refused(q)]
           paying == [q \in Request |-> Paying(q)]
           cost == [q \in Request |-> handler[q].cost]
           bad == [q \in Request |-> Bad(q)]
           whole == [q \in Request |-> Micros(handler[q]) * Micro]
           slack == [q \in Request |-> Paying(q) * (Micro - 1)]
           top == [q \in Request |-> Micros(handler[q]) * Micro + Paying(q) * (Micro - 1)]
<1>0. IsFiniteSet(Request) /\ Micro \in Nat \ {0}
  BY ModeFacts
<1>1. \A q \in Request :
        /\ counted[q] = logged[q] + bad[q] /\ turned[q] = bad[q] + refused[q]
        /\ logged[q] \in Int /\ bad[q] \in Int /\ refused[q] \in Int
  <2>1. ASSUME NEW q \in Request
        PROVE  /\ Counted(handler[q]) = Logged(q) + Bad(q)
               /\ TurnedAway(handler[q]) = Bad(q) + Refused(q)
               /\ Logged(q) \in Int /\ Bad(q) \in Int /\ Refused(q) \in Int
    BY QuietFacts DEF Logged, Bad, Refused
  <2> QED
    BY <2>1
<1>2. \A q \in Request :
        /\ cost[q] \in Int /\ micros[q] \in Int /\ paying[q] \in Int /\ whole[q] \in Int
        /\ slack[q] \in Int /\ top[q] \in Int
        /\ whole[q] = micros[q] * Micro /\ slack[q] = paying[q] * (Micro - 1)
        /\ top[q] = whole[q] + slack[q] /\ whole[q] <= cost[q] /\ cost[q] <= top[q]
  <2>1. ASSUME NEW q \in Request
        PROVE  /\ handler[q].cost \in Nat /\ Micros(handler[q]) \in Nat /\ Paying(q) \in Nat
               /\ Micros(handler[q]) * Micro \in Nat /\ Paying(q) * (Micro - 1) \in Nat
               /\ Micros(handler[q]) * Micro <= handler[q].cost
               /\ handler[q].cost <= Micros(handler[q]) * Micro + Paying(q) * (Micro - 1)
    <3>1. handler[q].cost \in Nat
      BY QuietFacts DEF Handler
    <3>2. /\ Micros(handler[q]) \in Nat /\ Micros(handler[q]) * Micro \in Nat
          /\ Micros(handler[q]) * Micro <= handler[q].cost
          /\ handler[q].cost <= Micros(handler[q]) * Micro + (Micro - 1)
          /\ handler[q].cost = 0 => Micros(handler[q]) = 0
      BY <3>1, CutOff
    <3>3. CASE handler[q].cost > 0
      <4>1. Paying(q) = 1 /\ 1 * (Micro - 1) = Micro - 1
        BY <1>0, <3>3 DEF Paying
      <4> QED
        BY <1>0, <3>1, <3>2, <4>1
    <3>4. CASE handler[q].cost = 0
      <4>1. Paying(q) = 0 /\ 0 * (Micro - 1) = 0
        BY <1>0, <3>4 DEF Paying
      <4> QED
        BY <1>0, <3>1, <3>2, <3>4, <4>1
    <3> QED
      BY <3>1, <3>3, <3>4
  <2> QED
    BY <2>1
<1>3. /\ DOMAIN bad = Request
      /\ \A q \in Request :
           bad[q] = IF q \in {r \in Request : Discarded(r)} THEN 1 ELSE 0
  BY DEF Bad, Dropped, Discarded
<1>4. /\ metrics.requests = S(counted) /\ metrics.blocked = S(turned)
      /\ metrics.costMicro = S(micros)
  BY DEF CountersOK, SumFunction
<1>5. /\ Len(audit) = S(logged) /\ Audited(Refusal) = S(refused)
      /\ Audited(LAMBDA e : e.cost > 0) = S(paying) /\ AuditedCost = S(cost)
  BY QuietTotals DEF SumFunction
<1> HIDE DEF counted, turned, micros, logged, refused, paying, cost, bad, whole, slack, top
<1>6. S(bad) = Cardinality({q \in Request : Discarded(q)})
  BY <1>0, <1>3, SumCounts DEF SumFunction
<1>7. S(counted) = S(logged) + S(bad) /\ S(turned) = S(bad) + S(refused)
  BY <1>0, <1>1, SumPlus
<1>8. S(whole) = S(micros) * Micro
  BY <1>0, <1>2, SumTimes
<1>9. S(slack) = S(paying) * (Micro - 1)
  <2> DEFINE k == Micro - 1
  <2>1. k \in Int /\ \A q \in Request : paying[q] \in Int /\ slack[q] = paying[q] * k
    BY <1>0, <1>2
  <2> HIDE DEF k
  <2>2. S(slack) = S(paying) * k
    BY <1>0, <2>1, SumTimes
  <2> QED
    BY <2>2 DEF k
<1>10. S(top) = S(whole) + S(slack)
  BY <1>0, <1>2, SumPlus
<1>11. S(whole) <= S(cost) /\ S(cost) <= S(top)
  BY <1>0, <1>2, SumMonotone
<1>12. /\ S(logged) \in Int /\ S(bad) \in Int /\ S(refused) \in Int /\ S(cost) \in Int
       /\ S(whole) \in Int /\ S(slack) \in Int /\ S(paying) \in Int
  BY <1>0, <1>1, <1>2, SumInt
<1> HIDE DEF S
<1>13. /\ metrics.requests - Len(audit) = S(bad)
       /\ metrics.blocked = (metrics.requests - Len(audit)) + Audited(Refusal)
  BY <1>4, <1>5, <1>7, <1>12
<1>14. metrics.costMicro * Micro <= AuditedCost
  BY <1>4, <1>5, <1>8, <1>11
<1>15. AuditedCost - metrics.costMicro * Micro <= (Micro - 1) * Audited(LAMBDA e : e.cost > 0)
  <2>1. (Micro - 1) * S(paying) = S(slack)
    BY <1>0, <1>9, <1>12
  <2>2. AuditedCost - metrics.costMicro * Micro = S(cost) - S(whole)
    BY <1>4, <1>5, <1>8
  <2>3. S(cost) - S(whole) <= S(slack)
    BY <1>10, <1>11, <1>12
  <2> QED
    BY <1>5, <2>1, <2>2, <2>3
<1> QED
  BY <1>6, <1>13, <1>14, <1>15

(***************************************************************************)
(* Nothing has been counted or logged when the gateway starts (server.go   *)
(* New).                                                                   *)
(***************************************************************************)
LEMMA InitCounters == Init => CountersOK /\ LogOK
<1> SUFFICES ASSUME Init PROVE CountersOK /\ LogOK
  OBVIOUS
<1>1. \A q \in Request : /\ Tried(handler[q]) = 0 /\ Counted(handler[q]) = 0
                         /\ TurnedAway(handler[q]) = 0 /\ Micros(handler[q]) = 0
                         /\ ~Written(handler[q])
  <2>1. \A q \in Request : handler[q] = NewHandler
    BY DEF Init
  <2>2. /\ NewHandler.hop = 0 /\ NewHandler.pc = "idle" /\ NewHandler.status = 0
        /\ NewHandler.cost = 0
    BY DEF NewHandler
  <2>3. Micros(NewHandler) = 0
    BY <2>2, CutOff
  <2> QED
    BY <2>1, <2>2, <2>3 DEF Tried, Counted, TurnedAway, Written
<1>2. ASSUME NEW f, DOMAIN f = Request, \A q \in Request : f[q] = 0
      PROVE  SumFunction(f) = 0
  BY <1>2, ModeFacts, SumNothing
<1>3. CountersOK
  <2>1. /\ SumFunction([q \in Request |-> Tried(handler[q])]) = 0
        /\ SumFunction([q \in Request |-> Counted(handler[q])]) = 0
        /\ SumFunction([q \in Request |-> TurnedAway(handler[q])]) = 0
        /\ SumFunction([q \in Request |-> Micros(handler[q])]) = 0
    BY <1>1, <1>2
  <2> QED
    BY <2>1 DEF CountersOK, Init
<1>4. ASSUME NEW w \in [Event -> Int]
      PROVE  LogSum(w) = SumFunction([q \in Request |-> Weight(w, q)])
  <2> DEFINE f == [i \in 1..Len(audit) |-> w[audit[i]]]
  <2>1. DOMAIN f = {} /\ \A i \in {} : f[i] = 0
    BY DEF Init
  <2>2. IsFiniteSet({})
    BY FS_EmptySet
  <2> HIDE DEF f
  <2>3. SumFunction(f) = 0
    BY <2>1, <2>2, SumNothing
  <2>4. \A q \in Request : Weight(w, q) = 0
    BY <1>1 DEF Weight
  <2>5. SumFunction([q \in Request |-> Weight(w, q)]) = 0
    BY <1>2, <2>4
  <2> QED
    BY <2>3, <2>5 DEF LogSum, f
<1> QED
  BY <1>3, <1>4 DEF LogOK

(***************************************************************************)
(* Whatever fails and whoever goes, each counter is at every moment the    *)
(* sum of what the requests have added to it: attempts beyond the first,   *)
(* requests begun, requests turned away and whole micro-dollars            *)
(* (metrics.go). No early return forgets a counter and no failover counts  *)
(* twice.                                                                  *)
(***************************************************************************)
THEOREM CountersTheorem == Spec => []CountersOK
<1>1. HInv /\ CountersOK /\ [Next]_vars => CountersOK'
  BY CountersKept
<1> QED
  BY <1>1, InitCounters, HandlersInv, PTL DEF Spec

(***************************************************************************)
(* As long as SQLite works and clients stay, metrics, requests and audit   *)
(* log tell one story: every failover counted, every request turned away   *)
(* counted once, costs short by less than a micro-dollar an event, and no  *)
(* request given up before every candidate was tried.                      *)
(***************************************************************************)
THEOREM MetricsTheorem == Clean => (Spec => []MetricsAgree)
<1> SUFFICES ASSUME Clean PROVE Spec => []MetricsAgree
  OBVIOUS
<1>1. HInv /\ CountersOK /\ LogOK /\ [Next]_vars => (CountersOK /\ LogOK)'
  BY CountersKept, LogKept
<1>2. HInv /\ CountersOK /\ LogOK => MetricsAgree
  <2> SUFFICES ASSUME HInv, CountersOK, LogOK PROVE MetricsAgree
    OBVIOUS
  <2>1. metrics.failovers = SumFunction([q \in Request |-> Failovers(q)])
    BY DEF CountersOK, Tried, Failovers
  <2>2. \A q \in Request : handler[q].status = 502 => handler[q].hop = Len(CandidatesOf(q))
    BY DEF HInv, HandlersOK, Progress, CandidatesOf
  <2> QED
    BY <2>1, <2>2, QuietMetrics DEF MetricsAgree
<1> QED
  BY <1>1, <1>2, InitCounters, HandlersInv, PTL DEF Spec
=============================================================================
