--------------------------- MODULE ProviderProofs ---------------------------
(***************************************************************************)
(* Proofs about module Provider, for any number of callers, any pools of   *)
(* keys and any width of the machine word.                                 *)
(***************************************************************************)
EXTENDS Provider, SequenceTheorems, FiniteSetTheorems, WellFoundedInduction, TLAPS

Fields == DOMAIN Idle

(***************************************************************************)
(* The counter and the number each caller has drawn from it.               *)
(***************************************************************************)
CounterOK ==
  /\ nextKey \in 0..(2 * Half - 1) /\ calls \in Nat
  /\ Pool > 0 /\ calls < 2 * Half => nextKey = calls

PoolOK == config \in Configs /\ Pool \in Nat /\ DOMAIN uses = 0..(Pool - 1)

DrawnOK(q) ==
  At(q, "pick") => /\ Pool > 0
                   /\ call[q].idx \in 0..(2 * Half - 1)
                   /\ calls <= Half => call[q].idx \in 1..Half

IInv ==
  /\ CounterOK /\ PoolOK
  /\ DOMAIN call = Caller /\ \A q \in Caller : DOMAIN call[q] = Fields
  /\ \A q \in Caller : DrawnOK(q)
  /\ PanicOnlyAfterWrap

(***************************************************************************)
(* The arithmetic of NextKey: the int made of a number up to Half, less    *)
(* one, is not negative, though Half itself becomes the least int.         *)
(***************************************************************************)
LEMMA Shifted == ASSUME NEW idx \in 1..Half PROVE Minus1(Signed(idx)) = idx - 1
BY ProviderAssumption DEF Minus1, Signed

(***************************************************************************)
(* Up to half the range of the counter the index stays inside the pool     *)
(* (router.go NextKey).                                                    *)
(***************************************************************************)
LEMMA IndexInRange ==
  ASSUME NEW idx \in 1..Half, Pool \in Nat, Pool > 0
  PROVE  KeyIndex(idx) \in 0..(Pool - 1)
<1>1. KeyIndex(idx) = (idx - 1) % Pool
  BY Shifted, ProviderAssumption DEF KeyIndex, Rem
<1> QED
  BY <1>1, ProviderAssumption

(***************************************************************************)
(* A pool of one key is indexed inside it whatever the counter (router.go  *)
(* NextKey).                                                               *)
(***************************************************************************)
LEMMA OneKeyInRange ==
  ASSUME NEW idx \in 0..(2 * Half - 1), Pool = 1 PROVE KeyIndex(idx) = 0
<1>1. Minus1(Signed(idx)) \in Int
  BY ProviderAssumption DEF Minus1, Signed
<1>2. \A n \in Int : Rem(n, 1) = 0
  BY DEF Rem
<1> QED
  BY <1>1, <1>2 DEF KeyIndex

(***************************************************************************)
(* The counter stays in its range, and counts on until it wraps.           *)
(***************************************************************************)
LEMMA Counts ==
  ASSUME NEW n \in 0..(2 * Half - 1)
  PROVE  /\ (n + 1) % (2 * Half) \in 0..(2 * Half - 1)
         /\ n + 1 < 2 * Half => (n + 1) % (2 * Half) = n + 1
BY ProviderAssumption

(***************************************************************************)
(* A step that gives one caller a new record and leaves the pool alone     *)
(* keeps the invariant if the caller neither draws nor panics.             *)
(***************************************************************************)
LEMMA Elsewhere ==
  ASSUME IInv, UNCHANGED pool, NEW q \in Caller, NEW r,
         Update(q, r), DOMAIN r = Fields, r.pc \notin {"pick", "panicked"}
  PROVE  IInv'
<1>1. CounterOK' /\ PoolOK'
  BY DEF IInv, CounterOK, PoolOK, Pool, pool
<1>2. DOMAIN call' = Caller /\ \A p \in Caller : DOMAIN call'[p] = Fields
  BY DEF IInv, Update
<1>3. \A p \in Caller : p # q => call'[p] = call[p]
  BY DEF IInv, Update
<1>4. call'[q] = r
  BY DEF IInv, Update
<1>5. \A p \in Caller : DrawnOK(p)'
  BY <1>3, <1>4 DEF IInv, DrawnOK, At, Pool, pool
<1>6. PanicOnlyAfterWrap'
  BY <1>3, <1>4 DEF IInv, PanicOnlyAfterWrap, At, Pool, pool
<1> QED
  BY <1>1, <1>2, <1>5, <1>6 DEF IInv

(***************************************************************************)
(* What the steps between an upstream's answer and the client have in      *)
(* common: a call that is on its way stays on it or ends, unpriced; a copy *)
(* that goes on has an answer; chunks are read one by one and passed on    *)
(* all at once or not at all.                                              *)
(***************************************************************************)
Copying == {"stream", "write"}

Passes(c, s) ==
  /\ c.pc \in Running
  /\ s.pc \in Copying \cup {"flush", "streamed", "cut", "failed"}
  /\ s.pc \in Copying => c.pc \in Copying
  /\ s.chat = c.chat /\ s.idx = c.idx /\ s.sent = c.sent /\ s.left = c.left
  /\ s.answer = c.answer /\ s.tokens = c.tokens
  /\ \/ s.chunks = c.chunks /\ s.passed \in {c.passed, c.chunks}
     \/ s.chunks = c.chunks + 1 /\ c.chunks < Chunks /\ s.passed = c.passed

(***************************************************************************)
(* It is so of writeStream's copy (chat.go), of whatever breaks a call     *)
(* off, and of a client that reads or leaves.                              *)
(***************************************************************************)
LEMMA Passing ==
  ASSUME NEW q \in Caller, DOMAIN call[q] = Fields,
         \/ CopyChunk(q) \/ EndOfStream(q) \/ ClientReads(q) \/ ClientGone(q)
         \/ \E why : BreakOff(q, why)
  PROVE  \E s : /\ Update(q, s) /\ UNCHANGED pool
               /\ DOMAIN s = Fields /\ Passes(call[q], s)
<1>1. PICK c : c = call[q] /\ DOMAIN c = Fields
  OBVIOUS
<1>2. CASE CopyChunk(q)
  <2>1. PICK n, w, s : /\ n = c.chunks + 1 /\ w \in Copying /\ Update(q, s)
                       /\ s = [c EXCEPT !.chunks = n, !.pc = w]
    BY <1>1, <1>2 DEF CopyChunk, At, Copying
  <2>2. /\ DOMAIN s = Fields /\ s.pc = w /\ s.chat = c.chat /\ s.idx = c.idx /\ s.sent = c.sent
        /\ s.left = c.left /\ s.answer = c.answer /\ s.tokens = c.tokens
        /\ s.chunks = n /\ s.passed = c.passed
    BY <1>1, <2>1 DEF Fields, Idle
  <2>3. c.pc = "stream" /\ c.chunks < Chunks /\ UNCHANGED pool
    BY <1>1, <1>2 DEF CopyChunk, At
  <2> QED BY <1>1, <2>1, <2>2, <2>3 DEF Passes, Copying, Running, Reading
<1>3. CASE EndOfStream(q)
  <2>1. PICK s : Update(q, s) /\ s = [c EXCEPT !.pc = "flush"]
    BY <1>1, <1>3 DEF EndOfStream
  <2>2. /\ DOMAIN s = Fields /\ s.pc = "flush" /\ s.chat = c.chat /\ s.idx = c.idx
        /\ s.sent = c.sent /\ s.left = c.left /\ s.answer = c.answer /\ s.tokens = c.tokens
        /\ s.chunks = c.chunks /\ s.passed = c.passed
    BY <1>1, <2>1 DEF Fields, Idle
  <2>3. c.pc = "stream" /\ UNCHANGED pool
    BY <1>1, <1>3 DEF EndOfStream, At
  <2> QED BY <1>1, <2>1, <2>2, <2>3 DEF Passes, Copying, Running, Reading
<1>4. CASE ClientReads(q)
  <2>1. PICK n, w, s : /\ n = c.chunks /\ w \in {"stream", "streamed", "cut"}
                       /\ w = "stream" => c.pc = "write"
                       /\ Update(q, s) /\ s = [c EXCEPT !.passed = n, !.pc = w]
    BY <1>1, <1>4 DEF ClientReads, Fields, Idle
  <2>2. /\ DOMAIN s = Fields /\ s.pc = w /\ s.chat = c.chat /\ s.idx = c.idx /\ s.sent = c.sent
        /\ s.left = c.left /\ s.answer = c.answer /\ s.tokens = c.tokens
        /\ s.chunks = c.chunks /\ s.passed = n
    BY <1>1, <2>1 DEF Fields, Idle
  <2>3. c.pc \in Writing /\ UNCHANGED pool
    BY <1>1, <1>4 DEF ClientReads
  <2> QED BY <1>1, <2>1, <2>2, <2>3 DEF Passes, Copying, Running
<1>5. ASSUME NEW s, NEW y, NEW w \in {"flush", "cut", "failed"}, c.pc \in Running,
             s = [c EXCEPT !.why = y, !.pc = w]
      PROVE  DOMAIN s = Fields /\ Passes(c, s)
  <2>1. /\ DOMAIN s = Fields /\ s.pc = w /\ s.chat = c.chat /\ s.idx = c.idx /\ s.sent = c.sent
        /\ s.left = c.left /\ s.answer = c.answer /\ s.tokens = c.tokens
        /\ s.chunks = c.chunks /\ s.passed = c.passed
    BY <1>1, <1>5 DEF Fields, Idle
  <2> QED BY <1>5, <2>1 DEF Passes, Copying
<1>6. CASE ClientGone(q)
  <2>1. PICK w \in {"flush", "cut", "failed"} : Update(q, [c EXCEPT !.why = "client", !.pc = w])
    BY <1>1, <1>6 DEF ClientGone
  <2>2. c.pc \in Running /\ UNCHANGED pool
    BY <1>1, <1>6 DEF ClientGone
  <2> QED BY <1>1, <1>5, <2>1, <2>2
<1>7. ASSUME NEW why, BreakOff(q, why)
      PROVE  \E s : /\ Update(q, s) /\ UNCHANGED pool
                   /\ DOMAIN s = Fields /\ Passes(call[q], s)
  <2>1. PICK w \in {"flush", "cut", "failed"} : Update(q, [c EXCEPT !.why = why, !.pc = w])
    BY <1>1, <1>7 DEF BreakOff
  <2>2. c.pc \in Running /\ UNCHANGED pool
    BY <1>1, <1>7 DEF BreakOff, Running
  <2> QED BY <1>1, <1>5, <2>1, <2>2
<1> QED BY <1>2, <1>3, <1>4, <1>6, <1>7

(***************************************************************************)
(* The counter, the pool and the numbers drawn stay as they should.        *)
(***************************************************************************)
THEOREM Inductive == Spec => []IInv
<1>1. Init => IInv
  <2> SUFFICES ASSUME Init PROVE IInv
    OBVIOUS
  <2>1. config \in Configs /\ config.keys \in Seq(Key)
    BY ProviderAssumption DEF Init, ProviderConfig
  <2>2. Pool \in Nat
    BY <2>1, LenProperties DEF Pool
  <2>3. CounterOK /\ PoolOK
    BY <2>1, <2>2, ProviderAssumption DEF Init, CounterOK, PoolOK
  <2>4. \A q \in Caller : call[q] = Idle /\ call[q].pc = "idle"
    BY DEF Init, Idle
  <2>5. DOMAIN call = Caller
    BY DEF Init
  <2> QED
    BY <2>3, <2>4, <2>5 DEF IInv, Fields, DrawnOK, PanicOnlyAfterWrap, At
<1>2. IInv /\ [Next]_vars => IInv'
  <2> SUFFICES ASSUME IInv, [Next]_vars PROVE IInv'
    OBVIOUS
  <2>1. CASE Tick
    <3>1. UNCHANGED pool /\ DOMAIN call' = Caller
      BY <2>1 DEF Tick
    <3>2. ASSUME NEW q \in Caller
          PROVE  DOMAIN call'[q] = Fields /\ call'[q].pc = call[q].pc /\ call'[q].idx = call[q].idx
      <4>1. DOMAIN call[q] = Fields
        BY DEF IInv
      <4>2. call'[q] = call[q] \/ call'[q] = [call[q] EXCEPT !.left = @ - 1]
        BY <2>1 DEF Tick
      <4> QED
        BY <4>1, <4>2 DEF Fields, Idle
    <3>3. CounterOK' /\ PoolOK'
      BY <3>1 DEF IInv, CounterOK, PoolOK, Pool, pool
    <3>4. \A q \in Caller : DrawnOK(q)'
      BY <3>1, <3>2 DEF IInv, DrawnOK, At, Pool, pool
    <3>5. PanicOnlyAfterWrap'
      BY <3>1, <3>2 DEF IInv, PanicOnlyAfterWrap, At, Pool, pool
    <3> QED
      BY <3>1, <3>2, <3>3, <3>4, <3>5 DEF IInv
  <2>2. ASSUME NEW q \in Caller, NEW chat \in Chats, Call(q, chat) PROVE IInv'
    <3> DEFINE r == [Idle EXCEPT !.chat = chat,
                       !.sent = IF chat.stream /\ Converts THEN NoRequest ELSE RequestFor(chat),
                       !.pc = IF chat.stream /\ Converts THEN "failed" ELSE "draw"]
    <3>1. PICK s : s = r
      OBVIOUS
    <3>2. DOMAIN s = Fields /\ s.pc \notin {"pick", "panicked"}
      BY <3>1 DEF Fields, Idle
    <3>3. UNCHANGED pool /\ Update(q, s)
      BY <2>2, <3>1 DEF Call
    <3> QED
      BY <3>2, <3>3, Elsewhere
  <2>3. ASSUME NEW q \in Caller, Draw(q) PROVE IInv'
    <3>1. /\ calls' = calls + 1 /\ nextKey' = (nextKey + 1) % (2 * Half)
          /\ UNCHANGED <<config, uses>> /\ Pool > 0
      BY <2>3 DEF Draw
    <3>2. Pool' = Pool
      BY <3>1 DEF Pool
    <3>3. CounterOK' /\ PoolOK'
      BY <3>1, <3>2, Counts, ProviderAssumption DEF IInv, CounterOK, PoolOK
    <3>4. PICK s : s = [call[q] EXCEPT !.idx = nextKey', !.pc = "pick"]
      OBVIOUS
    <3>5. DOMAIN s = Fields /\ s.pc = "pick" /\ s.idx = nextKey'
      BY <3>4 DEF IInv, Fields, Idle
    <3>6. call' = [call EXCEPT ![q] = s]
      BY <2>3, <3>4 DEF Draw, Update
    <3>7. /\ DOMAIN call' = Caller /\ call'[q] = s
          /\ \A p \in Caller : p # q => call'[p] = call[p]
      BY <3>6 DEF IInv
    <3>8. DrawnOK(q)'
      <4>1. calls' <= Half => nextKey' \in 1..Half
        BY <3>1, <3>3, <3>2, ProviderAssumption DEF IInv, CounterOK
      <4> QED
        BY <3>1, <3>2, <3>3, <3>5, <3>7, <4>1 DEF DrawnOK, CounterOK
    <3>9. ASSUME NEW p \in Caller, p # q PROVE DrawnOK(p)'
      BY <3>1, <3>2, <3>7, <3>9, ProviderAssumption DEF IInv, DrawnOK, At, CounterOK
    <3>10. PanicOnlyAfterWrap'
      BY <3>1, <3>2, <3>5, <3>7, ProviderAssumption DEF IInv, PanicOnlyAfterWrap, At, CounterOK
    <3> QED
      BY <3>3, <3>5, <3>7, <3>8, <3>9, <3>10 DEF IInv
  <2>4. ASSUME NEW q \in Caller, SendWithoutKey(q) \/ SendWithKey(q) PROVE IInv'
    <3>1. /\ calls' \in {calls, calls + 1} /\ UNCHANGED <<config, nextKey>>
          /\ DOMAIN uses' = DOMAIN uses /\ (Pool > 0 => calls' = calls)
      BY <2>4 DEF SendWithoutKey, SendWithKey, IInv, DrawnOK
    <3>2. Pool' = Pool
      BY <3>1 DEF Pool
    <3>3. CounterOK' /\ PoolOK'
      BY <3>1, <3>2 DEF IInv, CounterOK, PoolOK
    <3>4. PICK s : s = [call[q] EXCEPT !.pc = "sent", !.left = Timeout]
      OBVIOUS
    <3>5. DOMAIN s = Fields /\ s.pc = "sent"
      BY <3>4 DEF IInv, Fields, Idle
    <3>6. call' = [call EXCEPT ![q] = s]
      BY <2>4, <3>4 DEF SendWithoutKey, SendWithKey, Send, Update
    <3>7. /\ DOMAIN call' = Caller /\ call'[q] = s
          /\ \A p \in Caller : p # q => call'[p] = call[p]
      BY <3>6 DEF IInv
    <3>8. \A p \in Caller : DrawnOK(p)'
      BY <3>1, <3>2, <3>5, <3>7 DEF IInv, DrawnOK, At, CounterOK
    <3>9. PanicOnlyAfterWrap'
      BY <3>1, <3>2, <3>5, <3>7, ProviderAssumption DEF IInv, PanicOnlyAfterWrap, At, CounterOK
    <3> QED
      BY <3>3, <3>5, <3>7, <3>8, <3>9 DEF IInv
  <2>5. ASSUME NEW q \in Caller, Panic(q) PROVE IInv'
    <3>1. UNCHANGED pool /\ Pool' = Pool
      BY <2>5 DEF Panic, Pool, pool
    <3>2. /\ Pool \in Nat /\ Pool > 0 /\ call[q].idx \in 0..(2 * Half - 1)
          /\ calls <= Half => call[q].idx \in 1..Half
      BY <2>5 DEF Panic, IInv, DrawnOK, PoolOK
    <3>3. PICK idx : idx = call[q].idx
      OBVIOUS
    <3>4. KeyIndex(idx) \notin 0..(Pool - 1)
      BY <2>5, <3>3 DEF Panic, IInv, PoolOK
    <3>5. idx \notin 1..Half
      BY <3>2, <3>4, IndexInRange
    <3>6. Pool # 1
      BY <3>2, <3>3, <3>4, OneKeyInRange
    <3>7. calls > Half
      BY <3>2, <3>3, <3>5, ProviderAssumption DEF IInv, CounterOK
    <3>8. PICK s : s = [call[q] EXCEPT !.pc = "panicked"]
      OBVIOUS
    <3>9. DOMAIN s = Fields /\ s.pc = "panicked" /\ s.idx = idx
      BY <3>3, <3>8 DEF IInv, Fields, Idle
    <3>10. call' = [call EXCEPT ![q] = s]
      BY <2>5, <3>8 DEF Panic, Update
    <3>11. /\ DOMAIN call' = Caller /\ call'[q] = s
           /\ \A p \in Caller : p # q => call'[p] = call[p]
      BY <3>10 DEF IInv
    <3>12. CounterOK' /\ PoolOK'
      BY <3>1 DEF IInv, CounterOK, PoolOK, pool
    <3>13. \A p \in Caller : DrawnOK(p)'
      BY <3>1, <3>9, <3>11 DEF IInv, DrawnOK, At, pool
    <3>14. PanicOnlyAfterWrap'
      BY <3>1, <3>2, <3>5, <3>6, <3>7, <3>9, <3>11 DEF IInv, PanicOnlyAfterWrap, At, pool
    <3> QED
      BY <3>9, <3>11, <3>12, <3>13, <3>14 DEF IInv
  <2>6. ASSUME NEW q \in Caller, NEW a \in Answers, Respond(q, a) PROVE IInv'
    <3>1. PICK s : s = [call[q] EXCEPT !.answer = a,
                         !.pc = IF call[q].chat.stream /\ ~Retryable(a.status) THEN "stream" ELSE "read"]
      OBVIOUS
    <3>2. DOMAIN s = Fields /\ s.pc \notin {"pick", "panicked"}
      BY <3>1 DEF IInv, Fields, Idle
    <3> QED
      BY <2>6, <3>1, <3>2, Elsewhere DEF Respond
  <2>7. ASSUME NEW q \in Caller, ReadBody(q) PROVE IInv'
    <3>1. PICK s : /\ Update(q, s)
                   /\ \/ s = [call[q] EXCEPT !.pc = "retry"]
                      \/ \E n : s = [call[q] EXCEPT !.pc = "answered", !.tokens = n]
                      \/ s = [call[q] EXCEPT !.pc = "failed", !.why = "upstream"]
      BY <2>7 DEF ReadBody, Return
    <3>2. DOMAIN s = Fields /\ s.pc \notin {"pick", "panicked"}
      BY <3>1 DEF IInv, Fields, Idle
    <3> QED
      BY <2>7, <3>1, <3>2, Elsewhere DEF ReadBody
  <2>8. ASSUME NEW q \in Caller,
               \/ CopyChunk(q) \/ EndOfStream(q) \/ ClientReads(q) \/ ClientGone(q)
               \/ \E why : BreakOff(q, why)
        PROVE  IInv'
    <3>1. PICK s : /\ Update(q, s) /\ UNCHANGED pool
                   /\ DOMAIN s = Fields /\ Passes(call[q], s)
      BY <2>8, Passing DEF IInv
    <3>2. s.pc \notin {"pick", "panicked"}
      BY <3>1 DEF Passes, Copying
    <3> QED
      BY <3>1, <3>2, Elsewhere
  <2>9. CASE UNCHANGED vars
    <3>1. Pool' = Pool /\ UNCHANGED <<config, nextKey, calls, uses, call>>
      BY <2>9 DEF vars, Pool
    <3>2. CounterOK' /\ PoolOK'
      BY <3>1 DEF IInv, CounterOK, PoolOK
    <3>3. (\A q \in Caller : DrawnOK(q)') /\ PanicOnlyAfterWrap'
      BY <3>1 DEF IInv, DrawnOK, PanicOnlyAfterWrap, At
    <3> QED
      BY <3>1, <3>2, <3>3 DEF IInv
  <2> QED
    BY <2>1, <2>2, <2>3, <2>4, <2>5, <2>6, <2>7, <2>8, <2>9
       DEF Next, Step, UpstreamFails, TimeoutFires
<1> QED
  BY <1>1, <1>2, PTL DEF Spec

(***************************************************************************)
(* The index of a key is in range until the counter has wrapped, for all   *)
(* pools, widths and interleavings.                                        *)
(***************************************************************************)
THEOREM KeysInRange == Spec => []PanicOnlyAfterWrap
<1>1. IInv => PanicOnlyAfterWrap
  BY DEF IInv
<1> QED
  BY <1>1, Inductive, PTL

----------------------------------------------------------------------------
(***************************************************************************)
(* Induction over the naturals: G holds the numbers for which what is to   *)
(* be shown holds.                                                         *)
(***************************************************************************)
LEMMA NaturalInduction ==
  ASSUME NEW G, 0 \in G, \A n \in Nat : n \in G => n + 1 \in G
  PROVE  Nat \subseteq G
<1> DEFINE Bad == Nat \ G
<1> SUFFICES ASSUME Bad # {} PROVE FALSE
  OBVIOUS
<1>1. PICK n \in Bad : \A m \in Bad : ~(<<m, n>> \in OpToRel(<, Nat))
  BY NatLessThanWellFounded, WFMin
<1>2. n \in Nat /\ n # 0 /\ n \notin G
  OBVIOUS
<1>3. n - 1 \in Nat /\ (n - 1) + 1 = n /\ n - 1 < n
  BY <1>2
<1>4. n - 1 \in Bad
  BY <1>2, <1>3
<1>5. <<n - 1, n>> \in OpToRel(<, Nat)
  BY <1>2, <1>3 DEF OpToRel
<1> QED
  BY <1>1, <1>4, <1>5

(***************************************************************************)
(* The loop of an adapter over the messages, and that it has a result.     *)
(***************************************************************************)
Loop(messages, roles, kept, i) ==
  IF i = 0 THEN <<>>
  ELSE IF messages[i].role \in roles THEN Append(kept[i - 1], messages[i])
  ELSE kept[i - 1]
Runs(messages, roles, n, kept) == kept = [i \in 0..n |-> Loop(messages, roles, kept, i)]

(***************************************************************************)
(* The loop can be run over any number of messages: some list of           *)
(* successive results exists that follows it step by step.                 *)
(***************************************************************************)
LEMMA LoopRuns ==
  ASSUME NEW messages, NEW roles, NEW n \in Nat
  PROVE  \E kept : Runs(messages, roles, n, kept)
<1> DEFINE R(m, kept) == Runs(messages, roles, m, kept)
           L(kept, i) == Loop(messages, roles, kept, i)
           G == {m \in Nat : \E kept : R(m, kept)}
<1>1. 0 \in G
  <2> DEFINE kept == [i \in 0..0 |-> <<>>]
  <2>1. R(0, kept)
    BY DEF Runs, Loop
  <2> QED BY <2>1
<1>2. ASSUME NEW m \in Nat, m \in G PROVE m + 1 \in G
  <2>1. PICK kept : R(m, kept)
    BY <1>2
  <2> DEFINE more == [i \in 0..(m + 1) |-> L(kept, i)]
  <2>2. ASSUME NEW i \in 0..(m + 1) PROVE L(more, i) = L(kept, i)
    <3>1. CASE i = 0
      BY <3>1 DEF Loop
    <3>2. CASE i # 0
      <4>1. i - 1 \in 0..m /\ i - 1 \in 0..(m + 1)
        BY <3>2
      <4>2. more[i - 1] = kept[i - 1]
        BY <2>1, <4>1 DEF Runs
      <4> HIDE DEF more
      <4> QED BY <3>2, <4>2 DEF Loop
    <3> QED BY <3>1, <3>2
  <2>3. more = [i \in 0..(m + 1) |-> L(more, i)]
    BY <2>2
  <2> HIDE DEF more
  <2>4. R(m + 1, more)
    BY <2>3 DEF Runs
  <2> QED BY <2>4
<1>3. Nat \subseteq G
  <2> HIDE DEF G
  <2> QED BY <1>1, <1>2, NaturalInduction
<1> QED BY <1>3

(***************************************************************************)
(* OfRole is what the loop has kept at its end.                            *)
(***************************************************************************)
LEMMA OfRoleIsLoop ==
  ASSUME NEW messages, NEW roles, Len(messages) \in Nat
  PROVE  \E kept : /\ Runs(messages, roles, Len(messages), kept)
                   /\ OfRole(messages, roles) = kept[Len(messages)]
<1> DEFINE kept == CHOOSE k : Runs(messages, roles, Len(messages), k)
<1>1. OfRole(messages, roles) = kept[Len(messages)]
  BY DEF OfRole, Runs, Loop
<1>2. Runs(messages, roles, Len(messages), kept)
  BY LoopRuns
<1> HIDE DEF kept
<1> QED BY <1>1, <1>2

(***************************************************************************)
(* The messages under some roles among the first i, and their number.      *)
(***************************************************************************)
Those(messages, roles, i) == {j \in 1..i : messages[j].role \in roles}
Number(messages, roles, i) == Cardinality(Those(messages, roles, i))

(***************************************************************************)
(* One message more is one more of its role, and none more of another.     *)
(***************************************************************************)
LEMMA NumberSteps ==
  ASSUME NEW messages, NEW roles, NEW i \in Nat
  PROVE  /\ Number(messages, roles, i) \in Nat
         /\ Number(messages, roles, 0) = 0
         /\ messages[i + 1].role \in roles =>
              Number(messages, roles, i + 1) = Number(messages, roles, i) + 1
         /\ messages[i + 1].role \notin roles =>
              Number(messages, roles, i + 1) = Number(messages, roles, i)
<1> DEFINE S == Those(messages, roles, i)
           T == Those(messages, roles, i + 1)
<1>1. IsFiniteSet(1..i) /\ S \subseteq 1..i
  BY FS_Interval DEF Those
<1>2. IsFiniteSet(S)
  <2> HIDE DEF S
  <2> QED BY <1>1, FS_Subset
<1>3. Cardinality(S) \in Nat
  BY <1>2, FS_CardinalityType
<1>4. Those(messages, roles, 0) = {} /\ Cardinality({}) = 0
  BY FS_EmptySet DEF Those
<1>5. i + 1 \notin S /\ 1..(i + 1) = 1..i \cup {i + 1}
  BY DEF Those
<1>6. T = IF messages[i + 1].role \in roles THEN S \cup {i + 1} ELSE S
  BY <1>5 DEF Those
<1> HIDE DEF S, T
<1>7. Cardinality(S \cup {i + 1}) = Cardinality(S) + 1
  BY <1>2, <1>5, FS_AddElement
<1>8. /\ messages[i + 1].role \in roles => Cardinality(T) = Cardinality(S) + 1
      /\ messages[i + 1].role \notin roles => Cardinality(T) = Cardinality(S)
  BY <1>6, <1>7
<1> QED BY <1>3, <1>4, <1>8 DEF Number, S, T

(***************************************************************************)
(* What OfRole returns: as many messages as have one of the roles, and     *)
(* each of these at its place among them.                                  *)
(***************************************************************************)
LEMMA OfRoleKeeps ==
  ASSUME NEW M, NEW messages \in Seq(M), NEW roles
  PROVE  /\ OfRole(messages, roles) \in Seq(M)
         /\ Len(OfRole(messages, roles)) = Number(messages, roles, Len(messages))
         /\ \A j \in 1..Len(messages) :
              messages[j].role \in roles =>
                /\ Number(messages, roles, j) \in 1..Len(OfRole(messages, roles))
                /\ OfRole(messages, roles)[Number(messages, roles, j)] = messages[j]
<1> DEFINE n == Len(messages)
           N == [i \in Nat |-> Number(messages, roles, i)]
           Good(k, i) ==
             /\ k \in Seq(M) /\ Len(k) = N[i]
             /\ \A j \in 1..i : messages[j].role \in roles => N[j] \in 1..Len(k) /\ k[N[j]] = messages[j]
<1>1. n \in Nat /\ \A i \in 1..n : messages[i] \in M
  OBVIOUS
<1>2. PICK kept : Runs(messages, roles, n, kept) /\ OfRole(messages, roles) = kept[n]
  BY <1>1, OfRoleIsLoop
<1>3. ASSUME NEW i \in Nat
      PROVE  /\ N[i] \in Nat /\ N[0] = 0
             /\ messages[i + 1].role \in roles => N[i + 1] = N[i] + 1
             /\ messages[i + 1].role \notin roles => N[i + 1] = N[i]
  <2>1. N[i] = Number(messages, roles, i) /\ N[0] = Number(messages, roles, 0) /\ i + 1 \in Nat
    OBVIOUS
  <2>2. N[i + 1] = Number(messages, roles, i + 1)
    BY <2>1
  <2> HIDE DEF N
  <2> QED BY <2>1, <2>2, NumberSteps
<1> DEFINE G == {i \in Nat : i <= n => Good(kept[i], i)}
<1> HIDE DEF N
<1>4. 0 \in G
  <2>1. kept[0] = <<>>
    BY <1>1, <1>2 DEF Runs, Loop
  <2>2. <<>> \in Seq(M) /\ Len(<<>>) = 0 /\ N[0] = 0 /\ 1..0 = {}
    BY <1>3
  <2>3. PICK k : k = kept[0]
    OBVIOUS
  <2>4. Good(k, 0)
    BY <2>1, <2>2, <2>3
  <2> QED BY <2>3, <2>4
<1>5. ASSUME NEW i \in Nat, i \in G PROVE i + 1 \in G
  <2> SUFFICES ASSUME i + 1 <= n PROVE Good(kept[i + 1], i + 1)
    OBVIOUS
  <2>1. Good(kept[i], i) /\ i + 1 \in 0..n /\ i + 1 \in 1..n
    BY <1>1, <1>5
  <2>2. kept[i + 1] = IF messages[i + 1].role \in roles THEN Append(kept[i], messages[i + 1]) ELSE kept[i]
    <3>1. kept[i + 1] = Loop(messages, roles, kept, i + 1)
      BY <1>2, <2>1 DEF Runs
    <3>2. (i + 1) - 1 = i /\ i + 1 # 0
      OBVIOUS
    <3> QED BY <3>1, <3>2 DEF Loop
  <2>3. PICK k, m : k = kept[i] /\ m = messages[i + 1]
    OBVIOUS
  <2>4. 1..(i + 1) = 1..i \cup {i + 1}
    OBVIOUS
  <2>5. m \in M /\ N[i] \in Nat /\ \A j \in 1..i : N[j] \in Nat
    BY <1>1, <1>3, <2>1, <2>3
  <2>6. CASE m.role \in roles
    <3>1. N[i + 1] = N[i] + 1 /\ kept[i + 1] = Append(k, m)
      BY <1>3, <2>2, <2>3, <2>6
    <3>2. k \in Seq(M) /\ Len(k) = N[i]
      BY <2>1, <2>3
    <3>3. /\ Append(k, m) \in Seq(M) /\ Len(Append(k, m)) = N[i + 1]
          /\ Append(k, m)[N[i + 1]] = m
          /\ \A x \in 1..Len(k) : Append(k, m)[x] = k[x]
      BY <2>5, <3>1, <3>2
    <3>4. ASSUME NEW j \in 1..i, messages[j].role \in roles
          PROVE  N[j] \in 1..N[i + 1] /\ Append(k, m)[N[j]] = messages[j]
      <4>1. N[j] \in 1..Len(k) /\ k[N[j]] = messages[j]
        BY <2>1, <2>3, <3>4
      <4> QED BY <2>5, <3>1, <3>2, <3>3, <4>1
    <3>5. N[i + 1] \in 1..N[i + 1]
      BY <2>5, <3>1
    <3> QED BY <2>3, <2>4, <3>1, <3>3, <3>4, <3>5
  <2>7. CASE m.role \notin roles
    <3>1. N[i + 1] = N[i] /\ kept[i + 1] = k
      BY <1>3, <2>2, <2>3, <2>5, <2>7
    <3> QED BY <2>1, <2>3, <2>4, <2>7, <3>1
  <2> QED BY <2>6, <2>7
<1>6. Nat \subseteq G
  <2> HIDE DEF G
  <2> QED BY <1>4, <1>5, NaturalInduction
<1>7. Good(kept[n], n)
  <2>1. n \in G
    BY <1>1, <1>6
  <2> QED BY <1>1, <2>1
<1>8. \A j \in 0..n : N[j] = Number(messages, roles, j)
  BY <1>1 DEF N
<1> QED BY <1>1, <1>2, <1>7, <1>8

(***************************************************************************)
(* Every message is an instruction or a turn.                              *)
(***************************************************************************)
Message == [role : Role, text : Nat]
Turn == Role \ Instruction

(***************************************************************************)
(* Every message is an instruction or a turn, never both: none is lost and *)
(* none is counted twice.                                                  *)
(***************************************************************************)
LEMMA NoneLost ==
  ASSUME NEW messages \in Seq(Message), NEW i \in 0..Len(messages)
  PROVE  Number(messages, Instruction, i) + Number(messages, Turn, i) = i
<1> DEFINE S == 1..i
           T == Those(messages, Instruction, i)
           U == Those(messages, Turn, i)
<1>1. \A j \in 1..Len(messages) : messages[j].role \in Role
  <2>1. ASSUME NEW R, NEW m \in Seq(R) PROVE \A j \in 1..Len(m) : m[j] \in R
    OBVIOUS
  <2>2. \A j \in 1..Len(messages) : messages[j] \in Message
    BY <2>1
  <2>3. \A m \in Message : m.role \in Role
    BY DEF Message
  <2> QED BY <2>2, <2>3
<1>2. i \in Nat /\ 1..i \subseteq 1..Len(messages)
  BY LenProperties
<1>3. U = S \ T /\ S \cap T = T
  BY <1>1, <1>2 DEF Those, Turn
<1>4. IsFiniteSet(S) /\ Cardinality(S) = i
  BY <1>2, FS_Interval
<1> HIDE DEF S, T, U
<1>5. Cardinality(U) = i - Cardinality(T)
  BY <1>3, <1>4, FS_Difference
<1>6. Cardinality(T) \in Nat
  <2>1. IsFiniteSet(T)
    BY <1>3, <1>4, FS_Subset
  <2> QED BY <2>1, FS_CardinalityType
<1>7. Cardinality(T) + Cardinality(U) = i
  BY <1>2, <1>5, <1>6
<1> QED BY <1>7 DEF Number, T, U

(***************************************************************************)
(* The place of a message among those of its kind is its number in OfRole. *)
(***************************************************************************)
LEMMA PlaceIsNumber ==
  ASSUME NEW messages \in Seq(Message), NEW i \in 1..Len(messages)
  PROVE  PlaceOf(messages, i) =
           Number(messages, IF IsInstruction(messages[i]) THEN Instruction ELSE Turn, i)
<1>1. \A j \in 1..Len(messages) : messages[j].role \in Role
  <2>1. ASSUME NEW R, NEW m \in Seq(R) PROVE \A j \in 1..Len(m) : m[j] \in R
    OBVIOUS
  <2>2. \A j \in 1..Len(messages) : messages[j] \in Message
    BY <2>1
  <2>3. \A m \in Message : m.role \in Role
    BY DEF Message
  <2> QED BY <2>2, <2>3
<1>2. 1..i \subseteq 1..Len(messages)
  BY LenProperties
<1>3. {j \in 1..i : IsInstruction(messages[j]) <=> IsInstruction(messages[i])}
      = Those(messages, IF IsInstruction(messages[i]) THEN Instruction ELSE Turn, i)
  <2>1. CASE IsInstruction(messages[i])
    BY <2>1 DEF IsInstruction, Those
  <2>2. CASE ~IsInstruction(messages[i])
    BY <1>1, <1>2, <2>2 DEF IsInstruction, Those, Turn
  <2> QED BY <2>1, <2>2
<1> QED BY <1>3 DEF PlaceOf, Number

(***************************************************************************)
(* What ConversationKept asks of one request.                              *)
(***************************************************************************)
Conversed(client, sent) ==
  /\ Len(sent.system) + Len(sent.messages) = Len(client)
  /\ \A i \in DOMAIN client :
       IF IsInstruction(client[i])
         THEN /\ PlaceOf(client, i) \in DOMAIN sent.system
              /\ sent.system[PlaceOf(client, i)] = client[i].text
         ELSE /\ PlaceOf(client, i) \in DOMAIN sent.messages
              /\ LET turn == sent.messages[PlaceOf(client, i)] IN
                   /\ turn.text = client[i].text
                   /\ turn.role = "user" <=> client[i].role # "assistant"

(***************************************************************************)
(* Splitting the messages and renaming the assistant, as both adapters do, *)
(* keeps the conversation (anthropic.go, google.go).                       *)
(***************************************************************************)
LEMMA AdaptersKeep ==
  ASSUME NEW client \in Seq(Message), NEW name \in {"assistant", "model"}, NEW sent,
         sent.system = Texts(OfRole(client, Instruction)),
         sent.messages = Turns(OfRole(client, Turn), name)
  PROVE  Conversed(client, sent)
<1> DEFINE n == Len(client)
<1>1. PICK a, b : a = OfRole(client, Instruction) /\ b = OfRole(client, Turn)
  OBVIOUS
<1>2. /\ n \in Nat /\ DOMAIN client = 1..n
      /\ a \in Seq(Message) /\ Len(a) \in Nat /\ DOMAIN a = 1..Len(a)
      /\ b \in Seq(Message) /\ Len(b) \in Nat /\ DOMAIN b = 1..Len(b)
  BY <1>1, OfRoleKeeps, LenProperties
<1>3. /\ DOMAIN sent.system = 1..Len(a) /\ \A i \in 1..Len(a) : sent.system[i] = a[i].text
      /\ Len(sent.system) = Len(a)
  <2>1. sent.system = [i \in 1..Len(a) |-> a[i].text]
    BY <1>1, <1>2 DEF Texts
  <2> QED BY <1>2, <2>1
<1>4. /\ DOMAIN sent.messages = 1..Len(b) /\ Len(sent.messages) = Len(b)
      /\ \A i \in 1..Len(b) :
           /\ sent.messages[i].text = b[i].text
           /\ sent.messages[i].role = IF b[i].role = "assistant" THEN name ELSE "user"
  <2>1. sent.messages = [i \in 1..Len(b) |-> [role |-> IF b[i].role = "assistant" THEN name ELSE "user",
                                              text |-> b[i].text]]
    BY <1>1, <1>2 DEF Turns
  <2> QED BY <1>2, <2>1
<1>5. /\ Len(a) = Number(client, Instruction, n) /\ Len(b) = Number(client, Turn, n)
      /\ n \in 0..n
  BY <1>1, <1>2, OfRoleKeeps
<1>6. Len(a) + Len(b) = n
  BY <1>5, NoneLost
<1>7. ASSUME NEW i \in 1..n, IsInstruction(client[i])
      PROVE  PlaceOf(client, i) \in DOMAIN sent.system /\ sent.system[PlaceOf(client, i)] = client[i].text
  <2>1. PlaceOf(client, i) = Number(client, Instruction, i) /\ client[i].role \in Instruction
    BY <1>7, PlaceIsNumber DEF IsInstruction
  <2>2. PlaceOf(client, i) \in 1..Len(a) /\ a[PlaceOf(client, i)] = client[i]
    BY <1>1, <2>1, OfRoleKeeps
  <2> QED BY <1>3, <2>2
<1>8. ASSUME NEW i \in 1..n, ~IsInstruction(client[i])
      PROVE  /\ PlaceOf(client, i) \in DOMAIN sent.messages
             /\ sent.messages[PlaceOf(client, i)].text = client[i].text
             /\ sent.messages[PlaceOf(client, i)].role = "user" <=> client[i].role # "assistant"
  <2>1. PlaceOf(client, i) = Number(client, Turn, i)
    BY <1>8, PlaceIsNumber
  <2>2. client[i].role \in Turn
    <3>1. ASSUME NEW R, NEW m \in Seq(R) PROVE \A j \in 1..Len(m) : m[j] \in R
      OBVIOUS
    <3>2. client[i] \in Message
      BY <3>1
    <3> QED BY <1>8, <3>2 DEF Message, Turn, IsInstruction
  <2>3. PlaceOf(client, i) \in 1..Len(b) /\ b[PlaceOf(client, i)] = client[i]
    BY <1>1, <2>1, <2>2, OfRoleKeeps
  <2> QED BY <1>4, <2>3
<1> QED BY <1>2, <1>3, <1>4, <1>6, <1>7, <1>8 DEF Conversed

----------------------------------------------------------------------------
(***************************************************************************)
(* What holds of the record of every call: types, what it carries until it *)
(* ends, and what it is charged.                                           *)
(***************************************************************************)
Typed(r) ==
  /\ r.pc \in PC /\ r.chat \in Chats \cup {NoChat}
  /\ r.idx \in 0..(2 * Half - 1) /\ r.left \in 0..Timeout
  /\ r.answer \in Answers \cup {NoAnswer} /\ r.tokens \in Nat
  /\ r.passed \in 0..Chunks /\ r.chunks \in r.passed..Chunks

Carries(r) ==
  /\ r.pc \in {"draw", "pick"} \cup Running => r.chat \in Chats /\ r.sent = RequestFor(r.chat)
  /\ r.pc \in {"read"} \cup Copying => r.answer \in Answers

Charged(r) ==
  r.pc = "answered" =>
    /\ r.answer.decodes /\ r.answer.completion > 0 => r.tokens = r.answer.completion
    /\ r.answer.size > 0 => r.tokens > 0

RecordOK(r) == Typed(r) /\ Carries(r) /\ Charged(r)

CInv == /\ \A q \in Caller : RecordOK(call[q])
        /\ calls \in 0..MaxCalls /\ \A i \in DOMAIN uses : uses[i] \in Nat

(***************************************************************************)
(* A step that gives one caller a record that is in order, or all of them, *)
(* leaves all of them in order; which adapter is used never changes.       *)
(***************************************************************************)
LEMMA RecordsKept ==
  ASSUME config' = config, \A q \in Caller : \E r : r = call'[q] /\ RecordOK(r)
  PROVE  \A q \in Caller : RecordOK(call[q])'
<1> SUFFICES ASSUME NEW q \in Caller PROVE RecordOK(call[q])'
  OBVIOUS
<1>1. PICK r : r = call'[q] /\ RecordOK(r)
  OBVIOUS
<1>2. Typed(call[q])' /\ Charged(call[q])'
  BY <1>1 DEF RecordOK, Typed, Charged
<1>3. Carries(call[q])'
  <2>1. (RequestFor(call[q].chat))' = RequestFor(r.chat)
    BY <1>1 DEF RequestFor
  <2> QED BY <1>1, <2>1 DEF RecordOK, Carries
<1> QED BY <1>2, <1>3 DEF RecordOK

(***************************************************************************)
(* A step that changes the record of one caller keeps the records of the   *)
(* others in order.                                                        *)
(***************************************************************************)
LEMMA OneMoves ==
  ASSUME IInv, CInv, config' = config, NEW q \in Caller, NEW r, Update(q, r), RecordOK(r)
  PROVE  \A p \in Caller : RecordOK(call[p])'
<1>1. call'[q] = r /\ \A p \in Caller : p # q => call'[p] = call[p]
  BY DEF IInv, Update
<1>2. \A p \in Caller : RecordOK(call[p])
  BY DEF CInv
<1>3. ASSUME NEW p \in Caller PROVE \E s : s = call'[p] /\ RecordOK(s)
  <2>1. CASE p = q
    BY <1>1, <2>1
  <2>2. CASE p # q
    BY <1>1, <1>2, <2>2
  <2> QED BY <2>1, <2>2
<1> QED BY <1>3, RecordsKept

(***************************************************************************)
(* The arithmetic of EstimateTokens: whatever has a size has a token.      *)
(***************************************************************************)
LEMMA Estimated ==
  ASSUME NEW size \in Nat PROVE EstimateTokens(size) \in Nat /\ (size > 0 => EstimateTokens(size) > 0)
BY DEF EstimateTokens

(***************************************************************************)
(* The completion tokens read from an answer are those it reports, and are *)
(* never zero for an answer with text in it (tokens.go                     *)
(* CompletionTokensFromOpenAI).                                            *)
(***************************************************************************)
LEMMA TokensCharged ==
  ASSUME NEW a \in Answer, NEW b \in {a, MarshalOpenAIResponse(a)}
  PROVE  /\ CompletionTokensFromOpenAI(b) \in Nat
         /\ a.decodes /\ a.completion > 0 => CompletionTokensFromOpenAI(b) = a.completion
         /\ a.size > 0 => CompletionTokensFromOpenAI(b) > 0
<1>1. a.size \in Nat /\ a.completion \in Nat /\ Overhead \in Nat
  BY ProviderAssumption DEF Answer
<1>2. /\ b.decodes = a.decodes /\ b.completion = a.completion /\ b.size \in Nat
      /\ a.size > 0 => b.size > 0
  <2>1. CASE b = a
    BY <1>1, <2>1
  <2>2. CASE b = [a EXCEPT !.size = @ + Overhead]
    <3>1. b.decodes = a.decodes /\ b.completion = a.completion /\ b.size = a.size + Overhead
      BY <2>2 DEF Answer
    <3> QED BY <1>1, <3>1
  <2> QED BY <2>1, <2>2 DEF MarshalOpenAIResponse
<1>3. EstimateTokens(b.size) \in Nat /\ (b.size > 0 => EstimateTokens(b.size) > 0)
  BY <1>2, Estimated
<1>4. CASE b.decodes /\ b.completion > 0
  BY <1>1, <1>2, <1>4 DEF CompletionTokensFromOpenAI
<1>5. CASE ~(b.decodes /\ b.completion > 0)
  <2>1. CompletionTokensFromOpenAI(b) = EstimateTokens(b.size)
    BY <1>5 DEF CompletionTokensFromOpenAI
  <2> QED BY <1>2, <1>3, <1>5, <2>1
<1> QED BY <1>4, <1>5

(***************************************************************************)
(* The record of every call stays in order, step by step.                  *)
(***************************************************************************)
THEOREM CallsInductive == Spec => []CInv
<1>1. Init => CInv
  <2> SUFFICES ASSUME Init PROVE CInv
    OBVIOUS
  <2>1. calls \in 0..MaxCalls /\ \A i \in DOMAIN uses : uses[i] \in Nat
    BY ProviderAssumption DEF Init
  <2>2. RecordOK(Idle)
    BY ProviderAssumption DEF RecordOK, Typed, Carries, Charged, Idle, PC, Running, Reading, Writing, Copying
  <2>3. \A q \in Caller : call[q] = Idle
    BY DEF Init
  <2> QED BY <2>1, <2>2, <2>3 DEF CInv
<1>2. IInv /\ CInv /\ [Next]_vars => CInv'
  <2> SUFFICES ASSUME IInv, CInv, [Next]_vars PROVE CInv'
    OBVIOUS
  <2>0. ASSUME NEW q \in Caller
        PROVE  DOMAIN call[q] = Fields /\ RecordOK(call[q])
    BY DEF IInv, CInv
  <2>1. CASE Tick
    <3>1. UNCHANGED pool
      BY <2>1 DEF Tick
    <3>2. ASSUME NEW q \in Caller PROVE \E r : r = call'[q] /\ RecordOK(r)
      <4>1. CASE call'[q] = call[q]
        BY <2>0, <4>1
      <4>2. CASE call[q].left > 0 /\ call'[q] = [call[q] EXCEPT !.left = @ - 1]
        <5>1. PICK c, r : c = call[q] /\ r = [c EXCEPT !.left = @ - 1]
          OBVIOUS
        <5>2. /\ r.pc = c.pc /\ r.chat = c.chat /\ r.idx = c.idx /\ r.sent = c.sent
              /\ r.left = c.left - 1 /\ r.answer = c.answer /\ r.tokens = c.tokens
              /\ r.chunks = c.chunks /\ r.passed = c.passed
          BY <2>0, <5>1 DEF Fields, Idle
        <5>3. RecordOK(c) /\ c.left > 0
          BY <2>0, <4>2, <5>1
        <5>4. r.left \in 0..Timeout
          BY <5>2, <5>3, ProviderAssumption DEF RecordOK, Typed
        <5>5. RecordOK(r)
          BY <5>2, <5>3, <5>4 DEF RecordOK, Typed, Carries, Charged
        <5> QED BY <4>2, <5>1, <5>5
      <4> QED BY <2>1, <4>1, <4>2 DEF Tick
    <3>3. \A q \in Caller : RecordOK(call[q])'
      BY <3>1, <3>2, RecordsKept DEF pool
    <3> QED BY <3>1, <3>3 DEF CInv, pool
  <2>2. ASSUME NEW q \in Caller, NEW chat \in Chats, Call(q, chat) PROVE CInv'
    <3> DEFINE v == IF chat.stream /\ Converts THEN NoRequest ELSE RequestFor(chat)
               w == IF chat.stream /\ Converts THEN "failed" ELSE "draw"
    <3>1. PICK r : r = [Idle EXCEPT !.chat = chat, !.sent = v, !.pc = w]
      OBVIOUS
    <3>2. UNCHANGED pool /\ Update(q, r)
      BY <2>2, <3>1 DEF Call
    <3>3. /\ r.pc = w /\ r.chat = chat /\ r.idx = 0 /\ r.sent = v /\ r.left = 0
          /\ r.answer = NoAnswer /\ r.tokens = 0 /\ r.chunks = 0 /\ r.passed = 0
      <4> HIDE DEF v, w
      <4> QED BY <3>1 DEF Idle
    <3>4. Typed(r)
      BY <3>3, ProviderAssumption DEF Typed, PC, Ended
    <3>5. Carries(r) /\ Charged(r)
      BY <3>3 DEF Carries, Charged, Running, Reading, Writing, Copying
    <3>6. \A p \in Caller : RecordOK(call[p])'
      BY <3>2, <3>4, <3>5, OneMoves DEF RecordOK, pool
    <3> QED BY <3>2, <3>6 DEF CInv, pool
  <2>3. ASSUME NEW q \in Caller, Draw(q) PROVE CInv'
    <3>1. PICK c, n, r : c = call[q] /\ n = nextKey' /\ r = [c EXCEPT !.idx = n, !.pc = "pick"]
      OBVIOUS
    <3>2. /\ Update(q, r) /\ UNCHANGED <<config, uses>> /\ calls' = calls + 1 /\ calls < MaxCalls
          /\ n = (nextKey + 1) % (2 * Half) /\ c.pc = "draw"
      BY <2>3, <3>1 DEF Draw, At
    <3>3. /\ r.pc = "pick" /\ r.chat = c.chat /\ r.idx = n /\ r.sent = c.sent /\ r.left = c.left
          /\ r.answer = c.answer /\ r.tokens = c.tokens /\ r.chunks = c.chunks /\ r.passed = c.passed
      BY <2>0, <3>1 DEF Fields, Idle
    <3>4. n \in 0..(2 * Half - 1)
      BY <3>2, Counts DEF IInv, CounterOK
    <3>5. RecordOK(c)
      BY <2>0, <3>1
    <3>6. RecordOK(r)
      BY <3>2, <3>3, <3>4, <3>5 DEF RecordOK, Typed, Carries, Charged, PC, Running, Reading, Writing, Copying
    <3>7. \A p \in Caller : RecordOK(call[p])'
      BY <3>2, <3>6, OneMoves
    <3>8. calls' \in 0..MaxCalls
      BY <3>2, ProviderAssumption DEF CInv
    <3> QED BY <3>2, <3>7, <3>8 DEF CInv
  <2>4. ASSUME NEW q \in Caller, SendWithoutKey(q) \/ SendWithKey(q) PROVE CInv'
    <3>1. PICK c, r : c = call[q] /\ r = [c EXCEPT !.pc = "sent", !.left = Timeout]
      OBVIOUS
    <3>2. Update(q, r) /\ config' = config /\ c.pc \in {"draw", "pick"}
      BY <2>4, <3>1 DEF SendWithoutKey, SendWithKey, Send, At
    <3>3. /\ r.pc = "sent" /\ r.chat = c.chat /\ r.idx = c.idx /\ r.sent = c.sent /\ r.left = Timeout
          /\ r.answer = c.answer /\ r.tokens = c.tokens /\ r.chunks = c.chunks /\ r.passed = c.passed
      BY <2>0, <3>1 DEF Fields, Idle
    <3>4. RecordOK(c) /\ Timeout \in 0..Timeout
      BY <2>0, <3>1, ProviderAssumption
    <3>5. RecordOK(r)
      BY <3>2, <3>3, <3>4 DEF RecordOK, Typed, Carries, Charged, PC, Running, Reading, Writing, Copying
    <3>6. \A p \in Caller : RecordOK(call[p])'
      BY <3>2, <3>5, OneMoves
    <3>7. calls' \in 0..MaxCalls
      BY <2>4, ProviderAssumption DEF SendWithoutKey, SendWithKey, CInv
    <3>8. \A i \in DOMAIN uses' : uses'[i] \in Nat
      BY <2>4 DEF SendWithoutKey, SendWithKey, CInv
    <3> QED BY <3>6, <3>7, <3>8 DEF CInv
  <2>5. ASSUME NEW q \in Caller, NEW c, NEW r, c = call[q], UNCHANGED pool, Update(q, r),
               r.chat = c.chat, r.idx = c.idx, r.sent = c.sent, r.left = c.left,
               r.pc \in {c.pc} \cup Ended \cup Running,
               r.pc \in {"read"} \cup Copying => r.answer \in Answers,
               c.pc \in {"pick"} \cup Running,
               r.answer \in Answers \cup {c.answer}, r.tokens \in Nat, Charged(r),
               r.passed \in 0..Chunks, r.chunks \in r.passed..Chunks
        PROVE  CInv'
    <3>1. RecordOK(c)
      BY <2>0, <2>5
    <3>2. Typed(r)
      BY <2>5, <3>1 DEF RecordOK, Typed, PC, Ended, Running, Reading, Writing, Copying
    <3>3. Carries(r)
      BY <2>5, <3>1 DEF RecordOK, Carries, Ended, Running, Reading, Writing, Copying
    <3>4. \A p \in Caller : RecordOK(call[p])'
      BY <2>5, <3>2, <3>3, OneMoves DEF RecordOK, pool
    <3> QED BY <2>5, <3>4 DEF CInv, pool
  <2>6. ASSUME NEW q \in Caller, Panic(q) PROVE CInv'
    <3>1. PICK c, r : c = call[q] /\ r = [c EXCEPT !.pc = "panicked"]
      OBVIOUS
    <3>2. Update(q, r) /\ UNCHANGED pool /\ c.pc = "pick" /\ RecordOK(c)
      BY <2>0, <2>6, <3>1 DEF Panic, At
    <3>3. /\ r.pc = "panicked" /\ r.chat = c.chat /\ r.idx = c.idx /\ r.sent = c.sent /\ r.left = c.left
          /\ r.answer = c.answer /\ r.tokens = c.tokens /\ r.chunks = c.chunks /\ r.passed = c.passed
      BY <2>0, <3>1 DEF Fields, Idle
    <3> QED BY <2>5, <3>1, <3>2, <3>3 DEF RecordOK, Typed, Charged, Ended, Copying
  <2>7. ASSUME NEW q \in Caller, NEW a \in Answers, Respond(q, a) PROVE CInv'
    <3>1. PICK c : c = call[q]
      OBVIOUS
    <3>2. PICK w, r : /\ w \in {"stream", "read"} /\ r = [c EXCEPT !.answer = a, !.pc = w]
                      /\ Update(q, r)
      BY <2>7, <3>1 DEF Respond
    <3>3. UNCHANGED pool /\ c.pc = "sent" /\ RecordOK(c)
      BY <2>0, <2>7, <3>1 DEF Respond, At
    <3>4. /\ r.pc = w /\ r.chat = c.chat /\ r.idx = c.idx /\ r.sent = c.sent /\ r.left = c.left
          /\ r.answer = a /\ r.tokens = c.tokens /\ r.chunks = c.chunks /\ r.passed = c.passed
      BY <2>0, <3>1, <3>2 DEF Fields, Idle
    <3> QED BY <2>5, <3>1, <3>2, <3>3, <3>4 DEF RecordOK, Typed, Charged, Running, Reading, Writing, Copying
  <2>8. ASSUME NEW q \in Caller, ReadBody(q) PROVE CInv'
    <3>1. PICK c, a : c = call[q] /\ a = c.answer
      OBVIOUS
    <3>2. UNCHANGED pool /\ c.pc = "read" /\ RecordOK(c) /\ a \in Answer
      BY <2>0, <2>8, <3>1, ProviderAssumption DEF ReadBody, At, RecordOK, Carries
    <3>3. PICK r : /\ Update(q, r)
                   /\ \/ r = [c EXCEPT !.pc = "retry"]
                      \/ r = [c EXCEPT !.pc = "failed", !.why = "upstream"]
                      \/ \E b \in {a, MarshalOpenAIResponse(a)} :
                           r = [c EXCEPT !.pc = "answered", !.tokens = CompletionTokensFromOpenAI(b)]
      BY <2>8, <3>1 DEF ReadBody, Return
    <3>4. CASE r = [c EXCEPT !.pc = "retry"] \/ r = [c EXCEPT !.pc = "failed", !.why = "upstream"]
      <4>1. /\ r.pc \in {"retry", "failed"} /\ r.chat = c.chat /\ r.idx = c.idx /\ r.sent = c.sent
            /\ r.left = c.left /\ r.answer = c.answer /\ r.tokens = c.tokens
            /\ r.chunks = c.chunks /\ r.passed = c.passed
        BY <2>0, <3>1, <3>4 DEF Fields, Idle
      <4> QED BY <2>5, <3>1, <3>2, <3>3, <4>1 DEF RecordOK, Typed, Charged, Ended, Running, Reading, Writing, Copying
    <3>5. ASSUME NEW b \in {a, MarshalOpenAIResponse(a)},
                 r = [c EXCEPT !.pc = "answered", !.tokens = CompletionTokensFromOpenAI(b)]
          PROVE  CInv'
      <4>1. PICK n : n = CompletionTokensFromOpenAI(b)
        OBVIOUS
      <4>2. r = [c EXCEPT !.pc = "answered", !.tokens = n]
        BY <3>5, <4>1
      <4>3. /\ r.pc = "answered" /\ r.chat = c.chat /\ r.idx = c.idx /\ r.sent = c.sent
            /\ r.left = c.left /\ r.answer = a /\ r.tokens = n
            /\ r.chunks = c.chunks /\ r.passed = c.passed
        BY <2>0, <3>1, <4>2 DEF Fields, Idle
      <4>4. n \in Nat /\ Charged(r)
        BY <3>2, <4>1, <4>3, TokensCharged DEF Charged
      <4> QED BY <2>5, <3>1, <3>2, <3>3, <4>3, <4>4 DEF RecordOK, Typed, Ended, Running, Reading, Writing, Copying
    <3> QED BY <3>3, <3>4, <3>5
  <2>9. ASSUME NEW q \in Caller,
               \/ CopyChunk(q) \/ EndOfStream(q) \/ ClientReads(q) \/ ClientGone(q)
               \/ \E why : BreakOff(q, why)
        PROVE  CInv'
    <3>1. PICK s : Update(q, s) /\ UNCHANGED pool /\ Passes(call[q], s)
      BY <2>0, <2>9, Passing
    <3>2. PICK c : c = call[q] /\ RecordOK(c) /\ Passes(c, s)
      BY <2>0, <3>1
    <3>3. s.passed \in 0..Chunks /\ s.chunks \in s.passed..Chunks
      BY <3>2, ProviderAssumption DEF Passes, RecordOK, Typed
    <3>4. s.pc \in Copying => s.answer \in Answers
      BY <3>2 DEF Passes, RecordOK, Carries
    <3>5. s.pc \in Ended \cup Running /\ s.pc \notin {"read", "answered"}
      BY <3>2 DEF Passes, Copying, Ended, Running, Reading, Writing
    <3> QED BY <2>5, <3>1, <3>2, <3>3, <3>4, <3>5 DEF Passes, RecordOK, Typed, Charged
  <2>10. CASE UNCHANGED vars
    <3>1. config' = config /\ calls' = calls /\ uses' = uses /\ call' = call
      BY <2>10 DEF vars
    <3>2. \A q \in Caller : RecordOK(call[q])'
      BY <2>0, <3>1, RecordsKept
    <3> QED BY <3>1, <3>2 DEF CInv
  <2> QED
    BY <2>1, <2>2, <2>3, <2>4, <2>6, <2>7, <2>8, <2>9, <2>10
       DEF Next, Step, UpstreamFails, TimeoutFires
<1> QED
  BY <1>1, <1>2, Inductive, PTL DEF Spec

(***************************************************************************)
(* Types: every count stays in its range, the numbers drawn from the pool  *)
(* are words, and a stream never passes on more chunks than it has copied. *)
(***************************************************************************)
THEOREM TypeCorrect == Spec => []TypeOK
<1>1. IInv /\ CInv => TypeOK
  <2> SUFFICES ASSUME IInv, CInv PROVE TypeOK
    OBVIOUS
  <2>1. \A q \in Caller : Typed(call[q])
    BY DEF CInv, RecordOK
  <2> QED BY <2>1 DEF TypeOK, Typed, IInv, CInv, CounterOK, PoolOK
<1> QED BY <1>1, Inductive, CallsInductive, PTL

(***************************************************************************)
(* A call in flight carries the request that the adapter made of its chat, *)
(* and the types of providers that the configuration accepts are all those *)
(* that there are adapters for.                                            *)
(***************************************************************************)
TypeKnown == config.type \in ProviderType

(***************************************************************************)
(* Only providers of a type that validation lets through ever make a call  *)
(* (config.go validateProvider).                                           *)
(***************************************************************************)
LEMMA KnownType == Spec => []TypeKnown
<1>1. Init => TypeKnown
  BY DEF Init, ValidateProvider, TypeKnown
<1>2. TypeKnown /\ [Next]_vars => TypeKnown'
  <2> SUFFICES ASSUME [Next]_vars PROVE config' = config
    BY DEF TypeKnown
  <2>1. CASE UNCHANGED vars
    BY <2>1 DEF vars
  <2>2. CASE Tick
    BY <2>2 DEF Tick, pool
  <2>3. ASSUME NEW q \in Caller, NEW chat \in Chats, Call(q, chat) PROVE config' = config
    BY <2>3 DEF Call, pool
  <2>4. ASSUME NEW q \in Caller, NEW a \in Answers, Respond(q, a) PROVE config' = config
    BY <2>4 DEF Respond, pool
  <2>5. ASSUME NEW q \in Caller, Draw(q) \/ SendWithoutKey(q) \/ SendWithKey(q) \/ Panic(q)
        PROVE  config' = config
    BY <2>5 DEF Draw, SendWithoutKey, SendWithKey, Panic, pool
  <2>6. ASSUME NEW q \in Caller,
               ReadBody(q) \/ CopyChunk(q) \/ EndOfStream(q) \/ ClientReads(q) \/ ClientGone(q)
        PROVE  config' = config
    BY <2>6 DEF ReadBody, CopyChunk, EndOfStream, ClientReads, ClientGone, pool
  <2>7. ASSUME NEW q \in Caller, NEW why, BreakOff(q, why) PROVE config' = config
    BY <2>7 DEF BreakOff, pool
  <2> QED
    BY <2>1, <2>2, <2>3, <2>4, <2>5, <2>6, <2>7
       DEF Next, Step, UpstreamFails, TimeoutFires
<1> QED BY <1>1, <1>2, PTL DEF Spec

(***************************************************************************)
(* What the adapter in use has put into the request of a call in flight.   *)
(***************************************************************************)
LEMMA SentFacts ==
  ASSUME CInv, TypeKnown, NEW q \in Caller, InFlight(q)
  PROVE  LET chat == call[q].chat
             sent == call[q].sent
         IN  /\ chat \in Chat /\ chat.messages \in Seq(Message) /\ chat.max \in Int
             /\ \/ /\ ~Converts /\ config.type # "anthropic" /\ sent.max = chat.max
                \/ /\ Converts /\ sent.system = Texts(OfRole(chat.messages, Instruction))
                   /\ \E name \in {"assistant", "model"} :
                        sent.messages = Turns(OfRole(chat.messages, Turn), name)
                   /\ \/ config.type = "anthropic" /\ sent.max = IF chat.max <= 0 THEN 1024 ELSE chat.max
                      \/ config.type = "google" /\ sent.max = chat.max
<1>1. PICK chat, sent : chat = call[q].chat /\ sent = call[q].sent
  OBVIOUS
<1>2. chat \in Chats /\ sent = RequestFor(chat)
  BY <1>1 DEF CInv, RecordOK, Carries, InFlight
<1>3. chat \in Chat /\ chat.messages \in Seq(Message) /\ chat.max \in Int
  BY <1>2, ProviderAssumption DEF Chat, Message
<1>4. CASE config.type \in {"openai", "openai-compatible"}
  <2>1. sent = OpenAIRequest(chat)
    BY <1>2, <1>4 DEF RequestFor
  <2>2. sent.max = chat.max
    BY <2>1 DEF OpenAIRequest, Upstream
  <2> QED BY <1>1, <1>3, <1>4, <2>2 DEF Converts
<1>5. CASE config.type = "anthropic"
  <2>1. sent = NewAnthropicRequest(chat)
    BY <1>2, <1>5 DEF RequestFor
  <2>2. /\ sent.system = Texts(OfRole(chat.messages, Instruction))
        /\ sent.messages = Turns(OfRole(chat.messages, Turn), "assistant")
        /\ sent.max = IF chat.max <= 0 THEN 1024 ELSE chat.max
    BY <2>1 DEF NewAnthropicRequest, Upstream, Turn
  <2> QED BY <1>1, <1>3, <1>5, <2>2 DEF Converts
<1>6. CASE config.type = "google"
  <2>1. sent = NewGoogleRequest(chat)
    BY <1>2, <1>6 DEF RequestFor
  <2>2. /\ sent.system = Texts(OfRole(chat.messages, Instruction))
        /\ sent.messages = Turns(OfRole(chat.messages, Turn), "model")
        /\ sent.max = chat.max
    BY <2>1 DEF NewGoogleRequest, Upstream, Turn
  <2> QED BY <1>1, <1>3, <1>6, <2>2 DEF Converts
<1> QED BY <1>4, <1>5, <1>6 DEF TypeKnown, ProviderType

(***************************************************************************)
(* No message is lost, doubled, moved or given to another speaker, however *)
(* long the conversation is.                                               *)
(***************************************************************************)
THEOREM ConversationTheorem == Spec => []ConversationKept
<1>1. CInv /\ TypeKnown => ConversationKept
  <2> SUFFICES ASSUME CInv, TypeKnown, NEW q \in Caller, InFlight(q), Converts
               PROVE  Conversed(call[q].chat.messages, call[q].sent)
    BY DEF ConversationKept, Conversed
  <2>1. PICK client, sent : client = call[q].chat.messages /\ sent = call[q].sent
    OBVIOUS
  <2>2. /\ client \in Seq(Message) /\ sent.system = Texts(OfRole(client, Instruction))
        /\ \E name \in {"assistant", "model"} : sent.messages = Turns(OfRole(client, Turn), name)
    BY <2>1, SentFacts
  <2>3. Conversed(client, sent)
    BY <2>2, AdaptersKeep
  <2> QED BY <2>1, <2>3
<1> QED BY <1>1, CallsInductive, KnownType, PTL

(***************************************************************************)
(* The limit that a provider is given is the one that was priced.          *)
(***************************************************************************)
THEOREM LimitTheorem == Spec => []PricedLimitSent
<1>1. CInv /\ TypeKnown => PricedLimitSent
  <2> SUFFICES ASSUME CInv, TypeKnown, NEW q \in Caller, InFlight(q)
               PROVE  /\ call[q].sent.max > 0 => call[q].sent.max = Priced(call[q].chat)
                      /\ config.type = "anthropic" => call[q].sent.max > 0
    BY DEF PricedLimitSent
  <2>1. PICK asked, given : asked = call[q].chat.max /\ given = call[q].sent.max
    OBVIOUS
  <2>2. /\ asked \in Int
        /\ given = asked \/ given = IF asked <= 0 THEN 1024 ELSE asked
        /\ config.type = "anthropic" => given = IF asked <= 0 THEN 1024 ELSE asked
    BY <2>1, SentFacts
  <2> QED BY <2>1, <2>2 DEF Priced
<1> QED BY <1>1, CallsInductive, KnownType, PTL

(***************************************************************************)
(* What is charged is what was reported, or else the size: never nothing.  *)
(***************************************************************************)
THEOREM MeteredTheorem == Spec => []Metered
<1>1. CInv => Metered
  BY DEF CInv, RecordOK, Charged, Metered, At
<1> QED BY <1>1, CallsInductive, PTL

----------------------------------------------------------------------------
(***************************************************************************)
(* The remainder of a count by the size of the pool goes up by one, and    *)
(* round.                                                                  *)
(***************************************************************************)
LEMMA Divided ==
  ASSUME NEW c \in Nat, NEW P \in Nat, P > 0
  PROVE  (c \div P) \in Int /\ c = (c \div P) * P + (c % P) /\ (c % P) \in 0..(P - 1)
<1>1. c = (c \div P) * P + (c % P)
  BY SMTT(30)
<1>2. (c \div P) \in Int /\ (c % P) \in 0..(P - 1)
  OBVIOUS
<1> QED BY <1>1, <1>2

(***************************************************************************)
(* The remainder counts up by one and starts again at the end.             *)
(***************************************************************************)
LEMMA Once ==
  ASSUME NEW c \in Nat, NEW P \in Nat, P > 0
  PROVE  ((c + 1) % P) = IF (c % P) + 1 = P THEN 0 ELSE (c % P) + 1
<1>1. PICK a, b, r, s, d : /\ a = (c \div P) /\ b = ((c + 1) \div P) /\ d = b - a
                            /\ r = (c % P) /\ s = ((c + 1) % P)
  OBVIOUS
<1>2. /\ a \in Int /\ b \in Int /\ r \in 0..(P - 1) /\ s \in 0..(P - 1) /\ d \in Int
      /\ c = a * P + r /\ c + 1 = b * P + s
  <2>1. c + 1 \in Nat
    OBVIOUS
  <2> QED BY <1>1, <2>1, Divided
<1>3. d * P = r + 1 - s
  <2>1. d * P = b * P - a * P
    BY <1>1, <1>2
  <2>2. a * P \in Int /\ b * P \in Int
    BY <1>2
  <2>3. PICK x, y : x = a * P /\ y = b * P
    OBVIOUS
  <2> QED BY <1>2, <2>1, <2>2, <2>3
<1>4. d \in {0, 1}
  <2>1. ASSUME d >= 2 PROVE FALSE
    <3>1. d * P >= 2 * P
      BY <1>2, <2>1
    <3> QED BY <1>2, <1>3, <3>1
  <2>2. ASSUME d <= -1 PROVE FALSE
    <3>1. d * P <= -P
      BY <1>2, <2>2
    <3> QED BY <1>2, <1>3, <3>1
  <2> QED BY <1>2, <2>1, <2>2
<1>5. d * P = IF d = 0 THEN 0 ELSE P
  BY <1>4
<1>6. s = IF r + 1 = P THEN 0 ELSE r + 1
  BY <1>2, <1>3, <1>4, <1>5
<1> QED BY <1>1, <1>6

(***************************************************************************)
(* The callers that have chosen key i and not used it yet.  Rotation: with *)
(* these counted, every key has had k turns, and the first ones, up to the *)
(* one whose turn it is, one more.                                         *)
(***************************************************************************)
ChoosingKey(i) == {q \in Caller : At(q, "pick") /\ KeyIndex(call[q].idx) = i}

Turned(k) ==
  \A i \in 0..(Pool - 1) :
    uses[i] + Cardinality(ChoosingKey(i)) = IF i < (calls % Pool) THEN k + 1 ELSE k

RInv ==
  /\ IsFiniteSet(Choosing)
  /\ Pool > 0 /\ calls <= Half => \E k \in Nat : Turned(k)

(***************************************************************************)
(* The callers between drawing a number and using its key are finitely     *)
(* many.                                                                   *)
(***************************************************************************)
LEMMA ChoosingFinite ==
  ASSUME RInv, NEW i
  PROVE  /\ ChoosingKey(i) \subseteq Choosing /\ IsFiniteSet(ChoosingKey(i))
         /\ Cardinality(ChoosingKey(i)) \in Nat
         /\ Cardinality(ChoosingKey(i)) <= Cardinality(Choosing) /\ Cardinality(Choosing) \in Nat
<1>1. ChoosingKey(i) \subseteq Choosing
  BY DEF ChoosingKey, Choosing
<1>2. IsFiniteSet(Choosing)
  BY DEF RInv
<1> QED BY <1>1, <1>2, FS_Subset, FS_CardinalityType

(***************************************************************************)
(* A step that neither draws nor uses a key leaves the rotation alone.     *)
(***************************************************************************)
LEMMA RotationAside ==
  ASSUME RInv, config' = config, uses' = uses, calls' = calls \/ Pool = 0,
         \A q \in Caller : /\ At(q, "pick")' <=> At(q, "pick")
                           /\ At(q, "pick") => call'[q].idx = call[q].idx
  PROVE  RInv'
<1>1. Pool' = Pool /\ Choosing' = Choosing
  BY DEF Pool, Choosing
<1>2. ASSUME NEW i PROVE ChoosingKey(i)' = ChoosingKey(i)
  BY <1>1 DEF ChoosingKey, KeyIndex
<1>3. IsFiniteSet(Choosing)'
  BY <1>1 DEF RInv
<1>4. ASSUME Pool' > 0 /\ calls' <= Half PROVE \E k \in Nat : Turned(k)'
  <2>1. Pool > 0 /\ calls <= Half /\ calls' = calls
    BY <1>1, <1>4
  <2>2. PICK k \in Nat : Turned(k)
    BY <2>1 DEF RInv
  <2>3. Turned(k)'
    BY <1>1, <1>2, <2>1, <2>2 DEF Turned
  <2> QED BY <2>3
<1> QED BY <1>3, <1>4 DEF RInv

(***************************************************************************)
(* Drawing a number gives the next key its turn.                           *)
(***************************************************************************)
LEMMA RotationDraw ==
  ASSUME IInv, CInv, RInv, NEW q \in Caller, Draw(q)
  PROVE  RInv'
<1>1. PICK n : n = nextKey'
  OBVIOUS
<1>2. /\ config' = config /\ uses' = uses /\ calls' = calls + 1 /\ Pool' = Pool /\ Pool > 0
      /\ Pool \in Nat /\ calls \in Nat /\ call[q].pc = "draw"
      /\ n = (nextKey + 1) % (2 * Half) /\ nextKey \in 0..(2 * Half - 1)
      /\ calls < 2 * Half => nextKey = calls
  BY <1>1 DEF Draw, At, IInv, CounterOK, PoolOK, Pool
<1>3. /\ call'[q].pc = "pick" /\ call'[q].idx = n
      /\ \A p \in Caller : p # q => call'[p] = call[p]
  <2>1. PICK s : s = [call[q] EXCEPT !.idx = n, !.pc = "pick"]
    OBVIOUS
  <2>2. s.pc = "pick" /\ s.idx = n
    BY <2>1 DEF IInv, Fields, Idle
  <2>3. call' = [call EXCEPT ![q] = s]
    BY <1>1, <2>1 DEF Draw, Update
  <2> QED BY <2>2, <2>3 DEF IInv
<1>4. Choosing' = Choosing \cup {q} /\ q \notin Choosing
  BY <1>2, <1>3 DEF Choosing, At
<1>5. IsFiniteSet(Choosing)'
  BY <1>4, FS_AddElement DEF RInv
<1>6. ASSUME calls' <= Half PROVE \E k \in Nat : Turned(k)'
  <2>1. calls <= Half /\ calls + 1 \in 1..Half /\ n = calls + 1
    BY <1>2, <1>6, Counts, ProviderAssumption
  <2>2. PICK k \in Nat : Turned(k)
    BY <1>2, <2>1 DEF RInv
  <2>3. PICK r : r = (calls % Pool)
    OBVIOUS
  <2>4. /\ r \in 0..(Pool - 1) /\ KeyIndex(n) = r
        /\ ((calls + 1) % Pool) = IF r + 1 = Pool THEN 0 ELSE r + 1
    <3>1. Minus1(Signed(n)) = calls
      BY <1>2, <2>1, Shifted
    <3>2. KeyIndex(n) = (calls % Pool)
      BY <1>2, <3>1 DEF KeyIndex, Rem
    <3> QED BY <1>2, <2>3, <3>2, Divided, Once
  <2>5. ASSUME NEW i PROVE ChoosingKey(i)' = IF i = r THEN ChoosingKey(i) \cup {q} ELSE ChoosingKey(i)
    <3>1. ASSUME NEW p \in Caller PROVE (KeyIndex(call[p].idx))' = KeyIndex(call'[p].idx)
      BY <1>2 DEF KeyIndex
    <3>2. ASSUME NEW p \in Caller
          PROVE  p \in ChoosingKey(i)' <=> \/ p # q /\ p \in ChoosingKey(i)
                                           \/ p = q /\ i = r
      BY <1>3, <2>4, <3>1 DEF ChoosingKey, At
    <3>3. q \notin ChoosingKey(i) /\ ChoosingKey(i) \subseteq Caller /\ ChoosingKey(i)' \subseteq Caller
      BY <1>2 DEF ChoosingKey, At
    <3> QED BY <3>2, <3>3
  <2>6. ASSUME NEW i
        PROVE  /\ Cardinality(ChoosingKey(i)) \in Nat
               /\ Cardinality(ChoosingKey(i)') =
                    IF i = r THEN Cardinality(ChoosingKey(i)) + 1 ELSE Cardinality(ChoosingKey(i))
    <3>1. q \notin ChoosingKey(i)
      BY <1>2 DEF ChoosingKey, At
    <3> QED BY <2>5, <3>1, ChoosingFinite, FS_AddElement
  <2>7. \A i \in 0..(Pool - 1) : uses[i] \in Nat
    BY DEF IInv, PoolOK, CInv
  <2>8. ASSUME NEW i \in 0..(Pool - 1)
        PROVE  /\ uses'[i] + Cardinality(ChoosingKey(i)') = IF i < r \/ i = r THEN k + 1 ELSE k
               /\ i \in Int /\ i < Pool
    <3>1. uses[i] + Cardinality(ChoosingKey(i)) = IF i < r THEN k + 1 ELSE k
      BY <2>2, <2>3 DEF Turned
    <3>2. PICK u, c : u = uses[i] /\ c = Cardinality(ChoosingKey(i))
      OBVIOUS
    <3> QED BY <1>2, <2>4, <2>6, <2>7, <3>1, <3>2
  <2>9. CASE r + 1 = Pool
    <3>1. Turned(k + 1)'
      BY <1>2, <2>4, <2>8, <2>9 DEF Turned
    <3> QED BY <3>1
  <2>10. CASE r + 1 # Pool
    <3>1. Turned(k)'
      BY <1>2, <2>4, <2>8, <2>10 DEF Turned
    <3> QED BY <3>1
  <2> QED BY <2>9, <2>10
<1> QED BY <1>5, <1>6 DEF RInv

(***************************************************************************)
(* Using a key turns a choice into a use.                                  *)
(***************************************************************************)
LEMMA RotationUse ==
  ASSUME IInv, CInv, RInv, NEW q \in Caller, SendWithKey(q)
  PROVE  RInv'
<1>1. PICK r : r = KeyIndex(call[q].idx)
  OBVIOUS
<1>2. /\ config' = config /\ calls' = calls /\ Pool' = Pool /\ call[q].pc = "pick"
      /\ r \in DOMAIN uses /\ uses' = [uses EXCEPT ![r] = @ + 1] /\ DOMAIN uses = 0..(Pool - 1)
  BY <1>1 DEF SendWithKey, At, Pool, IInv, PoolOK
<1>3. call'[q].pc = "sent" /\ \A p \in Caller : p # q => call'[p] = call[p]
  <2>1. PICK s : s = [call[q] EXCEPT !.pc = "sent", !.left = Timeout]
    OBVIOUS
  <2>2. s.pc = "sent"
    BY <2>1 DEF IInv, Fields, Idle
  <2>3. call' = [call EXCEPT ![q] = s]
    BY <2>1 DEF SendWithKey, Send, Update
  <2> QED BY <2>2, <2>3 DEF IInv
<1>4. Choosing' = Choosing \ {q}
  BY <1>2, <1>3 DEF Choosing, At
<1>5. IsFiniteSet(Choosing)'
  BY <1>4, FS_RemoveElement DEF RInv
<1>6. ASSUME NEW i
      PROVE  /\ ChoosingKey(i)' = ChoosingKey(i) \ {q}
             /\ q \in ChoosingKey(i) <=> i = r
  <2>1. ASSUME NEW p \in Caller PROVE (KeyIndex(call[p].idx))' = KeyIndex(call'[p].idx)
    BY <1>2 DEF KeyIndex
  <2>2. ASSUME NEW p \in Caller PROVE p \in ChoosingKey(i)' <=> p # q /\ p \in ChoosingKey(i)
    BY <1>3, <2>1 DEF ChoosingKey, At
  <2>3. /\ ChoosingKey(i) \subseteq Caller /\ ChoosingKey(i)' \subseteq Caller
        /\ q \in ChoosingKey(i) <=> i = r
    BY <1>1, <1>2 DEF ChoosingKey, At
  <2> QED BY <2>2, <2>3
<1>7. ASSUME NEW i
      PROVE  /\ Cardinality(ChoosingKey(i)) \in Nat
             /\ Cardinality(ChoosingKey(i)') =
                  IF i = r THEN Cardinality(ChoosingKey(i)) - 1 ELSE Cardinality(ChoosingKey(i))
  BY <1>6, ChoosingFinite, FS_RemoveElement
<1>8. ASSUME Pool' > 0 /\ calls' <= Half PROVE \E k \in Nat : Turned(k)'
  <2>1. PICK k \in Nat : Turned(k)
    BY <1>2, <1>8 DEF RInv
  <2>2. ASSUME NEW i \in 0..(Pool - 1)
        PROVE  uses'[i] + Cardinality(ChoosingKey(i)') = uses[i] + Cardinality(ChoosingKey(i))
    <3>1. uses[i] \in Nat /\ uses'[i] = IF i = r THEN uses[i] + 1 ELSE uses[i]
      BY <1>2 DEF CInv
    <3>2. PICK u, c : u = uses[i] /\ c = Cardinality(ChoosingKey(i))
      OBVIOUS
    <3> QED BY <1>7, <3>1, <3>2
  <2>3. Turned(k)'
    BY <1>2, <2>1, <2>2 DEF Turned
  <2> QED BY <2>3
<1> QED BY <1>5, <1>8 DEF RInv

(***************************************************************************)
(* A step that replaces one record by one that is not choosing either.     *)
(***************************************************************************)
LEMMA RotationOther ==
  ASSUME IInv, RInv, NEW q \in Caller, NEW r, Update(q, r), call[q].pc # "pick", r.pc # "pick",
         config' = config, uses' = uses, calls' = calls \/ Pool = 0
  PROVE  RInv'
<1>1. call'[q] = r /\ \A p \in Caller : p # q => call'[p] = call[p]
  BY DEF IInv, Update
<1>2. ASSUME NEW p \in Caller
      PROVE  /\ At(p, "pick")' <=> At(p, "pick")
             /\ At(p, "pick") => call'[p].idx = call[p].idx
  BY <1>1 DEF At
<1> QED BY <1>2, RotationAside

(***************************************************************************)
(* The rotation is even, for any size of the pool and of the word.         *)
(***************************************************************************)
THEOREM RotationTheorem == Spec => []RotationEven
<1>1. Init => RInv
  <2> SUFFICES ASSUME Init PROVE RInv
    OBVIOUS
  <2>1. Pool \in Nat
    <3>1. config.keys \in Seq(Key)
      BY ProviderAssumption DEF Init, ProviderConfig
    <3> QED BY <3>1, LenProperties DEF Pool
  <2>2. \A q \in Caller : call[q].pc = "idle"
    BY DEF Init, Idle
  <2>3. Choosing = {} /\ \A i : ChoosingKey(i) = {}
    BY <2>2 DEF Choosing, ChoosingKey, At
  <2>4. IsFiniteSet({}) /\ Cardinality({}) = 0
    BY FS_EmptySet
  <2>5. ASSUME Pool > 0 PROVE Turned(0)
    <3>1. (0 % Pool) = 0
      BY <2>1, <2>5, Divided
    <3>2. calls = 0 /\ \A i \in 0..(Pool - 1) : uses[i] = 0 /\ i >= 0
      BY <2>1 DEF Init
    <3>3. (calls % Pool) = 0
      BY <3>1, <3>2
    <3>4. ASSUME NEW i \in 0..(Pool - 1)
          PROVE  uses[i] + Cardinality(ChoosingKey(i)) = IF i < (calls % Pool) THEN 0 + 1 ELSE 0
      <4>1. uses[i] = 0 /\ Cardinality(ChoosingKey(i)) = 0 /\ ~(i < 0)
        BY <2>3, <2>4, <3>2
      <4> QED BY <3>3, <4>1
    <3> QED BY <3>4 DEF Turned
  <2> QED BY <2>3, <2>4, <2>5 DEF RInv
<1>2. IInv /\ CInv /\ RInv /\ [Next]_vars => RInv'
  <2> SUFFICES ASSUME IInv, CInv, RInv, [Next]_vars PROVE RInv'
    OBVIOUS
  <2>1. CASE Tick
    <3>1. ASSUME NEW q \in Caller PROVE call'[q].pc = call[q].pc /\ call'[q].idx = call[q].idx
      <4>1. DOMAIN call[q] = Fields
        BY DEF IInv
      <4>2. call'[q] = call[q] \/ call'[q] = [call[q] EXCEPT !.left = @ - 1]
        BY <2>1 DEF Tick
      <4> QED
        BY <4>1, <4>2 DEF Fields, Idle
    <3>2. config' = config /\ uses' = uses /\ calls' = calls
      BY <2>1 DEF Tick, pool
    <3> QED BY <3>1, <3>2, RotationAside DEF At
  <2>2. ASSUME NEW q \in Caller, NEW chat \in Chats, Call(q, chat) PROVE RInv'
    <3> DEFINE v == IF chat.stream /\ Converts THEN NoRequest ELSE RequestFor(chat)
               w == IF chat.stream /\ Converts THEN "failed" ELSE "draw"
    <3>1. PICK r : r = [Idle EXCEPT !.chat = chat, !.sent = v, !.pc = w]
      OBVIOUS
    <3>2. r.pc # "pick"
      BY <3>1 DEF Idle
    <3>3. Update(q, r) /\ config' = config /\ uses' = uses /\ calls' = calls /\ call[q].pc # "pick"
      BY <2>2, <3>1 DEF Call, pool, Ended
    <3> QED BY <3>2, <3>3, RotationOther
  <2>3. ASSUME NEW q \in Caller, Draw(q) PROVE RInv'
    BY <2>3, RotationDraw
  <2>4. ASSUME NEW q \in Caller, SendWithKey(q) PROVE RInv'
    BY <2>4, RotationUse
  <2>5. ASSUME NEW q \in Caller, SendWithoutKey(q) PROVE RInv'
    <3>1. PICK r : r = [call[q] EXCEPT !.pc = "sent", !.left = Timeout]
      OBVIOUS
    <3>2. r.pc = "sent"
      BY <3>1 DEF IInv, Fields, Idle
    <3>3. Update(q, r) /\ config' = config /\ uses' = uses /\ Pool = 0 /\ call[q].pc = "draw"
      BY <2>5, <3>1 DEF SendWithoutKey, Send, At
    <3> QED BY <3>2, <3>3, RotationOther
  <2>6. ASSUME NEW q \in Caller, Panic(q) PROVE RInv'
    <3>1. call[q].pc = "pick" /\ calls' = calls /\ config' = config
      BY <2>6 DEF Panic, At, pool
    <3>2. ~(calls <= Half)
      <4>1. ASSUME calls <= Half PROVE FALSE
        <5>1. call[q].idx \in 1..Half /\ Pool \in Nat /\ Pool > 0
          BY <3>1, <4>1 DEF IInv, DrawnOK, At, PoolOK
        <5>2. KeyIndex(call[q].idx) \in 0..(Pool - 1)
          BY <5>1, IndexInRange
        <5> QED BY <2>6, <5>2 DEF Panic, IInv, PoolOK
      <4> QED BY <4>1
    <3>3. PICK r : r = [call[q] EXCEPT !.pc = "panicked"]
      OBVIOUS
    <3>4. r.pc = "panicked"
      BY <3>3 DEF IInv, Fields, Idle
    <3>5. call'[q] = r /\ \A p \in Caller : p # q => call'[p] = call[p]
      BY <2>6, <3>3 DEF Panic, Update, IInv
    <3>6. Choosing' = Choosing \ {q}
      BY <3>1, <3>4, <3>5 DEF Choosing, At
    <3>7. IsFiniteSet(Choosing)'
      BY <3>6, FS_RemoveElement DEF RInv
    <3> QED BY <3>1, <3>2, <3>7 DEF RInv
  <2>7. ASSUME NEW q \in Caller, NEW a \in Answers, Respond(q, a) PROVE RInv'
    <3>1. PICK w, r : /\ w \in {"stream", "read"} /\ r = [call[q] EXCEPT !.answer = a, !.pc = w]
                      /\ Update(q, r)
      BY <2>7 DEF Respond
    <3>2. r.pc # "pick"
      BY <3>1 DEF IInv, Fields, Idle
    <3>3. config' = config /\ uses' = uses /\ calls' = calls /\ call[q].pc # "pick"
      BY <2>7 DEF Respond, pool, At
    <3> QED BY <3>1, <3>2, <3>3, RotationOther
  <2>8. ASSUME NEW q \in Caller, ReadBody(q) PROVE RInv'
    <3>1. PICK r : /\ Update(q, r)
                   /\ \/ r = [call[q] EXCEPT !.pc = "retry"]
                      \/ \E n : r = [call[q] EXCEPT !.pc = "answered", !.tokens = n]
                      \/ r = [call[q] EXCEPT !.pc = "failed", !.why = "upstream"]
      BY <2>8 DEF ReadBody, Return
    <3>2. r.pc # "pick"
      BY <3>1 DEF IInv, Fields, Idle
    <3>3. config' = config /\ uses' = uses /\ calls' = calls /\ call[q].pc # "pick"
      BY <2>8 DEF ReadBody, pool, At
    <3> QED BY <3>1, <3>2, <3>3, RotationOther
  <2>9. ASSUME NEW q \in Caller,
               \/ CopyChunk(q) \/ EndOfStream(q) \/ ClientReads(q) \/ ClientGone(q)
               \/ \E why : BreakOff(q, why)
        PROVE  RInv'
    <3>1. PICK r : Update(q, r) /\ UNCHANGED pool /\ Passes(call[q], r)
      BY <2>9, Passing DEF IInv
    <3>2. r.pc # "pick" /\ call[q].pc # "pick"
      BY <3>1 DEF Passes, Copying, Running, Reading, Writing
    <3> QED BY <3>1, <3>2, RotationOther DEF pool
  <2>10. CASE UNCHANGED vars
    BY <2>10, RotationAside DEF vars, At
  <2> QED
    BY <2>1, <2>2, <2>3, <2>4, <2>5, <2>6, <2>7, <2>8, <2>9, <2>10
       DEF Next, Step, UpstreamFails, TimeoutFires
<1>3. IInv /\ CInv /\ RInv => RotationEven
  <2> SUFFICES ASSUME IInv, CInv, RInv, calls <= Half, NEW i \in DOMAIN uses, NEW j \in DOMAIN uses
               PROVE  uses[i] <= uses[j] + 1 + Cardinality(Choosing)
    BY DEF RotationEven
  <2>1. i \in 0..(Pool - 1) /\ j \in 0..(Pool - 1) /\ Pool \in Nat /\ Pool > 0
    BY DEF IInv, PoolOK
  <2>2. PICK k \in Nat : Turned(k)
    BY <2>1 DEF RInv
  <2>3. PICK a, b, c, u, v : /\ a = Cardinality(ChoosingKey(i)) /\ b = Cardinality(ChoosingKey(j))
                             /\ c = Cardinality(Choosing) /\ u = uses[i] /\ v = uses[j]
    OBVIOUS
  <2>4. a \in Nat /\ b \in Nat /\ c \in Nat /\ b <= c /\ u \in Nat /\ v \in Nat
    BY <2>3, ChoosingFinite DEF CInv
  <2>5. u + a \in {k, k + 1} /\ v + b \in {k, k + 1}
    BY <2>1, <2>2, <2>3 DEF Turned
  <2>6. u <= v + 1 + c
    BY <2>4, <2>5
  <2> QED BY <2>3, <2>6
<1> QED BY <1>1, <1>2, <1>3, Inductive, CallsInductive, PTL DEF Spec
=============================================================================
