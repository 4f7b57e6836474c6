------------------------------ MODULE Provider ------------------------------
(***************************************************************************)
(* One upstream provider as concurrent requests use it: the router's key   *)
(* pool and HTTP client (internal/provider/router.go), the adapters for    *)
(* OpenAI, Anthropic and Google, writeStream of internal/gateway/chat.go,  *)
(* and the completion tokens that are charged in the end.                  *)
(*                                                                         *)
(* The pool counts its calls in an unsigned word.  NextKey converts it to  *)
(* an int, subtracts one and takes the remainder, all in the arithmetic of *)
(* Go: it wraps, and a remainder has the sign of the dividend.  The word   *)
(* has 2 * Half values; the machine's is 64 bits, or 32 where an int is.   *)
(*                                                                         *)
(* One timer per call, http.Client.Timeout, runs from the request to the   *)
(* end of the body: it ends what is waiting for the upstream, and not a    *)
(* write to the client.  The upstream is the environment: it may answer,   *)
(* break off or say nothing for ever.  So is the client: it may read,      *)
(* leave or stay and not read, and write_timeout is 0, its default.        *)
(***************************************************************************)
EXTENDS Integers, Sequences, FiniteSets

CONSTANTS
  Caller,     \* request goroutines that use this provider
  Configs,    \* provider sections of configuration files
  Key,        \* API keys
  Chats,      \* decoded chat completion requests in play
  Answers,    \* upstream answers in play
  Half,       \* half the number of values of a machine word
  Timeout,    \* reliability.provider_timeout, in ticks
  Chunks,     \* a stream has at most this many chunks
  Buffer,     \* chunks that net/http holds back until there are more
  Overhead,   \* size of an OpenAI answer without its text
  MaxCalls    \* bound on the number of calls that are explored

ProviderType == {"openai", "openai-compatible", "anthropic", "google"}
ProviderConfig == [type : ProviderType \cup {"other"}, absoluteURL : BOOLEAN, keys : Seq(Key)]

(***************************************************************************)
(* A chat: its messages, each a text under a role; max is max_tokens, 0 if *)
(* there is none.  An answer: its status, whether it decodes, the tokens   *)
(* it reports (0 if it does not), the size of its text in characters.      *)
(***************************************************************************)
Role == {"system", "developer", "user", "assistant", "tool"}
Chat == [messages : Seq([role : Role, text : Nat]), stream : BOOLEAN, max : Int]
Answer == [status : {200, 400, 429, 500}, decodes : BOOLEAN,
           prompt : Nat, completion : Nat, size : Nat]

ASSUME ProviderAssumption ==
  /\ Configs \subseteq ProviderConfig /\ Chats \subseteq Chat /\ Answers \subseteq Answer
  /\ Half \in Nat \ {0} /\ Timeout \in Nat \ {0}
  /\ Chunks \in Nat /\ Buffer \in Nat /\ MaxCalls \in Nat
  /\ Overhead \in Nat \ {0}

VARIABLES
  config,   \* the section this provider was made of
  nextKey,  \* its counter, an unsigned word
  calls,    \* calls that have been to NextKey
  uses,     \* index of a key |-> requests that carry it
  call      \* caller |-> its call

vars == <<config, nextKey, calls, uses, call>>

----------------------------------------------------------------------------
(***************************************************************************)
(* NextKey.                                                                *)
(***************************************************************************)
Pool == Len(config.keys)

\* A word as int, and an int minus one: both wrap.
Signed(word) == IF word < Half THEN word ELSE word - 2 * Half
Minus1(int) == IF int = -Half THEN Half - 1 ELSE int - 1

\* The remainder of Go, for n > 0.
Rem(int, n) == IF int >= 0 THEN int % n ELSE -((-int) % n)

\* Mutant: the counter is not shifted to start from the first key.
KeyIndexUnshifted(idx) == Rem(Signed(idx), Pool)

KeyIndex(idx) == Rem(Minus1(Signed(idx)), Pool)

----------------------------------------------------------------------------
(***************************************************************************)
(* The requests that adapters make of a chat.  OpenAI gets the body as it  *)
(* came, here its messages and max_tokens.                                 *)
(***************************************************************************)
Instruction == {"system", "developer"}
IsInstruction(m) == m.role \in Instruction

\* The messages under some roles, as the loop over all of them appends these:
\* kept[i] are those among the first i.
OfRole(messages, roles) ==
  LET kept[i \in 0..Len(messages)] ==
        IF i = 0 THEN <<>>
        ELSE IF messages[i].role \in roles THEN Append(kept[i - 1], messages[i])
        ELSE kept[i - 1]
  IN  kept[Len(messages)]

Texts(messages) == [i \in DOMAIN messages |-> messages[i].text]
Turns(messages, assistant) ==
  [i \in DOMAIN messages |->
     [role |-> IF messages[i].role = "assistant" THEN assistant ELSE "user",
      text |-> messages[i].text]]

Upstream(system, messages, max) == [system |-> system, messages |-> messages, max |-> max]

OpenAIRequest(chat) == Upstream(<<>>, chat.messages, chat.max)

\* Mutant: a developer message counts as the user's.
NewAnthropicRequestSystemOnly(chat) ==
  Upstream(Texts(OfRole(chat.messages, {"system"})),
           Turns(OfRole(chat.messages, Role \ {"system"}), "assistant"),
           IF chat.max <= 0 THEN 1024 ELSE chat.max)

\* Mutant: another default than the budget check has.
NewAnthropicRequest4096(chat) ==
  Upstream(Texts(OfRole(chat.messages, Instruction)),
           Turns(OfRole(chat.messages, Role \ Instruction), "assistant"),
           IF chat.max <= 0 THEN 4096 ELSE chat.max)

NewAnthropicRequest(chat) ==
  Upstream(Texts(OfRole(chat.messages, Instruction)),
           Turns(OfRole(chat.messages, Role \ Instruction), "assistant"),
           IF chat.max <= 0 THEN 1024 ELSE chat.max)

\* maxOutputTokens is left out of the JSON if it is 0.
NewGoogleRequest(chat) ==
  Upstream(Texts(OfRole(chat.messages, Instruction)),
           Turns(OfRole(chat.messages, Role \ Instruction), "model"),
           chat.max)

RequestFor(chat) ==
  CASE config.type \in {"openai", "openai-compatible"} -> OpenAIRequest(chat)
    [] config.type = "anthropic" -> NewAnthropicRequest(chat)
    [] config.type = "google" -> NewGoogleRequest(chat)

(***************************************************************************)
(* Answers on their way back.                                              *)
(***************************************************************************)
\* Mutant: the two counts are handed over in the wrong order.
MarshalOpenAIResponseSwapped(a) ==
  [a EXCEPT !.size = @ + Overhead, !.prompt = a.completion, !.completion = a.prompt]

\* The same answer in the format of OpenAI: the tokens are kept, the text wrapped.
MarshalOpenAIResponse(a) == [a EXCEPT !.size = @ + Overhead]

Converts == config.type \in {"anthropic", "google"}

\* Mutant: rounded up the wrong way.
EstimateTokensLess(size) == (size - 1) \div 4

EstimateTokens(size) == (size + 3) \div 4

CompletionTokensFromOpenAI(a) ==
  IF a.decodes /\ a.completion > 0 THEN a.completion ELSE EstimateTokens(a.size)

Retryable(status) == status = 429 \/ status >= 500

----------------------------------------------------------------------------
NoAnswer == [status |-> 0, decodes |-> FALSE, prompt |-> 0, completion |-> 0, size |-> 0]
NoChat == [messages |-> <<>>, stream |-> FALSE, max |-> 0]
NoRequest == Upstream(<<>>, <<>>, 0)

\* A running call waits for the upstream, or for the client to read.
Reading == {"sent", "read", "stream"}
Writing == {"write", "flush"}
Running == Reading \cup Writing
Ended == {"failed", "retry", "answered", "streamed", "cut", "panicked"}
PC == {"idle", "draw", "pick"} \cup Running \cup Ended

Idle == [pc |-> "idle", chat |-> NoChat, idx |-> 0, sent |-> NoRequest, left |-> 0,
         answer |-> NoAnswer, tokens |-> 0, chunks |-> 0, passed |-> 0, why |-> "none"]

TypeOK ==
  /\ config \in Configs
  /\ nextKey \in 0..(2 * Half - 1)
  /\ calls \in 0..MaxCalls
  /\ DOMAIN uses = 0..(Pool - 1) /\ \A i \in DOMAIN uses : uses[i] \in Nat
  /\ \A q \in Caller :
       /\ call[q].pc \in PC /\ call[q].chat \in Chats \cup {NoChat}
       /\ call[q].idx \in 0..(2 * Half - 1)
       /\ call[q].left \in 0..Timeout
       /\ call[q].answer \in Answers \cup {NoAnswer}
       /\ call[q].tokens \in Nat
       /\ call[q].passed \in 0..Chunks /\ call[q].chunks \in call[q].passed..Chunks

\* validateProvider.
ValidateProvider(c) == c.type \in ProviderType /\ c.absoluteURL

\* NewRouter.
Init ==
  /\ config \in {c \in Configs : ValidateProvider(c)}
  /\ nextKey = 0
  /\ calls = 0
  /\ uses = [i \in 0..(Pool - 1) |-> 0]
  /\ call = [q \in Caller |-> Idle]

At(q, pc) == call[q].pc = pc
Update(q, record) == call' = [call EXCEPT ![q] = record]
pool == <<config, nextKey, calls, uses>>

(***************************************************************************)
(* ChatCompletions, up to the key.  Two of the adapters refuse streams.    *)
(***************************************************************************)
Call(q, chat) ==
  /\ call[q].pc \in Ended \cup {"idle"} /\ calls < MaxCalls
  /\ Update(q, [Idle EXCEPT !.chat = chat,
                            !.sent = IF chat.stream /\ Converts THEN NoRequest ELSE RequestFor(chat),
                            !.pc = IF chat.stream /\ Converts THEN "failed" ELSE "draw"])
  /\ UNCHANGED pool

\* Mutant: a counter that is read and written in two steps can give two
\* callers the same number.
DrawRacy(q) ==
  /\ At(q, "draw") /\ Pool > 0 /\ calls < MaxCalls
  /\ calls' = calls + 1
  /\ \/ nextKey' = (nextKey + 1) % (2 * Half)
     \/ \E p \in Caller : At(p, "pick") /\ nextKey' = nextKey
  /\ Update(q, [call[q] EXCEPT !.idx = nextKey', !.pc = "pick"])
  /\ UNCHANGED <<config, uses>>

\* nextKey.Add(1)
Draw(q) ==
  /\ At(q, "draw") /\ Pool > 0 /\ calls < MaxCalls
  /\ calls' = calls + 1
  /\ nextKey' = (nextKey + 1) % (2 * Half)
  /\ Update(q, [call[q] EXCEPT !.idx = nextKey', !.pc = "pick"])
  /\ UNCHANGED <<config, uses>>

Send(q) == Update(q, [call[q] EXCEPT !.pc = "sent", !.left = Timeout])

SendWithoutKey(q) ==
  /\ At(q, "draw") /\ Pool = 0 /\ calls < MaxCalls
  /\ calls' = calls + 1
  /\ Send(q)
  /\ UNCHANGED <<config, nextKey, uses>>

SendWithKey(q) ==
  /\ At(q, "pick")
  /\ KeyIndex(call[q].idx) \in DOMAIN uses
  /\ uses' = [uses EXCEPT ![KeyIndex(call[q].idx)] = @ + 1]
  /\ Send(q)
  /\ UNCHANGED <<config, nextKey, calls>>

\* The index is out of range; net/http recovers and drops the connection.
Panic(q) ==
  /\ At(q, "pick")
  /\ KeyIndex(call[q].idx) \notin DOMAIN uses
  /\ Update(q, [call[q] EXCEPT !.pc = "panicked"])
  /\ UNCHANGED pool

----------------------------------------------------------------------------
(***************************************************************************)
(* The upstream answers; if the call can stream the body goes on to        *)
(* writeStream, else it is read to its end and, below 400, converted.      *)
(***************************************************************************)
Respond(q, a) ==
  /\ At(q, "sent") /\ call[q].left > 0
  /\ Update(q, [call[q] EXCEPT !.answer = a,
                  !.pc = IF call[q].chat.stream /\ ~Retryable(a.status) THEN "stream" ELSE "read"])
  /\ UNCHANGED pool

\* What is returned to callProviders, which turns down 429 and 5xx.
Return(q, body) ==
  IF Retryable(body.status) THEN Update(q, [call[q] EXCEPT !.pc = "retry"])
  ELSE Update(q, [call[q] EXCEPT !.pc = "answered", !.tokens = CompletionTokensFromOpenAI(body)])

ReadBody(q) ==
  LET a == call[q].answer IN
    /\ At(q, "read") /\ call[q].left > 0
    /\ IF ~Converts \/ a.status >= 400 THEN Return(q, a)
       ELSE IF a.decodes THEN Return(q, MarshalOpenAIResponse(a))
       ELSE Update(q, [call[q] EXCEPT !.pc = "failed", !.why = "upstream"])
    /\ UNCHANGED pool

(***************************************************************************)
(* writeStream: io.Copy reads a chunk and hands it to net/http, which      *)
(* holds some back and then writes them all; at the end of the stream the  *)
(* rest is flushed, after an error it is when the handler has returned.    *)
(***************************************************************************)
CopyChunk(q) ==
  /\ At(q, "stream") /\ call[q].left > 0 /\ call[q].chunks < Chunks
  /\ LET n == call[q].chunks + 1 IN
       Update(q, [call[q] EXCEPT !.chunks = n,
                                 !.pc = IF n - call[q].passed > Buffer THEN "write" ELSE @])
  /\ UNCHANGED pool

EndOfStream(q) ==
  /\ At(q, "stream") /\ call[q].left > 0
  /\ Update(q, [call[q] EXCEPT !.pc = "flush"])
  /\ UNCHANGED pool

\* The client reads all there is: the copy goes on, or is over.
ClientReads(q) ==
  /\ call[q].pc \in Writing
  /\ Update(q, [call[q] EXCEPT !.passed = call[q].chunks,
                               !.pc = IF @ = "write" THEN "stream"
                                      ELSE IF call[q].why = "none" THEN "streamed" ELSE "cut"])
  /\ UNCHANGED pool

\* The upstream's side breaks off: an error for callProviders, the end of a stream.
BreakOff(q, why) ==
  /\ call[q].pc \in Reading
  /\ Update(q, [call[q] EXCEPT !.why = why, !.pc = IF @ = "stream" THEN "flush" ELSE "failed"])
  /\ UNCHANGED pool

UpstreamFails(q) == BreakOff(q, "upstream")

\* Mutant: the timeout covers the time to the answer only.
TimeoutFiresEarlyOnly(q) == At(q, "sent") /\ call[q].left = 0 /\ BreakOff(q, "timeout")

TimeoutFires(q) == call[q].left = 0 /\ BreakOff(q, "timeout")

\* Whatever the goroutine waits for ends, and what is held back is lost.
ClientGone(q) ==
  /\ call[q].pc \in Running
  /\ Update(q, [call[q] EXCEPT !.why = "client",
                               !.pc = IF @ \in {"sent", "read"} THEN "failed" ELSE "cut"])
  /\ UNCHANGED pool

Tick ==
  /\ \E q \in Caller : call[q].left > 0 /\ call[q].pc \in Running
  /\ call' = [q \in Caller |->
                IF call[q].left > 0 THEN [call[q] EXCEPT !.left = @ - 1] ELSE call[q]]
  /\ UNCHANGED pool

Step(q) == Draw(q) \/ SendWithoutKey(q) \/ SendWithKey(q) \/ Panic(q) \/ TimeoutFires(q)

Next ==
  \/ Tick
  \/ \E q \in Caller :
       \/ \E chat \in Chats : Call(q, chat)
       \/ Step(q)
       \/ \E a \in Answers : Respond(q, a)
       \/ ReadBody(q) \/ CopyChunk(q) \/ EndOfStream(q)
       \/ UpstreamFails(q) \/ ClientReads(q) \/ ClientGone(q)

(***************************************************************************)
(* Goroutines that can run do run, and time passes.  Nothing is assumed of *)
(* the upstream or of the client.                                          *)
(***************************************************************************)
Spec == Init /\ [][Next]_vars

FairSpec == Spec /\ WF_vars(Tick) /\ \A q \in Caller : WF_vars(Step(q))

----------------------------------------------------------------------------
Choosing == {q \in Caller : At(q, "pick")}

(***************************************************************************)
(* README: "API key pools with per-provider rotation."  However callers    *)
(* interleave between the count and the request, no key is ahead of        *)
(* another by more than one, save for keys that are chosen and not yet     *)
(* used.  Up to the wrap of the counter to negative ints.                  *)
(***************************************************************************)
RotationEven ==
  calls <= Half =>
    \A i, j \in DOMAIN uses : uses[i] <= uses[j] + 1 + Cardinality(Choosing)

(***************************************************************************)
(* NextKey indexes its keys with a converted, decremented, wrapped number. *)
(* It is out of range for no call up to number Half (2^63, or 2^31 where   *)
(* an int has 32 bits), including the one at which the conversion turns    *)
(* negative; nor for a call at which the counter has come round to such a  *)
(* number again; and never for a pool of one key.                          *)
(***************************************************************************)
PanicOnlyAfterWrap ==
  \A q \in Caller :
    At(q, "panicked") => calls > Half /\ call[q].idx \notin 1..Half /\ Pool > 1

InFlight(q) == call[q].pc \in Running

\* The place of the i-th message among those of its kind.
PlaceOf(messages, i) ==
  Cardinality({j \in 1..i : IsInstruction(messages[j]) <=> IsInstruction(messages[i])})

(***************************************************************************)
(* docs/architecture.md: the adapters map chat completions.  Of every call *)
(* that is in flight, each message arrives once, in its place: system and  *)
(* developer messages as instructions and never as the words of the user,  *)
(* the others as turns, and only the assistant's own as the assistant's.   *)
(***************************************************************************)
ConversationKept ==
  \A q \in Caller : InFlight(q) /\ Converts =>
    LET client == call[q].chat.messages
        sent == call[q].sent
    IN  /\ Len(sent.system) + Len(sent.messages) = Len(client)
        /\ \A i \in DOMAIN client :
             IF IsInstruction(client[i])
               THEN /\ PlaceOf(client, i) \in DOMAIN sent.system
                    /\ sent.system[PlaceOf(client, i)] = client[i].text
               ELSE /\ PlaceOf(client, i) \in DOMAIN sent.messages
                    /\ LET turn == sent.messages[PlaceOf(client, i)] IN
                         /\ turn.text = client[i].text
                         /\ turn.role = "user" <=> client[i].role # "assistant"

\* The completion tokens that chatCompletions had the budget check price.
Priced(chat) == IF chat.max <= 0 THEN 1024 ELSE chat.max

(***************************************************************************)
(* The limit a provider is given is the one the budget was checked for:    *)
(* the handler and the Anthropic adapter each fill in their own default.   *)
(* Only a provider that is given none can answer at greater length.        *)
(***************************************************************************)
PricedLimitSent ==
  \A q \in Caller : InFlight(q) =>
    /\ call[q].sent.max > 0 => call[q].sent.max = Priced(call[q].chat)
    /\ config.type = "anthropic" => call[q].sent.max > 0

(***************************************************************************)
(* An answer is charged for the completion tokens its provider reports,    *)
(* through whatever format it came; one that reports none is charged for   *)
(* its size, and no such answer with a body is free.  (A stream never gets *)
(* here: writeStream is followed by a charge of no completion tokens.)     *)
(***************************************************************************)
Metered ==
  \A q \in Caller : At(q, "answered") =>
    LET a == call[q].answer IN
      /\ a.decodes /\ a.completion > 0 => call[q].tokens = a.completion
      /\ a.size > 0 => call[q].tokens > 0

(***************************************************************************)
(* No call hangs on the upstream: one that accepts a request and then says *)
(* nothing, or stops in the middle of a body or a stream, is given up, and *)
(* by then what writeStream has read of the stream has reached the client, *)
(* although it flushes only at the end, unless the client is gone.  Only a *)
(* client that neither reads nor leaves keeps a call from ending, for as   *)
(* long as it does.                                                        *)
(***************************************************************************)
Delivered(q) == call[q].why = "client" \/ call[q].passed = call[q].chunks

EveryCallEnds ==
  \A q \in Caller :
    \/ call[q].pc \in Running ~> (call[q].pc \in Ended /\ Delivered(q))
    \/ <>[](call[q].pc \in Writing)
=============================================================================
