----------------------------- MODULE MCProvider -----------------------------
(***************************************************************************)
(* Small instances of module Provider.                                     *)
(***************************************************************************)
EXTENDS Provider

Config(type, keys) == [type |-> type, absoluteURL |-> TRUE, keys |-> keys]
Message(role, text) == [role |-> role, text |-> text]
Ask(messages, stream, max) == [messages |-> messages, stream |-> stream, max |-> max]
Reply(status, decodes, prompt, completion, size) ==
  [status |-> status, decodes |-> decodes, prompt |-> prompt, completion |-> completion,
   size |-> size]

\* Pools of one, two and three keys; a word of eight values turns negative
\* after four calls and is back at zero after eight.
PoolConfigs == {Config("openai", <<"a">>), Config("openai", <<"a", "b">>),
                Config("google", <<"a", "b", "c">>)}
OneChat == {Ask(<<Message("user", 1)>>, FALSE, 0)}
OneAnswer == {Reply(200, TRUE, 1, 2, 8)}

\* One provider of each type, and two that validateProvider refuses.
EveryType == {Config(type, <<"a">>) : type \in ProviderType \cup {"other"}}
               \cup {Config("openai", <<>>)}
               \cup {[Config("google", <<>>) EXCEPT !.absoluteURL = FALSE]}
Turn(i) == {Message(role, i) : role \in Role}
Conversations == {<<m1, m2, m3>> : m1 \in Turn(1), m2 \in Turn(2), m3 \in Turn(3)}
MCChats == {Ask(c, FALSE, 0) : c \in Conversations}
             \cup {Ask(<<Message("user", 1)>>, s, max) : s \in BOOLEAN, max \in {-1, 0, 2048}}
MCAnswers ==
  {Reply(st, d, 5, c, 8) : st \in {200, 400, 429, 500}, d \in BOOLEAN, c \in {0, 3}}
    \cup {Reply(400, FALSE, 0, 0, 0)}
=============================================================================
