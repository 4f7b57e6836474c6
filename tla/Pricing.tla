------------------------------ MODULE Pricing ------------------------------
(***************************************************************************)
(* The price table, internal/cost/pricing.go and static_pricing.go.        *)
(*                                                                         *)
(* A price is a price per token.  The code keeps US dollars per million    *)
(* tokens, which is micro-dollars per token, as floats; here amounts are   *)
(* whole numbers of a unit of which Micro make one micro-dollar, chosen    *)
(* small enough for every price in play to be exact.                       *)
(***************************************************************************)
EXTENDS Integers

CONSTANTS
  Model,          \* every model name a request can carry
  DefaultPrices,  \* built-in model |-> its price
  Feed,           \* the decoded bodies the pricing URL can answer with
  Micro           \* units of account in a micro-dollar

ModelPrice == [input : Nat, output : Nat]

ASSUME PriceAssumption ==
  /\ Micro \in Nat \ {0}
  /\ DOMAIN DefaultPrices \subseteq Model
  /\ \A m \in DOMAIN DefaultPrices : DefaultPrices[m] \in ModelPrice
  /\ \A feed \in Feed : /\ DOMAIN feed \subseteq Model
                        /\ \A m \in DOMAIN feed : feed[m] \in ModelPrice

VARIABLE prices   \* the table, model |-> price, swapped as a whole

(***************************************************************************)
(* What prompt and completion tokens cost: a model that is not in the      *)
(* table is priced at 1 and 3 dollars per million tokens.                  *)
(***************************************************************************)
UnknownPrice == [input |-> Micro, output |-> 3 * Micro]

PriceOf(table, model) == IF model \in DOMAIN table THEN table[model] ELSE UnknownPrice

Price(table, model, promptTokens, completionTokens) ==
  promptTokens * PriceOf(table, model).input
    + completionTokens * PriceOf(table, model).output

StaticPrice(model, promptTokens, completionTokens) ==
  Price(DefaultPrices, model, promptTokens, completionTokens)

(***************************************************************************)
(* Refresh lays the feed over the defaults and swaps the table; a feed     *)
(* without models, like a failed fetch or decode, leaves the old table.    *)
(***************************************************************************)
Overlay(feed) ==
  [m \in DOMAIN DefaultPrices \cup DOMAIN feed |->
     IF m \in DOMAIN feed THEN feed[m] ELSE DefaultPrices[m]]

InitPrices == prices = DefaultPrices

Refresh(feed) == DOMAIN feed # {} /\ prices' = Overlay(feed)

(***************************************************************************)
(* Every table that can be in force.                                       *)
(***************************************************************************)
PriceTables == {DefaultPrices} \cup {Overlay(feed) : feed \in Feed}
=============================================================================
