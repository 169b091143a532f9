----------------------------- MODULE CreditGate -----------------------------
(***************************************************************************)
(* The workspace credit account as the ledgers see it: a balance behind    *)
(* one advisory lock, and the registered pricing.  `creditGate()` and      *)
(* `creditPricing()` of packages/extensions/src/registry.ts are slots an   *)
(* extension fills; the account here is the per-workspace balance of       *)
(* packages/workspace-storage/src/credit-account.ts, and Unlimited stands  *)
(* for the gate that is registered when no extension is.                   *)
(*                                                                         *)
(* Every ledger operation starts with lockCredits and keeps the lock until *)
(* its transaction ends, so an operation of one transaction is one step.   *)
(***************************************************************************)
EXTENDS Integers

CONSTANTS
  MaxUnits,   \* the largest amount a numeric(30,0) column and its parser take
  Rate,       \* credit units per pico-USD of provider cost
  Round,      \* the pricing's round, as a function on 0..MaxUnits
  Granted,    \* the units the account starts with, or Unlimited
  Unlimited   \* the balance of the gate that funds everything

Units == 0..MaxUnits

(* What slots.ts asks of a pricing: 0 maps to 0, no amount is rounded down *)
(* and a larger aggregate never costs less.                                *)
PricingContract ==
  /\ Round \in [Units -> Nat]
  /\ Round[0] = 0
  /\ \A u \in Units : u <= Round[u]
  /\ \A u, v \in Units : u <= v => Round[u] <= Round[v]

ASSUME UnitsAssumption == MaxUnits \in Nat /\ Rate \in Nat \ {0}
ASSUME PricingAssumption == PricingContract
ASSUME GateAssumption ==
  /\ Unlimited \notin Int
  /\ Granted \in Nat \cup {Unlimited}

VARIABLE available   \* units the workspace may still spend, or Unlimited

Balance == Nat \cup {Unlimited}

\* A provider cost the pricing can be applied to.
Priceable(cost) == cost \in Nat /\ cost * Rate \in Units

\* creditUnitsForProviderCost
UnitsFor(cost) == Round[cost * Rate]

\* A negative amount returns units; the unlimited gate's debit does nothing.
\* An account refuses a debit that would leave it below zero (CHECK).
Debited(balance, units) ==
  IF balance = Unlimited THEN Unlimited ELSE balance - units

Debit(units) ==
  /\ available = Unlimited \/ units <= available
  /\ available' = Debited(available, units)

\* The admission test of reserveCredits and holdReplyCredits.
Affords(balance, units) ==
  balance = Unlimited \/ (balance > 0 /\ units <= balance)
=============================================================================
