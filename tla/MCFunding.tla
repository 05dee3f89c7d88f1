----------------------------- MODULE MCFunding -----------------------------
(* A small instance of Funding for TLC: one gas payer and the identity.    *)
EXTENDS Funding

CONSTANTS submit, identity, stranger

MCRegistry == <<submit, identity>>
MCLower == [a \in {submit, identity} |-> IF a = submit THEN 2 ELSE 1]
MCUpper == [a \in {submit, identity} |-> IF a = submit THEN 4 ELSE 2]

(* The same account twice, by target and by amount, beside one that is not *)
(* in the registry.                                                        *)
MCPlans == {
  <<[acct |-> submit, kind |-> "target", n |-> 4], [acct |-> submit, kind |-> "amount", n |-> 2],
    [acct |-> stranger, kind |-> "amount", n |-> 1]>>}
============================================================================
