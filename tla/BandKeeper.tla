----------------------------- MODULE BandKeeper -----------------------------
(***************************************************************************)
(* What the gas funding promises, without how: value leaves the funder     *)
(* only for a registered account, in a transfer sized, by the balance as   *)
(* it was decided, to fill that account up to its band and no further, and *)
(* every decided transfer lands at most once.  It does not promise that no *)
(* other one lands in between.  Funding.tla is shown to implement it.      *)
(***************************************************************************)
EXTENDS Integers

CONSTANTS Accounts, Upper, Places, None

VARIABLES
  balance,  \* native balance of each account
  funder,   \* balance of ap-funder
  inflight  \* the transfers that may still land: to, value; or None

vars == <<balance, funder, inflight>>

Transfer == [to : Accounts, value : Nat \ {0}]

Init ==
  /\ balance \in [Accounts -> Nat] /\ funder \in Nat
  /\ inflight = [i \in Places |-> None]

(* The accounts pay for the gas of what they submit.                       *)
Spend(a) ==
  \E b \in 0 .. balance[a] - 1 :
    balance' = [balance EXCEPT ![a] = b] /\ UNCHANGED <<funder, inflight>>

Decide(i) ==
  \E a \in Accounts : \E v \in 1 .. Upper[a] - balance[a] :
    /\ inflight[i] = None
    /\ inflight' = [inflight EXCEPT ![i] = [to |-> a, value |-> v]]
    /\ UNCHANGED <<balance, funder>>

(* A decided transfer is taken on: signed, it is fwd's and the node's.     *)
TakeOn(i, j) ==
  /\ inflight[i] # None /\ inflight[j] = None
  /\ inflight' = [inflight EXCEPT ![i] = None, ![j] = inflight[i]]
  /\ UNCHANGED <<balance, funder>>

(* The transfers of F are given up: they can no longer land.               *)
Drop(F) ==
  /\ inflight' = [i \in Places |-> IF i \in F THEN None ELSE inflight[i]]
  /\ UNCHANGED <<balance, funder>>

(* A transfer lands; it may take the place of the ones of F.               *)
Land(i, F) ==
  /\ inflight[i] # None /\ inflight[i].value <= funder
  /\ balance' = [balance EXCEPT ![inflight[i].to] = @ + inflight[i].value]
  /\ funder' = funder - inflight[i].value
  /\ inflight' = [j \in Places |-> IF j = i \/ j \in F THEN None ELSE inflight[j]]

Next ==
  \/ \E a \in Accounts : Spend(a)
  \/ \E i \in Places : Decide(i) \/ \E j \in Places : TakeOn(i, j)
  \/ \E F \in SUBSET Places : Drop(F) \/ \E i \in Places : Land(i, F)

Spec == Init /\ [][Next]_vars
=============================================================================
