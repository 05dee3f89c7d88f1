------------------------------ MODULE Funding ------------------------------
(***************************************************************************)
(* Keyless gas funding (clif/funding.py, the fund commands of clif/cli.py):*)
(* the daemon `clif fund run` tops up every account below its band, and    *)
(* an operator or agent runs `clif fund apply` on a proposed plan.  Both   *)
(* send from the one ap-funder wallet through fwd, with no lock between    *)
(* them.  For each account the balance is read and the value decided, then *)
(* fwd is asked to sign, which allocates the nonce; clif broadcasts the    *)
(* blob, reports the outcome, and follows the receipt.  Between any two of *)
(* these the other process, the node and the accounts move on.             *)
(*                                                                         *)
(* The idempotency key of a top-up holds the wall-clock second, so no two  *)
(* signings share one and fwd never replays.  Balances are whole units;    *)
(* the float tolerance (1e-9) is left out.                                 *)
(***************************************************************************)
EXTENDS Integers, Sequences, SequencesExt, FiniteSetsExt

CONSTANTS
  Registry,     \* ACCOUNTS[network]: the funded accounts, in order
  Lower, Upper, \* the band of each account
  PerTxCap,     \* validate_plan's per_tx_cap
  FunderCrit,   \* _FUNDER_CRIT
  Plans,        \* the plans an operator may submit to `fund apply`
  Processes,    \* which of "daemon" and "apply" run
  Funder0,      \* bound: what ap-funder holds at first
  MaxSpend,     \* bound: units of gas the accounts spend
  Slots,        \* fwd's policy: this many transfers signed and unsettled, no more
  None,         \* no transfer
  Faults,       \* the kinds of failure the environment may inject
  MaxFaults     \* bound: how many of them one behaviour contains

Accounts == Range(Registry)

ASSUME BandAssumption ==
  /\ Registry \in Seq(Accounts) /\ PerTxCap \in Nat
  /\ Lower \in [Accounts -> Nat \ {0}] /\ Upper \in [Accounts -> Nat]
  /\ \A a \in Accounts : Lower[a] < Upper[a] /\ Upper[a] <= PerTxCap
(* A plan is a list (_resolve_plan), its amounts are numbers of any sign.  *)
ASSUME PlansAssumption ==
  \A plan \in Plans :
    /\ Len(plan) \in Nat /\ DOMAIN plan = 1 .. Len(plan)
    /\ \A k \in 1 .. Len(plan) : plan[k].n \in Int
ASSUME BoundsAssumption ==
  /\ Funder0 \in Nat /\ MaxSpend \in Nat /\ MaxFaults \in Nat /\ FunderCrit \in Nat
  /\ Slots # {} /\ Processes \subseteq {"daemon", "apply"} /\ Slots \cap Processes = {}
  /\ None \notin Slots /\ None \notin [to : Accounts, value : Nat]

VARIABLES
  balance,    \* native balance of each account
  funder,     \* balance of ap-funder
  tx,         \* the transfers fwd signed: state, to, value, nonce
  fwdNonce,   \* the nonce fwd hands out next; nonces count from the wallet's on chain
  proc,       \* the processes: where they are and what is left to do
  spent,      \* gas spent so far
  faults,     \* failures injected so far
  overlapped  \* history: accounts read for a transfer while another to them was under way

chain == <<balance, funder, spent>>
vars  == <<chain, tx, fwdNonce, proc, faults, overlapped>>

Free == [st |-> "free", to |-> None, value |-> 0, nonce |-> 0]
Idle == [pc |-> "idle", todo |-> <<>>, value |-> 0, tx |-> None]

Init ==
  /\ balance = Lower /\ funder = Funder0 /\ spent = 0
  /\ tx = [i \in Slots |-> Free] /\ fwdNonce = 0
  /\ proc = [p \in Processes |-> Idle]
  /\ faults = 0 /\ overlapped = {}

Fault(kind) == kind \in Faults /\ faults < MaxFaults /\ faults' = faults + 1
NoFault == UNCHANGED faults

Live(i) == tx[i].st \in {"signed", "pending"}

(* AccountStatus.below, FundingHealth.funder_crit                          *)
Below(a) == balance[a] < Lower[a]
FunderCritical == funder < FunderCrit
-----------------------------------------------------------------------------
(***************************************************************************)
(* The chain.                                                              *)
(***************************************************************************)
Spend(a) ==
  /\ spent < MaxSpend /\ balance[a] > 0
  /\ \E n \in 1 .. balance[a] :
       /\ spent + n <= MaxSpend /\ spent' = spent + n
       /\ balance' = [balance EXCEPT ![a] = @ - n]
  /\ UNCHANGED <<funder, tx, fwdNonce, proc, faults, overlapped>>

(* A transfer is included when its nonce is the wallet's next one; another *)
(* one with the same nonce never will be.                                  *)
Includable(i) ==
  tx[i].st = "pending" /\ tx[i].nonce = 0 /\ tx[i].value <= funder

(* What is kept of a transfer that can no longer land: its end, while some *)
(* process still follows it.                                               *)
Ended(i, end) ==
  IF \E p \in Processes : proc[p].tx = i /\ proc[p].pc = "follow"
  THEN [Free EXCEPT !.st = end] ELSE Free

Mine(i) ==
  /\ Includable(i)
  /\ balance' = [balance EXCEPT ![tx[i].to] = @ + tx[i].value]
  /\ funder' = funder - tx[i].value
  /\ tx' = [j \in Slots |->
              IF j = i THEN Ended(j, "mined")
              ELSE IF tx[j].st = "pending" /\ tx[j].nonce = 0 THEN Ended(j, "dead")
              ELSE IF Live(j) THEN [tx[j] EXCEPT !.nonce = @ - 1] ELSE tx[j]]
  /\ fwdNonce' = fwdNonce - 1
  /\ UNCHANGED <<proc, spent, faults, overlapped>>
-----------------------------------------------------------------------------
(***************************************************************************)
(* One pass: what is to be done, account by account.                       *)
(***************************************************************************)
(* _fund_pass of the daemon: with every account in band, the funder        *)
(* comfortable and the reads good, the pass ends after the health line.    *)
(* Mutant: only a drained funder counts.                                   *)
NeedsFundingFunder == FunderCritical

NeedsFunding == (\E a \in Accounts : Below(a)) \/ FunderCritical

HealthyPass ==
  /\ "daemon" \in Processes /\ proc["daemon"].pc = "idle" /\ ~NeedsFunding
  /\ UNCHANGED vars

(* Otherwise run_funding walks the whole registry.  A failed read of the   *)
(* health counts as CRIT and funds as well.  A failed fee read ends it.    *)
BeginPass ==
  /\ "daemon" \in Processes /\ proc["daemon"].pc = "idle"
  /\ \/ NeedsFunding /\ NoFault
     \/ Fault("rpc")
  /\ proc' = [proc EXCEPT !["daemon"] =
                [Idle EXCEPT !.pc = "work",
                             !.todo = [k \in DOMAIN Registry |->
                                         [acct |-> Registry[k], amount |-> Upper[Registry[k]]]]]]
  /\ UNCHANGED <<chain, tx, fwdNonce, overlapped>>

(* validate_plan: one line at a time, against the balances read and the    *)
(* running total of what was accepted before it.                           *)
Amount(it) == IF it.kind = "target" THEN it.n - balance[it.acct] ELSE it.n

Accepted(it, running) ==
  /\ it.acct \in Accounts
  /\ it.kind = "target" => it.n <= Upper[it.acct]
  /\ Amount(it) > 0
  /\ Amount(it) <= PerTxCap
  /\ balance[it.acct] + Amount(it) <= Upper[it.acct]
  /\ running + Amount(it) <= funder

(* The numbers of the plan's accepted lines.                               *)
ValidatePlan(plan) ==
  LET running[k \in 0 .. Len(plan)] ==
        IF k = 0 THEN 0
        ELSE running[k - 1] + IF Accepted(plan[k], running[k - 1]) THEN Amount(plan[k]) ELSE 0
  IN  {k \in 1 .. Len(plan) : Accepted(plan[k], running[k - 1])}

(* fund apply: the accepted lines in the plan's order, of which there must *)
(* be one.                                                                 *)
BeginApply ==
  /\ "apply" \in Processes /\ proc["apply"].pc = "idle"
  /\ \E plan \in Plans :
       LET lines == ValidatePlan(plan) IN
       /\ lines # {}
       /\ \E nth \in [1 .. Cardinality(lines) -> lines] :
            /\ \A j, k \in DOMAIN nth : j < k => nth[j] < nth[k]
            /\ proc' = [proc EXCEPT !["apply"] =
                          [Idle EXCEPT !.pc = "work",
                                       !.todo = [k \in DOMAIN nth |->
                                                   [acct   |-> plan[nth[k]].acct,
                                                    amount |-> Amount(plan[nth[k]])]]]]
  /\ UNCHANGED <<chain, tx, fwdNonce, faults, overlapped>>

(* The value of a top-up: run_funding fills an account below its band to   *)
(* the upper bound; apply_plan checks the bound again ("balances move").   *)
(* Mutant: apply_plan trusts the amount it validated.                      *)
ValueUnchecked(p, a, amount) ==
  IF p = "daemon" THEN IF Below(a) THEN Upper[a] - balance[a] ELSE 0
  ELSE amount

(* Mutant: what the account already holds is not subtracted.               *)
ValueToUpper(p, a, amount) ==
  IF p = "daemon" THEN IF Below(a) THEN Upper[a] ELSE 0
  ELSE Min({amount, Max({0, Upper[a] - balance[a]})})

Value(p, a, amount) ==
  IF p = "daemon" THEN IF Below(a) THEN Upper[a] - balance[a] ELSE 0
  ELSE Min({amount, Max({0, Upper[a] - balance[a]})})

Working(p) == proc[p].pc = "work" /\ proc[p].todo # <<>>
Item(p)    == Head(proc[p].todo)
(* Mutant: the transfer is not let go of.                                  *)
AdvanceHolding(p) == [proc[p] EXCEPT !.pc = "work", !.todo = Tail(@)]

Advance(p) == [Idle EXCEPT !.pc = "work", !.todo = Tail(proc[p].todo)]

(* In band (or filled meanwhile): skipped; an unreadable balance: failed.  *)
(* On to the next account in each case.                                    *)
SkipAccount(p) ==
  /\ Working(p)
  /\ \/ Value(p, Item(p).acct, Item(p).amount) = 0 /\ NoFault
     \/ Fault("rpc")
  /\ proc' = [proc EXCEPT ![p] = Advance(p)]
  /\ UNCHANGED <<chain, tx, fwdNonce, overlapped>>

(* A top-up of account a is decided and not signed yet, or may still land. *)
Deciding(p) == proc[p].pc = "sign"
Underway(a) ==
  \/ \E i \in Slots : Live(i) /\ tx[i].to = a
  \/ \E p \in Processes : Deciding(p) /\ Item(p).acct = a

(* The balance is read and the value decided, by that reading alone.       *)
ReadBalance(p) ==
  LET a == Item(p).acct
      v == Value(p, a, Item(p).amount)
  IN  /\ Working(p) /\ v > 0
      /\ proc' = [proc EXCEPT ![p].pc = "sign", ![p].value = v]
      /\ overlapped' = IF Underway(a) THEN overlapped \cup {a} ELSE overlapped
      /\ UNCHANGED <<chain, tx, fwdNonce, faults>>

EndPass(p) ==
  /\ proc[p].pc = "work" /\ proc[p].todo = <<>>
  /\ proc' = [proc EXCEPT ![p] = Idle]
  /\ UNCHANGED <<chain, tx, fwdNonce, faults, overlapped>>

(* An RpcError nobody catches inside the pass: the daemon's loop logs it   *)
(* and sleeps, the command exits.  The accounts not reached are left out.  *)
Abort(p) ==
  /\ Fault("rpc")
  /\ proc' = [proc EXCEPT ![p] = Idle]

(* The fees cannot be read: the pass ends before it begins.                *)
FeesUnread(p) ==
  /\ proc[p].pc = "idle" /\ Abort(p)
  /\ UNCHANGED <<chain, tx, fwdNonce, overlapped>>
-----------------------------------------------------------------------------
(***************************************************************************)
(* _execute_topup: sign, broadcast, report, follow.                        *)
(***************************************************************************)
(* Without a record left for one more transfer fwd denies it by rate.      *)
RateLimited == \A i \in Slots : tx[i] # Free

Sign(p) ==
  LET i == CHOOSE j \in Slots : tx[j] = Free
  IN  /\ Deciding(p) /\ ~RateLimited
      /\ tx' = [tx EXCEPT ![i] = [st |-> "signed", to |-> Item(p).acct, value |-> proc[p].value,
                                  nonce |-> fwdNonce]]
      /\ fwdNonce' = fwdNonce + 1
      /\ proc' = [proc EXCEPT ![p].pc = "send", ![p].value = 0, ![p].tx = i]
      /\ UNCHANGED <<chain, faults, overlapped>>

(* Refused by fwd, or signed and the answer lost with the blob: failed.    *)
SignFails(p) ==
  /\ Deciding(p)
  /\ \/ RateLimited /\ NoFault /\ UNCHANGED fwdNonce
     \/ Fault("denied") /\ UNCHANGED fwdNonce
     \/ ~RateLimited /\ Fault("unsigned") /\ fwdNonce' = fwdNonce + 1
  /\ proc' = [proc EXCEPT ![p] = Advance(p)]
  /\ UNCHANGED <<chain, tx, overlapped>>

(* fwd on a broadcast-result report: "rejected_releaseable" gives the nonce*)
(* back if it is the last one handed out.  A failed report is ignored.     *)
Release(i) ==
  \/ NoFault /\ fwdNonce' = IF tx[i].nonce = fwdNonce - 1 THEN tx[i].nonce ELSE fwdNonce
  \/ Fault("report") /\ UNCHANGED fwdNonce

Rival(i) == {j \in Slots \ {i} : tx[j].st = "pending" /\ tx[j].nonce = tx[i].nonce}

(* The node's reasons to refuse a blob: nonce too low, a transfer with the *)
(* same nonce at the same price in the pool, insufficient funds.           *)
Refused(i) == tx[i].nonce < 0 \/ Rival(i) # {} \/ tx[i].value > funder

(* Taken into the pool; at a higher price it replaces a rival.             *)
Send(p) ==
  LET i == proc[p].tx IN
  /\ proc[p].pc = "send" /\ tx[i].nonce >= 0 /\ tx[i].value <= funder
  /\ tx' = [j \in Slots |->
              IF j = i THEN [tx[j] EXCEPT !.st = "pending"]
              ELSE IF j \in Rival(i) THEN Ended(j, "dead") ELSE tx[j]]
  /\ proc' = [proc EXCEPT ![p].pc = "follow"]
  /\ UNCHANGED <<chain, fwdNonce, faults, overlapped>>

(* Any RpcError of the send, a nonce too low included, is reported as      *)
(* rejected_releaseable, and the top-up has failed.                        *)
SendRefused(p) ==
  LET i == proc[p].tx IN
  /\ proc[p].pc = "send"
  /\ \/ Refused(i) /\ Release(i)
     \/ ~Refused(i) /\ Fault("node")
        /\ fwdNonce' = IF tx[i].nonce = fwdNonce - 1 THEN tx[i].nonce ELSE fwdNonce
  /\ tx' = [tx EXCEPT ![i] = Free]
  /\ proc' = [proc EXCEPT ![p] = Advance(p)]
  /\ UNCHANGED <<chain, overlapped>>

(* The node took the blob but the answer is lost: treated alike.           *)
SendUnanswered(p) ==
  LET i == proc[p].tx IN
  /\ proc[p].pc = "send" /\ ~Refused(i) /\ Fault("lost")
  /\ tx' = [tx EXCEPT ![i].st = "pending"]
  /\ fwdNonce' = IF tx[i].nonce = fwdNonce - 1 THEN tx[i].nonce ELSE fwdNonce
  /\ proc' = [proc EXCEPT ![p] = Advance(p)]
  /\ UNCHANGED <<chain, overlapped>>

(* Nobody asks for transfer i any more.                                    *)
Unfollowed(i) == [tx EXCEPT ![i] = IF Live(i) THEN @ ELSE Free]

(* poll_receipt: a receipt, or the poll's timeout.  Either way the pass    *)
(* goes on and nobody follows the transfer any further.                    *)
Follow(p) ==
  LET i == proc[p].tx IN
  /\ proc[p].pc = "follow"
  /\ \/ tx[i].st = "mined" /\ NoFault
     \/ tx[i].st # "mined" /\ ~Includable(i) /\ NoFault
     \/ Includable(i) /\ Fault("slow")
  /\ proc' = [proc EXCEPT ![p] = Advance(p)]
  /\ tx' = Unfollowed(i)
  /\ UNCHANGED <<chain, fwdNonce, overlapped>>

FollowFails(p) ==
  /\ proc[p].pc = "follow" /\ Abort(p) /\ tx' = Unfollowed(proc[p].tx)
  /\ UNCHANGED <<chain, fwdNonce, overlapped>>

(* The process dies; a blob it had not broadcast is gone.                  *)
Crash(p) ==
  /\ proc[p].pc # "idle" /\ Fault("crash")
  /\ tx' = [i \in Slots |->
              IF i = proc[p].tx /\ tx[i].st # "pending" THEN Free ELSE tx[i]]
  /\ proc' = [proc EXCEPT ![p] = Idle]
  /\ UNCHANGED <<chain, fwdNonce, overlapped>>
-----------------------------------------------------------------------------
Step(p) ==
  \/ SkipAccount(p) \/ ReadBalance(p) \/ EndPass(p)
  \/ Sign(p) \/ SignFails(p) \/ Send(p) \/ SendRefused(p) \/ Follow(p)
Failure(p) == FeesUnread(p) \/ SendUnanswered(p) \/ FollowFails(p) \/ Crash(p)

Next ==
  \/ \E a \in Accounts : Spend(a)
  \/ \E i \in Slots : Mine(i)
  \/ HealthyPass \/ BeginPass \/ BeginApply
  \/ \E p \in Processes : Step(p) \/ Failure(p)

Spec == Init /\ [][Next]_vars

(* Blocks are produced; a process that runs goes on, and the daemon wakes. *)
Fairness ==
  /\ \A i \in Slots : WF_vars(Mine(i))
  /\ \A p \in Processes : WF_vars(Step(p))
  /\ WF_vars(BeginPass)

FairSpec == Spec /\ Fairness
-----------------------------------------------------------------------------
TypeOK ==
  /\ balance \in [Accounts -> Nat] /\ funder \in Nat /\ fwdNonce \in Int
  /\ spent \in 0 .. MaxSpend /\ faults \in 0 .. MaxFaults /\ overlapped \subseteq Accounts
  /\ \A i \in Slots :
       /\ tx[i].st \in {"free", "signed", "pending", "mined", "dead"}
       /\ Live(i) => tx[i].to \in Accounts /\ tx[i].value \in 1 .. PerTxCap /\ tx[i].nonce \in Int
  /\ \A p \in Processes :
       /\ proc[p].pc \in {"idle", "work", "sign", "send", "follow"}
       /\ proc[p].value \in 0 .. PerTxCap /\ proc[p].tx \in Slots \cup {None}
       /\ proc[p].tx # None <=> proc[p].pc \in {"send", "follow"}

(* "Re-check the bound at execution time (balances move): never overfund": *)
(* an account is above its band only if its balance was read for a top-up  *)
(* while another one to it, no longer followed or another process's, was   *)
(* decided or could still land.                                            *)
NeverOverfunded == \A a \in Accounts \ overlapped : balance[a] <= Upper[a]

(* fwd's nonce has lost step with the wallet's: it is behind the chain, or *)
(* a nonce was handed out that no transfer carries any more.               *)
Drifted ==
  \/ fwdNonce < 0
  \/ \E n \in 0 .. fwdNonce - 1 : \A i \in Slots : ~(Live(i) /\ tx[i].nonce = n)

(* A breached account is topped up, unless the funder runs out or fwd's    *)
(* nonce has drifted: failed reads, refusals, rejected broadcasts, aborted *)
(* passes and timeouts only delay it.                                      *)
BreachToppedUp ==
  \A a \in Accounts : Below(a) ~> (~Below(a) \/ FunderCritical \/ Drifted)

(* "keeps every FSP account funded" taken at its word.                     *)
KeptFunded == \A a \in Accounts : Below(a) ~> (~Below(a) \/ FunderCritical)

(* The transfers that may still land: what fwd signed, and what a process  *)
(* has decided and not had signed yet.                                     *)
InFlight ==
  [x \in Slots \cup Processes |->
     IF x \in Slots
     THEN IF Live(x) THEN [to |-> tx[x].to, value |-> tx[x].value] ELSE None
     ELSE IF Deciding(x) THEN [to |-> Item(x).acct, value |-> proc[x].value] ELSE None]

Band == INSTANCE BandKeeper WITH
          Places <- Slots \cup Processes, inflight <- InFlight

(* The detailed protocol implements BandKeeper: whatever fails, value moves*)
(* only in transfers that fitted the band of an account by the reading     *)
(* they were decided on, one for each reading, each at most once.          *)
KeepsBand == Band!Spec
=============================================================================
