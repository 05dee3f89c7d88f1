---------------------------- MODULE EpochDaemon ----------------------------
(***************************************************************************)
(* `clif epoch run`: the keyless daemon that drives every reward epoch     *)
(* through  wait -> sign rewards -> await finalization -> claim -> done    *)
(* (clif/epoch_auto.py, clif/fsp.py, clif/claimer.py, clif/cli.py), with   *)
(* the chain and the fwd signer as its environment.                        *)
(*                                                                         *)
(* One action per step between two points where the world can change under *)
(* the daemon: reading the chain, asking fwd for a signature, broadcasting *)
(* the blob, polling its receipt.  A crash may fall between any two.       *)
(*                                                                         *)
(* Modelled configuration: FSP_AUTO_ENABLED=true, UPTIME_AUTO_ENABLED      *)
(* =false (both defaults of the deployed daemon).                          *)
(***************************************************************************)
EXTENDS Integers, FiniteSets, AutoState

CONSTANTS
  MaxEpoch,       \* bound: the last reward epoch that opens
  Streams,        \* the enabled (claim type, beneficiary) pairs
  Entitled,       \* <<epoch, stream>> pairs with a leaf in the reward tree
  MaxCatchup,     \* _MAX_CATCHUP
  MaxSignRetries, \* _MAX_REWARD_SIGN_RETRIES
  MaxToken,       \* bound: retry tokens of one epoch's sign key (unbounded in the code)
  FromEpoch,      \* --from-epoch / FROM_EPOCH, or None
  None,           \* Python's None for a watermark
  LogsRpc,        \* <NET>_LOGS_RPC is configured
  ViewReverts,    \* the FSM views revert "not signed yet" before finalization
  Faults,         \* the kinds of failure (and delay) the environment may inject
  MaxFaults       \* bound: how many of them one behaviour contains

Epoch == 0 .. MaxEpoch

ASSUME BoundsAssumption ==
  /\ MaxCatchup \in Nat /\ MaxToken \in Nat /\ MaxFaults \in Nat
  /\ MaxEpoch \in Nat \ {0} /\ MaxSignRetries \in Nat \ {0}
ASSUME DomainAssumption ==
  /\ Streams # {} /\ Entitled \subseteq Epoch \X Streams
  /\ None \notin Int \cup [lastDone : Int \cup {None}, degraded : BOOLEAN]
  /\ FromEpoch \in Nat \cup {None}
  /\ LogsRpc \in BOOLEAN /\ ViewReverts \in BOOLEAN

VARIABLES
  current,    \* the chain's open reward epoch
  published,  \* epochs whose reward data is out and past the initial delay
  finalized,  \* epochs with rewardsHash # 0
  votes,      \* epochs carrying our RewardsSigned event
  pointer,    \* getNextClaimableRewardEpochId, per stream's beneficiary
  paid,       \* <<epoch, stream>> rewards transferred
  tx,         \* what became of the transaction cached under each idempotency key
  pc,         \* where the daemon is
  lastDone,   \* in-memory low watermark
  cyc,        \* locals of the cycle in progress
  retries,    \* retry_counts: reward-sign retries per epoch
  auto,       \* the AutoState stream "<net>:epoch"
  status,     \* epoch-status.json, or None before the first write
  faults,     \* failures injected so far
  floor       \* history: the highest epoch the daemon skipped by choice

chain  == <<current, published, finalized>>
ledger == <<votes, pointer, paid>>
disk   == <<lastDone, status, floor>>
vars   == <<chain, ledger, tx, pc, cyc, retries, auto, disk, faults>>

SignKey(e, k)  == <<"sign", e, k>>
ClaimKey(e, s) == <<"claim", e, s>>
SignKeys  == {SignKey(e, k) : e \in Epoch, k \in 0 .. MaxToken}
ClaimKeys == {ClaimKey(e, s) : e \in Epoch, s \in Streams}
Keys      == SignKeys \cup ClaimKeys

TxState == {"none", "signed", "pending", "mined", "finalRevert", "dupRevert", "revert"}
Reverted == {"finalRevert", "dupRevert", "revert"}
PC == {"down", "sleep", "scan", "sign", "signBroadcast", "signConfirm",
       "claim", "claimBroadcast", "claimConfirm", "report"}

(* The cycle's locals; a fresh record also stands for "no cycle running".  *)
Idle == [ep |-> 0, cur |-> 0, newDone |-> None, advancing |-> TRUE, active |-> {},
         todo |-> {}, stream |-> None, allDone |-> TRUE, anyTerminal |-> FALSE]

Init ==
  /\ current \in {0, 1} /\ published = {} /\ finalized = {}
  /\ votes = {} /\ pointer = [s \in Streams |-> 0] /\ paid = {}
  /\ tx = [key \in Keys |-> "none"]
  /\ pc = "down" /\ lastDone = None /\ cyc = Idle
  /\ retries = [e \in Epoch |-> 0] /\ auto = NewStream(Epoch)
  /\ status = None /\ faults = 0 /\ floor = -3

Higher(a, b) == IF a > b THEN a ELSE b

(* A failure of one kind: allowed by the configuration, within the budget. *)
Fault(kind) == kind \in Faults /\ faults < MaxFaults /\ faults' = faults + 1
NoFault == UNCHANGED faults
-----------------------------------------------------------------------------
(***************************************************************************)
(* The environment.                                                        *)
(***************************************************************************)
world == <<pc, cyc, retries, auto, disk, faults>>

NextEpoch ==
  /\ current < MaxEpoch /\ current' = current + 1
  /\ UNCHANGED <<published, finalized, ledger, tx, world>>

Publish(e) ==
  /\ e < current /\ e \notin published /\ published' = published \cup {e}
  /\ UNCHANGED <<current, finalized, ledger, tx, world>>

(* The other voters' weight passes the threshold, with or without us.      *)
Finalize(e) ==
  /\ e \in published \ finalized /\ finalized' = finalized \cup {e}
  /\ UNCHANGED <<current, published, ledger, tx, world>>

(* signRewards: one guard for a finalized epoch, one per voter.            *)
MineSign(e, k) ==
  /\ tx[SignKey(e, k)] = "pending"
  /\ tx' = [tx EXCEPT ![SignKey(e, k)] =
              IF e \in finalized THEN "finalRevert"
              ELSE IF e \in votes THEN "dupRevert" ELSE "mined"]
  /\ votes' = IF e \in finalized THEN votes ELSE votes \cup {e}
  /\ UNCHANGED <<chain, pointer, paid, world>>

(* RewardManager.claim: pays the proven leaf once and moves the            *)
(* beneficiary's pointer past the claimed epoch; a repeat mines as a no-op.*)
MineClaim(e, s) ==
  /\ tx[ClaimKey(e, s)] = "pending"
  /\ \/ /\ tx' = [tx EXCEPT ![ClaimKey(e, s)] = "mined"]
        /\ paid' = paid \cup {<<e, s>>}
        /\ pointer' = [pointer EXCEPT ![s] = IF e >= @ THEN e + 1 ELSE @]
        /\ NoFault
     \/ /\ Fault("revert")
        /\ tx' = [tx EXCEPT ![ClaimKey(e, s)] = "revert"]
        /\ UNCHANGED <<paid, pointer>>
  /\ UNCHANGED <<chain, votes, pc, cyc, retries, auto, disk>>

(* now advances between run_cycle's reads of it: never inside a cycle.     *)
(* An epoch outstanding longer than stale_after is a delay the             *)
(* configuration allows ("stale"), not a failure that uses up the budget.  *)
Outlives(e) ==
  /\ "stale" \in Faults /\ pc \in {"sleep", "report"} /\ auto.seen[e] = "fresh"
  /\ auto' = Outlive(auto, e)
  /\ UNCHANGED <<chain, ledger, tx, pc, cyc, retries, disk, faults>>

CoolsOff(e) ==
  /\ pc \in {"sleep", "report"} /\ InCooldown(auto, e)
  /\ auto' = CoolOff(auto, e)
  /\ UNCHANGED <<chain, ledger, tx, pc, cyc, retries, disk, faults>>
-----------------------------------------------------------------------------
(***************************************************************************)
(* Process start, crash, and the bounds of one cycle.                      *)
(***************************************************************************)
(* Mutant: the status file is not read back.                               *)
StartForgetful ==
  /\ pc = "down" /\ pc' = "sleep"
  /\ lastDone' = IF FromEpoch # None THEN FromEpoch - 1 ELSE None
  /\ UNCHANGED <<chain, ledger, tx, cyc, retries, auto, status, floor, faults>>

Start ==
  /\ pc = "down" /\ pc' = "sleep"
  /\ lastDone' = IF FromEpoch # None THEN FromEpoch - 1
                 ELSE IF status # None THEN status.lastDone ELSE None
  /\ floor' = IF FromEpoch # None THEN Higher(floor, FromEpoch - 1) ELSE floor
  /\ UNCHANGED <<chain, ledger, tx, cyc, retries, auto, status, faults>>

(* Everything in memory is lost.                                           *)
Halt ==
  /\ pc # "down" /\ pc' = "down" /\ lastDone' = None /\ cyc' = Idle
  /\ retries' = [e \in Epoch |-> 0] /\ auto' = NewStream(Epoch)
  /\ UNCHANGED <<chain, ledger, tx, floor>>

(* The status file survives the process but not the container: the epoch   *)
(* services mount no volume for CLIF_STATE_DIR.                            *)
Crash == Halt /\ Fault("crash") /\ UNCHANGED status
Recreate == Halt /\ Fault("recreate") /\ status' = None

(* The watermark a cycle starts from: a fresh start takes current - 2.     *)
Base == IF lastDone = None THEN current - 2 ELSE lastDone

(* Mutant: the clamp at epoch 0 forgotten.                                 *)
WindowStartUnclamped == Higher(Base + 1, current - MaxCatchup)

WindowStart == Higher(Higher(Base + 1, current - MaxCatchup), 0)

BeginCycle ==
  /\ pc = "sleep" /\ pc' = "scan"
  /\ cyc' = [Idle EXCEPT !.ep = WindowStart, !.cur = current, !.newDone = Base]
  /\ floor' = IF lastDone = None \/ WindowStart > Base + 1
              THEN Higher(floor, WindowStart - 1) ELSE floor
  /\ UNCHANGED <<chain, ledger, tx, retries, auto, lastDone, status, faults>>

(* An uncaught RpcError unwinds run_cycle: no watermark, no observe().     *)
AbortCycle ==
  /\ Fault("rpc") /\ pc' = "report" /\ cyc' = Idle
  /\ UNCHANGED <<chain, ledger, tx, retries, auto, disk>>

BeginFails == pc = "sleep" /\ AbortCycle
Scanning == pc = "scan" /\ cyc.ep < cyc.cur

(* After the loop: the watermark is returned, the active epochs observed.  *)
EndCycle ==
  /\ pc = "scan" /\ cyc.ep >= cyc.cur /\ pc' = "report"
  /\ lastDone' = cyc.newDone /\ auto' = Observe(auto, cyc.active) /\ cyc' = Idle
  /\ UNCHANGED <<chain, ledger, tx, retries, status, floor, faults>>

(* build_epoch_report + write_status_atomic, then sleep.                   *)
Report ==
  /\ pc = "report" /\ pc' = "sleep"
  /\ status' = [lastDone |-> lastDone, degraded |-> Degraded(auto)]
  /\ UNCHANGED <<chain, ledger, tx, cyc, retries, auto, lastDone, floor, faults>>
-----------------------------------------------------------------------------
(***************************************************************************)
(* drive_epoch: how an epoch's turn in the cycle ends.                     *)
(***************************************************************************)
(* Mutant: a done epoch advances the watermark over a stuck older one.     *)
SettleEpochUnordered(done, terminal) ==
  /\ pc' = "scan"
  /\ cyc' = [cyc EXCEPT !.ep = @ + 1,
                        !.active = IF done THEN @ ELSE @ \cup {cyc.ep},
                        !.newDone = IF done THEN cyc.ep ELSE @,
                        !.todo = {}, !.stream = None, !.allDone = TRUE, !.anyTerminal = FALSE]
  /\ auto' = IF terminal THEN RecordTerminal(auto, cyc.ep) ELSE auto

SettleEpoch(done, terminal) ==
  /\ pc' = "scan"
  /\ cyc' = [cyc EXCEPT !.ep = @ + 1,
                        !.active = IF done THEN @ ELSE @ \cup {cyc.ep},
                        !.newDone = IF done /\ cyc.advancing THEN cyc.ep ELSE @,
                        !.advancing = @ /\ done,
                        !.todo = {}, !.stream = None, !.allDone = TRUE, !.anyTerminal = FALSE]
  /\ auto' = IF terminal THEN RecordTerminal(auto, cyc.ep) ELSE auto

EnterClaims == pc' = "claim" /\ cyc' = [cyc EXCEPT !.todo = Streams] /\ UNCHANGED auto

SkipCooling ==
  /\ Scanning /\ InCooldown(auto, cyc.ep) /\ SettleEpoch(FALSE, FALSE)
  /\ UNCHANGED <<chain, ledger, tx, retries, disk, faults>>

(* "have WE signed": the view, or the event log when the view reverts; the *)
(* log answers FALSE when no logs RPC is configured or its scan fails.     *)
SignedReading(e, signed) ==
  \/ ~(ViewReverts /\ e \notin finalized) /\ signed = (e \in votes) /\ NoFault
  \/ ViewReverts /\ e \notin finalized /\ signed = (LogsRpc /\ e \in votes) /\ NoFault
  \/ ViewReverts /\ e \notin finalized /\ LogsRpc /\ signed = FALSE /\ Fault("logs")

ReadRewards ==
  /\ Scanning /\ ~InCooldown(auto, cyc.ep)
  /\ \E signed \in BOOLEAN :
       /\ SignedReading(cyc.ep, signed)
       /\ \/ cyc.ep \in finalized /\ EnterClaims
          \/ /\ cyc.ep \notin finalized /\ (signed \/ cyc.ep \notin published)
             /\ SettleEpoch(FALSE, FALSE)   \* CLAIM_WAIT, REWARD_WAIT
          \/ /\ cyc.ep \in published \ finalized /\ ~signed
             /\ pc' = "sign" /\ UNCHANGED <<cyc, auto>>
  /\ UNCHANGED <<chain, ledger, tx, retries, disk>>

(* The reward data is out but the fetch fails: "not yet published".        *)
PublicationUnread ==
  /\ Scanning /\ ~InCooldown(auto, cyc.ep)
  /\ cyc.ep \in published \ finalized /\ Fault("data") /\ SettleEpoch(FALSE, FALSE)
  /\ UNCHANGED <<chain, ledger, tx, retries, disk>>

ReadFails == Scanning /\ ~InCooldown(auto, cyc.ep) /\ AbortCycle

(* Mutant: "already signed by us" taken for "finalized by the network".    *)
FinishSignHasty(outcome) ==
  \/ /\ outcome \in {"already-finalized", "already-signed"}
     /\ EnterClaims /\ UNCHANGED retries
  \/ /\ outcome \notin {"already-finalized", "already-signed"}
     /\ SettleEpoch(FALSE, outcome = "failed-terminal")
     /\ retries' = IF outcome = "failed-retryable"
                   THEN [retries EXCEPT ![cyc.ep] = @ + 1] ELSE retries

(* drive_epoch's reading of run_sign_rewards' outcome.                     *)
FinishSign(outcome) ==
  LET n == retries[cyc.ep] + 1 IN
  \/ /\ outcome = "failed-terminal"
     /\ SettleEpoch(FALSE, TRUE) /\ UNCHANGED retries
  \/ /\ outcome = "already-finalized"
     /\ EnterClaims /\ UNCHANGED retries
  \/ /\ outcome = "failed-retryable"
     /\ retries' = [retries EXCEPT ![cyc.ep] = n]
     /\ SettleEpoch(FALSE, n >= MaxSignRetries)
  \/ /\ outcome \in {"submitted-mined", "submitted-pending", "already-signed"}
     /\ SettleEpoch(FALSE, FALSE) /\ UNCHANGED retries

MySignKey == SignKey(cyc.ep, retries[cyc.ep])

(* run_sign_rewards up to fwd's leg-2 answer.  fwd replays the blob cached *)
(* under the key when the body is unchanged and refuses it with 409        *)
(* idempotency_conflict when the suggested fees drifted since.             *)
SignLegs ==
  /\ pc = "sign" /\ retries[cyc.ep] <= MaxToken
  /\ \/ /\ cyc.ep \in finalized /\ FinishSign("already-finalized") /\ NoFault /\ UNCHANGED tx
     \/ /\ FinishSign("failed-terminal") /\ UNCHANGED tx
        /\ Fault("denied") \/ Fault("data")
     \/ FinishSign("failed-retryable") /\ Fault("transient") /\ UNCHANGED tx
     \/ /\ cyc.ep \notin finalized \/ "rpc" \in Faults  \* a failed pre-flight read proceeds
        /\ \/ /\ tx[MySignKey] # "none"
              /\ FinishSign("failed-retryable") /\ NoFault /\ UNCHANGED tx
           \/ /\ tx' = [tx EXCEPT ![MySignKey] = IF @ = "none" THEN "signed" ELSE @]
              /\ pc' = "signBroadcast" /\ NoFault /\ UNCHANGED <<cyc, retries, auto>>
  /\ UNCHANGED <<chain, ledger, disk>>

(* What eth_sendRawTransaction does with a blob, and how the error is      *)
(* classified: "ok", "nonce" (nonce too low) or "rejected" (anything else, *)
(* a lost answer included).                                                *)
Broadcast(key, answer) ==
  \/ tx[key] = "signed" /\ answer = "ok" /\ NoFault /\ tx' = [tx EXCEPT ![key] = "pending"]
  \/ tx[key] = "signed" /\ answer = "rejected" /\ Fault("node") /\ UNCHANGED tx
  \/ tx[key] = "signed" /\ answer = "nonce" /\ Fault("nonce") /\ UNCHANGED tx
  \/ tx[key] = "signed" /\ answer = "rejected" /\ Fault("lost")
     /\ tx' = [tx EXCEPT ![key] = "pending"]
  \/ tx[key] = "pending" /\ answer = "rejected" /\ NoFault /\ UNCHANGED tx
  \/ tx[key] \in {"mined"} \cup Reverted /\ answer = "nonce" /\ NoFault /\ UNCHANGED tx

SignBroadcast ==
  /\ pc = "signBroadcast"
  /\ \/ /\ Broadcast(MySignKey, "ok")
        /\ pc' = "signConfirm" /\ UNCHANGED <<cyc, retries, auto>>
     \/ Broadcast(MySignKey, "nonce") /\ FinishSign("failed-retryable")
     \/ Broadcast(MySignKey, "rejected") /\ FinishSign("failed-terminal")
  /\ UNCHANGED <<chain, ledger, disk>>

(* poll_receipt, then the reading of a revert by its reason.               *)
SignConfirm ==
  /\ pc = "signConfirm"
  /\ LET state == tx[MySignKey] IN
     \/ state = "mined" /\ FinishSign("submitted-mined") /\ NoFault
     \/ state = "pending" /\ FinishSign("submitted-pending") /\ Fault("slow")
     \/ state = "finalRevert" /\ FinishSign("already-finalized") /\ NoFault
     \/ state = "dupRevert" /\ FinishSign("already-signed") /\ NoFault
     \/ state \in Reverted /\ FinishSign("failed-terminal") /\ Fault("reason")
  /\ UNCHANGED <<chain, ledger, tx, disk>>

SignConfirmFails == pc = "signConfirm" /\ AbortCycle
-----------------------------------------------------------------------------
(***************************************************************************)
(* The claim phase: run_claim(only_epoch) once per stream.                 *)
(***************************************************************************)
(* Mutant: "nothing claimable" read as unfinished.                         *)
ClaimDoneStrict == {"submitted-mined", "mined-noop"}

ClaimDone == {"submitted-mined", "mined-noop", "nothing-claimable"}

FinishClaim(s, outcome) ==
  LET all  == cyc.allDone /\ outcome \in ClaimDone
      bad  == cyc.anyTerminal \/ outcome = "failed-terminal"
      rest == cyc.todo \ {s}
  IN  \/ rest = {} /\ SettleEpoch(all, bad)
      \/ /\ rest # {} /\ pc' = "claim" /\ UNCHANGED auto
         /\ cyc' = [cyc EXCEPT !.todo = rest, !.stream = None,
                               !.allDone = all, !.anyTerminal = bad]

(* unclaimable_reason: "already claimed", or past the last finalized epoch *)
(* / "not yet signed".  Either way the stream counts as done.              *)
Unclaimable(e, s) == pointer[s] > e \/ e \notin finalized

(* Pre-flight, discovery, and fwd's answer for one stream.                 *)
ClaimLegs(s) ==
  LET key == ClaimKey(cyc.ep, s) IN
  /\ pc = "claim" /\ s \in cyc.todo
  /\ \/ /\ Unclaimable(cyc.ep, s)
        /\ FinishClaim(s, "nothing-claimable") /\ NoFault /\ UNCHANGED tx
     \/ /\ ~Unclaimable(cyc.ep, s)
        /\ \/ /\ <<cyc.ep, s>> \notin Entitled         \* "no rewards accrued"
              /\ FinishClaim(s, "nothing-claimable") /\ NoFault /\ UNCHANGED tx
           \/ /\ Fault("data")                       \* unreadable data file: the same answer
              /\ FinishClaim(s, "nothing-claimable") /\ UNCHANGED tx
           \/ /\ <<cyc.ep, s>> \in Entitled
              /\ \/ Fault("denied") /\ FinishClaim(s, "failed-terminal") /\ UNCHANGED tx
                 \/ /\ tx[key] # "none"              \* 409: the fees drifted
                    /\ FinishClaim(s, "failed-terminal") /\ NoFault /\ UNCHANGED tx
                 \/ /\ tx' = [tx EXCEPT ![key] = IF @ = "none" THEN "signed" ELSE @]
                    /\ pc' = "claimBroadcast" /\ cyc' = [cyc EXCEPT !.stream = s]
                    /\ NoFault /\ UNCHANGED auto
     \/ Fault("transient") /\ FinishClaim(s, "failed-retryable") /\ UNCHANGED tx
  /\ UNCHANGED <<chain, ledger, retries, disk>>

MyClaimKey == ClaimKey(cyc.ep, cyc.stream)

ClaimBroadcast ==
  /\ pc = "claimBroadcast"
  /\ \/ /\ Broadcast(MyClaimKey, "ok")
        /\ pc' = "claimConfirm" /\ UNCHANGED <<cyc, auto>>
     \/ Broadcast(MyClaimKey, "nonce") /\ FinishClaim(cyc.stream, "failed-retryable")
     \/ Broadcast(MyClaimKey, "rejected") /\ FinishClaim(cyc.stream, "failed-terminal")
  /\ UNCHANGED <<chain, ledger, retries, disk>>

ClaimConfirm ==
  /\ pc = "claimConfirm"
  /\ LET state == tx[MyClaimKey] IN
     \/ state = "mined" /\ NoFault   \* with or without a RewardManager log
        /\ \E o \in {"submitted-mined", "mined-noop"} : FinishClaim(cyc.stream, o)
     \/ state = "pending" /\ FinishClaim(cyc.stream, "submitted-pending") /\ Fault("slow")
     \/ state \in Reverted /\ FinishClaim(cyc.stream, "failed-terminal") /\ NoFault
  /\ UNCHANGED <<chain, ledger, tx, retries, disk>>

ClaimConfirmFails == pc = "claimConfirm" /\ AbortCycle
-----------------------------------------------------------------------------
Environment ==
  \/ NextEpoch
  \/ \E e \in Epoch : Publish(e) \/ Finalize(e) \/ Outlives(e) \/ CoolsOff(e)
  \/ \E e \in Epoch, k \in 0 .. MaxToken : MineSign(e, k)
  \/ \E e \in Epoch, s \in Streams : MineClaim(e, s)

Daemon ==
  \/ Start \/ BeginCycle \/ SkipCooling \/ ReadRewards \/ SignLegs \/ SignBroadcast
  \/ SignConfirm \/ ClaimBroadcast \/ ClaimConfirm \/ EndCycle \/ Report
  \/ \E s \in Streams : ClaimLegs(s)

Failure ==
  \/ Crash \/ Recreate \/ BeginFails \/ ReadFails \/ PublicationUnread
  \/ SignConfirmFails \/ ClaimConfirmFails

Next == Environment \/ Daemon \/ Failure

Spec == Init /\ [][Next]_vars

(* What the chain does on its own: each of these steps happens once.       *)
ChainMoves ==
  \/ NextEpoch
  \/ \E e \in Epoch : Publish(e) \/ Finalize(e)
  \/ \E e \in Epoch, k \in 0 .. MaxToken : MineSign(e, k)
  \/ \E e \in Epoch, s \in Streams : MineClaim(e, s)

(* The process keeps running and is restarted (compose: unless-stopped);   *)
(* the chain keeps producing blocks, epochs and reward data; time passes.  *)
Fairness ==
  /\ WF_vars(Daemon) /\ WF_vars(ChainMoves)
  /\ SF_vars(\E e \in Epoch : Outlives(e)) /\ \A e \in Epoch : SF_vars(CoolsOff(e))

FairSpec == Spec /\ Fairness
-----------------------------------------------------------------------------
CycleType ==
  [ep : Nat, cur : Epoch, newDone : Int \cup {None}, advancing : BOOLEAN,
   active : SUBSET Epoch, todo : SUBSET Streams, stream : Streams \cup {None},
   allDone : BOOLEAN, anyTerminal : BOOLEAN]
AutoType == [seen : [Epoch -> SeenAge], cooling : SUBSET Epoch]
StatusType == [lastDone : Int \cup {None}, degraded : BOOLEAN]

TypeOK ==
  /\ current \in Epoch /\ published \subseteq Epoch /\ finalized \subseteq Epoch
  /\ votes \subseteq Epoch /\ paid \subseteq Epoch \X Streams
  /\ pointer \in [Streams -> 0 .. MaxEpoch + 1]
  /\ tx \in [Keys -> TxState] /\ pc \in PC
  /\ lastDone \in Int \cup {None} /\ floor \in Int /\ faults \in Nat
  /\ cyc \in CycleType /\ retries \in [Epoch -> Nat] /\ auto \in AutoType
  /\ status \in StatusType \cup {None}
-----------------------------------------------------------------------------
(***************************************************************************)
(* Properties.                                                             *)
(***************************************************************************)
(* Nothing is left to do for epoch e: it is finalized and every reward of  *)
(* ours in it lies behind the beneficiary's claim pointer.                 *)
Handled(e) ==
  /\ e \in finalized
  /\ \A s \in Streams : <<e, s>> \in Entitled => pointer[s] > e

Covers(mark, e) == mark # None /\ floor < e /\ e <= mark

(* The persisted watermark (epoch_auto.run_cycle's contiguous advance)     *)
(* never passes an epoch that still waits for finalization or for a claim, *)
(* whatever order cooldowns, aborted cycles, crashes and restarts come in. *)
WatermarkSettled ==
  status # None => \A e \in Epoch : Covers(status.lastDone, e) => Handled(e)

(* Whatever fails and however often, the persisted watermark never passes  *)
(* an epoch the network has not finalized: such an epoch could never be    *)
(* claimed again.                                                          *)
WatermarkFinalized ==
  status # None => \A e \in Epoch : Covers(status.lastDone, e) => e \in finalized

(* "Nothing left to do for this epoch+stream": below the watermark every   *)
(* reward we were entitled to has been transferred.                        *)
WatermarkPaid ==
  status # None =>
    \A e \in Epoch, s \in Streams :
      Covers(status.lastDone, e) /\ <<e, s>> \in Entitled => <<e, s>> \in paid

(* Until a terminal failure's cooldown ends, the status file a monitor     *)
(* reads between two cycles says DEGRADED (README, Automation).            *)
TerminalIsLoud ==
  pc = "sleep" /\ auto.cooling # {} => status # None /\ status.degraded

(* Whatever restarts happen in between, the watermark in the status file   *)
(* never moves backwards.                                                  *)
WatermarkNeverRewinds ==
  [][status # None /\ status' # None /\ status.lastDone # None
       => status'.lastDone # None /\ status'.lastDone >= status.lastDone]_status

(* A claim of epoch e or before that cannot be made again: its key was used*)
(* up by a blob that was never broadcast or by a transaction that reverted,*)
(* and fwd answers the key with 409 or with that same blob.                *)
ClaimSpent(e) ==
  \E d \in 0 .. e, s \in Streams :
    pointer[s] <= d /\ tx[ClaimKey(d, s)] \in {"signed", "revert"}

(* The epochs that close within the bound.                                 *)
Closable     == 0 .. MaxEpoch - 1
Reported(e)  == status # None /\ status.lastDone # None /\ status.lastDone >= e
SaysDegraded == status # None /\ status.degraded

(* Whatever fails, a crash included, every closed epoch ends up behind the *)
(* reported watermark, or a spent claim holds it up for good: nothing else *)
(* a failure leaves behind does.                                           *)
WatermarkCatchesUp ==
  \A e \in Closable : e < current ~> (Reported(e) \/ []ClaimSpent(e))

(* An epoch that is held up is held up loudly: the status file says        *)
(* DEGRADED again and again, for its terminal failures, or the daemon keeps*)
(* it in first_seen without a break, so that stale_after makes it say so.  *)
StuckIsLoud ==
  \A e \in Closable : e < current ~> (Reported(e) \/ []<>SaysDegraded \/ <>[](e \in Tracked(auto)))
============================================================================
