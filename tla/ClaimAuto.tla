----------------------------- MODULE ClaimAuto -----------------------------
(***************************************************************************)
(* `clif auto`, the claim-only daemon (clif/cli.py auto, clif/discovery.py,*)
(* clif/claimer.py submit_claims).  Every cycle it collects, per stream,   *)
(* all epochs that can be claimed and claims them in one transaction whose *)
(* idempotency key names the last of them.                                 *)
(***************************************************************************)
EXTENDS RewardChain, FiniteSetsExt

VARIABLES
  cpc,      \* where the daemon is
  ctodo,    \* streams left in this cycle
  batch,    \* the claim being submitted: stream, epochs, their last
  cauto,    \* AutoState, per stream
  cstatus,  \* the status file: degraded or not; None before the first write
  confirmed \* history: <<epoch, stream>> pairs logged as "confirmed claimed"

claimVars == <<cpc, ctodo, batch, cauto, cstatus, confirmed>>

NoBatch == [stream |-> None, epochs |-> {}, last |-> -1]

ClaimInit ==
  /\ cpc = "down" /\ ctodo = {} /\ batch = NoBatch
  /\ cauto = [s \in Streams |-> NewStream(Epoch)] /\ cstatus = None /\ confirmed = {}

ClaimStart ==
  /\ cpc = "down" /\ cpc' = "sleep"
  /\ UNCHANGED <<chainVars, votes, rewardVars, faults, ctodo, batch, cauto, cstatus, confirmed>>

(* The process ends and everything in memory with it: a kill, or an        *)
(* RpcError of poll_receipt, which nothing in auto catches.                *)
Vanish ==
  /\ cpc' = "down" /\ ctodo' = {} /\ batch' = NoBatch
  /\ cauto' = [s \in Streams |-> NewStream(Epoch)]
  /\ UNCHANGED <<chainVars, votes, rewardVars, cstatus, confirmed>>

ClaimCrash == cpc # "down" /\ Fault("crash") /\ Vanish

ClaimCycle ==
  /\ cpc = "sleep" /\ cpc' = "collect" /\ ctodo' = Streams
  /\ UNCHANGED <<chainVars, votes, rewardVars, faults, batch, cauto, cstatus, confirmed>>

(* claimable_epoch_ids: the signed epochs from the pointer up to the end   *)
(* of the range.                                                           *)
ClaimableEpochIds(s) == {e \in final["REWARD_DISTRIBUTION"] : e >= pointer[s]}

(* collect_reward_claims: the epochs with a leaf of ours whose data file   *)
(* could be read.                                                          *)
CollectRewardClaims(s, unread) ==
  {e \in ClaimableEpochIds(s) \ unread : <<e, s>> \in Entitled}

Skip(s) == cpc' = "collect" /\ ctodo' = ctodo \ {s} /\ batch' = NoBatch

(* Mutant: a failed discovery read as "nothing claimable".                 *)
DiscoveryFailsEmpty(s) ==
  /\ cpc = "collect" /\ s \in ctodo /\ Fault("discovery") /\ Skip(s)
  /\ cauto' = [cauto EXCEPT ![s] = Observe(@, {})]
  /\ confirmed' = confirmed \cup {<<e, s>> : e \in Tracked(cauto[s])}
  /\ UNCHANGED <<chainVars, votes, rewardVars, cstatus>>

(* An RpcError of the discovery: the stream is left as it is.              *)
DiscoveryFails(s) ==
  /\ cpc = "collect" /\ s \in ctodo /\ Fault("discovery") /\ Skip(s)
  /\ UNCHANGED <<chainVars, votes, rewardVars, cauto, cstatus, confirmed>>

(* observe(): what left the claimable set counts as claimed.  Then nothing *)
(* to do, the last epoch cooling down, or a claim of the whole batch.      *)
Discover(s) ==
  \E unread \in SUBSET ClaimableEpochIds(s) :
    LET epochs == CollectRewardClaims(s, unread)
        last   == IF epochs = {} THEN -1 ELSE Max(epochs)
    IN  /\ cpc = "collect" /\ s \in ctodo
        /\ IF unread = {} THEN NoFault ELSE Fault("data")
        /\ cauto' = [cauto EXCEPT ![s] = Observe(@, epochs)]
        /\ confirmed' = confirmed \cup {<<e, s>> : e \in Tracked(cauto[s]) \ epochs}
        /\ \/ (epochs = {} \/ InCooldown(cauto'[s], last)) /\ Skip(s)
           \/ /\ epochs # {} /\ ~InCooldown(cauto'[s], last) /\ cpc' = "sign"
              /\ batch' = [stream |-> s, epochs |-> epochs, last |-> last]
              /\ UNCHANGED ctodo
        /\ lapsed' = lapsed \cup {<<e, s>> : e \in unread}
        /\ UNCHANGED <<chainVars, votes, pointer, paid, tx, fwdNonce, cstatus>>

(* The reading of submit_claims' outcome.                                  *)
Conclude(terminal) ==
  /\ Skip(batch.stream)
  /\ cauto' = IF terminal THEN [cauto EXCEPT ![batch.stream] = RecordTerminal(@, batch.last)]
              ELSE cauto

(* Mutant: the key names the first epoch of the batch.                     *)
MyKeyFirst == <<Min(batch.epochs), batch.stream>>

MyKey == <<batch.last, batch.stream>>
Mine  == tx[MyKey]

(* fwd's answer.  A key it has seen is refused with 409 once the body      *)
(* differs (fees drift, or the batch has grown), else replayed.            *)
SignBatch ==
  /\ cpc = "sign"
  /\ \/ Fault("denied") /\ Conclude(TRUE) /\ UNCHANGED <<tx, fwdNonce>>
     \/ Fault("transient") /\ Conclude(FALSE) /\ UNCHANGED <<tx, fwdNonce>>
     \/ Mine.st # "none" /\ NoFault /\ Conclude(TRUE) /\ UNCHANGED <<tx, fwdNonce>>
     \/ /\ Mine.st # "none" /\ Mine.epochs = batch.epochs /\ NoFault
        /\ cpc' = "broadcast" /\ UNCHANGED <<tx, fwdNonce, ctodo, batch, cauto>>
     \/ /\ Mine.st = "none" /\ NoFault /\ cpc' = "broadcast"
        /\ tx' = [tx EXCEPT ![MyKey] =
                    [st |-> "signed", epochs |-> batch.epochs, nonce |-> fwdNonce]]
        /\ fwdNonce' = fwdNonce + 1 /\ UNCHANGED <<ctodo, batch, cauto>>
  /\ UNCHANGED <<chainVars, votes, pointer, paid, lapsed, cstatus, confirmed>>

(* The node takes the blob in, in place of one with its nonce.             *)
Pooled(st) ==
  tx' = [k \in ClaimKey |-> IF k = MyKey THEN [tx[k] EXCEPT !.st = st]
                            ELSE IF k \in Rivals(MyKey) THEN [tx[k] EXCEPT !.st = "released"]
                            ELSE tx[k]]

TooLow == Mine.nonce < ChainNonce

(* send_raw_transaction: accepted ...                                      *)
BroadcastBatch ==
  /\ cpc = "broadcast" /\ ~InPool(MyKey) /\ ~TooLow /\ NoFault /\ cpc' = "confirm"
  /\ Pooled(IF Mine.st = "signed" THEN "pending" ELSE "loose")
  /\ UNCHANGED <<chainVars, votes, pointer, paid, fwdNonce, lapsed, ctodo, batch, cauto, cstatus, confirmed>>

(* ... or any RpcError.  Nonce too low: retryable.  Every other reads as a *)
(* refusal, terminal, and as one that frees the nonce: "already known",    *)
(* another of the same nonce in the pool, the node's own reasons, and the  *)
(* lost answer of a node that took the blob.  The report itself may fail.  *)
BroadcastFails ==
  /\ cpc = "broadcast"
  /\ \/ TooLow /\ NoFault /\ Conclude(FALSE) /\ Correct /\ UNCHANGED tx
     \/ /\ InPool(MyKey) /\ Conclude(TRUE)
        /\ \/ NoFault /\ Mine.st = "pending" /\ GiveBack(MyKey)
              /\ tx' = [tx EXCEPT ![MyKey].st = "loose"]
           \/ NoFault /\ Mine.st = "loose" /\ UNCHANGED <<tx, fwdNonce>>
           \/ Fault("report") /\ UNCHANGED <<tx, fwdNonce>>
     \/ /\ ~InPool(MyKey) /\ ~TooLow /\ Conclude(TRUE)
        /\ IF Mine.st = "signed" THEN GiveBack(MyKey) ELSE UNCHANGED fwdNonce
        /\ \/ Rivals(MyKey) # {} /\ NoFault /\ tx' = [tx EXCEPT ![MyKey].st = "released"]
           \/ Fault("node") /\ tx' = [tx EXCEPT ![MyKey].st = "released"]
           \/ Fault("lost") /\ Pooled("loose")
  /\ UNCHANGED <<chainVars, votes, pointer, paid, lapsed, cstatus, confirmed>>

(* The receipt: mined (a no-op or not), reverted, or the poll timed out.   *)
ConfirmBatch ==
  /\ cpc = "confirm"
  /\ \/ Mine.st = "mined" /\ NoFault /\ Conclude(FALSE)
     \/ Mine.st = "reverted" /\ NoFault /\ Conclude(TRUE)
     \/ Mine.st \notin {"mined", "reverted"} /\ NoFault /\ Conclude(FALSE)
  /\ UNCHANGED <<chainVars, votes, rewardVars, cstatus, confirmed>>

ConfirmRaises == cpc = "confirm" /\ Fault("poll") /\ Vanish

ClaimReport ==
  /\ cpc = "collect" /\ ctodo = {} /\ cpc' = "sleep"
  /\ cstatus' = [degraded |-> \E s \in Streams : Degraded(cauto[s])]
  /\ UNCHANGED <<chainVars, votes, rewardVars, faults, ctodo, batch, cauto, confirmed>>

(* Time passes while the daemon sleeps.                                    *)
ClaimCoolsOff(s, e) ==
  /\ cpc = "sleep" /\ InCooldown(cauto[s], e)
  /\ cauto' = [cauto EXCEPT ![s] = CoolOff(@, e)]
  /\ UNCHANGED <<chainVars, votes, rewardVars, faults, cpc, ctodo, batch, cstatus, confirmed>>

ClaimOutlives(s, e) ==
  /\ "stale" \in Faults /\ cpc = "sleep" /\ cauto[s].seen[e] = "fresh"
  /\ cauto' = [cauto EXCEPT ![s] = Outlive(@, e)]
  /\ UNCHANGED <<chainVars, votes, rewardVars, faults, cpc, ctodo, batch, cstatus, confirmed>>

ClaimDaemon ==
  \/ ClaimStart \/ ClaimCycle \/ SignBatch \/ BroadcastBatch \/ BroadcastFails \/ ConfirmBatch \/ ClaimReport
  \/ \E s \in Streams : Discover(s)

ClaimNext ==
  \/ ClaimDaemon \/ ClaimCrash \/ ConfirmRaises
  \/ \E s \in Streams : DiscoveryFails(s) \/ \E e \in Epoch : ClaimCoolsOff(s, e) \/ ClaimOutlives(s, e)
============================================================================
