------------------------------ MODULE FspAuto ------------------------------
(***************************************************************************)
(* `clif fsp auto`, the legacy signing daemon (clif/cli.py fsp_auto,       *)
(* clif/fsp.py run_sign_uptime and run_sign_rewards).  One in-memory       *)
(* watermark says from which epoch on there is something to sign; each     *)
(* cycle fixes the closed epochs from it and signs, for all of them, first *)
(* the uptime vote and then the reward distribution.                       *)
(***************************************************************************)
EXTENDS RewardChain

CONSTANT FromEpochs \* the --from-epoch a start may be given; None: not given

ASSUME FromEpochsAssumption == FromEpochs \subseteq Nat \cup {None}

VARIABLES
  fpc,       \* where the daemon is
  watermark, \* None until the current epoch could be read
  closed,    \* the closed epochs this cycle works on
  work,      \* the message type being signed, and the epochs of it left
  fauto,     \* AutoState, per message type
  fstatus,   \* the status file: degraded or not; None before the first write
  vtx,       \* per <<message type, epoch>>, what became of the Leg-2 transaction
  tried,     \* history: <<message type, epoch>> pairs ever attempted
  first,     \* history: the epoch the running process started at
  tripped    \* history: pairs that failed terminally in the current cycle

fspVars    == <<fpc, watermark, closed, work, fauto, fstatus, vtx, tried, first, tripped>>
fspMemory  == <<watermark, closed, work, fauto>>
fspHistory == <<tried, first, tripped>>

NoWork == [mt |-> "UPTIME", left |-> {}]

FspInit ==
  /\ fpc = "down" /\ watermark = None /\ closed = {} /\ work = NoWork
  /\ fauto = [mt \in MessageType |-> NewStream(Epoch)] /\ fstatus = None
  /\ vtx = [v \in MessageType \X Epoch |-> "none"]
  /\ tried = {} /\ first = None /\ tripped = {}

(* Start: the watermark is --from-epoch, be it ahead of the chain; without *)
(* it the current epoch, or None still when the read fails.                *)
FspStart ==
  /\ fpc = "down" /\ fpc' = "sleep"
  /\ \E from \in FromEpochs :
       \/ from # None /\ watermark' = from /\ first' = from /\ NoFault
       \/ from = None /\ watermark' = current /\ first' = current /\ NoFault
       \/ from = None /\ Fault("rpc") /\ UNCHANGED <<watermark, first>>
  /\ UNCHANGED <<chainVars, votes, rewardVars, closed, work, fauto, fstatus, vtx, tried, tripped>>

FspCrash ==
  /\ fpc # "down" /\ Fault("crash") /\ fpc' = "down"
  /\ watermark' = None /\ closed' = {} /\ work' = NoWork /\ first' = None /\ tripped' = {}
  /\ fauto' = [mt \in MessageType |-> NewStream(Epoch)]
  /\ UNCHANGED <<chainVars, votes, rewardVars, fstatus, vtx, tried>>

(* Mutant: the running epoch counts as closed.                             *)
ClosedFromOpen(start) == start .. current

ClosedFrom(start) == start .. (current - 1)

(* The top of a cycle, and the first message type's observe().             *)
FspCycle ==
  LET start == IF watermark = None THEN current ELSE watermark
      range == ClosedFrom(start)
  IN  /\ fpc = "sleep" /\ fpc' = "sign" /\ NoFault
      /\ watermark' = start /\ first' = IF first = None THEN current ELSE first
      /\ closed' = range /\ work' = [mt |-> "UPTIME", left |-> range]
      /\ fauto' = [fauto EXCEPT !["UPTIME"] = Observe(@, range)]
      /\ tripped' = {}
      /\ UNCHANGED <<chainVars, votes, rewardVars, fstatus, vtx, tried>>

(* The current epoch cannot be read: straight to the report.               *)
FspCycleFails ==
  /\ fpc = "sleep" /\ Fault("rpc") /\ fpc' = "report" /\ tripped' = {}
  /\ UNCHANGED <<chainVars, votes, rewardVars, fspMemory, fstatus, vtx, tried, first>>

NextType ==
  /\ fpc = "sign" /\ work.left = {} /\ NoFault
  /\ \/ /\ work.mt = "UPTIME" /\ work' = [mt |-> "REWARD_DISTRIBUTION", left |-> closed]
        /\ fauto' = [fauto EXCEPT !["REWARD_DISTRIBUTION"] = Observe(@, closed)]
        /\ UNCHANGED fpc
     \/ work.mt = "REWARD_DISTRIBUTION" /\ fpc' = "report" /\ UNCHANGED <<work, fauto>>
  /\ UNCHANGED <<chainVars, votes, rewardVars, watermark, closed, fstatus, vtx, fspHistory>>

MyEpoch == CHOOSE e \in work.left : \A d \in work.left : e <= d
MyVote  == <<work.mt, MyEpoch>>

SkipCooling ==
  /\ fpc = "sign" /\ work.left # {} /\ InCooldown(fauto[work.mt], MyEpoch) /\ NoFault
  /\ work' = [work EXCEPT !.left = @ \ {MyEpoch}]
  /\ UNCHANGED <<chainVars, votes, rewardVars, fpc, watermark, closed, fauto, fstatus, vtx, fspHistory>>

(* Mutant: the watermark jumps past every closed epoch.                    *)
AdvancedToCurrent(outcome) == IF outcome = "failed-retryable" THEN watermark ELSE current

(* A success or a terminal failure moves the one watermark to the epoch    *)
(* after this one, wherever it was.                                        *)
Advanced(outcome) == IF outcome = "failed-retryable" THEN watermark ELSE MyEpoch + 1

(* Mutant: a terminal failure is logged and not recorded.                  *)
RecordedNothing(outcome) == fauto

Recorded(outcome) ==
  IF outcome = "failed-terminal"
  THEN [fauto EXCEPT ![work.mt] = RecordTerminal(@, MyEpoch)] ELSE fauto

(* The reading of an outcome.                                              *)
FinishVote(outcome) ==
  /\ fpc' = "sign" /\ work' = [work EXCEPT !.left = @ \ {MyEpoch}]
  /\ watermark' = Advanced(outcome) /\ fauto' = Recorded(outcome)
  /\ tried' = tried \cup {MyVote}
  /\ tripped' = IF outcome = "failed-terminal" THEN tripped \cup {MyVote} ELSE tripped
  /\ UNCHANGED <<closed, fstatus, first>>

(* The legs, up to fwd's signature of the transaction.  Reward data that   *)
(* is not out yet is terminal; fwd refuses (configuration, policy) or is   *)
(* away; a key it has seen is refused with 409 once the fees have drifted, *)
(* else replayed.  A finalization check that fails is passed over.         *)
VoteLegs ==
  /\ fpc = "sign" /\ work.left # {} /\ ~InCooldown(fauto[work.mt], MyEpoch)
  /\ LET readable == work.mt = "REWARD_DISTRIBUTION" => MyEpoch \in published IN
     \/ ~readable /\ FinishVote("failed-terminal") /\ NoFault /\ UNCHANGED vtx
     \/ /\ readable /\ MyEpoch \in final[work.mt]
        /\ FinishVote("already-finalized") /\ NoFault /\ UNCHANGED vtx
     \/ readable /\ FinishVote("failed-terminal") /\ Fault("denied") /\ UNCHANGED vtx
     \/ readable /\ FinishVote("failed-retryable") /\ Fault("transient") /\ UNCHANGED vtx
     \/ /\ readable /\ MyEpoch \notin final[work.mt] /\ vtx[MyVote] # "none"
        /\ FinishVote("failed-retryable") /\ NoFault /\ UNCHANGED vtx
     \/ /\ readable
        /\ \/ MyEpoch \notin final[work.mt] /\ NoFault
           \/ MyEpoch \in final[work.mt] /\ Fault("rpc")
        /\ vtx' = [vtx EXCEPT ![MyVote] = IF @ = "none" THEN "signed" ELSE @]
        /\ fpc' = "send" /\ UNCHANGED <<fspMemory, fstatus, fspHistory>>
  /\ UNCHANGED <<chainVars, votes, rewardVars>>

(* _broadcast_and_confirm, the broadcast; "nonce too low" is retryable, any*)
(* other RpcError terminal.                                                *)
SendVote ==
  /\ fpc = "send"
  /\ \/ /\ vtx[MyVote] = "signed" /\ NoFault /\ vtx' = [vtx EXCEPT ![MyVote] = "pending"]
        /\ fpc' = "receipt" /\ UNCHANGED <<fspMemory, fstatus, fspHistory>>
     \/ /\ vtx[MyVote] = "signed" /\ Fault("node") /\ FinishVote("failed-terminal") /\ UNCHANGED vtx
     \/ /\ vtx[MyVote] = "signed" /\ Fault("lost") /\ FinishVote("failed-terminal")
        /\ vtx' = [vtx EXCEPT ![MyVote] = "pending"]
     \/ /\ vtx[MyVote] = "pending" /\ NoFault /\ FinishVote("failed-terminal") /\ UNCHANGED vtx
     \/ /\ \/ vtx[MyVote] \in {"mined", "reverted"} /\ NoFault
           \/ vtx[MyVote] = "signed" /\ Fault("nonce")
        /\ FinishVote("failed-retryable") /\ UNCHANGED vtx
  /\ UNCHANGED <<chainVars, votes, rewardVars>>

(* ... and the receipt; a revert is the finalization guard's, or its       *)
(* reason cannot be read.                                                  *)
VoteReceipt ==
  /\ fpc = "receipt"
  /\ \/ vtx[MyVote] = "mined" /\ NoFault /\ FinishVote("submitted-mined")
     \/ vtx[MyVote] = "pending" /\ Fault("slow") /\ FinishVote("submitted-pending")
     \/ vtx[MyVote] = "reverted" /\ NoFault /\ FinishVote("already-finalized")
     \/ vtx[MyVote] = "reverted" /\ Fault("reason") /\ FinishVote("failed-terminal")
  /\ UNCHANGED <<chainVars, votes, rewardVars, vtx>>

(* poll_receipt raises: the rest of the cycle is skipped.                  *)
VoteReceiptFails ==
  /\ fpc = "receipt" /\ Fault("poll") /\ fpc' = "report"
  /\ UNCHANGED <<chainVars, votes, rewardVars, fspMemory, fstatus, vtx, fspHistory>>

FspReport ==
  /\ fpc = "report" /\ fpc' = "sleep" /\ NoFault
  /\ fstatus' = [degraded |-> \E mt \in MessageType : Degraded(fauto[mt])]
  /\ closed' = {} /\ work' = NoWork
  /\ UNCHANGED <<chainVars, votes, rewardVars, watermark, fauto, vtx, fspHistory>>

FspCoolsOff(mt, e) ==
  /\ fpc = "sleep" /\ InCooldown(fauto[mt], e) /\ NoFault
  /\ fauto' = [fauto EXCEPT ![mt] = CoolOff(@, e)]
  /\ UNCHANGED <<chainVars, votes, rewardVars, fpc, watermark, closed, work, fstatus, vtx, fspHistory>>

(* FlareSystemsManager: our vote counts unless the epoch is final.         *)
MineVote(v) ==
  /\ vtx[v] = "pending" /\ NoFault
  /\ \/ /\ v[2] \notin final[v[1]] /\ votes' = votes \cup {v}
        /\ vtx' = [vtx EXCEPT ![v] = "mined"]
     \/ v[2] \in final[v[1]] /\ vtx' = [vtx EXCEPT ![v] = "reverted"] /\ UNCHANGED votes
  /\ UNCHANGED <<chainVars, rewardVars, fpc, fspMemory, fstatus, fspHistory>>

FspDaemon == FspStart \/ FspCycle \/ NextType \/ SkipCooling \/ VoteLegs \/ SendVote \/ VoteReceipt \/ FspReport

FspNext ==
  \/ FspDaemon \/ FspCrash \/ FspCycleFails \/ VoteReceiptFails
  \/ \E mt \in MessageType, e \in Epoch : FspCoolsOff(mt, e) \/ MineVote(<<mt, e>>)
============================================================================
