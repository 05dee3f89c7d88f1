---------------------------- MODULE RewardChain ----------------------------
(***************************************************************************)
(* The chain as the two legacy daemons see it: reward epochs open, their   *)
(* reward data is published, other voters finalize the uptime vote and the *)
(* rewards, votes and claims of ours are mined, unclaimed rewards expire.  *)
(* External: modelled from how clif/rpc.py, clif/discovery.py and          *)
(* clif/fsp.py read it.                                                    *)
(***************************************************************************)
EXTENDS Integers, FiniteSets, AutoState

CONSTANTS
  MaxEpoch,   \* bound: the last reward epoch that opens
  Streams,    \* the (claim type, beneficiary) pairs
  Entitled,   \* <<epoch, stream>> pairs with a leaf in the reward tree
  None,       \* Python's None
  Faults,     \* the kinds of failure the environment may inject
  MaxFaults   \* bound: how many of them one behaviour contains

Epoch       == 0 .. MaxEpoch
MessageType == {"UPTIME", "REWARD_DISTRIBUTION"}

ASSUME ChainAssumption ==
  /\ MaxEpoch \in Nat \ {0} /\ MaxFaults \in Nat
  /\ Entitled \subseteq Epoch \X Streams /\ IsFiniteSet(Streams) /\ None \notin Epoch

VARIABLES
  current,    \* getCurrentRewardEpochId
  published,  \* epochs whose reward data is out
  final,      \* per message type, the epochs past the signing threshold
  votes,      \* <<message type, epoch>> pairs that carry our signature
  pointer,    \* getNextClaimableRewardEpochId, per stream
  paid,       \* <<epoch, stream>> rewards transferred
  tx,         \* per claim key, what became of the transaction fwd signed for it
  fwdNonce,   \* the nonce fwd hands out next for the claim wallet
  lapsed,     \* history: <<epoch, stream>> rewards that expired, or were not read once
  faults      \* failures injected so far

chainVars  == <<current, published, final>>
rewardVars == <<pointer, paid, tx, fwdNonce, lapsed>>

ClaimKey == Epoch \X Streams
NoTx     == [st |-> "none", epochs |-> {}, nonce |-> 0]

ChainInit ==
  /\ current = 0 /\ published = {} /\ final = [mt \in MessageType |-> {}] /\ votes = {}
  /\ pointer = [s \in Streams |-> 0] /\ paid = {}
  /\ tx = [k \in ClaimKey |-> NoTx] /\ fwdNonce = 0 /\ lapsed = {} /\ faults = 0

Fault(kind) == kind \in Faults /\ faults < MaxFaults /\ faults' = faults + 1
NoFault == UNCHANGED faults

NextEpoch ==
  /\ current < MaxEpoch /\ current' = current + 1
  /\ UNCHANGED <<published, final, votes, rewardVars, faults>>

Publish(e) ==
  /\ e < current /\ e \notin published /\ published' = published \cup {e}
  /\ UNCHANGED <<current, final, votes, rewardVars, faults>>

(* The others' weight passes the threshold, with or without our signature; *)
(* epochs are days apart and pass it in order.                             *)
Finalize(mt, e) ==
  /\ e < current /\ final[mt] = 0 .. (e - 1) /\ (mt = "REWARD_DISTRIBUTION" => e \in published)
  /\ final' = [final EXCEPT ![mt] = @ \cup {e}]
  /\ UNCHANGED <<current, published, votes, rewardVars, faults>>

(* The wallet's transactions are included in the order of their nonces, of *)
(* which the node's pool holds one each.  A transaction is "pending" there *)
(* with its nonce taken, or "loose": in the pool, but fwd was told to give *)
(* the nonce back and may have handed it out again.                        *)
InPool(k)  == tx[k].st \in {"pending", "loose"}
ChainNonce == Cardinality({k \in ClaimKey : tx[k].st \in {"mined", "reverted"}})
Rivals(k)  == {j \in ClaimKey \ {k} : InPool(j) /\ tx[j].nonce = tx[k].nonce}

(* What fwd makes of a broadcast's report: "rejected_releaseable" gives the*)
(* nonce back if it is the last one handed out; "rejected_nonce_too_low":  *)
(* "fwd corrects".                                                         *)
GiveBack(k) == fwdNonce' = IF tx[k].nonce = fwdNonce - 1 THEN tx[k].nonce ELSE fwdNonce
Correct     == fwdNonce' = IF fwdNonce < ChainNonce THEN ChainNonce ELSE fwdNonce

(* RewardManager.claim: pays the proven leaves of the batch, each once, and*)
(* moves the beneficiary's pointer past its last epoch.                    *)
MineClaim(e, s) ==
  /\ InPool(<<e, s>>) /\ tx[<<e, s>>].nonce = ChainNonce
  /\ \/ /\ NoFault
        /\ tx' = [tx EXCEPT ![<<e, s>>].st = "mined"]
        /\ paid' = paid \cup {<<d, s>> : d \in {x \in tx[<<e, s>>].epochs : x >= pointer[s]}}
        /\ pointer' = [pointer EXCEPT ![s] = IF e >= @ THEN e + 1 ELSE @]
     \/ /\ Fault("revert")
        /\ tx' = [tx EXCEPT ![<<e, s>>].st = "reverted"]
        /\ UNCHANGED <<paid, pointer>>
  /\ UNCHANGED <<chainVars, votes, fwdNonce, lapsed>>

(* Unclaimed rewards of the oldest epoch expire: the range moves on.       *)
Expire(s) ==
  /\ pointer[s] < current - 1 /\ Fault("expire")
  /\ pointer' = [pointer EXCEPT ![s] = @ + 1] /\ lapsed' = lapsed \cup {<<pointer[s], s>>}
  /\ UNCHANGED <<chainVars, votes, paid, tx, fwdNonce>>

ChainStep ==
  \/ NextEpoch
  \/ \E e \in Epoch : Publish(e) \/ \E mt \in MessageType : Finalize(mt, e)
  \/ \E e \in Epoch, s \in Streams : MineClaim(e, s)
  \/ \E s \in Streams : Expire(s)
============================================================================
