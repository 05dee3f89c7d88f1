--------------------------- MODULE LegacyDaemons ---------------------------
(***************************************************************************)
(* The two daemons `clif epoch run` replaces, over one chain: the signing  *)
(* daemon `clif fsp auto` and the claim daemon `clif auto`.  Separate      *)
(* commands: each runs alone or beside the other, and they meet only       *)
(* through what the chain finalizes.                                       *)
(***************************************************************************)
EXTENDS FspAuto, ClaimAuto

CONSTANT Deployments \* the sets of daemons that may be running together

VARIABLE deployed    \* the daemons of this behaviour

vars == <<chainVars, votes, rewardVars, faults, fspVars, claimVars, deployed>>

ASSUME DeploymentAssumption == Deployments \subseteq SUBSET {"auto", "fsp auto"}

Init == ChainInit /\ FspInit /\ ClaimInit /\ deployed \in Deployments

Next ==
  \/ ChainStep /\ UNCHANGED <<fspVars, claimVars, deployed>>
  \/ "fsp auto" \in deployed /\ FspNext /\ UNCHANGED <<claimVars, deployed>>
  \/ "auto" \in deployed /\ ClaimNext /\ UNCHANGED <<fspVars, deployed>>

Spec == Init /\ [][Next]_vars

(* The supervisor restarts a daemon that ended (restart: unless-stopped),  *)
(* a cycle runs to its end, cooldowns end, the chain includes what it      *)
(* accepted.  Nothing is assumed of other voters or of publication.        *)
Fairness ==
  /\ WF_vars("fsp auto" \in deployed /\ FspDaemon /\ UNCHANGED <<claimVars, deployed>>)
  /\ WF_vars("auto" \in deployed /\ ClaimDaemon /\ UNCHANGED <<fspVars, deployed>>)
  /\ WF_vars((\E e \in Epoch, s \in Streams : MineClaim(e, s)) /\ UNCHANGED <<fspVars, claimVars, deployed>>)
  /\ SF_vars("auto" \in deployed /\ (\E e \in Epoch, s \in Streams : ClaimCoolsOff(s, e))
             /\ UNCHANGED <<fspVars, deployed>>)
  /\ WF_vars("fsp auto" \in deployed /\ (\E v \in MessageType \X Epoch : MineVote(v))
             /\ UNCHANGED <<claimVars, deployed>>)
  /\ SF_vars("fsp auto" \in deployed /\ (\E v \in MessageType \X Epoch : FspCoolsOff(v[1], v[2]))
             /\ UNCHANGED <<claimVars, deployed>>)

FairSpec == Spec /\ Fairness
-----------------------------------------------------------------------------
AutoStates == [seen : [Epoch -> SeenAge], cooling : SUBSET Epoch]
Report     == {None} \cup [degraded : BOOLEAN]

(* Type invariant of the chain and of both daemons' memories; the watermark*)
(* of fsp auto never runs ahead of the current epoch, unless --from-epoch  *)
(* put it there.                                                           *)
TypeOK ==
  /\ current \in Epoch /\ published \subseteq Epoch /\ final \in [MessageType -> SUBSET Epoch]
  /\ votes \subseteq MessageType \X Epoch /\ pointer \in [Streams -> 0 .. MaxEpoch + 1]
  /\ paid \subseteq Entitled /\ faults \in 0 .. MaxFaults
  /\ tx \in [ClaimKey -> [st : {"none", "signed", "released", "pending", "loose", "mined", "reverted"},
                          epochs : SUBSET Epoch, nonce : Nat]]
  /\ fwdNonce \in Nat
  /\ cpc \in {"down", "sleep", "collect", "sign", "broadcast", "confirm"}
  /\ ctodo \subseteq Streams /\ cauto \in [Streams -> AutoStates] /\ cstatus \in Report
  /\ batch \in [stream : {None} \cup Streams, epochs : SUBSET Epoch, last : -1 .. MaxEpoch]
  /\ confirmed \cup lapsed \subseteq Epoch \X Streams
  /\ fpc \in {"down", "sleep", "sign", "send", "receipt", "report"}
  /\ watermark \in {None} \cup FromEpochs \cup 0 .. current
  /\ first \in {None} \cup FromEpochs \cup 0 .. current
  /\ closed \subseteq 0 .. (current - 1) /\ work \in [mt : MessageType, left : SUBSET closed]
  /\ fauto \in [MessageType -> AutoStates] /\ fstatus \in Report
  /\ vtx \in [MessageType \X Epoch -> {"none", "signed", "pending", "mined", "reverted"}]
  /\ tried \subseteq MessageType \X Epoch /\ tripped \subseteq tried

(* An epoch clif auto logs as "confirmed claimed" (it left the claimable   *)
(* set) has been paid: a failed discovery must not look like an empty one. *)
(* Two ways of leaving the set are no claim and are logged as one: the     *)
(* reward expired, or its data file could not be read in one cycle.        *)
GoneIsClaimed == confirmed \subseteq paid \cup lapsed

(* A key fwd has signed for and that came to nothing is spent; a nonce it  *)
(* has handed out and nobody broadcasts holds up the wallet.               *)
KeySpent(s) == LET last == Max(CollectRewardClaims(s, {}))
               IN  tx[<<last, s>>].st \in {"signed", "released", "reverted"}
Stranded    == \E n \in ChainNonce .. (fwdNonce - 1) :
                 ~\E k \in ClaimKey : InPool(k) /\ tx[k].nonce = n

(* clif auto keeps claiming: again and again there is nothing left to      *)
(* claim, unless the key of the newest claimable epoch is spent or the     *)
(* wallet is held up.  A fresher epoch brings a fresh key.                 *)
RewardsClaimed ==
  "auto" \in deployed =>
    []<>(\A s \in Streams : CollectRewardClaims(s, {}) = {} \/ KeySpent(s) \/ Stranded)

(* The report fsp auto writes after a cycle in which an epoch failed       *)
(* terminally says degraded, however the cycle ended.                      *)
TerminalReported == fpc = "sleep" /\ tripped # {} => fstatus = [degraded |-> TRUE]

(* The watermark of fsp auto never passes an epoch whose uptime vote was   *)
(* not at least attempted, although reward outcomes move it back and forth.*)
UptimeTried ==
  watermark # None /\ first # None =>
    \A e \in first .. (watermark - 1) : <<"UPTIME", e>> \in tried
============================================================================
