------------------------- MODULE EpochDaemonProofs -------------------------
(***************************************************************************)
(* Machine-checked facts about `clif epoch run` for every number of epochs *)
(* and streams, every entitlement, and every budget of failures.           *)
(***************************************************************************)
EXTENDS EpochDaemon, TLAPS

USE DEF Epoch

InTurn == pc \in {"sign", "signBroadcast", "signConfirm",
                  "claim", "claimBroadcast", "claimConfirm"}
Claiming == pc \in {"claim", "claimBroadcast", "claimConfirm"}

(***************************************************************************)
(* The strengthening of TypeOK: an epoch whose turn it is is closed, and   *)
(* the stream being claimed is one of the cycle's.  Split into what the    *)
(* cycle's code assigns and what it leaves to others.                      *)
(***************************************************************************)
LocalsOK ==
  /\ pc \in PC /\ cyc \in CycleType /\ retries \in [Epoch -> Nat] /\ auto \in AutoType
  /\ InTurn => cyc.ep < cyc.cur
  /\ pc \in {"claimBroadcast", "claimConfirm"} => cyc.stream \in cyc.todo

ChainOK ==
  /\ current \in Epoch /\ published \subseteq Epoch /\ finalized \subseteq Epoch
  /\ votes \subseteq Epoch /\ paid \subseteq Epoch \X Streams
  /\ pointer \in [Streams -> 0 .. MaxEpoch + 1]

DiskOK ==
  /\ lastDone \in Int \cup {None} /\ floor \in Int /\ faults \in Nat
  /\ status \in StatusType \cup {None}

TypeInv == LocalsOK /\ ChainOK /\ DiskOK /\ tx \in [Keys -> TxState]

LEMMA TypeInvSuffices == TypeInv => TypeOK
BY DEF TypeInv, LocalsOK, ChainOK, DiskOK, TypeOK

LEMMA IdleType == Idle \in CycleType
BY BoundsAssumption DEF Idle, CycleType

LEMMA NewStreamType == NewStream(Epoch) \in AutoType
BY DEF NewStream, AutoType, SeenAge

LEMMA TurnInEpoch == LocalsOK /\ InTurn => cyc.ep \in Epoch
BY BoundsAssumption DEF LocalsOK, CycleType

LEMMA ScanInEpoch == LocalsOK /\ Scanning => cyc.ep \in Epoch
BY BoundsAssumption DEF LocalsOK, CycleType, Scanning

(* What SettleEpoch does to the cycle's locals.                            *)
LEMMA SettleFields ==
  ASSUME LocalsOK, NEW done \in BOOLEAN, NEW terminal \in BOOLEAN, SettleEpoch(done, terminal)
  PROVE  /\ pc' = "scan"
         /\ cyc'.ep = cyc.ep + 1 /\ cyc'.cur = cyc.cur
         /\ cyc'.newDone = (IF done /\ cyc.advancing THEN cyc.ep ELSE cyc.newDone)
         /\ cyc'.advancing = (cyc.advancing /\ done)
         /\ cyc'.active = (IF done THEN cyc.active ELSE cyc.active \cup {cyc.ep})
BY DEF SettleEpoch, LocalsOK, CycleType

LEMMA SettleType ==
  ASSUME LocalsOK, cyc.ep \in Epoch,
         NEW done \in BOOLEAN, NEW terminal \in BOOLEAN, SettleEpoch(done, terminal)
  PROVE  cyc' \in CycleType /\ auto' \in AutoType /\ pc' = "scan"
<1>1. cyc' \in CycleType
  <2> DEFINE nd == IF done /\ cyc.advancing THEN cyc.ep ELSE cyc.newDone
             ad == cyc.advancing /\ done
             ac == IF done THEN cyc.active ELSE cyc.active \cup {cyc.ep}
  <2>1. cyc \in CycleType
    BY DEF LocalsOK
  <2>2. cyc' = [cyc EXCEPT !.ep = cyc.ep + 1, !.active = ac, !.newDone = nd,
                  !.advancing = ad, !.todo = {}, !.stream = None,
                  !.allDone = TRUE, !.anyTerminal = FALSE]
    BY DEF SettleEpoch
  <2>3. nd \in Int \cup {None} /\ ad \in BOOLEAN /\ ac \in SUBSET Epoch
    BY <2>1 DEF CycleType
  <2>4. cyc.ep + 1 \in Nat
    BY BoundsAssumption
  <2> HIDE DEF nd, ad, ac
  <2> QED
    BY <2>1, <2>2, <2>3, <2>4 DEF CycleType
<1>2. auto' \in AutoType
  BY DEF SettleEpoch, LocalsOK, AutoType, RecordTerminal
<1> QED
  BY <1>1, <1>2 DEF SettleEpoch

(* Entering the claim phase keeps the epoch and queues every stream.       *)
LEMMA EnterClaimsType ==
  ASSUME LocalsOK, EnterClaims
  PROVE  /\ cyc' \in CycleType /\ auto' = auto /\ pc' = "claim"
         /\ cyc' = [cyc EXCEPT !.todo = Streams]
         /\ cyc'.ep = cyc.ep /\ cyc'.cur = cyc.cur
BY DEF EnterClaims, LocalsOK, CycleType

LEMMA FinishSignType ==
  ASSUME LocalsOK, pc \in {"sign", "signBroadcast", "signConfirm"},
         NEW outcome, FinishSign(outcome)
  PROVE  LocalsOK'
<1>1. cyc.ep \in Epoch /\ cyc.ep < cyc.cur
  BY TurnInEpoch DEF InTurn, LocalsOK
<1>2. retries' \in [Epoch -> Nat]
  <2>1. retries' = retries \/ retries' = [retries EXCEPT ![cyc.ep] = retries[cyc.ep] + 1]
    BY DEF FinishSign
  <2>2. retries \in [Epoch -> Nat]
    BY DEF LocalsOK
  <2> QED
    BY <1>1, <2>1, <2>2
<1>3. CASE EnterClaims
  <2>1. cyc' \in CycleType /\ auto' = auto /\ pc' = "claim" /\ cyc'.ep < cyc'.cur
    BY <1>1, <1>3, EnterClaimsType
  <2> QED
    BY <1>2, <2>1 DEF LocalsOK, InTurn, PC
<1>4. ASSUME NEW terminal \in BOOLEAN, SettleEpoch(FALSE, terminal)
      PROVE  LocalsOK'
  <2>1. cyc' \in CycleType /\ auto' \in AutoType /\ pc' = "scan"
    BY <1>1, <1>4, SettleType
  <2> QED
    BY <1>2, <2>1 DEF LocalsOK, InTurn, PC
<1> QED
  <2>1. \/ EnterClaims
        \/ SettleEpoch(FALSE, TRUE) \/ SettleEpoch(FALSE, FALSE)
        \/ SettleEpoch(FALSE, retries[cyc.ep] + 1 >= MaxSignRetries)
    BY DEF FinishSign
  <2>2. (retries[cyc.ep] + 1 >= MaxSignRetries) \in BOOLEAN
    OBVIOUS
  <2> QED
    BY <1>3, <1>4, <2>1, <2>2, Zenon

LEMMA FinishClaimType ==
  ASSUME LocalsOK, Claiming, UNCHANGED retries,
         NEW s \in Streams, NEW outcome, FinishClaim(s, outcome)
  PROVE  LocalsOK'
<1> DEFINE all == cyc.allDone /\ outcome \in ClaimDone
           bad == cyc.anyTerminal \/ outcome = "failed-terminal"
<1>1. cyc.ep \in Epoch /\ cyc.ep < cyc.cur
  BY TurnInEpoch DEF InTurn, Claiming, LocalsOK
<1>2. all \in BOOLEAN /\ bad \in BOOLEAN
  OBVIOUS
<1>3. \/ SettleEpoch(all, bad)
      \/ /\ pc' = "claim" /\ auto' = auto
         /\ cyc' = [cyc EXCEPT !.todo = cyc.todo \ {s}, !.stream = None,
                               !.allDone = all, !.anyTerminal = bad]
  BY DEF FinishClaim
<1> HIDE DEF all, bad
<1>4. CASE SettleEpoch(all, bad)
  <2>1. cyc' \in CycleType /\ auto' \in AutoType /\ pc' = "scan"
    BY <1>1, <1>2, <1>4, SettleType
  <2> QED
    BY <2>1 DEF LocalsOK, InTurn, PC
<1>5. CASE /\ pc' = "claim" /\ auto' = auto
           /\ cyc' = [cyc EXCEPT !.todo = cyc.todo \ {s}, !.stream = None,
                                 !.allDone = all, !.anyTerminal = bad]
  <2>1. cyc \in CycleType
    BY DEF LocalsOK
  <2>2. cyc' \in CycleType /\ cyc'.ep = cyc.ep /\ cyc'.cur = cyc.cur
    BY <1>2, <1>5, <2>1 DEF CycleType
  <2> QED
    BY <1>1, <1>5, <2>2 DEF LocalsOK, InTurn, PC
<1> QED
  BY <1>3, <1>4, <1>5

(* Every broadcast leaves the cache of transactions well-typed.            *)
LEMMA BroadcastType ==
  ASSUME tx \in [Keys -> TxState], faults \in Nat, NEW key, NEW answer, Broadcast(key, answer)
  PROVE  tx' \in [Keys -> TxState] /\ faults' \in Nat
BY DEF Broadcast, TxState, Fault, NoFault

LEMMA AbortType ==
  ASSUME TypeInv, AbortCycle
  PROVE  TypeInv'
BY IdleType DEF AbortCycle, TypeInv, LocalsOK, ChainOK, DiskOK, InTurn, PC, Fault,
                chain, ledger, disk

LEMMA HaltType ==
  ASSUME TypeInv, Crash \/ Recreate
  PROVE  TypeInv'
<1>1. LocalsOK'
  BY IdleType, NewStreamType DEF Crash, Recreate, Halt, LocalsOK, InTurn, PC
<1>2. ChainOK' /\ tx' \in [Keys -> TxState]
  BY DEF Crash, Recreate, Halt, TypeInv, ChainOK, chain, ledger
<1>3. DiskOK'
  BY DEF Crash, Recreate, Halt, TypeInv, DiskOK, Fault
<1> QED
  BY <1>1, <1>2, <1>3 DEF TypeInv

LEMMA EnvironmentType ==
  ASSUME TypeInv, Environment
  PROVE  TypeInv'
<1>1. CASE NextEpoch
  BY <1>1, BoundsAssumption
     DEF NextEpoch, TypeInv, LocalsOK, ChainOK, DiskOK, InTurn, ledger, world, disk
<1>2. ASSUME NEW e \in Epoch, Publish(e) \/ Finalize(e) PROVE TypeInv'
  BY <1>2 DEF Publish, Finalize, TypeInv, LocalsOK, ChainOK, DiskOK, InTurn, ledger, world, disk
<1>3. ASSUME NEW e \in Epoch, Outlives(e) PROVE TypeInv'
  <2>1. auto' \in AutoType
    BY <1>3 DEF Outlives, Outlive, TypeInv, LocalsOK, AutoType, SeenAge
  <2> QED
    BY <1>3, <2>1 DEF Outlives, TypeInv, LocalsOK, ChainOK, DiskOK, InTurn, chain, ledger, disk
<1>4. ASSUME NEW e \in Epoch, CoolsOff(e) PROVE TypeInv'
  <2>1. auto' \in AutoType
    BY <1>4 DEF CoolsOff, CoolOff, TypeInv, LocalsOK, AutoType
  <2> QED
    BY <1>4, <2>1 DEF CoolsOff, TypeInv, LocalsOK, ChainOK, DiskOK, InTurn, chain, ledger, disk
<1>5. ASSUME NEW e \in Epoch, NEW k \in 0 .. MaxToken, MineSign(e, k) PROVE TypeInv'
  <2>1. tx' \in [Keys -> TxState] /\ votes' \subseteq Epoch
    BY <1>5 DEF MineSign, TypeInv, ChainOK, TxState
  <2> QED
    BY <1>5, <2>1 DEF MineSign, TypeInv, LocalsOK, ChainOK, DiskOK, InTurn, chain, world, disk
<1>6. ASSUME NEW e \in Epoch, NEW s \in Streams, MineClaim(e, s) PROVE TypeInv'
  <2>1. tx' \in [Keys -> TxState] /\ faults' \in Nat
    BY <1>6 DEF MineClaim, TypeInv, DiskOK, TxState, Fault, NoFault
  <2>2. pointer' \in [Streams -> 0 .. MaxEpoch + 1] /\ paid' \subseteq Epoch \X Streams
    BY <1>6, BoundsAssumption DEF MineClaim, TypeInv, ChainOK
  <2> QED
    BY <1>6, <2>1, <2>2 DEF MineClaim, TypeInv, LocalsOK, ChainOK, DiskOK, InTurn, chain, disk
<1> QED
  BY <1>1, <1>2, <1>3, <1>4, <1>5, <1>6 DEF Environment

(* An action of the daemon on a turn: it changes the cycle's locals, its   *)
(* transactions and the failure budget, and nothing else.                  *)
LEMMA TurnType ==
  ASSUME TypeInv, LocalsOK', tx' \in [Keys -> TxState], faults' \in Nat,
         UNCHANGED <<chain, ledger, disk>>
  PROVE  TypeInv'
BY DEF TypeInv, ChainOK, DiskOK, chain, ledger, disk

LEMMA CycleBoundsType ==
  ASSUME TypeInv, Start \/ BeginCycle \/ EndCycle \/ Report
  PROVE  TypeInv'
<1>1. CASE Start
  <2>1. lastDone' \in Int \cup {None} /\ floor' \in Int
    BY <1>1, DomainAssumption DEF Start, TypeInv, DiskOK, StatusType, Higher
  <2> QED
    BY <1>1, <2>1 DEF Start, TypeInv, LocalsOK, ChainOK, DiskOK, InTurn, PC, chain, ledger
<1>2. CASE BeginCycle
  <2>1. Base \in Int /\ WindowStart \in Nat
    BY BoundsAssumption DEF TypeInv, ChainOK, DiskOK, Base, WindowStart, Higher
  <2>2. cyc' \in CycleType
    BY <1>2, <2>1, IdleType DEF BeginCycle, TypeInv, ChainOK, CycleType
  <2>3. floor' \in Int
    BY <1>2, <2>1 DEF BeginCycle, TypeInv, DiskOK, Higher
  <2> QED
    BY <1>2, <2>2, <2>3 DEF BeginCycle, TypeInv, LocalsOK, ChainOK, DiskOK, InTurn, PC,
                            chain, ledger
<1>3. CASE EndCycle
  <2>1. auto' \in AutoType
    BY <1>3 DEF EndCycle, Observe, Tracked, TypeInv, LocalsOK, AutoType, SeenAge
  <2>2. lastDone' \in Int \cup {None}
    BY <1>3 DEF EndCycle, TypeInv, LocalsOK, CycleType
  <2> QED
    BY <1>3, <2>1, <2>2, IdleType
       DEF EndCycle, TypeInv, LocalsOK, ChainOK, DiskOK, InTurn, PC, chain, ledger
<1>4. CASE Report
  <2>1. Degraded(auto) \in BOOLEAN
    BY DEF Degraded
  <2>2. status' \in StatusType
    BY <1>4, <2>1 DEF Report, TypeInv, DiskOK, StatusType
  <2> QED
    BY <1>4, <2>2 DEF Report, TypeInv, LocalsOK, ChainOK, DiskOK, InTurn, PC, chain, ledger
<1> QED
  BY <1>1, <1>2, <1>3, <1>4

LEMMA ReadType ==
  ASSUME TypeInv, SkipCooling \/ ReadRewards \/ PublicationUnread
  PROVE  TypeInv'
<1>1. cyc.ep \in Epoch /\ cyc.ep < cyc.cur /\ UNCHANGED <<chain, ledger, tx, retries, disk>>
  BY ScanInEpoch DEF SkipCooling, ReadRewards, PublicationUnread, Scanning, TypeInv
<1>2. faults' \in Nat
  <2>1. faults \in Nat
    BY DEF TypeInv, DiskOK
  <2>2. CASE SkipCooling
    BY <2>1, <2>2 DEF SkipCooling
  <2>3. CASE ReadRewards
    <3>1. PICK signed \in BOOLEAN : SignedReading(cyc.ep, signed)
      BY <2>3 DEF ReadRewards
    <3> QED
      BY <2>1, <3>1 DEF SignedReading, Fault, NoFault
  <2>4. CASE PublicationUnread
    BY <2>1, <2>4 DEF PublicationUnread, Fault
  <2> QED
    BY <2>2, <2>3, <2>4
<1>3. \/ SettleEpoch(FALSE, FALSE) \/ EnterClaims
      \/ pc' = "sign" /\ UNCHANGED <<cyc, auto>>
  BY DEF SkipCooling, ReadRewards, PublicationUnread
<1>4. CASE SettleEpoch(FALSE, FALSE)
  <2>1. cyc' \in CycleType /\ auto' \in AutoType /\ pc' = "scan"
    BY <1>1, <1>4, SettleType DEF TypeInv
  <2>2. LocalsOK'
    BY <1>1, <2>1 DEF TypeInv, LocalsOK, InTurn, PC
  <2> QED
    BY <1>1, <1>2, <2>2, TurnType DEF TypeInv
<1>5. CASE EnterClaims
  <2>1. cyc' \in CycleType /\ auto' = auto /\ pc' = "claim" /\ cyc'.ep < cyc'.cur
    BY <1>1, <1>5, EnterClaimsType DEF TypeInv
  <2>2. LocalsOK'
    BY <1>1, <2>1 DEF TypeInv, LocalsOK, InTurn, PC
  <2> QED
    BY <1>1, <1>2, <2>2, TurnType DEF TypeInv
<1>6. CASE pc' = "sign" /\ UNCHANGED <<cyc, auto>>
  <2>1. LocalsOK'
    BY <1>1, <1>6 DEF TypeInv, LocalsOK, InTurn, PC
  <2> QED
    BY <1>1, <1>2, <2>1, TurnType DEF TypeInv
<1> QED
  BY <1>3, <1>4, <1>5, <1>6

(* One leg of a reward signature or of a claim.                            *)
LEMMA SignStepType ==
  ASSUME TypeInv, SignLegs \/ SignBroadcast \/ SignConfirm
  PROVE  TypeInv'
<1>1. LocalsOK /\ tx \in [Keys -> TxState] /\ faults \in Nat /\ UNCHANGED <<chain, ledger, disk>>
  BY DEF TypeInv, DiskOK, SignLegs, SignBroadcast, SignConfirm
<1>2. CASE SignLegs
  <2>1. \/ \E outcome : FinishSign(outcome)
        \/ pc' = "signBroadcast" /\ UNCHANGED <<cyc, retries, auto>>
    BY <1>2 DEF SignLegs
  <2>2. LocalsOK'
    BY <1>1, <1>2, <2>1, FinishSignType DEF SignLegs, LocalsOK, InTurn, PC
  <2>3. tx' \in [Keys -> TxState]
    BY <1>1, <1>2 DEF SignLegs, TxState
  <2>4. faults' \in Nat
    BY <1>1, <1>2 DEF SignLegs, Fault, NoFault
  <2> QED
    BY <1>1, <2>2, <2>3, <2>4, TurnType
<1>3. CASE SignBroadcast
  <2>1. PICK answer : Broadcast(MySignKey, answer)
    BY <1>3 DEF SignBroadcast
  <2>2. tx' \in [Keys -> TxState] /\ faults' \in Nat
    BY <1>1, <2>1, BroadcastType
  <2>3. \/ \E outcome : FinishSign(outcome)
        \/ pc' = "signConfirm" /\ UNCHANGED <<cyc, retries, auto>>
    BY <1>3 DEF SignBroadcast
  <2>4. LocalsOK'
    BY <1>1, <1>3, <2>3, FinishSignType DEF SignBroadcast, LocalsOK, InTurn, PC
  <2> QED
    BY <1>1, <2>2, <2>4, TurnType
<1>4. CASE SignConfirm
  <2>1. \E outcome : FinishSign(outcome)
    BY <1>4 DEF SignConfirm
  <2>2. LocalsOK'
    BY <1>1, <1>4, <2>1, FinishSignType DEF SignConfirm
  <2>3. faults' \in Nat /\ tx' = tx
    BY <1>1, <1>4 DEF SignConfirm, Fault, NoFault
  <2> QED
    BY <1>1, <2>2, <2>3, TurnType
<1> QED
  BY <1>2, <1>3, <1>4

LEMMA ClaimStepType ==
  ASSUME TypeInv, ClaimBroadcast \/ ClaimConfirm \/ \E s \in Streams : ClaimLegs(s)
  PROVE  TypeInv'
<1>1. /\ LocalsOK /\ tx \in [Keys -> TxState] /\ faults \in Nat
      /\ UNCHANGED <<chain, ledger, disk, retries>>
  BY DEF TypeInv, DiskOK, ClaimBroadcast, ClaimConfirm, ClaimLegs
<1>2. ASSUME pc \in {"claimBroadcast", "claimConfirm"} PROVE cyc.stream \in Streams
  BY <1>1, <1>2 DEF LocalsOK, CycleType
<1>3. ASSUME NEW s \in Streams, ClaimLegs(s) PROVE TypeInv'
  <2>1. \/ \E outcome : FinishClaim(s, outcome)
        \/ pc' = "claimBroadcast" /\ cyc' = [cyc EXCEPT !.stream = s] /\ UNCHANGED auto
    BY <1>3 DEF ClaimLegs
  <2>2. pc = "claim" /\ s \in cyc.todo
    BY <1>3 DEF ClaimLegs
  <2>3. ASSUME \E outcome : FinishClaim(s, outcome) PROVE LocalsOK'
    BY <1>1, <2>2, <2>3, FinishClaimType DEF Claiming
  <2>4. ASSUME pc' = "claimBroadcast", cyc' = [cyc EXCEPT !.stream = s], UNCHANGED auto
        PROVE  LocalsOK'
    BY <1>1, <2>2, <2>4 DEF LocalsOK, InTurn, PC, CycleType
  <2>5. tx' \in [Keys -> TxState]
    BY <1>1, <1>3 DEF ClaimLegs, TxState
  <2>6. faults' \in Nat
    BY <1>1, <1>3 DEF ClaimLegs, Fault, NoFault
  <2> QED
    BY <1>1, <2>1, <2>3, <2>4, <2>5, <2>6, TurnType
<1>4. CASE ClaimBroadcast
  <2>1. PICK answer : Broadcast(MyClaimKey, answer)
    BY <1>4 DEF ClaimBroadcast
  <2>2. tx' \in [Keys -> TxState] /\ faults' \in Nat
    BY <1>1, <2>1, BroadcastType
  <2>3. \/ \E outcome : FinishClaim(cyc.stream, outcome)
        \/ pc' = "claimConfirm" /\ UNCHANGED <<cyc, auto>>
    BY <1>4 DEF ClaimBroadcast
  <2>4. LocalsOK'
    BY <1>1, <1>2, <1>4, <2>3, FinishClaimType
       DEF ClaimBroadcast, LocalsOK, InTurn, Claiming, PC
  <2> QED
    BY <1>1, <2>2, <2>4, TurnType
<1>5. CASE ClaimConfirm
  <2>1. \E outcome : FinishClaim(cyc.stream, outcome)
    BY <1>5 DEF ClaimConfirm
  <2>2. LocalsOK'
    BY <1>1, <1>2, <1>5, <2>1, FinishClaimType DEF ClaimConfirm, Claiming
  <2>3. faults' \in Nat /\ tx' = tx
    BY <1>1, <1>5 DEF ClaimConfirm, Fault, NoFault
  <2> QED
    BY <1>1, <2>2, <2>3, TurnType
<1> QED
  BY <1>3, <1>4, <1>5

(* Epoch 1 may be open at the start: the model has at least two epochs.    *)
LEMMA InitType == Init => TypeInv
<1> SUFFICES ASSUME Init PROVE TypeInv
  OBVIOUS
<1>1. LocalsOK
  BY IdleType, NewStreamType DEF Init, LocalsOK, InTurn, PC
<1>2. ChainOK
  BY BoundsAssumption DEF Init, ChainOK
<1>3. DiskOK /\ tx \in [Keys -> TxState]
  BY DEF Init, DiskOK, TxState
<1> QED
  BY <1>1, <1>2, <1>3 DEF TypeInv

LEMMA NextType ==
  ASSUME TypeInv, [Next]_vars
  PROVE  TypeInv'
<1>1. CASE Next
  BY <1>1, EnvironmentType, CycleBoundsType, ReadType, SignStepType, ClaimStepType, HaltType, AbortType
     DEF Next, Daemon, Failure, BeginFails, ReadFails, SignConfirmFails, ClaimConfirmFails
<1>2. CASE UNCHANGED vars
  BY <1>2 DEF vars, chain, ledger, disk, TypeInv, LocalsOK, ChainOK, DiskOK, InTurn
<1> QED
  BY <1>1, <1>2

(* Every variable keeps its type, a cycle that takes an epoch's turn does  *)
(* so for a closed epoch, and the stream it claims is one it has queued.   *)
THEOREM TypeCorrect == Spec => []TypeOK
<1>1. Spec => []TypeInv
  BY InitType, NextType, PTL DEF Spec
<1> QED
  BY <1>1, TypeInvSuffices, PTL
-----------------------------------------------------------------------------
(***************************************************************************)
(* The watermark.  An epoch is settled when it is finalized and, unless    *)
(* unreadable reward data may pass for "nothing accrued", when every       *)
(* reward of ours in it lies behind its beneficiary's pointer.             *)
(***************************************************************************)
ClaimedBy(s, e) == "data" \notin Faults /\ <<e, s>> \in Entitled => pointer[s] > e
Settled(e) == e \in finalized /\ \A s \in Streams : ClaimedBy(s, e)

SettledUpTo(mark) == \A e \in Epoch : floor < e /\ e <= mark => Settled(e)

Busy == pc = "scan" \/ InTurn

(* A receipt the daemon may find is true of the chain.                     *)
TxMarks ==
  \A e \in Epoch :
    /\ \A k \in 0 .. MaxToken : tx[SignKey(e, k)] = "finalRevert" => e \in finalized
    /\ \A s \in Streams : tx[ClaimKey(e, s)] = "mined" => pointer[s] > e

(* The two watermarks that outlive a cycle.                                *)
DiskMarks ==
  /\ lastDone # None => SettledUpTo(lastDone)
  /\ status # None /\ status.lastDone # None => SettledUpTo(status.lastDone)

(* The watermark being built, and what "advancing" stands for.             *)
CycleMarks ==
  Busy => /\ cyc.newDone # None /\ SettledUpTo(cyc.newDone)
          /\ cyc.advancing => SettledUpTo(cyc.ep - 1)

(* The claim phase is only entered for a finalized epoch, and "all_done"   *)
(* speaks for the streams it has dealt with.                               *)
ClaimMarks ==
  Claiming => /\ cyc.ep \in finalized
              /\ cyc.allDone => \A s \in Streams \ cyc.todo : ClaimedBy(s, cyc.ep)

(* The key a sign transaction went out under is one of the model's.        *)
TokenMarks == pc \in {"signBroadcast", "signConfirm"} => retries[cyc.ep] <= MaxToken

MarkInv == TxMarks /\ DiskMarks /\ CycleMarks /\ ClaimMarks /\ TokenMarks

(* What only grows, whatever the daemon or the world does.                 *)
Grows ==
  /\ finalized \subseteq finalized' /\ floor' >= floor
  /\ \A s \in Streams : pointer'[s] >= pointer[s]

LEMMA StepGrows ==
  ASSUME TypeInv, [Next]_vars
  PROVE  Grows
<1>1. TypeInv'
  BY NextType
<1>2. finalized \subseteq finalized'
  BY DEF Next, vars, Environment, Daemon, Failure, NextEpoch, Publish, Finalize, MineSign,
         MineClaim, Outlives, CoolsOff, Start, BeginCycle, SkipCooling, ReadRewards, SignLegs,
         SignBroadcast, SignConfirm, ClaimBroadcast, ClaimConfirm, EndCycle, Report, ClaimLegs,
         Crash, Recreate, Halt, BeginFails, ReadFails, PublicationUnread, SignConfirmFails,
         ClaimConfirmFails, AbortCycle, chain, ledger, disk, world
<1>3. floor' >= floor
  <2>1. CASE UNCHANGED floor
    BY <2>1 DEF TypeInv, DiskOK
  <2>2. CASE Start \/ BeginCycle
    BY <2>2, <1>1, BoundsAssumption, DomainAssumption
       DEF Start, BeginCycle, Higher, WindowStart, Base, TypeInv, DiskOK, ChainOK
  <2>3. UNCHANGED floor \/ Start \/ BeginCycle
    BY DEF Next, vars, Environment, Daemon, Failure, NextEpoch, Publish, Finalize, MineSign,
         MineClaim, Outlives, CoolsOff, SkipCooling, ReadRewards, SignLegs,
         SignBroadcast, SignConfirm, ClaimBroadcast, ClaimConfirm, EndCycle, Report, ClaimLegs,
         Crash, Recreate, Halt, BeginFails, ReadFails, PublicationUnread, SignConfirmFails,
         ClaimConfirmFails, AbortCycle, chain, ledger, disk, world
  <2> QED
    BY <2>1, <2>2, <2>3
<1>4. ASSUME NEW s \in Streams PROVE pointer'[s] >= pointer[s]
  <2>1. pointer[s] \in Nat /\ pointer'[s] \in Nat
    BY <1>1, BoundsAssumption DEF TypeInv, ChainOK
  <2>2. CASE UNCHANGED pointer
    BY <2>1, <2>2
  <2>3. ASSUME NEW e \in Epoch, NEW t \in Streams, MineClaim(e, t) PROVE pointer'[s] >= pointer[s]
    BY <2>1, <2>3, BoundsAssumption DEF MineClaim, TypeInv, ChainOK
  <2>4. UNCHANGED pointer \/ \E e \in Epoch, t \in Streams : MineClaim(e, t)
    BY DEF Next, vars, Environment, Daemon, Failure, NextEpoch, Publish, Finalize, MineSign,
         Outlives, CoolsOff, Start, BeginCycle, SkipCooling, ReadRewards, SignLegs,
         SignBroadcast, SignConfirm, ClaimBroadcast, ClaimConfirm, EndCycle, Report, ClaimLegs,
         Crash, Recreate, Halt, BeginFails, ReadFails, PublicationUnread, SignConfirmFails,
         ClaimConfirmFails, AbortCycle, chain, ledger, disk, world
  <2> QED
    BY <2>2, <2>3, <2>4
<1> QED
  BY <1>2, <1>3, <1>4 DEF Grows

LEMMA SettledStays ==
  ASSUME TypeInv, TypeInv', Grows, NEW e \in Epoch, Settled(e)
  PROVE  Settled(e)'
BY BoundsAssumption DEF Settled, ClaimedBy, Grows, TypeInv, ChainOK

LEMMA SettledUpToStays ==
  ASSUME TypeInv, TypeInv', Grows
  PROVE  \A mark \in Int :
           (\A e \in Epoch : floor < e /\ e <= mark => Settled(e))
             => (\A e \in Epoch : floor' < e /\ e <= mark => Settled(e)')
<1> SUFFICES ASSUME NEW mark \in Int, \A e \in Epoch : floor < e /\ e <= mark => Settled(e),
                    NEW e \in Epoch, floor' < e, e <= mark
             PROVE  Settled(e)'
  OBVIOUS
<1>1. floor < e
  BY BoundsAssumption DEF Grows, TypeInv, DiskOK
<1> QED
  BY <1>1, SettledStays

(* No step but mining makes a transaction mined or reverted.               *)
LEMMA TxMarksStay ==
  ASSUME TypeInv, TypeInv', Grows, TxMarks,
         \A key \in Keys : tx'[key] \in {tx[key], "signed", "pending"}
  PROVE  TxMarks'
<1> SUFFICES ASSUME NEW e \in Epoch
             PROVE  /\ \A k \in 0 .. MaxToken : tx'[SignKey(e, k)] = "finalRevert" => e \in finalized'
                    /\ \A s \in Streams : tx'[ClaimKey(e, s)] = "mined" => pointer'[s] > e
  BY DEF TxMarks, SignKey, ClaimKey
<1>1. ASSUME NEW k \in 0 .. MaxToken, tx'[SignKey(e, k)] = "finalRevert" PROVE e \in finalized'
  <2>1. SignKey(e, k) \in Keys
    BY DEF Keys, SignKeys
  <2> QED
    BY <1>1, <2>1 DEF TxMarks, Grows
<1>2. ASSUME NEW s \in Streams, tx'[ClaimKey(e, s)] = "mined" PROVE pointer'[s] > e
  <2>1. ClaimKey(e, s) \in Keys
    BY DEF Keys, ClaimKeys
  <2>2. pointer[s] > e
    BY <1>2, <2>1 DEF TxMarks
  <2> QED
    BY <2>2, BoundsAssumption DEF Grows, TypeInv, ChainOK
<1> QED
  BY <1>1, <1>2

LEMMA MineSignMarks ==
  ASSUME TypeInv, TypeInv', Grows, TxMarks,
         NEW e \in Epoch, NEW k \in 0 .. MaxToken, MineSign(e, k)
  PROVE  TxMarks'
<1>1. ASSUME NEW f \in Epoch, NEW j \in 0 .. MaxToken, tx'[SignKey(f, j)] = "finalRevert"
      PROVE  f \in finalized'
  <2>1. SignKey(f, j) \in Keys /\ SignKey(e, k) \in Keys
    BY DEF Keys, SignKeys
  <2>2. CASE SignKey(f, j) = SignKey(e, k)
    <3>1. f = e
      BY <2>2 DEF SignKey
    <3> QED
      BY <1>1, <2>1, <2>2, <3>1 DEF MineSign, TypeInv, chain
  <2>3. CASE SignKey(f, j) # SignKey(e, k)
    BY <1>1, <2>1, <2>3 DEF MineSign, TypeInv, TxMarks, Grows
  <2> QED
    BY <2>2, <2>3
<1>2. ASSUME NEW f \in Epoch, NEW s \in Streams, tx'[ClaimKey(f, s)] = "mined"
      PROVE  pointer'[s] > f
  <2>1. ClaimKey(f, s) \in Keys /\ ClaimKey(f, s) # SignKey(e, k)
    BY DEF Keys, ClaimKeys, ClaimKey, SignKey
  <2> QED
    BY <1>2, <2>1 DEF MineSign, TypeInv, TxMarks
<1> QED
  BY <1>1, <1>2 DEF TxMarks, SignKey, ClaimKey

LEMMA MineClaimMarks ==
  ASSUME TypeInv, TypeInv', Grows, TxMarks,
         NEW e \in Epoch, NEW s \in Streams, MineClaim(e, s)
  PROVE  TxMarks'
<1>1. ASSUME NEW f \in Epoch, NEW j \in 0 .. MaxToken, tx'[SignKey(f, j)] = "finalRevert"
      PROVE  f \in finalized'
  <2>1. SignKey(f, j) \in Keys /\ SignKey(f, j) # ClaimKey(e, s)
    BY DEF Keys, SignKeys, ClaimKey, SignKey
  <2> QED
    BY <1>1, <2>1 DEF MineClaim, TypeInv, TxMarks, Grows
<1>2. ASSUME NEW f \in Epoch, NEW t \in Streams, tx'[ClaimKey(f, t)] = "mined"
      PROVE  pointer'[t] > f
  <2>1. ClaimKey(f, t) \in Keys /\ ClaimKey(e, s) \in Keys
    BY DEF Keys, ClaimKeys
  <2>2. CASE ClaimKey(f, t) = ClaimKey(e, s)
    <3>1. f = e /\ t = s
      BY <2>2 DEF ClaimKey
    <3>2. tx'[ClaimKey(e, s)] # "revert"
      BY <1>2, <2>2
    <3>3. pointer' = [pointer EXCEPT ![s] = IF e >= @ THEN e + 1 ELSE @]
      BY <2>1, <3>2 DEF MineClaim, TypeInv
    <3> QED
      BY <3>1, <3>3, BoundsAssumption DEF TypeInv, ChainOK
  <2>3. CASE ClaimKey(f, t) # ClaimKey(e, s)
    <3>1. pointer[t] > f
      BY <1>2, <2>1, <2>3 DEF MineClaim, TypeInv, TxMarks
    <3> QED
      BY <3>1, BoundsAssumption DEF Grows, TypeInv, ChainOK
  <2> QED
    BY <2>2, <2>3
<1> QED
  BY <1>1, <1>2 DEF TxMarks, SignKey, ClaimKey

LEMMA BroadcastMarks ==
  ASSUME TypeInv, NEW key, NEW answer, Broadcast(key, answer), NEW other \in Keys
  PROVE  tx'[other] \in {tx[other], "signed", "pending"}
BY DEF Broadcast, TypeInv

LEMMA TxMarksStep ==
  ASSUME TypeInv, TypeInv', Grows, TxMarks, [Next]_vars
  PROVE  TxMarks'
<1>1. CASE UNCHANGED tx
  BY <1>1, TxMarksStay
<1>2. CASE SignLegs \/ \E s \in Streams : ClaimLegs(s)
  <2>1. \A key \in Keys : tx'[key] \in {tx[key], "signed", "pending"}
    BY <1>2 DEF SignLegs, ClaimLegs, TypeInv
  <2> QED
    BY <2>1, TxMarksStay
<1>3. CASE SignBroadcast \/ ClaimBroadcast
  <2>1. PICK key, answer : Broadcast(key, answer)
    BY <1>3 DEF SignBroadcast, ClaimBroadcast
  <2>2. \A other \in Keys : tx'[other] \in {tx[other], "signed", "pending"}
    BY <2>1, BroadcastMarks
  <2> QED
    BY <2>2, TxMarksStay
<1>4. \/ UNCHANGED tx \/ SignLegs \/ SignBroadcast \/ ClaimBroadcast
      \/ \E s \in Streams : ClaimLegs(s)
      \/ \E e \in Epoch, k \in 0 .. MaxToken : MineSign(e, k)
      \/ \E e \in Epoch, s \in Streams : MineClaim(e, s)
  BY DEF Next, vars, Environment, Daemon, Failure, NextEpoch, Publish, Finalize,
         Outlives, CoolsOff, Start, BeginCycle, SkipCooling, ReadRewards, SignConfirm,
         ClaimConfirm, EndCycle, Report, Crash, Recreate, Halt, BeginFails, ReadFails,
         PublicationUnread, SignConfirmFails, ClaimConfirmFails, AbortCycle, world
<1> QED
  BY <1>1, <1>2, <1>3, <1>4, MineSignMarks, MineClaimMarks

(* Nothing but the cycle's own steps moves the watermarks.                 *)
LEMMA DiskMarksStep ==
  ASSUME TypeInv, TypeInv', Grows, DiskMarks, CycleMarks, [Next]_vars
  PROVE  DiskMarks'
<1>1. /\ lastDone \in Int \cup {None} /\ lastDone' \in Int \cup {None}
      /\ status \in StatusType \cup {None} /\ status' \in StatusType \cup {None}
  BY DEF TypeInv, DiskOK
<1>2. ASSUME status' # None, status'.lastDone # None, status' = status
      PROVE  \A e \in Epoch : floor' < e /\ e <= status'.lastDone => Settled(e)'
  BY <1>1, <1>2, SettledUpToStays DEF DiskMarks, SettledUpTo, StatusType
<1>3. ASSUME lastDone' # None, lastDone' = lastDone
      PROVE  \A e \in Epoch : floor' < e /\ e <= lastDone' => Settled(e)'
  BY <1>1, <1>3, SettledUpToStays DEF DiskMarks, SettledUpTo
<1>4. CASE UNCHANGED <<lastDone, status>>
  BY <1>2, <1>3, <1>4 DEF DiskMarks, SettledUpTo
<1>5. CASE Start
  <2>1. CASE FromEpoch # None
    <3>1. floor' >= lastDone'
      BY <1>5, <2>1, DomainAssumption DEF Start, Higher, TypeInv, DiskOK
    <3>2. \A e \in Epoch : floor' < e /\ e <= lastDone' => Settled(e)'
      BY <3>1, <1>1, <1>5, <2>1, BoundsAssumption, DomainAssumption DEF Start, TypeInv, DiskOK
    <3> QED
      BY <1>2, <1>5, <3>2 DEF Start, DiskMarks, SettledUpTo
  <2>2. CASE FromEpoch = None
    <3>1. lastDone' # None => status # None /\ status' = status /\ lastDone' = status.lastDone
      BY <1>5, <2>2 DEF Start
    <3> QED
      BY <1>2, <1>5, <3>1 DEF Start, DiskMarks, SettledUpTo
  <2> QED
    BY <2>1, <2>2
<1>6. CASE EndCycle
  <2>1. lastDone' = cyc.newDone /\ status' = status /\ cyc.newDone \in Int \cup {None}
    BY <1>6 DEF EndCycle, TypeInv, LocalsOK, CycleType
  <2>2. cyc.newDone # None /\ SettledUpTo(cyc.newDone)
    BY <1>6 DEF EndCycle, CycleMarks, Busy
  <2>3. \A e \in Epoch : floor' < e /\ e <= cyc.newDone => Settled(e)'
    BY <2>1, <2>2, SettledUpToStays DEF SettledUpTo
  <2> QED
    BY <1>2, <2>1, <2>3 DEF DiskMarks, SettledUpTo
<1>7. CASE Report
  <2>1. lastDone' = lastDone /\ status'.lastDone = lastDone
    BY <1>7 DEF Report
  <2> QED
    BY <1>3, <2>1 DEF DiskMarks, SettledUpTo
<1>8. CASE Crash \/ Recreate
  <2>1. lastDone' = None /\ (status' = status \/ status' = None)
    BY <1>8 DEF Crash, Recreate, Halt
  <2> QED
    BY <1>2, <2>1 DEF DiskMarks, SettledUpTo
<1>9. UNCHANGED <<lastDone, status>> \/ Start \/ EndCycle \/ Report \/ Crash \/ Recreate
  BY DEF Next, vars, Environment, Daemon, Failure, NextEpoch, Publish, Finalize, MineSign,
         MineClaim, Outlives, CoolsOff, BeginCycle, SkipCooling, ReadRewards, SignLegs,
         SignBroadcast, SignConfirm, ClaimLegs, ClaimBroadcast, ClaimConfirm, BeginFails,
         ReadFails, PublicationUnread, SignConfirmFails, ClaimConfirmFails, AbortCycle,
         disk, world
<1> QED
  BY <1>4, <1>5, <1>6, <1>7, <1>8, <1>9

TurnMarks == CycleMarks /\ ClaimMarks /\ TokenMarks

(* The end of a turn: only a settled epoch may be reported done.           *)
LEMMA SettleMarks ==
  ASSUME TypeInv, TypeInv', Grows, CycleMarks, Busy, cyc.ep \in Epoch,
         NEW done \in BOOLEAN, NEW terminal \in BOOLEAN, SettleEpoch(done, terminal),
         done => Settled(cyc.ep)
  PROVE  TurnMarks'
<1>1. /\ pc' = "scan" /\ cyc'.ep = cyc.ep + 1
      /\ cyc'.newDone = (IF done /\ cyc.advancing THEN cyc.ep ELSE cyc.newDone)
      /\ cyc'.advancing = (cyc.advancing /\ done)
  BY SettleFields DEF TypeInv
<1>2. cyc.newDone # None /\ cyc.newDone \in Int /\ SettledUpTo(cyc.newDone)
  BY DEF CycleMarks, TypeInv, LocalsOK, CycleType
<1>3. cyc'.advancing \/ (done /\ cyc.advancing) =>
        \A e \in Epoch : floor' < e /\ e <= cyc.ep => Settled(e)'
  <2>1. ASSUME done, cyc.advancing, NEW e \in Epoch, floor < e, e <= cyc.ep
        PROVE  Settled(e)
    <3>1. SettledUpTo(cyc.ep - 1)
      BY <2>1 DEF CycleMarks
    <3> QED
      BY <2>1, <3>1, BoundsAssumption DEF SettledUpTo
  <2>2. cyc.ep \in Int
    BY BoundsAssumption
  <2> QED
    BY <1>1, <2>1, <2>2, SettledUpToStays
<1>4. \A e \in Epoch : floor' < e /\ e <= cyc.newDone => Settled(e)'
  BY <1>2, SettledUpToStays DEF SettledUpTo
<1>5. CycleMarks'
  <2>1. cyc'.newDone # None
    BY <1>1, <1>2, DomainAssumption, BoundsAssumption
  <2>2. \A e \in Epoch : floor' < e /\ e <= cyc'.newDone => Settled(e)'
    BY <1>1, <1>3, <1>4
  <2>3. cyc'.ep - 1 = cyc.ep
    BY <1>1, BoundsAssumption
  <2> QED
    BY <1>3, <2>1, <2>2, <2>3 DEF CycleMarks, SettledUpTo
<1> QED
  BY <1>1, <1>5 DEF TurnMarks, ClaimMarks, TokenMarks, Claiming

(* A step that keeps the cycle's watermark and place in the window.        *)
LEMMA CycleMarksStay ==
  ASSUME TypeInv, TypeInv', Grows, CycleMarks, Busy,
         cyc'.ep = cyc.ep, cyc'.newDone = cyc.newDone, cyc'.advancing = cyc.advancing
  PROVE  CycleMarks'
<1>1. cyc.newDone # None /\ cyc.newDone \in Int /\ SettledUpTo(cyc.newDone) /\ cyc.ep - 1 \in Int
  BY DEF CycleMarks, TypeInv, LocalsOK, CycleType
<1>2. \A e \in Epoch : floor' < e /\ e <= cyc.newDone => Settled(e)'
  BY <1>1, SettledUpToStays DEF SettledUpTo
<1>3. cyc.advancing => \A e \in Epoch : floor' < e /\ e <= cyc.ep - 1 => Settled(e)'
  BY <1>1, SettledUpToStays DEF CycleMarks, SettledUpTo
<1> QED
  BY <1>1, <1>2, <1>3 DEF CycleMarks, SettledUpTo

LEMMA EnterMarks ==
  ASSUME TypeInv, TypeInv', Grows, CycleMarks, Busy, EnterClaims, cyc.ep \in finalized
  PROVE  TurnMarks'
<1>1. /\ pc' = "claim" /\ cyc'.todo = Streams /\ cyc'.ep = cyc.ep
      /\ cyc'.newDone = cyc.newDone /\ cyc'.advancing = cyc.advancing
  BY DEF EnterClaims, TypeInv, LocalsOK, CycleType
<1>2. CycleMarks'
  BY <1>1, CycleMarksStay
<1>3. ClaimMarks' /\ TokenMarks'
  BY <1>1 DEF ClaimMarks, TokenMarks, Grows
<1> QED
  BY <1>2, <1>3 DEF TurnMarks

LEMMA FinishSignMarks ==
  ASSUME TypeInv, TypeInv', Grows, CycleMarks,
         pc \in {"sign", "signBroadcast", "signConfirm"}, NEW outcome, FinishSign(outcome),
         outcome = "already-finalized" => cyc.ep \in finalized
  PROVE  TurnMarks'
<1>1. Busy /\ cyc.ep \in Epoch
  BY TurnInEpoch DEF Busy, InTurn, TypeInv
<1>2. \/ EnterClaims /\ cyc.ep \in finalized
      \/ SettleEpoch(FALSE, TRUE) \/ SettleEpoch(FALSE, FALSE)
      \/ SettleEpoch(FALSE, retries[cyc.ep] + 1 >= MaxSignRetries)
  BY DEF FinishSign
<1>3. (retries[cyc.ep] + 1 >= MaxSignRetries) \in BOOLEAN
  OBVIOUS
<1>4. ASSUME NEW terminal \in BOOLEAN, SettleEpoch(FALSE, terminal) PROVE TurnMarks'
  BY <1>1, <1>4, SettleMarks
<1>5. CASE EnterClaims /\ cyc.ep \in finalized
  BY <1>1, <1>5, EnterMarks
<1> QED
  BY <1>2, <1>3, <1>4, <1>5, Zenon

LEMMA FinishClaimMarks ==
  ASSUME TypeInv, TypeInv', Grows, CycleMarks, ClaimMarks, Claiming,
         NEW s \in Streams, s \in cyc.todo, NEW outcome, FinishClaim(s, outcome),
         outcome \in ClaimDone => ClaimedBy(s, cyc.ep)
  PROVE  TurnMarks'
<1> DEFINE all == cyc.allDone /\ outcome \in ClaimDone
           bad == cyc.anyTerminal \/ outcome = "failed-terminal"
<1>1. Busy /\ cyc.ep \in Epoch /\ cyc.ep \in finalized
  BY TurnInEpoch DEF Busy, InTurn, Claiming, ClaimMarks, TypeInv
<1>2. all \in BOOLEAN /\ bad \in BOOLEAN
  OBVIOUS
<1>3. all => \A t \in Streams \ (cyc.todo \ {s}) : ClaimedBy(t, cyc.ep)
  BY DEF ClaimMarks
<1>4. \/ cyc.todo \ {s} = {} /\ SettleEpoch(all, bad)
      \/ /\ pc' = "claim"
         /\ cyc' = [cyc EXCEPT !.todo = cyc.todo \ {s}, !.stream = None,
                               !.allDone = all, !.anyTerminal = bad]
  BY DEF FinishClaim
<1> HIDE DEF all, bad
<1>5. CASE cyc.todo \ {s} = {} /\ SettleEpoch(all, bad)
  <2>1. all => Settled(cyc.ep)
    BY <1>1, <1>3, <1>5 DEF Settled
  <2> QED
    BY <1>1, <1>2, <1>5, <2>1, SettleMarks
<1>6. CASE /\ pc' = "claim"
           /\ cyc' = [cyc EXCEPT !.todo = cyc.todo \ {s}, !.stream = None,
                                 !.allDone = all, !.anyTerminal = bad]
  <2>1. cyc \in CycleType
    BY DEF TypeInv, LocalsOK
  <2>2. /\ cyc'.ep = cyc.ep /\ cyc'.newDone = cyc.newDone /\ cyc'.advancing = cyc.advancing
        /\ cyc'.todo = cyc.todo \ {s} /\ cyc'.allDone = all
    BY <1>6, <2>1 DEF CycleType
  <2>3. CycleMarks'
    BY <1>1, <2>2, CycleMarksStay
  <2>4. ASSUME cyc'.allDone, NEW t \in Streams \ cyc'.todo PROVE ClaimedBy(t, cyc.ep)'
    <3>1. ClaimedBy(t, cyc.ep)
      BY <1>3, <2>2, <2>4
    <3> QED
      BY <1>1, <2>2, <3>1, BoundsAssumption DEF ClaimedBy, Grows, TypeInv, ChainOK
  <2>5. ClaimMarks' /\ TokenMarks'
    BY <1>1, <1>6, <2>2, <2>4 DEF ClaimMarks, TokenMarks, Grows
  <2> QED
    BY <2>3, <2>5 DEF TurnMarks
<1> QED
  BY <1>4, <1>5, <1>6

LEMMA SignStepMarks ==
  ASSUME TypeInv, TypeInv', Grows, MarkInv, SignLegs \/ SignBroadcast \/ SignConfirm
  PROVE  TurnMarks'
<1>1. CycleMarks /\ TokenMarks /\ TxMarks
  BY DEF MarkInv
<1>2. CASE SignLegs
  <2>1. ASSUME NEW outcome, FinishSign(outcome),
               outcome = "already-finalized" => cyc.ep \in finalized
        PROVE  TurnMarks'
    BY <1>1, <1>2, <2>1, FinishSignMarks DEF SignLegs
  <2>2. CASE pc' = "signBroadcast" /\ UNCHANGED <<cyc, retries, auto>>
    <3>1. CycleMarks'
      BY <1>1, <1>2, <2>2, CycleMarksStay DEF SignLegs, Busy, InTurn
    <3> QED
      BY <1>2, <2>2, <3>1 DEF SignLegs, TurnMarks, ClaimMarks, TokenMarks, Claiming
  <2>3. \/ cyc.ep \in finalized /\ FinishSign("already-finalized")
        \/ FinishSign("failed-terminal") \/ FinishSign("failed-retryable")
        \/ pc' = "signBroadcast" /\ UNCHANGED <<cyc, retries, auto>>
    BY <1>2 DEF SignLegs
  <2> QED
    BY <2>1, <2>2, <2>3
<1>3. CASE SignBroadcast
  <2>1. ASSUME NEW outcome, FinishSign(outcome), outcome # "already-finalized"
        PROVE  TurnMarks'
    BY <1>1, <1>3, <2>1, FinishSignMarks DEF SignBroadcast
  <2>2. CASE pc' = "signConfirm" /\ UNCHANGED <<cyc, retries, auto>>
    <3>1. CycleMarks'
      BY <1>1, <1>3, <2>2, CycleMarksStay DEF SignBroadcast, Busy, InTurn
    <3> QED
      BY <1>1, <1>3, <2>2, <3>1 DEF SignBroadcast, TurnMarks, ClaimMarks, TokenMarks, Claiming
  <2>3. \/ FinishSign("failed-terminal") \/ FinishSign("failed-retryable")
        \/ pc' = "signConfirm" /\ UNCHANGED <<cyc, retries, auto>>
    BY <1>3 DEF SignBroadcast
  <2> QED
    BY <2>1, <2>2, <2>3
<1>4. CASE SignConfirm
  <2>1. ASSUME tx[MySignKey] = "finalRevert" PROVE cyc.ep \in finalized
    <3>1. cyc.ep \in Epoch /\ retries[cyc.ep] \in 0 .. MaxToken
      BY <1>1, <1>4, TurnInEpoch, BoundsAssumption
         DEF SignConfirm, TokenMarks, InTurn, TypeInv, LocalsOK
    <3> QED
      BY <1>1, <2>1, <3>1 DEF TxMarks, MySignKey
  <2>2. PICK outcome : /\ FinishSign(outcome)
                       /\ outcome = "already-finalized" => tx[MySignKey] = "finalRevert"
    BY <1>4 DEF SignConfirm
  <2> QED
    BY <1>1, <1>4, <2>1, <2>2, FinishSignMarks DEF SignConfirm
<1> QED
  BY <1>2, <1>3, <1>4

LEMMA ClaimStepMarks ==
  ASSUME TypeInv, TypeInv', Grows, MarkInv,
         ClaimBroadcast \/ ClaimConfirm \/ \E s \in Streams : ClaimLegs(s)
  PROVE  TurnMarks'
<1>1. CycleMarks /\ ClaimMarks /\ TxMarks
  BY DEF MarkInv
<1>2. Claiming /\ cyc.ep \in Epoch /\ cyc.ep \in finalized
  BY <1>1, TurnInEpoch DEF Claiming, InTurn, ClaimMarks, ClaimBroadcast, ClaimConfirm, ClaimLegs,
                           TypeInv
<1>3. pc \in {"claimBroadcast", "claimConfirm"} => cyc.stream \in Streams /\ cyc.stream \in cyc.todo
  BY DEF TypeInv, LocalsOK, CycleType
<1>4. ASSUME NEW s \in Streams, ClaimLegs(s) PROVE TurnMarks'
  <2>1. s \in cyc.todo /\ pc = "claim"
    BY <1>4 DEF ClaimLegs
  <2>2. ASSUME NEW outcome, FinishClaim(s, outcome),
               outcome \in ClaimDone => ClaimedBy(s, cyc.ep)
        PROVE  TurnMarks'
    BY <1>1, <1>2, <2>1, <2>2, FinishClaimMarks
  <2>3. CASE pc' = "claimBroadcast" /\ cyc' = [cyc EXCEPT !.stream = s]
    <3>1. /\ cyc'.ep = cyc.ep /\ cyc'.newDone = cyc.newDone /\ cyc'.advancing = cyc.advancing
          /\ cyc'.todo = cyc.todo /\ cyc'.allDone = cyc.allDone
      BY <2>3 DEF TypeInv, LocalsOK, CycleType
    <3>2. CycleMarks'
      BY <1>1, <2>1, <3>1, CycleMarksStay DEF Busy, InTurn
    <3>3. ClaimMarks'
      BY <1>1, <1>2, <1>4, <3>1 DEF ClaimLegs, ClaimMarks, ClaimedBy, chain, ledger
    <3> QED
      BY <2>3, <3>2, <3>3 DEF TurnMarks, TokenMarks
  <2>4. \/ \E outcome \in {"failed-terminal", "failed-retryable"} : FinishClaim(s, outcome)
        \/ FinishClaim(s, "nothing-claimable") /\ ClaimedBy(s, cyc.ep)
        \/ pc' = "claimBroadcast" /\ cyc' = [cyc EXCEPT !.stream = s]
    BY <1>2, <1>4 DEF ClaimLegs, Unclaimable, ClaimedBy, Fault
  <2> QED
    BY <2>2, <2>3, <2>4 DEF ClaimDone
<1>5. CASE ClaimBroadcast
  <2>1. CASE pc' = "claimConfirm" /\ UNCHANGED cyc
    <3>1. CycleMarks'
      BY <1>1, <1>2, <2>1, CycleMarksStay DEF Busy, InTurn, Claiming
    <3>2. ClaimMarks'
      BY <1>1, <1>2, <1>5, <2>1 DEF ClaimBroadcast, ClaimMarks, ClaimedBy, chain, ledger
    <3> QED
      BY <2>1, <3>1, <3>2 DEF TurnMarks, TokenMarks
  <2>2. ASSUME NEW outcome \in {"failed-terminal", "failed-retryable"},
               FinishClaim(cyc.stream, outcome)
        PROVE  TurnMarks'
    BY <1>1, <1>2, <1>3, <1>5, <2>2, FinishClaimMarks DEF ClaimBroadcast, ClaimDone
  <2>3. \/ pc' = "claimConfirm" /\ UNCHANGED cyc
        \/ \E outcome \in {"failed-terminal", "failed-retryable"} :
             FinishClaim(cyc.stream, outcome)
    BY <1>5 DEF ClaimBroadcast
  <2> QED
    BY <2>1, <2>2, <2>3
<1>6. CASE ClaimConfirm
  <2>1. PICK outcome : /\ FinishClaim(cyc.stream, outcome)
                       /\ outcome \in ClaimDone => tx[MyClaimKey] = "mined"
    BY <1>6 DEF ClaimConfirm, ClaimDone
  <2>2. tx[MyClaimKey] = "mined" => ClaimedBy(cyc.stream, cyc.ep)
    BY <1>1, <1>2, <1>3, <1>6 DEF ClaimConfirm, TxMarks, MyClaimKey, ClaimedBy
  <2> QED
    BY <1>1, <1>2, <1>3, <1>6, <2>1, <2>2, FinishClaimMarks DEF ClaimConfirm
<1> QED
  BY <1>4, <1>5, <1>6

LEMMA ReadMarks ==
  ASSUME TypeInv, TypeInv', Grows, MarkInv, SkipCooling \/ ReadRewards \/ PublicationUnread
  PROVE  TurnMarks'
<1>1. CycleMarks /\ Busy /\ cyc.ep \in Epoch
  BY ScanInEpoch DEF MarkInv, Busy, SkipCooling, ReadRewards, PublicationUnread, Scanning, TypeInv
<1>2. \/ SettleEpoch(FALSE, FALSE)
      \/ cyc.ep \in finalized /\ EnterClaims
      \/ pc' = "sign" /\ UNCHANGED cyc
  BY DEF SkipCooling, ReadRewards, PublicationUnread
<1>3. CASE SettleEpoch(FALSE, FALSE)
  BY <1>1, <1>3, SettleMarks
<1>4. CASE cyc.ep \in finalized /\ EnterClaims
  BY <1>1, <1>4, EnterMarks
<1>5. CASE pc' = "sign" /\ UNCHANGED cyc
  <2>1. CycleMarks'
    BY <1>1, <1>5, CycleMarksStay
  <2> QED
    BY <1>5, <2>1 DEF TurnMarks, ClaimMarks, TokenMarks, Claiming
<1> QED
  BY <1>2, <1>3, <1>4, <1>5

(* A cycle starts at an epoch below which all is settled or skipped.       *)
LEMMA BeginMarks ==
  ASSUME TypeInv, TypeInv', Grows, MarkInv, BeginCycle
  PROVE  TurnMarks'
<1>1. /\ pc' = "scan" /\ cyc'.ep = WindowStart /\ cyc'.newDone = Base
      /\ Base \in Int /\ WindowStart \in Nat /\ WindowStart >= Base + 1
  BY BoundsAssumption DEF BeginCycle, Idle, Base, WindowStart, Higher, TypeInv, ChainOK, DiskOK
<1>2. \A e \in Epoch : floor' < e /\ e <= WindowStart - 1 => Settled(e)'
  <2>1. CASE lastDone = None \/ WindowStart > Base + 1
    <3>1. floor' >= WindowStart - 1
      BY <1>1, <2>1 DEF BeginCycle, Higher, TypeInv, DiskOK
    <3> QED
      BY <1>1, <3>1, BoundsAssumption DEF TypeInv, DiskOK
  <2>2. CASE lastDone # None /\ ~(WindowStart > Base + 1)
    <3>1. WindowStart - 1 = lastDone /\ lastDone \in Int
      BY <1>1, <2>2 DEF Base, TypeInv, DiskOK
    <3> QED
      BY <2>2, <3>1, SettledUpToStays DEF MarkInv, DiskMarks, SettledUpTo
  <2> QED
    BY <2>1, <2>2
<1>3. CycleMarks'
  <2>1. cyc'.newDone # None
    BY <1>1, DomainAssumption
  <2>2. SettledUpTo(cyc.ep - 1)'
    BY <1>1, <1>2 DEF SettledUpTo
  <2>3. SettledUpTo(cyc.newDone)'
    BY <1>1, <1>2, BoundsAssumption DEF SettledUpTo
  <2> QED
    BY <2>1, <2>2, <2>3 DEF CycleMarks
<1> QED
  BY <1>1, <1>3 DEF TurnMarks, ClaimMarks, TokenMarks, Claiming
(* The world moves, the cycle in progress does not.                        *)
LEMMA EnvironmentMarks ==
  ASSUME TypeInv, TypeInv', Grows, MarkInv, UNCHANGED <<pc, cyc, retries>>
  PROVE  TurnMarks'
<1>1. CycleMarks'
  <2>1. CASE Busy
    BY <2>1, CycleMarksStay DEF MarkInv
  <2>2. CASE ~Busy
    BY <2>2 DEF CycleMarks, Busy, InTurn
  <2> QED
    BY <2>1, <2>2
<1>2. ClaimMarks'
  <2>1. ASSUME Claiming, cyc.allDone, NEW s \in Streams \ cyc.todo
        PROVE  ClaimedBy(s, cyc.ep)'
    <3>1. ClaimedBy(s, cyc.ep) /\ cyc.ep \in Epoch
      BY <2>1, TurnInEpoch DEF MarkInv, ClaimMarks, TypeInv, InTurn, Claiming
    <3> QED
      BY <3>1, BoundsAssumption DEF ClaimedBy, Grows, TypeInv, ChainOK
  <2>2. Claiming => cyc.ep \in finalized'
    BY DEF MarkInv, ClaimMarks, Grows
  <2> QED
    BY <2>1, <2>2 DEF ClaimMarks, Claiming
<1>3. TokenMarks'
  BY DEF MarkInv, TokenMarks
<1> QED
  BY <1>1, <1>2, <1>3 DEF TurnMarks

LEMMA TurnMarksStep ==
  ASSUME TypeInv, TypeInv', Grows, MarkInv, [Next]_vars
  PROVE  TurnMarks'
<1>1. CASE UNCHANGED <<pc, cyc, retries>>
  BY <1>1, EnvironmentMarks
<1>2. CASE pc' \in {"down", "sleep", "report"}
  BY <1>2 DEF TurnMarks, CycleMarks, ClaimMarks, TokenMarks, Busy, InTurn, Claiming
<1>3. \/ UNCHANGED <<pc, cyc, retries>>
      \/ pc' \in {"down", "sleep", "report"}
      \/ BeginCycle
      \/ SkipCooling \/ ReadRewards \/ PublicationUnread
      \/ SignLegs \/ SignBroadcast \/ SignConfirm
      \/ ClaimBroadcast \/ ClaimConfirm \/ \E s \in Streams : ClaimLegs(s)
  BY DEF Next, vars, Environment, Daemon, Failure, NextEpoch, Publish, Finalize, MineSign,
         MineClaim, Outlives, CoolsOff, Start, EndCycle, Report, Crash, Recreate, Halt,
         BeginFails, ReadFails, SignConfirmFails, ClaimConfirmFails, AbortCycle, world
<1> QED
  BY <1>1, <1>2, <1>3, BeginMarks, ReadMarks, SignStepMarks, ClaimStepMarks

LEMMA InitMarks == Init => MarkInv
<1> SUFFICES ASSUME Init PROVE MarkInv
  OBVIOUS
<1>1. TxMarks
  <2>1. ASSUME NEW key \in Keys PROVE tx[key] = "none"
    BY <2>1 DEF Init
  <2> QED
    BY <2>1 DEF TxMarks, Keys, SignKeys, ClaimKeys
<1> QED
  BY <1>1 DEF Init, MarkInv, DiskMarks, CycleMarks, ClaimMarks, TokenMarks, Busy, InTurn, Claiming

LEMMA NextMarks == TypeInv /\ MarkInv /\ [Next]_vars => MarkInv'
<1> SUFFICES ASSUME TypeInv, MarkInv, [Next]_vars PROVE MarkInv'
  OBVIOUS
<1>1. TypeInv' /\ Grows
  BY NextType, StepGrows
<1>2. TxMarks'
  BY <1>1, TxMarksStep DEF MarkInv
<1>3. DiskMarks'
  BY <1>1, DiskMarksStep DEF MarkInv
<1>4. TurnMarks'
  BY <1>1, TurnMarksStep
<1> QED
  BY <1>2, <1>3, <1>4 DEF MarkInv, TurnMarks

LEMMA MarksHold == Spec => [](TypeInv /\ MarkInv)
<1>1. Init => TypeInv /\ MarkInv
  BY InitType, InitMarks
<1>2. TypeInv /\ MarkInv /\ [Next]_vars => (TypeInv /\ MarkInv)'
  BY NextType, NextMarks
<1> QED
  BY <1>1, <1>2, PTL DEF Spec

(* Whatever fails, crashes or is delayed, and however often, the watermark *)
(* run_cycle persists never passes an epoch the network has not finalized. *)
THEOREM WatermarkIsFinalized == Spec => []WatermarkFinalized
<1>1. TypeInv /\ MarkInv => WatermarkFinalized
  BY DEF WatermarkFinalized, Covers, MarkInv, DiskMarks, SettledUpTo, Settled
<1> QED
  BY <1>1, MarksHold, PTL

(* As long as no published reward data is misread, the watermark run_cycle *)
(* persists only passes epochs whose every reward of ours lies behind the  *)
(* claim pointer; every other failure, crash and delay is allowed.         *)
THEOREM WatermarkIsSettled ==
  ASSUME "data" \notin Faults
  PROVE  Spec => []WatermarkSettled
<1>1. TypeInv /\ MarkInv => WatermarkSettled
  BY DEF WatermarkSettled, Covers, Handled, MarkInv, DiskMarks, SettledUpTo, Settled, ClaimedBy
<1> QED
  BY <1>1, MarksHold, PTL
-----------------------------------------------------------------------------
(***************************************************************************)
(* The order of the watermarks: persisted, in memory, being built.         *)
(***************************************************************************)
OrderInv ==
  /\ Busy => /\ cyc.newDone < cyc.ep
             /\ lastDone # None => lastDone <= cyc.newDone
  /\ pc # "down" /\ status # None /\ status.lastDone # None =>
       lastDone # None /\ lastDone >= status.lastDone

Ordered == TypeInv /\ MarkInv /\ OrderInv

(* Every step of an epoch's turn ends the turn, or keeps the cycle's place *)
(* and its mark.                                                           *)
Settles == \E done \in BOOLEAN, terminal \in BOOLEAN : SettleEpoch(done, terminal)
Keeps == pc' # "down" /\ cyc'.ep = cyc.ep /\ cyc'.newDone = cyc.newDone

(* A turn's end moves the mark being built to the epoch, or not at all.    *)
LEMMA SettleOrder ==
  ASSUME Ordered, Busy, cyc.ep \in Epoch, NEW done \in BOOLEAN, NEW terminal \in BOOLEAN,
         SettleEpoch(done, terminal), UNCHANGED <<lastDone, status>>
  PROVE  OrderInv'
<1>1. /\ pc' = "scan" /\ cyc'.ep = cyc.ep + 1
      /\ cyc'.newDone = (IF done /\ cyc.advancing THEN cyc.ep ELSE cyc.newDone)
  BY SettleFields DEF Ordered, TypeInv
<1>2. /\ cyc.newDone \in Int /\ lastDone \in Int \cup {None}
      /\ cyc.newDone < cyc.ep
      /\ lastDone # None => lastDone <= cyc.newDone
  BY DEF Ordered, OrderInv, MarkInv, CycleMarks, TypeInv, LocalsOK, DiskOK, CycleType
<1>3. status # None /\ status.lastDone # None => lastDone # None /\ lastDone >= status.lastDone
  BY DEF Ordered, OrderInv, Busy, InTurn
<1> QED
  BY <1>1, <1>2, <1>3, BoundsAssumption DEF OrderInv, Busy

LEMMA TurnOrder ==
  ASSUME Ordered, Busy, cyc.ep \in Epoch, UNCHANGED <<lastDone, status>>, Settles \/ Keeps
  PROVE  OrderInv'
<1>1. CASE Settles
  BY <1>1, SettleOrder DEF Settles
<1>2. CASE Keeps
  BY <1>2 DEF Keeps, Ordered, OrderInv, Busy, InTurn
<1> QED
  BY <1>1, <1>2

LEMMA EnterKeeps == ASSUME LocalsOK, EnterClaims PROVE Keeps
BY DEF EnterClaims, LocalsOK, CycleType, Keeps

LEMMA FinishSignShape ==
  ASSUME LocalsOK, NEW outcome, FinishSign(outcome)
  PROVE  Settles \/ Keeps
<1>1. \/ EnterClaims
      \/ SettleEpoch(FALSE, TRUE) \/ SettleEpoch(FALSE, FALSE)
      \/ SettleEpoch(FALSE, retries[cyc.ep] + 1 >= MaxSignRetries)
  BY DEF FinishSign
<1>2. (retries[cyc.ep] + 1 >= MaxSignRetries) \in BOOLEAN
  OBVIOUS
<1>3. ASSUME NEW terminal \in BOOLEAN, SettleEpoch(FALSE, terminal) PROVE Settles
  BY <1>3, Zenon DEF Settles
<1> QED
  BY <1>1, <1>2, <1>3, EnterKeeps, Zenon

LEMMA FinishClaimShape ==
  ASSUME LocalsOK, NEW s, NEW outcome, FinishClaim(s, outcome)
  PROVE  Settles \/ Keeps
<1> DEFINE all == cyc.allDone /\ outcome \in ClaimDone
           bad == cyc.anyTerminal \/ outcome = "failed-terminal"
<1>1. all \in BOOLEAN /\ bad \in BOOLEAN
  OBVIOUS
<1>2. \/ SettleEpoch(all, bad)
      \/ /\ pc' = "claim"
         /\ cyc' = [cyc EXCEPT !.todo = cyc.todo \ {s}, !.stream = None,
                               !.allDone = all, !.anyTerminal = bad]
  BY DEF FinishClaim
<1> HIDE DEF all, bad
<1>3. CASE SettleEpoch(all, bad)
  BY <1>1, <1>3, Zenon DEF Settles
<1>4. CASE /\ pc' = "claim"
           /\ cyc' = [cyc EXCEPT !.todo = cyc.todo \ {s}, !.stream = None,
                                 !.allDone = all, !.anyTerminal = bad]
  BY <1>4 DEF LocalsOK, CycleType, Keeps
<1> QED
  BY <1>2, <1>3, <1>4
LEMMA TurnShape ==
  ASSUME LocalsOK,
         \/ SkipCooling \/ ReadRewards \/ PublicationUnread
         \/ SignLegs \/ SignBroadcast \/ SignConfirm
         \/ ClaimBroadcast \/ ClaimConfirm \/ \E s \in Streams : ClaimLegs(s)
  PROVE  /\ Busy /\ cyc.ep \in Epoch /\ UNCHANGED <<lastDone, status>>
         /\ Settles \/ Keeps
<1>1. Busy /\ cyc.ep \in Epoch /\ UNCHANGED <<lastDone, status>>
  BY TurnInEpoch, ScanInEpoch
     DEF Busy, InTurn, SkipCooling, ReadRewards, PublicationUnread, Scanning, SignLegs, SignBroadcast,
         SignConfirm, ClaimBroadcast, ClaimConfirm, ClaimLegs, disk
<1> SUFFICES Settles \/ Keeps
  BY <1>1
<1>2. CASE SkipCooling \/ ReadRewards \/ PublicationUnread
  <2>1. \/ SettleEpoch(FALSE, FALSE)
        \/ EnterClaims
        \/ pc' = "sign" /\ UNCHANGED cyc
    BY <1>2 DEF SkipCooling, ReadRewards, PublicationUnread
  <2>2. CASE SettleEpoch(FALSE, FALSE)
    BY <2>2, Zenon DEF Settles
  <2>3. CASE pc' = "sign" /\ UNCHANGED cyc
    BY <2>3 DEF Keeps
  <2> QED
    BY <2>1, <2>2, <2>3, EnterKeeps
<1>3. CASE SignLegs \/ SignBroadcast \/ SignConfirm
  <2>1. \/ \E outcome : FinishSign(outcome)
        \/ pc' \in {"signBroadcast", "signConfirm"} /\ UNCHANGED cyc
    BY <1>3 DEF SignLegs, SignBroadcast, SignConfirm
  <2>2. ASSUME NEW outcome, FinishSign(outcome) PROVE Settles \/ Keeps
    BY <2>2, FinishSignShape
  <2>3. CASE pc' \in {"signBroadcast", "signConfirm"} /\ UNCHANGED cyc
    BY <2>3 DEF Keeps
  <2> QED
    BY <2>1, <2>2, <2>3
<1>4. CASE ClaimBroadcast \/ ClaimConfirm
  <2>1. \/ \E outcome : FinishClaim(cyc.stream, outcome)
        \/ pc' = "claimConfirm" /\ UNCHANGED cyc
    BY <1>4 DEF ClaimBroadcast, ClaimConfirm
  <2>2. ASSUME NEW outcome, FinishClaim(cyc.stream, outcome) PROVE Settles \/ Keeps
    BY <2>2, FinishClaimShape
  <2>3. CASE pc' = "claimConfirm" /\ UNCHANGED cyc
    BY <2>3 DEF Keeps
  <2> QED
    BY <2>1, <2>2, <2>3
<1>5. ASSUME NEW s \in Streams, ClaimLegs(s) PROVE Settles \/ Keeps
  <2>1. \/ \E outcome : FinishClaim(s, outcome)
        \/ pc' = "claimBroadcast" /\ cyc' = [cyc EXCEPT !.stream = s]
    BY <1>5 DEF ClaimLegs
  <2>2. CASE pc' = "claimBroadcast" /\ cyc' = [cyc EXCEPT !.stream = s]
    BY <2>2 DEF LocalsOK, CycleType, Keeps
  <2> QED
    BY <2>1, <2>2, FinishClaimShape
<1> QED
  BY <1>1, <1>2, <1>3, <1>4, <1>5

LEMMA NextOrder ==
  ASSUME Ordered, [Next]_vars, FromEpoch = None
  PROVE  OrderInv'
<1>1. /\ lastDone \in Int \cup {None}
      /\ status \in StatusType \cup {None}
  BY DEF Ordered, TypeInv, DiskOK
<1>2. CASE UNCHANGED <<pc, cyc, lastDone, status>>
  BY <1>2 DEF Ordered, OrderInv, Busy, InTurn
<1>3. CASE Start
  BY <1>1, <1>3 DEF Start, OrderInv, Busy, InTurn, StatusType
<1>4. CASE BeginCycle
  <2>1. /\ pc' = "scan" /\ cyc'.ep = WindowStart /\ cyc'.newDone = Base
        /\ UNCHANGED <<lastDone, status>> /\ pc = "sleep"
        /\ lastDone # None => lastDone = Base
        /\ WindowStart >= Base + 1 /\ Base \in Int /\ WindowStart \in Int
    BY <1>4, BoundsAssumption
       DEF BeginCycle, Idle, Base, WindowStart, Higher, Ordered, TypeInv, ChainOK, DiskOK
  <2> QED
    BY <1>1, <2>1 DEF Ordered, OrderInv, Busy, InTurn
<1>5. CASE EndCycle
  <2>1. /\ cyc.newDone \in Int
        /\ lastDone # None => lastDone <= cyc.newDone
        /\ status # None /\ status.lastDone # None =>
             lastDone # None /\ lastDone >= status.lastDone
    BY <1>5 DEF EndCycle, Ordered, OrderInv, MarkInv, CycleMarks, Busy, TypeInv, LocalsOK, CycleType
  <2>2. pc' = "report" /\ lastDone' = cyc.newDone /\ status' = status
    BY <1>5 DEF EndCycle
  <2> QED
    BY <1>1, <2>1, <2>2, DomainAssumption DEF OrderInv, Busy, InTurn, StatusType
<1>6. CASE Report
  BY <1>1, <1>6 DEF Report, OrderInv, Busy, InTurn
<1>7. CASE pc' = "down"
  BY <1>7 DEF OrderInv, Busy, InTurn
<1>8. CASE pc' = "report" /\ pc # "down" /\ UNCHANGED <<lastDone, status>>
  BY <1>8 DEF Ordered, OrderInv, Busy, InTurn
<1>9. CASE \/ SkipCooling \/ ReadRewards \/ PublicationUnread
           \/ SignLegs \/ SignBroadcast \/ SignConfirm
           \/ ClaimBroadcast \/ ClaimConfirm \/ \E s \in Streams : ClaimLegs(s)
  BY <1>9, TurnShape, TurnOrder DEF Ordered, TypeInv
<1> QED
  <2>1. \/ UNCHANGED <<pc, cyc, lastDone, status>>
        \/ Start \/ BeginCycle \/ EndCycle \/ Report \/ pc' = "down"
        \/ pc' = "report" /\ pc # "down" /\ UNCHANGED <<lastDone, status>>
        \/ SkipCooling \/ ReadRewards \/ PublicationUnread
        \/ SignLegs \/ SignBroadcast \/ SignConfirm
        \/ ClaimBroadcast \/ ClaimConfirm \/ \E s \in Streams : ClaimLegs(s)
    BY DEF Next, vars, Environment, Daemon, Failure, NextEpoch, Publish, Finalize, MineSign,
           MineClaim, Outlives, CoolsOff, Crash, Recreate, Halt, BeginFails, ReadFails, Scanning,
           SignConfirmFails, ClaimConfirmFails, AbortCycle, disk, world
  <2> QED
    BY <1>2, <1>3, <1>4, <1>5, <1>6, <1>7, <1>8, <1>9, <2>1

(* Restarted as often as you like without --from-epoch, the daemon never   *)
(* persists a watermark (write_status_atomic) below the one it had.        *)
THEOREM WatermarkAdvances ==
  ASSUME FromEpoch = None
  PROVE  Spec => WatermarkNeverRewinds
<1>1. Init => Ordered
  BY InitType, InitMarks DEF Ordered, OrderInv, Init, Busy, InTurn
<1>2. Ordered /\ [Next]_vars => Ordered'
  BY NextType, NextMarks, NextOrder DEF Ordered
<1>3. Ordered /\ [Next]_vars =>
        [status # None /\ status' # None /\ status.lastDone # None
           => status'.lastDone # None /\ status'.lastDone >= status.lastDone]_status
  <2> SUFFICES ASSUME Ordered, [Next]_vars, status' # status, status # None, status' # None,
                      status.lastDone # None
               PROVE  status'.lastDone # None /\ status'.lastDone >= status.lastDone
    OBVIOUS
  <2>1. Report
    BY DEF Next, vars, Environment, Daemon, Failure, NextEpoch, Publish, Finalize, MineSign,
           MineClaim, Outlives, CoolsOff, Start, BeginCycle, SkipCooling, ReadRewards, SignLegs,
           SignBroadcast, SignConfirm, ClaimLegs, ClaimBroadcast, ClaimConfirm, EndCycle, Crash,
           Recreate, Halt, BeginFails, ReadFails, PublicationUnread, SignConfirmFails,
           ClaimConfirmFails, AbortCycle, disk, world
  <2> QED
    BY <2>1 DEF Report, Ordered, OrderInv
<1> QED
  BY <1>1, <1>2, <1>3, PTL DEF Spec, WatermarkNeverRewinds
-----------------------------------------------------------------------------
(***************************************************************************)
(* Terminal failures stay loud.  observe() sees a cooling epoch at the end *)
(* of the cycle that recorded it, unless an RpcError aborts that cycle.    *)
(***************************************************************************)
Seen == IF Busy THEN Tracked(auto) \cup cyc.active ELSE Tracked(auto)

LoudInv ==
  /\ pc = "down" => auto.cooling = {}
  /\ auto.cooling \subseteq Seen
  /\ Busy => ~(cyc.allDone /\ cyc.anyTerminal)
  /\ TerminalIsLoud

(* A turn may end in a terminal failure only when it leaves its epoch in   *)
(* the active set.                                                         *)
LEMMA SettleLoud ==
  ASSUME TypeInv, LoudInv, Busy, NEW done \in BOOLEAN, NEW terminal \in BOOLEAN,
         SettleEpoch(done, terminal), ~(done /\ terminal)
  PROVE  LoudInv'
<1>1. /\ pc' = "scan" /\ cyc'.active = (IF done THEN cyc.active ELSE cyc.active \cup {cyc.ep})
      /\ cyc'.allDone = TRUE /\ cyc'.anyTerminal = FALSE
  BY DEF SettleEpoch, TypeInv, LocalsOK, CycleType
<1>2. auto' = IF terminal THEN RecordTerminal(auto, cyc.ep) ELSE auto
  BY DEF SettleEpoch
<1>3. /\ auto'.seen = auto.seen
      /\ auto'.cooling = (IF terminal THEN auto.cooling \cup {cyc.ep} ELSE auto.cooling)
  BY <1>2 DEF RecordTerminal, TypeInv, LocalsOK, AutoType
<1>4. auto.cooling \subseteq Tracked(auto) \cup cyc.active
  BY DEF LoudInv, Seen
<1>5. Tracked(auto') = Tracked(auto)
  BY <1>3 DEF Tracked
<1>6. auto'.cooling \subseteq Tracked(auto') \cup cyc'.active
  BY <1>1, <1>3, <1>4, <1>5
<1> QED
  BY <1>1, <1>6 DEF LoudInv, Seen, TerminalIsLoud, Busy

(* A step within a turn that leaves the stream alone.                      *)
LEMMA LoudStays ==
  ASSUME LoudInv, Busy, pc' \in PC \ {"down", "sleep", "report"}, UNCHANGED auto,
         cyc'.active = cyc.active, ~(cyc'.allDone /\ cyc'.anyTerminal)
  PROVE  LoudInv'
<1>1. Busy'
  BY DEF Busy, InTurn, PC
<1>2. Seen' = Seen
  BY <1>1 DEF Seen
<1> QED
  BY <1>1, <1>2 DEF LoudInv, TerminalIsLoud

LEMMA EnterLoud ==
  ASSUME TypeInv, LoudInv, Busy, EnterClaims
  PROVE  LoudInv'
<1>1. /\ pc' = "claim" /\ UNCHANGED auto /\ cyc'.active = cyc.active
      /\ cyc'.allDone = cyc.allDone /\ cyc'.anyTerminal = cyc.anyTerminal
  BY DEF EnterClaims, TypeInv, LocalsOK, CycleType
<1> QED
  BY <1>1, LoudStays DEF LoudInv, PC

LEMMA FinishSignLoud ==
  ASSUME TypeInv, LoudInv, Busy, NEW outcome, FinishSign(outcome)
  PROVE  LoudInv'
<1>1. \/ EnterClaims
      \/ SettleEpoch(FALSE, TRUE) \/ SettleEpoch(FALSE, FALSE)
      \/ SettleEpoch(FALSE, retries[cyc.ep] + 1 >= MaxSignRetries)
  BY DEF FinishSign
<1>2. (retries[cyc.ep] + 1 >= MaxSignRetries) \in BOOLEAN
  OBVIOUS
<1>3. ASSUME NEW terminal \in BOOLEAN, SettleEpoch(FALSE, terminal) PROVE LoudInv'
  BY <1>3, SettleLoud
<1> QED
  BY <1>1, <1>2, <1>3, EnterLoud, Zenon

LEMMA FinishClaimLoud ==
  ASSUME TypeInv, LoudInv, Busy, NEW s, NEW outcome, FinishClaim(s, outcome)
  PROVE  LoudInv'
<1> DEFINE all == cyc.allDone /\ outcome \in ClaimDone
           bad == cyc.anyTerminal \/ outcome = "failed-terminal"
<1>1. all \in BOOLEAN /\ bad \in BOOLEAN
  OBVIOUS
<1>2. ~(all /\ bad)
  BY DEF LoudInv, ClaimDone
<1>3. \/ SettleEpoch(all, bad)
      \/ /\ pc' = "claim" /\ UNCHANGED auto
         /\ cyc' = [cyc EXCEPT !.todo = cyc.todo \ {s}, !.stream = None,
                               !.allDone = all, !.anyTerminal = bad]
  BY DEF FinishClaim
<1> HIDE DEF all, bad
<1>4. CASE SettleEpoch(all, bad)
  BY <1>1, <1>2, <1>4, SettleLoud
<1>5. CASE /\ pc' = "claim" /\ UNCHANGED auto
           /\ cyc' = [cyc EXCEPT !.todo = cyc.todo \ {s}, !.stream = None,
                                 !.allDone = all, !.anyTerminal = bad]
  <2>1. cyc'.active = cyc.active /\ cyc'.allDone = all /\ cyc'.anyTerminal = bad
    BY <1>5 DEF TypeInv, LocalsOK, CycleType
  <2> QED
    BY <1>2, <1>5, <2>1, LoudStays DEF PC
<1> QED
  BY <1>3, <1>4, <1>5
LEMMA TurnLoud ==
  ASSUME TypeInv, LoudInv,
         \/ SkipCooling \/ ReadRewards \/ PublicationUnread
         \/ SignLegs \/ SignBroadcast \/ SignConfirm
         \/ ClaimBroadcast \/ ClaimConfirm \/ \E s \in Streams : ClaimLegs(s)
  PROVE  LoudInv'
<1>1. Busy
  BY DEF Busy, InTurn, SkipCooling, ReadRewards, PublicationUnread, Scanning, SignLegs, SignBroadcast,
         SignConfirm, ClaimBroadcast, ClaimConfirm, ClaimLegs
<1>2. ASSUME pc' \in {"sign", "signBroadcast", "signConfirm", "claimConfirm"},
             UNCHANGED <<cyc, auto>>
      PROVE  LoudInv'
  BY <1>1, <1>2, LoudStays DEF LoudInv, PC
<1>3. CASE SkipCooling \/ ReadRewards \/ PublicationUnread
  <2>1. \/ SettleEpoch(FALSE, FALSE)
        \/ EnterClaims
        \/ pc' = "sign" /\ UNCHANGED <<cyc, auto>>
    BY <1>3 DEF SkipCooling, ReadRewards, PublicationUnread
  <2> QED
    BY <1>1, <1>2, <2>1, SettleLoud, EnterLoud
<1>4. CASE SignLegs \/ SignBroadcast \/ SignConfirm
  <2>1. \/ \E outcome : FinishSign(outcome)
        \/ pc' \in {"signBroadcast", "signConfirm"} /\ UNCHANGED <<cyc, auto>>
    BY <1>4 DEF SignLegs, SignBroadcast, SignConfirm
  <2> QED
    BY <1>1, <1>2, <2>1, FinishSignLoud
<1>5. CASE ClaimBroadcast \/ ClaimConfirm
  <2>1. \/ \E outcome : FinishClaim(cyc.stream, outcome)
        \/ pc' = "claimConfirm" /\ UNCHANGED <<cyc, auto>>
    BY <1>5 DEF ClaimBroadcast, ClaimConfirm
  <2> QED
    BY <1>1, <1>2, <2>1, FinishClaimLoud
<1>6. ASSUME NEW s \in Streams, ClaimLegs(s) PROVE LoudInv'
  <2>1. \/ \E outcome : FinishClaim(s, outcome)
        \/ pc' = "claimBroadcast" /\ cyc' = [cyc EXCEPT !.stream = s] /\ UNCHANGED auto
    BY <1>6 DEF ClaimLegs
  <2>2. CASE pc' = "claimBroadcast" /\ cyc' = [cyc EXCEPT !.stream = s] /\ UNCHANGED auto
    <3>1. /\ cyc'.active = cyc.active /\ cyc'.allDone = cyc.allDone
          /\ cyc'.anyTerminal = cyc.anyTerminal
      BY <2>2 DEF TypeInv, LocalsOK, CycleType
    <3> QED
      BY <1>1, <2>2, <3>1, LoudStays DEF LoudInv, PC
  <2> QED
    BY <1>1, <2>1, <2>2, FinishClaimLoud
<1> QED
  BY <1>3, <1>4, <1>5, <1>6

LEMMA EndCycleLoud ==
  ASSUME TypeInv, LoudInv, EndCycle
  PROVE  LoudInv'
<1>1. /\ pc' = "report" /\ auto' = Observe(auto, cyc.active)
      /\ cyc.active \subseteq Epoch /\ DOMAIN auto.seen = Epoch
      /\ auto.cooling \subseteq Tracked(auto) \cup cyc.active
  BY DEF EndCycle, LoudInv, Seen, Busy, TypeInv, LocalsOK, CycleType, AutoType
<1>2. auto'.cooling \subseteq cyc.active
  BY <1>1 DEF Observe
<1>3. \A e \in cyc.active : e \in DOMAIN auto'.seen /\ auto'.seen[e] # "unseen"
  BY <1>1 DEF Observe
<1>4. cyc.active \subseteq Tracked(auto')
  BY <1>3 DEF Tracked
<1> QED
  BY <1>1, <1>2, <1>4 DEF LoudInv, Seen, Busy, InTurn, TerminalIsLoud

LEMMA ReportLoud ==
  ASSUME TypeInv, LoudInv, Report
  PROVE  LoudInv'
<1>1. /\ pc' = "sleep" /\ UNCHANGED auto /\ status'.degraded = Degraded(auto)
      /\ auto.cooling \subseteq Tracked(auto)
  BY DEF Report, LoudInv, Seen, Busy, InTurn
<1>2. status' # None
  <2>1. lastDone \in Int \cup {None} /\ Degraded(auto) \in BOOLEAN
    BY DEF TypeInv, DiskOK, Degraded
  <2> QED
    BY <2>1, DomainAssumption DEF Report
<1>3. auto.cooling # {} => Degraded(auto)
  BY <1>1 DEF Degraded, InCooldown
<1> QED
  BY <1>1, <1>2, <1>3 DEF LoudInv, Seen, Busy, InTurn, TerminalIsLoud

LEMMA TimeLoud ==
  ASSUME TypeInv, LoudInv, NEW e \in Epoch, Outlives(e) \/ CoolsOff(e)
  PROVE  LoudInv'
<1>1. /\ pc \in {"sleep", "report"} /\ UNCHANGED <<pc, cyc, status>>
      /\ auto'.cooling \subseteq auto.cooling /\ DOMAIN auto'.seen = Epoch
      /\ \A f \in Epoch : auto.seen[f] # "unseen" => auto'.seen[f] # "unseen"
      /\ DOMAIN auto.seen = Epoch
  BY DEF Outlives, CoolsOff, Outlive, CoolOff, disk, TypeInv, LocalsOK, AutoType
<1>2. Tracked(auto) \subseteq Tracked(auto')
  BY <1>1 DEF Tracked
<1> QED
  BY <1>1, <1>2 DEF LoudInv, Seen, Busy, InTurn, TerminalIsLoud

LEMMA NextLoud ==
  ASSUME TypeInv, LoudInv, [Next]_vars, "rpc" \notin Faults
  PROVE  LoudInv'
<1>1. CASE UNCHANGED <<pc, cyc, auto, status>>
  <2>1. Busy' = Busy /\ Seen' = Seen
    BY <1>1 DEF Busy, InTurn, Seen
  <2> QED
    BY <1>1, <2>1 DEF LoudInv, TerminalIsLoud
<1>2. CASE Start
  BY <1>2 DEF Start, LoudInv, Seen, Busy, InTurn, TerminalIsLoud
<1>3. CASE BeginCycle
  <2>1. /\ pc' = "scan" /\ UNCHANGED auto /\ cyc'.allDone = TRUE /\ cyc'.anyTerminal = FALSE
        /\ auto.cooling \subseteq Tracked(auto)
    BY <1>3 DEF BeginCycle, Idle, LoudInv, Seen, Busy, InTurn
  <2> QED
    BY <2>1 DEF LoudInv, Seen, Busy, InTurn, TerminalIsLoud
<1>4. CASE Halt
  <2>1. pc' = "down" /\ auto'.cooling = {}
    BY <1>4 DEF Halt, NewStream
  <2> QED
    BY <2>1 DEF LoudInv, Seen, Busy, InTurn, TerminalIsLoud
<1> QED
  <2>1. \/ UNCHANGED <<pc, cyc, auto, status>> \/ Start \/ BeginCycle \/ Halt \/ EndCycle \/ Report
        \/ \E e \in Epoch : Outlives(e) \/ CoolsOff(e)
        \/ SkipCooling \/ ReadRewards \/ PublicationUnread
        \/ SignLegs \/ SignBroadcast \/ SignConfirm
        \/ ClaimBroadcast \/ ClaimConfirm \/ \E s \in Streams : ClaimLegs(s)
    BY DEF Next, vars, Environment, Daemon, Failure, NextEpoch, Publish, Finalize, MineSign,
           MineClaim, Crash, Recreate, BeginFails, ReadFails, SignConfirmFails,
           ClaimConfirmFails, AbortCycle, Fault, disk, world
  <2> QED
    BY <1>1, <1>2, <1>3, <1>4, <2>1, EndCycleLoud, ReportLoud, TimeLoud, TurnLoud

(* As long as no RpcError aborts a cycle between record_terminal() and     *)
(* observe(), the status file says DEGRADED until the cooldown of every    *)
(* terminal failure has ended.                                             *)
THEOREM TerminalStaysLoud ==
  ASSUME "rpc" \notin Faults
  PROVE  Spec => []TerminalIsLoud
<1>1. Init => TypeInv /\ LoudInv
  <2> SUFFICES ASSUME Init PROVE LoudInv
    BY InitType
  <2>1. pc = "down" /\ auto.cooling = {}
    BY DEF Init, NewStream
  <2> QED
    BY <2>1 DEF LoudInv, Seen, Busy, InTurn, TerminalIsLoud
<1>2. TypeInv /\ LoudInv /\ [Next]_vars => (TypeInv /\ LoudInv)'
  BY NextType, NextLoud
<1>3. LoudInv => TerminalIsLoud
  BY DEF LoudInv
<1> QED
  BY <1>1, <1>2, <1>3, PTL DEF Spec
============================================================================
