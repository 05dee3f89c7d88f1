------------------------ MODULE LegacyDaemonsProofs ------------------------
(***************************************************************************)
(* The two legacy daemons, for every number of epochs, streams and faults: *)
(* the types; that the signing daemon's one watermark passes no epoch whose*)
(* uptime vote was not attempted; that its report shows every terminal     *)
(* failure of the cycle; and that what the claim daemon logs as claimed    *)
(* was paid, expired or not read.                                          *)
(***************************************************************************)
EXTENDS LegacyDaemons, OrderLemmas, FiniteSetTheorems

TxRecord ==
  [st : {"none", "signed", "released", "pending", "loose", "mined", "reverted"},
   epochs : SUBSET Epoch, nonce : Nat]

(* The chain; what is final is an initial segment of the epochs.           *)
ChainType ==
  /\ current \in Epoch /\ published \subseteq Epoch /\ final \in [MessageType -> SUBSET Epoch]
  /\ votes \subseteq MessageType \X Epoch /\ pointer \in [Streams -> 0 .. MaxEpoch + 1]
  /\ lapsed \subseteq Epoch \X Streams /\ faults \in 0 .. MaxFaults
  /\ tx \in [ClaimKey -> TxRecord] /\ fwdNonce \in Nat /\ paid \subseteq Entitled
  /\ \A mt \in MessageType : \A e \in final[mt] : 0 .. e \subseteq final[mt]

Settled(e, s) == <<e, s>> \in paid \cup lapsed

(* Every reward of the stream up to last is in the batch or settled.       *)
Covers(epochs, last, s) ==
  /\ \A x \in epochs : <<x, s>> \in Entitled
  /\ \A x \in 0 .. last : <<x, s>> \in Entitled => x \in epochs \/ Settled(x, s)

(* Why the pointer may move to the end of a batch: fwd's transactions leave*)
(* out no reward below their key's epoch, and below the pointer all is     *)
(* settled.                                                                *)
PointerOK ==
  /\ \A e \in Epoch, s \in Streams : tx[<<e, s>>].st # "none" => Covers(tx[<<e, s>>].epochs, e, s)
  /\ \A s \in Streams : \A x \in 0 .. (pointer[s] - 1) : <<x, s>> \in Entitled => Settled(x, s)

ClaimType ==
  /\ cpc \in {"down", "sleep", "collect", "sign", "broadcast", "confirm"}
  /\ ctodo \subseteq Streams /\ cauto \in [Streams -> AutoStates] /\ cstatus \in Report
  /\ batch \in [stream : {None} \cup Streams, epochs : SUBSET Epoch, last : -1 .. MaxEpoch]
  /\ confirmed \subseteq Epoch \X Streams

(* What the claim daemon holds while it submits, and what it tracks.       *)
ClaimOK ==
  /\ cpc \in {"sign", "broadcast", "confirm"} =>
       batch.stream \in Streams /\ batch.last \in Epoch
       /\ Covers(batch.epochs, batch.last, batch.stream)
  /\ cpc \in {"broadcast", "confirm"} => Mine.st # "none"
  /\ \A s \in Streams : \A e \in Tracked(cauto[s]) :
       <<e, s>> \in Entitled /\ e \in final["REWARD_DISTRIBUTION"]
  /\ GoneIsClaimed

FspType ==
  /\ fpc \in {"down", "sleep", "sign", "send", "receipt", "report"}
  /\ watermark \in {None} \cup FromEpochs \cup 0 .. current
  /\ first \in {None} \cup FromEpochs \cup 0 .. current
  /\ closed \subseteq 0 .. (current - 1) /\ work \in [mt : MessageType, left : SUBSET closed]
  /\ fauto \in [MessageType -> AutoStates] /\ fstatus \in Report
  /\ vtx \in [MessageType \X Epoch -> {"none", "signed", "pending", "mined", "reverted"}]
  /\ tried \subseteq MessageType \X Epoch /\ tripped \subseteq tried
  /\ fpc \in {"send", "receipt"} => work.left # {}

(* What lies below a closed epoch was tried, unless its turn is to come;   *)
(* what cools down was tried.                                              *)
TriedOK ==
  /\ first = None <=> watermark = None
  /\ fpc \in {"sign", "send", "receipt"} => first # None
  /\ fpc \in {"down", "sleep"} => closed = {}
  /\ \A mt \in MessageType : \A e \in fauto[mt].cooling : <<mt, e>> \in tried
  /\ first # None =>
       \A d \in closed : \A e \in first .. d :
         <<"UPTIME", e>> \in tried \/ (work.mt = "UPTIME" /\ e \in work.left)
  /\ UptimeTried

(* A terminal failure of the running cycle is in the memory evaluate()     *)
(* looks at, both as outstanding and as cooling down.                      *)
TrippedOK ==
  /\ fpc = "down" => tripped = {}
  /\ fpc \in {"sign", "send", "receipt"} =>
       /\ work.left \subseteq Tracked(fauto[work.mt])
       /\ work.mt = "UPTIME" => \A v \in tripped : v[1] = "UPTIME"
  /\ fpc \in {"sign", "send", "receipt", "report"} =>
       \A v \in tripped : v[2] \in Tracked(fauto[v[1]]) /\ v[2] \in fauto[v[1]].cooling
  /\ TerminalReported
-----------------------------------------------------------------------------
(***************************************************************************)
(* AutoState: what each of its operations leaves tracked and cooling.      *)
(***************************************************************************)
LEMMA NewStreamFacts ==
  NewStream(Epoch) \in AutoStates /\ Tracked(NewStream(Epoch)) = {} /\ NewStream(Epoch).cooling = {}
BY DEF NewStream, Tracked, AutoStates, SeenAge

LEMMA ObserveFacts ==
  ASSUME NEW st \in AutoStates, NEW active, active \subseteq Epoch
  PROVE  /\ Observe(st, active) \in AutoStates
         /\ Tracked(Observe(st, active)) = active
         /\ Observe(st, active).cooling \subseteq st.cooling
<1>1. st.seen \in [Epoch -> SeenAge] /\ st.cooling \subseteq Epoch
  BY DEF AutoStates
<1>2. /\ Observe(st, active).seen \in [Epoch -> SeenAge]
      /\ \A e \in Epoch : Observe(st, active).seen[e] # "unseen" <=> e \in active
  BY <1>1 DEF Observe, SeenAge
<1>3. Observe(st, active).cooling \subseteq st.cooling
  BY DEF Observe
<1>4. Observe(st, active) \in AutoStates
  BY <1>1, <1>2, <1>3 DEF Observe, AutoStates
<1>5. Tracked(Observe(st, active)) = active
  BY <1>2 DEF Tracked
<1> QED
  BY <1>3, <1>4, <1>5

LEMMA RecordTerminalFacts ==
  ASSUME NEW st \in AutoStates, NEW e \in Epoch
  PROVE  /\ RecordTerminal(st, e) \in AutoStates
         /\ Tracked(RecordTerminal(st, e)) = Tracked(st)
         /\ RecordTerminal(st, e).cooling = st.cooling \cup {e}
BY DEF RecordTerminal, Tracked, AutoStates

LEMMA CoolOffFacts ==
  ASSUME NEW st \in AutoStates, NEW e
  PROVE  /\ CoolOff(st, e) \in AutoStates
         /\ Tracked(CoolOff(st, e)) = Tracked(st)
         /\ CoolOff(st, e).cooling \subseteq st.cooling
BY DEF CoolOff, Tracked, AutoStates

LEMMA OutliveFacts ==
  ASSUME NEW st \in AutoStates, NEW e \in Epoch, st.seen[e] = "fresh"
  PROVE  /\ Outlive(st, e) \in AutoStates
         /\ Tracked(Outlive(st, e)) = Tracked(st)
BY DEF Outlive, Tracked, AutoStates, SeenAge

LEMMA FaultType ==
  ASSUME ChainType, NEW kind
  PROVE  (Fault(kind) => faults' \in 0 .. MaxFaults) /\ (NoFault => faults' \in 0 .. MaxFaults)
BY ChainAssumption DEF ChainType, Fault, NoFault
-----------------------------------------------------------------------------
(***************************************************************************)
(* The chain.                                                              *)
(***************************************************************************)
(* What never goes back: epochs, what is final, what is settled, and the   *)
(* keys fwd has seen.                                                      *)
ChainGrows ==
  /\ current \in Epoch /\ current' \in Epoch /\ current <= current'
  /\ final["REWARD_DISTRIBUTION"] \subseteq final'["REWARD_DISTRIBUTION"]
  /\ paid \subseteq paid' /\ lapsed \subseteq lapsed'
  /\ \A k \in ClaimKey : tx[k].st # "none" => tx'[k].st # "none"

LEMMA CoversGrows ==
  ASSUME paid \subseteq paid', lapsed \subseteq lapsed', NEW epochs, NEW last, NEW s,
         Covers(epochs, last, s)
  PROVE  Covers(epochs, last, s)'
BY DEF Covers, Settled

LEMMA ChainInitOK == ChainInit => ChainType /\ PointerOK
<1>1. 0 \in Epoch /\ 0 \in 0 .. MaxEpoch + 1 /\ 0 \in 0 .. MaxFaults
  BY ChainAssumption DEF Epoch
<1>3. NoTx \in TxRecord
  BY DEF NoTx, TxRecord
<1>4. ASSUME ChainInit PROVE ChainType
  BY <1>1, <1>3, <1>4 DEF ChainInit, ChainType, MessageType
<1>5. ASSUME ChainInit PROVE PointerOK
  BY <1>5 DEF ChainInit, PointerOK, NoTx, ClaimKey
<1> QED
  BY <1>4, <1>5

(* A claim that is mined: the contract's own bookkeeping.                  *)
LEMMA MineClaimOK ==
  ASSUME ChainType, PointerOK, NEW e \in Epoch, NEW s \in Streams, MineClaim(e, s)
  PROVE  ChainType' /\ PointerOK' /\ ChainGrows
<1> DEFINE k == <<e, s>>
<1>0. /\ k \in ClaimKey /\ tx[k] \in TxRecord /\ tx[k].st # "none" /\ tx[k].epochs \subseteq Epoch
      /\ Covers(tx[k].epochs, e, s) /\ e \in 0 .. MaxEpoch /\ MaxEpoch \in Nat
  BY ChainAssumption DEF ClaimKey, ChainType, PointerOK, MineClaim, InPool, TxRecord, Epoch
<1>1. UNCHANGED <<chainVars, votes, fwdNonce, lapsed>> /\ faults' \in 0 .. MaxFaults
  BY FaultType DEF MineClaim
<1>2. ASSUME NEW st \in {"mined", "reverted"}, tx' = [tx EXCEPT ![k].st = st]
      PROVE  /\ tx' \in [ClaimKey -> TxRecord]
             /\ \A j \in ClaimKey : tx'[j].epochs = tx[j].epochs /\ (tx'[j].st # "none" <=> tx[j].st # "none")
  BY <1>0, <1>2 DEF ChainType, TxRecord
<1>3. CASE /\ tx' = [tx EXCEPT ![k].st = "mined"]
           /\ paid' = paid \cup {<<d, s>> : d \in {x \in tx[k].epochs : x >= pointer[s]}}
           /\ pointer' = [pointer EXCEPT ![s] = IF e >= @ THEN e + 1 ELSE @]
  <2>1. paid \subseteq paid' /\ paid' \subseteq Entitled
    BY <1>0, <1>3 DEF Covers, ChainType
  <2>2. pointer' \in [Streams -> 0 .. MaxEpoch + 1]
    BY <1>0, <1>3 DEF ChainType
  <2>3. ASSUME NEW t \in Streams, NEW x \in 0 .. (pointer'[t] - 1), <<x, t>> \in Entitled
        PROVE  Settled(x, t)'
    <3>1. CASE x < pointer[t]
      <4>1. x \in 0 .. (pointer[t] - 1)
        BY <2>3, <3>1 DEF ChainType
      <4> QED
        BY <1>1, <2>1, <2>3, <4>1 DEF PointerOK, Settled
    <3>2. CASE ~(x < pointer[t])
      <4>1. t = s /\ x <= e /\ x >= pointer[s] /\ x \in 0 .. e
        BY <1>0, <1>3, <2>3, <3>2 DEF ChainType
      <4>2. x \in tx[k].epochs \/ Settled(x, s)
        BY <1>0, <2>3, <4>1 DEF Covers
      <4> QED
        BY <1>1, <1>3, <2>1, <4>1, <4>2 DEF Settled
    <3> QED
      BY <3>1, <3>2
  <2>4. ASSUME NEW d \in Epoch, NEW t \in Streams, tx'[<<d, t>>].st # "none"
        PROVE  Covers(tx[<<d, t>>].epochs, d, t)'
    <3>1. <<d, t>> \in ClaimKey
      BY DEF ClaimKey
    <3>2. tx'[<<d, t>>].epochs = tx[<<d, t>>].epochs /\ Covers(tx[<<d, t>>].epochs, d, t)
      BY <1>2, <1>3, <2>4, <3>1 DEF PointerOK
    <3> QED
      BY <1>1, <2>1, <3>2 DEF Covers, Settled
  <2>5. ChainType'
    BY <1>1, <1>2, <1>3, <2>1, <2>2 DEF ChainType, chainVars
  <2>6. PointerOK'
    BY <2>3, <2>4 DEF PointerOK
  <2>7. ChainGrows
    BY <1>1, <1>2, <1>3, <2>1, ChainAssumption DEF ChainGrows, ChainType, chainVars, Epoch
  <2> QED
    BY <2>5, <2>6, <2>7
<1>4. CASE tx' = [tx EXCEPT ![k].st = "reverted"] /\ UNCHANGED <<paid, pointer>>
  <2>1. ChainType'
    BY <1>1, <1>2, <1>4 DEF ChainType, chainVars
  <2>2. PointerOK'
    BY <1>1, <1>2, <1>4 DEF PointerOK, Covers, Settled, ClaimKey
  <2>3. ChainGrows
    BY <1>1, <1>2, <1>4, ChainAssumption DEF ChainGrows, ChainType, chainVars, Epoch
  <2> QED
    BY <2>1, <2>2, <2>3
<1> QED
  BY <1>3, <1>4 DEF MineClaim

LEMMA ChainStepOK ==
  ASSUME ChainType, PointerOK, ChainStep
  PROVE  ChainType' /\ PointerOK' /\ ChainGrows
<1>0. MaxEpoch \in Nat /\ \A e \in Epoch : e \in Nat /\ e <= MaxEpoch
  BY ChainAssumption DEF Epoch
<1>1. CASE NextEpoch
  <2>1. current' \in Epoch /\ current <= current'
    BY <1>1, ChainAssumption DEF NextEpoch, ChainType, Epoch
  <2>2. UNCHANGED <<published, final, votes, rewardVars, faults>>
    BY <1>1 DEF NextEpoch
  <2>3. ChainType'
    BY <2>1, <2>2 DEF ChainType, rewardVars
  <2> QED
    BY <2>1, <2>2, <2>3 DEF ChainType, PointerOK, ChainGrows, rewardVars, Covers, Settled
<1>2. ASSUME NEW e \in Epoch, Publish(e) PROVE ChainType' /\ PointerOK' /\ ChainGrows
  BY <1>2, <1>0 DEF Publish, ChainType, PointerOK, ChainGrows, rewardVars, Covers, Settled
<1>3. ASSUME NEW e \in Epoch, NEW mt \in MessageType, Finalize(mt, e)
      PROVE  ChainType' /\ PointerOK' /\ ChainGrows
  <2>1. /\ final' = [final EXCEPT ![mt] = @ \cup {e}] /\ final[mt] = 0 .. (e - 1)
        /\ UNCHANGED <<current, published, votes, rewardVars, faults>>
    BY <1>3 DEF Finalize
  <2>2. \A m \in MessageType : \A d \in final'[m] : 0 .. d \subseteq final'[m]
    <3>1. final'[mt] = 0 .. e
      BY <2>1, <1>0 DEF ChainType
    <3>2. \A m \in MessageType \ {mt} : final'[m] = final[m]
      BY <2>1 DEF ChainType
    <3>3. \A d \in 0 .. e : 0 .. d \subseteq 0 .. e
      BY <1>0
    <3> QED
      BY <3>1, <3>2, <3>3 DEF ChainType
  <2>3. final' \in [MessageType -> SUBSET Epoch]
    BY <2>1 DEF ChainType
  <2>4. final["REWARD_DISTRIBUTION"] \subseteq final'["REWARD_DISTRIBUTION"]
    BY <2>1 DEF ChainType, MessageType
  <2>5. ChainType'
    BY <2>1, <2>2, <2>3 DEF ChainType, rewardVars
  <2> QED
    BY <1>0, <2>1, <2>4, <2>5 DEF ChainType, PointerOK, ChainGrows, rewardVars, Covers, Settled
<1>4. ASSUME NEW s \in Streams, Expire(s) PROVE ChainType' /\ PointerOK' /\ ChainGrows
  <2>1. /\ pointer[s] < current - 1 /\ pointer' = [pointer EXCEPT ![s] = @ + 1]
        /\ lapsed' = lapsed \cup {<<pointer[s], s>>} /\ UNCHANGED <<chainVars, votes, paid, tx, fwdNonce>>
        /\ faults' \in 0 .. MaxFaults
    BY <1>4, FaultType DEF Expire
  <2>2. pointer[s] \in Nat /\ pointer[s] \in Epoch
    BY <1>0, <2>1 DEF ChainType, Epoch
  <2>3. ChainType'
    BY <1>0, <2>1, <2>2 DEF ChainType, chainVars, Epoch
  <2>4. ASSUME NEW t \in Streams, NEW x \in 0 .. (pointer'[t] - 1), <<x, t>> \in Entitled
        PROVE  Settled(x, t)'
    <3>1. x \in 0 .. (pointer[t] - 1) \/ (t = s /\ x = pointer[s])
      BY <2>1, <2>2, <2>4 DEF ChainType
    <3> QED
      BY <2>1, <2>4, <3>1 DEF PointerOK, Settled
  <2>5. PointerOK'
    BY <2>1, <2>4 DEF PointerOK, Covers, Settled
  <2> QED
    BY <1>0, <2>1, <2>3, <2>5 DEF ChainType, ChainGrows, chainVars
<1> QED
  BY <1>1, <1>2, <1>3, <1>4, MineClaimOK DEF ChainStep
-----------------------------------------------------------------------------
(***************************************************************************)
(* The claim daemon.                                                       *)
(***************************************************************************)
LEMMA ClaimInitOK == ClaimInit => ClaimType /\ ClaimOK
<1> SUFFICES ASSUME ClaimInit PROVE ClaimType /\ ClaimOK
  OBVIOUS
<1>1. ClaimType
  BY NewStreamFacts, ChainAssumption DEF ClaimInit, ClaimType, NoBatch, Report
<1>2. ClaimOK
  BY NewStreamFacts DEF ClaimInit, ClaimOK, GoneIsClaimed
<1> QED
  BY <1>1, <1>2

(* Whatever the chain and the other daemon do, it believes nothing false.  *)
LEMMA ClaimStable ==
  ASSUME ClaimType, ClaimOK, ChainGrows, UNCHANGED claimVars
  PROVE  ClaimType' /\ ClaimOK'
<1>1. ClaimType'
  BY DEF ClaimType, claimVars
<1>2. cpc \in {"sign", "broadcast", "confirm"} => Covers(batch.epochs, batch.last, batch.stream)'
  BY DEF ClaimOK, ChainGrows, Covers, Settled, claimVars
<1>3. cpc \in {"broadcast", "confirm"} => tx'[MyKey].st # "none"
  <2>1. cpc \in {"broadcast", "confirm"} => MyKey \in ClaimKey
    BY DEF ClaimOK, ClaimKey, MyKey
  <2> QED
    BY <2>1 DEF ClaimOK, ChainGrows, Mine
<1>4. (Mine.st)' = tx'[MyKey].st
  BY DEF Mine, MyKey, claimVars
<1>5. GoneIsClaimed'
  BY DEF ClaimOK, GoneIsClaimed, ChainGrows, claimVars
<1>6. \A s \in Streams : \A e \in Tracked(cauto'[s]) :
        <<e, s>> \in Entitled /\ e \in final'["REWARD_DISTRIBUTION"]
  BY DEF ClaimOK, ChainGrows, claimVars
<1> QED
  BY <1>1, <1>2, <1>3, <1>4, <1>5, <1>6 DEF ClaimOK, claimVars

(* The daemon sleeps, starts, collects or ends with what it tracks no more *)
(* than before.                                                            *)
LEMMA ClaimQuiet ==
  ASSUME ClaimType, ClaimOK, cpc' \in {"down", "sleep", "collect"},
         ctodo' \subseteq Streams, cstatus' \in Report, batch' \in {batch, NoBatch},
         cauto' \in [Streams -> AutoStates],
         \A s \in Streams : Tracked(cauto'[s]) \subseteq Tracked(cauto[s]),
         paid \subseteq paid', lapsed \subseteq lapsed', UNCHANGED <<final, confirmed>>
  PROVE  ClaimType' /\ ClaimOK'
<1>1. ClaimType'
  BY ChainAssumption DEF ClaimType, NoBatch
<1>2. GoneIsClaimed'
  BY DEF ClaimOK, GoneIsClaimed
<1>3. \A s \in Streams : \A e \in Tracked(cauto'[s]) :
        <<e, s>> \in Entitled /\ e \in final'["REWARD_DISTRIBUTION"]
  BY DEF ClaimOK
<1> QED
  BY <1>1, <1>2, <1>3 DEF ClaimOK

(* Reading an outcome.                                                     *)
LEMMA ConcludeOK ==
  ASSUME ClaimType, ClaimOK, cpc \in {"sign", "broadcast", "confirm"}, NEW terminal \in BOOLEAN,
         Conclude(terminal), UNCHANGED <<chainVars, paid, lapsed, cstatus, confirmed>>
  PROVE  ClaimType' /\ ClaimOK'
<1>1. batch.stream \in Streams /\ batch.last \in Epoch /\ cauto[batch.stream] \in AutoStates
  BY DEF ClaimOK, ClaimType
<1>2. /\ cauto' \in [Streams -> AutoStates]
      /\ \A s \in Streams : Tracked(cauto'[s]) = Tracked(cauto[s])
  <2>1. CASE cauto' = cauto
    BY <2>1 DEF ClaimType
  <2>2. CASE cauto' = [cauto EXCEPT ![batch.stream] = RecordTerminal(@, batch.last)]
    <3>1. /\ RecordTerminal(cauto[batch.stream], batch.last) \in AutoStates
          /\ Tracked(RecordTerminal(cauto[batch.stream], batch.last)) = Tracked(cauto[batch.stream])
      BY <1>1, RecordTerminalFacts
    <3> QED
      BY <2>2, <3>1 DEF ClaimType
  <2> QED
    BY <2>1, <2>2 DEF Conclude
<1>3. cpc' = "collect" /\ ctodo' \subseteq Streams /\ batch' = NoBatch
  BY DEF Conclude, Skip, ClaimType
<1>4. cstatus' \in Report /\ UNCHANGED <<final, confirmed, paid, lapsed>>
  BY DEF ClaimType, chainVars
<1> QED
  BY <1>2, <1>3, <1>4, ClaimQuiet

(* Everything the daemon does short of a discovery or a submission.        *)
LEMMA ClaimRestOK ==
  ASSUME ChainType, PointerOK, ClaimType, ClaimOK,
         \/ ClaimStart \/ ClaimCycle \/ ClaimReport \/ ClaimCrash \/ ConfirmRaises
         \/ \E s \in Streams : DiscoveryFails(s)
         \/ \E s \in Streams, e \in Epoch : ClaimCoolsOff(s, e) \/ ClaimOutlives(s, e)
  PROVE  ClaimType' /\ ClaimOK' /\ UNCHANGED <<chainVars, votes, rewardVars>> /\ faults' \in 0 .. MaxFaults
<1>0. /\ cauto \in [Streams -> AutoStates] /\ ctodo \subseteq Streams /\ cstatus \in Report
      /\ faults \in 0 .. MaxFaults
  BY DEF ClaimType, ChainType
<1>1. ASSUME UNCHANGED <<chainVars, rewardVars>>
      PROVE  paid \subseteq paid' /\ lapsed \subseteq lapsed' /\ final' = final
  BY <1>1 DEF chainVars, rewardVars
<1>2. CASE ClaimStart \/ ClaimCycle \/ ClaimReport
  <2>1. /\ cpc' \in {"sleep", "collect"} /\ ctodo' \subseteq Streams /\ cstatus' \in Report
        /\ UNCHANGED <<chainVars, votes, rewardVars, faults, batch, cauto, confirmed>>
    <3> DEFINE bad == \E s \in Streams : Degraded(cauto[s])
    <3>1. bad \in BOOLEAN
      OBVIOUS
    <3> HIDE DEF bad
    <3>2. [degraded |-> bad] \in Report
      BY <3>1 DEF Report
    <3> QED
      BY <1>0, <1>2, <3>2 DEF ClaimStart, ClaimCycle, ClaimReport, bad
  <2> QED
    BY <1>0, <1>1, <2>1, ClaimQuiet
<1>3. CASE ClaimCrash \/ ConfirmRaises
  <2>1. Vanish /\ faults' \in 0 .. MaxFaults
    BY <1>3, FaultType DEF ClaimCrash, ConfirmRaises
  <2>2. /\ cauto' \in [Streams -> AutoStates]
        /\ \A s \in Streams : Tracked(cauto'[s]) \subseteq Tracked(cauto[s])
    BY <2>1, NewStreamFacts DEF Vanish
  <2>3. /\ cpc' = "down" /\ ctodo' = {} /\ batch' = NoBatch
        /\ UNCHANGED <<chainVars, votes, rewardVars, cstatus, confirmed>>
    BY <2>1 DEF Vanish
  <2> QED
    BY <1>0, <1>1, <2>1, <2>2, <2>3, ClaimQuiet
<1>4. ASSUME NEW s \in Streams, DiscoveryFails(s)
      PROVE  /\ ClaimType' /\ ClaimOK' /\ UNCHANGED <<chainVars, votes, rewardVars>>
             /\ faults' \in 0 .. MaxFaults
  <2>1. /\ cpc' = "collect" /\ ctodo' \subseteq Streams /\ batch' = NoBatch /\ faults' \in 0 .. MaxFaults
        /\ UNCHANGED <<chainVars, votes, rewardVars, cauto, cstatus, confirmed>>
    BY <1>0, <1>4, FaultType DEF DiscoveryFails, Skip
  <2> QED
    BY <1>0, <1>1, <2>1, ClaimQuiet
<1>5. ASSUME NEW s \in Streams, NEW e \in Epoch, ClaimCoolsOff(s, e) \/ ClaimOutlives(s, e)
      PROVE  /\ ClaimType' /\ ClaimOK' /\ UNCHANGED <<chainVars, votes, rewardVars>>
             /\ faults' \in 0 .. MaxFaults
  <2>1. /\ cpc = "sleep"
        /\ UNCHANGED <<chainVars, votes, rewardVars, faults, cpc, ctodo, batch, cstatus, confirmed>>
    BY <1>5 DEF ClaimCoolsOff, ClaimOutlives
  <2>2. PICK st \in AutoStates : /\ cauto' = [cauto EXCEPT ![s] = st]
                                 /\ Tracked(st) = Tracked(cauto[s])
    BY <1>0, <1>5, CoolOffFacts, OutliveFacts DEF ClaimCoolsOff, ClaimOutlives
  <2>3. /\ cauto' \in [Streams -> AutoStates]
        /\ \A t \in Streams : Tracked(cauto'[t]) \subseteq Tracked(cauto[t])
    BY <1>0, <2>2
  <2> QED
    BY <1>0, <1>1, <2>1, <2>3, ClaimQuiet
<1> QED
  BY <1>2, <1>3, <1>4, <1>5

(* The last epoch of a batch that is not empty.                            *)
LEMMA MaxEpochOf ==
  ASSUME NEW S, S \subseteq Epoch, S # {}
  PROVE  Max(S) \in S /\ \A x \in S : Max(S) >= x
<1>1. \E m \in S : \A n \in S : m >= n
  BY GreatestOf, ChainAssumption DEF Epoch
<1> QED
  BY <1>1 DEF Max

(* A discovery: what left the claimable set was paid or expired, or is one *)
(* of the files not read; and the batch leaves nothing out.                *)
LEMMA DiscoverOK ==
  ASSUME ChainType, PointerOK, ClaimType, ClaimOK, NEW s \in Streams, Discover(s)
  PROVE  /\ ChainType' /\ PointerOK' /\ ClaimType' /\ ClaimOK'
         /\ UNCHANGED <<chainVars, votes>>
<1>1. PICK unread \in SUBSET ClaimableEpochIds(s) :
        LET epochs == CollectRewardClaims(s, unread)
            last   == IF epochs = {} THEN -1 ELSE Max(epochs)
        IN  /\ cpc = "collect" /\ s \in ctodo
            /\ IF unread = {} THEN NoFault ELSE Fault("data")
            /\ cauto' = [cauto EXCEPT ![s] = Observe(@, epochs)]
            /\ confirmed' = confirmed \cup {<<e, s>> : e \in Tracked(cauto[s]) \ epochs}
            /\ \/ (epochs = {} \/ InCooldown(cauto'[s], last)) /\ Skip(s)
               \/ /\ epochs # {} /\ ~InCooldown(cauto'[s], last) /\ cpc' = "sign"
                  /\ batch' = [stream |-> s, epochs |-> epochs, last |-> last]
                  /\ UNCHANGED ctodo
            /\ lapsed' = lapsed \cup {<<e, s>> : e \in unread}
            /\ UNCHANGED <<chainVars, votes, pointer, paid, tx, fwdNonce, cstatus>>
  BY DEF Discover
<1> DEFINE epochs == CollectRewardClaims(s, unread)
           last   == IF epochs = {} THEN -1 ELSE Max(epochs)
<1>2. /\ cauto' = [cauto EXCEPT ![s] = Observe(@, epochs)]
      /\ confirmed' = confirmed \cup {<<e, s>> : e \in Tracked(cauto[s]) \ epochs}
      /\ lapsed' = lapsed \cup {<<e, s>> : e \in unread}
      /\ UNCHANGED <<chainVars, votes, pointer, paid, tx, fwdNonce, cstatus>>
      /\ \/ Skip(s)
         \/ /\ epochs # {} /\ cpc' = "sign"
            /\ batch' = [stream |-> s, epochs |-> epochs, last |-> last]
            /\ UNCHANGED ctodo
  BY <1>1
<1>3. faults' \in 0 .. MaxFaults
  BY <1>1, FaultType
<1>4. /\ final["REWARD_DISTRIBUTION"] \subseteq Epoch
      /\ \A e \in final["REWARD_DISTRIBUTION"] : 0 .. e \subseteq final["REWARD_DISTRIBUTION"]
      /\ pointer[s] \in Nat
  BY DEF ChainType, MessageType
<1>5. \A e \in Epoch : e \in Nat
  BY ChainAssumption DEF Epoch
<1>6. /\ unread \subseteq Epoch /\ epochs \subseteq Epoch
      /\ \A e \in final["REWARD_DISTRIBUTION"] :
           <<e, s>> \in Entitled => e \in epochs \/ e \in unread \/ e < pointer[s]
      /\ \A e \in epochs : <<e, s>> \in Entitled /\ e \in final["REWARD_DISTRIBUTION"]
  BY <1>4, <1>5 DEF ClaimableEpochIds, CollectRewardClaims
<1>7. \A e \in final["REWARD_DISTRIBUTION"] : <<e, s>> \in Entitled => e \in epochs \/ Settled(e, s)'
  <2>1. ASSUME NEW e \in final["REWARD_DISTRIBUTION"], <<e, s>> \in Entitled, e < pointer[s]
        PROVE  Settled(e, s)'
    <3>1. e \in 0 .. (pointer[s] - 1)
      BY <1>4, <1>5, <2>1
    <3> QED
      BY <1>2, <2>1, <3>1 DEF PointerOK, Settled
  <2>2. ASSUME NEW e \in unread PROVE Settled(e, s)'
    BY <1>2 DEF Settled
  <2> QED
    BY <1>6, <2>1, <2>2
<1>8. paid \subseteq paid' /\ lapsed \subseteq lapsed' /\ lapsed' \subseteq Epoch \X Streams /\ final' = final
  BY <1>2, <1>6 DEF ChainType, chainVars
<1>9. ChainType'
  BY <1>2, <1>3, <1>8 DEF ChainType, chainVars
<1>10. PointerOK'
  BY <1>2, <1>8 DEF PointerOK, Covers, Settled
<1> HIDE DEF epochs
<1>11. /\ cauto' \in [Streams -> AutoStates] /\ Tracked(cauto'[s]) = epochs
       /\ \A t \in Streams \ {s} : cauto'[t] = cauto[t]
  <2>1. Observe(cauto[s], epochs) \in AutoStates /\ Tracked(Observe(cauto[s], epochs)) = epochs
    BY <1>6, ObserveFacts DEF ClaimType
  <2> QED
    BY <1>2, <2>1 DEF ClaimType
<1>12. \A t \in Streams : \A e \in Tracked(cauto'[t]) :
         <<e, t>> \in Entitled /\ e \in final'["REWARD_DISTRIBUTION"]
  <2>1. ASSUME NEW t \in Streams, NEW e \in Tracked(cauto'[t])
        PROVE  <<e, t>> \in Entitled /\ e \in final["REWARD_DISTRIBUTION"]
    <3>1. CASE t = s
      <4>1. e \in epochs
        BY <1>11, <2>1, <3>1
      <4> QED
        BY <1>6, <3>1, <4>1
    <3>2. CASE t # s
      <4>1. e \in Tracked(cauto[t])
        BY <1>11, <2>1, <3>2
      <4> QED
        BY <4>1 DEF ClaimOK
    <3> QED
      BY <3>1, <3>2
  <2> QED
    BY <1>8, <2>1
<1>13. confirmed' \subseteq Epoch \X Streams /\ GoneIsClaimed'
  <2>1. \A e \in Tracked(cauto[s]) \ epochs : e \in Epoch /\ <<e, s>> \in paid' \cup lapsed'
    BY <1>4, <1>7 DEF ClaimOK, Settled
  <2> QED
    BY <1>2, <1>8, <2>1 DEF ClaimType, ClaimOK, GoneIsClaimed
<1>14. CASE Skip(s)
  <2>1. ClaimType'
    BY <1>2, <1>11, <1>13, <1>14, ChainAssumption DEF ClaimType, Skip, NoBatch
  <2>2. ClaimOK'
    BY <1>12, <1>13, <1>14 DEF ClaimOK, Skip
  <2> QED
    BY <1>2, <1>9, <1>10, <2>1, <2>2
<1>15. CASE /\ epochs # {} /\ cpc' = "sign"
            /\ batch' = [stream |-> s, epochs |-> epochs, last |-> last] /\ UNCHANGED ctodo
  <2>1. last \in epochs
    BY <1>6, <1>15, MaxEpochOf
  <2> HIDE DEF last
  <2>2. last \in Epoch /\ last \in -1 .. MaxEpoch /\ last \in final["REWARD_DISTRIBUTION"]
    <3>1. last \in Epoch /\ last \in final["REWARD_DISTRIBUTION"]
      BY <1>6, <2>1
    <3>2. Epoch \subseteq -1 .. MaxEpoch
      BY ChainAssumption DEF Epoch
    <3> QED
      BY <3>1, <3>2
  <2>3. ClaimType'
    BY <1>2, <1>6, <1>11, <1>13, <1>15, <2>2 DEF ClaimType
  <2>4. Covers(batch.epochs, batch.last, batch.stream)'
    <3>1. \A x \in 0 .. last : <<x, s>> \in Entitled => x \in epochs \/ Settled(x, s)'
      BY <1>4, <1>7, <2>2
    <3> QED
      BY <1>6, <1>15, <3>1 DEF Covers, Settled
  <2>5. ClaimOK'
    BY <1>12, <1>13, <1>15, <2>2, <2>4 DEF ClaimOK
  <2> QED
    BY <1>2, <1>9, <1>10, <2>3, <2>5
<1> QED
  BY <1>2, <1>14, <1>15

(* The transaction of the batch being submitted changes, and it may take   *)
(* another's place in the pool.                                            *)
LEMMA SubmitTx ==
  ASSUME ChainType, PointerOK, ClaimOK, cpc \in {"sign", "broadcast", "confirm"},
         tx' \in [ClaimKey -> TxRecord],
         \/ tx'[MyKey].epochs = batch.epochs
         \/ tx[MyKey].st # "none" /\ tx'[MyKey].epochs = tx[MyKey].epochs,
         \A k \in ClaimKey \ {MyKey} :
           tx'[k].epochs = tx[k].epochs /\ (tx'[k].st # "none" => tx[k].st # "none"),
         UNCHANGED <<chainVars, votes, pointer, paid, lapsed>>,
         faults' \in 0 .. MaxFaults, fwdNonce' \in Nat
  PROVE  ChainType' /\ PointerOK'
<1>1. /\ MyKey = <<batch.last, batch.stream>>
      /\ Covers(batch.epochs, batch.last, batch.stream)
      /\ tx[MyKey].st # "none" => Covers(tx[MyKey].epochs, batch.last, batch.stream)
  BY DEF ClaimOK, MyKey, PointerOK
<1>2. ChainType'
  BY DEF ChainType, chainVars
<1>3. ASSUME NEW e \in Epoch, NEW s \in Streams, tx'[<<e, s>>].st # "none"
      PROVE  Covers(tx'[<<e, s>>].epochs, e, s)
  <2>1. CASE <<e, s>> = MyKey
    <3>1. e = batch.last /\ s = batch.stream
      BY <1>1, <2>1
    <3> QED
      BY <1>1, <2>1, <3>1
  <2>2. CASE <<e, s>> # MyKey
    <3>1. tx'[<<e, s>>].epochs = tx[<<e, s>>].epochs /\ tx[<<e, s>>].st # "none"
      BY <1>3, <2>2 DEF ClaimKey
    <3> QED
      BY <3>1 DEF PointerOK
  <2> QED
    BY <2>1, <2>2
<1>4. ASSUME NEW e \in Epoch, NEW s \in Streams, tx'[<<e, s>>].st # "none"
      PROVE  Covers(tx[<<e, s>>].epochs, e, s)'
  BY <1>3, <1>4 DEF Covers, Settled
<1>5. PointerOK'
  BY <1>4 DEF PointerOK, Settled
<1> QED
  BY <1>2, <1>5

(* The daemon goes on with its batch; fwd has seen the batch's key.        *)
LEMMA SubmitGoesOn ==
  ASSUME ClaimType, ClaimOK, cpc \in {"sign", "broadcast", "confirm"},
         cpc' \in {"broadcast", "confirm"}, tx'[MyKey].st # "none",
         UNCHANGED <<chainVars, votes, pointer, paid, lapsed, ctodo, batch, cauto, cstatus, confirmed>>
  PROVE  ClaimType' /\ ClaimOK'
<1>1. ClaimType'
  BY DEF ClaimType
<1>2. Covers(batch.epochs, batch.last, batch.stream)'
  BY DEF ClaimOK, Covers, Settled
<1>3. (Mine.st)' # "none"
  BY DEF Mine, MyKey
<1> QED
  BY <1>1, <1>2, <1>3 DEF ClaimOK, GoneIsClaimed, chainVars

(* The nonces: how many claims are on the chain, and what fwd hands out.   *)
LEMMA NonceType ==
  ASSUME ChainType, NEW k \in ClaimKey
  PROVE  /\ ChainNonce \in Nat /\ tx[k].nonce \in Nat
         /\ GiveBack(k) \/ Correct => fwdNonce' \in Nat
<1> DEFINE T == {j \in ClaimKey : tx[j].st \in {"mined", "reverted"}}
<1>1. IsFiniteSet(Epoch)
  BY ChainAssumption, FS_Interval DEF Epoch
<1>2. IsFiniteSet(ClaimKey)
  BY <1>1, ChainAssumption, FS_Product DEF ClaimKey
<1>3. T \subseteq ClaimKey
  OBVIOUS
<1>4. ChainNonce = Cardinality(T)
  BY DEF ChainNonce
<1> HIDE DEF T
<1>5. ChainNonce \in Nat
  BY <1>2, <1>3, <1>4, FS_Subset, FS_CardinalityType
<1>6. tx[k].nonce \in Nat
  BY DEF ChainType, TxRecord
<1> QED
  BY <1>5, <1>6 DEF GiveBack, Correct, ChainType

LEMMA SubmitOK ==
  ASSUME ChainType, PointerOK, ClaimType, ClaimOK,
         SignBatch \/ BroadcastBatch \/ BroadcastFails \/ ConfirmBatch
  PROVE  /\ ChainType' /\ PointerOK' /\ ClaimType' /\ ClaimOK'
         /\ UNCHANGED <<chainVars, votes>>
<1>0. /\ cpc \in {"sign", "broadcast", "confirm"}
      /\ UNCHANGED <<chainVars, votes, pointer, paid, lapsed, cstatus, confirmed>>
  BY DEF SignBatch, BroadcastBatch, BroadcastFails, ConfirmBatch, rewardVars
<1>1. faults' \in 0 .. MaxFaults
  BY FaultType DEF SignBatch, BroadcastBatch, BroadcastFails, ConfirmBatch
<1>2. /\ MyKey \in ClaimKey /\ tx[MyKey] \in TxRecord /\ Mine = tx[MyKey]
      /\ batch.epochs \subseteq Epoch /\ tx \in [ClaimKey -> TxRecord] /\ fwdNonce \in Nat
  BY <1>0 DEF ClaimOK, MyKey, ClaimKey, ChainType, Mine, ClaimType
<1>3. ASSUME NEW terminal \in BOOLEAN, Conclude(terminal) PROVE ClaimType' /\ ClaimOK'
  BY <1>0, <1>3, ConcludeOK
<1>4. ASSUME UNCHANGED tx, fwdNonce' \in Nat PROVE ChainType' /\ PointerOK'
  <2>1. ChainType'
    BY <1>0, <1>1, <1>4 DEF ChainType, chainVars
  <2>2. PointerOK'
    BY <1>0, <1>4 DEF PointerOK, Covers, Settled
  <2> QED
    BY <2>1, <2>2
<1>5. ASSUME NEW r \in TxRecord, r.st # "none", tx' = [tx EXCEPT ![MyKey] = r], fwdNonce' \in Nat,
             r.epochs = batch.epochs \/ (tx[MyKey].st # "none" /\ r.epochs = tx[MyKey].epochs)
      PROVE  ChainType' /\ PointerOK' /\ tx'[MyKey].st # "none"
  <2>1. /\ tx' \in [ClaimKey -> TxRecord] /\ tx'[MyKey] = r
        /\ \A k \in ClaimKey \ {MyKey} : tx'[k] = tx[k]
    BY <1>2, <1>5
  <2> QED
    BY <1>0, <1>1, <1>5, <2>1, SubmitTx
<1>6. ASSUME NEW st \in {"loose", "released"}, tx[MyKey].st # "none",
             tx' = [tx EXCEPT ![MyKey].st = st], fwdNonce' \in Nat
      PROVE  ChainType' /\ PointerOK' /\ tx'[MyKey].st # "none"
  <2> DEFINE r == [tx[MyKey] EXCEPT !.st = st]
  <2>1. r \in TxRecord /\ r.epochs = tx[MyKey].epochs /\ r.st # "none"
    BY <1>2 DEF TxRecord
  <2>2. tx' = [tx EXCEPT ![MyKey] = r]
    BY <1>2, <1>6
  <2> HIDE DEF r
  <2> QED
    BY <1>5, <1>6, <2>1, <2>2
<1>7. ASSUME NEW st \in {"pending", "loose"}, tx[MyKey].st # "none", Pooled(st), fwdNonce' \in Nat
      PROVE  ChainType' /\ PointerOK' /\ tx'[MyKey].st # "none"
  <2>1. /\ tx' = [k \in ClaimKey |-> tx'[k]] /\ tx'[MyKey] = [tx[MyKey] EXCEPT !.st = st]
        /\ \A k \in ClaimKey \ {MyKey} : \/ tx'[k] = tx[k]
                                         \/ tx'[k] = [tx[k] EXCEPT !.st = "released"] /\ InPool(k)
    BY <1>2, <1>7 DEF Pooled, Rivals
  <2>2. \A k \in ClaimKey : tx'[k] \in TxRecord
    BY <1>2, <2>1 DEF TxRecord
  <2>3. \A k \in ClaimKey \ {MyKey} :
          tx'[k].epochs = tx[k].epochs /\ (tx'[k].st # "none" => tx[k].st # "none")
    BY <1>2, <2>1 DEF InPool, TxRecord
  <2>4. tx'[MyKey].epochs = tx[MyKey].epochs /\ tx'[MyKey].st = st
    BY <1>2, <2>1 DEF TxRecord
  <2> QED
    BY <1>0, <1>1, <1>7, <2>1, <2>2, <2>3, <2>4, SubmitTx
<1>8. /\ UNCHANGED fwdNonce \/ GiveBack(MyKey) \/ Correct => fwdNonce' \in Nat
      /\ fwdNonce + 1 \in Nat
  BY <1>2, NonceType
<1>9. CASE SignBatch
  <2>1. CASE UNCHANGED <<tx, fwdNonce>> /\ \E terminal \in BOOLEAN : Conclude(terminal)
    BY <1>0, <1>3, <1>4, <1>8, <2>1
  <2>2. CASE Mine.st # "none" /\ cpc' = "broadcast" /\ UNCHANGED <<tx, fwdNonce, ctodo, batch, cauto>>
    <3>1. tx'[MyKey].st # "none"
      BY <1>2, <2>2
    <3> QED
      BY <1>0, <1>4, <1>8, <2>2, <3>1, SubmitGoesOn
  <2>3. CASE /\ Mine.st = "none" /\ cpc' = "broadcast" /\ fwdNonce' = fwdNonce + 1
             /\ UNCHANGED <<ctodo, batch, cauto>>
             /\ tx' = [tx EXCEPT ![MyKey] =
                         [st |-> "signed", epochs |-> batch.epochs, nonce |-> fwdNonce]]
    <3> DEFINE r == [st |-> "signed", epochs |-> batch.epochs, nonce |-> fwdNonce]
    <3>1. r \in TxRecord /\ r.epochs = batch.epochs /\ r.st # "none"
      BY <1>2 DEF TxRecord
    <3>2. tx' = [tx EXCEPT ![MyKey] = r]
      BY <2>3
    <3> HIDE DEF r
    <3>3. ChainType' /\ PointerOK' /\ tx'[MyKey].st # "none"
      BY <1>5, <1>8, <2>3, <3>1, <3>2
    <3> QED
      BY <1>0, <2>3, <3>3, SubmitGoesOn
  <2> QED
    BY <1>9, <2>1, <2>2, <2>3 DEF SignBatch
<1>10. CASE BroadcastBatch
  <2>1. tx[MyKey].st # "none"
    BY <1>2, <1>10 DEF ClaimOK, BroadcastBatch
  <2>2. PICK st \in {"pending", "loose"} : Pooled(st)
    BY <1>10 DEF BroadcastBatch
  <2>3. cpc' = "confirm" /\ UNCHANGED <<fwdNonce, ctodo, batch, cauto>>
    BY <1>10 DEF BroadcastBatch
  <2>4. ChainType' /\ PointerOK' /\ tx'[MyKey].st # "none"
    BY <1>7, <1>8, <2>1, <2>2, <2>3
  <2> QED
    BY <1>0, <2>3, <2>4, SubmitGoesOn
<1>11. CASE BroadcastFails
  <2>1. tx[MyKey].st # "none" /\ fwdNonce' \in Nat /\ \E terminal \in BOOLEAN : Conclude(terminal)
    BY <1>2, <1>8, <1>11 DEF ClaimOK, BroadcastFails
  <2>2. CASE UNCHANGED tx
    BY <1>0, <1>3, <1>4, <2>1, <2>2
  <2>3. CASE \E st \in {"loose", "released"} : tx' = [tx EXCEPT ![MyKey].st = st]
    BY <1>0, <1>3, <1>6, <2>1, <2>3
  <2>4. CASE Pooled("loose")
    BY <1>0, <1>3, <1>7, <2>1, <2>4
  <2>5. \/ UNCHANGED tx \/ Pooled("loose")
        \/ \E st \in {"loose", "released"} : tx' = [tx EXCEPT ![MyKey].st = st]
    BY <1>11 DEF BroadcastFails
  <2> QED
    BY <2>2, <2>3, <2>4, <2>5
<1>12. CASE ConfirmBatch
  <2>1. UNCHANGED <<tx, fwdNonce>> /\ \E terminal \in BOOLEAN : Conclude(terminal)
    BY <1>12 DEF ConfirmBatch, rewardVars
  <2> QED
    BY <1>0, <1>3, <1>4, <1>8, <2>1
<1> QED
  BY <1>9, <1>10, <1>11, <1>12

LEMMA ClaimNextOK ==
  ASSUME ChainType, PointerOK, ClaimType, ClaimOK, ClaimNext
  PROVE  /\ ChainType' /\ PointerOK' /\ ClaimType' /\ ClaimOK'
         /\ UNCHANGED <<chainVars, votes>>
<1>1. ASSUME UNCHANGED <<chainVars, votes, rewardVars>>, faults' \in 0 .. MaxFaults
      PROVE  ChainType' /\ PointerOK'
  <2>1. ChainType'
    BY <1>1 DEF ChainType, chainVars, rewardVars
  <2>2. PointerOK'
    BY <1>1 DEF PointerOK, Covers, Settled, rewardVars
  <2> QED
    BY <2>1, <2>2
<1>2. CASE \/ ClaimStart \/ ClaimCycle \/ ClaimReport \/ ClaimCrash \/ ConfirmRaises
           \/ \E s \in Streams : DiscoveryFails(s)
           \/ \E s \in Streams, e \in Epoch : ClaimCoolsOff(s, e) \/ ClaimOutlives(s, e)
  BY <1>1, <1>2, ClaimRestOK
<1>3. CASE SignBatch \/ BroadcastBatch \/ BroadcastFails \/ ConfirmBatch
  BY <1>3, SubmitOK
<1>4. CASE \E s \in Streams : Discover(s)
  BY <1>4, DiscoverOK
<1> QED
  BY <1>2, <1>3, <1>4 DEF ClaimNext, ClaimDaemon
-----------------------------------------------------------------------------
(***************************************************************************)
(* The signing daemon.                                                     *)
(***************************************************************************)
FspOK == FspType /\ TriedOK /\ TrippedOK

LEMMA FspInitOK == ChainInit /\ FspInit => FspOK
<1> SUFFICES ASSUME ChainInit, FspInit PROVE FspOK
  OBVIOUS
<1>1. FspType
  BY NewStreamFacts, ChainAssumption
  DEF ChainInit, FspInit, FspType, NoWork, MessageType, Report, Epoch
<1>2. TriedOK
  BY NewStreamFacts DEF FspInit, TriedOK, UptimeTried
<1>3. TrippedOK
  BY DEF FspInit, TrippedOK, TerminalReported
<1> QED
  BY <1>1, <1>2, <1>3 DEF FspOK

(* A watermark that is set is a number.                                    *)
LEMMA MarkIsNat ==
  ASSUME ChainType, NEW x \in {None} \cup FromEpochs \cup 0 .. current, x # None
  PROVE  x \in Nat
<1>1. current \in Nat
  BY ChainAssumption DEF ChainType, Epoch
<1>2. CASE x \in FromEpochs
  BY <1>2, FromEpochsAssumption
<1>3. CASE x \in 0 .. current
  BY <1>1, <1>3
<1> QED
  BY <1>2, <1>3

(* Time and the other daemon do not disturb it.                            *)
LEMMA FspStable ==
  ASSUME FspOK, current \in Epoch, current' \in Epoch, current <= current', UNCHANGED fspVars
  PROVE  FspOK'
<1>1. \E m \in Nat, n \in Nat : m = current /\ n = current' /\ m <= n
  BY ChainAssumption DEF Epoch
<1>2. PICK m \in Nat, n \in Nat : m = current /\ n = current' /\ m <= n
  BY <1>1
<1>3. FspType'
  <2>1. \A x \in 0 .. m : x \in 0 .. n
    BY <1>2
  <2>2. ASSUME NEW x \in 0 .. (m - 1) PROVE x \in 0 .. (n - 1)
    <3>1. m \in Int /\ n \in Int /\ m <= n
      BY <1>2
    <3> QED
      BY <3>1
  <2>3. /\ watermark' \in {None} \cup FromEpochs \cup 0 .. current'
        /\ first' \in {None} \cup FromEpochs \cup 0 .. current'
    BY <1>2, <2>1 DEF FspOK, FspType, fspVars
  <2>4. closed' \subseteq 0 .. (current' - 1)
    BY <1>2, <2>2 DEF FspOK, FspType, fspVars
  <2> QED
    BY <2>3, <2>4 DEF FspOK, FspType, fspVars
<1>4. TriedOK'
  BY DEF FspOK, TriedOK, UptimeTried, fspVars
<1>5. TrippedOK'
  BY DEF FspOK, TrippedOK, TerminalReported, fspVars
<1> QED
  BY <1>3, <1>4, <1>5 DEF FspOK

(* The epoch being signed is the oldest one left.                          *)
LEMMA MyEpochFacts ==
  ASSUME ChainType, FspType, work.left # {}
  PROVE  /\ MyEpoch \in work.left /\ \A d \in work.left : MyEpoch <= d
         /\ MyEpoch \in closed /\ MyEpoch \in 0 .. (current - 1) /\ MyEpoch \in Epoch
         /\ MyVote \in MessageType \X Epoch
<1>1. current \in 0 .. MaxEpoch /\ MaxEpoch \in Nat /\ closed \subseteq 0 .. (current - 1)
  BY ChainAssumption DEF ChainType, FspType, Epoch
<1>2. /\ work.left \subseteq closed /\ work.left \subseteq Nat /\ closed \subseteq Epoch
      /\ work.mt \in MessageType
  <2>1. work.left \subseteq closed /\ work.mt \in MessageType
    BY DEF FspType
  <2>2. \A x \in 0 .. (current - 1) : x \in Nat /\ x \in 0 .. MaxEpoch
    BY <1>1
  <2> QED
    BY <1>1, <2>1, <2>2 DEF Epoch
<1>3. \E m \in work.left : \A d \in work.left : m <= d
  BY <1>2, LeastOf
<1>4. MyEpoch \in work.left /\ \A d \in work.left : MyEpoch <= d
  BY <1>3 DEF MyEpoch
<1> QED
  BY <1>1, <1>2, <1>4 DEF MyVote

(* The watermark after an epoch was worked off, whatever its outcome: what *)
(* lies below was tried.                                                   *)
LEMMA FinishVoteOK ==
  ASSUME ChainType, FspOK, fpc \in {"sign", "send", "receipt"}, work.left # {}, NEW outcome,
         FinishVote(outcome), UNCHANGED current,
         vtx' \in [MessageType \X Epoch -> {"none", "signed", "pending", "mined", "reverted"}]
  PROVE  FspOK'
<1> USE DEF FspOK
<1>1. /\ MyEpoch \in work.left /\ \A d \in work.left : MyEpoch <= d
      /\ MyEpoch \in closed /\ MyEpoch \in 0 .. (current - 1) /\ MyEpoch \in Epoch
      /\ MyVote \in MessageType \X Epoch
  BY MyEpochFacts
<1>2. current \in Nat /\ current \in Epoch /\ work.mt \in MessageType /\ first # None /\ first \in Nat
  <2>1. current \in Nat /\ current \in Epoch
    BY ChainAssumption DEF ChainType, Epoch
  <2>2. work.mt \in MessageType /\ first # None
    BY DEF FspType, TriedOK
  <2>3. first \in Nat
    BY <2>2, MarkIsNat DEF FspType
  <2> QED
    BY <2>1, <2>2, <2>3
<1>3. /\ fpc' = "sign" /\ work' = [work EXCEPT !.left = @ \ {MyEpoch}]
      /\ watermark' = Advanced(outcome) /\ fauto' = Recorded(outcome)
      /\ tried' = tried \cup {MyVote}
      /\ tripped' = IF outcome = "failed-terminal" THEN tripped \cup {MyVote} ELSE tripped
      /\ UNCHANGED <<closed, fstatus, first>>
  BY DEF FinishVote
<1>4. work'.mt = work.mt /\ work'.left = work.left \ {MyEpoch} /\ work' \in [mt : MessageType, left : SUBSET closed]
  BY <1>3 DEF FspType
<1>5. /\ fauto' \in [MessageType -> AutoStates]
      /\ \A mt \in MessageType : /\ Tracked(fauto'[mt]) = Tracked(fauto[mt])
                                 /\ fauto[mt].cooling \subseteq fauto'[mt].cooling
                                 /\ \A e \in fauto'[mt].cooling :
                                      e \in fauto[mt].cooling \/ (mt = work.mt /\ e = MyEpoch)
      /\ outcome = "failed-terminal" => MyEpoch \in fauto'[work.mt].cooling
  <2>1. CASE outcome = "failed-terminal"
    <3> DEFINE st == RecordTerminal(fauto[work.mt], MyEpoch)
    <3>1. /\ st \in AutoStates /\ Tracked(st) = Tracked(fauto[work.mt])
          /\ st.cooling = fauto[work.mt].cooling \cup {MyEpoch}
      BY <1>1, <1>2, RecordTerminalFacts DEF FspType
    <3>2. fauto' = [fauto EXCEPT ![work.mt] = st]
      BY <1>3, <2>1 DEF Recorded
    <3> HIDE DEF st
    <3>3. /\ fauto' \in [MessageType -> AutoStates] /\ fauto'[work.mt] = st
          /\ \A mt \in MessageType \ {work.mt} : fauto'[mt] = fauto[mt]
      BY <1>2, <3>1, <3>2 DEF FspType
    <3> QED
      BY <3>1, <3>3
  <2>2. CASE outcome # "failed-terminal"
    BY <1>3, <2>2 DEF Recorded, FspType
  <2> QED
    BY <2>1, <2>2
<1>6. watermark' = watermark \/ watermark' = MyEpoch + 1
  BY <1>3 DEF Advanced
<1>7. watermark' # None /\ watermark' \in FromEpochs \cup 0 .. current
  BY <1>1, <1>2, <1>6, ChainAssumption DEF TriedOK, FspType, Epoch
<1>8. FspType'
  <2>1. tried' \subseteq MessageType \X Epoch /\ tripped' \subseteq tried'
    BY <1>1, <1>3 DEF FspType
  <2> QED
    BY <1>3, <1>4, <1>5, <1>7, <2>1 DEF FspType
<1>9. ASSUME NEW d \in closed, NEW e \in first .. d
      PROVE  <<"UPTIME", e>> \in tried' \/ (work.mt = "UPTIME" /\ e \in work.left \ {MyEpoch})
  <2>1. <<"UPTIME", e>> \in tried \/ (work.mt = "UPTIME" /\ e \in work.left)
    BY <1>2, <1>9 DEF TriedOK
  <2> QED
    BY <1>3, <2>1 DEF MyVote
<1>10. UptimeTried'
  <2>1. CASE watermark' = watermark
    BY <1>3, <2>1 DEF TriedOK, UptimeTried
  <2>2. CASE watermark' = MyEpoch + 1
    <3>1. ASSUME NEW e \in first .. (watermark' - 1) PROVE <<"UPTIME", e>> \in tried'
      <4>1. e \in first .. MyEpoch
        BY <1>1, <1>2, <2>2
      <4>2. e <= MyEpoch /\ ~(MyEpoch < e)
        BY <1>1, <1>2, <4>1
      <4>3. e \notin work.left \ {MyEpoch}
        BY <1>1, <1>2, <4>1, <4>2
      <4> QED
        BY <1>1, <1>9, <4>1, <4>3
    <3> QED
      BY <1>3, <3>1 DEF UptimeTried
  <2> QED
    BY <1>6, <2>1, <2>2
<1>11. TriedOK'
  <2>1. \A mt \in MessageType : \A e \in fauto'[mt].cooling : <<mt, e>> \in tried'
    BY <1>3, <1>5 DEF TriedOK, MyVote
  <2> QED
    BY <1>2, <1>3, <1>4, <1>7, <1>9, <1>10, <2>1 DEF TriedOK
<1>12. TrippedOK'
  <2>1. work'.left \subseteq Tracked(fauto'[work'.mt])
    BY <1>2, <1>4, <1>5 DEF TrippedOK
  <2>2. \A v \in tripped' : v \in tripped \/ (outcome = "failed-terminal" /\ v = <<work.mt, MyEpoch>>)
    BY <1>3 DEF MyVote
  <2>3. work.mt = "UPTIME" => \A v \in tripped' : v[1] = "UPTIME"
    BY <2>2 DEF TrippedOK
  <2>4. \A v \in tripped : v[1] \in MessageType
    BY DEF FspType
  <2>5. MyEpoch \in Tracked(fauto'[work.mt])
    BY <1>1, <1>2, <1>5 DEF TrippedOK
  <2>6. \A v \in tripped' : v[2] \in Tracked(fauto'[v[1]]) /\ v[2] \in fauto'[v[1]].cooling
    BY <1>2, <1>5, <2>2, <2>4, <2>5 DEF TrippedOK
  <2> QED
    BY <1>3, <1>4, <2>1, <2>3, <2>6 DEF TrippedOK, TerminalReported
<1> QED
  BY <1>8, <1>11, <1>12
LEMMA FspRestartOK ==
  ASSUME ChainType, FspOK, FspStart \/ FspCrash
  PROVE  FspOK'
<1> USE DEF FspOK
<1>0. current \in Nat /\ current \in Epoch /\ UNCHANGED current
  BY ChainAssumption DEF ChainType, Epoch, FspStart, FspCrash, chainVars
<1>1. CASE FspStart
  <2>1. /\ fpc = "down" /\ fpc' = "sleep"
        /\ UNCHANGED <<closed, work, fauto, fstatus, vtx, tried, tripped>>
        /\ closed = {} /\ tripped = {}
    BY <1>1 DEF FspStart, TriedOK, TrippedOK
  <2>2. \/ \E from \in FromEpochs \cup {current} :
             from # None /\ watermark' = from /\ first' = from
        \/ UNCHANGED <<watermark, first>>
    BY <1>0, <1>1, ChainAssumption DEF FspStart
  <2>3. FspType'
    BY <1>0, <2>1, <2>2 DEF FspType
  <2>4. UptimeTried'
    <3>1. CASE \E from \in FromEpochs \cup {current} :
                 from # None /\ watermark' = from /\ first' = from
      <4>1. \A e \in first' .. (watermark' - 1) : FALSE
        BY <1>0, <3>1, FromEpochsAssumption
      <4> QED
        BY <4>1 DEF UptimeTried
    <3>2. CASE UNCHANGED <<watermark, first>>
      BY <2>1, <3>2 DEF TriedOK, UptimeTried
    <3> QED
      BY <2>2, <3>1, <3>2
  <2>5. TriedOK'
    BY <2>1, <2>2, <2>4 DEF TriedOK
  <2>6. TrippedOK'
    BY <2>1 DEF TrippedOK, TerminalReported
  <2> QED
    BY <2>3, <2>5, <2>6
<1>2. CASE FspCrash
  <2>1. /\ fpc' = "down" /\ watermark' = None /\ closed' = {} /\ work' = NoWork /\ first' = None
        /\ tripped' = {} /\ fauto' = [mt \in MessageType |-> NewStream(Epoch)]
        /\ UNCHANGED <<fstatus, vtx, tried>>
    BY <1>2 DEF FspCrash
  <2>2. FspType'
    BY <1>0, <2>1, NewStreamFacts DEF FspType, NoWork, MessageType
  <2>3. TriedOK'
    BY <2>1, NewStreamFacts DEF TriedOK, UptimeTried
  <2>4. TrippedOK'
    BY <2>1 DEF TrippedOK, TerminalReported
  <2> QED
    BY <2>2, <2>3, <2>4
<1> QED
  BY <1>1, <1>2

(* The top of a cycle: what lies below the watermark was tried, and what   *)
(* lies above it up to a closed epoch is put to work.                      *)
LEMMA FspCycleOK ==
  ASSUME ChainType, FspOK, FspCycle
  PROVE  FspOK'
<1> USE DEF FspOK
<1> DEFINE start == IF watermark = None THEN current ELSE watermark
           range == start .. (current - 1)
           old   == fauto["UPTIME"]
           st    == Observe(old, range)
<1>1. /\ fpc = "sleep" /\ fpc' = "sign" /\ watermark' = start
      /\ first' = IF first = None THEN current ELSE first
      /\ closed' = range /\ work' = [mt |-> "UPTIME", left |-> range]
      /\ fauto' = [fauto EXCEPT !["UPTIME"] = st] /\ tripped' = {}
      /\ UNCHANGED <<current, fstatus, vtx, tried>>
  BY DEF FspCycle, ClosedFrom, chainVars
<1>2. current \in Nat /\ current \in 0 .. MaxEpoch /\ MaxEpoch \in Nat /\ None # current
  BY ChainAssumption DEF ChainType, Epoch
<1>3. start \in FromEpochs \cup 0 .. current /\ start # None /\ start \in Nat
  <2>1. start \in FromEpochs \cup 0 .. current /\ start # None
    BY <1>2 DEF FspType
  <2> QED
    BY <2>1, MarkIsNat
<1>4. /\ first' # None /\ first' \in FromEpochs \cup 0 .. current /\ first' \in Nat
      /\ \/ first' = start
         \/ first' = first /\ watermark = start /\ watermark # None /\ first # None
  BY <1>1, <1>2, FromEpochsAssumption DEF FspType, TriedOK
<1> HIDE DEF start
<1>5. \A x \in range : x \in 0 .. (current - 1) /\ x \in Epoch /\ start <= x
  BY <1>2, <1>3 DEF Epoch
<1>6. "UPTIME" \in MessageType /\ old \in AutoStates
  BY DEF MessageType, FspType
<1>7. st \in AutoStates /\ Tracked(st) = range /\ st.cooling \subseteq old.cooling
  BY <1>5, <1>6, ObserveFacts
<1>8. /\ fauto' \in [MessageType -> AutoStates] /\ fauto'["UPTIME"] = st
      /\ \A mt \in MessageType : fauto'[mt].cooling \subseteq fauto[mt].cooling
  BY <1>1, <1>6, <1>7 DEF FspType
<1> HIDE DEF st, old
<1>9. FspType'
  <2>1. closed' \subseteq 0 .. (current' - 1)
    BY <1>1, <1>5
  <2>2. work' \in [mt : MessageType, left : SUBSET closed']
    BY <1>1, <1>6
  <2> QED
    BY <1>1, <1>3, <1>4, <1>8, <2>1, <2>2 DEF FspType
<1>10. ASSUME NEW d \in range, NEW e \in first' .. d
       PROVE  <<"UPTIME", e>> \in tried \/ e \in range
  <2>1. d \in Int /\ d <= current - 1 /\ first' \in Int /\ start \in Int /\ current \in Int
    BY <1>2, <1>3, <1>4, <1>5
  <2>2. e \in Int /\ first' <= e /\ e <= current - 1
    BY <2>1
  <2>3. CASE start <= e
    BY <2>1, <2>2, <2>3
  <2>4. CASE ~(start <= e)
    <3>1. first' = first /\ watermark = start /\ watermark # None /\ first # None
      BY <1>4, <2>1, <2>2, <2>4
    <3>2. e \in first .. (watermark - 1)
      BY <2>1, <2>2, <2>4, <3>1
    <3> QED
      BY <3>1, <3>2 DEF TriedOK, UptimeTried
  <2> QED
    BY <2>3, <2>4
<1>11. UptimeTried'
  <2>1. CASE first' = start
    <3>1. \A e \in first' .. (watermark' - 1) : FALSE
      BY <1>1, <1>3, <2>1
    <3> QED
      BY <3>1 DEF UptimeTried
  <2>2. CASE first' = first /\ watermark = start /\ watermark # None /\ first # None
    BY <1>1, <2>2 DEF TriedOK, UptimeTried
  <2> QED
    BY <1>4, <2>1, <2>2
<1>12. TriedOK'
  <2>1. \A mt \in MessageType : \A e \in fauto'[mt].cooling : <<mt, e>> \in tried'
    BY <1>1, <1>8 DEF TriedOK
  <2> QED
    BY <1>1, <1>3, <1>4, <1>10, <1>11, <2>1 DEF TriedOK
<1>13. TrippedOK'
  BY <1>1, <1>7, <1>8 DEF TrippedOK, TerminalReported
<1> QED
  BY <1>9, <1>12, <1>13

VoteTx == [MessageType \X Epoch -> {"none", "signed", "pending", "mined", "reverted"}]

(* A step within a cycle that changes no more than the place and the Leg-2 *)
(* transactions.                                                           *)
LEMMA FspGoesOn ==
  ASSUME FspOK, UNCHANGED <<current, fspMemory, fstatus, fspHistory>>, vtx' \in VoteTx,
         \/ UNCHANGED fpc
         \/ /\ fpc \in {"sign", "send", "receipt"} /\ fpc' \in {"send", "receipt"} /\ work.left # {}
         \/ fpc \in {"sign", "send", "receipt"} /\ fpc' = "report"
  PROVE  FspOK'
<1> USE DEF FspOK, fspMemory, fspHistory
<1>1. FspType'
  BY DEF FspType, VoteTx
<1>2. TriedOK'
  BY DEF TriedOK, UptimeTried
<1>3. TrippedOK'
  BY DEF TrippedOK, TerminalReported
<1> QED
  BY <1>1, <1>2, <1>3

(* The uptime votes are through; the rewards of the same epochs are next.  *)
LEMMA NextTypeOK ==
  ASSUME ChainType, FspOK, NextType
  PROVE  FspOK'
<1> USE DEF FspOK
<1>0. /\ fpc = "sign" /\ work.left = {}
      /\ UNCHANGED <<current, watermark, closed, fstatus, vtx, fspHistory>>
  BY DEF NextType, chainVars
<1>1. CASE /\ work.mt = "UPTIME" /\ work' = [mt |-> "REWARD_DISTRIBUTION", left |-> closed]
           /\ fauto' = [fauto EXCEPT !["REWARD_DISTRIBUTION"] = Observe(@, closed)]
           /\ UNCHANGED fpc
  <2> DEFINE old == fauto["REWARD_DISTRIBUTION"]
             st  == Observe(old, closed)
  <2>1. "REWARD_DISTRIBUTION" \in MessageType /\ old \in AutoStates
    BY DEF MessageType, FspType
  <2>2. closed \subseteq Epoch
    <3>1. \A x \in 0 .. (current - 1) : x \in 0 .. MaxEpoch
      BY ChainAssumption DEF ChainType, Epoch
    <3> QED
      BY <3>1 DEF FspType, Epoch
  <2>3. st \in AutoStates /\ Tracked(st) = closed /\ st.cooling \subseteq old.cooling
    BY <2>1, <2>2, ObserveFacts
  <2>4. fauto' = [fauto EXCEPT !["REWARD_DISTRIBUTION"] = st]
    BY <1>1
  <2> HIDE DEF st
  <2>5. /\ fauto' \in [MessageType -> AutoStates] /\ fauto'["REWARD_DISTRIBUTION"] = st
        /\ fauto'["UPTIME"] = fauto["UPTIME"]
        /\ \A mt \in MessageType : fauto'[mt].cooling \subseteq fauto[mt].cooling
    BY <2>1, <2>3, <2>4 DEF FspType, MessageType
  <2>6. FspType'
    BY <1>0, <1>1, <2>1, <2>5 DEF FspType, fspHistory
  <2>7. TriedOK'
    <3>1. \A mt \in MessageType : \A e \in fauto'[mt].cooling : <<mt, e>> \in tried'
      BY <1>0, <2>5 DEF TriedOK, fspHistory
    <3>2. first # None => \A d \in closed : \A e \in first .. d : <<"UPTIME", e>> \in tried
      BY <1>0 DEF TriedOK
    <3>3. UptimeTried'
      BY <1>0 DEF TriedOK, UptimeTried, fspHistory
    <3> QED
      BY <1>0, <1>1, <3>1, <3>2, <3>3 DEF TriedOK, fspHistory
  <2>8. TrippedOK'
    <3>1. \A v \in tripped : v[1] = "UPTIME"
      BY <1>0, <1>1 DEF TrippedOK
    <3>2. \A v \in tripped' : v[2] \in Tracked(fauto'[v[1]]) /\ v[2] \in fauto'[v[1]].cooling
      BY <1>0, <2>5, <3>1 DEF TrippedOK, fspHistory
    <3>3. work'.left \subseteq Tracked(fauto'[work'.mt]) /\ work'.mt # "UPTIME"
      BY <1>1, <2>3, <2>5
    <3> QED
      BY <1>0, <1>1, <3>2, <3>3 DEF TrippedOK, TerminalReported
  <2> QED
    BY <2>6, <2>7, <2>8
<1>2. CASE work.mt = "REWARD_DISTRIBUTION" /\ fpc' = "report" /\ UNCHANGED <<work, fauto>>
  <2>1. vtx' \in VoteTx
    BY <1>0 DEF FspType, VoteTx
  <2> QED
    BY <1>0, <1>2, <2>1, FspGoesOn DEF fspMemory
<1> QED
  BY <1>1, <1>2 DEF NextType

(* An epoch that cools down is passed over: it was tried before.           *)
LEMMA SkipCoolingOK ==
  ASSUME ChainType, FspOK, SkipCooling
  PROVE  FspOK'
<1> USE DEF FspOK
<1>1. /\ fpc = "sign" /\ work.left # {} /\ MyEpoch \in fauto[work.mt].cooling
      /\ work' = [work EXCEPT !.left = @ \ {MyEpoch}]
      /\ UNCHANGED <<current, fpc, watermark, closed, fauto, fstatus, vtx, fspHistory>>
  BY DEF SkipCooling, InCooldown, chainVars
<1>2. work.mt \in MessageType /\ MyEpoch \in work.left
  BY <1>1, MyEpochFacts DEF FspType
<1>3. work'.mt = work.mt /\ work'.left = work.left \ {MyEpoch} /\ work' \in [mt : MessageType, left : SUBSET closed]
  BY <1>1 DEF FspType
<1>4. <<work.mt, MyEpoch>> \in tried
  BY <1>1, <1>2 DEF TriedOK
<1>5. FspType'
  BY <1>1, <1>3 DEF FspType, fspHistory
<1>6. TriedOK'
  <2>1. ASSUME first # None, NEW d \in closed, NEW e \in first .. d
        PROVE  <<"UPTIME", e>> \in tried \/ (work.mt = "UPTIME" /\ e \in work.left \ {MyEpoch})
    BY <1>4, <2>1 DEF TriedOK
  <2>2. UptimeTried'
    BY <1>1 DEF TriedOK, UptimeTried, fspHistory
  <2> QED
    BY <1>1, <1>3, <2>1, <2>2 DEF TriedOK, fspHistory
<1>7. TrippedOK'
  BY <1>1, <1>3 DEF TrippedOK, TerminalReported, fspHistory
<1> QED
  BY <1>5, <1>6, <1>7

(* The legs of a vote: each outcome ends the epoch's turn, or the next leg *)
(* is due.                                                                 *)
LEMMA VoteOK ==
  ASSUME ChainType, FspOK, VoteLegs \/ SendVote \/ VoteReceipt
  PROVE  FspOK'
<1>0. /\ fpc \in {"sign", "send", "receipt"} /\ work.left # {} /\ UNCHANGED current
      /\ vtx \in VoteTx
  BY DEF VoteLegs, SendVote, VoteReceipt, chainVars, FspOK, FspType, VoteTx
<1>1. MyVote \in MessageType \X Epoch
  BY <1>0, MyEpochFacts DEF FspOK
<1>2. ASSUME NEW st \in {"none", "signed", "pending", "mined", "reverted"}
      PROVE  [vtx EXCEPT ![MyVote] = st] \in VoteTx
  BY <1>0, <1>1 DEF VoteTx
<1>3. ASSUME NEW outcome, FinishVote(outcome), vtx' \in VoteTx PROVE FspOK'
  BY <1>0, <1>3, FinishVoteOK DEF VoteTx
<1>4. ASSUME fpc' \in {"send", "receipt"}, UNCHANGED <<fspMemory, fstatus, fspHistory>>, vtx' \in VoteTx
      PROVE  FspOK'
  BY <1>0, <1>4, FspGoesOn
<1>5. vtx' \in VoteTx
  <2>1. CASE UNCHANGED vtx
    BY <1>0, <2>1
  <2>2. CASE vtx' = [vtx EXCEPT ![MyVote] = "pending"]
    BY <1>2, <2>2
  <2>3. CASE vtx' = [vtx EXCEPT ![MyVote] = IF @ = "none" THEN "signed" ELSE @]
    <3>1. vtx[MyVote] \in {"none", "signed", "pending", "mined", "reverted"}
      BY <1>0, <1>1 DEF VoteTx
    <3> QED
      BY <1>0, <1>1, <2>3, <3>1 DEF VoteTx
  <2> QED
    BY <2>1, <2>2, <2>3 DEF VoteLegs, SendVote, VoteReceipt
<1>6. \/ \E outcome \in {"failed-terminal", "failed-retryable", "already-finalized",
                         "submitted-mined", "submitted-pending"} : FinishVote(outcome)
      \/ fpc' \in {"send", "receipt"} /\ UNCHANGED <<fspMemory, fstatus, fspHistory>>
  BY DEF VoteLegs, SendVote, VoteReceipt
<1> QED
  BY <1>3, <1>4, <1>5, <1>6

(* The report: a terminal failure of the cycle is among the cooling epochs *)
(* that evaluate() looks at.                                               *)
LEMMA FspReportOK ==
  ASSUME ChainType, FspOK, FspReport
  PROVE  FspOK'
<1> USE DEF FspOK
<1> DEFINE bad == \E mt \in MessageType : Degraded(fauto[mt])
<1>1. /\ fpc = "report" /\ fpc' = "sleep" /\ fstatus' = [degraded |-> bad]
      /\ closed' = {} /\ work' = NoWork
      /\ UNCHANGED <<current, watermark, fauto, vtx, fspHistory>>
  BY DEF FspReport, chainVars
<1>2. bad \in BOOLEAN
  OBVIOUS
<1>3. tripped # {} => bad
  <2> SUFFICES ASSUME NEW v \in tripped PROVE bad
    OBVIOUS
  <2>1. v[1] \in MessageType
    BY DEF FspType
  <2>2. v[2] \in Tracked(fauto[v[1]]) /\ v[2] \in fauto[v[1]].cooling
    BY <1>1 DEF TrippedOK
  <2>3. Degraded(fauto[v[1]])
    BY <2>2 DEF Degraded, InCooldown
  <2> QED
    BY <2>1, <2>3
<1> HIDE DEF bad
<1>4. FspType'
  BY <1>1, <1>2 DEF FspType, NoWork, MessageType, Report, fspHistory
<1>5. TriedOK'
  BY <1>1 DEF TriedOK, UptimeTried, fspHistory
<1>6. TrippedOK'
  <2>1. tripped # {} => bad = TRUE
    BY <1>2, <1>3
  <2> QED
    BY <1>1, <2>1 DEF TrippedOK, TerminalReported, fspHistory
<1> QED
  BY <1>4, <1>5, <1>6

LEMMA FspCoolsOffOK ==
  ASSUME ChainType, FspOK, NEW mt \in MessageType, NEW e \in Epoch, FspCoolsOff(mt, e)
  PROVE  FspOK'
<1> USE DEF FspOK
<1> DEFINE st == CoolOff(fauto[mt], e)
<1>1. /\ fpc = "sleep" /\ fauto' = [fauto EXCEPT ![mt] = st]
      /\ UNCHANGED <<current, fpc, watermark, closed, work, fstatus, vtx, fspHistory>>
  BY DEF FspCoolsOff, chainVars
<1>2. st \in AutoStates /\ st.cooling \subseteq fauto[mt].cooling
  BY CoolOffFacts DEF FspType
<1> HIDE DEF st
<1>3. /\ fauto' \in [MessageType -> AutoStates]
      /\ \A m \in MessageType : fauto'[m].cooling \subseteq fauto[m].cooling
  BY <1>1, <1>2 DEF FspType
<1>4. FspType'
  BY <1>1, <1>3 DEF FspType, fspHistory
<1>5. TriedOK'
  BY <1>1, <1>3 DEF TriedOK, UptimeTried, fspHistory
<1>6. TrippedOK'
  BY <1>1 DEF TrippedOK, TerminalReported, fspHistory
<1> QED
  BY <1>4, <1>5, <1>6

LEMMA FspNextOK ==
  ASSUME ChainType, PointerOK, FspOK, FspNext
  PROVE  ChainType' /\ PointerOK' /\ FspOK' /\ ChainGrows
<1>1. UNCHANGED <<chainVars, rewardVars>> /\ faults' \in 0 .. MaxFaults
  BY FaultType
  DEF FspNext, FspDaemon, FspStart, FspCycle, NextType, SkipCooling, VoteLegs, SendVote, VoteReceipt,
      FspReport, FspCrash, FspCycleFails, VoteReceiptFails, FspCoolsOff, MineVote
<1>2. votes' \subseteq MessageType \X Epoch
  <2>1. ASSUME NEW mt \in MessageType, NEW e \in Epoch, MineVote(<<mt, e>>)
        PROVE  votes' \subseteq MessageType \X Epoch
    BY <2>1 DEF MineVote, ChainType
  <2> QED
    BY <2>1
    DEF FspNext, FspDaemon, FspStart, FspCycle, NextType, SkipCooling, VoteLegs, SendVote, VoteReceipt,
        FspReport, FspCrash, FspCycleFails, VoteReceiptFails, FspCoolsOff, ChainType
<1>3. ChainType' /\ PointerOK' /\ ChainGrows
  <2>1. ChainType'
    BY <1>1, <1>2 DEF ChainType, chainVars, rewardVars
  <2>2. PointerOK'
    BY <1>1 DEF PointerOK, Covers, Settled, rewardVars
  <2>3. ChainGrows
    BY <1>1, ChainAssumption DEF ChainGrows, ChainType, chainVars, rewardVars, Epoch
  <2> QED
    BY <2>1, <2>2, <2>3
<1>4. vtx \in VoteTx /\ UNCHANGED current
  BY <1>1 DEF FspOK, FspType, VoteTx, chainVars
<1>5. CASE FspDaemon \/ FspCrash
  BY <1>3, <1>5, FspRestartOK, FspCycleOK, NextTypeOK, SkipCoolingOK, VoteOK, FspReportOK DEF FspDaemon
<1>6. CASE FspCycleFails
  <2>1. /\ fpc = "sleep" /\ fpc' = "report" /\ tripped' = {}
        /\ UNCHANGED <<current, fspMemory, fstatus, vtx, tried, first>>
    BY <1>4, <1>6 DEF FspCycleFails
  <2>2. FspType'
    BY <2>1 DEF FspOK, FspType, fspMemory
  <2>3. TriedOK'
    BY <2>1 DEF FspOK, TriedOK, UptimeTried, fspMemory
  <2>4. TrippedOK'
    BY <2>1 DEF FspOK, TrippedOK, TerminalReported
  <2> QED
    BY <1>3, <2>2, <2>3, <2>4 DEF FspOK
<1>7. CASE VoteReceiptFails
  <2>1. /\ fpc \in {"sign", "send", "receipt"} /\ fpc' = "report"
        /\ UNCHANGED <<current, fspMemory, fstatus, fspHistory>> /\ vtx' \in VoteTx
    BY <1>4, <1>7 DEF VoteReceiptFails
  <2> QED
    BY <1>3, <2>1, FspGoesOn
<1>8. ASSUME NEW mt \in MessageType, NEW e \in Epoch, MineVote(<<mt, e>>) PROVE FspOK'
  <2>1. UNCHANGED <<current, fpc, fspMemory, fstatus, fspHistory>>
    BY <1>4, <1>8 DEF MineVote
  <2>2. vtx' = [vtx EXCEPT ![<<mt, e>>] = "mined"] \/ vtx' = [vtx EXCEPT ![<<mt, e>>] = "reverted"]
    BY <1>8 DEF MineVote
  <2>3. vtx' \in VoteTx
    BY <1>4, <2>2 DEF VoteTx
  <2> QED
    BY <2>1, <2>3, FspGoesOn
<1>9. FspOK'
  BY <1>5, <1>6, <1>7, <1>8, FspCoolsOffOK DEF FspNext
<1> QED
  BY <1>3, <1>9
-----------------------------------------------------------------------------
(***************************************************************************)
(* Both daemons over one chain.                                            *)
(***************************************************************************)
LegacyInv == ChainType /\ PointerOK /\ ClaimType /\ ClaimOK /\ FspOK

LEMMA LegacyInit == Init => LegacyInv
BY ChainInitOK, ClaimInitOK, FspInitOK DEF Init, LegacyInv

LEMMA LegacyStep == LegacyInv /\ [Next]_vars => LegacyInv'
<1> SUFFICES ASSUME LegacyInv, [Next]_vars PROVE LegacyInv'
  OBVIOUS
<1> USE DEF LegacyInv
<1>0. current \in Epoch /\ current \in Int
  BY ChainAssumption DEF ChainType, Epoch
<1>1. CASE ChainStep /\ UNCHANGED <<fspVars, claimVars, deployed>>
  <2>1. ChainType' /\ PointerOK' /\ ChainGrows
    BY <1>1, ChainStepOK
  <2>2. ClaimType' /\ ClaimOK'
    BY <1>1, <2>1, ClaimStable
  <2>3. FspOK'
    BY <1>1, <2>1, FspStable DEF ChainGrows
  <2> QED
    BY <2>1, <2>2, <2>3
<1>2. CASE FspNext /\ UNCHANGED <<claimVars, deployed>>
  <2>1. ChainType' /\ PointerOK' /\ FspOK' /\ ChainGrows
    BY <1>2, FspNextOK
  <2>2. ClaimType' /\ ClaimOK'
    BY <1>2, <2>1, ClaimStable
  <2> QED
    BY <2>1, <2>2
<1>3. CASE ClaimNext /\ UNCHANGED <<fspVars, deployed>>
  <2>1. ChainType' /\ PointerOK' /\ ClaimType' /\ ClaimOK' /\ UNCHANGED <<chainVars, votes>>
    BY <1>3, ClaimNextOK
  <2>2. current' \in Epoch /\ current <= current'
    BY <1>0, <2>1 DEF chainVars
  <2>3. FspOK'
    BY <1>0, <1>3, <2>2, FspStable
  <2> QED
    BY <2>1, <2>3
<1>4. CASE UNCHANGED vars
  <2>1. UNCHANGED <<chainVars, votes, rewardVars, faults, fspVars, claimVars, current>>
    BY <1>4 DEF vars, chainVars
  <2>2. ChainType' /\ PointerOK' /\ ChainGrows
    <3>1. ChainType'
      BY <2>1 DEF ChainType, chainVars, rewardVars
    <3>2. PointerOK'
      BY <2>1 DEF PointerOK, Covers, Settled, rewardVars
    <3>3. ChainGrows
      BY <1>0, <2>1 DEF ChainGrows, chainVars, rewardVars
    <3> QED
      BY <3>1, <3>2, <3>3
  <2>3. ClaimType' /\ ClaimOK'
    BY <2>1, <2>2, ClaimStable
  <2>4. FspOK'
    BY <2>1, <2>2, FspStable DEF ChainGrows
  <2> QED
    BY <2>2, <2>3, <2>4
<1> QED
  BY <1>1, <1>2, <1>3, <1>4 DEF Next

LEMMA LegacyInvariant == Spec => []LegacyInv
BY LegacyInit, LegacyStep, PTL DEF Spec

(* Types of the chain and of both daemons' memories; the watermark of      *)
(* fsp auto never runs ahead of the current epoch, unless --from-epoch put *)
(* it there.                                                               *)
THEOREM TypeCorrect == Spec => []TypeOK
<1>1. LegacyInv => TypeOK
  BY DEF LegacyInv, ChainType, ClaimType, FspOK, FspType, TypeOK, TxRecord
<1> QED
  BY <1>1, LegacyInvariant, PTL

(* What clif auto logs as confirmed claimed was paid, had expired or could *)
(* not be read: no failed discovery and no restart makes it up.            *)
THEOREM GoneIsClaimedHolds == Spec => []GoneIsClaimed
<1>1. LegacyInv => GoneIsClaimed
  BY DEF LegacyInv, ClaimOK
<1> QED
  BY <1>1, LegacyInvariant, PTL

(* A cycle of fsp auto with a terminal failure reports degraded, however   *)
(* the cycle ended.                                                        *)
THEOREM TerminalReportedHolds == Spec => []TerminalReported
<1>1. LegacyInv => TerminalReported
  BY DEF LegacyInv, FspOK, TrippedOK
<1> QED
  BY <1>1, LegacyInvariant, PTL

(* The one watermark of fsp auto, moved by uptime and reward outcomes in   *)
(* turn, passes no epoch whose uptime vote was never attempted.            *)
THEOREM UptimeTriedHolds == Spec => []UptimeTried
<1>1. LegacyInv => UptimeTried
  BY DEF LegacyInv, FspOK, TriedOK
<1> QED
  BY <1>1, LegacyInvariant, PTL

=============================================================================
