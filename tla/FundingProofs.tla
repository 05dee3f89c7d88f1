--------------------------- MODULE FundingProofs ---------------------------
(***************************************************************************)
(* Gas funding, for every registry, band, plan and number of faults: the   *)
(* types, that no account is overfunded unless transfers overlap, and that *)
(* the protocol implements BandKeeper.                                     *)
(***************************************************************************)
EXTENDS Funding, FiniteSetTheorems, TLAPS

Line == [acct : Accounts, amount : Int]

SlotRecord ==
  [st : {"free", "signed", "pending", "mined", "dead"},
   to : Accounts \cup {None}, value : Nat, nonce : Int]

(* The shape of the records fwd and the processes keep.                    *)
Shape ==
  /\ balance \in [Accounts -> Nat] /\ funder \in Nat /\ fwdNonce \in Int
  /\ spent \in 0 .. MaxSpend /\ faults \in 0 .. MaxFaults /\ overlapped \subseteq Accounts
  /\ tx \in [Slots -> SlotRecord]
  /\ proc \in [Processes -> [pc : {"idle", "work", "sign", "send", "follow"}, todo : Seq(Line),
                             value : 0 .. PerTxCap, tx : Slots \cup {None}]]

(* A transfer that can land goes to a registered account and has a value   *)
(* the policy allows.                                                      *)
LiveOK ==
  \A i \in Slots : Live(i) => tx[i].to \in Accounts /\ tx[i].value \in 1 .. PerTxCap

(* A process has decided a value exactly before it has it signed, holds a  *)
(* transfer exactly while it sends or follows it, that transfer is where   *)
(* the process believes it to be, and no two processes hold the same one.  *)
HeldOK ==
  /\ \A p \in Processes :
       /\ proc[p].tx # None <=> proc[p].pc \in {"send", "follow"}
       /\ proc[p].pc \in {"sign", "send", "follow"} => proc[p].todo # <<>>
       /\ proc[p].pc = "sign" => proc[p].value # 0
       /\ proc[p].pc = "send" => tx[proc[p].tx].st = "signed"
       /\ proc[p].pc = "follow" => tx[proc[p].tx].st \in {"pending", "mined", "dead"}
  /\ \A p, q \in Processes : proc[p].tx = proc[q].tx /\ proc[p].tx # None => p = q

TypeInv == Shape /\ LiveOK /\ HeldOK
-----------------------------------------------------------------------------
LEMMA MinOfTwo ==
  ASSUME NEW x \in Int, NEW y \in Int
  PROVE  Min({x, y}) \in {x, y} /\ Min({x, y}) <= x /\ Min({x, y}) <= y
<1>1. \E m \in {x, y} : \A n \in {x, y} : m =< n
  OBVIOUS
<1> QED
  BY <1>1 DEF Min

LEMMA MaxOfTwo ==
  ASSUME NEW x \in Int, NEW y \in Int
  PROVE  Max({x, y}) \in {x, y} /\ Max({x, y}) >= x /\ Max({x, y}) >= y
<1>1. \E m \in {x, y} : \A n \in {x, y} : m >= n
  OBVIOUS
<1> QED
  BY <1>1 DEF Max

(* A top-up, whoever sends it, at most fills the account as it was read.   *)
LEMMA ValueBound ==
  ASSUME balance \in [Accounts -> Nat], NEW p, NEW a \in Accounts, NEW amount \in Int
  PROVE  /\ Value(p, a, amount) \in Int
         /\ Value(p, a, amount) > 0 => balance[a] + Value(p, a, amount) <= Upper[a]
<1> DEFINE room == Max({0, Upper[a] - balance[a]})
<1>1. balance[a] \in Nat /\ Upper[a] \in Nat
  BY BandAssumption
<1>2. room \in {0, Upper[a] - balance[a]}
  <2> DEFINE gap == Upper[a] - balance[a]
  <2>1. 0 \in Int /\ gap \in Int
    BY <1>1
  <2> HIDE DEF gap
  <2>2. Max({0, gap}) \in {0, gap}
    BY <2>1, MaxOfTwo
  <2> QED
    BY <2>2 DEF gap
<1>3. Min({amount, room}) \in Int /\ Min({amount, room}) <= room
  <2> HIDE DEF room
  <2>1. room \in Int
    BY <1>1, <1>2
  <2> QED
    BY <2>1, MinOfTwo
<1>4. Value(p, a, amount) \in {0, Upper[a] - balance[a], Min({amount, room})}
  BY DEF Value
<1> HIDE DEF room
<1> QED
  BY <1>1, <1>2, <1>3, <1>4

(* What is left of a transfer that ended cannot land, and its record is    *)
(* free unless a process still asks for it.                                *)
LEMMA EndedShape ==
  ASSUME NEW i, NEW end \in {"mined", "dead"}
  PROVE  /\ Ended(i, end) \in [st : {"free", "mined", "dead"}, to : {None}, value : {0}, nonce : {0}]
         /\ (\E p \in Processes : proc[p].tx = i /\ proc[p].pc = "follow") => Ended(i, end).st = end
BY DEF Ended, Free

(* The current item of a working process, and what is left after it.       *)
LEMMA ItemShape ==
  ASSUME Shape, NEW p \in Processes, proc[p].todo # <<>>
  PROVE  /\ Item(p) \in Line
         /\ Advance(p) \in [pc : {"work"}, todo : Seq(Line), value : {0}, tx : {None}]
<1>1. proc[p].todo \in Seq(Line)
  BY DEF Shape
<1>2. Head(proc[p].todo) \in Line /\ Tail(proc[p].todo) \in Seq(Line)
  BY <1>1
<1> QED
  BY <1>2 DEF Item, Advance, Idle

(* fwd and the node keep the records of the shape they had.                *)
LEMMA SlotShape ==
  ASSUME Shape, NEW i \in Slots
  PROVE  /\ tx[i] \in SlotRecord
         /\ Free \in [st : {"free"}, to : {None}, value : {0}, nonce : {0}]
BY DEF Shape, Free

LEMMA InitType == Init => TypeInv
<1> SUFFICES ASSUME Init PROVE TypeInv
  OBVIOUS
<1>1. Shape
  BY BandAssumption, BoundsAssumption DEF Init, Shape, SlotRecord, Free, Idle
<1>2. LiveOK
  BY DEF Init, LiveOK, Live, Free
<1>3. HeldOK
  BY DEF Init, HeldOK, Idle
<1> QED
  BY <1>1, <1>2, <1>3 DEF TypeInv

LEMMA TypeStepChain ==
  ASSUME TypeInv, (\E a \in Accounts : Spend(a)) \/ (\E i \in Slots : Mine(i))
  PROVE  TypeInv'
<1> USE DEF TypeInv
<1>1. ASSUME NEW a \in Accounts, Spend(a) PROVE TypeInv'
  <2>1. PICK n \in 1 .. balance[a] :
          /\ spent + n <= MaxSpend /\ spent' = spent + n
          /\ balance' = [balance EXCEPT ![a] = @ - n]
    BY <1>1 DEF Spend
  <2>2. balance[a] \in Nat /\ balance[a] - n \in Nat /\ n \in Nat
    BY <2>1 DEF Shape
  <2>3. balance' \in [Accounts -> Nat] /\ spent' \in 0 .. MaxSpend
    BY <2>1, <2>2, BoundsAssumption DEF Shape
  <2> QED
    BY <1>1, <2>3 DEF Spend, Shape, LiveOK, HeldOK, Live
<1>2. ASSUME NEW i \in Slots, Mine(i) PROVE TypeInv'
  <2>1. tx[i].st = "pending" /\ tx[i].to \in Accounts /\ tx[i].value \in Nat /\ tx[i].value <= funder
    BY <1>2 DEF Mine, Includable, LiveOK, Live, Shape, SlotRecord
  <2>2. balance' \in [Accounts -> Nat] /\ funder' \in Nat /\ fwdNonce' \in Int
    <3>1. balance[tx[i].to] \in Nat
      BY <2>1 DEF Shape
    <3>2. balance[tx[i].to] + tx[i].value \in Nat /\ funder - tx[i].value \in Nat
      BY <2>1, <3>1 DEF Shape
    <3> QED
      BY <1>2, <2>1, <3>2 DEF Mine, Shape
  <2>3. ASSUME NEW j \in Slots
        PROVE  \/ tx'[j] = tx[j] /\ ~Live(j)
               \/ Live(j) /\ tx'[j] = [tx[j] EXCEPT !.nonce = @ - 1]
               \/ tx[j].st = "pending" /\ tx'[j] = Ended(j, "mined")
               \/ tx[j].st = "pending" /\ tx'[j] = Ended(j, "dead")
    BY <1>2, <2>1 DEF Mine
  <2>4. ASSUME NEW j \in Slots
        PROVE  /\ tx'[j] \in SlotRecord
               /\ Live(j)' => Live(j) /\ tx'[j].to = tx[j].to /\ tx'[j].value = tx[j].value
               /\ tx'[j].st = tx[j].st \/ tx[j].st = "pending"
               /\ (\E p \in Processes : proc[p].tx = j /\ proc[p].pc = "follow")
                    => tx'[j].st = tx[j].st \/ tx'[j].st \in {"mined", "dead"}
    <3>1. CASE tx'[j] = tx[j] /\ ~Live(j)
      BY <3>1, SlotShape DEF Live, SlotRecord
    <3>2. CASE Live(j) /\ tx'[j] = [tx[j] EXCEPT !.nonce = @ - 1]
      BY <3>2, SlotShape DEF Live, SlotRecord
    <3>3. CASE tx[j].st = "pending" /\ tx'[j] = Ended(j, "mined")
      BY <3>3, EndedShape DEF Live, SlotRecord
    <3>4. CASE tx[j].st = "pending" /\ tx'[j] = Ended(j, "dead")
      BY <3>4, EndedShape DEF Live, SlotRecord
    <3> QED
      BY <2>3, <3>1, <3>2, <3>3, <3>4
  <2>5. Shape'
    <3>1. DOMAIN tx' = Slots /\ tx' = [j \in Slots |-> tx'[j]]
      BY <1>2 DEF Mine
    <3> QED
      BY <1>2, <2>2, <2>4, <3>1 DEF Mine, Shape
  <2>6. LiveOK'
    BY <2>4 DEF LiveOK
  <2>7. HeldOK'
    <3>1. proc' = proc
      BY <1>2 DEF Mine
    <3>2. ASSUME NEW p \in Processes, proc[p].pc \in {"send", "follow"}
          PROVE  /\ proc[p].pc = "send" => tx'[proc[p].tx].st = "signed"
                 /\ proc[p].pc = "follow" => tx'[proc[p].tx].st \in {"pending", "mined", "dead"}
      <4>1. proc[p].tx \in Slots
        BY <3>2 DEF Shape, HeldOK
      <4> QED
        BY <2>4, <3>2, <4>1 DEF HeldOK
    <3> QED
      BY <3>1, <3>2 DEF HeldOK
  <2> QED
    BY <2>5, <2>6, <2>7
<1> QED
  BY <1>1, <1>2

(* A process that takes a transfer up, or goes on with the one it has.     *)
LEMMA HeldStep ==
  ASSUME TypeInv, NEW p \in Processes, NEW r, proc' = [proc EXCEPT ![p] = r],
         r.tx # None <=> r.pc \in {"send", "follow"},
         r.pc \in {"sign", "send", "follow"} => r.todo # <<>>,
         r.pc = "sign" => r.value # 0,
         r.pc = "send" => tx'[r.tx].st = "signed",
         r.pc = "follow" => tx'[r.tx].st \in {"pending", "mined", "dead"},
         \A q \in Processes \ {p} :
           proc[q].tx # None =>
             /\ proc[q].tx # r.tx
             /\ \/ tx'[proc[q].tx].st = tx[proc[q].tx].st
                \/ proc[q].pc = "follow" /\ tx'[proc[q].tx].st \in {"mined", "dead"}
  PROVE  HeldOK'
<1>1. proc'[p] = r /\ \A q \in Processes \ {p} : proc'[q] = proc[q]
  BY DEF TypeInv, Shape
<1>2. ASSUME NEW q \in Processes
      PROVE  /\ proc'[q].tx # None <=> proc'[q].pc \in {"send", "follow"}
             /\ proc'[q].pc \in {"sign", "send", "follow"} => proc'[q].todo # <<>>
             /\ proc'[q].pc = "sign" => proc'[q].value # 0
             /\ proc'[q].pc = "send" => tx'[proc'[q].tx].st = "signed"
             /\ proc'[q].pc = "follow" => tx'[proc'[q].tx].st \in {"pending", "mined", "dead"}
  <2>1. CASE q = p
    BY <1>1, <2>1
  <2>2. CASE q # p
    BY <1>1, <2>2 DEF TypeInv, HeldOK
  <2> QED
    BY <2>1, <2>2
<1>3. \A q1, q2 \in Processes : proc'[q1].tx = proc'[q2].tx /\ proc'[q1].tx # None => q1 = q2
  BY <1>1 DEF TypeInv, HeldOK
<1> QED
  BY <1>2, <1>3 DEF HeldOK

(* A process that ends its pass or lets its transfer go: at most that one  *)
(* changes, into a free record or one in the node's pool.                  *)
LEMMA LetGo ==
  ASSUME TypeInv, NEW p \in Processes,
         NEW r \in [pc : {"idle", "work"}, todo : Seq(Line), value : {0}, tx : {None}],
         proc' = [proc EXCEPT ![p] = r],
         tx' = [j \in Slots |-> tx'[j]],
         \A j \in Slots :
           \/ tx'[j] = tx[j]
           \/ j = proc[p].tx /\ tx'[j] = Free
           \/ j = proc[p].tx /\ Live(j) /\ tx'[j] = [tx[j] EXCEPT !.st = "pending"],
         faults' \in 0 .. MaxFaults, fwdNonce' \in Int, UNCHANGED <<chain, overlapped>>
  PROVE  TypeInv'
<1>1. ASSUME NEW j \in Slots
      PROVE  /\ tx'[j] \in SlotRecord
             /\ Live(j)' => Live(j) /\ tx'[j].to = tx[j].to /\ tx'[j].value = tx[j].value
  <2>1. CASE tx'[j] = tx[j]
    BY <2>1, SlotShape DEF TypeInv, Live
  <2>2. CASE tx'[j] = Free
    BY <2>2 DEF SlotRecord, Live, Free
  <2>3. CASE Live(j) /\ tx'[j] = [tx[j] EXCEPT !.st = "pending"]
    BY <2>3, SlotShape DEF TypeInv, Live, SlotRecord
  <2> QED
    BY <2>1, <2>2, <2>3
<1>2. Shape'
  <2>1. r \in [pc : {"idle", "work", "sign", "send", "follow"}, todo : Seq(Line),
               value : 0 .. PerTxCap, tx : Slots \cup {None}]
    BY BandAssumption
  <2> QED
    BY <1>1, <2>1 DEF TypeInv, Shape, chain
<1>3. LiveOK'
  BY <1>1 DEF TypeInv, LiveOK
<1>4. HeldOK'
  <2>1. \A q \in Processes \ {p} :
          proc[q].tx # None => proc[q].tx # proc[p].tx /\ proc[q].tx \in Slots
    BY DEF TypeInv, HeldOK, Shape
  <2>2. \A q \in Processes \ {p} : proc[q].tx # None => tx'[proc[q].tx] = tx[proc[q].tx]
    BY <2>1
  <2>3. /\ r.tx = None /\ r.pc \notin {"sign", "send", "follow"} /\ r.pc \notin {"send", "follow"}
        /\ r.pc # "sign" /\ r.pc # "send" /\ r.pc # "follow"
    OBVIOUS
  <2>4. \A q \in Processes \ {p} :
          proc[q].tx # None =>
            /\ proc[q].tx # r.tx
            /\ \/ tx'[proc[q].tx].st = tx[proc[q].tx].st
               \/ proc[q].pc = "follow" /\ tx'[proc[q].tx].st \in {"mined", "dead"}
    BY <2>2, <2>3
  <2> QED
    BY <2>3, <2>4, HeldStep, Zenon
<1> QED
  BY <1>2, <1>3, <1>4 DEF TypeInv

LEMMA FunctionIsSeq ==
  ASSUME NEW n \in Nat, NEW S, NEW f \in [1 .. n -> S]
  PROVE  f \in Seq(S)
OBVIOUS

(* The lines `fund apply` works off: a registered account and a number.    *)
LEMMA PlanLines ==
  ASSUME Shape, NEW plan \in Plans,
         NEW nth \in [1 .. Cardinality(ValidatePlan(plan)) -> ValidatePlan(plan)]
  PROVE  [k \in DOMAIN nth |-> [acct |-> plan[nth[k]].acct, amount |-> Amount(plan[nth[k]])]]
           \in Seq(Line)
<1> DEFINE lines == ValidatePlan(plan)
<1>1. lines \subseteq 1 .. Len(plan) /\ \A k \in lines : \E running : Accepted(plan[k], running)
  BY DEF ValidatePlan
<1>2. Len(plan) \in Nat
  BY PlansAssumption
<1>3. Cardinality(lines) \in Nat
  <2>1. IsFiniteSet(1 .. Len(plan))
    BY <1>2, FS_Interval
  <2>2. IsFiniteSet(lines)
    BY <1>1, <2>1, FS_Subset
  <2> QED
    BY <2>2, FS_CardinalityType
<1>4. ASSUME NEW k \in lines
      PROVE  [acct |-> plan[k].acct, amount |-> Amount(plan[k])] \in Line
  <2>1. plan[k].acct \in Accounts /\ plan[k].n \in Int
    BY <1>1, PlansAssumption DEF Accepted
  <2>2. Amount(plan[k]) \in Int
    BY <2>1 DEF Amount, Shape
  <2> QED
    BY <2>1, <2>2 DEF Line
<1> HIDE DEF lines
<1>5. nth \in [1 .. Cardinality(lines) -> lines]
  BY DEF lines
<1> DEFINE todo == [k \in DOMAIN nth |-> [acct |-> plan[nth[k]].acct, amount |-> Amount(plan[nth[k]])]]
<1>6. todo \in [1 .. Cardinality(lines) -> Line]
  BY <1>4, <1>5
<1> HIDE DEF todo
<1>7. todo \in Seq(Line)
  BY <1>3, <1>6, FunctionIsSeq
<1> QED
  BY <1>7 DEF todo

LEMMA TypeStepBegin ==
  ASSUME TypeInv, BeginPass \/ BeginApply
  PROVE  TypeInv'
<1> USE DEF TypeInv
<1>2. ASSUME BeginPass PROVE TypeInv'
  <2> DEFINE todo == [k \in DOMAIN Registry |-> [acct |-> Registry[k], amount |-> Upper[Registry[k]]]]
             r == [Idle EXCEPT !.pc = "work", !.todo = todo]
  <2>1. todo \in Seq(Line)
    <3>1. Len(Registry) \in Nat /\ DOMAIN Registry = 1 .. Len(Registry)
      BY BandAssumption
    <3>2. \A k \in 1 .. Len(Registry) : Registry[k] \in Accounts /\ Upper[Registry[k]] \in Int
      BY BandAssumption
    <3>3. todo \in [1 .. Len(Registry) -> Line]
      BY <3>1, <3>2 DEF Line
    <3> HIDE DEF todo
    <3> QED
      BY <3>1, <3>3, FunctionIsSeq
  <2>2. r \in [pc : {"idle", "work"}, todo : Seq(Line), value : {0}, tx : {None}]
    <3> HIDE DEF todo
    <3> QED
      BY <2>1 DEF Idle
  <2>3. /\ "daemon" \in Processes /\ proc' = [proc EXCEPT !["daemon"] = r]
        /\ UNCHANGED <<chain, tx, fwdNonce, overlapped>>
    BY <1>2 DEF BeginPass
  <2>4. faults' \in 0 .. MaxFaults /\ fwdNonce' \in Int
    BY <1>2, BoundsAssumption DEF BeginPass, Shape, Fault, NoFault
  <2>5. tx' = [j \in Slots |-> tx'[j]] /\ \A j \in Slots : tx'[j] = tx[j]
    BY <2>3 DEF Shape
  <2> HIDE DEF r
  <2> QED
    BY <2>2, <2>3, <2>4, <2>5, LetGo
<1>3. ASSUME BeginApply PROVE TypeInv'
  <2>0. PICK plan \in Plans :
          \E nth \in [1 .. Cardinality(ValidatePlan(plan)) -> ValidatePlan(plan)] :
            proc' = [proc EXCEPT !["apply"] =
                       [Idle EXCEPT !.pc = "work",
                                    !.todo = [k \in DOMAIN nth |->
                                                [acct   |-> plan[nth[k]].acct,
                                                 amount |-> Amount(plan[nth[k]])]]]]
    BY <1>3 DEF BeginApply
  <2>1. PICK nth \in [1 .. Cardinality(ValidatePlan(plan)) -> ValidatePlan(plan)] :
          proc' = [proc EXCEPT !["apply"] =
                     [Idle EXCEPT !.pc = "work",
                                  !.todo = [k \in DOMAIN nth |->
                                              [acct   |-> plan[nth[k]].acct,
                                               amount |-> Amount(plan[nth[k]])]]]]
    BY <2>0
  <2> DEFINE todo == [k \in DOMAIN nth |->
                        [acct |-> plan[nth[k]].acct, amount |-> Amount(plan[nth[k]])]]
             r == [Idle EXCEPT !.pc = "work", !.todo = todo]
  <2>2. r \in [pc : {"idle", "work"}, todo : Seq(Line), value : {0}, tx : {None}]
    <3>1. todo \in Seq(Line)
      BY PlanLines
    <3> HIDE DEF todo
    <3> QED
      BY <3>1 DEF Idle
  <2>3. /\ "apply" \in Processes /\ proc' = [proc EXCEPT !["apply"] = r]
        /\ UNCHANGED <<chain, tx, fwdNonce, overlapped>>
    BY <1>3, <2>1 DEF BeginApply
  <2>4. faults' \in 0 .. MaxFaults /\ fwdNonce' \in Int
    BY <1>3 DEF BeginApply, Shape
  <2>5. tx' = [j \in Slots |-> tx'[j]] /\ \A j \in Slots : tx'[j] = tx[j]
    BY <2>3 DEF Shape
  <2> HIDE DEF r
  <2> QED
    BY <2>2, <2>3, <2>4, <2>5, LetGo
<1> QED
  BY <1>2, <1>3

(* Steps that end an account's turn or the pass.                           *)
LEMMA TypeStepEnd ==
  ASSUME TypeInv, NEW p \in Processes,
         \/ SkipAccount(p) \/ EndPass(p) \/ SignFails(p) \/ SendRefused(p) \/ Follow(p)
         \/ Failure(p)
  PROVE  TypeInv'
<1> DEFINE Rest == [pc : {"idle", "work"}, todo : Seq(Line), value : {0}, tx : {None}]
           Only(j) == \/ tx'[j] = tx[j]
                      \/ j = proc[p].tx /\ tx'[j] = Free
                      \/ j = proc[p].tx /\ Live(j) /\ tx'[j] = [tx[j] EXCEPT !.st = "pending"]
<1>1. Idle \in Rest
  BY DEF Idle
<1>2. proc[p].todo # <<>> => Advance(p) \in Rest
  BY ItemShape DEF TypeInv
<1>3. /\ proc[p].pc \in {"sign", "send", "follow"} => proc[p].todo # <<>>
      /\ proc[p].pc \in {"send", "follow"} => proc[p].tx \in Slots
      /\ proc[p].pc = "send" => tx[proc[p].tx].st = "signed"
  BY DEF TypeInv, HeldOK, Shape
<1>4. tx = [j \in Slots |-> tx[j]] /\ \A j \in Slots : tx[j].nonce \in Int
  BY DEF TypeInv, Shape, SlotRecord
<1>5. /\ fwdNonce \in Int /\ faults \in 0 .. MaxFaults
      /\ \A kind : Fault(kind) => faults' \in 0 .. MaxFaults
  BY BoundsAssumption DEF TypeInv, Shape, Fault
<1>6. ASSUME NEW r \in Rest, proc' = [proc EXCEPT ![p] = r],
             tx' = [j \in Slots |-> tx'[j]], \A j \in Slots : Only(j),
             faults' \in 0 .. MaxFaults, fwdNonce' \in Int, UNCHANGED <<chain, overlapped>>
      PROVE  TypeInv'
  BY <1>6, LetGo
<1> HIDE DEF Rest
<1>7. CASE SkipAccount(p)
  <2>1. /\ proc[p].todo # <<>> /\ proc' = [proc EXCEPT ![p] = Advance(p)]
        /\ UNCHANGED <<chain, tx, fwdNonce, overlapped>> /\ faults' \in 0 .. MaxFaults
    BY <1>5, <1>7 DEF SkipAccount, Working, NoFault
  <2> QED
    BY <1>2, <1>4, <1>5, <1>6, <2>1
<1>8. CASE EndPass(p)
  BY <1>1, <1>4, <1>5, <1>6, <1>8 DEF EndPass
<1>9. CASE SendRefused(p)
  <2>1. /\ proc[p].pc = "send" /\ proc' = [proc EXCEPT ![p] = Advance(p)]
        /\ tx' = [tx EXCEPT ![proc[p].tx] = Free] /\ UNCHANGED <<chain, overlapped>>
    BY <1>9 DEF SendRefused
  <2>2. faults' \in 0 .. MaxFaults /\ fwdNonce' \in Int
    BY <1>3, <1>4, <1>5, <1>9, <2>1 DEF SendRefused, Release, NoFault
  <2>3. tx' = [j \in Slots |-> tx'[j]] /\ \A j \in Slots : Only(j)
    BY <1>4, <2>1
  <2> QED
    BY <1>2, <1>3, <1>6, <2>1, <2>2, <2>3
<1>10. CASE Follow(p)
  <2>1. /\ proc[p].pc = "follow" /\ proc' = [proc EXCEPT ![p] = Advance(p)]
        /\ tx' = Unfollowed(proc[p].tx) /\ UNCHANGED <<chain, fwdNonce, overlapped>>
        /\ faults' \in 0 .. MaxFaults
    BY <1>5, <1>10 DEF Follow, NoFault
  <2>2. tx' = [j \in Slots |-> tx'[j]] /\ \A j \in Slots : Only(j)
    BY <1>4, <2>1 DEF Unfollowed
  <2> QED
    BY <1>2, <1>3, <1>5, <1>6, <2>1, <2>2
<1>11. CASE FeesUnread(p)
  BY <1>1, <1>4, <1>5, <1>6, <1>11 DEF FeesUnread, Abort
<1>12. CASE SendUnanswered(p)
  <2>1. /\ proc[p].pc = "send" /\ proc' = [proc EXCEPT ![p] = Advance(p)]
        /\ tx' = [tx EXCEPT ![proc[p].tx].st = "pending"] /\ UNCHANGED <<chain, overlapped>>
    BY <1>12 DEF SendUnanswered
  <2>2. faults' \in 0 .. MaxFaults /\ fwdNonce' \in Int
    BY <1>3, <1>4, <1>5, <1>12, <2>1 DEF SendUnanswered
  <2>3. tx' = [j \in Slots |-> tx'[j]] /\ \A j \in Slots : Only(j)
    BY <1>3, <1>4, <2>1 DEF Live
  <2> QED
    BY <1>2, <1>3, <1>6, <2>1, <2>2, <2>3
<1>13. CASE FollowFails(p)
  <2>1. /\ proc' = [proc EXCEPT ![p] = Idle] /\ faults' \in 0 .. MaxFaults
        /\ tx' = Unfollowed(proc[p].tx) /\ UNCHANGED <<chain, fwdNonce, overlapped>>
    BY <1>5, <1>13 DEF FollowFails, Abort
  <2>2. tx' = [j \in Slots |-> tx'[j]] /\ \A j \in Slots : Only(j)
    BY <1>4, <2>1 DEF Unfollowed
  <2> QED
    BY <1>1, <1>5, <1>6, <2>1, <2>2
<1>15. CASE SignFails(p)
  <2>1. /\ proc[p].todo # <<>> /\ proc' = [proc EXCEPT ![p] = Advance(p)]
        /\ UNCHANGED <<chain, tx, overlapped>>
        /\ faults' \in 0 .. MaxFaults /\ fwdNonce' \in Int
    BY <1>3, <1>5, <1>15 DEF SignFails, Deciding, NoFault
  <2> QED
    BY <1>2, <1>4, <1>6, <2>1
<1>14. CASE Crash(p)
  <2>1. /\ proc' = [proc EXCEPT ![p] = Idle] /\ faults' \in 0 .. MaxFaults
        /\ UNCHANGED <<chain, fwdNonce, overlapped>>
    BY <1>5, <1>14 DEF Crash
  <2>2. tx' = [j \in Slots |-> tx'[j]] /\ \A j \in Slots : Only(j)
    BY <1>14 DEF Crash
  <2> QED
    BY <1>1, <1>5, <1>6, <2>1, <2>2
<1> QED
  BY <1>7, <1>8, <1>9, <1>10, <1>11, <1>12, <1>13, <1>14, <1>15 DEF Failure

(* What reading the balance does: the process decides on a positive value  *)
(* that fits below the upper bound of a registered account.                *)
LEMMA ReadEffect ==
  ASSUME TypeInv, NEW p \in Processes, ReadBalance(p)
  PROVE  \E a \in Accounts, v \in 1 .. PerTxCap :
           /\ proc[p].pc = "work" /\ proc[p].todo # <<>> /\ a = Item(p).acct
           /\ balance[a] + v <= Upper[a]
           /\ proc' = [proc EXCEPT ![p].pc = "sign", ![p].value = v]
           /\ overlapped' = IF Underway(a) THEN overlapped \cup {a} ELSE overlapped
<1> DEFINE a == Item(p).acct
           v == Value(p, a, Item(p).amount)
<1>1. /\ Working(p) /\ v > 0
      /\ proc' = [proc EXCEPT ![p].pc = "sign", ![p].value = v]
      /\ overlapped' = IF Underway(a) THEN overlapped \cup {a} ELSE overlapped
  BY DEF ReadBalance
<1>2. a \in Accounts /\ Item(p).amount \in Int
  BY <1>1, ItemShape DEF TypeInv, Working, Line
<1>3. v \in Int /\ balance[a] + v <= Upper[a]
  BY <1>1, <1>2, ValueBound DEF TypeInv, Shape
<1>4. v \in 1 .. PerTxCap
  BY <1>1, <1>2, <1>3, BandAssumption DEF TypeInv, Shape
<1> HIDE DEF v
<1> QED
  BY <1>1, <1>2, <1>3, <1>4 DEF Working

(* What signing does: a free record, held by nobody, takes the transfer    *)
(* the process decided on.                                                 *)
LEMMA SignEffect ==
  ASSUME TypeInv, NEW p \in Processes, Sign(p)
  PROVE  \E i \in Slots :
           /\ proc[p].pc = "sign" /\ proc[p].todo # <<>> /\ tx[i] = Free
           /\ Item(p).acct \in Accounts /\ proc[p].value \in 1 .. PerTxCap
           /\ tx' = [tx EXCEPT ![i] = [st |-> "signed", to |-> Item(p).acct,
                                       value |-> proc[p].value, nonce |-> fwdNonce]]
           /\ proc' = [proc EXCEPT ![p].pc = "send", ![p].value = 0, ![p].tx = i]
<1> DEFINE i == CHOOSE j \in Slots : tx[j] = Free
<1>1. /\ proc[p].pc = "sign" /\ ~RateLimited
      /\ tx' = [tx EXCEPT ![i] = [st |-> "signed", to |-> Item(p).acct,
                                  value |-> proc[p].value, nonce |-> fwdNonce]]
      /\ proc' = [proc EXCEPT ![p].pc = "send", ![p].value = 0, ![p].tx = i]
  BY DEF Sign, Deciding
<1>2. i \in Slots /\ tx[i] = Free
  BY <1>1 DEF RateLimited
<1>3. proc[p].todo # <<>> /\ proc[p].value # 0 /\ proc[p].value \in 0 .. PerTxCap
  BY <1>1 DEF TypeInv, HeldOK, Shape
<1>4. Item(p).acct \in Accounts /\ proc[p].value \in 1 .. PerTxCap
  BY <1>3, ItemShape, BandAssumption DEF TypeInv, Line
<1> HIDE DEF i
<1> QED
  BY <1>1, <1>2, <1>3, <1>4

(* What sending does: the transfer goes into the pool, in place of others  *)
(* with its nonce.                                                         *)
LEMMA SendEffect ==
  ASSUME TypeInv, NEW p \in Processes, Send(p)
  PROVE  /\ proc[p].tx \in Slots /\ tx[proc[p].tx].st = "signed" /\ proc[p].todo # <<>>
         /\ tx'[proc[p].tx] = [tx[proc[p].tx] EXCEPT !.st = "pending"]
         /\ \A j \in Slots \ {proc[p].tx} :
              tx'[j] = tx[j] \/ (tx[j].st = "pending" /\ tx'[j] = Ended(j, "dead"))
<1>1. proc[p].pc = "send" /\ proc[p].tx \in Slots
  BY DEF Send, TypeInv, HeldOK, Shape
<1>2. tx[proc[p].tx].st = "signed" /\ proc[p].todo # <<>>
  BY <1>1 DEF TypeInv, HeldOK
<1> QED
  BY <1>1, <1>2 DEF Send, Rival

LEMMA TypeStepTransfer ==
  ASSUME TypeInv, NEW p \in Processes, ReadBalance(p) \/ Sign(p) \/ Send(p)
  PROVE  TypeInv'
<1>0. CASE ReadBalance(p)
  <2>1. PICK a \in Accounts, v \in 1 .. PerTxCap :
          /\ proc[p].pc = "work" /\ proc[p].todo # <<>>
          /\ proc' = [proc EXCEPT ![p].pc = "sign", ![p].value = v]
          /\ overlapped' = IF Underway(a) THEN overlapped \cup {a} ELSE overlapped
    BY <1>0, ReadEffect
  <2>2. UNCHANGED <<chain, tx, fwdNonce, faults>>
    BY <1>0 DEF ReadBalance
  <2> DEFINE r == [proc[p] EXCEPT !.pc = "sign", !.value = v]
  <2>3. proc' = [proc EXCEPT ![p] = r]
    BY <2>1 DEF TypeInv, Shape
  <2>4. r.pc = "sign" /\ r.value = v /\ r.tx = proc[p].tx /\ r.todo = proc[p].todo
    BY DEF TypeInv, Shape
  <2>5. proc[p].tx = None /\ v # 0 /\ v \in 0 .. PerTxCap
    <3>1. proc[p].tx = None
      BY <2>1 DEF TypeInv, HeldOK
    <3>2. v # 0 /\ v \in 0 .. PerTxCap
      BY BandAssumption
    <3> QED
      BY <3>1, <3>2
  <2>6. Shape'
    BY <2>1, <2>2, <2>5 DEF TypeInv, Shape, chain
  <2>7. LiveOK'
    BY <2>2 DEF TypeInv, LiveOK, Live
  <2> HIDE DEF r
  <2>8. HeldOK'
    <3>1. /\ r.tx = None /\ r.pc \notin {"send", "follow"} /\ r.pc # "send" /\ r.pc # "follow"
          /\ r.todo # <<>> /\ r.value # 0
      BY <2>1, <2>4, <2>5
    <3>2. \A q \in Processes \ {p} :
            proc[q].tx # None =>
              /\ proc[q].tx # r.tx
              /\ \/ tx'[proc[q].tx].st = tx[proc[q].tx].st
                 \/ proc[q].pc = "follow" /\ tx'[proc[q].tx].st \in {"mined", "dead"}
      BY <2>2, <3>1
    <3> QED
      BY <2>3, <3>1, <3>2, HeldStep, Zenon
  <2> QED
    BY <2>6, <2>7, <2>8 DEF TypeInv
<1>1. CASE Sign(p)
  <2> DEFINE a == Item(p).acct
             v == proc[p].value
  <2>1. PICK i \in Slots :
          /\ proc[p].pc = "sign" /\ proc[p].todo # <<>> /\ tx[i] = Free
          /\ a \in Accounts /\ v \in 1 .. PerTxCap
          /\ tx' = [tx EXCEPT ![i] = [st |-> "signed", to |-> a, value |-> v, nonce |-> fwdNonce]]
          /\ proc' = [proc EXCEPT ![p].pc = "send", ![p].value = 0, ![p].tx = i]
    BY <1>1, SignEffect
  <2> HIDE DEF a, v
  <2>2. fwdNonce' = fwdNonce + 1 /\ UNCHANGED <<chain, faults, overlapped>>
    BY <1>1 DEF Sign
  <2>3. Shape'
    <3>1. [st |-> "signed", to |-> a, value |-> v, nonce |-> fwdNonce] \in SlotRecord
      BY <2>1, BandAssumption DEF TypeInv, Shape, SlotRecord
    <3>2. tx' \in [Slots -> SlotRecord]
      BY <2>1, <3>1 DEF TypeInv, Shape
    <3>3. proc' \in [Processes -> [pc : {"idle", "work", "sign", "send", "follow"}, todo : Seq(Line),
                                   value : 0 .. PerTxCap, tx : Slots \cup {None}]]
      <4> DEFINE r == [proc[p] EXCEPT !.pc = "send", !.value = 0, !.tx = i]
      <4>1. proc' = [proc EXCEPT ![p] = r]
        BY <2>1 DEF TypeInv, Shape
      <4>2. r \in [pc : {"idle", "work", "sign", "send", "follow"}, todo : Seq(Line),
                  value : 0 .. PerTxCap, tx : Slots \cup {None}]
        <5>1. proc[p] \in [pc : {"idle", "work", "sign", "send", "follow"}, todo : Seq(Line),
                           value : 0 .. PerTxCap, tx : Slots \cup {None}]
          BY DEF TypeInv, Shape
        <5>2. 0 \in 0 .. PerTxCap
          BY BandAssumption
        <5> QED
          BY <5>1, <5>2
      <4> HIDE DEF r
      <4> QED
        BY <4>1, <4>2 DEF TypeInv, Shape
    <3> QED
      BY <2>2, <3>2, <3>3 DEF TypeInv, Shape, chain
  <2>4. LiveOK'
    <3>1. tx'[i].to = a /\ tx'[i].value = v /\ \A j \in Slots \ {i} : tx'[j] = tx[j]
      BY <2>1 DEF TypeInv, Shape
    <3> QED
      BY <2>1, <3>1 DEF TypeInv, LiveOK, Live
  <2>5. HeldOK'
    <3> DEFINE r == [proc[p] EXCEPT !.pc = "send", !.value = 0, !.tx = i]
    <3>1. proc' = [proc EXCEPT ![p] = r]
      BY <2>1 DEF TypeInv, Shape
    <3>2. r.pc = "send" /\ r.tx = i /\ r.todo = proc[p].todo
      BY DEF TypeInv, Shape
    <3>3. tx'[i].st = "signed" /\ i # None /\ \A j \in Slots \ {i} : tx'[j] = tx[j]
      BY <2>1, BoundsAssumption DEF TypeInv, Shape
    <3>4. \A q \in Processes \ {p} :
            proc[q].tx # None => proc[q].tx # i /\ tx'[proc[q].tx].st = tx[proc[q].tx].st
      BY <2>1, <3>3 DEF TypeInv, HeldOK, Shape, Free
    <3> HIDE DEF r
    <3>5. /\ r.tx # None /\ r.pc \in {"send", "follow"} /\ r.pc # "follow" /\ r.pc # "sign"
          /\ r.todo # <<>>
          /\ tx'[r.tx].st = "signed"
      BY <2>1, <3>2, <3>3
    <3>6. \A q \in Processes \ {p} :
            proc[q].tx # None =>
              /\ proc[q].tx # r.tx
              /\ \/ tx'[proc[q].tx].st = tx[proc[q].tx].st
                 \/ proc[q].pc = "follow" /\ tx'[proc[q].tx].st \in {"mined", "dead"}
      BY <3>2, <3>4
    <3> QED
      BY <3>1, <3>5, <3>6, HeldStep, Zenon
  <2> QED
    BY <2>3, <2>4, <2>5 DEF TypeInv
<1>2. CASE Send(p)
  <2> DEFINE i == proc[p].tx
             r == [proc[p] EXCEPT !.pc = "follow"]
  <2>1. /\ i \in Slots /\ tx[i].st = "signed" /\ proc[p].todo # <<>>
        /\ tx'[i] = [tx[i] EXCEPT !.st = "pending"]
        /\ \A j \in Slots \ {i} :
             tx'[j] = tx[j] \/ (tx[j].st = "pending" /\ tx'[j] = Ended(j, "dead"))
    BY <1>2, SendEffect
  <2>2. /\ proc' = [proc EXCEPT ![p].pc = "follow"] /\ tx' = [j \in Slots |-> tx'[j]]
        /\ UNCHANGED <<chain, fwdNonce, faults, overlapped>> /\ proc[p].pc = "send"
    BY <1>2 DEF Send
  <2>3. ASSUME NEW j \in Slots
        PROVE  /\ tx'[j] \in SlotRecord
               /\ Live(j)' => Live(j) /\ tx'[j].to = tx[j].to /\ tx'[j].value = tx[j].value
    <3>1. CASE j = i
      BY <2>1, <3>1, SlotShape DEF TypeInv, SlotRecord, Live
    <3>2. CASE tx'[j] = tx[j]
      BY <3>2, SlotShape DEF TypeInv, Live
    <3>3. CASE tx'[j] = Ended(j, "dead")
      BY <3>3, EndedShape DEF SlotRecord, Live
    <3> QED
      BY <2>1, <3>1, <3>2, <3>3
  <2>4. Shape'
    BY <2>2, <2>3 DEF TypeInv, Shape, chain
  <2>5. LiveOK'
    BY <2>3 DEF TypeInv, LiveOK
  <2>6. HeldOK'
    <3>1. proc' = [proc EXCEPT ![p] = r] /\ r.pc = "follow" /\ r.tx = i /\ r.todo = proc[p].todo
      BY <2>2 DEF TypeInv, Shape
    <3>2. tx'[i].st = "pending" /\ i # None
      BY <2>1, SlotShape, BoundsAssumption DEF TypeInv, SlotRecord
    <3>3. ASSUME NEW q \in Processes \ {p}, proc[q].tx # None
          PROVE  /\ proc[q].tx # i
                 /\ \/ tx'[proc[q].tx].st = tx[proc[q].tx].st
                    \/ proc[q].pc = "follow" /\ tx'[proc[q].tx].st \in {"mined", "dead"}
      <4>1. proc[q].tx # i /\ proc[q].tx \in Slots
        BY <3>2, <3>3 DEF TypeInv, HeldOK, Shape
      <4>2. CASE tx[proc[q].tx].st = "pending" /\ tx'[proc[q].tx] = Ended(proc[q].tx, "dead")
        <5>1. proc[q].pc = "follow"
          BY <3>3, <4>2 DEF TypeInv, HeldOK
        <5> QED
          BY <4>1, <4>2, <5>1, EndedShape
      <4> QED
        BY <2>1, <4>1, <4>2
    <3> HIDE DEF r, i
    <3>4. /\ r.tx # None /\ r.pc \in {"send", "follow"} /\ r.pc # "send" /\ r.pc # "sign"
          /\ r.todo # <<>>
          /\ tx'[r.tx].st \in {"pending", "mined", "dead"}
      BY <2>1, <3>1, <3>2
    <3>5. \A q \in Processes \ {p} :
            proc[q].tx # None =>
              /\ proc[q].tx # r.tx
              /\ \/ tx'[proc[q].tx].st = tx[proc[q].tx].st
                 \/ proc[q].pc = "follow" /\ tx'[proc[q].tx].st \in {"mined", "dead"}
      BY <3>1, <3>3
    <3> QED
      BY <3>1, <3>4, <3>5, HeldStep, Zenon
  <2> QED
    BY <2>4, <2>5, <2>6 DEF TypeInv
<1> QED
  BY <1>0, <1>1, <1>2

LEMMA TypeStep == TypeInv /\ [Next]_vars => TypeInv'
<1> SUFFICES ASSUME TypeInv, [Next]_vars PROVE TypeInv'
  OBVIOUS
<1>1. CASE UNCHANGED vars
  BY <1>1 DEF vars, chain, TypeInv, Shape, LiveOK, HeldOK, Live
<1>2. CASE HealthyPass
  BY <1>1, <1>2 DEF HealthyPass
<1>3. CASE Next
  BY <1>2, <1>3, TypeStepChain, TypeStepBegin, TypeStepEnd, TypeStepTransfer DEF Next, Step
<1> QED
  BY <1>1, <1>3

(* Every balance stays a natural number, every transfer fwd signed and the *)
(* node may still include goes to a registered account with a value within *)
(* the per-transaction cap, and a process refers to a transfer exactly     *)
(* while it sends or follows one - whatever fails.                         *)
THEOREM TypeCorrect == Spec => []TypeOK
<1>1. TypeInv => TypeOK
  BY SlotShape DEF TypeInv, Shape, LiveOK, HeldOK, TypeOK, SlotRecord
<1> QED
  BY InitType, TypeStep, <1>1, PTL DEF Spec
-----------------------------------------------------------------------------
(***************************************************************************)
(* How each step changes the transfers that may still land.                *)
(***************************************************************************)
Places == Slots \cup Processes
Transfer == [to : Accounts, value : 1 .. PerTxCap]

LEMMA InFlightOf ==
  /\ \A i \in Slots :
       InFlight[i] = IF Live(i) THEN [to |-> tx[i].to, value |-> tx[i].value] ELSE None
  /\ \A p \in Processes :
       InFlight[p] = IF Deciding(p) THEN [to |-> Item(p).acct, value |-> proc[p].value] ELSE None
BY BoundsAssumption DEF InFlight

LEMMA InFlightNext ==
  /\ \A i \in Slots :
       InFlight'[i] = IF Live(i)' THEN [to |-> tx'[i].to, value |-> tx'[i].value] ELSE None
  /\ \A p \in Processes :
       InFlight'[p] = IF Deciding(p)' THEN [to |-> Item(p).acct', value |-> proc'[p].value] ELSE None
BY BoundsAssumption DEF InFlight

LEMMA InFlightShape ==
  ASSUME TypeInv
  PROVE  /\ InFlight \in [Places -> Transfer \cup {None}] /\ None \notin Transfer
         /\ \A i \in Slots : InFlight[i] # None <=> Live(i)
         /\ \A p \in Processes : InFlight[p] # None <=> Deciding(p)
<1>1. None \notin Transfer
  BY BoundsAssumption, BandAssumption DEF Transfer
<1>2. ASSUME NEW i \in Slots, Live(i)
      PROVE  [to |-> tx[i].to, value |-> tx[i].value] \in Transfer
  BY <1>2 DEF TypeInv, LiveOK, Transfer
<1>3. ASSUME NEW p \in Processes, Deciding(p)
      PROVE  [to |-> Item(p).acct, value |-> proc[p].value] \in Transfer
  <2>1. proc[p].todo # <<>> /\ proc[p].value # 0 /\ proc[p].value \in 0 .. PerTxCap
    BY <1>3 DEF TypeInv, HeldOK, Shape, Deciding
  <2>2. Item(p).acct \in Accounts
    BY <2>1, ItemShape DEF TypeInv, Line
  <2> QED
    BY <2>1, <2>2, BandAssumption DEF Transfer
<1>4. \A x \in Places : InFlight[x] \in Transfer \cup {None}
  BY <1>2, <1>3, InFlightOf DEF Places
<1>5. InFlight = [x \in Places |-> InFlight[x]]
  BY DEF InFlight, Places
<1> QED
  BY <1>1, <1>2, <1>3, <1>4, <1>5, InFlightOf

LEMMA UnderwayPlaces ==
  ASSUME TypeInv, NEW a
  PROVE  Underway(a) <=> \E x \in Places : InFlight[x] # None /\ InFlight[x].to = a
BY InFlightShape, InFlightOf DEF Underway, Places

(* No transfer that can land is altered: it stays as it was or is given up.*)
Kept == \A x \in Places : InFlight'[x] \in {InFlight[x], None}
SlotsKept ==
  \A j \in Slots : Live(j)' => Live(j) /\ tx'[j].to = tx[j].to /\ tx'[j].value = tx[j].value
ProcsKept == \A q \in Processes : Deciding(q)' => proc'[q] = proc[q]

LEMMA KeptByParts ==
  ASSUME SlotsKept, ProcsKept
  PROVE  Kept
<1>1. \A j \in Slots : InFlight'[j] \in {InFlight[j], None}
  BY InFlightOf, InFlightNext DEF SlotsKept
<1>2. \A q \in Processes : InFlight'[q] \in {InFlight[q], None}
  BY InFlightOf, InFlightNext DEF ProcsKept, Deciding, Item
<1> QED
  BY <1>1, <1>2 DEF Kept, Places

LEMMA MineEffect ==
  ASSUME TypeInv, NEW i \in Slots, Mine(i)
  PROVE  Kept /\ Live(i) /\ InFlight[i] # None /\ InFlight'[i] = None
<1>1. Live(i) /\ tx'[i] = Ended(i, "mined")
  BY DEF Mine, Includable, Live
<1>2. ASSUME NEW j \in Slots, Live(j)'
      PROVE  Live(j) /\ tx'[j].to = tx[j].to /\ tx'[j].value = tx[j].value
  <2>1. CASE tx'[j] = [tx[j] EXCEPT !.nonce = @ - 1] /\ Live(j)
    BY <2>1, SlotShape DEF TypeInv, SlotRecord
  <2>2. CASE tx'[j] = tx[j]
    BY <1>2, <2>2 DEF Live
  <2>3. CASE tx'[j] \in {Ended(j, "mined"), Ended(j, "dead")}
    BY <1>2, <2>3, EndedShape DEF Live
  <2> QED
    BY <2>1, <2>2, <2>3 DEF Mine
<1>3. SlotsKept /\ ~Live(i)'
  BY <1>1, <1>2, EndedShape DEF SlotsKept, Live
<1>4. ProcsKept
  BY DEF Mine, ProcsKept
<1> QED
  BY <1>1, <1>3, <1>4, KeptByParts, InFlightShape, InFlightNext

LEMMA QuietEffect ==
  ASSUME TypeInv, NEW p \in Processes,
         \/ SkipAccount(p) \/ EndPass(p) \/ SignFails(p) \/ Send(p) \/ SendRefused(p)
         \/ Follow(p) \/ Failure(p)
  PROVE  Kept /\ UNCHANGED <<balance, funder, overlapped>>
<1>0. SlotsKept /\ UNCHANGED <<balance, funder, overlapped>>
  <2>1. /\ proc[p].pc = "send" => proc[p].tx \in Slots /\ tx[proc[p].tx].st = "signed"
        /\ \A j \in Slots : tx[j] \in SlotRecord
    BY DEF TypeInv, HeldOK, Shape
  <2>2. CASE SkipAccount(p) \/ EndPass(p) \/ SignFails(p) \/ FeesUnread(p)
    BY <2>2 DEF SkipAccount, EndPass, SignFails, FeesUnread, chain, SlotsKept, Live
  <2>3. CASE Send(p)
    <3>0. /\ proc[p].tx \in Slots /\ tx[proc[p].tx].st = "signed"
          /\ tx'[proc[p].tx] = [tx[proc[p].tx] EXCEPT !.st = "pending"]
          /\ \A j \in Slots \ {proc[p].tx} :
               tx'[j] = tx[j] \/ (tx[j].st = "pending" /\ tx'[j] = Ended(j, "dead"))
      BY <2>3, SendEffect
    <3>1. ASSUME NEW j \in Slots, Live(j)'
          PROVE  Live(j) /\ tx'[j].to = tx[j].to /\ tx'[j].value = tx[j].value
      <4>1. CASE j = proc[p].tx
        BY <2>1, <3>0, <4>1 DEF SlotRecord, Live
      <4>2. CASE j # proc[p].tx
        BY <3>0, <3>1, <4>2, EndedShape DEF Live
      <4> QED
        BY <4>1, <4>2
    <3> QED
      BY <2>3, <3>1 DEF Send, chain, SlotsKept
  <2>4. CASE SendRefused(p)
    <3>1. tx' = [tx EXCEPT ![proc[p].tx] = Free] /\ UNCHANGED <<chain, overlapped>>
      BY <2>4 DEF SendRefused
    <3>2. \A j \in Slots : tx'[j] \in {tx[j], Free}
      BY <3>1 DEF TypeInv, Shape
    <3> QED
      BY <3>1, <3>2 DEF chain, SlotsKept, Live, Free
  <2>5. CASE Follow(p) \/ FollowFails(p)
    <3>1. tx' = Unfollowed(proc[p].tx) /\ UNCHANGED <<chain, overlapped>>
      BY <2>5 DEF Follow, FollowFails
    <3>2. \A j \in Slots : tx'[j] \in {tx[j], Free}
      BY <3>1 DEF TypeInv, Shape, Unfollowed
    <3> QED
      BY <3>1, <3>2 DEF chain, SlotsKept, Live, Free
  <2>6. CASE SendUnanswered(p)
    <3>1. /\ proc[p].pc = "send" /\ tx' = [tx EXCEPT ![proc[p].tx].st = "pending"]
          /\ UNCHANGED <<chain, overlapped>>
      BY <2>6 DEF SendUnanswered
    <3>2. \A j \in Slots : \/ tx'[j] = tx[j]
                           \/ Live(j) /\ tx'[j] = [tx[j] EXCEPT !.st = "pending"]
      BY <2>1, <3>1 DEF TypeInv, Shape, Live
    <3> QED
      BY <2>1, <3>1, <3>2 DEF chain, SlotsKept, Live, SlotRecord
  <2>7. CASE Crash(p)
    <3>1. \A j \in Slots : tx'[j] \in {tx[j], Free}
      BY <2>7 DEF Crash
    <3> QED
      BY <2>7, <3>1 DEF Crash, chain, SlotsKept, Live, Free
  <2> QED
    BY <2>2, <2>3, <2>4, <2>5, <2>6, <2>7 DEF Failure
<1>1. PICK r : proc' = [proc EXCEPT ![p] = r] /\ r.pc # "sign"
  <2>1. Advance(p).pc = "work" /\ Idle.pc = "idle"
    BY DEF Advance, Idle
  <2>2. CASE Send(p)
    <3>1. proc' = [proc EXCEPT ![p] = [proc[p] EXCEPT !.pc = "follow"]]
      BY <2>2 DEF Send, TypeInv, Shape
    <3>2. [proc[p] EXCEPT !.pc = "follow"].pc # "sign"
      BY DEF TypeInv, Shape
    <3> QED
      BY <3>1, <3>2
  <2>3. CASE ~Send(p)
    <3>1. proc' = [proc EXCEPT ![p] = Advance(p)] \/ proc' = [proc EXCEPT ![p] = Idle]
      BY <2>3 DEF SkipAccount, EndPass, SignFails, SendRefused, Follow, Failure, FeesUnread,
                  Abort, SendUnanswered, FollowFails, Crash
    <3> QED
      BY <2>1, <3>1
  <2> QED
    BY <2>2, <2>3
<1>2. ProcsKept
  BY <1>1 DEF ProcsKept, Deciding, TypeInv, Shape
<1> QED
  BY <1>0, <1>2, KeptByParts

LEMMA BeginEffect ==
  ASSUME TypeInv, HealthyPass \/ BeginPass \/ BeginApply
  PROVE  Kept /\ UNCHANGED <<balance, funder, overlapped>>
<1>1. UNCHANGED <<balance, funder, tx, overlapped>>
  BY DEF HealthyPass, BeginPass, BeginApply, chain, vars
<1>2. SlotsKept
  BY <1>1 DEF SlotsKept, Live
<1>3. PICK q, todo : proc' = proc \/ proc' = [proc EXCEPT ![q] = [Idle EXCEPT !.pc = "work", !.todo = todo]]
  BY DEF HealthyPass, BeginPass, BeginApply, vars
<1>4. [Idle EXCEPT !.pc = "work", !.todo = todo].pc = "work"
  BY DEF Idle
<1>5. ProcsKept
  BY <1>3, <1>4 DEF ProcsKept, Deciding, TypeInv, Shape
<1> QED
  BY <1>1, <1>2, <1>5, KeptByParts

LEMMA ReadInFlight ==
  ASSUME TypeInv, NEW p \in Processes, ReadBalance(p)
  PROVE  \E a \in Accounts, v \in 1 .. PerTxCap :
           /\ InFlight[p] = None /\ balance[a] + v <= Upper[a]
           /\ InFlight' = [InFlight EXCEPT ![p] = [to |-> a, value |-> v]]
           /\ overlapped' = IF Underway(a) THEN overlapped \cup {a} ELSE overlapped
           /\ UNCHANGED <<balance, funder>>
<1>1. PICK a \in Accounts, v \in 1 .. PerTxCap :
        /\ proc[p].pc = "work" /\ a = Item(p).acct /\ balance[a] + v <= Upper[a]
        /\ proc' = [proc EXCEPT ![p].pc = "sign", ![p].value = v]
        /\ overlapped' = IF Underway(a) THEN overlapped \cup {a} ELSE overlapped
  BY ReadEffect
<1>2. tx' = tx /\ UNCHANGED <<balance, funder>>
  BY DEF ReadBalance, chain
<1>3. /\ proc'[p].pc = "sign" /\ proc'[p].value = v /\ proc'[p].todo = proc[p].todo
      /\ \A q \in Processes \ {p} : proc'[q] = proc[q]
  BY <1>1 DEF TypeInv, Shape
<1>4. InFlight[p] = None /\ InFlight'[p] = [to |-> a, value |-> v]
  BY <1>1, <1>3, InFlightOf, InFlightNext DEF Deciding, Item
<1>5. ASSUME NEW x \in Places \ {p} PROVE InFlight'[x] = InFlight[x]
  <2>1. CASE x \in Slots
    BY <1>2, <2>1, InFlightOf, InFlightNext DEF Live
  <2>2. CASE x \in Processes
    BY <1>3, <2>2, InFlightOf, InFlightNext DEF Deciding, Item
  <2> QED
    BY <2>1, <2>2 DEF Places
<1>6. InFlight' = [x \in Places |-> InFlight'[x]]
  BY DEF InFlight, Places
<1>7. InFlight' = [InFlight EXCEPT ![p] = [to |-> a, value |-> v]]
  BY <1>4, <1>5, <1>6, InFlightShape DEF Places
<1> QED
  BY <1>1, <1>2, <1>4, <1>7

LEMMA SignInFlight ==
  ASSUME TypeInv, NEW p \in Processes, Sign(p)
  PROVE  \E i \in Slots :
           /\ InFlight[p] # None /\ InFlight[i] = None
           /\ InFlight' = [InFlight EXCEPT ![p] = None, ![i] = InFlight[p]]
           /\ UNCHANGED <<balance, funder, overlapped>>
<1>1. PICK i \in Slots :
        /\ proc[p].pc = "sign" /\ tx[i] = Free
        /\ tx' = [tx EXCEPT ![i] = [st |-> "signed", to |-> Item(p).acct,
                                    value |-> proc[p].value, nonce |-> fwdNonce]]
        /\ proc' = [proc EXCEPT ![p].pc = "send", ![p].value = 0, ![p].tx = i]
  BY SignEffect
<1>2. UNCHANGED <<balance, funder, overlapped>>
  BY DEF Sign, chain
<1>3. /\ tx'[i].st = "signed" /\ tx'[i].to = Item(p).acct /\ tx'[i].value = proc[p].value
      /\ \A j \in Slots \ {i} : tx'[j] = tx[j]
      /\ proc'[p].pc = "send" /\ \A q \in Processes \ {p} : proc'[q] = proc[q]
  BY <1>1 DEF TypeInv, Shape
<1>4. Deciding(p) /\ ~Live(i) /\ Live(i)' /\ ~Deciding(p)'
  BY <1>1, <1>3 DEF Deciding, Live, Free
<1>5. /\ InFlight[p] # None /\ InFlight[i] = None /\ InFlight'[p] = None
      /\ InFlight'[i] = InFlight[p]
  BY <1>3, <1>4, InFlightShape, InFlightOf, InFlightNext
<1>6. ASSUME NEW x \in Places \ {p, i} PROVE InFlight'[x] = InFlight[x]
  <2>1. CASE x \in Slots
    BY <1>3, <2>1, InFlightOf, InFlightNext DEF Live
  <2>2. CASE x \in Processes
    BY <1>3, <2>2, InFlightOf, InFlightNext DEF Deciding, Item
  <2> QED
    BY <2>1, <2>2 DEF Places
<1>7. InFlight' = [x \in Places |-> InFlight'[x]]
  BY DEF InFlight, Places
<1>8. InFlight' = [InFlight EXCEPT ![p] = None, ![i] = InFlight[p]]
  BY <1>5, <1>6, <1>7, InFlightShape DEF Places
<1> QED
  BY <1>2, <1>5, <1>8
-----------------------------------------------------------------------------
(* From the reading a transfer is decided on to the transfer's end, an     *)
(* account that only one transfer can reach has room for it below its      *)
(* band's upper bound.                                                     *)
Bound(x, a) == InFlight[x] # None /\ InFlight[x].to = a

RoomOK ==
  \A a \in Accounts \ overlapped :
    /\ balance[a] <= Upper[a]
    /\ \A x \in Places : Bound(x, a) => balance[a] + InFlight[x].value <= Upper[a]
    /\ \A x, y \in Places : Bound(x, a) /\ Bound(y, a) => x = y

LEMMA InitRoom == Init => RoomOK
<1> SUFFICES ASSUME Init PROVE RoomOK
  OBVIOUS
<1>1. \A x \in Places : InFlight[x] = None
  BY InFlightOf DEF Init, Places, Live, Free, Deciding, Idle
<1> QED
  BY <1>1, BandAssumption DEF Init, RoomOK, Bound

(* With the transfers kept or given up and no balance raised, the room is  *)
(* still there.                                                            *)
LEMMA RoomKept ==
  ASSUME TypeInv, RoomOK, Kept, overlapped' = overlapped,
         \A a \in Accounts : balance'[a] \in Nat /\ balance'[a] <= balance[a]
  PROVE  RoomOK'
<1>1. ASSUME NEW a \in Accounts \ overlapped
      PROVE  /\ balance'[a] <= Upper[a]
             /\ \A x \in Places : Bound(x, a)' => balance'[a] + InFlight'[x].value <= Upper[a]
             /\ \A x, y \in Places : Bound(x, a)' /\ Bound(y, a)' => x = y
  <2>1. balance[a] \in Nat /\ Upper[a] \in Nat /\ balance[a] <= Upper[a]
    BY BandAssumption DEF TypeInv, Shape, RoomOK
  <2>2. \A x \in Places : Bound(x, a)' => Bound(x, a) /\ InFlight'[x] = InFlight[x]
    BY DEF Kept, Bound
  <2>3. ASSUME NEW x \in Places, Bound(x, a)'
        PROVE  balance'[a] + InFlight'[x].value <= Upper[a]
    <3>1. InFlight[x].value \in Nat /\ balance[a] + InFlight[x].value <= Upper[a]
      BY <2>2, <2>3, InFlightShape DEF RoomOK, Bound, Transfer
    <3> QED
      BY <2>1, <2>2, <2>3, <3>1
  <2> QED
    BY <2>1, <2>2, <2>3 DEF RoomOK
<1> QED
  BY <1>1 DEF RoomOK

LEMMA RoomMine ==
  ASSUME TypeInv, RoomOK, NEW i \in Slots, Mine(i)
  PROVE  RoomOK'
<1>1. /\ Kept /\ Live(i) /\ InFlight[i] # None /\ InFlight'[i] = None /\ overlapped' = overlapped
      /\ balance' = [balance EXCEPT ![tx[i].to] = @ + tx[i].value]
  BY MineEffect DEF Mine
<1>2. i \in Places /\ InFlight[i].to = tx[i].to /\ InFlight[i].value = tx[i].value
  <2>1. InFlight[i] = [to |-> tx[i].to, value |-> tx[i].value]
    BY <1>1, InFlightOf
  <2> QED
    BY <2>1 DEF Places
<1>3. ASSUME NEW a \in Accounts \ overlapped
      PROVE  /\ balance'[a] <= Upper[a]
             /\ \A x \in Places : Bound(x, a)' => balance'[a] + InFlight'[x].value <= Upper[a]
             /\ \A x, y \in Places : Bound(x, a)' /\ Bound(y, a)' => x = y
  <2>1. \A x \in Places : Bound(x, a)' => Bound(x, a) /\ InFlight'[x] = InFlight[x]
    BY <1>1 DEF Kept, Bound
  <2>2. \A x, y \in Places : Bound(x, a)' /\ Bound(y, a)' => x = y
    BY <2>1 DEF RoomOK
  <2>3. CASE tx[i].to = a
    <3>1. balance'[a] = balance[a] + tx[i].value /\ Bound(i, a)
      BY <1>1, <1>2, <2>3 DEF TypeInv, Shape, Bound
    <3>2. balance'[a] <= Upper[a]
      BY <1>2, <3>1 DEF RoomOK
    <3>3. \A x \in Places : ~Bound(x, a)'
      BY <1>1, <1>2, <2>1, <3>1 DEF RoomOK, Bound
    <3> QED
      BY <2>2, <3>2, <3>3
  <2>4. CASE tx[i].to # a
    <3>1. balance'[a] = balance[a]
      BY <1>1, <2>4 DEF TypeInv, Shape
    <3> QED
      BY <2>1, <2>2, <3>1 DEF RoomOK
  <2> QED
    BY <2>3, <2>4
<1> QED
  BY <1>1, <1>3 DEF RoomOK

LEMMA RoomRead ==
  ASSUME TypeInv, RoomOK, NEW p \in Processes, ReadBalance(p)
  PROVE  RoomOK'
<1>1. PICK a \in Accounts, v \in 1 .. PerTxCap :
        /\ InFlight[p] = None /\ balance[a] + v <= Upper[a]
        /\ InFlight' = [InFlight EXCEPT ![p] = [to |-> a, value |-> v]]
        /\ overlapped' = IF Underway(a) THEN overlapped \cup {a} ELSE overlapped
        /\ UNCHANGED <<balance, funder>>
  BY ReadInFlight
<1>2. /\ p \in Places /\ InFlight'[p] = [to |-> a, value |-> v]
      /\ \A x \in Places \ {p} : InFlight'[x] = InFlight[x]
  BY <1>1, InFlightShape DEF Places
<1>3. ASSUME NEW b \in Accounts \ overlapped'
      PROVE  /\ balance'[b] <= Upper[b]
             /\ \A x \in Places : Bound(x, b)' => balance'[b] + InFlight'[x].value <= Upper[b]
             /\ \A x, y \in Places : Bound(x, b)' /\ Bound(y, b)' => x = y
  <2>1. b \in Accounts \ overlapped
    BY <1>1
  <2>2. b = a => \A x \in Places : ~Bound(x, a)
    BY <1>1, UnderwayPlaces DEF Bound
  <2>3. \A x \in Places \ {p} : Bound(x, b)' <=> Bound(x, b)
    BY <1>2 DEF Bound
  <2>4. Bound(p, b)' => b = a
    BY <1>2 DEF Bound
  <2> QED
    BY <1>1, <1>2, <2>1, <2>2, <2>3, <2>4 DEF RoomOK
<1> QED
  BY <1>3 DEF RoomOK

LEMMA RoomSign ==
  ASSUME TypeInv, RoomOK, NEW p \in Processes, Sign(p)
  PROVE  RoomOK'
<1>1. PICK i \in Slots :
        /\ InFlight[p] # None /\ InFlight[i] = None
        /\ InFlight' = [InFlight EXCEPT ![p] = None, ![i] = InFlight[p]]
        /\ UNCHANGED <<balance, funder, overlapped>>
  BY SignInFlight
<1>2. /\ p \in Places /\ i \in Places /\ InFlight'[p] = None /\ InFlight'[i] = InFlight[p]
      /\ \A x \in Places \ {p, i} : InFlight'[x] = InFlight[x]
  BY <1>1, InFlightShape DEF Places
<1>3. ASSUME NEW b \in Accounts \ overlapped
      PROVE  /\ balance'[b] <= Upper[b]
             /\ \A x \in Places : Bound(x, b)' => balance'[b] + InFlight'[x].value <= Upper[b]
             /\ \A x, y \in Places : Bound(x, b)' /\ Bound(y, b)' => x = y
  <2>1. /\ ~Bound(p, b)' /\ (Bound(i, b)' <=> Bound(p, b))
        /\ \A x \in Places \ {p, i} : Bound(x, b)' <=> Bound(x, b)
    BY <1>1, <1>2 DEF Bound
  <2> QED
    BY <1>1, <1>2, <2>1 DEF RoomOK
<1> QED
  BY <1>1, <1>3 DEF RoomOK

LEMMA RoomStep == TypeInv /\ RoomOK /\ [Next]_vars => RoomOK'
<1> SUFFICES ASSUME TypeInv, RoomOK, [Next]_vars PROVE RoomOK'
  OBVIOUS
<1>1. \A a \in Accounts : balance[a] \in Nat
  BY DEF TypeInv, Shape
<1>2. CASE UNCHANGED vars
  <2>1. Kept /\ UNCHANGED <<balance, overlapped>>
    BY <1>2, KeptByParts DEF vars, chain, SlotsKept, ProcsKept, Live
  <2> QED
    BY <1>1, <2>1, RoomKept
<1>3. ASSUME NEW a \in Accounts, Spend(a) PROVE RoomOK'
  <2>1. Kept /\ overlapped' = overlapped
    BY <1>3, KeptByParts DEF Spend, SlotsKept, ProcsKept, Live
  <2>2. PICK n \in 1 .. balance[a] : balance' = [balance EXCEPT ![a] = @ - n]
    BY <1>3 DEF Spend
  <2>3. \A b \in Accounts : balance'[b] \in Nat /\ balance'[b] <= balance[b]
    BY <1>1, <2>2 DEF TypeInv, Shape
  <2> QED
    BY <2>1, <2>3, RoomKept
<1>4. CASE HealthyPass \/ BeginPass \/ BeginApply
  <2>1. Kept /\ UNCHANGED <<balance, funder, overlapped>>
    BY <1>4, BeginEffect
  <2> QED
    BY <1>1, <2>1, RoomKept
<1>5. ASSUME NEW p \in Processes, Step(p) \/ Failure(p) PROVE RoomOK'
  <2>1. CASE ReadBalance(p) \/ Sign(p)
    BY <2>1, RoomRead, RoomSign
  <2>2. CASE ~(ReadBalance(p) \/ Sign(p))
    <3>1. Kept /\ UNCHANGED <<balance, funder, overlapped>>
      BY <1>5, <2>2, QuietEffect DEF Step
    <3> QED
      BY <1>1, <3>1, RoomKept
  <2> QED
    BY <2>1, <2>2
<1> QED
  BY <1>2, <1>3, <1>4, <1>5, RoomMine DEF Next

(* apply_plan's "never overfund", for every plan, registry and schedule of *)
(* the two processes, the node and the faults: an account above its band   *)
(* is one whose balance was read for a top-up while another to it was      *)
(* decided or could still land.                                            *)
THEOREM NeverOverfundedHolds == Spec => []NeverOverfunded
<1>1. RoomOK => NeverOverfunded
  BY DEF RoomOK, NeverOverfunded
<1> QED
  BY InitType, TypeStep, InitRoom, RoomStep, <1>1, PTL DEF Spec
-----------------------------------------------------------------------------
(***************************************************************************)
(* The refinement: a decided transfer moves from its process to fwd's      *)
(* record and from there to the account, or is given up.                   *)
(***************************************************************************)
LEMMA DropStep ==
  ASSUME Kept, UNCHANGED <<balance, funder>>
  PROVE  Band!Next
<1>0. PICK F \in SUBSET Places : F = {x \in Places : InFlight'[x] = None}
  OBVIOUS
<1>1. InFlight' = [x \in Places |-> InFlight'[x]]
  BY DEF InFlight, Places
<1>2. InFlight' = [x \in Places |-> IF x \in F THEN None ELSE InFlight[x]]
  BY <1>0, <1>1 DEF Kept
<1>3. Band!Drop(F)
  BY <1>2 DEF Band!Drop, Places
<1> QED
  BY <1>3 DEF Band!Next, Places

LEMMA LandStep ==
  ASSUME TypeInv, NEW i \in Slots, Mine(i)
  PROVE  Band!Next
<1>0. PICK F \in SUBSET Places : F = {x \in Places : InFlight'[x] = None}
  OBVIOUS
<1>1. i \in F /\ Live(i) /\ InFlight[i] # None /\ Kept
  BY <1>0, MineEffect DEF Places
<1>2. InFlight' = [x \in Places |-> InFlight'[x]]
  BY DEF InFlight, Places
<1>3. InFlight' = [x \in Places |-> IF x = i \/ x \in F THEN None ELSE InFlight[x]]
  BY <1>0, <1>1, <1>2 DEF Kept
<1>4. InFlight[i].to = tx[i].to /\ InFlight[i].value = tx[i].value
  <2>1. InFlight[i] = [to |-> tx[i].to, value |-> tx[i].value]
    BY <1>1, InFlightOf
  <2> QED
    BY <2>1
<1>5. /\ InFlight[i].value <= funder
      /\ balance' = [balance EXCEPT ![InFlight[i].to] = @ + InFlight[i].value]
      /\ funder' = funder - InFlight[i].value
  BY <1>4 DEF Mine, Includable
<1>6. Band!Land(i, F)
  BY <1>1, <1>3, <1>5 DEF Band!Land, Places
<1> QED
  BY <1>6 DEF Band!Next, Places

LEMMA DecideStep ==
  ASSUME TypeInv, NEW p \in Processes, ReadBalance(p)
  PROVE  Band!Next
<1>1. PICK a \in Accounts, v \in 1 .. PerTxCap :
        /\ InFlight[p] = None /\ balance[a] + v <= Upper[a]
        /\ InFlight' = [InFlight EXCEPT ![p] = [to |-> a, value |-> v]]
        /\ UNCHANGED <<balance, funder>>
  BY ReadInFlight
<1>2. v \in 1 .. Upper[a] - balance[a]
  BY <1>1, BandAssumption DEF TypeInv, Shape
<1>3. Band!Decide(p)
  BY <1>1, <1>2 DEF Band!Decide
<1> QED
  BY <1>3 DEF Band!Next

LEMMA TakeOnStep ==
  ASSUME TypeInv, NEW p \in Processes, Sign(p)
  PROVE  Band!Next
<1>1. PICK i \in Slots :
        /\ InFlight[p] # None /\ InFlight[i] = None
        /\ InFlight' = [InFlight EXCEPT ![p] = None, ![i] = InFlight[p]]
        /\ UNCHANGED <<balance, funder>>
  BY SignInFlight
<1>2. Band!TakeOn(p, i)
  BY <1>1 DEF Band!TakeOn
<1> QED
  BY <1>2 DEF Band!Next

LEMMA BandStep == TypeInv /\ [Next]_vars => [Band!Next]_(Band!vars)
<1> SUFFICES ASSUME TypeInv, [Next]_vars PROVE Band!Next \/ UNCHANGED Band!vars
  OBVIOUS
<1>2. CASE UNCHANGED vars
  <2>1. Kept /\ UNCHANGED <<balance, funder>>
    BY <1>2, KeptByParts DEF vars, chain, SlotsKept, ProcsKept, Live
  <2> QED
    BY <2>1, DropStep
<1>3. ASSUME NEW a \in Accounts, Spend(a) PROVE Band!Next
  <2>1. PICK n \in 1 .. balance[a] : balance' = [balance EXCEPT ![a] = @ - n]
    BY <1>3 DEF Spend
  <2>2. balance[a] - n \in 0 .. balance[a] - 1
    BY <2>1 DEF TypeInv, Shape
  <2>3. UNCHANGED <<funder, InFlight>>
    BY <1>3 DEF Spend, InFlight, Live, Deciding, Item
  <2>4. Band!Spend(a)
    BY <2>1, <2>2, <2>3 DEF Band!Spend
  <2> QED
    BY <2>4 DEF Band!Next
<1>4. CASE HealthyPass \/ BeginPass \/ BeginApply
  BY <1>4, BeginEffect, DropStep
<1>5. ASSUME NEW p \in Processes, Step(p) \/ Failure(p) PROVE Band!Next
  <2>1. CASE ~(ReadBalance(p) \/ Sign(p))
    BY <1>5, <2>1, QuietEffect, DropStep DEF Step
  <2> QED
    BY <2>1, DecideStep, TakeOnStep
<1> QED
  BY <1>2, <1>3, <1>4, <1>5, LandStep DEF Next

(* The protocol with its two processes, stale readings, lost answers,      *)
(* replaced and dropped transfers, aborted passes and crashes implements   *)
(* BandKeeper: value leaves the funder only to a registered account, in a  *)
(* transfer that fitted below its band by the reading it was decided on,   *)
(* one for each reading, and lands at most once.                           *)
THEOREM KeepsBandHolds == Spec => KeepsBand
<1>1. Init => Band!Init
  BY BandAssumption, BoundsAssumption DEF Init, Band!Init, InFlight, Live, Free, Deciding, Idle
<1> QED
  BY InitType, TypeStep, BandStep, <1>1, PTL DEF Spec, KeepsBand, Band!Spec
=============================================================================
