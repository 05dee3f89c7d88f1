--------------------------- MODULE ObserverProofs ---------------------------
(***************************************************************************)
(* The observer, for every round length, epoch length, lookback, chunk and *)
(* number of faults: the types; that a ledger record is what the chain     *)
(* says of its round, and makes nothing up where bodies were withheld;     *)
(* that no round the engine has passed is missing from the ledger, unless  *)
(* a node withheld it or the disk lost it; that a record is never          *)
(* rewritten; and that the header and the registration answer belong to    *)
(* the epoch on show.                                                      *)
(***************************************************************************)
EXTENDS Observer, OrderLemmas, FiniteSetTheorems

(* The last block whose transactions of ours are in `rounds`.              *)
ReadTo == IF pc = "finalize" THEN cursor ELSE cursor - 1

(* x is the state of a round of which the transactions acts and the events *)
(* evs were read, each once, under the plan p.                             *)
Reveals(acts) == "reveal" \in acts \/ "lateReveal" \in acts
Built(x, acts, evs, p) ==
  /\ x.s1 <=> "commit" \in acts
  /\ x.s2 <=> Reveals(acts)
  /\ x.late <=> "lateReveal" \in acts
  /\ x.bad <=> Reveals(acts) /\ "mismatch" \in p
  /\ x.bit <=> Reveals(acts) /\ "bitvote" \in p
  /\ x.req = (IF "req" \in evs THEN 1 ELSE 0) /\ x.fu = (IF "fu" \in evs THEN 1 ELSE 0)

(* What this run of the engine has read of round r.                        *)
SeenTxs(r)    == {a \in plan[r] \cap Txs : TxBlock(r, a) \in startTs .. ReadTo}
SeenEvents(r) == IF EventBlock(r) \in startTs .. (scanLo - 1) THEN plan[r] \cap Events ELSE {}
AsReadOf(x, acts, evs, p) == IF acts = {} /\ evs = {} THEN x = None
                             ELSE x # None /\ Built(x, acts, evs, p)
(* Where the node withheld bodies, some of the transactions only.          *)
AsRead(r) ==
  \E acts \in SUBSET SeenTxs(r) :
    /\ r \notin withheld => acts = SeenTxs(r)
    /\ AsReadOf(rounds[r], acts, SeenEvents(r), plan[r])

(* Where the engine is: the blocks from startTs on are read in order, and  *)
(* events trail transactions by less than a chunk.                         *)
ScanOK ==
  /\ pc \in PC /\ tip \in 1 .. MaxBlock
  /\ cursor \in 1 .. MaxBlock + 1 /\ scanLo \in 1 .. MaxBlock + 1
  /\ last \in 0 .. MaxBlock /\ head \in 0 .. MaxBlock /\ startTs \in 0 .. MaxBlock
  /\ since \in 0 .. StatusEvery
  /\ pc # "down" =>
       /\ 1 <= startTs /\ startTs <= scanLo /\ startTs <= last /\ last <= cursor
       /\ scanLo <= ReadTo + 1 /\ last <= tip /\ head <= tip
  /\ pc = "finalize" => last = cursor /\ cursor - scanLo + 1 < Chunk

InFlight == [Round -> RoundState \cup {None}]
Ledger   == [Round -> LedgerRecord \cup {None}]

(* What is held in memory and on disk.                                     *)
FileShape == \E s, rs, t, g : file = [status |-> s, recs |-> rs, torn |-> t, gaps |-> g]
FileOK ==
  /\ FileShape
  /\ file.recs \in Ledger /\ file.torn \in BOOLEAN /\ file.gaps \subseteq Gap /\ gaps \subseteq Gap
  /\ file.status.last \in 0 .. tip
  /\ rounds \in InFlight /\ recs \in Ledger /\ catching \in BOOLEAN
  /\ origin = None \/ origin \in Nat

RegType == [epoch : Epoch \cup {None}, yes : BOOLEAN \cup {None}, fresh : BOOLEAN]
BudType == [sev : {"unknown", "OK", "WARN", "CRIT"}, fresh : BOOLEAN]

(* No epoch the engine knows is ahead of the rounds on chain, and only a   *)
(* blind start leaves the ledger's epoch unknown.                          *)
EpochsOK ==
  /\ epochNow \in Epoch /\ epochNow <= EpochOf(RoundOf(tip))
  /\ reg \in RegType /\ bud \in BudType /\ mepoch \in Epoch \cup {None}
  /\ mepoch # None => mepoch <= EpochOf(RoundOf(tip))
  /\ reg.epoch # None => reg.epoch <= EpochOf(RoundOf(tip))
  /\ pc # "down" /\ mepoch = None => blind
  /\ pc # "down" /\ ~blind => reg.epoch # None
  /\ RegistrationNotStale /\ HeaderKeepsUp

(* Memory and disk agree but for what the disk lost, and a round that is   *)
(* not in the ledger yet is in flight with exactly what was read of it.    *)
LedgerOK ==
  /\ pc # "down" =>
       \A r \in Round : Retainable(r) =>
         /\ r \notin lost => recs[r] = file.recs[r]
         /\ ~Boundary(r) /\ recs[r] = None =>
              /\ SeenTxs(r) # {} /\ r \notin withheld => rounds[r] # None
              /\ r \notin tainted => AsRead(r)
  /\ LedgerExact

(* Coverage: what the last status claims is in the ledger, unless the next *)
(* start gives it up; so is what a run leaves to its predecessors, and     *)
(* what it has passed itself, the last though the disk may have lost it.   *)
StatusCovered ==
  file.status.last # 0 /\ ~CapBites(tip, file.status.last) =>
    \A r \in Round : Owed(r) /\ r \notin lost /\ EndS(r + 1) < file.status.last
                     => file.recs[r] # None
InheritedCovered ==
  pc # "down" =>
    \A r \in Round : Owed(r) /\ r \notin lost /\ Boundary(r) => file.recs[r] # None
PassedCovered ==
  pc \notin {"down", "finalize"} =>
    \A r \in Round : Owed(r) /\ ~Boundary(r) /\ EndS(r + 1) < last => recs[r] # None
CoverOK ==
  /\ plan[0] = {}
  /\ pc # "down" \/ file.status.last # 0 => origin # None
  /\ StatusCovered /\ InheritedCovered /\ PassedCovered
-----------------------------------------------------------------------------
(***************************************************************************)
(* Rounds and epochs in time.                                              *)
(***************************************************************************)
LEMMA RoundOfFacts ==
  ASSUME NEW b \in Nat
  PROVE  RoundOf(b) \in Nat /\ StartS(RoundOf(b)) <= b /\ b < EndS(RoundOf(b))
BY BoundsAssumption DEF RoundOf, StartS, EndS

LEMMA RoundTimes ==
  ASSUME NEW r \in Nat
  PROVE  /\ StartS(r) \in Nat /\ EndS(r) = StartS(r) + RoundLen
         /\ EndS(r + 1) = StartS(r) + 2 * RoundLen /\ EndS(r + 2) = StartS(r) + 3 * RoundLen
         /\ r # 0 => StartS(r) >= RoundLen
BY BoundsAssumption DEF StartS, EndS

LEMMA RoundMono ==
  ASSUME NEW r \in Nat, NEW b \in Nat, StartS(r) <= b
  PROVE  r <= RoundOf(b)
<1> DEFINE q == RoundOf(b)
<1>1. q \in Nat /\ b < (q + 1) * RoundLen /\ r * RoundLen <= b /\ RoundLen \in Nat
  BY BoundsAssumption, RoundOfFacts DEF StartS, EndS
<1> HIDE DEF q
<1>2. ASSUME q + 1 <= r PROVE FALSE
  <2>1. PICK k \in Nat : r = (q + 1) + k
    BY <1>1, <1>2
  <2>2. r * RoundLen = (q + 1) * RoundLen + k * RoundLen /\ k * RoundLen \in Nat
    BY <1>1, <2>1
  <2> QED
    BY <1>1, <2>2
<1>3. r <= q
  BY <1>1, <1>2
<1> QED
  BY <1>3 DEF q

LEMMA EpochMono ==
  ASSUME NEW r \in Nat, NEW s \in Nat, r <= s
  PROVE  EpochOf(r) \in Nat /\ EpochOf(s) \in Nat /\ EpochOf(r) <= EpochOf(s)
BY BoundsAssumption DEF EpochOf

LEMMA TipEpoch ==
  ASSUME NEW a \in Nat, NEW b \in Nat, a <= b
  PROVE  /\ EpochOf(RoundOf(a)) \in Nat /\ EpochOf(RoundOf(b)) \in Nat
         /\ EpochOf(RoundOf(a)) <= EpochOf(RoundOf(b))
<1>1. RoundOf(a) \in Nat /\ RoundOf(b) \in Nat /\ StartS(RoundOf(a)) <= b
  BY RoundOfFacts, RoundTimes
<1>2. RoundOf(a) <= RoundOf(b)
  BY <1>1, RoundMono
<1> QED
  BY <1>1, <1>2, EpochMono

LEMMA RoundType == Round \subseteq Nat /\ IsFiniteSet(Round)
BY BoundsAssumption, RoundOfFacts, FS_Interval DEF Round

(* A round that is over at block b began in the epoch of b or before.      *)
LEMMA EpochOfDue ==
  ASSUME NEW r \in Nat, NEW b \in Nat, EndS(r + 1) < b
  PROVE  EpochOf(r) \in Nat /\ EpochOf(r) <= EpochOf(RoundOf(b))
<1>1. StartS(r) <= b
  BY RoundTimes, BoundsAssumption
<1>2. r <= RoundOf(b) /\ RoundOf(b) \in Nat
  BY <1>1, RoundMono, RoundOfFacts
<1> QED
  BY <1>2, EpochMono
-----------------------------------------------------------------------------
(***************************************************************************)
(* What is kept of a round.                                                *)
(***************************************************************************)
LEMMA NewRoundFacts ==
  NewRound \in RoundState /\ NewRound # None /\ \A p : Built(NewRound, {}, {}, p)
<1>1. NewRound \in RoundState
  BY DEF NewRound, RoundState
<1>2. \A p : Built(NewRound, {}, {}, p)
  BY DEF NewRound, Built, Reveals
<1> QED
  BY <1>1, <1>2, NoneAssumption

LEMMA WithTxsFacts ==
  ASSUME NEW x \in RoundState, NEW more, NEW p
  PROVE  /\ WithTxs(x, more, p) \in RoundState
         /\ \A acts, evs : Built(x, acts, evs, p) => Built(WithTxs(x, more, p), acts \cup more, evs, p)
<1> DEFINE y == WithTxs(x, more, p)
<1>1. y \in RoundState
  BY DEF WithTxs, RoundState
<1>2. /\ y.s1 <=> x.s1 \/ "commit" \in more
      /\ y.s2 <=> x.s2 \/ Reveals(more)
      /\ y.late <=> x.late \/ "lateReveal" \in more
      /\ y.bad <=> x.bad \/ (Reveals(more) /\ "mismatch" \in p)
      /\ y.bit <=> x.bit \/ (Reveals(more) /\ "bitvote" \in p)
      /\ y.req = x.req /\ y.fu = x.fu
  BY DEF WithTxs, RoundState, Reveals
<1> HIDE DEF y
<1>3. ASSUME NEW acts, NEW evs, Built(x, acts, evs, p) PROVE Built(y, acts \cup more, evs, p)
  <2>1. Reveals(acts \cup more) <=> Reveals(acts) \/ Reveals(more)
    BY DEF Reveals
  <2> QED
    BY <1>2, <1>3, <2>1 DEF Built
<1> QED
  BY <1>1, <1>3 DEF y

LEMMA WithEventsFacts ==
  ASSUME NEW x \in RoundState, NEW more
  PROVE  /\ WithEvents(x, more) \in RoundState
         /\ \A acts, evs, p : Built(x, acts, evs, p) /\ evs \cap more = {}
                                => Built(WithEvents(x, more), acts, evs \cup more, p)
<1> DEFINE y == WithEvents(x, more)
           v == x.req + (IF "req" \in more THEN 1 ELSE 0)
           w == x.fu + (IF "fu" \in more THEN 1 ELSE 0)
<1>1. v \in Nat /\ w \in Nat
  BY DEF RoundState
<1>2. y = [x EXCEPT !.req = v, !.fu = w]
  BY DEF WithEvents
<1>3. /\ \A acts, evs, p : Built(x, acts, evs, p) /\ evs \cap more = {} =>
           v = (IF "req" \in evs \cup more THEN 1 ELSE 0) /\ w = (IF "fu" \in evs \cup more THEN 1 ELSE 0)
  BY DEF Built
<1> HIDE DEF y, v, w
<1>4. /\ y \in RoundState /\ y.req = v /\ y.fu = w
      /\ y.s1 = x.s1 /\ y.s2 = x.s2 /\ y.late = x.late /\ y.bad = x.bad /\ y.bit = x.bit
  BY <1>1, <1>2 DEF RoundState
<1>5. ASSUME NEW acts, NEW evs, NEW p, Built(x, acts, evs, p), evs \cap more = {}
      PROVE  Built(y, acts, evs \cup more, p)
  BY <1>3, <1>4, <1>5 DEF Built
<1> QED
  BY <1>4, <1>5 DEF y

LEMMA GetFacts ==
  ASSUME NEW rs \in InFlight, NEW r \in Round
  PROVE  Get(rs, r) \in RoundState /\ (rs[r] = None => Get(rs, r) = NewRound)
         /\ (rs[r] # None => Get(rs, r) = rs[r])
BY NewRoundFacts DEF Get, InFlight

(* One more block of transactions: b is the block after the last one read. *)
LEMMA RecordFacts ==
  ASSUME NEW rs \in InFlight, NEW b
  PROVE  /\ Record(rs, b) \in InFlight
         /\ \A r \in Round :
              LET acts == {a \in plan[r] \cap Txs : TxBlock(r, a) = b}
              IN  /\ acts = {} => Record(rs, b)[r] = rs[r]
                  /\ acts # {} => /\ Record(rs, b)[r] # None
                                  /\ Record(rs, b)[r] = WithTxs(Get(rs, r), acts, plan[r])
<1> DEFINE A(r) == {a \in plan[r] \cap Txs : TxBlock(r, a) = b}
           R == Record(rs, b)
<1>1. R = [r \in Round |-> IF A(r) = {} THEN rs[r] ELSE WithTxs(Get(rs, r), A(r), plan[r])]
  BY Zenon DEF Record
<1> HIDE DEF A, R
<1>2. ASSUME NEW r \in Round
      PROVE  /\ R[r] \in RoundState \cup {None}
             /\ A(r) = {} => R[r] = rs[r]
             /\ A(r) # {} => R[r] # None /\ R[r] = WithTxs(Get(rs, r), A(r), plan[r])
  <2>1. WithTxs(Get(rs, r), A(r), plan[r]) \in RoundState
    BY GetFacts, WithTxsFacts
  <2>2. rs[r] \in RoundState \cup {None}
    BY DEF InFlight
  <2> QED
    BY <1>1, <2>1, <2>2, NoneAssumption
<1>3. R \in InFlight
  BY <1>1, <1>2 DEF InFlight
<1> QED
  BY <1>2, <1>3, Zenon DEF A, R

LEMMA FlushFacts ==
  ASSUME NEW rs \in InFlight, NEW lo, NEW hi, NEW answering
  PROVE  /\ Flush(rs, lo, hi, answering) \in InFlight
         /\ \A r \in Round :
              LET evs == Emitted(r, lo, hi) \cap answering
              IN  /\ evs = {} => Flush(rs, lo, hi, answering)[r] = rs[r]
                  /\ evs # {} => /\ Flush(rs, lo, hi, answering)[r] # None
                                 /\ Flush(rs, lo, hi, answering)[r] = WithEvents(Get(rs, r), evs)
<1> DEFINE E(r) == Emitted(r, lo, hi) \cap answering
           R == Flush(rs, lo, hi, answering)
<1>1. R = [r \in Round |-> IF E(r) = {} THEN rs[r] ELSE WithEvents(Get(rs, r), E(r))]
  BY Zenon DEF Flush
<1> HIDE DEF E, R
<1>2. ASSUME NEW r \in Round
      PROVE  /\ R[r] \in RoundState \cup {None}
             /\ E(r) = {} => R[r] = rs[r]
             /\ E(r) # {} => R[r] # None /\ R[r] = WithEvents(Get(rs, r), E(r))
  <2>1. WithEvents(Get(rs, r), E(r)) \in RoundState
    BY GetFacts, WithEventsFacts
  <2>2. rs[r] \in RoundState \cup {None}
    BY DEF InFlight
  <2> QED
    BY <1>1, <2>1, <2>2, NoneAssumption
<1>3. R \in InFlight
  BY <1>1, <1>2 DEF InFlight
<1> QED
  BY <1>2, <1>3, Zenon DEF E, R

(* The record of a round, and when it is the chain's.                      *)
LEMMA RecordOfFacts ==
  ASSUME NEW x \in RoundState, NEW backfilling \in BOOLEAN
  PROVE  LET y == RecordOf(x, backfilling)
         IN  /\ y \in LedgerRecord
             /\ y.s1 <=> x.s1
             /\ y.s2 <=> x.s2
             /\ y.cl <=> x.s1 /\ x.s2 /\ ~x.late /\ ~x.bad
             /\ y.ro <=> x.s1 /\ (~x.s2 \/ x.bad) /\ ~backfilling
             /\ y.fexp <=> x.req > 0
             /\ y.fok <=> x.req > 0 /\ x.bit
             /\ y.fu = x.fu
<1> DEFINE c == Clean(x)
           o == Offence(x) /\ ~backfilling
           f == x.req > 0
           k == x.req > 0 /\ x.bit
           y == RecordOf(x, backfilling)
<1>1. c \in BOOLEAN /\ o \in BOOLEAN /\ f \in BOOLEAN /\ k \in BOOLEAN
  <2>1. x.req \in Nat /\ x.bit \in BOOLEAN
    BY DEF RoundState
  <2>2. c \in BOOLEAN /\ o \in BOOLEAN
    BY DEF Clean, Offence
  <2>3. f \in BOOLEAN /\ k \in BOOLEAN
    BY <2>1
  <2> QED
    BY <2>2, <2>3
<1>2. /\ c <=> x.s1 /\ x.s2 /\ ~x.late /\ ~x.bad
      /\ o <=> x.s1 /\ (~x.s2 \/ x.bad) /\ ~backfilling
      /\ f <=> x.req > 0
      /\ k <=> x.req > 0 /\ x.bit
  BY Zenon DEF Clean, Offence
<1>3. y = [s1 |-> x.s1, s2 |-> x.s2, cl |-> c, ro |-> o, fexp |-> f, fok |-> k, fu |-> x.fu]
  BY Zenon DEF RecordOf
<1>4. x.s1 \in BOOLEAN /\ x.s2 \in BOOLEAN /\ x.fu \in Nat
  BY DEF RoundState
<1> HIDE DEF c, o, f, k, y
<1>5. /\ y \in LedgerRecord /\ y.s1 = x.s1 /\ y.s2 = x.s2 /\ y.cl = c /\ y.ro = o
      /\ y.fexp = f /\ y.fok = k /\ y.fu = x.fu
  BY <1>1, <1>3, <1>4 DEF LedgerRecord
<1> QED
  BY <1>2, <1>5, Zenon DEF y

LEMMA LedgerRecordEqual ==
  ASSUME NEW x \in LedgerRecord, NEW y \in LedgerRecord,
         x.s1 <=> y.s1, x.s2 <=> y.s2, x.cl <=> y.cl, x.fexp <=> y.fexp, x.fok <=> y.fok, x.fu = y.fu
  PROVE  [x EXCEPT !.ro = FALSE] = [y EXCEPT !.ro = FALSE]
BY DEF LedgerRecord

LEMMA TruthFacts ==
  ASSUME NEW r
  PROVE  \E z \in RoundState :
           /\ Truth(r) = RecordOf(z, FALSE)
           /\ Built(z, plan[r] \cap Txs, plan[r] \cap Events, plan[r])
<1> DEFINE x == WithTxs(NewRound, plan[r] \cap Txs, plan[r])
           z == WithEvents(x, plan[r] \cap Events)
<1>1. x \in RoundState /\ Built(x, {} \cup (plan[r] \cap Txs), {}, plan[r])
  BY NewRoundFacts, WithTxsFacts
<1> HIDE DEF x
<1>2. z \in RoundState /\ Built(z, {} \cup (plan[r] \cap Txs), {} \cup (plan[r] \cap Events), plan[r])
  BY <1>1, WithEventsFacts
<1>3. Truth(r) = RecordOf(z, FALSE)
  BY DEF Truth, x
<1> HIDE DEF z
<1> QED
  BY <1>2, <1>3

(* A record of which only some transactions were read makes nothing up.    *)
LEMMA PartialRecord ==
  ASSUME NEW r, NEW x \in RoundState, NEW backfilling \in BOOLEAN, NEW acts, acts \subseteq plan[r],
         Built(x, acts, plan[r] \cap Events, plan[r])
  PROVE  LET y == RecordOf(x, backfilling)
             t == Truth(r)
         IN  /\ y.fexp = t.fexp /\ y.fu = t.fu
             /\ (y.s1 => t.s1) /\ (y.s2 => t.s2) /\ (y.fok => t.fok)
<1> DEFINE y == RecordOf(x, backfilling)
<1>1. PICK z \in RoundState : /\ Truth(r) = RecordOf(z, FALSE)
                              /\ Built(z, plan[r] \cap Txs, plan[r] \cap Events, plan[r])
  BY TruthFacts
<1>2. /\ "commit" \in acts => "commit" \in plan[r] \cap Txs
      /\ Reveals(acts) => Reveals(plan[r] \cap Txs)
  BY DEF Reveals, Txs
<1>3. /\ x.s1 => z.s1
      /\ x.s2 => z.s2
      /\ x.bit => z.bit
      /\ x.req = z.req /\ x.fu = z.fu
  BY <1>1, <1>2 DEF Built
<1> DEFINE w == RecordOf(z, FALSE)
<1>4. /\ y \in LedgerRecord /\ w \in LedgerRecord
      /\ (y.s1 <=> x.s1) /\ (w.s1 <=> z.s1)
      /\ (y.s2 <=> x.s2) /\ (w.s2 <=> z.s2)
      /\ (y.fexp <=> x.req > 0) /\ (w.fexp <=> z.req > 0)
      /\ (y.fok <=> x.req > 0 /\ x.bit) /\ (w.fok <=> z.req > 0 /\ z.bit)
      /\ y.fu = x.fu /\ w.fu = z.fu
  BY RecordOfFacts
<1>5. Truth(r) = w
  BY <1>1
<1> HIDE DEF y, w
<1>6. y.fexp \in BOOLEAN /\ w.fexp \in BOOLEAN
  BY <1>4 DEF LedgerRecord
<1>7. /\ y.fexp = w.fexp /\ y.fu = w.fu
      /\ (y.s1 => w.s1) /\ (y.s2 => w.s2) /\ (y.fok => w.fok)
  BY <1>3, <1>4, <1>6
<1> QED
  BY <1>5, <1>7 DEF y

LEMMA ExactRecord ==
  ASSUME NEW r, NEW x \in RoundState, NEW backfilling \in BOOLEAN, NEW acts,
         Built(x, acts, plan[r] \cap Events, plan[r]),
         \A a \in {"commit", "reveal", "lateReveal"} : a \in acts <=> a \in plan[r]
  PROVE  LET y == RecordOf(x, backfilling)
         IN  /\ y \in LedgerRecord
             /\ [y EXCEPT !.ro = FALSE] = [Truth(r) EXCEPT !.ro = FALSE]
             /\ y.ro => Truth(r).ro
<1> DEFINE y == RecordOf(x, backfilling)
<1>1. PICK z \in RoundState : /\ Truth(r) = RecordOf(z, FALSE)
                              /\ Built(z, plan[r] \cap Txs, plan[r] \cap Events, plan[r])
  BY TruthFacts
<1>2. /\ "commit" \in plan[r] \cap Txs <=> "commit" \in acts
      /\ "lateReveal" \in plan[r] \cap Txs <=> "lateReveal" \in acts
      /\ Reveals(plan[r] \cap Txs) <=> Reveals(acts)
  BY DEF Reveals, Txs
<1>3. /\ x.s1 <=> z.s1
      /\ x.s2 <=> z.s2
      /\ x.late <=> z.late
      /\ x.bad <=> z.bad
      /\ x.bit <=> z.bit
      /\ x.req = z.req /\ x.fu = z.fu
  BY <1>1, <1>2 DEF Built
<1>4. /\ y \in LedgerRecord
      /\ y.s1 <=> x.s1
      /\ y.s2 <=> x.s2
      /\ y.cl <=> x.s1 /\ x.s2 /\ ~x.late /\ ~x.bad
      /\ y.ro <=> x.s1 /\ (~x.s2 \/ x.bad) /\ ~backfilling
      /\ y.fexp <=> x.req > 0
      /\ y.fok <=> x.req > 0 /\ x.bit
      /\ y.fu = x.fu
  BY RecordOfFacts
<1> DEFINE w == RecordOf(z, FALSE)
<1>5. /\ w \in LedgerRecord
      /\ w.s1 <=> z.s1
      /\ w.s2 <=> z.s2
      /\ w.cl <=> z.s1 /\ z.s2 /\ ~z.late /\ ~z.bad
      /\ w.ro <=> z.s1 /\ (~z.s2 \/ z.bad)
      /\ w.fexp <=> z.req > 0
      /\ w.fok <=> z.req > 0 /\ z.bit
      /\ w.fu = z.fu
  BY RecordOfFacts
<1>6. Truth(r) = w
  BY <1>1
<1> HIDE DEF y, w
<1>7. [y EXCEPT !.ro = FALSE] = [w EXCEPT !.ro = FALSE]
  BY <1>3, <1>4, <1>5, LedgerRecordEqual
<1>8. y.ro => w.ro
  BY <1>3, <1>4, <1>5
<1> QED
  BY <1>4, <1>6, <1>7, <1>8 DEF y

LEMMA RetainedFacts ==
  ASSUME NEW rec \in Ledger, NEW e, e = None \/ e \in Nat
  PROVE  /\ Retained(rec, e) \in Ledger
         /\ \A r \in Round : (e = None \/ EpochOf(r) >= e - 1) => Retained(rec, e)[r] = rec[r]
BY DEF Retained, Ledger
-----------------------------------------------------------------------------
(***************************************************************************)
(* The files: a write of one of them leaves the others alone.              *)
(***************************************************************************)
LEMMA FileStatus ==
  ASSUME FileShape, NEW v, file' = [file EXCEPT !.status = v]
  PROVE  FileShape' /\ file'.status = v
         /\ file'.recs = file.recs /\ file'.torn = file.torn /\ file'.gaps = file.gaps
<1>1. PICK s, rs, t, g : file = [status |-> s, recs |-> rs, torn |-> t, gaps |-> g]
  BY DEF FileShape
<1>2. file' = [status |-> v, recs |-> rs, torn |-> t, gaps |-> g]
  BY <1>1
<1> QED
  BY <1>1, <1>2 DEF FileShape

LEMMA FileGap ==
  ASSUME FileShape, NEW v, file' = [file EXCEPT !.gaps = @ \cup v]
  PROVE  FileShape' /\ file'.status = file.status /\ file'.recs = file.recs /\ file'.torn = file.torn
         /\ file'.gaps = file.gaps \cup v
<1>1. PICK s, rs, t, g : file = [status |-> s, recs |-> rs, torn |-> t, gaps |-> g]
  BY DEF FileShape
<1>2. file' = [status |-> s, recs |-> rs, torn |-> t, gaps |-> g \cup v]
  BY <1>1
<1> QED
  BY <1>1, <1>2 DEF FileShape

LEMMA FileRecord ==
  ASSUME FileShape, NEW r, NEW v, file' = [file EXCEPT !.recs[r] = v]
  PROVE  FileShape' /\ file'.status = file.status /\ file'.torn = file.torn /\ file'.gaps = file.gaps
         /\ file'.recs = [file.recs EXCEPT ![r] = v]
<1>1. PICK s, rs, t, g : file = [status |-> s, recs |-> rs, torn |-> t, gaps |-> g]
  BY DEF FileShape
<1>2. file' = [status |-> s, recs |-> [rs EXCEPT ![r] = v], torn |-> t, gaps |-> g]
  BY <1>1
<1> QED
  BY <1>1, <1>2 DEF FileShape

LEMMA FileTorn ==
  ASSUME FileShape, NEW v, file' = [file EXCEPT !.torn = v]
  PROVE  FileShape' /\ file'.status = file.status /\ file'.recs = file.recs /\ file'.gaps = file.gaps /\ file'.torn = v
<1>1. PICK s, rs, t, g : file = [status |-> s, recs |-> rs, torn |-> t, gaps |-> g]
  BY DEF FileShape
<1>2. file' = [status |-> s, recs |-> rs, torn |-> v, gaps |-> g]
  BY <1>1
<1> QED
  BY <1>1, <1>2 DEF FileShape

LEMMA FileRewrite ==
  ASSUME FileShape, NEW v, NEW w, file' = [file EXCEPT !.recs = v, !.torn = w]
  PROVE  FileShape' /\ file'.status = file.status /\ file'.gaps = file.gaps
         /\ file'.recs = v /\ file'.torn = w
<1>1. PICK s, rs, t, g : file = [status |-> s, recs |-> rs, torn |-> t, gaps |-> g]
  BY DEF FileShape
<1>2. file' = [status |-> s, recs |-> v, torn |-> w, gaps |-> g]
  BY <1>1
<1> QED
  BY <1>1, <1>2 DEF FileShape

LEMMA StatusLast == BuildStatus.last = last
BY DEF BuildStatus

(* A record is appended, or the disk has lost it.                          *)
LEMMA AppendFacts ==
  ASSUME FileShape, file.torn \in BOOLEAN, NEW r, NEW x, AppendRecord(r, x)
  PROVE  /\ FileShape' /\ file'.status = file.status /\ file'.gaps = file.gaps
         /\ file'.torn \in BOOLEAN /\ lost \subseteq lost'
         /\ \/ file'.recs = [file.recs EXCEPT ![r] = x] /\ lost' = lost
            \/ file'.recs = file.recs /\ lost' = lost \cup {r}
<1>1. CASE file' = [file EXCEPT !.recs[r] = x] /\ UNCHANGED lost
  BY <1>1, FileRecord
<1>2. CASE file' = [file EXCEPT !.torn = FALSE] /\ lost' = lost \cup {r}
  BY <1>2, FileTorn
<1>3. ASSUME NEW cut \in BOOLEAN, file' = [file EXCEPT !.torn = @ \/ cut], lost' = lost \cup {r}
      PROVE  /\ FileShape' /\ file'.status = file.status /\ file'.gaps = file.gaps
             /\ file'.torn \in BOOLEAN /\ file'.recs = file.recs
  <2> DEFINE v == file.torn \/ cut
  <2>1. v \in BOOLEAN /\ file' = [file EXCEPT !.torn = v]
    BY <1>3
  <2> HIDE DEF v
  <2> QED
    BY <2>1, FileTorn
<1> QED
  BY <1>1, <1>2, <1>3 DEF AppendRecord
-----------------------------------------------------------------------------
(***************************************************************************)
(* The overlays.                                                           *)
(***************************************************************************)
LEMMA ProbedFacts ==
  ASSUME epochNow \in Epoch
  PROVE  /\ Probed \in RegType /\ Probed.epoch = epochNow
         /\ Probed.yes = (epochNow \in Registered)
<1> DEFINE y == epochNow \in Registered
<1>1. y \in BOOLEAN
  OBVIOUS
<1>2. Probed = [epoch |-> epochNow, yes |-> y, fresh |-> TRUE]
  BY Zenon DEF Probed
<1> HIDE DEF y
<1>3. Probed \in RegType /\ Probed.epoch = epochNow /\ Probed.yes = y
  BY <1>1, <1>2 DEF RegType
<1> QED
  BY <1>3 DEF y

LEMMA AgedFacts ==
  ASSUME reg \in RegType, bud \in BudType
  PROVE  /\ [reg EXCEPT !.fresh = FALSE] \in RegType /\ [reg EXCEPT !.fresh = FALSE].epoch = reg.epoch
         /\ [reg EXCEPT !.fresh = FALSE].yes = reg.yes
         /\ \A b \in BOOLEAN : [bud EXCEPT !.fresh = b] \in BudType
BY DEF RegType, BudType

LEMMA SeverityType ==
  ASSUME NEW submitted \in Int, NEW elapsed \in Int, NEW total \in Int, NEW floor \in Int
  PROVE  BudgetSeverity(submitted, elapsed, total, floor) \in {"unknown", "OK", "WARN", "CRIT"}
<1> DEFINE budget == (2 * (100 - floor) * total + 100) \div 200
           missed == IF submitted > elapsed THEN 0 ELSE elapsed - submitted
           left   == budget - missed
           p == 100 * (elapsed - missed)
           q == floor * elapsed
<1>1. missed \in Int /\ p \in Int /\ q \in Int
  OBVIOUS
<1>2. budget \in Int
  <2> DEFINE n == 2 * (100 - floor) * total + 100
  <2>1. n \in Int
    OBVIOUS
  <2> HIDE DEF n
  <2>2. n \div 200 \in Int
    BY <2>1
  <2> QED
    BY <2>2 DEF n
<1> HIDE DEF budget
<1>3. left \in Int
  BY <1>1, <1>2
<1>4. BudgetSeverity(submitted, elapsed, total, floor) =
        CASE elapsed <= 0 -> "unknown"
          [] elapsed > 0 /\ (left <= 0 \/ p < q) -> "CRIT"
          [] elapsed > 0 /\ left > 0 /\ p >= q -> IF 10 * left < 4 * budget THEN "WARN" ELSE "OK"
  BY DEF BudgetSeverity, budget
<1> HIDE DEF left, p, q, missed
<1> QED
  BY <1>1, <1>3, <1>4

LEMMA BudgetedType ==
  ASSUME tip \in Nat
  PROVE  Budgeted \in BudType
<1> DEFINE e == EpochOf(RoundOf(tip))
           s == BudgetSeverity(Submitted(e, tip), RoundOf(tip) - e * EpochRounds, EpochRounds, 80)
<1>1. e \in Nat /\ RoundOf(tip) \in Nat /\ EpochRounds \in Nat
  BY TipEpoch, RoundOfFacts, BoundsAssumption
<1> HIDE DEF e
<1>2. Submitted(e, tip) \in Int
  <2> DEFINE sent(a) == Cardinality({r \in Round : /\ EpochOf(RoundOf(TxBlock(r, a))) = e
                                                   /\ a \in plan[r] /\ TxBlock(r, a) <= tip})
  <2>1. ASSUME NEW a PROVE sent(a) \in Nat
    <3> DEFINE S == {r \in Round : /\ EpochOf(RoundOf(TxBlock(r, a))) = e
                                   /\ a \in plan[r] /\ TxBlock(r, a) <= tip}
    <3>1. S \subseteq Round
      OBVIOUS
    <3> HIDE DEF S
    <3>2. IsFiniteSet(S)
      BY <3>1, RoundType, FS_Subset
    <3>3. Cardinality(S) \in Nat
      BY <3>2, FS_CardinalityType
    <3> QED
      BY <3>3 DEF S
  <2>2. Submitted(e, tip) = (sent("commit") + sent("reveal") + sent("lateReveal")) \div 2
    BY DEF Submitted
  <2> HIDE DEF sent
  <2>3. sent("commit") \in Nat /\ sent("reveal") \in Nat /\ sent("lateReveal") \in Nat
    BY <2>1
  <2> QED
    BY <2>2, <2>3
<1>3. RoundOf(tip) - e * EpochRounds \in Int
  BY <1>1
<1>4. s \in {"unknown", "OK", "WARN", "CRIT"}
  BY <1>1, <1>2, <1>3, SeverityType
<1>5. Budgeted = [sev |-> s, fresh |-> TRUE]
  BY DEF Budgeted, e
<1> HIDE DEF s
<1> QED
  BY <1>4, <1>5 DEF BudType

LEMMA ExpireFacts ==
  ASSUME reg \in RegType, bud \in BudType, NEW e \in Epoch, Expire(e)
  PROVE  /\ reg' \in RegType /\ bud' \in BudType /\ reg'.epoch # None /\ reg'.epoch >= e
         /\ reg'.epoch = e \/ reg'.epoch = reg.epoch
         /\ RegistrationNotStale => RegistrationNotStale'
<1>0. /\ \A x \in Epoch : x \in Nat /\ x # None
      /\ reg.epoch \in Epoch \cup {None}
  <2>1. EpochOf(RoundOf(MaxBlock)) \in Nat
    BY TipEpoch, BoundsAssumption
  <2> QED
    BY <2>1, NoneAssumption DEF Epoch, RegType
<1>1. bud' \in BudType
  BY AgedFacts DEF Expire
<1>2. CASE reg.epoch = None \/ e > reg.epoch
  <2>1. reg' = [epoch |-> e, yes |-> None, fresh |-> FALSE]
    BY <1>2 DEF Expire
  <2>2. reg' \in RegType /\ reg'.epoch = e /\ reg'.yes = None
    BY <2>1 DEF RegType
  <2> QED
    BY <1>0, <1>1, <2>2 DEF RegistrationNotStale
<1>3. CASE ~(reg.epoch = None \/ e > reg.epoch)
  <2>1. reg' = [reg EXCEPT !.fresh = FALSE]
    BY <1>3 DEF Expire
  <2>2. reg' \in RegType /\ reg'.epoch = reg.epoch /\ reg'.yes = reg.yes
    BY <2>1, AgedFacts
  <2> QED
    BY <1>0, <1>1, <1>3, <2>2 DEF RegistrationNotStale
<1> QED
  BY <1>2, <1>3
-----------------------------------------------------------------------------
(***************************************************************************)
(* The walk along the chain.                                               *)
(***************************************************************************)
(* Where a start resumes: within the chain, and unless the cap bites no    *)
(* later than a lookback before the last block of the previous run.        *)
LEMMA ResumeFacts ==
  ASSUME NEW h \in Nat, h >= 1, NEW prior \in Nat
  PROVE  /\ ResumeCursor(h, prior) \in 1 .. h
         /\ prior # 0 /\ ~CapBites(h, prior) =>
              ResumeCursor(h, prior) <= 1 \/ ResumeCursor(h, prior) <= prior - Lookback
<1>1. Lookback \in Nat /\ ResumeCap \in Nat
  BY BoundsAssumption
<1> DEFINE base == Most(1, h - Lookback)
           back == Least(base, Most(1, prior - Lookback))
           cap  == Most(1, h - ResumeCap)
<1>2. base \in 1 .. h
  BY <1>1 DEF Most
<1>3. back \in 1 .. h /\ (back <= 1 \/ back <= prior - Lookback)
  BY <1>1, <1>2 DEF Most, Least
<1>4. cap \in 1 .. h \/ (ResumeCap = 0)
  BY <1>1 DEF Most
<1>5. ResumeCap > 0 => Most(back, cap) \in 1 .. h
  BY <1>1, <1>3, <1>4 DEF Most
<1>6. ~CapBites(h, prior) /\ ResumeCap > 0 => Most(back, cap) <= 1 \/ Most(back, cap) <= prior - Lookback
  BY <1>1, <1>3 DEF Most, CapBites
<1>7. ResumeCursor(h, prior) = IF prior = 0 THEN base ELSE IF ResumeCap > 0 THEN Most(back, cap) ELSE back
  BY DEF ResumeCursor
<1> HIDE DEF base, back, cap
<1> QED
  BY <1>1, <1>2, <1>3, <1>5, <1>6, <1>7

(* Once the cap bites it does so until the next status.                    *)
LEMMA CapStaysBitten ==
  ASSUME NEW g \in Nat, NEW h \in Nat, g <= h, NEW prior \in Nat, CapBites(g, prior)
  PROVE  CapBites(h, prior)
BY BoundsAssumption DEF CapBites, Most

LEMMA ScanStep ==
  ASSUME ScanOK, FileOK, Next
  PROVE  ScanOK' /\ tip \in Nat /\ tip' \in Nat /\ tip <= tip'
<1> USE DEF ScanOK, PC, ReadTo
<1>0. /\ MaxBlock \in Nat /\ Stride \in Nat \ {0} /\ StatusEvery \in Nat \ {0} /\ Confirmations \in Nat
      /\ Chunk \in Nat /\ Chunk >= 1 /\ tip \in Nat
  BY BoundsAssumption, WindowsAssumption
<1>1. CASE Grow
  <2>1. tip' \in tip .. MaxBlock
    BY <1>0, <1>1 DEF Grow, Least
  <2>2. UNCHANGED <<pc, cursor, scanLo, last, head, startTs, since>>
    BY <1>1 DEF Grow, scan
  <2> QED
    BY <1>0, <2>1, <2>2
<1>2. CASE Start
  <2> DEFINE c == ResumeCursor(tip, file.status.last)
  <2>1. c \in 1 .. tip
    <3>1. file.status.last \in Nat /\ tip >= 1
      BY <1>0 DEF FileOK
    <3> HIDE DEF ScanOK
    <3> QED
      BY <1>0, <3>1, ResumeFacts, Zenon
  <2>2. /\ pc' = "started" /\ cursor' = c /\ scanLo' = c /\ last' = c /\ startTs' = c
        /\ head' = 0 /\ since' = 0 /\ tip' = tip
    BY <1>2 DEF Start, Anchored, chain
  <2> HIDE DEF c
  <2> QED
    BY <1>0, <2>1, <2>2
<1>3. CASE PollHead
  BY <1>0, <1>3 DEF PollHead, chain
<1>4. CASE ScanBlock
  <2>1. /\ pc = "scan" /\ cursor <= head - Confirmations /\ pc' = "finalize" /\ last' = cursor
        /\ UNCHANGED <<tip, cursor, head, startTs, since>>
        /\ \/ cursor - scanLo + 1 >= Chunk /\ scanLo' = cursor + 1
           \/ ~(cursor - scanLo + 1 >= Chunk) /\ scanLo' = scanLo
    BY <1>4 DEF ScanBlock, chain
  <2> QED
    BY <1>0, <2>1
<1>5. CASE NextBlock
  <2>1. /\ pc = "finalize" /\ pc' = "scan" /\ cursor' = cursor + 1
        /\ UNCHANGED <<tip, scanLo, last, head, startTs>>
        /\ since' = 0 \/ (since' = since + 1 /\ ~(since + 1 >= StatusEvery))
    BY <1>5 DEF NextBlock, chain
  <2> QED
    BY <1>0, <2>1
<1>6. CASE EndPass
  <2>1. /\ pc \in {"pass", "scan"} /\ pc' = "overlays" /\ UNCHANGED <<tip, cursor, last, head, startTs, since>>
        /\ \/ cursor - 1 >= scanLo /\ scanLo' = cursor
           \/ UNCHANGED scanLo
    BY <1>6 DEF EndPass, chain
  <2> QED
    BY <1>0, <2>1
<1>7. CASE \/ FirstStatus \/ Overlays \/ (\E due \in BOOLEAN : Report(due)) \/ FinalizeRound
           \/ PruneFile \/ CutFile \/ HourPasses \/ PollFails \/ BlockFails \/ Crash
  <2>1. /\ UNCHANGED <<tip, cursor, scanLo, last, head, startTs>> /\ since' \in {0, since}
        /\ pc' \in PC /\ (pc = "down" => pc' = "down")
        /\ pc' # "down" => (pc' = "finalize" <=> pc = "finalize")
    BY <1>7 DEF FirstStatus, Overlays, Report, FinalizeRound, PruneFile, CutFile, HourPasses, PollFails,
                BlockFails, Crash, chain, scan
  <2> QED
    BY <1>0, <2>1
<1> QED
  BY <1>1, <1>2, <1>3, <1>4, <1>5, <1>6, <1>7 DEF Next, Engine, Disturbance
-----------------------------------------------------------------------------
(***************************************************************************)
(* Memory and disk.                                                        *)
(***************************************************************************)
LEMMA EpochType ==
  /\ \A x \in Epoch : x \in Nat /\ x # None
  /\ \A b \in Nat : b <= MaxBlock => EpochOf(RoundOf(b)) \in Epoch
  /\ \A r \in Round : EpochOf(r) \in Epoch
<1>1. MaxBlock \in Nat /\ EpochOf(RoundOf(MaxBlock)) \in Nat /\ RoundOf(MaxBlock) \in Nat
  BY TipEpoch, RoundOfFacts, BoundsAssumption
<1>2. \A x \in Epoch : x \in Nat /\ x # None
  BY <1>1, NoneAssumption DEF Epoch
<1>3. ASSUME NEW b \in Nat, b <= MaxBlock PROVE EpochOf(RoundOf(b)) \in Epoch
  BY <1>1, <1>3, TipEpoch DEF Epoch
<1>4. ASSUME NEW r \in Round PROVE EpochOf(r) \in Epoch
  <2>1. r \in Nat /\ r <= RoundOf(MaxBlock)
    BY <1>1 DEF Round
  <2> QED
    BY <1>1, <2>1, EpochMono DEF Epoch
<1> QED
  BY <1>2, <1>3, <1>4

(* The round the engine closes next.                                       *)
NextDue == CHOOSE q \in Due : \A s \in Due : q <= s

LEMMA NextDueFacts ==
  ASSUME FileOK, Due # {}
  PROVE  /\ NextDue \in Round /\ NextDue \in Nat /\ rounds[NextDue] # None
         /\ rounds[NextDue] \in RoundState /\ EndS(NextDue + 1) < last
<1>1. Due \subseteq Nat
  BY RoundType DEF Due
<1>2. \E m \in Due : \A n \in Due : m <= n
  BY <1>1, LeastOf
<1>3. NextDue \in Due
  BY <1>2 DEF NextDue
<1> QED
  BY <1>1, <1>3 DEF Due, FileOK, InFlight

(* What FinalizeRound does.                                                *)
LEMMA FinalizeFacts ==
  ASSUME FileOK, FinalizeRound
  PROVE  /\ pc = "finalize" /\ Due # {}
         /\ UNCHANGED <<plan, tip, epochNow, pc, cursor, scanLo, last, startTs, gaps, catching, tainted,
                        withheld, origin, blind>>
         /\ rounds' = [rounds EXCEPT ![NextDue] = None]
         /\ \/ /\ Boundary(NextDue) \/ recs[NextDue] # None
               /\ UNCHANGED <<ledger, file, lost>>
            \/ /\ ~Boundary(NextDue) /\ recs[NextDue] = None
               /\ recs' = [recs EXCEPT ![NextDue] = RecordOf(rounds[NextDue], catching)]
               /\ AppendRecord(NextDue, RecordOf(rounds[NextDue], catching))
               /\ RollOver(EpochOf(NextDue))
<1>1. /\ pc = "finalize" /\ Due # {}
      /\ rounds' = [rounds EXCEPT ![NextDue] = None]
      /\ IF Boundary(NextDue)
         THEN NoFault /\ UNCHANGED <<win, ledger, file, lost>>
         ELSE win' = Slide(win, Finalized(rounds[NextDue])) /\ Keep(NextDue)
  BY Zenon DEF FinalizeRound, NextDue
<1>2. UNCHANGED <<plan, tip, epochNow, pc, cursor, scanLo, last, startTs, gaps, catching, tainted,
                  withheld, origin, blind>>
  BY DEF FinalizeRound, chain, stream, hist
<1>3. Keep(NextDue) => \/ recs[NextDue] # None /\ UNCHANGED <<ledger, file, lost>>
                       \/ /\ recs[NextDue] = None
                          /\ recs' = [recs EXCEPT ![NextDue] = RecordOf(rounds[NextDue], catching)]
                          /\ AppendRecord(NextDue, RecordOf(rounds[NextDue], catching))
                          /\ RollOver(EpochOf(NextDue))
  BY Zenon DEF Keep
<1> QED
  BY <1>1, <1>2, <1>3, Zenon

LEMMA FlushType ==
  ASSUME NEW rs \in InFlight, NEW lo, NEW hi, FlushEvents(rs, lo, hi)
  PROVE  rounds' \in InFlight
BY FlushFacts DEF FlushEvents

(* The pruned file is written whole, or cut: what it loses is marked.      *)
LEMMA CutFacts ==
  ASSUME FileShape, file.recs \in Ledger, reg.epoch = None \/ reg.epoch \in Nat, CutFile
  PROVE  /\ FileShape' /\ file'.status = file.status /\ file'.gaps = file.gaps
         /\ file'.torn \in BOOLEAN /\ file'.recs \in Ledger /\ lost \subseteq lost'
         /\ \A r \in Round : \/ file'.recs[r] = Retained(file.recs, reg.epoch)[r]
                             \/ file'.recs[r] = None /\ r \in lost'
<1> DEFINE kept == Retained(file.recs, reg.epoch)
           left(n) == [r \in Round |-> IF r < n THEN kept[r] ELSE None]
<1>1. PICK n \in Round, cut \in BOOLEAN : /\ file' = [file EXCEPT !.recs = left(n), !.torn = cut]
                                         /\ lost' = lost \cup {r \in Round : kept[r] # left(n)[r]}
  BY Zenon DEF CutFile
<1>2. kept \in Ledger
  BY RetainedFacts
<1> HIDE DEF kept
<1>3. left(n) \in Ledger /\ \A r \in Round : left(n)[r] = kept[r] \/ left(n)[r] = None
  BY <1>2 DEF Ledger
<1> HIDE DEF left
<1>4. FileShape' /\ file'.status = file.status /\ file'.gaps = file.gaps /\ file'.recs = left(n)
      /\ file'.torn = cut
  BY <1>1, FileRewrite
<1>5. ASSUME NEW r \in Round
      PROVE  \/ file'.recs[r] = kept[r]
             \/ file'.recs[r] = None /\ r \in lost'
  BY <1>1, <1>3, <1>4
<1> QED
  BY <1>1, <1>3, <1>4, <1>5 DEF kept

LEMMA PruneFileFacts ==
  ASSUME FileShape, file.recs \in Ledger, reg.epoch = None \/ reg.epoch \in Nat, PruneFile
  PROVE  /\ FileShape' /\ file'.status = file.status /\ file'.gaps = file.gaps
         /\ file'.torn = FALSE /\ file'.recs = Retained(file.recs, reg.epoch)
         /\ file'.recs \in Ledger
<1> DEFINE w == Retained(file.recs, reg.epoch)
<1>1. file' = [file EXCEPT !.recs = w, !.torn = FALSE]
  BY DEF PruneFile
<1>2. w \in Ledger
  BY RetainedFacts
<1> HIDE DEF w
<1> QED
  BY <1>1, <1>2, FileRewrite DEF w

LEMMA FileStep ==
  ASSUME ScanOK, FileOK, EpochsOK, Next
  PROVE  FileOK'
<1>1. FileShape /\ file.status.last \in 0 .. tip'
  <2>1. tip \in Nat /\ tip' \in Nat /\ tip <= tip'
    BY ScanStep
  <2>2. FileShape /\ file.status.last \in 0 .. tip
    BY DEF FileShape, FileOK
  <2> QED
    BY <2>1, <2>2
<1>2. ASSUME UNCHANGED <<file, gaps, recs, catching, rounds, origin>> PROVE FileOK'
  BY <1>1, <1>2 DEF FileOK, FileShape
<1>3. CASE Grow \/ HourPasses \/ PollFails \/ BlockFails \/ Crash \/ Overlays
  BY <1>2, <1>3 DEF Grow, HourPasses, PollFails, BlockFails, Crash, Overlays, scan, ledger, stream, hist
<1>4. CASE Start
  <2>1. /\ file' = file /\ gaps' = file.gaps /\ catching' = FALSE /\ rounds' = NoRecords
        /\ recs' = Retained(file.recs, reg'.epoch) \/ recs' = NoRecords
        /\ origin' = IF file.status.last = 0 \/ CapBites(tip, file.status.last)
                     THEN ResumeCursor(tip, file.status.last) ELSE origin
        /\ reg'.epoch = None \/ reg'.epoch \in Nat
    BY <1>4, ProbedFacts, EpochType DEF Start, Anchored, EpochsOK
  <2>2. ResumeCursor(tip, file.status.last) \in Nat
    <3>1. tip \in Nat /\ tip >= 1 /\ file.status.last \in Nat
      BY BoundsAssumption DEF ScanOK, FileOK
    <3>2. ResumeCursor(tip, file.status.last) \in 1 .. tip
      BY <3>1, ResumeFacts, Zenon
    <3> QED
      BY <3>1, <3>2
  <2>3. recs' \in Ledger
    BY <2>1, RetainedFacts DEF FileOK, NoRecords, Ledger
  <2>4. rounds' \in InFlight
    BY <2>1 DEF NoRecords, InFlight
  <2> QED
    BY <1>1, <2>1, <2>2, <2>3, <2>4 DEF FileOK, FileShape
<1>5. CASE FirstStatus \/ NextBlock
  <2>1. /\ UNCHANGED <<tip, gaps, recs, catching, rounds, origin>> /\ pc # "down"
        /\ \/ file' = [file EXCEPT !.status = BuildStatus]
           \/ file' = file
    BY <1>5 DEF FirstStatus, NextBlock, chain, scan, ledger, stream, hist
  <2>2. CASE file' = [file EXCEPT !.status = BuildStatus]
    <3>1. FileShape' /\ file'.status = BuildStatus /\ file'.recs = file.recs /\ file'.gaps = file.gaps
          /\ file'.torn = file.torn
      BY <1>1, <2>2, FileStatus
    <3>2. file'.status.last \in 0 .. tip'
      BY <2>1, <3>1, StatusLast DEF ScanOK
    <3> QED
      BY <2>1, <3>1, <3>2 DEF FileOK, FileShape
  <2> QED
    BY <1>2, <2>1, <2>2
<1>6. CASE PollHead
  <2>1. UNCHANGED <<tip, recs, rounds, origin>> /\ pc = "poll"
    BY <1>6 DEF PollHead, chain, ledger, hist
  <2>2. CASE outage
    <3> DEFINE g == [from |-> last, to |-> tip]
               late == tip - cursor > LiveLag
    <3>1. gaps' = gaps \cup {g} /\ file' = [file EXCEPT !.gaps = @ \cup {g}] /\ catching' = late
      BY <1>6, <2>2 DEF PollHead
    <3>2. g \in Gap
      BY <2>1 DEF Gap, ScanOK
    <3>3. late \in BOOLEAN
      <4>1. tip \in Int /\ cursor \in Int /\ LiveLag \in Int
        BY BoundsAssumption DEF ScanOK
      <4> QED
        BY <4>1
    <3> HIDE DEF g, late
    <3>4. FileShape' /\ file'.status = file.status /\ file'.recs = file.recs /\ file'.torn = file.torn
          /\ file'.gaps = file.gaps \cup {g}
      BY <1>1, <3>1, FileGap
    <3> QED
      BY <1>1, <2>1, <3>1, <3>2, <3>3, <3>4 DEF FileOK, FileShape
  <2>3. CASE ~outage
    BY <1>2, <1>6, <2>1, <2>3 DEF PollHead
  <2> QED
    BY <2>2, <2>3
<1>7. CASE ScanBlock \/ EndPass
  <2>1. UNCHANGED <<file, gaps, recs, origin, tip>> /\ catching' \in {catching, StillCatching}
    BY <1>7 DEF ScanBlock, EndPass, chain, ledger, stream
  <2>2. catching' \in BOOLEAN
    <3>1. catching \in BOOLEAN /\ StillCatching \in BOOLEAN
      BY DEF FileOK, StillCatching
    <3> QED
      BY <2>1, <3>1
  <2>3. rounds' \in InFlight
    <3>1. rounds \in InFlight /\ Record(rounds, cursor) \in InFlight
      BY RecordFacts DEF FileOK
    <3>2. CASE ScanBlock
      BY <3>1, <3>2, FlushType DEF ScanBlock
    <3>3. CASE EndPass
      BY <3>1, <3>3, FlushType DEF EndPass
    <3> QED
      BY <1>7, <3>2, <3>3
  <2> QED
    BY <1>1, <2>1, <2>2, <2>3 DEF FileOK, FileShape
<1>8. CASE FinalizeRound
  <2>1. /\ NextDue \in Round /\ rounds[NextDue] \in RoundState
        /\ UNCHANGED <<tip, gaps, catching, origin>>
        /\ rounds' = [rounds EXCEPT ![NextDue] = None]
    BY <1>8, FinalizeFacts, NextDueFacts
  <2>2. rounds' \in InFlight
    BY <2>1 DEF InFlight, FileOK
  <2>3. CASE UNCHANGED <<ledger, file>>
    BY <1>1, <2>1, <2>2, <2>3 DEF FileOK, FileShape, ledger
  <2>4. CASE /\ recs' = [recs EXCEPT ![NextDue] = RecordOf(rounds[NextDue], catching)]
             /\ AppendRecord(NextDue, RecordOf(rounds[NextDue], catching))
    <3> DEFINE v == RecordOf(rounds[NextDue], catching)
    <3>1. v \in LedgerRecord
      BY <2>1, RecordOfFacts DEF FileOK
    <3>2. /\ FileShape' /\ file'.status = file.status /\ file'.gaps = file.gaps /\ file'.torn \in BOOLEAN
          /\ file'.recs = [file.recs EXCEPT ![NextDue] = v] \/ file'.recs = file.recs
      BY <1>1, <2>4, AppendFacts DEF FileOK
    <3> HIDE DEF v
    <3>3. recs' = [recs EXCEPT ![NextDue] = v]
      BY <2>4 DEF v
    <3>4. recs' \in Ledger /\ file'.recs \in Ledger
      BY <2>1, <3>1, <3>2, <3>3 DEF Ledger, FileOK
    <3> QED
      BY <1>1, <2>1, <2>2, <3>2, <3>4 DEF FileOK, FileShape
  <2> QED
    BY <1>8, <2>3, <2>4, FinalizeFacts
<1>9. reg.epoch = None \/ reg.epoch \in Nat
  BY EpochType DEF EpochsOK, RegType
<1>10. ASSUME NEW due \in BOOLEAN, Report(due) PROVE FileOK'
  <2>1. /\ pc = "report" /\ UNCHANGED <<tip, gaps, catching, rounds, origin>>
        /\ file' = [file EXCEPT !.status = BuildStatus]
        /\ recs' = Retained(recs, reg.epoch) \/ recs' = recs
    BY <1>10 DEF Report, chain, stream, hist
  <2>2. recs' \in Ledger
    BY <1>9, <2>1, RetainedFacts DEF FileOK
  <2>3. FileShape' /\ file'.status = BuildStatus /\ file'.recs = file.recs /\ file'.gaps = file.gaps
        /\ file'.torn = file.torn
    BY <1>1, <2>1, FileStatus
  <2>4. file'.status.last \in 0 .. tip'
    BY <2>1, <2>3, StatusLast DEF ScanOK
  <2> QED
    BY <2>1, <2>2, <2>3, <2>4 DEF FileOK
<1>11. CASE PruneFile \/ CutFile
  <2>1. UNCHANGED <<tip, gaps, catching, rounds, recs, origin>>
    BY <1>11 DEF PruneFile, CutFile, chain, scan, ledger, stream, hist
  <2>2. FileShape' /\ file'.status = file.status /\ file'.gaps = file.gaps /\ file'.torn \in BOOLEAN
        /\ file'.recs \in Ledger
    BY <1>1, <1>9, <1>11, PruneFileFacts, CutFacts DEF FileOK
  <2> QED
    BY <1>1, <2>1, <2>2 DEF FileOK
<1> QED
  BY <1>3, <1>4, <1>5, <1>6, <1>7, <1>8, <1>10, <1>11 DEF Next, Engine, Disturbance
-----------------------------------------------------------------------------
(***************************************************************************)
(* The epochs the engine goes by.                                          *)
(***************************************************************************)
LEMMA RollOverFacts ==
  ASSUME EpochsOK, pc # "down", NEW e \in Epoch, e <= EpochOf(RoundOf(tip)), RollOver(e),
         UNCHANGED <<tip, epochNow, pc, blind>>
  PROVE  EpochsOK'
<1>0. /\ \A x \in Epoch : x \in Nat /\ x # None
      /\ reg.epoch \in Epoch \cup {None} /\ mepoch \in Epoch \cup {None}
  BY EpochType DEF EpochsOK, RegType
<1>1. CASE mepoch = None
  <2>1. mepoch' = e /\ UNCHANGED <<reg, bud>> /\ blind
    BY <1>1 DEF RollOver, EpochsOK
  <2> QED
    BY <1>0, <2>1 DEF EpochsOK, RegistrationNotStale, HeaderKeepsUp
<1>2. CASE mepoch # None /\ e > mepoch
  <2>1. mepoch' = e /\ Expire(e)
    BY <1>2 DEF RollOver
  <2>2. /\ reg' \in RegType /\ bud' \in BudType /\ reg'.epoch # None /\ reg'.epoch >= e
        /\ reg'.epoch = e \/ reg'.epoch = reg.epoch
        /\ RegistrationNotStale'
    BY <2>1, ExpireFacts DEF EpochsOK
  <2> QED
    BY <1>0, <2>1, <2>2 DEF EpochsOK, HeaderKeepsUp
<1>3. CASE mepoch # None /\ ~(e > mepoch)
  <2>1. UNCHANGED <<mepoch, reg, bud>>
    BY <1>3 DEF RollOver
  <2> QED
    BY <2>1 DEF EpochsOK, RegistrationNotStale, HeaderKeepsUp
<1> QED
  BY <1>1, <1>2, <1>3

LEMMA EpochsStep ==
  ASSUME ScanOK, FileOK, EpochsOK, Next
  PROVE  EpochsOK'
<1>0. tip \in Nat /\ tip' \in Nat /\ tip <= tip' /\ tip' <= MaxBlock
  BY ScanStep DEF ScanOK
<1>1. /\ EpochOf(RoundOf(tip)) \in Nat /\ EpochOf(RoundOf(tip')) \in Nat
      /\ EpochOf(RoundOf(tip)) <= EpochOf(RoundOf(tip'))
      /\ EpochOf(RoundOf(tip')) \in Epoch
  BY <1>0, TipEpoch, EpochType
<1>2. /\ \A x \in Epoch : x \in Nat /\ x # None
      /\ reg.epoch \in Epoch \cup {None} /\ mepoch \in Epoch \cup {None} /\ epochNow \in Epoch
  BY EpochType DEF EpochsOK, RegType
<1>3. ASSUME UNCHANGED <<epochNow, mepoch, blind>>, reg' \in RegType, bud' \in BudType,
             reg'.epoch = reg.epoch, reg'.yes = reg.yes, pc = "down" => pc' = "down"
      PROVE  EpochsOK'
  BY <1>1, <1>2, <1>3 DEF EpochsOK, RegistrationNotStale, HeaderKeepsUp
<1>4. CASE FirstStatus \/ PollHead \/ ScanBlock \/ NextBlock \/ EndPass \/ PollFails \/ BlockFails \/ Crash
           \/ PruneFile \/ CutFile \/ \E due \in BOOLEAN : Report(due)
  <2>1. UNCHANGED <<epochNow, mepoch, blind, reg, bud>> /\ (pc = "down" => pc' = "down")
    BY <1>4 DEF FirstStatus, PollHead, ScanBlock, NextBlock, EndPass, PollFails, BlockFails, Crash, Report,
                PruneFile, CutFile, chain, ledger, hist
  <2> QED
    BY <1>3, <2>1 DEF EpochsOK
<1>5. CASE Grow
  <2>1. UNCHANGED <<pc, mepoch, blind, reg, bud>>
    BY <1>5 DEF Grow, ledger, hist
  <2>2. epochNow' = EpochOf(RoundOf(tip')) \/ epochNow' = epochNow
    BY <1>5 DEF Grow
  <2> QED
    BY <1>1, <1>2, <2>1, <2>2 DEF EpochsOK, RegistrationNotStale, HeaderKeepsUp
<1>6. CASE HourPasses
  <2>1. /\ UNCHANGED <<epochNow, mepoch, blind, pc>>
        /\ reg' = [reg EXCEPT !.fresh = FALSE] /\ bud' = [bud EXCEPT !.fresh = FALSE]
    BY <1>6 DEF HourPasses, chain, hist
  <2>2. reg' \in RegType /\ bud' \in BudType /\ reg'.epoch = reg.epoch /\ reg'.yes = reg.yes
    BY <2>1, AgedFacts DEF EpochsOK
  <2> QED
    BY <1>3, <2>1, <2>2
<1>7. CASE Start
  <2>1. /\ UNCHANGED <<tip, epochNow>> /\ pc' # "down" /\ mepoch' = reg'.epoch
        /\ blind' = (reg'.epoch = None)
        /\ \/ reg' = Probed /\ bud' = Budgeted
           \/ /\ reg' = [epoch |-> None, yes |-> None, fresh |-> FALSE]
              /\ bud' = [sev |-> "unknown", fresh |-> TRUE]
    BY <1>7 DEF Start, chain
  <2>2. CASE reg' = Probed /\ bud' = Budgeted
    <3>1. /\ reg' \in RegType /\ bud' \in BudType /\ reg'.epoch = epochNow
          /\ reg'.yes = (epochNow \in Registered)
      BY <1>0, <1>2, <2>2, ProbedFacts, BudgetedType
    <3> QED
      BY <1>1, <1>2, <2>1, <3>1 DEF EpochsOK, RegistrationNotStale, HeaderKeepsUp
  <2>3. CASE /\ reg' = [epoch |-> None, yes |-> None, fresh |-> FALSE]
             /\ bud' = [sev |-> "unknown", fresh |-> TRUE]
    <3>1. reg' \in RegType /\ bud' \in BudType /\ reg'.epoch = None /\ reg'.yes = None
      BY <2>3 DEF RegType, BudType
    <3> QED
      BY <1>1, <1>2, <2>1, <3>1 DEF EpochsOK, RegistrationNotStale, HeaderKeepsUp
  <2> QED
    BY <2>1, <2>2, <2>3
<1>8. CASE Overlays
  <2>1. UNCHANGED <<tip, epochNow, mepoch>> /\ pc = "overlays" /\ pc' = "report" /\ RefreshOverlays
    BY <1>8 DEF Overlays, chain
  <2>2. bud' \in BudType
    <3>1. bud' = bud \/ bud' = Budgeted \/ bud' = [bud EXCEPT !.fresh = TRUE]
      BY <2>1 DEF RefreshOverlays
    <3> QED
      BY <1>0, <3>1, BudgetedType, AgedFacts DEF EpochsOK
  <2>3. CASE UNCHANGED <<reg, blind>>
    BY <1>3, <2>1, <2>2, <2>3 DEF EpochsOK
  <2>4. CASE reg' = Probed /\ blind' = (mepoch = None \/ epochNow < mepoch)
    <3>1. /\ reg' \in RegType /\ reg'.epoch = epochNow
          /\ reg'.yes = (epochNow \in Registered)
      BY <1>2, <2>4, ProbedFacts
    <3>2. /\ mepoch' = None => blind'
          /\ ~blind' /\ mepoch' # None => reg'.epoch >= mepoch'
      <4>1. blind' <=> mepoch = None \/ epochNow < mepoch
        BY <2>4, Zenon
      <4> QED
        BY <1>2, <2>1, <3>1, <4>1
    <3>3. reg'.epoch # None /\ reg'.epoch <= EpochOf(RoundOf(tip'))
      BY <1>2, <2>1, <3>1 DEF EpochsOK
    <3>4. /\ epochNow' \in Epoch /\ epochNow' <= EpochOf(RoundOf(tip')) /\ mepoch' \in Epoch \cup {None}
          /\ mepoch' # None => mepoch' <= EpochOf(RoundOf(tip'))
      BY <2>1 DEF EpochsOK
    <3>5. RegistrationNotStale' /\ HeaderKeepsUp'
      BY <2>1, <3>1, <3>2 DEF RegistrationNotStale, HeaderKeepsUp
    <3> QED
      BY <2>2, <3>1, <3>2, <3>3, <3>4, <3>5 DEF EpochsOK
  <2> QED
    BY <2>1, <2>3, <2>4 DEF RefreshOverlays
<1>9. CASE FinalizeRound
  <2>1. /\ NextDue \in Round /\ NextDue \in Nat /\ EndS(NextDue + 1) < last
        /\ UNCHANGED <<tip, epochNow, pc, blind>> /\ pc # "down"
    BY <1>9, FinalizeFacts, NextDueFacts
  <2>2. CASE UNCHANGED ledger
    BY <1>3, <2>1, <2>2 DEF EpochsOK, ledger
  <2>3. CASE RollOver(EpochOf(NextDue))
    <3>1. EpochOf(NextDue) \in Epoch
      BY <2>1, EpochType
    <3>2. EndS(NextDue + 1) < tip
      BY <1>0, <2>1, RoundTimes, BoundsAssumption DEF ScanOK
    <3>3. EpochOf(NextDue) <= EpochOf(RoundOf(tip))
      BY <1>0, <2>1, <3>2, EpochOfDue
    <3> QED
      BY <2>1, <2>3, <3>1, <3>3, RollOverFacts
  <2> QED
    BY <1>9, <2>2, <2>3, FinalizeFacts
<1> QED
  BY <1>4, <1>5, <1>6, <1>7, <1>8, <1>9 DEF Next, Engine, Disturbance
-----------------------------------------------------------------------------
(***************************************************************************)
(* The ledger.                                                             *)
(***************************************************************************)
LEMMA RetainMono ==
  ASSUME tip \in Nat, tip' \in Nat, tip <= tip', NEW r \in Round, Retainable(r)'
  PROVE  Retainable(r)
<1>1. EpochOf(r) \in Nat /\ EpochOf(RoundOf(tip)) \in Nat /\ EpochOf(RoundOf(tip')) \in Nat
      /\ EpochOf(RoundOf(tip)) <= EpochOf(RoundOf(tip'))
  BY TipEpoch, RoundType, EpochMono
<1> QED
  BY <1>1 DEF Retainable

(* Pruning by an epoch the rounds have reached keeps what is retainable.   *)
LEMMA PruneFacts ==
  ASSUME tip \in Nat, NEW rec \in Ledger, NEW e \in Epoch \cup {None},
         e # None => e <= EpochOf(RoundOf(tip)), NEW r \in Round, Retainable(r)
  PROVE  Retained(rec, e)[r] = rec[r]
<1>1. /\ e = None \/ e \in Nat
      /\ EpochOf(r) \in Nat /\ EpochOf(RoundOf(tip)) \in Nat
  BY EpochType, RoundType, EpochMono, TipEpoch
<1>2. e = None \/ EpochOf(r) >= e - 1
  BY <1>1 DEF Retainable
<1> QED
  BY <1>1, <1>2, RetainedFacts

LEMMA ReadTxs ==
  ASSUME NEW rs \in InFlight, NEW b, NEW r \in Round, NEW S, NEW E
  PROVE  LET A == {a \in plan[r] \cap Txs : TxBlock(r, a) = b}
         IN  /\ AsReadOf(rs[r], S, E, plan[r]) => AsReadOf(Record(rs, b)[r], S \cup A, E, plan[r])
             /\ rs[r] # None \/ A # {} => Record(rs, b)[r] # None
<1> DEFINE A == {a \in plan[r] \cap Txs : TxBlock(r, a) = b}
           y == Record(rs, b)[r]
           x == Get(rs, r)
<1>1. /\ A = {} => y = rs[r]
      /\ A # {} => y # None /\ y = WithTxs(x, A, plan[r])
  BY RecordFacts
<1>2. x \in RoundState /\ (rs[r] = None => x = NewRound) /\ (rs[r] # None => x = rs[r])
  BY GetFacts
<1>3. \A acts, evs : Built(x, acts, evs, plan[r]) => Built(WithTxs(x, A, plan[r]), acts \cup A, evs, plan[r])
  BY <1>2, WithTxsFacts
<1> HIDE DEF A, y, x
<1>4. ASSUME AsReadOf(rs[r], S, E, plan[r]) PROVE AsReadOf(y, S \cup A, E, plan[r])
  <2>1. CASE A = {}
    <3>1. S \cup A = S
      BY <2>1
    <3> QED
      BY <1>1, <1>4, <2>1, <3>1
  <2>2. CASE A # {}
    <3>1. Built(x, S, E, plan[r])
      <4>1. CASE S = {} /\ E = {}
        BY <1>2, <1>4, <4>1, NewRoundFacts DEF AsReadOf
      <4>2. CASE ~(S = {} /\ E = {})
        BY <1>2, <1>4, <4>2 DEF AsReadOf
      <4> QED
        BY <4>1, <4>2
    <3>2. S \cup A # {}
      BY <2>2
    <3> QED
      BY <1>1, <1>3, <2>2, <3>1, <3>2 DEF AsReadOf
  <2> QED
    BY <2>1, <2>2
<1> QED
  BY <1>1, <1>4 DEF A, y

LEMMA ReadEvents ==
  ASSUME NEW rs \in InFlight, NEW lo, NEW hi, NEW answering, NEW r \in Round, NEW S, NEW E
  PROVE  LET F == Emitted(r, lo, hi) \cap answering
         IN  /\ AsReadOf(rs[r], S, E, plan[r]) /\ E \cap F = {}
                  => AsReadOf(Flush(rs, lo, hi, answering)[r], S, E \cup F, plan[r])
             /\ rs[r] # None => Flush(rs, lo, hi, answering)[r] # None
<1> DEFINE F == Emitted(r, lo, hi) \cap answering
           y == Flush(rs, lo, hi, answering)[r]
           x == Get(rs, r)
<1>1. /\ F = {} => y = rs[r]
      /\ F # {} => y # None /\ y = WithEvents(x, F)
  BY FlushFacts
<1>2. x \in RoundState /\ (rs[r] = None => x = NewRound) /\ (rs[r] # None => x = rs[r])
  BY GetFacts
<1>3. \A acts, evs, p : Built(x, acts, evs, p) /\ evs \cap F = {} => Built(WithEvents(x, F), acts, evs \cup F, p)
  BY <1>2, WithEventsFacts
<1> HIDE DEF F, y, x
<1>4. ASSUME AsReadOf(rs[r], S, E, plan[r]), E \cap F = {} PROVE AsReadOf(y, S, E \cup F, plan[r])
  <2>1. CASE F = {}
    <3>1. E \cup F = E
      BY <2>1
    <3> QED
      BY <1>1, <1>4, <2>1, <3>1
  <2>2. CASE F # {}
    <3>1. Built(x, S, E, plan[r])
      <4>1. CASE S = {} /\ E = {}
        BY <1>2, <1>4, <4>1, NewRoundFacts DEF AsReadOf
      <4>2. CASE ~(S = {} /\ E = {})
        BY <1>2, <1>4, <4>2 DEF AsReadOf
      <4> QED
        BY <4>1, <4>2
    <3>2. E \cup F # {}
      BY <2>2
    <3> QED
      BY <1>1, <1>3, <1>4, <2>2, <3>1, <3>2 DEF AsReadOf
  <2> QED
    BY <2>1, <2>2
<1> QED
  BY <1>1, <1>4 DEF F, y

(* A flush reads the events of the blocks since the last one; a round that *)
(* misses some is tainted.                                                 *)
LEMMA EventsFlushed ==
  ASSUME NEW rs \in InFlight, NEW hi \in Int, FlushEvents(rs, scanLo, hi), scanLo' = hi + 1,
         startTs \in Int, scanLo \in Int, startTs <= scanLo, scanLo <= hi + 1,
         UNCHANGED <<plan, startTs>>, NEW r \in Round, NEW S
  PROVE  /\ tainted \subseteq tainted'
         /\ rs[r] # None => rounds'[r] # None
         /\ AsReadOf(rs[r], S, SeenEvents(r), plan[r]) /\ r \notin tainted'
              => AsReadOf(rounds'[r], S, SeenEvents(r)', plan[r])
<1>1. PICK answering : /\ rounds' = Flush(rs, scanLo, hi, answering)
                       /\ \/ answering = Events /\ UNCHANGED tainted
                          \/ tainted' = tainted \cup Missed(scanLo, hi, answering)
  BY DEF FlushEvents
<1> DEFINE F == Emitted(r, scanLo, hi) \cap answering
<1>2. r \notin tainted' => F = Emitted(r, scanLo, hi)
  BY <1>1 DEF Missed, Emitted
<1>3. SeenEvents(r) \cap Emitted(r, scanLo, hi) = {}
  BY DEF SeenEvents, Emitted
<1>4. SeenEvents(r)' = SeenEvents(r) \cup Emitted(r, scanLo, hi)
  <2>1. SeenEvents(r)' = IF EventBlock(r) \in startTs .. hi THEN plan[r] \cap Events ELSE {}
    BY DEF SeenEvents
  <2>2. EventBlock(r) \in startTs .. hi <=>
          EventBlock(r) \in startTs .. (scanLo - 1) \/ EventBlock(r) \in scanLo .. hi
    OBVIOUS
  <2> QED
    BY <2>1, <2>2 DEF SeenEvents, Emitted
<1>5. /\ AsReadOf(rs[r], S, SeenEvents(r), plan[r]) /\ SeenEvents(r) \cap F = {}
           => AsReadOf(rounds'[r], S, SeenEvents(r) \cup F, plan[r])
      /\ rs[r] # None => rounds'[r] # None
  BY <1>1, ReadEvents
<1>6. tainted \subseteq tainted'
  BY <1>1
<1> HIDE DEF F
<1> QED
  BY <1>2, <1>3, <1>4, <1>5, <1>6

(* Where the acts of a round lie: all but a late signature before it can   *)
(* close, and its events before the last chunk that can be open then.      *)
LEMMA ActBlocks ==
  ASSUME NEW r \in Nat
  PROVE  /\ \A a \in {"commit", "reveal", "lateReveal", "sig"} :
              TxBlock(r, a) \in StartS(r) .. EndS(r + 1)
         /\ EventBlock(r) \in StartS(r) .. (EndS(r) - 1)
<1>1. /\ StartS(r) \in Nat /\ EndS(r) = StartS(r) + RoundLen
      /\ EndS(r + 1) = StartS(r) + 2 * RoundLen /\ RoundLen \in Nat /\ RoundLen >= 1
  BY RoundTimes, BoundsAssumption
<1>2. /\ TxBlock(r, "commit") = StartS(r) /\ TxBlock(r, "reveal") = EndS(r)
      /\ TxBlock(r, "lateReveal") = EndS(r + 1) /\ TxBlock(r, "sig") = EndS(r) + 1
  BY DEF TxBlock
<1> QED
  BY <1>1, <1>2 DEF EventBlock

(* A step that reads nothing and leaves the ledger alone.                  *)
LEMMA LedgerFrame ==
  ASSUME LedgerOK, tip \in Nat, tip' \in Nat, tip <= tip',
         UNCHANGED <<plan, recs, startTs, rounds, scanLo, tainted, withheld, lost>>, file'.recs = file.recs,
         pc' = "down" \/ (pc # "down" /\ ReadTo' = ReadTo)
  PROVE  LedgerOK'
<1>1. LedgerExact'
  BY RetainMono DEF LedgerOK, LedgerExact, TrueTo, Truth
<1>2. ASSUME NEW r \in Round
      PROVE  /\ Boundary(r)' <=> Boundary(r)
             /\ pc' # "down" => SeenTxs(r)' = SeenTxs(r) /\ (AsRead(r)' <=> AsRead(r))
  BY DEF Boundary, SeenTxs, SeenEvents, AsRead
<1>3. ASSUME pc' # "down", NEW r \in Round, Retainable(r)'
      PROVE  /\ r \notin lost' => recs'[r] = file'.recs[r]
             /\ ~Boundary(r)' /\ recs'[r] = None =>
                  /\ SeenTxs(r)' # {} /\ r \notin withheld' => rounds'[r] # None
                  /\ r \notin tainted' => AsRead(r)'
  BY <1>2, <1>3, RetainMono DEF LedgerOK
<1> QED
  BY <1>1, <1>3 DEF LedgerOK

(* A step that reads a block or a chunk of events.                         *)
LEMMA LedgerReads ==
  ASSUME LedgerOK, pc # "down", UNCHANGED <<plan, tip, recs, file, startTs, lost>>,
         tainted \subseteq tainted', withheld \subseteq withheld',
         \A r \in Round : /\ SeenTxs(r) # {} => rounds[r] # None
                          /\ SeenTxs(r)' # {} /\ r \notin withheld'
                          => rounds'[r] # None,
         \A r \in Round : r \notin tainted' /\ AsRead(r) => AsRead(r)'
  PROVE  LedgerOK'
<1>1. LedgerExact'
  <2> SUFFICES ASSUME NEW r \in Round, file'.recs[r] # None, Retainable(r)', r \notin tainted'
               PROVE  TrueTo(file.recs[r], r)'
    BY DEF LedgerExact
  <2>1. TrueTo(file.recs[r], r)
    BY DEF LedgerOK, LedgerExact, Retainable
  <2> QED
    BY <2>1 DEF TrueTo, Truth
<1>2. ASSUME NEW r \in Round, Retainable(r)'
      PROVE  /\ r \notin lost' => recs'[r] = file'.recs[r]
             /\ ~Boundary(r)' /\ recs'[r] = None =>
                  /\ SeenTxs(r)' # {} /\ r \notin withheld' => rounds'[r] # None
                  /\ r \notin tainted' => AsRead(r)'
  <2>1. Retainable(r) /\ (Boundary(r)' <=> Boundary(r)) /\ recs'[r] = recs[r] /\ file'.recs = file.recs
        /\ lost' = lost
    BY <1>2 DEF Retainable, Boundary
  <2>2. (r \notin tainted' => r \notin tainted) /\ (r \notin withheld' => r \notin withheld)
    OBVIOUS
  <2> QED
    BY <2>1, <2>2 DEF LedgerOK
<1> QED
  BY <1>1, <1>2 DEF LedgerOK

LEMMA LedgerStart ==
  ASSUME ScanOK, FileOK, EpochsOK, EpochsOK', LedgerOK, Start
  PROVE  LedgerOK'
<1>1. /\ UNCHANGED <<plan, tip, file, tainted, withheld>> /\ pc' = "started"
      /\ cursor' = startTs' /\ scanLo' = startTs' /\ startTs' \in Int /\ rounds' = NoRecords
      /\ \/ recs' = Retained(file.recs, reg'.epoch) /\ UNCHANGED lost
         \/ recs' = NoRecords /\ lost' = lost \cup {r \in Round : file.recs[r] # None}
  <2>1. tip \in Nat /\ tip >= 1 /\ file.status.last \in Nat
    BY BoundsAssumption DEF ScanOK, FileOK
  <2>2. ResumeCursor(tip, file.status.last) \in 1 .. tip
    BY <2>1, ResumeFacts, Zenon
  <2> QED
    BY <2>1, <2>2 DEF Start, Anchored, chain
<1>2. LedgerExact'
  BY <1>1 DEF LedgerOK, LedgerExact, TrueTo, Truth, Retainable
<1>3. ASSUME NEW r \in Round, Retainable(r), r \notin lost'
      PROVE  recs'[r] = file.recs[r]
  <2>1. reg'.epoch \in Epoch \cup {None} /\ (reg'.epoch # None => reg'.epoch <= EpochOf(RoundOf(tip)))
    BY <1>1 DEF EpochsOK, RegType
  <2>2. tip \in Nat /\ file.recs \in Ledger
    BY BoundsAssumption DEF ScanOK, FileOK
  <2>3. Retained(file.recs, reg'.epoch)[r] = file.recs[r]
    BY <1>3, <2>1, <2>2, PruneFacts
  <2>4. CASE recs' = NoRecords /\ lost' = lost \cup {q \in Round : file.recs[q] # None}
    BY <1>3, <2>4 DEF NoRecords
  <2> QED
    BY <1>1, <2>3, <2>4
<1>4. ASSUME NEW r \in Round
      PROVE  SeenTxs(r)' = {} /\ AsRead(r)'
  <2>1. ReadTo' = startTs' - 1
    BY <1>1 DEF ReadTo
  <2>2. SeenTxs(r)' = {}
    BY <1>1, <2>1 DEF SeenTxs
  <2>3. SeenEvents(r)' = {}
    BY <1>1 DEF SeenEvents
  <2>4. rounds'[r] = None
    BY <1>1 DEF NoRecords
  <2> QED
    BY <2>2, <2>3, <2>4 DEF AsRead, AsReadOf
<1>5. ASSUME NEW r \in Round, Retainable(r)', r \notin lost'
      PROVE  recs'[r] = file'.recs[r]
  BY <1>1, <1>3, <1>5 DEF Retainable
<1> QED
  BY <1>2, <1>4, <1>5 DEF LedgerOK

(* One block more: all its transactions of round r are in, or the node     *)
(* withheld them.                                                          *)
LEMMA BlockRead ==
  ASSUME ScanOK, FileOK, ScanBlock, NEW r \in Round
  PROVE  LET read == IF Served(cursor) THEN Record(rounds, cursor) ELSE rounds
         IN  /\ AsRead(r) => \E acts \in SUBSET SeenTxs(r)' :
                               /\ r \notin withheld' => acts = SeenTxs(r)'
                               /\ AsReadOf(read[r], acts, SeenEvents(r), plan[r])
             /\ /\ SeenTxs(r) # {} => rounds[r] # None
                /\ SeenTxs(r)' # {} /\ r \notin withheld'
                => read[r] # None
<1> DEFINE read == IF Served(cursor) THEN Record(rounds, cursor) ELSE rounds
           A == {a \in plan[r] \cap Txs : TxBlock(r, a) = cursor}
<1>1. /\ pc = "scan" /\ pc' = "finalize" /\ UNCHANGED <<plan, startTs, cursor>>
      /\ withheld' = IF Served(cursor) THEN withheld ELSE withheld \cup Named(cursor)
  BY DEF ScanBlock, chain
<1>2. startTs \in Int /\ cursor \in Int /\ startTs <= cursor /\ ReadTo = cursor - 1 /\ ReadTo' = cursor
  BY <1>1 DEF ScanOK, ReadTo
<1>3. SeenTxs(r)' = SeenTxs(r) \cup A
  <2>1. SeenTxs(r)' = {a \in plan[r] \cap Txs : TxBlock(r, a) \in startTs .. cursor}
    BY <1>1, <1>2 DEF SeenTxs
  <2>2. SeenTxs(r) = {a \in plan[r] \cap Txs : TxBlock(r, a) \in startTs .. (cursor - 1)}
    BY <1>2 DEF SeenTxs
  <2>3. \A b : b \in startTs .. cursor <=> b \in startTs .. (cursor - 1) \/ b = cursor
    BY <1>2
  <2> QED
    BY <2>1, <2>2, <2>3
<1>4. CASE Served(cursor)
  <2>1. /\ \A acts : AsReadOf(rounds[r], acts, SeenEvents(r), plan[r])
                     => AsReadOf(read[r], acts \cup A, SeenEvents(r), plan[r])
        /\ rounds[r] # None \/ A # {} => read[r] # None
    BY <1>4, ReadTxs DEF FileOK
  <2>2. withheld' = withheld
    BY <1>1, <1>4
  <2> HIDE DEF A, read
  <2>3. SeenTxs(r)' # {} /\ (SeenTxs(r) # {} => rounds[r] # None) => read[r] # None
    BY <1>3, <2>1
  <2>4. ASSUME AsRead(r)
        PROVE  \E acts \in SUBSET SeenTxs(r)' : /\ r \notin withheld' => acts = SeenTxs(r)'
                                                /\ AsReadOf(read[r], acts, SeenEvents(r), plan[r])
    <3>1. PICK acts \in SUBSET SeenTxs(r) : /\ r \notin withheld => acts = SeenTxs(r)
                                            /\ AsReadOf(rounds[r], acts, SeenEvents(r), plan[r])
      BY <2>4 DEF AsRead
    <3>2. /\ acts \cup A \in SUBSET SeenTxs(r)'
          /\ r \notin withheld' => acts \cup A = SeenTxs(r)'
          /\ AsReadOf(read[r], acts \cup A, SeenEvents(r), plan[r])
      BY <1>3, <2>1, <2>2, <3>1
    <3> QED
      BY <3>2
  <2> QED
    BY <2>3, <2>4 DEF read
<1>5. CASE ~Served(cursor)
  <2>1. read = rounds /\ withheld' = withheld \cup Named(cursor)
    BY <1>1, <1>5
  <2>2. r \notin withheld' => r \notin withheld /\ A = {}
    BY <2>1 DEF Named
  <2> HIDE DEF A, read
  <2>3. r \notin withheld' => SeenTxs(r)' = SeenTxs(r)
    BY <1>3, <2>2
  <2>4. SeenTxs(r) \subseteq SeenTxs(r)'
    BY <1>3
  <2>5. ASSUME AsRead(r)
        PROVE  \E acts \in SUBSET SeenTxs(r)' : /\ r \notin withheld' => acts = SeenTxs(r)'
                                                /\ AsReadOf(read[r], acts, SeenEvents(r), plan[r])
    <3>1. PICK acts \in SUBSET SeenTxs(r) : /\ r \notin withheld => acts = SeenTxs(r)
                                            /\ AsReadOf(rounds[r], acts, SeenEvents(r), plan[r])
      BY <2>5 DEF AsRead
    <3> QED
      BY <2>1, <2>2, <2>3, <2>4, <3>1
  <2> QED
    BY <2>1, <2>3, <2>5 DEF read
<1> QED
  BY <1>4, <1>5 DEF read

LEMMA LedgerScan ==
  ASSUME ScanOK, FileOK, LedgerOK, ScanBlock
  PROVE  LedgerOK'
<1> DEFINE read == IF Served(cursor) THEN Record(rounds, cursor) ELSE rounds
<1>1. /\ pc = "scan" /\ UNCHANGED <<plan, tip, recs, file, startTs, cursor, lost>>
      /\ withheld \subseteq withheld'
      /\ \/ FlushEvents(read, scanLo, cursor) /\ scanLo' = cursor + 1
         \/ rounds' = read /\ UNCHANGED <<scanLo, tainted>>
  BY DEF ScanBlock, chain, ledger
<1>2. /\ startTs \in Int /\ scanLo \in Int /\ cursor \in Int /\ startTs <= scanLo /\ scanLo <= cursor + 1
  BY <1>1 DEF ScanOK, ReadTo
<1>3. read \in InFlight
  BY RecordFacts DEF FileOK
<1>4. \A r \in Round : /\ AsRead(r) => \E acts \in SUBSET SeenTxs(r)' :
                                         /\ r \notin withheld' => acts = SeenTxs(r)'
                                         /\ AsReadOf(read[r], acts, SeenEvents(r), plan[r])
                       /\ /\ SeenTxs(r) # {} => rounds[r] # None
                          /\ SeenTxs(r)' # {} /\ r \notin withheld'
                          => read[r] # None
  BY BlockRead
<1> HIDE DEF read
<1>5. ASSUME NEW r \in Round
      PROVE  /\ read[r] # None => rounds'[r] # None
             /\ \A acts : AsReadOf(read[r], acts, SeenEvents(r), plan[r]) /\ r \notin tainted'
                          => AsReadOf(rounds'[r], acts, SeenEvents(r)', plan'[r])
  <2>1. CASE FlushEvents(read, scanLo, cursor) /\ scanLo' = cursor + 1
    BY <1>1, <1>2, <1>3, <2>1, EventsFlushed
  <2>2. CASE rounds' = read /\ UNCHANGED <<scanLo, tainted>>
    <3>1. SeenEvents(r)' = SeenEvents(r)
      BY <1>1, <2>2 DEF SeenEvents
    <3> QED
      BY <1>1, <2>2, <3>1
  <2> QED
    BY <1>1, <2>1, <2>2
<1>6. tainted \subseteq tainted'
  <2>1. CASE FlushEvents(read, scanLo, cursor)
    BY <2>1 DEF FlushEvents
  <2> QED
    BY <1>1, <2>1
<1>7. \A r \in Round : r \notin tainted' /\ AsRead(r) => AsRead(r)'
  <2> SUFFICES ASSUME NEW r \in Round, r \notin tainted', AsRead(r)
               PROVE  AsRead(r)'
    OBVIOUS
  <2>1. PICK acts \in SUBSET SeenTxs(r)' : /\ r \notin withheld' => acts = SeenTxs(r)'
                                           /\ AsReadOf(read[r], acts, SeenEvents(r), plan[r])
    BY <1>4
  <2>2. AsReadOf(rounds'[r], acts, SeenEvents(r)', plan'[r])
    BY <1>5, <2>1
  <2> QED
    BY <2>1, <2>2 DEF AsRead
<1>8. \A r \in Round : /\ SeenTxs(r) # {} => rounds[r] # None
                       /\ SeenTxs(r)' # {} /\ r \notin withheld'
                       => rounds'[r] # None
  BY <1>4, <1>5
<1> QED
  BY <1>1, <1>6, <1>7, <1>8, LedgerReads

LEMMA LedgerEndPass ==
  ASSUME ScanOK, FileOK, LedgerOK, EndPass
  PROVE  LedgerOK'
<1>1. /\ pc \in {"pass", "scan"} /\ pc' = "overlays"
      /\ UNCHANGED <<plan, tip, recs, file, startTs, cursor, withheld, lost>>
      /\ \/ cursor - 1 >= scanLo /\ FlushEvents(rounds, scanLo, cursor - 1) /\ scanLo' = cursor
         \/ UNCHANGED <<rounds, scanLo, tainted>>
  BY DEF EndPass, chain, ledger
<1>2. /\ startTs \in Int /\ scanLo \in Int /\ cursor \in Int /\ startTs <= scanLo
      /\ ReadTo' = ReadTo
  BY <1>1 DEF ScanOK, ReadTo
<1>3. rounds \in InFlight
  BY DEF FileOK
<1>4. CASE UNCHANGED <<rounds, scanLo, tainted>>
  <2>1. tip \in Nat /\ tip' \in Nat /\ tip <= tip' /\ file'.recs = file.recs
    BY <1>1, BoundsAssumption DEF ScanOK
  <2> QED
    BY <1>1, <1>2, <1>4, <2>1, LedgerFrame
<1>5. CASE cursor - 1 >= scanLo /\ FlushEvents(rounds, scanLo, cursor - 1) /\ scanLo' = cursor
  <2>1. cursor - 1 \in Int /\ scanLo' = (cursor - 1) + 1 /\ scanLo <= (cursor - 1) + 1
    BY <1>2, <1>5
  <2>2. ASSUME NEW r \in Round
        PROVE  /\ rounds[r] # None => rounds'[r] # None
               /\ \A acts : AsReadOf(rounds[r], acts, SeenEvents(r), plan[r]) /\ r \notin tainted'
                            => AsReadOf(rounds'[r], acts, SeenEvents(r)', plan[r])
    BY <1>1, <1>2, <1>3, <1>5, <2>1, EventsFlushed
  <2>3. \A r \in Round : SeenTxs(r)' = SeenTxs(r)
    BY <1>1, <1>2 DEF SeenTxs
  <2>4. tainted \subseteq tainted'
    BY <1>5 DEF FlushEvents
  <2>5. \A r \in Round : r \notin tainted' /\ AsRead(r) => AsRead(r)'
    BY <1>1, <2>2, <2>3 DEF AsRead
  <2>6. withheld \subseteq withheld' /\ pc # "down"
    BY <1>1
  <2>7. \A r \in Round : /\ SeenTxs(r) # {} => rounds[r] # None
                         /\ SeenTxs(r)' # {} /\ r \notin withheld'
                         => rounds'[r] # None
    BY <2>2, <2>3
  <2> QED
    BY <1>1, <2>4, <2>5, <2>6, <2>7, LedgerReads
<1> QED
  BY <1>1, <1>4, <1>5

(* A round that closes has been read to the end, events included.          *)
LEMMA ClosedRecord ==
  ASSUME ScanOK, FileOK, LedgerOK, pc = "finalize", NEW r \in Round, EndS(r + 1) < last,
         rounds[r] # None, rounds[r] \in RoundState, ~Boundary(r), recs[r] = None,
         Retainable(r), r \notin tainted
  PROVE  TrueTo(RecordOf(rounds[r], catching), r)
<1>1. /\ AsRead(r) /\ catching \in BOOLEAN /\ r \in Nat
      /\ last = cursor /\ cursor - scanLo + 1 < Chunk /\ ReadTo = cursor
      /\ cursor \in Int /\ scanLo \in Int /\ startTs \in Int /\ Chunk \in Int /\ Chunk <= RoundLen + 2
      /\ StartS(r) >= startTs
  <2>1. AsRead(r) /\ catching \in BOOLEAN /\ r \in Nat /\ ReadTo = cursor
    BY RoundType DEF LedgerOK, FileOK, ReadTo
  <2>2. last = cursor /\ cursor - scanLo + 1 < Chunk /\ cursor \in Int /\ scanLo \in Int /\ startTs \in Int
    BY DEF ScanOK
  <2>3. Chunk \in Int /\ Chunk <= RoundLen + 2
    BY WindowsAssumption, BoundsAssumption
  <2>4. StartS(r) >= startTs
    BY <2>1, <2>2, RoundTimes DEF Boundary
  <2> QED
    BY <2>1, <2>2, <2>3, <2>4
<1>2. /\ \A a \in {"commit", "reveal", "lateReveal", "sig"} : TxBlock(r, a) \in StartS(r) .. EndS(r + 1)
      /\ EventBlock(r) \in StartS(r) .. (EndS(r) - 1)
  BY <1>1, ActBlocks
<1>3. StartS(r) \in Int /\ EndS(r) = StartS(r) + RoundLen /\ EndS(r + 1) = StartS(r) + 2 * RoundLen
      /\ RoundLen \in Nat /\ RoundLen >= 1
  BY <1>1, RoundTimes, BoundsAssumption
<1>4. \A b \in StartS(r) .. EndS(r + 1) : b \in startTs .. ReadTo
  BY <1>1, <1>3
<1>5. SeenEvents(r) = plan[r] \cap Events
  <2>1. EventBlock(r) \in startTs .. (scanLo - 1)
    BY <1>1, <1>2, <1>3
  <2> QED
    BY <2>1 DEF SeenEvents
<1>6. \A a \in {"commit", "reveal", "lateReveal"} : a \in SeenTxs(r) <=> a \in plan[r]
  BY <1>2, <1>4 DEF SeenTxs, Txs
<1>7. PICK acts \in SUBSET SeenTxs(r) : /\ r \notin withheld => acts = SeenTxs(r)
                                        /\ AsReadOf(rounds[r], acts, SeenEvents(r), plan[r])
  BY <1>1 DEF AsRead
<1>8. catching \in BOOLEAN /\ acts \subseteq plan[r]
  BY <1>1, <1>7 DEF SeenTxs
<1> DEFINE x == rounds[r]
           y == RecordOf(x, catching)
<1>9. x \in RoundState
  OBVIOUS
<1>10. Built(x, acts, plan[r] \cap Events, plan[r])
  BY <1>5, <1>7 DEF AsReadOf
<1>11. r \notin withheld => \A a \in {"commit", "reveal", "lateReveal"} : a \in acts <=> a \in plan[r]
  BY <1>6, <1>7
<1> HIDE DEF x
<1>12. r \notin withheld => /\ [y EXCEPT !.ro = FALSE] = [Truth(r) EXCEPT !.ro = FALSE]
                            /\ y.ro => Truth(r).ro
  BY ONLY <1>8, <1>9, <1>10, <1>11, ExactRecord, ZenonT(60)
<1>13. /\ y.fexp = Truth(r).fexp /\ y.fu = Truth(r).fu
       /\ (y.s1 => Truth(r).s1) /\ (y.s2 => Truth(r).s2) /\ (y.fok => Truth(r).fok)
  BY ONLY <1>8, <1>9, <1>10, PartialRecord, ZenonT(60)
<1> HIDE DEF y
<1>14. TrueTo(y, r)
  BY <1>12, <1>13 DEF TrueTo
<1> QED
  BY <1>14 DEF x, y

LEMMA LedgerFinalize ==
  ASSUME ScanOK, FileOK, LedgerOK, FinalizeRound
  PROVE  LedgerOK'
<1> DEFINE r0 == NextDue
           y == RecordOf(rounds[r0], catching)
<1>1. /\ pc = "finalize" /\ Due # {}
      /\ UNCHANGED <<plan, tip, pc, cursor, scanLo, last, startTs, tainted, withheld>>
      /\ rounds' = [rounds EXCEPT ![r0] = None]
      /\ \/ (Boundary(r0) \/ recs[r0] # None) /\ UNCHANGED <<recs, file, lost>>
         \/ /\ ~Boundary(r0) /\ recs[r0] = None
            /\ recs' = [recs EXCEPT ![r0] = y]
            /\ AppendRecord(r0, y)
  BY FinalizeFacts, Zenon DEF ledger
<1>2. r0 \in Round /\ rounds[r0] # None /\ rounds[r0] \in RoundState /\ EndS(r0 + 1) < last
  BY <1>1, NextDueFacts
<1>3. /\ catching \in BOOLEAN /\ rounds \in InFlight /\ recs \in Ledger /\ file.recs \in Ledger
      /\ FileShape /\ file.torn \in BOOLEAN
  BY DEF FileOK
<1>4. y \in LedgerRecord /\ y # None
  BY <1>2, <1>3, RecordOfFacts, NoneAssumption
<1>5. ~Boundary(r0) /\ recs[r0] = None /\ Retainable(r0) /\ r0 \notin tainted => TrueTo(y, r0)
  BY <1>1, <1>2, ClosedRecord
<1> HIDE DEF r0, y
<1>6. ASSUME NEW r \in Round
      PROVE  /\ Boundary(r)' <=> Boundary(r)
             /\ SeenTxs(r)' = SeenTxs(r) /\ SeenEvents(r)' = SeenEvents(r)
             /\ Retainable(r)' <=> Retainable(r)
             /\ Truth(r)' = Truth(r)
             /\ r # r0 => rounds'[r] = rounds[r]
  BY <1>1, <1>3 DEF Boundary, SeenTxs, SeenEvents, ReadTo, Retainable, Truth, InFlight
<1>7. CASE (Boundary(r0) \/ recs[r0] # None) /\ UNCHANGED <<recs, file, lost>>
  <2>1. LedgerExact'
    BY <1>1, <1>6, <1>7 DEF LedgerOK, LedgerExact, TrueTo
  <2>2. ASSUME NEW r \in Round, Retainable(r)'
        PROVE  /\ r \notin lost' => recs'[r] = file'.recs[r]
               /\ ~Boundary(r)' /\ recs'[r] = None =>
                    /\ SeenTxs(r)' # {} /\ r \notin withheld' => rounds'[r] # None
                    /\ r \notin tainted' => AsRead(r)'
    BY <1>1, <1>6, <1>7, <2>2 DEF LedgerOK, AsRead
  <2> QED
    BY <2>1, <2>2 DEF LedgerOK
<1>8. CASE /\ ~Boundary(r0) /\ recs[r0] = None
           /\ recs' = [recs EXCEPT ![r0] = y]
           /\ AppendRecord(r0, y)
  <2>1. /\ lost \subseteq lost'
        /\ \/ file'.recs = [file.recs EXCEPT ![r0] = y] /\ lost' = lost
           \/ file'.recs = file.recs /\ lost' = lost \cup {r0}
    BY <1>3, <1>8, AppendFacts
  <2>2. ASSUME NEW r \in Round
        PROVE  /\ r = r0 => recs'[r] = y /\ (file'.recs[r] = y \/ (file'.recs[r] = file.recs[r] /\ r \in lost'))
               /\ r # r0 => recs'[r] = recs[r] /\ file'.recs[r] = file.recs[r]
    BY <1>2, <1>3, <1>8, <2>1 DEF Ledger
  <2>3. LedgerExact'
    <3> SUFFICES ASSUME NEW r \in Round, file'.recs[r] # None, Retainable(r)', r \notin tainted'
                 PROVE  TrueTo(file.recs[r], r)'
      BY DEF LedgerExact
    <3>1. Retainable(r) /\ r \notin tainted /\ Truth(r)' = Truth(r) /\ withheld' = withheld
      BY <1>1, <1>6
    <3>2. CASE file'.recs[r] = y /\ r = r0
      <4>1. TrueTo(y, r)
        BY <1>5, <1>8, <3>1, <3>2
      <4> QED
        BY <3>1, <3>2, <4>1 DEF TrueTo
    <3>3. CASE file'.recs[r] = file.recs[r]
      <4>1. TrueTo(file.recs[r], r)
        BY <3>1, <3>3 DEF LedgerOK, LedgerExact
      <4> QED
        BY <3>1, <3>3, <4>1 DEF TrueTo
    <3> QED
      BY <2>2, <3>2, <3>3
  <2>4. ASSUME NEW r \in Round, Retainable(r)'
        PROVE  /\ r \notin lost' => recs'[r] = file'.recs[r]
               /\ ~Boundary(r)' /\ recs'[r] = None =>
                    /\ SeenTxs(r)' # {} /\ r \notin withheld' => rounds'[r] # None
                    /\ r \notin tainted' => AsRead(r)'
    <3>1. CASE r = r0
      BY <1>4, <2>2, <3>1
    <3>2. CASE r # r0
      BY <1>1, <1>6, <2>1, <2>2, <2>4, <3>2 DEF LedgerOK, AsRead
    <3> QED
      BY <3>1, <3>2
  <2> QED
    BY <2>3, <2>4 DEF LedgerOK
<1> QED
  BY <1>1, <1>7, <1>8

(* The pruning of memory and disk spares the rounds the ledger answers for, *)
(* but for those a cut file lost.                                          *)
LEMMA PruningFacts ==
  ASSUME ScanOK, FileOK, EpochsOK, (\E due \in BOOLEAN : Report(due)) \/ PruneFile \/ CutFile
  PROVE  /\ pc \in {"report", "prune"} /\ pc' \in {"poll", "prune", "down"}
         /\ UNCHANGED <<plan, tip, cursor, scanLo, last, startTs, rounds, tainted, withheld, origin>>
         /\ file'.status = file.status \/ (pc' # "down" /\ file'.status.last = last)
         /\ lost \subseteq lost'
         /\ \A r \in Round : Retainable(r) =>
              /\ recs'[r] = recs[r]
              /\ file'.recs[r] = file.recs[r] \/ (file'.recs[r] = None /\ r \in lost')
<1>1. /\ tip \in Nat /\ recs \in Ledger /\ file.recs \in Ledger /\ FileShape
      /\ reg.epoch \in Epoch \cup {None} /\ (reg.epoch # None => reg.epoch <= EpochOf(RoundOf(tip)))
      /\ reg.epoch = None \/ reg.epoch \in Nat
  <2>1. tip \in Nat
    BY BoundsAssumption DEF ScanOK
  <2>2. recs \in Ledger /\ file.recs \in Ledger /\ FileShape
    BY DEF FileOK
  <2>3. reg.epoch \in Epoch \cup {None} /\ (reg.epoch # None => reg.epoch <= EpochOf(RoundOf(tip)))
        /\ (reg.epoch = None \/ reg.epoch \in Nat)
    BY EpochType DEF EpochsOK, RegType
  <2> QED
    BY <2>1, <2>2, <2>3
<1>2. ASSUME NEW r \in Round, Retainable(r)
      PROVE  Retained(recs, reg.epoch)[r] = recs[r] /\ Retained(file.recs, reg.epoch)[r] = file.recs[r]
  BY <1>1, <1>2, PruneFacts
<1>3. ASSUME NEW due \in BOOLEAN, Report(due)
      PROVE  /\ pc = "report" /\ pc' \in {"poll", "prune"} /\ UNCHANGED <<lost, withheld>>
             /\ UNCHANGED <<plan, tip, cursor, scanLo, last, startTs, rounds, tainted, origin>>
             /\ file'.status.last = last /\ file'.recs = file.recs
             /\ recs' = recs \/ recs' = Retained(recs, reg.epoch)
  <2>1. /\ pc = "report" /\ pc' \in {"poll", "prune"} /\ UNCHANGED <<lost, withheld>>
        /\ UNCHANGED <<plan, tip, cursor, scanLo, last, startTs, rounds, tainted, origin>>
        /\ file' = [file EXCEPT !.status = BuildStatus]
        /\ recs' = recs \/ recs' = Retained(recs, reg.epoch)
    BY <1>3 DEF Report, chain, hist
  <2>2. file'.status = BuildStatus /\ file'.recs = file.recs
    BY <1>1, <2>1, FileStatus
  <2> QED
    BY <2>1, <2>2, StatusLast
<1>4. CASE PruneFile \/ CutFile
  <2>1. /\ pc = "prune" /\ pc' \in {"poll", "down"} /\ UNCHANGED <<recs, withheld>>
        /\ UNCHANGED <<plan, tip, cursor, scanLo, last, startTs, rounds, tainted, origin>>
    BY <1>4 DEF PruneFile, CutFile, chain, scan, ledger, hist
  <2>2. /\ file'.status = file.status /\ lost \subseteq lost'
        /\ \A r \in Round : \/ file'.recs[r] = Retained(file.recs, reg.epoch)[r]
                            \/ file'.recs[r] = None /\ r \in lost'
    <3>1. CASE PruneFile
      <4>1. lost' = lost
        BY <3>1 DEF PruneFile, hist
      <4> QED
        BY <1>1, <3>1, <4>1, PruneFileFacts
    <3>2. CASE CutFile
      BY <1>1, <3>2, CutFacts
    <3> QED
      BY <1>4, <3>1, <3>2
  <2> QED
    BY <1>2, <2>1, <2>2
<1> QED
  BY <1>2, <1>3, <1>4

LEMMA LedgerPruning ==
  ASSUME ScanOK, FileOK, EpochsOK, LedgerOK, (\E due \in BOOLEAN : Report(due)) \/ PruneFile \/ CutFile
  PROVE  LedgerOK'
<1>1. /\ pc \in {"report", "prune"} /\ pc' \in {"poll", "prune", "down"}
      /\ UNCHANGED <<plan, tip, cursor, scanLo, startTs, rounds, tainted, withheld>>
      /\ lost \subseteq lost'
      /\ \A r \in Round : Retainable(r) =>
           /\ recs'[r] = recs[r]
           /\ file'.recs[r] = file.recs[r] \/ (file'.recs[r] = None /\ r \in lost')
  BY PruningFacts
<1>2. ASSUME NEW r \in Round
      PROVE  /\ Boundary(r)' <=> Boundary(r)
             /\ SeenTxs(r)' = SeenTxs(r) /\ (AsRead(r)' <=> AsRead(r))
             /\ Retainable(r)' <=> Retainable(r)
             /\ Truth(r)' = Truth(r)
  BY <1>1 DEF Boundary, SeenTxs, SeenEvents, AsRead, ReadTo, Retainable, Truth
<1>3. LedgerExact'
  <2> SUFFICES ASSUME NEW r \in Round, file'.recs[r] # None, Retainable(r)', r \notin tainted'
               PROVE  TrueTo(file.recs[r], r)'
    BY DEF LedgerExact
  <2>1. file'.recs[r] = file.recs[r] /\ TrueTo(file.recs[r], r)
    BY <1>1, <1>2 DEF LedgerOK, LedgerExact
  <2> QED
    BY <1>1, <1>2, <2>1 DEF TrueTo
<1>4. ASSUME NEW r \in Round, Retainable(r)'
      PROVE  /\ r \notin lost' => recs'[r] = file'.recs[r]
             /\ ~Boundary(r)' /\ recs'[r] = None =>
                  /\ SeenTxs(r)' # {} /\ r \notin withheld' => rounds'[r] # None
                  /\ r \notin tainted' => AsRead(r)'
  <2>1. Retainable(r) /\ pc # "down" /\ recs'[r] = recs[r]
        /\ (file'.recs[r] = file.recs[r] \/ r \in lost') /\ (r \notin lost' => r \notin lost)
    BY <1>1, <1>2, <1>4
  <2> QED
    BY <1>1, <1>2, <2>1 DEF LedgerOK
<1> QED
  BY <1>3, <1>4 DEF LedgerOK

LEMMA LedgerStep ==
  ASSUME ScanOK, FileOK, EpochsOK, EpochsOK', LedgerOK, Next
  PROVE  LedgerOK'
<1>1. tip \in Nat /\ tip' \in Nat /\ tip <= tip'
  BY ScanStep
<1>2. FileShape
  BY DEF FileOK
<1>3. CASE Grow \/ HourPasses \/ PollFails \/ BlockFails \/ Crash \/ Overlays
  <2>1. /\ UNCHANGED <<plan, recs, startTs, rounds, scanLo, tainted, withheld, lost, file, cursor>>
        /\ pc' = "down" \/ (pc # "down" /\ pc' = pc) \/ (pc = "down" /\ pc' = "down")
           \/ (pc \in {"scan", "overlays"} /\ pc' \in {"pass", "report"})
    BY <1>3 DEF Grow, HourPasses, PollFails, BlockFails, Crash, Overlays, chain, scan, ledger, hist
  <2>2. pc' = "down" \/ (pc # "down" /\ ReadTo' = ReadTo)
    BY <2>1 DEF ReadTo
  <2> QED
    BY <1>1, <2>1, <2>2, LedgerFrame
<1>4. CASE FirstStatus
  <2>1. /\ UNCHANGED <<plan, recs, startTs, rounds, scanLo, tainted, withheld, lost, cursor>>
        /\ pc = "started" /\ pc' = "poll" /\ file' = [file EXCEPT !.status = BuildStatus]
    BY <1>4 DEF FirstStatus, chain, scan, ledger, hist
  <2>2. file'.recs = file.recs
    BY <1>2, <2>1, FileStatus
  <2>3. pc # "down" /\ ReadTo' = ReadTo
    BY <2>1 DEF ReadTo
  <2> QED
    BY <1>1, <2>1, <2>2, <2>3, LedgerFrame
<1>5. CASE PollHead
  <2>1. /\ UNCHANGED <<plan, recs, startTs, rounds, scanLo, tainted, withheld, lost, cursor>>
        /\ pc = "poll" /\ pc' = "scan"
        /\ \/ file' = file
           \/ file' = [file EXCEPT !.gaps = @ \cup {[from |-> last, to |-> tip]}]
    BY <1>5 DEF PollHead, chain, ledger, hist
  <2>2. file'.recs = file.recs
    BY <1>2, <2>1, FileGap
  <2>3. pc # "down" /\ ReadTo' = ReadTo
    BY <2>1 DEF ReadTo
  <2> QED
    BY <1>1, <2>1, <2>2, <2>3, LedgerFrame
<1>6. CASE NextBlock
  <2>1. /\ UNCHANGED <<plan, recs, startTs, rounds, scanLo, tainted, withheld, lost>> /\ cursor' = cursor + 1
        /\ pc = "finalize" /\ pc' = "scan"
        /\ \/ file' = file
           \/ file' = [file EXCEPT !.status = BuildStatus]
    BY <1>6 DEF NextBlock, chain, ledger, hist
  <2>2. file'.recs = file.recs
    BY <1>2, <2>1, FileStatus
  <2>3. pc # "down" /\ ReadTo' = ReadTo
    BY <2>1 DEF ReadTo, ScanOK
  <2> QED
    BY <1>1, <2>1, <2>2, <2>3, LedgerFrame
<1> QED
  BY <1>3, <1>4, <1>5, <1>6, LedgerStart, LedgerScan, LedgerEndPass, LedgerFinalize,
     LedgerPruning
     DEF Next, Engine, Disturbance
-----------------------------------------------------------------------------
(***************************************************************************)
(* Records are final, and nothing is left out.                             *)
(***************************************************************************)
LEMMA FinalStep ==
  ASSUME ScanOK, FileOK, EpochsOK, LedgerOK, Next
  PROVE  /\ lost \subseteq lost' /\ withheld \subseteq withheld'
         /\ \A r \in Round : Retainable(r) /\ file.recs[r] # None /\ r \notin lost'
                             => file'.recs[r] = file.recs[r]
<1>1. FileShape /\ recs \in Ledger /\ file.recs \in Ledger /\ file.torn \in BOOLEAN
  BY DEF FileOK
<1>2. CASE FinalizeRound
  <2> DEFINE r0 == NextDue
             y == RecordOf(rounds[r0], catching)
  <2>1. /\ pc = "finalize" /\ UNCHANGED withheld
        /\ \/ UNCHANGED <<file, lost>>
           \/ recs[r0] = None /\ AppendRecord(r0, y)
    BY <1>2, FinalizeFacts, Zenon
  <2> HIDE DEF r0, y
  <2>2. CASE recs[r0] = None /\ AppendRecord(r0, y)
    <3>1. /\ lost \subseteq lost'
          /\ \/ file'.recs = [file.recs EXCEPT ![r0] = y]
             \/ file'.recs = file.recs
      BY <1>1, <2>2, AppendFacts
    <3>2. ASSUME NEW r \in Round, Retainable(r), file.recs[r] # None, r \notin lost'
          PROVE  file'.recs[r] = file.recs[r]
      <4>1. recs[r] = file.recs[r]
        BY <2>1, <3>1, <3>2 DEF LedgerOK
      <4>2. r # r0
        BY <2>2, <3>2, <4>1
      <4> QED
        BY <1>1, <3>1, <4>2 DEF Ledger
    <3> QED
      BY <2>1, <3>1, <3>2
  <2> QED
    BY <2>1, <2>2
<1>3. CASE (\E due \in BOOLEAN : Report(due)) \/ PruneFile \/ CutFile
  BY <1>3, PruningFacts
<1>4. CASE Next /\ ~FinalizeRound /\ ~((\E due \in BOOLEAN : Report(due)) \/ PruneFile \/ CutFile)
  <2>1. /\ lost \subseteq lost' /\ withheld \subseteq withheld'
        /\ \/ UNCHANGED file
           \/ file' = [file EXCEPT !.status = BuildStatus]
           \/ file' = [file EXCEPT !.gaps = @ \cup {[from |-> last, to |-> tip]}]
    BY <1>4 DEF Next, Engine, Disturbance, Grow, Start, FirstStatus, PollHead, ScanBlock, NextBlock,
                EndPass, Overlays, HourPasses, PollFails, BlockFails, Crash, hist
  <2>2. file'.recs = file.recs
    BY <1>1, <2>1, FileStatus, FileGap
  <2> QED
    BY <2>1, <2>2
<1> QED
  BY <1>2, <1>3, <1>4

(* What memory holds of the rounds the ledger answers for, it keeps.       *)
LEMMA MemoryStays ==
  ASSUME ScanOK, FileOK, EpochsOK, Next, pc # "down", NEW r \in Round, Retainable(r), recs[r] # None
  PROVE  recs'[r] # None
<1>1. CASE FinalizeRound
  <2> DEFINE r0 == NextDue
             y == RecordOf(rounds[r0], catching)
  <2>1. UNCHANGED recs \/ recs' = [recs EXCEPT ![r0] = y]
    BY <1>1, FinalizeFacts, Zenon DEF ledger
  <2>2. y # None
    <3>1. rounds[r0] \in RoundState /\ catching \in BOOLEAN
      BY <1>1, FinalizeFacts, NextDueFacts DEF FileOK
    <3> QED
      BY <3>1, RecordOfFacts, NoneAssumption
  <2> HIDE DEF r0, y
  <2> QED
    BY <2>1, <2>2 DEF FileOK, Ledger
<1>2. CASE (\E due \in BOOLEAN : Report(due)) \/ PruneFile \/ CutFile
  BY <1>2, PruningFacts
<1>3. CASE Next /\ ~FinalizeRound /\ ~((\E due \in BOOLEAN : Report(due)) \/ PruneFile \/ CutFile)
  <2>1. UNCHANGED recs
    BY <1>3 DEF Next, Engine, Disturbance, Grow, Start, FirstStatus, PollHead, ScanBlock, NextBlock,
                EndPass, Overlays, HourPasses, PollFails, BlockFails, Crash, ledger
  <2> QED
    BY <2>1
<1> QED
  BY <1>1, <1>2, <1>3

(* A step that moves neither the start of the run nor the claim, or moves  *)
(* the claim to what the run has passed.                                   *)
LEMMA CoverFrame ==
  ASSUME ScanOK, FileOK, EpochsOK, LedgerOK, LedgerOK', CoverOK, Next,
         UNCHANGED <<plan, startTs, origin>>,
         pc' = "down" \/ pc # "down",
         \/ pc' \in {"down", "finalize"}
         \/ pc \notin {"down", "finalize"} /\ last' = last
         \/ PassedCovered',
         \/ file'.status.last = file.status.last
         \/ pc' \notin {"down", "finalize"} /\ file'.status.last = last'
  PROVE  CoverOK'
<1>1. /\ tip \in Nat /\ tip' \in Nat /\ tip <= tip' /\ file.status.last \in Nat
  <2>1. tip \in Nat /\ tip' \in Nat /\ tip <= tip'
    BY ScanStep
  <2>2. file.status.last \in 0 .. tip
    BY DEF FileOK
  <2> QED
    BY <2>1, <2>2
<1>2. ASSUME NEW r \in Round, Owed(r)'
      PROVE  /\ Owed(r) /\ Retainable(r)
             /\ r \notin lost' => r \notin lost /\ (file.recs[r] # None => file'.recs[r] # None)
             /\ Boundary(r)' <=> Boundary(r)
             /\ pc # "down" /\ r \notin lost => recs[r] = file.recs[r]
             /\ pc' # "down" /\ r \notin lost' => recs'[r] = file'.recs[r]
             /\ pc # "down" /\ pc' # "down" /\ recs[r] # None => recs'[r] # None
  <2>1. Retainable(r) /\ Retainable(r)'
    BY <1>1, <1>2, RetainMono DEF Owed
  <2>2. /\ lost \subseteq lost' /\ withheld \subseteq withheld'
        /\ file.recs[r] # None /\ r \notin lost' => file'.recs[r] = file.recs[r]
    BY <2>1, FinalStep
  <2>3. Owed(r)
    BY <1>2, <2>1, <2>2 DEF Owed, Busy
  <2>4. pc # "down" /\ pc' # "down" /\ recs[r] # None => recs'[r] # None
    BY <2>1, MemoryStays
  <2> QED
    BY <2>1, <2>2, <2>3, <2>4 DEF LedgerOK, Boundary
<1>3. InheritedCovered'
  BY <1>2 DEF CoverOK, InheritedCovered
<1>4. PassedCovered'
  <2>1. CASE pc' \notin {"down", "finalize"} /\ pc \notin {"down", "finalize"} /\ last' = last
    BY <1>2, <2>1 DEF CoverOK, PassedCovered
  <2>2. CASE pc' \in {"down", "finalize"}
    BY <2>2 DEF PassedCovered
  <2> QED
    BY <2>1, <2>2
<1>5. StatusCovered'
  <2>1. CASE file'.status.last = file.status.last
    <3>1. CapBites(tip, file.status.last) => CapBites(tip', file.status.last)
      BY <1>1, CapStaysBitten
    <3>2. CapBites(tip, file.status.last)' <=> CapBites(tip', file.status.last)
      BY <2>1 DEF CapBites
    <3> QED
      BY <1>2, <2>1, <3>1, <3>2 DEF CoverOK, StatusCovered
  <2>2. CASE pc' \notin {"down", "finalize"} /\ file'.status.last = last'
    <3> SUFFICES ASSUME NEW r \in Round, Owed(r)', r \notin lost', EndS(r + 1) < last'
                 PROVE  file'.recs[r] # None
      BY <2>2 DEF StatusCovered
    <3> QED
      BY <1>2, <1>3, <1>4, <2>2 DEF InheritedCovered, PassedCovered
  <2> QED
    BY <2>1, <2>2
<1>6. plan'[0] = {} /\ (pc' # "down" \/ file'.status.last # 0 => origin' # None)
  BY DEF CoverOK
<1> QED
  BY <1>3, <1>4, <1>5, <1>6 DEF CoverOK

(* A start resumes before every round the last status does not cover, or   *)
(* gives up the coverage of what lies before it.                           *)
LEMMA CoverStart ==
  ASSUME ScanOK, FileOK, CoverOK, Start
  PROVE  CoverOK'
<1> DEFINE p == file.status.last
           c == ResumeCursor(tip, p)
<1>1. /\ UNCHANGED <<plan, tip, file, withheld>> /\ lost \subseteq lost' /\ pc' = "started" /\ startTs' = c /\ last' = c
      /\ origin' = IF p = 0 \/ CapBites(tip, p) THEN c ELSE origin
  BY DEF Start, Anchored, chain
<1>2. p \in Nat /\ tip \in Nat /\ tip >= 1
  BY BoundsAssumption DEF ScanOK, FileOK
<1>3. c \in Nat /\ c # None /\ (p # 0 /\ ~CapBites(tip, p) => c <= 1 \/ c <= p - Lookback)
  <2>1. /\ c \in 1 .. tip
        /\ p # 0 /\ ~CapBites(tip, p) => c <= 1 \/ c <= p - Lookback
    BY <1>2, ResumeFacts, Zenon
  <2> HIDE DEF c, p
  <2> QED
    BY <1>2, <2>1, NoneAssumption
<1> HIDE DEF c
<1>4. Lookback \in Nat /\ Lookback > 2 * RoundLen /\ RoundLen \in Nat /\ RoundLen >= 1
  BY BoundsAssumption, WindowsAssumption
<1>5. StatusCovered'
  <2> SUFFICES ASSUME p # 0, ~CapBites(tip, p), NEW r \in Round, Owed(r)', r \notin lost', EndS(r + 1) < p
               PROVE  file.recs[r] # None
    BY <1>1 DEF StatusCovered, CapBites
  <2>1. Owed(r) /\ r \notin lost
    BY <1>1 DEF Owed, Busy, Retainable
  <2> QED
    BY <2>1 DEF CoverOK, StatusCovered
<1>6. InheritedCovered'
  <2> SUFFICES ASSUME NEW r \in Round, Owed(r)', r \notin lost', Boundary(r)'
               PROVE  file'.recs[r] # None
    BY DEF InheritedCovered
  <2>1. r \in Nat /\ StartS(r) \in Nat /\ EndS(r + 1) = StartS(r) + 2 * RoundLen
        /\ (r # 0 => StartS(r) >= RoundLen)
    BY RoundType, RoundTimes
  <2>2. StartS(r) < c
    BY <1>1 DEF Boundary
  <2>3. p # 0 /\ ~CapBites(tip, p) /\ origin' = origin
    BY <1>1, <1>3, <2>1, <2>2 DEF Owed
  <2>4. r # 0
    BY <1>1 DEF CoverOK, Owed, Busy
  <2>5. c <= p - Lookback
    BY <1>3, <1>4, <2>1, <2>2, <2>3, <2>4
  <2>6. EndS(r + 1) < p
    BY <1>2, <1>3, <1>4, <2>1, <2>2, <2>5
  <2>7. Owed(r) /\ r \notin lost
    BY <1>1, <2>3 DEF Owed, Busy, Retainable
  <2> QED
    BY <1>1, <2>3, <2>6, <2>7 DEF CoverOK, StatusCovered
<1>7. PassedCovered'
  <2> SUFFICES ASSUME NEW r \in Round, ~Boundary(r)', EndS(r + 1) < last'
               PROVE  FALSE
    BY DEF PassedCovered
  <2>1. StartS(r) \in Nat /\ EndS(r + 1) = StartS(r) + 2 * RoundLen
    BY RoundType, RoundTimes
  <2> QED
    BY <1>1, <1>3, <1>4, <2>1 DEF Boundary
<1>8. plan'[0] = {} /\ origin' # None
  BY <1>1, <1>3 DEF CoverOK
<1> QED
  BY <1>5, <1>6, <1>7, <1>8 DEF CoverOK

(* When nothing is left to close, what the run has passed is recorded: a   *)
(* busy round was seen before it could close.                              *)
LEMMA PassedWhenClosed ==
  ASSUME ScanOK, LedgerOK, pc = "finalize", Due = {},
         UNCHANGED <<plan, tip, startTs, last, recs, withheld, origin>>
  PROVE  PassedCovered'
<1> SUFFICES ASSUME NEW r \in Round, Owed(r)', ~Boundary(r)', EndS(r + 1) < last'
             PROVE  recs'[r] # None
  BY DEF PassedCovered
<1>1. Busy(r) /\ Retainable(r) /\ r \notin withheld /\ ~Boundary(r) /\ EndS(r + 1) < last
  BY DEF Owed, Busy, Retainable, Boundary
<1>2. PICK a \in {"commit", "reveal", "lateReveal", "sig"} : a \in plan[r]
  BY <1>1 DEF Busy
<1>3. TxBlock(r, a) \in StartS(r) .. EndS(r + 1) /\ StartS(r) \in Nat /\ EndS(r + 1) \in Nat
  <2>1. r \in Nat
    BY RoundType
  <2>2. TxBlock(r, a) \in StartS(r) .. EndS(r + 1)
    BY <2>1, <1>2, ActBlocks
  <2>3. StartS(r) \in Nat /\ EndS(r + 1) = StartS(r) + 2 * RoundLen /\ RoundLen \in Nat
    BY <2>1, RoundTimes, BoundsAssumption
  <2> QED
    BY <2>2, <2>3
<1>4. startTs \in Int /\ last \in Int /\ ReadTo = last
  BY DEF ScanOK, ReadTo
<1>5. TxBlock(r, a) \in startTs .. ReadTo
  BY <1>1, <1>3, <1>4 DEF Boundary
<1>6. SeenTxs(r) # {}
  BY <1>2, <1>5 DEF SeenTxs, Txs
<1>7. rounds[r] = None
  BY <1>1 DEF Due
<1> QED
  BY <1>1, <1>6, <1>7 DEF LedgerOK

LEMMA CoverStep ==
  ASSUME ScanOK, FileOK, EpochsOK, LedgerOK, LedgerOK', CoverOK, Next
  PROVE  CoverOK'
<1>1. FileShape /\ file.torn \in BOOLEAN
  BY DEF FileOK
<1>2. CASE Grow \/ HourPasses \/ PollFails \/ BlockFails \/ Crash \/ Overlays \/ EndPass \/ ScanBlock
  <2>1. /\ UNCHANGED <<plan, startTs, origin, file>>
        /\ pc' = "down" \/ pc # "down"
        /\ pc' \in {"down", "finalize"} \/ (pc \notin {"down", "finalize"} /\ last' = last)
    BY <1>2 DEF Grow, HourPasses, PollFails, BlockFails, Crash, Overlays, EndPass, ScanBlock,
                chain, scan, hist
  <2> QED
    BY <2>1, CoverFrame
<1>3. CASE FinalizeRound
  <2>1. /\ UNCHANGED <<plan, startTs, origin>> /\ pc = "finalize" /\ pc' = "finalize"
        /\ UNCHANGED file \/ AppendRecord(NextDue, RecordOf(rounds[NextDue], catching))
    BY <1>3, FinalizeFacts, Zenon
  <2>2. file'.status = file.status
    BY <1>1, <2>1, AppendFacts
  <2> QED
    BY <2>1, <2>2, CoverFrame
<1>4. CASE FirstStatus
  <2>1. /\ UNCHANGED <<plan, startTs, origin, last>> /\ pc = "started" /\ pc' = "poll"
        /\ file' = [file EXCEPT !.status = BuildStatus]
    BY <1>4 DEF FirstStatus, chain, scan, hist
  <2>2. file'.status.last = last
    BY <1>1, <2>1, FileStatus, StatusLast
  <2> QED
    BY <2>1, <2>2, CoverFrame
<1>5. CASE PollHead
  <2>1. /\ UNCHANGED <<plan, startTs, origin, last>> /\ pc = "poll" /\ pc' = "scan"
        /\ \/ UNCHANGED file
           \/ file' = [file EXCEPT !.gaps = @ \cup {[from |-> last, to |-> tip]}]
    BY <1>5 DEF PollHead, chain, hist
  <2>2. file'.status = file.status
    BY <1>1, <2>1, FileGap
  <2> QED
    BY <2>1, <2>2, CoverFrame
<1>6. CASE NextBlock
  <2>1. /\ UNCHANGED <<plan, tip, startTs, origin, last, recs, withheld>>
        /\ pc = "finalize" /\ pc' = "scan" /\ Due = {}
        /\ \/ UNCHANGED file
           \/ file' = [file EXCEPT !.status = BuildStatus]
    BY <1>6 DEF NextBlock, chain, ledger, hist
  <2>2. file'.status.last = file.status.last \/ file'.status.last = last'
    BY <1>1, <2>1, FileStatus, StatusLast
  <2>3. PassedCovered'
    BY <2>1, PassedWhenClosed
  <2> QED
    BY <2>1, <2>2, <2>3, CoverFrame
<1>7. CASE (\E due \in BOOLEAN : Report(due)) \/ PruneFile \/ CutFile
  <2>1. /\ UNCHANGED <<plan, startTs, origin, last>>
        /\ pc \in {"report", "prune"} /\ pc' \in {"poll", "prune", "down"}
        /\ file'.status = file.status \/ (pc' # "down" /\ file'.status.last = last)
    BY <1>7, PruningFacts
  <2> QED
    BY <2>1, CoverFrame
<1> QED
  BY <1>2, <1>3, <1>4, <1>5, <1>6, <1>7, CoverStart DEF Next, Engine, Disturbance
-----------------------------------------------------------------------------
(***************************************************************************)
(* The inductive invariant.                                                *)
(***************************************************************************)
ObserverInv == ScanOK /\ FileOK /\ EpochsOK /\ LedgerOK /\ CoverOK

LEMMA InvInit ==
  ASSUME Init
  PROVE  ObserverInv
<1> USE DEF Init
<1>1. RoundLen \in Nat /\ RoundLen >= 1 /\ MaxBlock \in Nat /\ RoundLen <= MaxBlock /\ StatusEvery \in Nat
  BY BoundsAssumption
<1>2. ScanOK
  BY <1>1 DEF ScanOK, PC
<1>3. NoRecords \in InFlight /\ NoRecords \in Ledger /\ \A r \in Round : NoRecords[r] = None
  BY DEF NoRecords, InFlight, Ledger
<1>4. FileOK
  <2>1. /\ file = [status |-> NoStatus, recs |-> NoRecords, torn |-> FALSE, gaps |-> {}]
        /\ file.recs = NoRecords /\ file.torn = FALSE /\ file.gaps = {} /\ file.status.last = 0 /\ tip \in Nat
    BY <1>1 DEF NoStatus
  <2>2. file.status.last \in 0 .. tip
    BY <2>1
  <2>3. FileShape
    BY <2>1 DEF FileShape
  <2> QED
    BY <1>3, <2>1, <2>2, <2>3 DEF FileOK
<1>5. EpochsOK
  <2>1. epochNow \in Epoch /\ epochNow <= EpochOf(RoundOf(tip))
    BY <1>1, EpochType, TipEpoch
  <2> QED
    BY <2>1 DEF EpochsOK, RegType, BudType, RegistrationNotStale, HeaderKeepsUp
<1>6. LedgerOK
  BY <1>3 DEF LedgerOK, LedgerExact
<1>7. CoverOK
  <2>1. 0 \in Round
    BY <1>1, RoundOfFacts DEF Round
  <2>2. plan[0] = {}
    BY <2>1 DEF Closable
  <2> QED
    BY <2>2 DEF CoverOK, StatusCovered, InheritedCovered, PassedCovered, NoStatus
<1> QED
  BY <1>2, <1>4, <1>5, <1>6, <1>7 DEF ObserverInv

LEMMA InvStutters ==
  ASSUME ObserverInv, UNCHANGED vars
  PROVE  ObserverInv'
<1>1. UNCHANGED <<plan, tip, epochNow, pc, cursor, scanLo, last, head, startTs, since, rounds, win, recs,
                  mepoch, reg, bud, gaps, outage, catching, file, faults, tainted, withheld, lost,
                  origin, blind>>
  BY DEF vars, chain, scan, ledger, stream, hist
<1>2. ScanOK' /\ FileOK' /\ EpochsOK'
  BY <1>1 DEF ObserverInv, ScanOK, ReadTo, FileOK, FileShape, EpochsOK, RegistrationNotStale, HeaderKeepsUp
<1>3. LedgerOK'
  BY <1>1 DEF ObserverInv, LedgerOK, LedgerExact, TrueTo, Retainable, Boundary, SeenTxs, SeenEvents, ReadTo,
              AsRead, Truth
<1>4. CoverOK'
  BY <1>1 DEF ObserverInv, CoverOK, StatusCovered, InheritedCovered, PassedCovered, Owed, Busy,
              Retainable, Boundary, CapBites
<1> QED
  BY <1>2, <1>3, <1>4 DEF ObserverInv

LEMMA InvStep == ObserverInv /\ [Next]_vars => ObserverInv'
<1>1. ASSUME ObserverInv, Next PROVE ObserverInv'
  <2>1. ScanOK' /\ FileOK' /\ EpochsOK'
    BY <1>1, ScanStep, FileStep, EpochsStep DEF ObserverInv
  <2>2. LedgerOK'
    BY <1>1, <2>1, LedgerStep DEF ObserverInv
  <2>3. CoverOK'
    BY <1>1, <2>2, CoverStep DEF ObserverInv
  <2> QED
    BY <2>1, <2>2, <2>3 DEF ObserverInv
<1> QED
  BY <1>1, InvStutters

LEMMA InvAlways == Spec => []ObserverInv
<1>1. Init => ObserverInv
  BY InvInit
<1> QED
  BY <1>1, InvStep, PTL DEF Spec

(* Every variable of the observer keeps its type, the file on disk and the *)
(* overlays included.                                                      *)
THEOREM TypeCorrect == Spec => []TypeOK
<1>1. ObserverInv => TypeOK
  <2> SUFFICES ASSUME ObserverInv PROVE TypeOK
    OBVIOUS
  <2>1. MaxBlock \in Nat /\ tip \in 0 .. MaxBlock /\ file.status.last \in 0 .. MaxBlock
    <3>1. MaxBlock \in Nat /\ tip \in 1 .. MaxBlock /\ file.status.last \in 0 .. tip
      BY BoundsAssumption DEF ObserverInv, ScanOK, FileOK
    <3> QED
      BY <3>1
  <2> QED
    BY <2>1 DEF ObserverInv, TypeOK, ScanOK, FileOK, EpochsOK, InFlight, Ledger, RegType, BudType
<1> QED
  BY <1>1, InvAlways, PTL

(* mincond.py and engine.py, "EXACT, gap-free": a record on disk says what *)
(* the chain says of its round, but for an offence a backfill drops, and   *)
(* makes nothing up where a node withheld bodies.                          *)
THEOREM LedgerExactHolds == Spec => []LedgerExact
<1>1. ObserverInv => LedgerExact
  BY DEF ObserverInv, LedgerOK
<1> QED
  BY <1>1, InvAlways, PTL

(* resume_cursor, "a restart leaves NO coverage gap": between two blocks   *)
(* every round the engine has passed is in the ledger, in memory and disk, *)
(* unless a node withheld it or the disk lost it.                          *)
THEOREM NoHoleHolds == Spec => []NoHole
<1>1. ObserverInv => NoHole
  <2> SUFFICES ASSUME ObserverInv, NEW r \in Round,
                      BetweenBlocks, Owed(r), EndS(r + 1) < last, r \notin lost
               PROVE  recs[r] # None /\ file.recs[r] = recs[r]
    BY DEF NoHole
  <2>1. recs[r] = file.recs[r] /\ pc \notin {"down", "finalize"}
    BY DEF ObserverInv, LedgerOK, Owed, BetweenBlocks
  <2>2. CASE Boundary(r)
    BY <2>1, <2>2 DEF ObserverInv, CoverOK, InheritedCovered
  <2>3. CASE ~Boundary(r)
    BY <2>1, <2>3 DEF ObserverInv, CoverOK, PassedCovered
  <2> QED
    BY <2>2, <2>3
<1> QED
  BY <1>1, InvAlways, PTL

(* Expire and _refresh_registration: a registration answer is never shown  *)
(* under an epoch it was not given for.                                    *)
THEOREM RegistrationNotStaleHolds == Spec => []RegistrationNotStale
<1>1. ObserverInv => RegistrationNotStale
  BY DEF ObserverInv, EpochsOK
<1> QED
  BY <1>1, InvAlways, PTL

(* Expire, by the round id: the header's epoch is not behind the last      *)
(* round closed, unless the last epoch read was none or behind it.         *)
THEOREM HeaderKeepsUpHolds == Spec => []HeaderKeepsUp
<1>1. ObserverInv => HeaderKeepsUp
  BY DEF ObserverInv, EpochsOK
<1> QED
  BY <1>1, InvAlways, PTL

(* mincond.append_record and prune_history: neither a replay of its round  *)
(* nor a pruning touches a record of this reward epoch or the last, unless *)
(* the disk lost it: a rewrite cut short, or a ledger no start could read. *)
THEOREM RecordsAreFinalHolds == Spec => RecordsAreFinal
<1>1. ASSUME ObserverInv, [Next]_vars, NEW r \in Round, file.recs[r] # None, Retainable(r), r \notin lost'
      PROVE  file.recs'[r] = file.recs[r]
  <2>1. CASE Next
    BY <1>1, <2>1, FinalStep DEF ObserverInv
  <2>2. CASE UNCHANGED vars
    BY <2>2 DEF vars
  <2> QED
    BY <1>1, <2>1, <2>2
<1>2. ObserverInv /\ [Next]_vars =>
        [\A r \in Round : file.recs[r] # None /\ Retainable(r) /\ r \notin lost'
                           => file.recs'[r] = file.recs[r]]_vars
  BY <1>1
<1> QED
  BY <1>2, InvAlways, PTL DEF Spec, RecordsAreFinal
=============================================================================
