------------------------------ MODULE Observer ------------------------------
(***************************************************************************)
(* `clif observe run`: the streaming observer (clif/observe/engine.py,     *)
(* state.py, mincond.py, gaps.py).  It walks the chain block by block,     *)
(* collects what our addresses did in each voting round, closes a round    *)
(* when its windows are over, and keeps one record per round in a ledger   *)
(* on disk that is meant to be exact and free of holes across crashes,     *)
(* restarts and RPC outages.  Two things take from it: a node that no      *)
(* longer serves the transaction bodies of old blocks, and the pruning of  *)
(* the file, which truncates it before writing it again.                   *)
(*                                                                         *)
(* One block per unit of chain time, RoundLen blocks per voting round,     *)
(* EpochRounds rounds per reward epoch.  What we do in a round is fixed by *)
(* plan[r], a set of acts, and each act lands in the block TxBlock or      *)
(* EventBlock says; the observer learns it only by reading that block.     *)
(*                                                                         *)
(* Abstracted: the IQR scoring, the delegation and the uptime overlays     *)
(* (informational here), the wording of the reports, and the rounds cap.   *)
(***************************************************************************)
EXTENDS ObserverHealth

CONSTANTS
  MaxBlock,      \* bound: the last block of the chain
  Stride,        \* bound: blocks that arrive together between two polls
  RoundLen,      \* blocks per voting round
  EpochRounds,   \* VRS_PER_REWARD_EPOCH
  Plans,         \* what we may do in a round: a set of sets of acts
  Registered,    \* the reward epochs in which we are a registered voter
  Lookback,      \* lookback_blocks
  ResumeCap,     \* resume_max_blocks, 0 = uncapped
  Chunk,         \* blocks per event scan (30)
  StatusEvery,   \* status_every_blocks
  LiveLag,       \* live_lag_blocks
  Confirmations, \* blocks to stay behind the tip
  Bodies,        \* blocks behind the tip whose transaction bodies the node still serves
  Window,        \* window_rounds
  MinFdc,        \* FDC rounds before a rate counts (10)
  None,          \* Python's None
  Faults,        \* the kinds of failure the environment may inject
  MaxFaults      \* bound: how many of them one behaviour contains

RoundOf(b)  == b \div RoundLen
Round       == 0 .. RoundOf(MaxBlock)
EpochOf(r)  == r \div EpochRounds
StartS(r)   == r * RoundLen
EndS(r)     == (r + 1) * RoundLen
(* The rounds that open after block 0 and close within the bound; the      *)
(* others are left empty.                                                  *)
Closable    == {r \in Round \ {0} : EndS(r + 1) < MaxBlock}

ASSUME BoundsAssumption ==
  /\ MaxBlock \in Nat \ {0} /\ Stride \in Nat \ {0} /\ RoundLen \in Nat \ {0} /\ EpochRounds \in Nat \ {0}
  /\ Lookback \in Nat /\ ResumeCap \in Nat /\ StatusEvery \in Nat \ {0}
  /\ LiveLag \in Nat /\ Confirmations \in Nat /\ Bodies \in Nat /\ Window \in Nat \ {0} /\ MinFdc \in Nat \ {0}
  /\ MaxFaults \in Nat /\ RoundLen <= MaxBlock
(* The lookback spans a round and its reveal round; a chunk is flushed     *)
(* before the rounds whose events it holds can be finalized.               *)
ASSUME WindowsAssumption ==
  /\ Lookback > 2 * RoundLen
  /\ Chunk \in 1 .. RoundLen + 2

VARIABLES
  plan,     \* what we do in each round
  tip,      \* the chain's latest block
  epochNow, \* getCurrentRewardEpochId
  pc,       \* where the engine is
  cursor,   \* next block to read
  scanLo,   \* first block whose events are not flushed yet
  last,     \* state.last_block
  head,     \* state.head, 0 before the first poll
  startTs,  \* observe_start_ts
  since,    \* blocks since the last status write
  rounds,   \* rounds in flight
  win,      \* the window of finalized rounds
  recs,     \* mincond_recs: the ledger in memory
  mepoch,   \* mincond_epoch
  reg,      \* registration overlay: epoch, answer, younger than an hour
  bud,      \* budget overlay: severity, younger than an hour
  gaps,     \* the outage ledger in memory
  outage,   \* a head read has failed since the last success
  catching, \* catching_up
  file,     \* on disk: the status, the round ledger (torn: its last line is cut), the outage ledger
  faults,   \* failures injected so far
  tainted,  \* history: rounds some of whose events could not be read
  withheld, \* history: rounds with transactions in a block served without its bodies
  lost,     \* history: rounds whose record the disk failed to keep or to give back
  origin,   \* history: block from which the coverage is meant to be contiguous
  blind     \* history: the last epoch read was none, or behind the rounds closed

chain  == <<plan, tip, epochNow>>
scan   == <<cursor, scanLo, last, head, startTs, since, rounds, win>>
ledger == <<recs, mepoch, reg, bud>>
stream == <<gaps, outage, catching>>
hist   == <<tainted, withheld, lost, origin, blind>>
vars   == <<chain, pc, scan, ledger, stream, file, faults, hist>>

Failing(kinds) ==
  /\ kinds \subseteq Faults /\ faults + Cardinality(kinds) <= MaxFaults
  /\ faults' = faults + Cardinality(kinds)
Fault(kind) == Failing({kind})
NoFault == UNCHANGED faults

Least(a, b) == IF a < b THEN a ELSE b
Most(a, b)  == IF a < b THEN b ELSE a
-----------------------------------------------------------------------------
(***************************************************************************)
(* What a round leaves on chain.                                           *)
(***************************************************************************)
Txs    == {"commit", "reveal", "lateReveal", "sig", "lateSig"}
Events == {"req", "fu"}
Acts   == Txs \cup Events \cup {"bitvote", "mismatch"}

(* Commit in the round, reveal in the first half of the next one (or after *)
(* its deadline), signatures after it, or so late that the round is over.  *)
TxBlock(r, a) ==
  CASE a = "commit"     -> StartS(r)
    [] a = "reveal"     -> EndS(r)
    [] a = "lateReveal" -> EndS(r + 1)
    [] a = "sig"        -> EndS(r) + 1
    [] a = "lateSig"    -> EndS(r + 2)
EventBlock(r) == EndS(r) - 1

RoundState == [s1 : BOOLEAN, s2 : BOOLEAN, late : BOOLEAN, bad : BOOLEAN, bit : BOOLEAN,
               req : Nat, fu : Nat]
NewRound == [s1 |-> FALSE, s2 |-> FALSE, late |-> FALSE, bad |-> FALSE, bit |-> FALSE,
             req |-> 0, fu |-> 0]

(* ObserverState._round: a round comes into being when something names it. *)
Get(rs, r) == IF rs[r] = None THEN NewRound ELSE rs[r]

(* ObserverState.record for the transactions of round r in one block; the  *)
(* FDC bitvote rides in the reveal.                                        *)
WithTxs(x, acts, p) ==
  LET reveals == acts \cap {"reveal", "lateReveal"} # {}
  IN [x EXCEPT !.s1 = @ \/ "commit" \in acts,
               !.s2 = @ \/ reveals,
               !.late = @ \/ "lateReveal" \in acts,
               !.bad = @ \/ (reveals /\ "mismatch" \in p),
               !.bit = @ \/ (reveals /\ "bitvote" \in p)]

(* A pruned node withholds the transaction bodies of an old block, and     *)
(* none of ours in it is decoded.                                          *)
Served(b) == b >= tip - Bodies
Named(b) == {r \in Round : \E a \in plan[r] \cap Txs : TxBlock(r, a) = b}

Record(rs, b) ==
  [r \in Round |->
     LET acts == {a \in plan[r] \cap Txs : TxBlock(r, a) = b}
     IN IF acts = {} THEN rs[r] ELSE WithTxs(Get(rs, r), acts, plan[r])]

(* _flush_events: the sources that answer add the events of blocks lo..hi. *)
Emitted(r, lo, hi) == IF EventBlock(r) \in lo .. hi THEN plan[r] \cap Events ELSE {}
WithEvents(x, evs) ==
  [x EXCEPT !.req = @ + (IF "req" \in evs THEN 1 ELSE 0),
            !.fu  = @ + (IF "fu" \in evs THEN 1 ELSE 0)]
Flush(rs, lo, hi, answering) ==
  [r \in Round |->
     LET evs == Emitted(r, lo, hi) \cap answering
     IN IF evs = {} THEN rs[r] ELSE WithEvents(Get(rs, r), evs)]
Missed(lo, hi, answering) == {r \in Round : Emitted(r, lo, hi) \ answering # {}}

(* ObserverState._finalize: a commit never revealed, or revealed wrongly,  *)
(* is a reveal offence; requests without our bitvote are an FDC gap.       *)
Offence(x) == x.s1 /\ (~x.s2 \/ x.bad)
Clean(x)   == x.s1 /\ x.s2 /\ ~x.late /\ ~Offence(x)
Finalized(x) ==
  [s1 |-> x.s1, s2 |-> x.s2, cl |-> Clean(x), late |-> x.late, ro |-> Offence(x),
   fexp |-> x.req > 0, fok |-> x.req > 0 /\ x.bit, fu |-> x.fu]

(* mincond.from_round; the offence flag is dropped while catching up.      *)
RecordOf(x, backfilling) ==
  [s1 |-> x.s1, s2 |-> x.s2, cl |-> Clean(x), ro |-> Offence(x) /\ ~backfilling,
   fexp |-> x.req > 0, fok |-> x.req > 0 /\ x.bit, fu |-> x.fu]
LedgerRecord == [s1 : BOOLEAN, s2 : BOOLEAN, cl : BOOLEAN, ro : BOOLEAN,
                 fexp : BOOLEAN, fok : BOOLEAN, fu : Nat]

ASSUME NoneAssumption == None \notin Nat \cup RoundState \cup LedgerRecord
-----------------------------------------------------------------------------
(***************************************************************************)
(* The overlays.                                                           *)
(***************************************************************************)
(* Mutant: the last epoch's registration answer is carried over.           *)
ExpireKeepingAnswer(e) ==
  /\ reg' = IF reg.epoch = None \/ e > reg.epoch THEN [reg EXCEPT !.epoch = e] ELSE reg
  /\ bud' = [bud EXCEPT !.fresh = FALSE]

(* expire_epoch_overlays: the tracked epoch only moves forward, and every  *)
(* overlay is due again.                                                   *)
Expire(e) ==
  /\ reg' = IF reg.epoch = None \/ e > reg.epoch
            THEN [epoch |-> e, yes |-> None, fresh |-> FALSE]
            ELSE [reg EXCEPT !.fresh = FALSE]
  /\ bud' = [bud EXCEPT !.fresh = FALSE]

(* _refresh_registration: asked when unknown or an hour old; a failed      *)
(* probe keeps the last answer.                                            *)
Probed == [epoch |-> epochNow, yes |-> epochNow \in Registered, fresh |-> TRUE]
RegistrationDue == reg.epoch = None \/ ~reg.fresh

(* read_ftso_budget: rounds submitted in the epoch, by the nonce delta of  *)
(* the Submit address (two transactions a round), against those elapsed.   *)
Submitted(e, b) ==
  LET sent(a) == Cardinality({r \in Round : /\ EpochOf(RoundOf(TxBlock(r, a))) = e
                                            /\ a \in plan[r] /\ TxBlock(r, a) <= b})
  IN (sent("commit") + sent("reveal") + sent("lateReveal")) \div 2
Budgeted ==
  LET e == EpochOf(RoundOf(tip))
  IN [sev |-> BudgetSeverity(Submitted(e, tip), RoundOf(tip) - e * EpochRounds, EpochRounds, 80),
      fresh |-> TRUE]

(* Two overlay reads of one pass; a failed budget read backs off.  An      *)
(* answer behind the rounds already closed is shown all the same.          *)
RefreshOverlays ==
  \/ /\ reg' = IF RegistrationDue THEN Probed ELSE reg
     /\ bud' = IF bud.fresh THEN bud ELSE Budgeted
     /\ blind' = IF RegistrationDue THEN mepoch = None \/ epochNow < mepoch ELSE blind
     /\ NoFault
  \/ /\ RegistrationDue \/ ~bud.fresh
     /\ Fault("probe")
     /\ UNCHANGED <<reg, blind>> /\ bud' = [bud EXCEPT !.fresh = TRUE]
-----------------------------------------------------------------------------
(***************************************************************************)
(* The status and the ledgers on disk.                                     *)
(***************************************************************************)
RecordedRounds(rec, e) == {r \in Round : rec[r] # None /\ EpochOf(r) = e}
Tally == LET e == reg.epoch
         IN IF e = None THEN [n |-> 0, fexp |-> 0, fok |-> 0, offences |-> 0, missing |-> 0]
            ELSE EpochTally(recs, RecordedRounds(recs, e))
Readings == [error |-> FALSE, enabled |-> TRUE, disputed |-> FALSE, quorumCrit |-> FALSE,
             stale |-> FALSE, unregistered |-> reg.yes = FALSE, budget |-> bud.sev,
             uptimeLow |-> FALSE, stream |-> StreamState(head, last, LiveLag)]
BuildStatus == [last |-> last, stream |-> Readings.stream,
                sev |-> Severity(Readings, Aggregates(win), Tally, MinFdc)]

(* mincond.load_history / prune_history: the epoch before the current one  *)
(* and later.                                                              *)
Retained(rec, e) ==
  IF e = None THEN rec ELSE [r \in Round |-> IF EpochOf(r) >= e - 1 THEN rec[r] ELSE None]

NoStatus == [last |-> 0, stream |-> "unknown", sev |-> "CRIT"]
NoRecords == [r \in Round |-> None]

Init ==
  /\ plan \in [Round -> Plans \cup {{}}]
  /\ \A r \in Round : IF r \in Closable THEN plan[r] \in Plans ELSE plan[r] = {}
  /\ tip = RoundLen /\ epochNow = EpochOf(RoundOf(RoundLen))
  /\ pc = "down" /\ cursor = 1 /\ scanLo = 1 /\ last = 0 /\ head = 0 /\ startTs = 0 /\ since = 0
  /\ rounds = NoRecords /\ win = <<>> /\ recs = NoRecords /\ mepoch = None
  /\ reg = [epoch |-> None, yes |-> None, fresh |-> FALSE]
  /\ bud = [sev |-> "unknown", fresh |-> FALSE]
  /\ gaps = {} /\ outage = FALSE /\ catching = FALSE
  /\ file = [status |-> NoStatus, recs |-> NoRecords, torn |-> FALSE, gaps |-> {}]
  /\ faults = 0 /\ tainted = {} /\ withheld = {} /\ lost = {} /\ origin = None /\ blind = FALSE
-----------------------------------------------------------------------------
(***************************************************************************)
(* The chain and time.                                                     *)
(***************************************************************************)
(* Blocks may arrive at any time; the engine reads the chain's tip and     *)
(* epoch at these three points only, so blocks are counted as they are     *)
(* about to be read.  The chain may enter a reward epoch only after its    *)
(* first round began.                                                      *)
Grow ==
  /\ pc \in {"down", "poll", "overlays"}
  /\ tip < MaxBlock /\ tip' = Least(tip + Stride, MaxBlock)
  /\ \/ epochNow' = EpochOf(RoundOf(tip')) /\ NoFault
     \/ epochNow # EpochOf(RoundOf(tip')) /\ Fault("lateFlip") /\ UNCHANGED epochNow
  /\ UNCHANGED <<plan, pc, scan, ledger, stream, file, hist>>

(* registration_refresh_sec goes by.                                       *)
HourPasses ==
  /\ pc # "down" /\ Fault("hour")
  /\ reg' = [reg EXCEPT !.fresh = FALSE] /\ bud' = [bud EXCEPT !.fresh = FALSE]
  /\ UNCHANGED <<chain, pc, scan, recs, mepoch, stream, file, hist>>
-----------------------------------------------------------------------------
(***************************************************************************)
(* The engine.                                                             *)
(***************************************************************************)
(* Mutants: resume at the last block itself; no clamp at block 1.          *)
ResumeCursorAtLast(h, prior) ==
  IF prior = 0 THEN Most(1, h - Lookback) ELSE Least(Most(1, h - Lookback), prior)
ResumeCursorUnclamped(h, prior) ==
  IF prior = 0 THEN h - Lookback ELSE Least(h - Lookback, prior - Lookback)

(* resume_cursor: near the head on a fresh start, else a lookback before   *)
(* the last block of the previous run, no further back than the cap.       *)
ResumeCursor(h, prior) ==
  LET base == Most(1, h - Lookback)
      back == Least(base, Most(1, prior - Lookback))
  IN IF prior = 0 THEN base
     ELSE IF ResumeCap > 0 THEN Most(back, Most(1, h - ResumeCap)) ELSE back

(* The cap leaves blocks of the previous run's straddling rounds unread.   *)
CapBites(h, prior) == ResumeCap > 0 /\ h - ResumeCap > Most(1, prior - Lookback)

(* A fresh ObserverState, anchored at the block the engine resumes from.   *)
Anchored ==
  LET c == ResumeCursor(tip, file.status.last)
  IN /\ cursor' = c /\ scanLo' = c /\ last' = c /\ startTs' = c
     /\ head' = 0 /\ since' = 0 /\ rounds' = NoRecords /\ win' = <<>>
     /\ origin' = IF file.status.last = 0 \/ CapBites(tip, file.status.last) THEN c ELSE origin

(* run_engine up to the first status: the cursor, the first probes, the    *)
(* ledgers seeded from disk.  A ledger that cannot be read seeds nothing.  *)
Start ==
  /\ pc = "down" /\ pc' = "started"
  /\ Anchored
  /\ \E failing \in SUBSET {"probe", "disk"} :
       /\ Failing(failing)
       /\ IF "probe" \notin failing
          THEN reg' = Probed /\ bud' = Budgeted
          ELSE /\ reg' = [epoch |-> None, yes |-> None, fresh |-> FALSE]
               /\ bud' = [sev |-> "unknown", fresh |-> TRUE]
       /\ IF "disk" \notin failing
          THEN recs' = Retained(file.recs, reg'.epoch) /\ UNCHANGED lost
          ELSE recs' = NoRecords /\ lost' = lost \cup {r \in Round : file.recs[r] # None}
  /\ mepoch' = reg'.epoch /\ blind' = (reg'.epoch = None)
  /\ gaps' = file.gaps /\ outage' = FALSE /\ catching' = FALSE
  /\ UNCHANGED <<chain, file, tainted, withheld>>

FirstStatus ==
  /\ pc = "started" /\ pc' = "poll"
  /\ file' = [file EXCEPT !.status = BuildStatus]
  /\ UNCHANGED <<chain, scan, ledger, stream, faults, hist>>

(* The head is read.  After an outage the blocks missed are entered in the *)
(* outage ledger and replayed, every one of them.                          *)
PollHead ==
  /\ pc = "poll" /\ pc' = "scan" /\ head' = tip /\ outage' = FALSE
  /\ IF outage
     THEN /\ gaps' = gaps \cup {[from |-> last, to |-> tip]}
          /\ file' = [file EXCEPT !.gaps = @ \cup {[from |-> last, to |-> tip]}]
          /\ catching' = (tip - cursor > LiveLag)
     ELSE UNCHANGED <<gaps, file, catching>>
  /\ UNCHANGED <<chain, cursor, scanLo, last, startTs, since, rounds, win, ledger, faults, hist>>

PollFails ==
  /\ pc = "poll" /\ Fault("rpc") /\ outage' = TRUE
  /\ UNCHANGED <<chain, pc, scan, ledger, gaps, catching, file, hist>>

(* Read events lo..hi: every source answers, or some do not.               *)
FlushEvents(rs, lo, hi) ==
  \/ rounds' = Flush(rs, lo, hi, Events) /\ NoFault /\ UNCHANGED tainted
  \/ /\ Fault("flush")
     /\ \E answering \in SUBSET Events \ {Events} :
          /\ rounds' = Flush(rs, lo, hi, answering)
          /\ tainted' = tainted \cup Missed(lo, hi, answering)

(* One block: our transactions, if the node serves their bodies; then the  *)
(* event chunk if it is full.                                              *)
ScanBlock ==
  /\ pc = "scan" /\ cursor <= head - Confirmations /\ pc' = "finalize" /\ last' = cursor
  /\ LET read == IF Served(cursor) THEN Record(rounds, cursor) ELSE rounds
     IN IF cursor - scanLo + 1 >= Chunk
        THEN FlushEvents(read, scanLo, cursor) /\ scanLo' = cursor + 1
        ELSE rounds' = read /\ NoFault /\ UNCHANGED <<scanLo, tainted>>
  /\ withheld' = IF Served(cursor) THEN withheld ELSE withheld \cup Named(cursor)
  /\ UNCHANGED <<chain, cursor, head, startTs, since, win, ledger, stream, file, lost, origin, blind>>

BlockFails ==
  /\ pc = "scan" /\ cursor <= head - Confirmations /\ Fault("block") /\ pc' = "pass"
  /\ UNCHANGED <<chain, scan, ledger, stream, file, hist>>

(* finalize_due, one round at a time: rounds that opened before the first  *)
(* block are dropped, the others enter the window, and the ledger if it    *)
(* does not have them yet.                                                 *)
BoundaryIgnored(r) == FALSE
Boundary(r) == StartS(r) < startTs
Due == {r \in Round : rounds[r] # None /\ EndS(r + 1) < last}
Slide(w, x) == IF Len(w) < Window THEN Append(w, x) ELSE Append(Tail(w), x)

(* Mutant: the overlays are left to their hourly poll.                     *)
RollOverQuietly(e) ==
  mepoch' = (IF mepoch = None \/ e > mepoch THEN e ELSE mepoch) /\ UNCHANGED <<reg, bud>>

RollOver(e) ==
  IF mepoch = None \/ e > mepoch
  THEN /\ mepoch' = e
       /\ IF mepoch # None THEN Expire(e) ELSE UNCHANGED <<reg, bud>>
  ELSE UNCHANGED <<mepoch, reg, bud>>

(* append_record: a line that follows a cut one is joined to it and read   *)
(* by nobody; an OSError is swallowed, and may leave a cut line behind.    *)
AppendRecord(r, x) ==
  \/ ~file.torn /\ file' = [file EXCEPT !.recs[r] = x] /\ NoFault /\ UNCHANGED lost
  \/ file.torn /\ file' = [file EXCEPT !.torn = FALSE] /\ NoFault /\ lost' = lost \cup {r}
  \/ /\ Fault("disk") /\ lost' = lost \cup {r}
     /\ \E cut \in BOOLEAN : file' = [file EXCEPT !.torn = @ \/ cut]

(* Mutant: a replayed round overwrites its record.                         *)
KeepLatest(r) ==
  /\ recs' = [recs EXCEPT ![r] = RecordOf(rounds[r], catching)]
  /\ AppendRecord(r, RecordOf(rounds[r], catching))
  /\ RollOver(EpochOf(r))

Keep(r) ==
  IF recs[r] # None
  THEN NoFault /\ UNCHANGED <<ledger, file, lost>>
  ELSE /\ recs' = [recs EXCEPT ![r] = RecordOf(rounds[r], catching)]
       /\ AppendRecord(r, RecordOf(rounds[r], catching))
       /\ RollOver(EpochOf(r))

FinalizeRound ==
  /\ pc = "finalize" /\ Due # {}
  /\ LET r == CHOOSE q \in Due : \A s \in Due : q <= s
     IN /\ rounds' = [rounds EXCEPT ![r] = None]
        /\ IF Boundary(r)
           THEN NoFault /\ UNCHANGED <<win, ledger, file, lost>>
           ELSE win' = Slide(win, Finalized(rounds[r])) /\ Keep(r)
  /\ UNCHANGED <<chain, pc, cursor, scanLo, last, head, startTs, since, stream, tainted, withheld, origin, blind>>

NextBlock ==
  /\ pc = "finalize" /\ Due = {} /\ pc' = "scan" /\ cursor' = cursor + 1
  /\ IF since + 1 >= StatusEvery
     THEN since' = 0 /\ file' = [file EXCEPT !.status = BuildStatus]
     ELSE since' = since + 1 /\ UNCHANGED file
  /\ UNCHANGED <<chain, scanLo, last, head, startTs, rounds, win, ledger, stream, faults, hist>>

(* Mutant: nothing ends the backfill.                                      *)
StillCatchingForever == catching
StillCatching == catching /\ head - last > LiveLag

(* Caught up, or paused on a failed read: flush the partial chunk.         *)
EndPass ==
  /\ \/ pc = "pass"
     \/ pc = "scan" /\ cursor > head - Confirmations
  /\ pc' = "overlays"
  /\ IF cursor - 1 >= scanLo
     THEN FlushEvents(rounds, scanLo, cursor - 1) /\ scanLo' = cursor
     ELSE NoFault /\ UNCHANGED <<rounds, scanLo, tainted>>
  /\ catching' = StillCatching
  /\ UNCHANGED <<chain, cursor, last, head, startTs, since, win, ledger, gaps, outage, file, withheld, lost, origin, blind>>

Overlays ==
  /\ pc = "overlays" /\ pc' = "report" /\ RefreshOverlays
  /\ UNCHANGED <<chain, scan, recs, mepoch, stream, file, tainted, withheld, lost, origin>>

(* The status, and when a report is due and the epoch is known, the        *)
(* pruning of the ledger: in memory first, then the file.                  *)
Report(due) ==
  /\ pc = "report" /\ since' = 0
  /\ file' = [file EXCEPT !.status = BuildStatus]
  /\ IF due /\ reg.epoch # None
     THEN pc' = "prune" /\ recs' = Retained(recs, reg.epoch)
     ELSE pc' = "poll" /\ UNCHANGED recs
  /\ UNCHANGED <<chain, cursor, scanLo, last, head, startTs, rounds, win, mepoch, reg, bud, stream, faults, hist>>

(* mincond.prune_history: read the file, truncate it, write what is kept.  *)
PruneFile ==
  /\ pc = "prune" /\ pc' = "poll"
  /\ file' = [file EXCEPT !.recs = Retained(@, reg.epoch), !.torn = FALSE]
  /\ UNCHANGED <<chain, scan, ledger, stream, faults, hist>>

(* The file is truncated and not written to the end: the process dies      *)
(* there, or an OSError is swallowed.  What is left is the rounds before   *)
(* some round n, none at all when it was the reading that failed, and      *)
(* perhaps a cut line.                                                     *)
CutFile ==
  /\ pc = "prune"
  /\ \/ Fault("crash") /\ pc' = "down"
     \/ Fault("disk") /\ pc' = "poll"
  /\ \E n \in Round, cut \in BOOLEAN :
       LET kept == Retained(file.recs, reg.epoch)
           left == [r \in Round |-> IF r < n THEN kept[r] ELSE None]
       IN /\ cut => \E r \in Round : kept[r] # left[r]
          /\ file' = [file EXCEPT !.recs = left, !.torn = cut]
          /\ lost' = lost \cup {r \in Round : kept[r] # left[r]}
  /\ UNCHANGED <<chain, scan, ledger, stream, tainted, withheld, origin, blind>>

Crash ==
  /\ pc # "down" /\ Fault("crash") /\ pc' = "down"
  /\ UNCHANGED <<chain, scan, ledger, stream, file, hist>>

Engine ==
  \/ Start \/ FirstStatus \/ PollHead \/ ScanBlock \/ FinalizeRound \/ NextBlock
  \/ EndPass \/ Overlays \/ (\E due \in BOOLEAN : Report(due)) \/ PruneFile
Disturbance == HourPasses \/ PollFails \/ BlockFails \/ CutFile \/ Crash
Next == Grow \/ Engine \/ Disturbance

Spec == Init /\ [][Next]_vars
(* Docker restarts the service, the loop never blocks, blocks keep coming. *)
FairSpec == Spec /\ WF_vars(Engine) /\ SF_vars(Grow)
-----------------------------------------------------------------------------
PC == {"down", "started", "poll", "scan", "finalize", "pass", "overlays", "report", "prune"}
Gap == [from : Nat, to : Nat]
Epoch == 0 .. EpochOf(RoundOf(MaxBlock))

TypeOK ==
  /\ tip \in 0 .. MaxBlock /\ epochNow \in Epoch /\ pc \in PC
  /\ cursor \in 1 .. MaxBlock + 1 /\ scanLo \in 1 .. MaxBlock + 1
  /\ last \in 0 .. MaxBlock /\ head \in 0 .. MaxBlock /\ startTs \in 0 .. MaxBlock
  /\ since \in 0 .. StatusEvery
  /\ rounds \in [Round -> RoundState \cup {None}]
  /\ recs \in [Round -> LedgerRecord \cup {None}]
  /\ mepoch \in Epoch \cup {None}
  /\ reg \in [epoch : Epoch \cup {None}, yes : BOOLEAN \cup {None}, fresh : BOOLEAN]
  /\ bud \in [sev : {"unknown", "OK", "WARN", "CRIT"}, fresh : BOOLEAN]
  /\ gaps \subseteq Gap /\ file.gaps \subseteq Gap
  /\ file.recs \in [Round -> LedgerRecord \cup {None}] /\ file.torn \in BOOLEAN
  /\ file.status.last \in 0 .. MaxBlock

(* What a reader of the whole chain would record for round r.              *)
Truth(r) ==
  RecordOf(WithEvents(WithTxs(NewRound, plan[r] \cap Txs, plan[r]), plan[r] \cap Events), FALSE)
(* The rounds the ledger answers for: this reward epoch's and the last's,  *)
(* counted by round id, which the code takes for the boundary although the *)
(* chain may enter the epoch later.                                        *)
Retainable(r) == EpochOf(r) >= EpochOf(RoundOf(tip)) - 1
Active(r) == plan[r] \cap (Txs \cup Events) # {}

(* A record true to its round: equal to the chain's but for the offence    *)
(* flag, which a backfill may drop.  Where bodies were withheld the events *)
(* are the chain's and nothing is made up: a submission on record was made.*)
TrueTo(x, r) ==
  LET t == Truth(r)
  IN /\ r \notin withheld => [x EXCEPT !.ro = FALSE] = [t EXCEPT !.ro = FALSE] /\ (x.ro => t.ro)
     /\ x.fexp = t.fexp /\ x.fu = t.fu
     /\ (x.s1 => t.s1) /\ (x.s2 => t.s2) /\ (x.fok => t.fok)

(* Every record in the ledger is true to its round, whatever crashes,      *)
(* resumes, chunk boundaries, damaged files and partial passes lie between *)
(* reading the commit and closing the round (engine.py "EXACT, gap-free"). *)
LedgerExact ==
  \A r \in Round : file.recs[r] # None /\ Retainable(r) /\ r \notin tainted
                    => TrueTo(file.recs[r], r)

(* The rounds the ledger owes: we left a trace in them, after the block    *)
(* the coverage starts from, that the node served.                         *)
Busy(r) == plan[r] \cap {"commit", "reveal", "lateReveal", "sig"} # {}
Owed(r) == Busy(r) /\ Retainable(r) /\ r \notin withheld /\ origin # None /\ StartS(r) >= origin
BetweenBlocks == pc \in {"poll", "scan", "overlays", "report", "prune"}

(* No hole: once the engine has passed the close of a round in which we    *)
(* did anything, the round is in the ledger, on disk as in memory, though  *)
(* the process may have died and resumed in between (resume_cursor "a      *)
(* restart leaves NO coverage gap"), unless a cut file or a failed read or *)
(* append lost its record.                                                 *)
NoHole ==
  \A r \in Round : BetweenBlocks /\ Owed(r) /\ EndS(r + 1) < last /\ r \notin lost
    => recs[r] # None /\ file.recs[r] = recs[r]

(* The registration answer on show is the answer for the epoch on show,    *)
(* never the previous epoch's YES (the RE423 blind spot).                  *)
RegistrationNotStale ==
  reg.yes # None => reg.yes = (reg.epoch \in Registered)

(* A record on disk is neither rewritten by a later replay of its round    *)
(* nor dropped, until its epoch is two behind, by anything but a cut file; *)
(* a start that could not read it may see it written again.                *)
RecordsAreFinal ==
  [][\A r \in Round : file.recs[r] # None /\ Retainable(r) /\ r \notin lost'
                       => file.recs'[r] = file.recs[r]]_vars

(* The epoch on show never lags the rounds already closed (engine.py "poll *)
(* cadence must not outrank" the round id).  Two holes, until the next     *)
(* hourly probe: the epoch was unknown when the ledger was seeded, so that *)
(* RollOver expires nothing the first time; or the chain entered the epoch *)
(* late and the probe after the rollover took the header back.             *)
HeaderKeepsUp == pc # "down" /\ ~blind /\ mepoch # None => reg.epoch >= mepoch

(* Once the outages are over every round of the retained epochs that can   *)
(* close is in the ledger, but for those that a node withheld or the disk  *)
(* lost, and the stream reports itself live.                               *)
Replayed ==
  \A r \in Round : Active(r) /\ origin # None /\ StartS(r) >= origin /\ EndS(r + 1) < MaxBlock
                   /\ Retainable(r) /\ r \notin tainted \cup withheld \cup lost
    => file.recs[r] # None
EventuallyReplayed ==
  <>[](Replayed /\ ~catching /\ file.status.stream = "live"
       /\ \A g \in gaps : g.to <= file.status.last)

(* A full window of rounds without a single submission of ours is never    *)
(* reported as OK (cli.py "CRIT = a reveal offence, sustained non-         *)
(* participation, or a stale engine").                                     *)
SilenceIsReported ==
  file.status.sev = "OK" =>
    \E r \in Round : /\ EndS(r + 1) < file.status.last
                     /\ EndS(r + 1 + Window) >= file.status.last
                     /\ plan[r] \cap {"commit", "reveal", "lateReveal"} # {}
=============================================================================
