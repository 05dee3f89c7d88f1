-------------------------- MODULE SigningProgress --------------------------
(***************************************************************************)
(* The narration of an epoch's signing (clif/signing_progress.py): which   *)
(* share of the signing weight has signed, from the event logs.  The epoch *)
(* daemon refreshes it every cycle through a cache: the first scan goes    *)
(* backward from the head to the start of the signing window, later ones   *)
(* forward from the last block seen; both stop at a budget of requests.    *)
(***************************************************************************)
EXTENDS Integers, FiniteSets, FiniteSetsExt, Functions

CONSTANTS
  Signers, Hashes,   \* signing-policy addresses; the message hashes they may sign
  Weight,            \* getVoterWithNormalisedWeight, per signer
  Threshold,         \* signingPolicyThresholdPPM of the total weight, rounded up
  Chunk,             \* blocks per eth_getLogs request, after the node's cap
  MaxRequests,       \* _MAX_REQUESTS
  WindowStart,       \* the first block not older than the epoch's end
  MaxBlock,          \* bound: the height of the chain
  NoReport,          \* nothing reported, nothing cached
  ScanFaults,        \* "rpc" if requests may fail
  MaxScanFaults      \* bound: how many refreshes fail

ASSUME ScanAssumption ==
  /\ {Chunk, MaxRequests, WindowStart} \subseteq Nat \ {0}
  /\ {Threshold, MaxBlock, MaxScanFaults} \subseteq Nat
  /\ WindowStart <= MaxBlock + 1
  /\ IsFiniteSet(Signers) /\ Weight \in [Signers -> Nat] /\ Hashes # {}

Vote   == [hash : Hashes, signer : Signers, final : BOOLEAN]
Cached == [votes : SUBSET Vote, hi : Nat, from : Nat, complete : BOOLEAN]
ASSUME NoReportAssumption == NoReport \notin Cached

VARIABLES
  head,    \* eth_blockNumber
  events,  \* the signing events: block, hash, signer, threshold reached
  cache,   \* the epoch's entry of the daemon's cache
  report,  \* the progress last narrated
  overrun, \* history: a forward scan ended before the head it recorded
  failures

progressVars == <<head, events, cache, report, overrun, failures>>

(* A set's weight is the number of units of weight its signers hold.       *)
Unit == UNION {{s} \X (1 .. Weight[s]) : s \in Signers}
TotalOf(signers) == Cardinality({u \in Unit : u[1] \in signers})
SignersOf(votes, h) == {v.signer : v \in {w \in votes : w.hash = h}}
Finalized == \E v \in events : v.final

ProgressInit ==
  /\ head = WindowStart - 1 /\ events = {} /\ cache = NoReport /\ report = NoReport
  /\ overrun = FALSE /\ failures = 0

(* FlareSystemsManager: one vote a signer, none once a hash is past the    *)
(* threshold; at most one event a block is enough.                         *)
Extend ==
  /\ head < MaxBlock /\ head' = head + 1
  /\ \/ UNCHANGED events
     \/ \E s \in Signers, h \in Hashes :
          /\ ~Finalized /\ \A v \in events : v.signer # s
          /\ events' = events \cup
               {[block |-> head', hash |-> h, signer |-> s,
                 final |-> TotalOf(SignersOf(events, h) \cup {s}) > Threshold]}
  /\ UNCHANGED <<cache, report, overrun, failures>>

(* eth_getLogs over a range, as merged by _merge: by hash and signer.      *)
Logs(lo, hi) ==
  {[hash |-> v.hash, signer |-> v.signer, final |-> v.final] :
     v \in {e \in events : e.block \in lo .. hi}}

(* Mutant: the range may start below block 0.                              *)
LowestUnclamped(requests) == head + 1 - requests * Chunk

Lowest(requests) == IF head + 1 >= requests * Chunk THEN head + 1 - requests * Chunk ELSE 0

(* The oldest block read predates the window.                              *)
Reached(lo) == lo = 0 \/ lo < WindowStart

(* _scan_window: backward, until a chunk starts before the window or the   *)
(* budget is spent.                                                        *)
ScanWindow ==
  LET needed == {n \in 1 .. MaxRequests : Reached(Lowest(n))}
      lo     == Lowest(IF needed = {} THEN MaxRequests ELSE Min(needed))
  IN  [votes |-> Logs(lo, head), hi |-> head, from |-> lo, complete |-> Reached(lo)]

(* Mutant: the forward scan starts one block late.                         *)
ForwardFromSkipping(hi) == hi + 2

ForwardFrom(hi) == hi + 1

ForwardTo(hi) == Min({head, hi + MaxRequests * Chunk})

(* The base scan is repeated while it is incomplete.                       *)
Base == IF cache = NoReport THEN TRUE ELSE ~cache.complete

(* Mutant: the forward scan replaces the votes instead of merging them.    *)
ScannedReplacing ==
  IF Base THEN ScanWindow
  ELSE [cache EXCEPT !.votes = Logs(ForwardFrom(cache.hi), ForwardTo(cache.hi)), !.hi = head]

(* What the cache holds after a scan: the forward one merges what it read  *)
(* and records the head, however far it came.                              *)
Scanned ==
  IF Base THEN ScanWindow
  ELSE [cache EXCEPT !.votes = @ \cup Logs(ForwardFrom(cache.hi), ForwardTo(cache.hi)), !.hi = head]

(* Mutant: progress adds up the votes of all hashes.                       *)
AggregateSum(c) ==
  LET signers == {v.signer : v \in c.votes} IN
  [signers |-> signers, weight |-> TotalOf(signers),
   finalized |-> (\E v \in c.votes : v.final) \/ TotalOf(signers) > Threshold,
   complete |-> c.complete, upto |-> c.hi]

(* _aggregate: the hash with most weight leads; its signers are the        *)
(* progress.                                                               *)
Aggregate(c) ==
  LET weight(h) == TotalOf(SignersOf(c.votes, h))
      hashes    == {v.hash : v \in c.votes}
      of(h)     == [signers |-> SignersOf(c.votes, h), weight |-> weight(h),
                    finalized |-> \/ \E v \in c.votes : v.hash = h /\ v.final
                                  \/ weight(h) > Threshold,
                    complete |-> c.complete, upto |-> c.hi]
      none      == [signers |-> {}, weight |-> 0, finalized |-> FALSE,
                    complete |-> c.complete, upto |-> c.hi]
  IN  IF hashes = {} THEN none
      ELSE of(CHOOSE h \in hashes : \A g \in hashes : weight(h) >= weight(g))

(* refresh_signing_progress.                                               *)
Refresh ==
  /\ cache' = Scanned /\ report' = Aggregate(Scanned)
  /\ overrun' = (IF Base THEN FALSE ELSE overrun \/ ForwardTo(cache.hi) < head)
  /\ UNCHANGED <<head, events, failures>>

(* A request fails: before the scan or in a base scan nothing is kept; in  *)
(* a forward scan the chunks merged so far are, below the old mark; in the *)
(* weight look-up the whole scan is, without a report.                     *)
RefreshFails ==
  /\ "rpc" \in ScanFaults /\ failures < MaxScanFaults /\ failures' = failures + 1
  /\ \/ UNCHANGED <<cache, overrun>>
     \/ /\ ~Base
        /\ \E n \in 1 .. MaxRequests :
             cache' = [cache EXCEPT !.votes =
                         @ \cup Logs(ForwardFrom(cache.hi), Min({head, cache.hi + n * Chunk}))]
        /\ UNCHANGED overrun
     \/ /\ cache' = Scanned
        /\ overrun' = (IF Base THEN FALSE ELSE overrun \/ ForwardTo(cache.hi) < head)
  /\ UNCHANGED <<head, events, report>>

ProgressNext == Extend \/ Refresh \/ RefreshFails
-----------------------------------------------------------------------------
ProgressTypeOK ==
  /\ head \in WindowStart - 1 .. MaxBlock /\ failures \in 0 .. MaxScanFaults /\ overrun \in BOOLEAN
  /\ events \subseteq [block : WindowStart .. head, hash : Hashes, signer : Signers, final : BOOLEAN]
  /\ cache = NoReport \/ cache \in [votes : SUBSET Vote, hi : 0 .. head, from : 0 .. head,
                                    complete : BOOLEAN]
  /\ report = NoReport \/ report \in [signers : SUBSET Signers, weight : Nat, finalized : BOOLEAN,
                                      complete : BOOLEAN, upto : 0 .. head]

UpTo(b) == {v \in events : v.block <= b}

(* A progress narrated as complete is the chain's: every vote up to its    *)
(* block is in it and the lead is the true one, through caching, partial   *)
(* failures and the node's range cap.  The one hole: a forward scan that   *)
(* ran out of requests records the head all the same.                      *)
CompleteIsExact ==
  report # NoReport /\ report.complete /\ ~overrun =>
    /\ \A h \in Hashes : TotalOf(SignersOf(UpTo(report.upto), h)) <= report.weight
    /\ report.finalized = \E v \in UpTo(report.upto) : v.final

(* An incomplete progress is a floor: it never says final, and never names *)
(* a signer, when the chain does not.                                      *)
FloorIsSound ==
  report # NoReport =>
    /\ report.finalized => Finalized
    /\ \E h \in Hashes : report.signers \subseteq SignersOf(events, h)

(* Between two complete narrations the progress only grows, although the   *)
(* leading hash may change.                                                *)
ProgressGrows ==
  [][report # NoReport /\ report.complete /\ report'.complete =>
       report'.weight >= report.weight /\ (report.finalized => report'.finalized)]_report
=============================================================================
