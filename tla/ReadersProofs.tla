---------------------------- MODULE ReadersProofs ----------------------------
(***************************************************************************)
(* The four parts that read and report, for every weight, threshold,       *)
(* range, interval, env file and set of claims.  The signing narration     *)
(* says what the chain says; the registration daemon looks while the       *)
(* window is open; an import of credentials leaves no revoked token and    *)
(* loses no setting; a proof leads to the root exactly from the leaves of  *)
(* its tree, so a claim that verifies is one the root commits to.          *)
(***************************************************************************)
EXTENDS Readers, OrderLemmas, FiniteSetTheorems, FunctionTheorems

-----------------------------------------------------------------------------
(***************************************************************************)
(* Weights.                                                                *)
(***************************************************************************)
LEMMA UnitsFinite == IsFiniteSet(Unit)
<1> DEFINE U(s) == {s} \X (1 .. Weight[s])
           f == [s \in Signers |-> U(s)]
           T == {U(s) : s \in Signers}
<1>1. f \in Surjection(Signers, T)
  BY DEF Surjection
<1>2. IsFiniteSet(Signers) /\ \A s \in Signers : Weight[s] \in Nat
  BY ScanAssumption
<1> HIDE DEF f
<1>3. IsFiniteSet(T)
  BY <1>1, <1>2, FS_Surjection
<1>4. ASSUME NEW s \in Signers PROVE IsFiniteSet(U(s))
  <2>1. IsFiniteSet({s})
    BY FS_Singleton
  <2>2. IsFiniteSet(1 .. Weight[s])
    BY <1>2, FS_Interval
  <2> QED
    BY <2>1, <2>2, FS_Product
<1>5. \A V \in T : IsFiniteSet(V)
  BY <1>4
<1>6. IsFiniteSet(UNION T)
  BY <1>3, <1>5, FS_UNION
<1> QED
  BY <1>6 DEF Unit

(* More signers hold no less weight, and none hold none.                   *)
LEMMA WeightMono ==
  ASSUME NEW A, NEW B, A \subseteq B
  PROVE  TotalOf(A) \in Nat /\ TotalOf(B) \in Nat /\ TotalOf(A) <= TotalOf(B)
<1> DEFINE UA == {u \in Unit : u[1] \in A}
           UB == {u \in Unit : u[1] \in B}
<1>1. UA \in SUBSET UB /\ UB \in SUBSET Unit
  OBVIOUS
<1> HIDE DEF UA, UB
<1>2. IsFiniteSet(UB) /\ IsFiniteSet(UA) /\ Cardinality(UA) <= Cardinality(UB)
  BY <1>1, UnitsFinite, FS_Subset
<1>3. Cardinality(UA) \in Nat /\ Cardinality(UB) \in Nat
  BY <1>2, FS_CardinalityType
<1> QED
  BY <1>2, <1>3 DEF TotalOf, UA, UB

LEMMA WeightOfNone == TotalOf({}) = 0
<1>1. {u \in Unit : u[1] \in {}} = {}
  OBVIOUS
<1> QED
  BY <1>1, FS_EmptySet DEF TotalOf

LEMMA SignersMono ==
  ASSUME NEW V, NEW W, V \subseteq W, NEW h
  PROVE  SignersOf(V, h) \subseteq SignersOf(W, h)
BY DEF SignersOf
-----------------------------------------------------------------------------
(***************************************************************************)
(* The narration.                                                          *)
(***************************************************************************)
(* The hash with most weight exists, and what is narrated of it.           *)
LEMMA AggregateFacts ==
  ASSUME NEW c \in Cached
  PROVE  LET a == Aggregate(c)
         IN  /\ a.complete = c.complete /\ a.upto = c.hi
             /\ a \in [signers : SUBSET Signers, weight : Nat, finalized : BOOLEAN,
                       complete : BOOLEAN, upto : Nat]
             /\ \A g : TotalOf(SignersOf(c.votes, g)) <= a.weight
             /\ \E h \in Hashes :
                  /\ a.signers = SignersOf(c.votes, h) /\ a.weight = TotalOf(SignersOf(c.votes, h))
                  /\ a.finalized <=> \/ \E v \in c.votes : v.hash = h /\ v.final
                                     \/ TotalOf(SignersOf(c.votes, h)) > Threshold
<1> DEFINE W(h) == TotalOf(SignersOf(c.votes, h))
           H == {v.hash : v \in c.votes}
           m == CHOOSE h \in H : \A g \in H : W(h) >= W(g)
           fin(h) == (\E v \in c.votes : v.hash = h /\ v.final) \/ W(h) > Threshold
           a == Aggregate(c)
<1>1. /\ c.votes \subseteq Vote /\ c.hi \in Nat /\ c.complete \in BOOLEAN /\ Threshold \in Nat
      /\ H \subseteq Hashes /\ \A h : SignersOf(c.votes, h) \subseteq Signers
  BY ScanAssumption DEF Cached, Vote, SignersOf
<1>2. \A h : W(h) \in 0 .. TotalOf(Signers) /\ TotalOf(Signers) \in Nat
  <2> TAKE h
  <2>1. W(h) \in Nat /\ TotalOf(Signers) \in Nat /\ W(h) <= TotalOf(Signers)
    BY <1>1, WeightMono
  <2> QED
    BY <2>1
<1>3. \A h : fin(h) \in BOOLEAN
  OBVIOUS
<1>4. a = IF H = {}
          THEN [signers |-> {}, weight |-> 0, finalized |-> FALSE, complete |-> c.complete, upto |-> c.hi]
          ELSE [signers |-> SignersOf(c.votes, m), weight |-> W(m), finalized |-> fin(m),
                complete |-> c.complete, upto |-> c.hi]
  BY Zenon DEF Aggregate
<1>5. CASE H = {}
  <2>1. c.votes = {}
    BY <1>5
  <2>2. \A h : SignersOf(c.votes, h) = {}
    BY <2>1 DEF SignersOf
  <2>3. \A h : W(h) = 0 /\ ~fin(h)
    BY <1>1, <2>1, <2>2, WeightOfNone
  <2>4. PICK h0 \in Hashes : TRUE
    BY ScanAssumption
  <2>5. /\ a.signers = {} /\ a.weight = 0 /\ a.finalized = FALSE
        /\ a.complete = c.complete /\ a.upto = c.hi
        /\ a \in [signers : SUBSET Signers, weight : Nat, finalized : BOOLEAN,
                  complete : BOOLEAN, upto : Nat]
    BY <1>1, <1>4, <1>5
  <2> HIDE DEF W, H, m, fin, a
  <2>6. /\ a.signers = SignersOf(c.votes, h0) /\ a.weight = W(h0)
        /\ a.finalized <=> fin(h0)
    BY <2>2, <2>3, <2>5
  <2>7. \A g : W(g) <= a.weight
    BY <2>3, <2>5
  <2> QED
    BY <2>5, <2>6, <2>7, Zenon DEF W, fin, a
<1>6. CASE H # {}
  <2> DEFINE D == {W(h) : h \in H}
  <2>1. D # {} /\ D \subseteq 0 .. TotalOf(Signers) /\ TotalOf(Signers) \in Nat
    BY <1>2, <1>6
  <2> HIDE DEF D
  <2>2. PICK d \in D : \A n \in D : d >= n
    BY <2>1, GreatestOf
  <2>3. \E h \in H : \A g \in H : W(h) >= W(g)
    BY <2>2 DEF D
  <2>4. m \in H /\ \A g \in H : W(m) >= W(g)
    BY <2>3
  <2>5. \A g : g \notin H => W(g) = 0
    <3> SUFFICES ASSUME NEW g, g \notin H PROVE W(g) = 0
      OBVIOUS
    <3>1. SignersOf(c.votes, g) = {}
      BY DEF SignersOf
    <3> QED
      BY <3>1, WeightOfNone
  <2> HIDE DEF m
  <2>6. /\ a.signers = SignersOf(c.votes, m) /\ a.weight = W(m) /\ a.finalized = fin(m)
        /\ a.complete = c.complete /\ a.upto = c.hi
        /\ a \in [signers : SUBSET Signers, weight : Nat, finalized : BOOLEAN,
                  complete : BOOLEAN, upto : Nat]
    <3>1. W(m) \in Nat
      BY <1>2
    <3>2. a = [signers |-> SignersOf(c.votes, m), weight |-> W(m), finalized |-> fin(m),
               complete |-> c.complete, upto |-> c.hi]
      BY <1>4, <1>6
    <3>3. SignersOf(c.votes, m) \subseteq Signers /\ fin(m) \in BOOLEAN
      BY <1>1, <1>3
    <3> HIDE DEF W, fin, H, a
    <3> QED
      BY <1>1, <3>1, <3>2, <3>3
  <2> HIDE DEF W, H, fin, a
  <2>7. \A g : W(g) <= a.weight
    <3> TAKE g
    <3>1. W(g) \in Nat /\ W(m) \in Nat
      BY <1>2
    <3> QED
      BY <2>4, <2>5, <2>6, <3>1
  <2>8. m \in Hashes
    BY <1>1, <2>4
  <2> QED
    BY <2>6, <2>7, <2>8, Zenon DEF W, fin, a
<1> QED
  BY <1>5, <1>6

(* Votes alone decide what is final.                                       *)
LEMMA AggregateOfVotes ==
  ASSUME NEW c, NEW d, c.votes = d.votes
  PROVE  Aggregate(c).finalized = Aggregate(d).finalized
BY DEF Aggregate

LEMMA MinOfTwo ==
  ASSUME NEW a \in Int, NEW b \in Int
  PROVE  Min({a, b}) = IF a <= b THEN a ELSE b
<1> DEFINE m == IF a <= b THEN a ELSE b
<1>1. m \in {a, b} /\ \A y \in {a, b} : m <= y
  OBVIOUS
<1>2. \A x \in {a, b} : (\A y \in {a, b} : x <= y) => x = m
  OBVIOUS
<1> HIDE DEF m
<1>3. Min({a, b}) \in {a, b} /\ \A y \in {a, b} : Min({a, b}) <= y
  BY <1>1 DEF Min
<1>4. Min({a, b}) = m
  BY <1>2, <1>3
<1> QED
  BY <1>4 DEF m

Counted == [block : WindowStart .. head, hash : Hashes, signer : Signers, final : BOOLEAN]

(* What the narration works on.                                            *)
ScanType ==
  /\ head \in WindowStart - 1 .. MaxBlock /\ failures \in 0 .. MaxScanFaults /\ overrun \in BOOLEAN
  /\ events \subseteq Counted
  /\ cache = NoReport \/ (cache \in Cached /\ cache.hi <= head /\ cache.from <= head)

LEMMA LogsFacts ==
  ASSUME ScanType, NEW lo, NEW hi
  PROVE  /\ Logs(lo, hi) \subseteq Vote
         /\ \A v \in Logs(lo, hi) : \E e \in events : e.block \in lo .. hi /\ e.hash = v.hash
                                       /\ e.signer = v.signer /\ e.final = v.final
         /\ \A e \in events : e.block \in lo .. hi =>
              \E v \in Logs(lo, hi) : e.hash = v.hash /\ e.signer = v.signer /\ e.final = v.final
<1> DEFINE L(e) == [hash |-> e.hash, signer |-> e.signer, final |-> e.final]
<1>1. Logs(lo, hi) = {L(e) : e \in {x \in events : x.block \in lo .. hi}}
  BY DEF Logs
<1>2. \A e \in events : /\ L(e) \in Vote
                       /\ L(e).hash = e.hash /\ L(e).signer = e.signer /\ L(e).final = e.final
  BY DEF ScanType, Counted, Vote
<1> HIDE DEF L
<1>3. Logs(lo, hi) \subseteq Vote
  BY <1>1, <1>2
<1>4. ASSUME NEW v \in Logs(lo, hi)
      PROVE  \E e \in events : e.block \in lo .. hi /\ e.hash = v.hash /\ e.signer = v.signer
                              /\ e.final = v.final
  BY <1>1, <1>2
<1>5. ASSUME NEW e \in events, e.block \in lo .. hi
      PROVE  \E v \in Logs(lo, hi) : e.hash = v.hash /\ e.signer = v.signer /\ e.final = v.final
  <2>1. L(e) \in Logs(lo, hi)
    BY <1>1, <1>5
  <2> QED
    BY <1>2, <2>1
<1> QED
  BY <1>3, <1>4, <1>5

LEMMA LowestFacts ==
  ASSUME ScanType, NEW n \in Nat, n >= 1
  PROVE  Lowest(n) \in 0 .. head /\ head \in Nat
<1>1. head \in Nat /\ Chunk \in Nat /\ Chunk >= 1
  BY ScanAssumption DEF ScanType
<1>2. n * Chunk \in Nat /\ n * Chunk >= 1
  <2>1. PICK k \in Nat : n = k + 1
    BY n - 1 \in Nat, n = (n - 1) + 1
  <2>2. n * Chunk = k * Chunk + Chunk /\ k * Chunk \in Nat
    BY <1>1, <2>1
  <2> QED
    BY <1>1, <2>2
<1> DEFINE p == n * Chunk
<1>3. Lowest(n) = IF head + 1 >= p THEN head + 1 - p ELSE 0
  BY DEF Lowest
<1> HIDE DEF p
<1>4. p \in Nat /\ p >= 1
  BY <1>2 DEF p
<1> QED
  BY <1>1, <1>3, <1>4

(* A scan ends at the head; a base scan that is complete reads the whole   *)
(* window, a forward one all that is new unless it runs out of requests.   *)
LEMMA ScannedFacts ==
  ASSUME ScanType
  PROVE  /\ Scanned \in Cached /\ Scanned.hi = head /\ Scanned.from <= head
         /\ Base => /\ Scanned.votes = Logs(Scanned.from, head)
                    /\ Scanned.complete => Scanned.from <= WindowStart
         /\ ~Base => /\ Scanned.votes = cache.votes \cup Logs(cache.hi + 1, ForwardTo(cache.hi))
                     /\ Scanned.complete = cache.complete
<1>1. /\ head \in Nat /\ WindowStart \in Nat /\ WindowStart >= 1 /\ MaxRequests \in Nat /\ MaxRequests >= 1
  BY ScanAssumption DEF ScanType
<1>2. CASE Base
  <2> DEFINE needed == {n \in 1 .. MaxRequests : Reached(Lowest(n))}
             k == IF needed = {} THEN MaxRequests ELSE Min(needed)
             lo == Lowest(k)
  <2>1. k \in Nat /\ k >= 1
    <3>1. CASE needed = {}
      BY <1>1, <3>1
    <3>2. CASE needed # {}
      <4>1. needed \subseteq 1 .. MaxRequests /\ needed \subseteq Nat
        BY <1>1
      <4> HIDE DEF needed
      <4>2. \E x \in needed : \A n \in needed : x <= n
        BY <3>2, <4>1, LeastOf
      <4>3. Min(needed) \in needed
        BY <4>2 DEF Min
      <4>4. k = Min(needed) /\ Min(needed) \in 1 .. MaxRequests
        BY <3>2, <4>1, <4>3
      <4> HIDE DEF k
      <4> QED
        BY <1>1, <4>4
    <3> QED
      BY <3>1, <3>2
  <2>2. Scanned = [votes |-> Logs(lo, head), hi |-> head, from |-> lo, complete |-> Reached(lo)]
    BY <1>2, Zenon DEF Scanned, ScanWindow
  <2> HIDE DEF k
  <2>3. lo \in 0 .. head
    BY <2>1, LowestFacts
  <2> HIDE DEF lo
  <2>4. Logs(lo, head) \subseteq Vote
    BY LogsFacts
  <2>5. Reached(lo) \in BOOLEAN /\ (Reached(lo) => lo <= WindowStart)
    BY <1>1, <2>3 DEF Reached
  <2> HIDE DEF needed
  <2> QED
    BY <1>1, <1>2, <2>2, <2>3, <2>4, <2>5 DEF Cached
<1>3. CASE ~Base
  <2>1. cache # NoReport /\ cache.complete /\ cache \in Cached /\ cache.from <= head
    BY <1>3 DEF Base, ScanType
  <2> DEFINE new == Logs(cache.hi + 1, ForwardTo(cache.hi))
  <2>2. Scanned = [cache EXCEPT !.votes = cache.votes \cup new, !.hi = head]
    BY <1>3 DEF Scanned, ForwardFrom
  <2>3. new \subseteq Vote
    BY LogsFacts
  <2> HIDE DEF new
  <2>4. /\ Scanned \in Cached /\ Scanned.hi = head /\ Scanned.from = cache.from
        /\ Scanned.votes = cache.votes \cup new /\ Scanned.complete = cache.complete
    BY <1>1, <2>1, <2>2, <2>3 DEF Cached
  <2> QED
    BY <1>3, <2>1, <2>4 DEF new
<1> QED
  BY <1>2, <1>3

(* One signing event more can only finalize its own hash.                  *)
VotesOK ==
  /\ \A v \in events : v.final => TotalOf(SignersOf(events, v.hash)) > Threshold
  /\ \A h : TotalOf(SignersOf(events, h)) > Threshold => \E v \in events : v.hash = h /\ v.final

(* The cache holds nothing the chain does not, and when complete and not   *)
(* overrun all of it up to its mark.                                       *)
CacheOK ==
  cache # NoReport =>
    /\ cache.votes \subseteq Logs(WindowStart, head)
    /\ cache.complete /\ ~overrun => Logs(WindowStart, cache.hi) \subseteq cache.votes

(* What was narrated is a floor; when complete it is not above what the    *)
(* cache has now, and once final nothing is left to read.                  *)
ReportOK ==
  report # NoReport =>
    /\ report \in [signers : SUBSET Signers, weight : Nat, finalized : BOOLEAN,
                   complete : BOOLEAN, upto : 0 .. head]
    /\ report.complete =>
         /\ cache # NoReport /\ cache.complete
         /\ \E h : report.weight <= TotalOf(SignersOf(cache.votes, h))
         /\ report.finalized => Aggregate(cache).finalized /\ \A e \in events : e.block <= cache.hi

LEMMA EventBlocks ==
  ASSUME ScanType
  PROVE  /\ \A e \in events : e.block \in WindowStart .. head
         /\ head \in Nat /\ WindowStart \in Nat /\ WindowStart >= 1
BY ScanAssumption DEF ScanType, Counted

LEMMA LogsMono ==
  ASSUME NEW lo, NEW hi, NEW lo2, NEW hi2,
         \A e \in events : e.block \in lo .. hi => e.block \in lo2 .. hi2
  PROVE  Logs(lo, hi) \subseteq Logs(lo2, hi2)
BY DEF Logs

LEMMA SignersRead ==
  ASSUME ScanType, NEW V, V \subseteq Logs(WindowStart, head), NEW h
  PROVE  /\ SignersOf(V, h) \subseteq SignersOf(events, h)
         /\ V = Logs(WindowStart, head) => SignersOf(V, h) = SignersOf(events, h)
<1> DEFINE L == Logs(WindowStart, head)
<1>1. \A v \in L : \E e \in events : e.hash = v.hash /\ e.signer = v.signer
  BY LogsFacts
<1>2. \A e \in events : \E v \in L : e.hash = v.hash /\ e.signer = v.signer
  BY LogsFacts, EventBlocks
<1> HIDE DEF L
<1>3. V \subseteq L
  BY DEF L
<1>4. SignersOf(V, h) \subseteq SignersOf(events, h)
  BY <1>1, <1>3 DEF SignersOf
<1>5. V = L => SignersOf(events, h) \subseteq SignersOf(V, h)
  BY <1>2 DEF SignersOf
<1> QED
  BY <1>4, <1>5 DEF L

(* What a narration of votes read from the chain may say.                  *)
LEMMA FloorReport ==
  ASSUME ScanType, VotesOK, NEW c \in Cached, c.votes \subseteq Logs(WindowStart, head)
  PROVE  /\ Aggregate(c).finalized => Finalized
         /\ \E h \in Hashes : Aggregate(c).signers \subseteq SignersOf(events, h)
<1>1. PICK h \in Hashes :
        /\ Aggregate(c).signers = SignersOf(c.votes, h)
        /\ Aggregate(c).finalized <=> \/ \E v \in c.votes : v.hash = h /\ v.final
                                      \/ TotalOf(SignersOf(c.votes, h)) > Threshold
  BY AggregateFacts
<1>2. SignersOf(c.votes, h) \subseteq SignersOf(events, h)
  BY SignersRead
<1>3. CASE \E v \in c.votes : v.hash = h /\ v.final
  <2>1. PICK v \in Logs(WindowStart, head) : v.final
    BY <1>3
  <2>2. Finalized
    BY <2>1, LogsFacts DEF Finalized
  <2> QED
    BY <1>1, <1>2, <2>2
<1>4. CASE TotalOf(SignersOf(c.votes, h)) > Threshold
  <2>1. TotalOf(SignersOf(events, h)) > Threshold
    <3>1. /\ TotalOf(SignersOf(c.votes, h)) \in Nat /\ TotalOf(SignersOf(events, h)) \in Nat
          /\ TotalOf(SignersOf(c.votes, h)) <= TotalOf(SignersOf(events, h))
      BY <1>2, WeightMono
    <3>2. Threshold \in Nat
      BY ScanAssumption
    <3> QED
      BY <1>4, <3>1, <3>2
  <2>2. Finalized
    BY <2>1 DEF VotesOK, Finalized
  <2> QED
    BY <1>1, <1>2, <2>2
<1> QED
  BY <1>1, <1>2, <1>3, <1>4

LEMMA ExactReport ==
  ASSUME ScanType, VotesOK, NEW c \in Cached, c.votes = Logs(WindowStart, head)
  PROVE  /\ \A h : TotalOf(SignersOf(events, h)) <= Aggregate(c).weight
         /\ Aggregate(c).finalized = \E v \in events : v.final
<1> DEFINE a == Aggregate(c)
           W(h) == TotalOf(SignersOf(c.votes, h))
<1>1. /\ a.finalized \in BOOLEAN /\ a.weight \in Nat
      /\ \A g : W(g) <= a.weight
  BY AggregateFacts
<1>2. PICK m \in Hashes :
        /\ a.weight = W(m)
        /\ a.finalized <=> (\E v \in c.votes : v.hash = m /\ v.final) \/ W(m) > Threshold
  BY AggregateFacts
<1>3. \A h : SignersOf(c.votes, h) = SignersOf(events, h)
  BY SignersRead
<1>4. \A h : W(h) = TotalOf(SignersOf(events, h)) /\ W(h) \in Nat
  BY <1>3, WeightMono
<1>5. Threshold \in Nat
  BY ScanAssumption
<1>6. a.finalized => \E v \in events : v.final
  BY FloorReport DEF Finalized
<1>7. ASSUME NEW v \in events, v.final PROVE a.finalized
  <2>1. W(v.hash) > Threshold
    BY <1>4, <1>7 DEF VotesOK
  <2>2. W(v.hash) <= W(m)
    BY <1>1, <1>2
  <2> HIDE DEF W, a
  <2> QED
    BY <1>2, <1>4, <1>5, <2>1, <2>2
<1> HIDE DEF a
<1>8. a.finalized = \E v \in events : v.final
  BY <1>1, <1>6, <1>7
<1>9. \A h : TotalOf(SignersOf(events, h)) <= a.weight
  BY <1>1, <1>4
<1> QED
  BY <1>8, <1>9 DEF a

ProgressInv == ScanType /\ VotesOK /\ CacheOK /\ ReportOK /\ FloorIsSound /\ CompleteIsExact

LEMMA ProgressStarts == ProgressInit => ProgressInv
<1> SUFFICES ASSUME ProgressInit PROVE ProgressInv
  OBVIOUS
<1>1. /\ WindowStart \in Nat /\ MaxBlock \in Nat /\ MaxScanFaults \in Nat /\ Threshold \in Nat
      /\ WindowStart <= MaxBlock + 1
  BY ScanAssumption
<1>2. ScanType
  <2>1. head \in WindowStart - 1 .. MaxBlock /\ failures \in 0 .. MaxScanFaults
    BY <1>1 DEF ProgressInit
  <2>2. events \subseteq Counted /\ cache = NoReport /\ overrun \in BOOLEAN
    BY DEF ProgressInit
  <2> QED
    BY <2>1, <2>2 DEF ScanType
<1>3. VotesOK
  <2>1. \A h : SignersOf(events, h) = {}
    BY DEF ProgressInit, SignersOf
  <2> QED
    BY <1>1, <2>1, WeightOfNone DEF VotesOK, ProgressInit
<1> QED
  BY <1>2, <1>3 DEF ProgressInit, ProgressInv, CacheOK, ReportOK, FloorIsSound, CompleteIsExact

(* A new block: what was read of the blocks before it stands.              *)
LEMMA ExtendFacts ==
  ASSUME ScanType, Extend
  PROVE  /\ head' = head + 1 /\ UNCHANGED <<cache, report, overrun, failures>> /\ ScanType'
         /\ events \subseteq events' /\ (Finalized => UNCHANGED events)
         /\ \A b \in Nat : b <= head => UpTo(b)' = UpTo(b) /\ Logs(WindowStart, b)' = Logs(WindowStart, b)
         /\ Logs(WindowStart, head) \subseteq Logs(WindowStart, head)'
         /\ \/ UNCHANGED events
            \/ \E s \in Signers, h \in Hashes :
                 /\ ~Finalized
                 /\ events' = events \cup
                      {[block |-> head + 1, hash |-> h, signer |-> s,
                        final |-> TotalOf(SignersOf(events, h) \cup {s}) > Threshold]}
<1>1. /\ head < MaxBlock /\ head' = head + 1 /\ UNCHANGED <<cache, report, overrun, failures>>
      /\ \/ UNCHANGED events
         \/ \E s \in Signers, h \in Hashes :
              /\ ~Finalized
              /\ events' = events \cup
                   {[block |-> head + 1, hash |-> h, signer |-> s,
                     final |-> TotalOf(SignersOf(events, h) \cup {s}) > Threshold]}
  BY DEF Extend
<1>2. head \in Nat /\ WindowStart \in Nat /\ WindowStart >= 1 /\ MaxBlock \in Nat
      /\ head >= WindowStart - 1 /\ \A e \in events : e.block \in WindowStart .. head
  BY EventBlocks, ScanAssumption DEF ScanType
<1>3. /\ events \subseteq Counted' /\ events \subseteq events' /\ (Finalized => UNCHANGED events)
      /\ \A e \in events' : e \in events \/ (e.block = head + 1 /\ e \in Counted')
  <2>1. events \subseteq Counted'
    <3>1. WindowStart .. head \subseteq WindowStart .. head'
      BY <1>1, <1>2
    <3> QED
      BY <3>1 DEF ScanType, Counted
  <2>2. CASE UNCHANGED events
    BY <2>1, <2>2
  <2>3. ASSUME NEW s \in Signers, NEW h \in Hashes, ~Finalized,
               events' = events \cup
                 {[block |-> head + 1, hash |-> h, signer |-> s,
                   final |-> TotalOf(SignersOf(events, h) \cup {s}) > Threshold]}
        PROVE  events \subseteq events' /\ \A e \in events' : e \in events \/ (e.block = head + 1 /\ e \in Counted')
    <3> DEFINE f == TotalOf(SignersOf(events, h) \cup {s}) > Threshold
               n == [block |-> head + 1, hash |-> h, signer |-> s, final |-> f]
    <3>1. f \in BOOLEAN /\ head + 1 \in WindowStart .. head'
      BY <1>1, <1>2
    <3>2. events' = events \cup {n}
      BY <2>3
    <3> HIDE DEF f
    <3>3. n \in Counted' /\ n.block = head + 1
      BY <3>1 DEF Counted
    <3> HIDE DEF n
    <3> QED
      BY <3>2, <3>3
  <2> QED
    BY <1>1, <2>1, <2>2, <2>3
<1>4. ScanType'
  <2>1. head' \in WindowStart - 1 .. MaxBlock /\ head <= head'
    BY <1>1, <1>2
  <2>2. events' \subseteq Counted'
    BY <1>3
  <2>3. cache = NoReport \/ (cache \in Cached /\ cache.hi <= head' /\ cache.from <= head')
    <3>1. cache \in Cached => cache.hi \in Nat /\ cache.from \in Nat
      BY DEF Cached
    <3> QED
      BY <1>1, <1>2, <3>1 DEF ScanType
  <2> QED
    BY <1>1, <2>1, <2>2, <2>3 DEF ScanType
<1>5. ASSUME NEW b \in Nat, b <= head
      PROVE  UpTo(b)' = UpTo(b) /\ Logs(WindowStart, b)' = Logs(WindowStart, b)
  <2>1. \A e \in events' : e.block <= b => e \in events
    BY <1>2, <1>3, <1>5
  <2>2. \A e : e \in events' /\ e.block <= b <=> e \in events /\ e.block <= b
    BY <1>3, <2>1
  <2>3. \A e : e \in events' /\ e.block \in WindowStart .. b <=> e \in events /\ e.block \in WindowStart .. b
    BY <1>2, <1>3, <1>5
  <2>4. UpTo(b)' = UpTo(b)
    BY <2>2 DEF UpTo
  <2>5. {e \in events' : e.block \in WindowStart .. b} = {e \in events : e.block \in WindowStart .. b}
    BY <2>3
  <2> QED
    BY <2>4, <2>5, Zenon DEF Logs
<1>6. Logs(WindowStart, head) \subseteq Logs(WindowStart, head)'
  <2>1. {e \in events : e.block \in WindowStart .. head} \subseteq {e \in events' : e.block \in WindowStart .. head'}
    BY <1>1, <1>2, <1>3
  <2> QED
    BY <2>1 DEF Logs
<1> QED
  BY <1>1, <1>3, <1>4, <1>5, <1>6

LEMMA ProgressExtends ==
  ASSUME ProgressInv, Extend
  PROVE  ProgressInv'
<1> USE DEF ProgressInv
<1>1. /\ head' = head + 1 /\ UNCHANGED <<cache, report, overrun, failures>> /\ ScanType'
      /\ events \subseteq events' /\ (Finalized => UNCHANGED events)
      /\ \A b \in Nat : b <= head => UpTo(b)' = UpTo(b) /\ Logs(WindowStart, b)' = Logs(WindowStart, b)
      /\ Logs(WindowStart, head) \subseteq Logs(WindowStart, head)'
  BY ExtendFacts
<1>2. head \in Nat /\ Threshold \in Nat
  BY EventBlocks, ScanAssumption
<1>3. VotesOK'
  <2>1. CASE UNCHANGED events
    BY <2>1 DEF VotesOK
  <2>2. ASSUME NEW s \in Signers, NEW h \in Hashes, ~Finalized,
               events' = events \cup
                 {[block |-> head + 1, hash |-> h, signer |-> s,
                   final |-> TotalOf(SignersOf(events, h) \cup {s}) > Threshold]}
        PROVE  VotesOK'
    <3> DEFINE f == TotalOf(SignersOf(events, h) \cup {s}) > Threshold
               n == [block |-> head + 1, hash |-> h, signer |-> s, final |-> f]
    <3>1. /\ events' = events \cup {n} /\ n.hash = h /\ n.signer = s /\ n.final = f
          /\ \A v \in events : ~v.final
      BY <2>2 DEF Finalized
    <3> HIDE DEF n
    <3>2. SignersOf(events', h) = SignersOf(events, h) \cup {s}
      BY <3>1 DEF SignersOf
    <3>3. \A g : g # h => SignersOf(events', g) = SignersOf(events, g)
      BY <3>1 DEF SignersOf
    <3>4. n.final <=> TotalOf(SignersOf(events', h)) > Threshold
      BY <3>1, <3>2
    <3> HIDE DEF f
    <3>5. ASSUME NEW v \in events', v.final PROVE TotalOf(SignersOf(events', v.hash)) > Threshold
      BY <3>1, <3>4, <3>5
    <3>6. ASSUME NEW g, TotalOf(SignersOf(events', g)) > Threshold
          PROVE  \E v \in events' : v.hash = g /\ v.final
      <4>1. CASE g = h
        BY <3>1, <3>4, <3>6, <4>1
      <4>2. CASE g # h
        BY <3>1, <3>3, <3>6, <4>2 DEF VotesOK
      <4> QED
        BY <4>1, <4>2
    <3> QED
      BY <3>5, <3>6 DEF VotesOK
  <2> QED
    BY <2>1, <2>2, ExtendFacts
<1>4. CacheOK'
  <2> SUFFICES ASSUME cache # NoReport
               PROVE  /\ cache.votes \subseteq Logs(WindowStart, head)'
                      /\ cache.complete /\ ~overrun => Logs(WindowStart, cache.hi)' \subseteq cache.votes
    BY <1>1 DEF CacheOK
  <2>1. cache.hi \in Nat /\ cache.hi <= head
    BY DEF ScanType, Cached
  <2>2. Logs(WindowStart, cache.hi)' = Logs(WindowStart, cache.hi)
    BY <1>1, <2>1
  <2> QED
    BY <1>1, <2>2 DEF CacheOK
<1>5. ASSUME report # NoReport
      PROVE  /\ report.upto \in 0 .. head /\ report.upto \in 0 .. head' /\ UpTo(report.upto)' = UpTo(report.upto)
             /\ report.finalized => Finalized
  <2>1. report.upto \in 0 .. head
    BY <1>5 DEF ReportOK
  <2> QED
    BY <1>1, <1>2, <1>5, <2>1 DEF FloorIsSound
<1>6. ReportOK'
  <2> SUFFICES ASSUME report # NoReport
               PROVE  /\ report \in [signers : SUBSET Signers, weight : Nat, finalized : BOOLEAN,
                                     complete : BOOLEAN, upto : 0 .. head']
                      /\ report.complete =>
                           /\ cache # NoReport /\ cache.complete
                           /\ \E h : report.weight <= TotalOf(SignersOf(cache.votes, h))
                           /\ report.finalized =>
                                Aggregate(cache).finalized /\ \A e \in events' : e.block <= cache.hi
    BY <1>1 DEF ReportOK
  <2>1. report \in [signers : SUBSET Signers, weight : Nat, finalized : BOOLEAN,
                    complete : BOOLEAN, upto : 0 .. head']
    <3>1. report \in [signers : SUBSET Signers, weight : Nat, finalized : BOOLEAN,
                      complete : BOOLEAN, upto : 0 .. head]
      BY DEF ReportOK
    <3>2. 0 .. head \subseteq 0 .. head'
      BY <1>1, <1>2
    <3> QED
      BY <3>1, <3>2
  <2> QED
    BY <1>1, <1>5, <2>1 DEF ReportOK
<1>7. FloorIsSound'
  <2>1. \A h : SignersOf(events, h) \subseteq SignersOf(events', h)
    BY <1>1, SignersMono
  <2>2. Finalized => Finalized'
    BY <1>1 DEF Finalized
  <2> QED
    BY <1>1, <2>1, <2>2 DEF FloorIsSound
<1>8. CompleteIsExact'
  BY <1>1, <1>5 DEF CompleteIsExact
<1> QED
  BY <1>1, <1>3, <1>4, <1>6, <1>7, <1>8

(* What a scan adds to the votes is on chain, and nothing once all was     *)
(* read.                                                                   *)
LEMMA ScanReads ==
  ASSUME ProgressInv
  PROVE  /\ Scanned.votes \subseteq Logs(WindowStart, head)
         /\ Scanned.complete /\ ~(IF Base THEN FALSE ELSE overrun \/ ForwardTo(cache.hi) < head)
              => Scanned.votes = Logs(WindowStart, head)
         /\ \A lo, hi : Logs(lo, hi) \subseteq Logs(WindowStart, head)
         /\ \A lo, hi : cache # NoReport /\ (\A e \in events : e.block <= cache.hi) /\ lo = cache.hi + 1
                          => Logs(lo, hi) = {}
<1> USE DEF ProgressInv
<1>0. head \in Nat /\ WindowStart \in Nat /\ \A e \in events : e.block \in WindowStart .. head
  BY EventBlocks
<1>1. \A lo, hi : Logs(lo, hi) \subseteq Logs(WindowStart, head)
  BY <1>0, LogsMono
<1>2. \A lo, hi : cache # NoReport /\ (\A e \in events : e.block <= cache.hi) /\ lo = cache.hi + 1
                    => Logs(lo, hi) = {}
  <2> SUFFICES ASSUME NEW lo, NEW hi, cache # NoReport, \A e \in events : e.block <= cache.hi,
                      lo = cache.hi + 1
               PROVE  Logs(lo, hi) = {}
    OBVIOUS
  <2>1. cache.hi \in Nat
    BY DEF ScanType, Cached
  <2>2. \A e \in events : e.block \notin lo .. hi
    BY <1>0, <2>1
  <2> QED
    BY <2>2 DEF Logs
<1>3. CASE Base
  <2>1. Scanned.votes = Logs(Scanned.from, head) /\ (Scanned.complete => Scanned.from <= WindowStart)
        /\ Scanned.from \in Nat
    BY <1>3, ScannedFacts DEF Cached
  <2>2. Scanned.complete => Logs(WindowStart, head) \subseteq Logs(Scanned.from, head)
    <3>1. Scanned.complete => \A e \in events : e.block \in WindowStart .. head => e.block \in Scanned.from .. head
      BY <1>0, <2>1
    <3> QED
      BY <3>1, LogsMono
  <2> QED
    BY <1>1, <1>2, <2>1, <2>2
<1>4. CASE ~Base
  <2>1. /\ Scanned.votes = cache.votes \cup Logs(cache.hi + 1, ForwardTo(cache.hi))
        /\ cache # NoReport /\ cache.complete /\ cache.hi \in Nat
    BY <1>4, ScannedFacts DEF Base, ScanType, Cached
  <2>2. Scanned.votes \subseteq Logs(WindowStart, head)
    BY <1>1, <2>1 DEF CacheOK
  <2>3. ASSUME ~overrun, ~(ForwardTo(cache.hi) < head) PROVE Logs(WindowStart, head) \subseteq Scanned.votes
    <3>1. MaxRequests * Chunk \in Nat
      BY ScanAssumption
    <3> DEFINE b == cache.hi + MaxRequests * Chunk
    <3>2. b \in Int
      BY <2>1, <3>1
    <3>3. ForwardTo(cache.hi) = Min({head, b})
      BY DEF ForwardTo
    <3> HIDE DEF b
    <3>4. ForwardTo(cache.hi) = head
      BY <1>0, <2>3, <3>2, <3>3, MinOfTwo
    <3>5. Logs(WindowStart, cache.hi) \subseteq cache.votes
      BY <2>1, <2>3 DEF CacheOK
    <3>6. Logs(WindowStart, head) \subseteq Logs(WindowStart, cache.hi) \cup Logs(cache.hi + 1, head)
      <4>1. \A e \in events : e.block \in WindowStart .. head =>
              e.block \in WindowStart .. cache.hi \/ e.block \in cache.hi + 1 .. head
        BY <1>0, <2>1
      <4> QED
        BY <4>1 DEF Logs
    <3> QED
      BY <2>1, <3>4, <3>5, <3>6
  <2> QED
    BY <1>1, <1>2, <1>4, <2>2, <2>3
<1> QED
  BY <1>3, <1>4

LEMMA ScannedCached ==
  ASSUME ScanType, cache' = Scanned, UNCHANGED <<head, events>>,
         failures' \in 0 .. MaxScanFaults, overrun' \in BOOLEAN
  PROVE  ScanType' /\ cache' # NoReport /\ cache' \in Cached /\ cache'.hi = head
<1>1. Scanned \in Cached /\ Scanned.hi = head /\ Scanned.from <= head /\ head \in Nat
  BY ScannedFacts, EventBlocks
<1>2. Scanned # NoReport
  BY <1>1, NoReportAssumption
<1> QED
  BY <1>1, <1>2 DEF ScanType, Counted

LEMMA ProgressRefreshes ==
  ASSUME ProgressInv, Refresh
  PROVE  ProgressInv'
<1> USE DEF ProgressInv
<1> DEFINE c == Scanned
           a == Aggregate(c)
           o == IF Base THEN FALSE ELSE overrun \/ ForwardTo(cache.hi) < head
<1>1. cache' = c /\ report' = a /\ overrun' = o /\ UNCHANGED <<head, events, failures>>
  BY DEF Refresh
<1>2. o \in BOOLEAN
  BY DEF ScanType
<1>3. c \in Cached /\ c.hi = head /\ head \in Nat
  BY ScannedFacts, EventBlocks
<1>4. /\ c.votes \subseteq Logs(WindowStart, head)
      /\ c.complete /\ ~o => c.votes = Logs(WindowStart, head)
  BY ScanReads
<1>5. /\ a.complete = c.complete /\ a.upto = c.hi
      /\ a \in [signers : SUBSET Signers, weight : Nat, finalized : BOOLEAN,
                complete : BOOLEAN, upto : Nat]
      /\ \E h : a.weight = TotalOf(SignersOf(c.votes, h))
      /\ a.finalized => Finalized
      /\ \E h \in Hashes : a.signers \subseteq SignersOf(events, h)
      /\ c.votes = Logs(WindowStart, head) =>
           /\ \A h : TotalOf(SignersOf(events, h)) <= a.weight
           /\ a.finalized = \E v \in events : v.final
  <2>1. /\ a.complete = c.complete /\ a.upto = c.hi
        /\ a \in [signers : SUBSET Signers, weight : Nat, finalized : BOOLEAN,
                  complete : BOOLEAN, upto : Nat]
        /\ \E h : a.weight = TotalOf(SignersOf(c.votes, h))
    BY <1>3, AggregateFacts
  <2>2. /\ a.finalized => Finalized
        /\ \E h \in Hashes : a.signers \subseteq SignersOf(events, h)
    BY <1>3, <1>4, FloorReport
  <2>3. c.votes = Logs(WindowStart, head) =>
           /\ \A h : TotalOf(SignersOf(events, h)) <= a.weight
           /\ a.finalized = \E v \in events : v.final
    BY <1>3, ExactReport
  <2> QED
    BY <2>1, <2>2, <2>3
<1> HIDE DEF c, a, o
<1>6. ScanType' /\ cache' # NoReport
  <2>1. failures' \in 0 .. MaxScanFaults /\ overrun' \in BOOLEAN
    BY <1>1, <1>2 DEF ScanType
  <2> QED
    BY <1>1, <2>1, ScannedCached DEF c
<1>7. VotesOK' /\ (Finalized' <=> Finalized) /\ UpTo(head)' = events
      /\ Logs(WindowStart, head)' = Logs(WindowStart, head)
  <2>1. UpTo(head) = events
    BY EventBlocks DEF UpTo
  <2> QED
    BY <1>1, <2>1 DEF VotesOK, Finalized, UpTo, Logs
<1>8. CacheOK'
  BY <1>1, <1>3, <1>4, <1>7 DEF CacheOK
<1>9. a.weight \in Nat /\ \A e \in events : e.block <= head
  BY <1>5, EventBlocks
<1>10. ReportOK'
  <2>1. a.upto \in 0 .. head
    BY <1>3, <1>5
  <2>2. a \in [signers : SUBSET Signers, weight : Nat, finalized : BOOLEAN,
               complete : BOOLEAN, upto : 0 .. head]
    BY <1>5, <2>1
  <2>3. \E h : a.weight <= TotalOf(SignersOf(c.votes, h))
    BY <1>5, <1>9
  <2> QED
    BY <1>1, <1>3, <1>5, <1>6, <1>9, <2>2, <2>3 DEF ReportOK, a
<1>11. FloorIsSound'
  BY <1>1, <1>5, <1>7 DEF FloorIsSound
<1>12. CompleteIsExact'
  <2>1. UpTo(report.upto)' = events
    <3>1. UpTo(report.upto)' = {v \in events : v.block <= head}
      BY <1>1, <1>3, <1>5 DEF UpTo
    <3> QED
      BY <1>9, <3>1
  <2>2. a.complete /\ ~o => c.votes = Logs(WindowStart, head)
    BY <1>4, <1>5
  <2>3. CompleteIsExact' <=>
          (a # NoReport /\ a.complete /\ ~o =>
             /\ \A h \in Hashes : TotalOf(SignersOf(events, h)) <= a.weight
             /\ a.finalized = \E v \in events : v.final)
    BY <1>1, <2>1, Zenon DEF CompleteIsExact
  <2> QED
    BY <1>5, <2>2, <2>3
<1> QED
  BY <1>6, <1>7, <1>8, <1>10, <1>11, <1>12

(* A cache that moves on without a narration: what was narrated stays true.*)
LEMMA CacheMoves ==
  ASSUME ProgressInv, UNCHANGED <<head, events, report>>, ScanType', CacheOK',
         cache # NoReport /\ cache.complete =>
           /\ cache' # NoReport /\ cache'.complete /\ cache.votes \subseteq cache'.votes
           /\ overrun => overrun'
           /\ (\A e \in events : e.block <= cache.hi) =>
                cache'.votes = cache.votes /\ \A e \in events : e.block <= cache'.hi
  PROVE  ProgressInv'
<1> USE DEF ProgressInv
<1>1. VotesOK' /\ FloorIsSound'
  BY DEF VotesOK, FloorIsSound, Finalized
<1>2. ReportOK'
  <2> SUFFICES ASSUME report # NoReport, report.complete
               PROVE  /\ cache' # NoReport /\ cache'.complete
                      /\ \E h : report.weight <= TotalOf(SignersOf(cache'.votes, h))
                      /\ report.finalized =>
                           Aggregate(cache').finalized /\ \A e \in events : e.block <= cache'.hi
    BY DEF ReportOK
  <2>1. cache # NoReport /\ cache.complete /\ report.weight \in Nat
    BY DEF ReportOK
  <2>2. PICK h : report.weight <= TotalOf(SignersOf(cache.votes, h))
    BY DEF ReportOK
  <2>3. SignersOf(cache.votes, h) \subseteq SignersOf(cache'.votes, h)
    BY <2>1, SignersMono
  <2>4. /\ TotalOf(SignersOf(cache.votes, h)) \in Nat /\ TotalOf(SignersOf(cache'.votes, h)) \in Nat
        /\ TotalOf(SignersOf(cache.votes, h)) <= TotalOf(SignersOf(cache'.votes, h))
    BY <2>3, WeightMono
  <2>5. report.weight <= TotalOf(SignersOf(cache'.votes, h))
    BY <2>1, <2>2, <2>4
  <2>6. ASSUME report.finalized
        PROVE  Aggregate(cache').finalized /\ \A e \in events : e.block <= cache'.hi
    <3>1. Aggregate(cache).finalized /\ cache'.votes = cache.votes /\ \A e \in events : e.block <= cache'.hi
      BY <2>1, <2>6 DEF ReportOK
    <3> QED
      BY <3>1, AggregateOfVotes
  <2> QED
    BY <2>1, <2>5, <2>6
<1>3. CompleteIsExact'
  <2>1. report # NoReport /\ report.complete => cache # NoReport /\ cache.complete
    BY DEF ReportOK
  <2> QED
    BY <2>1 DEF CompleteIsExact, UpTo
<1> QED
  BY <1>1, <1>2, <1>3

LEMMA ProgressFails ==
  ASSUME ProgressInv, RefreshFails
  PROVE  ProgressInv'
<1> USE DEF ProgressInv
<1>0. /\ UNCHANGED <<head, events, report>> /\ failures' \in 0 .. MaxScanFaults
      /\ head \in Nat
  <2>1. failures \in 0 .. MaxScanFaults /\ failures < MaxScanFaults /\ failures' = failures + 1
        /\ MaxScanFaults \in Nat
    BY ScanAssumption DEF RefreshFails, ScanType
  <2> QED
    BY <2>1, EventBlocks DEF RefreshFails
<1>1. Logs(WindowStart, head)' = Logs(WindowStart, head) /\ (ScanType' <=>
        /\ head \in WindowStart - 1 .. MaxBlock /\ failures' \in 0 .. MaxScanFaults /\ overrun' \in BOOLEAN
        /\ events \subseteq Counted
        /\ cache' = NoReport \/ (cache' \in Cached /\ cache'.hi <= head /\ cache'.from <= head))
  BY <1>0 DEF Logs, ScanType, Counted
<1>2. CASE UNCHANGED <<cache, overrun>>
  <2>1. ScanType' /\ CacheOK'
    BY <1>0, <1>1, <1>2 DEF ScanType, CacheOK, Logs
  <2> QED
    BY <1>0, <1>2, <2>1, CacheMoves
<1>3. ASSUME ~Base, NEW b, cache' = [cache EXCEPT !.votes = @ \cup Logs(ForwardFrom(cache.hi), b)],
             UNCHANGED overrun
      PROVE  ProgressInv'
  <2> DEFINE new == Logs(cache.hi + 1, b)
  <2>1. cache # NoReport /\ cache.complete /\ cache \in Cached /\ cache.hi <= head /\ cache.from <= head
    BY <1>3 DEF Base, ScanType
  <2>2. cache' = [cache EXCEPT !.votes = cache.votes \cup new]
    BY <1>3 DEF ForwardFrom
  <2>3. new \subseteq Vote /\ new \subseteq Logs(WindowStart, head)
        /\ ((\A e \in events : e.block <= cache.hi) => new = {})
    BY <2>1, LogsFacts, ScanReads
  <2> HIDE DEF new
  <2>4. /\ cache' \in Cached /\ cache'.hi = cache.hi /\ cache'.from = cache.from
        /\ cache'.votes = cache.votes \cup new /\ cache'.complete = cache.complete
    BY <2>1, <2>2, <2>3 DEF Cached
  <2>5. cache' # NoReport
    BY <2>4, NoReportAssumption
  <2>6. ScanType'
    BY <1>0, <1>1, <1>3, <2>1, <2>4 DEF ScanType
  <2>7. CacheOK'
    <3>1. Logs(WindowStart, cache.hi)' = Logs(WindowStart, cache.hi)
      BY <1>0, <2>4 DEF Logs
    <3> QED
      BY <1>1, <1>3, <2>1, <2>3, <2>4, <3>1 DEF CacheOK
  <2> QED
    BY <1>0, <1>3, <2>1, <2>3, <2>4, <2>5, <2>6, <2>7, CacheMoves
<1>4. CASE /\ cache' = Scanned
           /\ overrun' = (IF Base THEN FALSE ELSE overrun \/ ForwardTo(cache.hi) < head)
  <2>1. overrun' \in BOOLEAN
    BY <1>4 DEF ScanType
  <2>2. ScanType' /\ cache' # NoReport /\ cache'.hi = head
    BY <1>0, <1>4, <2>1, ScannedCached
  <2>3. /\ cache'.votes \subseteq Logs(WindowStart, head)
        /\ cache'.complete /\ ~overrun' => cache'.votes = Logs(WindowStart, head)
    BY <1>4, ScanReads
  <2>4. CacheOK'
    BY <1>0, <1>1, <2>2, <2>3 DEF CacheOK
  <2>5. ASSUME cache # NoReport, cache.complete
        PROVE  /\ cache'.complete /\ cache.votes \subseteq cache'.votes
               /\ overrun => overrun'
               /\ (\A e \in events : e.block <= cache.hi) => cache'.votes = cache.votes
    <3>1. ~Base
      BY <2>5 DEF Base
    <3>2. cache'.votes = cache.votes \cup Logs(cache.hi + 1, ForwardTo(cache.hi)) /\ cache'.complete
      BY <1>4, <2>5, <3>1, ScannedFacts
    <3>3. (\A e \in events : e.block <= cache.hi) => Logs(cache.hi + 1, ForwardTo(cache.hi)) = {}
      BY <2>5, ScanReads
    <3> QED
      BY <1>4, <3>1, <3>2, <3>3
  <2>6. \A e \in events : e.block <= cache'.hi
    BY <2>2, EventBlocks
  <2> QED
    BY <1>0, <2>2, <2>4, <2>5, <2>6, CacheMoves
<1> QED
  BY <1>2, <1>3, <1>4 DEF RefreshFails

(* Readers follows one part: for each, a step is its own or none.          *)
LEMMA ProgressAlone ==
  ASSUME [Next]_vars
  PROVE  ProgressNext \/ UNCHANGED progressVars
BY DEF Next, vars, progressVars

LEMMA ProgressStep ==
  ASSUME ProgressInv, [Next]_vars
  PROVE  ProgressInv'
<1>1. CASE ProgressNext
  BY <1>1, ProgressExtends, ProgressRefreshes, ProgressFails DEF ProgressNext
<1>2. CASE UNCHANGED progressVars
  <2>1. UNCHANGED <<head, events, cache, report, overrun, failures>>
    BY <1>2 DEF progressVars
  <2> QED
    BY <2>1 DEF ProgressInv, ScanType, Counted, VotesOK, CacheOK, Logs, ReportOK, FloorIsSound, Finalized,
                CompleteIsExact, UpTo
<1> QED
  BY <1>1, <1>2, ProgressAlone

LEMMA ProgressAlways == Spec => []ProgressInv
<1>1. Init => ProgressInv
  BY ProgressStarts DEF Init
<1>2. ProgressInv /\ [Next]_vars => ProgressInv'
  BY ProgressStep
<1> QED
  BY <1>1, <1>2, PTL DEF Spec

(* _aggregate over a partial scan: whatever was missed, failed or cached,  *)
(* no finality and no signer is narrated that the chain does not have.     *)
THEOREM FloorIsSoundHolds == Spec => []FloorIsSound
<1>1. ProgressInv => FloorIsSound
  BY DEF ProgressInv
<1> QED
  BY <1>1, ProgressAlways, PTL

(* refresh_signing_progress: a progress narrated as complete is the        *)
(* chain's, unless a forward scan ran out of requests.                     *)
THEOREM CompleteIsExactHolds == Spec => []CompleteIsExact
<1>1. ProgressInv => CompleteIsExact
  BY DEF ProgressInv
<1> QED
  BY <1>1, ProgressAlways, PTL

(* Between complete narrations the weight only grows and finality stays,   *)
(* overrun or not: once final, nothing is left to read.                    *)
LEMMA GrowsStep ==
  ASSUME ProgressInv, ProgressNext, report # NoReport, report.complete, report'.complete, report' # report
  PROVE  report'.weight >= report.weight /\ (report.finalized => report'.finalized)
<1> USE DEF ProgressInv
<1> DEFINE c == Scanned
           a == Aggregate(c)
<1>1. Refresh /\ report' = a
  BY DEF ProgressNext, Extend, RefreshFails, Refresh
<1>2. cache # NoReport /\ cache.complete /\ ~Base /\ report.weight \in Nat
  BY DEF ReportOK, Base
<1>3. c \in Cached /\ c.votes = cache.votes \cup Logs(cache.hi + 1, ForwardTo(cache.hi))
  BY <1>2, ScannedFacts
<1>4. a.weight \in Nat /\ \A g : TotalOf(SignersOf(c.votes, g)) <= a.weight
  BY <1>3, AggregateFacts
<1>5. PICK h : report.weight <= TotalOf(SignersOf(cache.votes, h))
  BY <1>2 DEF ReportOK
<1>6. SignersOf(cache.votes, h) \subseteq SignersOf(c.votes, h)
  BY <1>3, SignersMono
<1>7. /\ TotalOf(SignersOf(cache.votes, h)) \in Nat /\ TotalOf(SignersOf(c.votes, h)) \in Nat
      /\ TotalOf(SignersOf(cache.votes, h)) <= TotalOf(SignersOf(c.votes, h))
  BY <1>6, WeightMono
<1>8. ASSUME report.finalized PROVE a.finalized
  <2>1. Aggregate(cache).finalized /\ \A e \in events : e.block <= cache.hi
    BY <1>8 DEF ReportOK
  <2>2. Logs(cache.hi + 1, ForwardTo(cache.hi)) = {}
    BY <1>2, <2>1, ScanReads
  <2>3. c.votes = cache.votes
    BY <1>3, <2>2
  <2> QED
    BY <2>1, <2>3, AggregateOfVotes
<1>9. TotalOf(SignersOf(c.votes, h)) <= a.weight
  BY <1>4
<1> HIDE DEF c, a
<1> QED
  BY <1>1, <1>2, <1>4, <1>5, <1>7, <1>8, <1>9

(* The narration an operator follows never goes back.                      *)
THEOREM ProgressGrowsHolds == Spec => ProgressGrows
<1>1. ProgressInv /\ [Next]_vars =>
        [report # NoReport /\ report.complete /\ report'.complete =>
           report'.weight >= report.weight /\ (report.finalized => report'.finalized)]_report
  <2> SUFFICES ASSUME ProgressInv, [Next]_vars, report # NoReport, report.complete, report'.complete,
                      report' # report
               PROVE  report'.weight >= report.weight /\ (report.finalized => report'.finalized)
    OBVIOUS
  <2>1. ProgressNext
    BY ProgressAlone DEF progressVars
  <2> QED
    BY <2>1, GrowsStep
<1> QED
  BY <1>1, ProgressAlways, PTL DEF Spec, ProgressGrows
-----------------------------------------------------------------------------
(***************************************************************************)
(* The registration daemon.                                                *)
(***************************************************************************)
(* The chain keeps its window and flips within MaxLate of the boundary.    *)
WorldOK ==
  /\ RegTypeOK
  /\ flipped <= Boundary - EpochTicks + MaxLate /\ (epoch > 0 => flipped >= Boundary - EpochTicks)
  /\ clock <= Boundary + MaxLate
  /\ IF window THEN clock >= Boundary - WindowTicks ELSE clock <= Boundary - WindowTicks

(* A reading lasts less than two ticks, so at most one flip falls into it. *)
ReadingOK ==
  rpc = "reading" =>
    /\ wake <= clock /\ clock <= wake + 1
    /\ \E r \in {epoch - 1, epoch} :
         /\ r \in Nat /\ (r < epoch => wake <= flipped)
         /\ reading = [NoReading EXCEPT !.epoch = r, !.ttb = (r + 1) * EpochTicks - wake]

(* Before a line about the next epoch is logged, the daemon is never       *)
(* asleep past the first tight interval of the window.                     *)
WatchOK ==
  epoch + 1 \notin registered \cup warned /\ epoch \notin blind => wake <= Boundary - WindowTicks + Tight

(* Until an exclusion is on file, the next look is one long sleep away.    *)
AlarmOK ==
  epoch \notin registered /\ Severity(status) # "CRIT" => wake <= flipped + Far \/ wake <= raised + Far

RegInv == WorldOK /\ ReadingOK /\ WatchOK /\ AlarmOK /\ WindowWatched

LEMMA BoundaryFacts ==
  ASSUME epoch \in Nat
  PROVE  /\ Boundary \in Nat /\ Boundary >= EpochTicks /\ Boundary >= epoch + 1
         /\ (epoch' = epoch => Boundary' = Boundary)
         /\ (epoch' = epoch + 1 => Boundary' = Boundary + EpochTicks)
         /\ Boundary = (epoch + 1) * EpochTicks /\ epoch * EpochTicks = Boundary - EpochTicks
<1>1. EpochTicks \in Nat /\ EpochTicks >= 1
  BY RegistrationAssumption
<1>2. \A n \in Nat : /\ n * EpochTicks \in Nat /\ n * EpochTicks >= n
                     /\ (n + 1) * EpochTicks = n * EpochTicks + EpochTicks
  BY <1>1
<1>3. /\ (epoch + 1) * EpochTicks \in Nat /\ (epoch + 1) * EpochTicks >= epoch + 1
      /\ (epoch + 1) * EpochTicks = epoch * EpochTicks + EpochTicks
      /\ epoch * EpochTicks \in Nat
      /\ (epoch + 1 + 1) * EpochTicks = (epoch + 1) * EpochTicks + EpochTicks
  BY <1>2
<1> QED
  BY <1>1, <1>3 DEF Boundary

LEMMA Intervals ==
  /\ {EpochTicks, Far, Tight, WindowTicks, TightWindow, MaxLate, MaxClock, MaxTrouble} \subseteq Nat
  /\ Tight >= 1 /\ Tight < Far /\ Tight + 1 < WindowTicks /\ Far + WindowTicks <= TightWindow
  /\ MaxLate + Far + WindowTicks < EpochTicks
BY RegistrationAssumption

(* The sleep is one of two, and tight near an unregistered boundary.       *)
LEMMA SleepFacts ==
  ASSUME NEW s, s.ttb \in Int
  PROVE  /\ SleepFor(s) \in {Tight, Far}
         /\ (~s.next /\ s.ttb <= TightWindow => SleepFor(s) = Tight)
BY UnknownAssumption DEF SleepFor

LEMMA SleepInterval == ASSUME NEW s PROVE SleepFor(s) \in {Tight, Far}
BY DEF SleepFor

(* What a cycle that ends leaves behind, whatever it read.                 *)
LEMMA CycleEnds ==
  ASSUME RegInv, rpc = "reading", NEW s, NEW r \in {epoch - 1, epoch}, r \in Nat, r < epoch => wake <= flipped,
         s.ttb = (r + 1) * EpochTicks - wake, s.next => r + 1 \in registered, s.error \in BOOLEAN,
         r = epoch /\ epoch \notin registered => Severity(s) = "CRIT",
         r = epoch /\ window /\ epoch + 1 \notin registered => Severity(s) # "OK",
         Conclude(s), UNCHANGED <<regChain, blind>>, trouble' \in 0 .. MaxTrouble
  PROVE  RegInv'
<1> USE DEF RegInv
<1>1. /\ clock \in Nat /\ clock <= MaxClock /\ flipped \in Nat /\ flipped <= clock
      /\ epoch \in Nat /\ epoch <= clock /\ wake \in Nat /\ wake <= clock /\ clock <= wake + 1
  BY DEF WorldOK, RegTypeOK, ReadingOK
<1>2. /\ Boundary \in Nat /\ epoch * EpochTicks = Boundary - EpochTicks
      /\ Boundary = (epoch + 1) * EpochTicks /\ Boundary' = Boundary
  BY <1>1, BoundaryFacts DEF regChain
<1>3. SleepFor(s) \in Nat /\ SleepFor(s) \in {Tight, Far} /\ SleepFor(s) <= Far /\ SleepFor(s) >= 1
  BY SleepInterval, Intervals
<1>4. r + 1 \in registered \/ SleepFor(s) = Tight \/ s.ttb > TightWindow
  <2>1. s.ttb \in Int
    <3>1. r = epoch \/ r + 1 = epoch
      BY <1>1
    <3>2. (r + 1) * EpochTicks \in Int
      BY <3>1, <1>2, Intervals
    <3> QED
      BY <3>2, <1>1
  <2> QED
    BY <2>1, SleepFacts, Intervals
<1>5. /\ rpc' = "asleep" /\ reading' = NoReading /\ status' = s /\ wake' = clock + SleepFor(s)
      /\ warned' = IF window /\ Severity(s) # "OK" THEN warned \cup {epoch + 1} ELSE warned
  BY DEF Conclude
<1>6. /\ clock' = clock /\ flipped' = flipped /\ epoch' = epoch /\ window' = window
      /\ registered' = registered /\ gas' = gas /\ entity' = entity /\ weight' = weight /\ blind' = blind
      /\ raised' = raised /\ raised \in 0 .. clock
  BY DEF regChain, Conclude, WorldOK, RegTypeOK
<1>7. WorldOK'
  <2>1. RegTypeOK'
    <3>1. wake' \in 0 .. clock' + Far /\ clock' <= wake'
      BY <1>1, <1>3, <1>5, <1>6, Intervals
    <3>2. warned' \subseteq 0 .. epoch' + 1
      BY <1>1, <1>5, <1>6 DEF WorldOK, RegTypeOK
    <3>3. reading'.error = FALSE
      BY <1>5 DEF NoReading
    <3> QED
      BY <3>1, <3>2, <3>3, <1>5, <1>6 DEF WorldOK, RegTypeOK
  <2> QED
    BY <2>1, <1>2, <1>6 DEF WorldOK
<1>8. ReadingOK'
  BY <1>5 DEF ReadingOK
<1>9. WatchOK'
  <2> SUFFICES ASSUME epoch + 1 \notin registered, epoch + 1 \notin warned'
               PROVE  clock + SleepFor(s) <= Boundary - WindowTicks + Tight
    BY <1>2, <1>5, <1>6 DEF WatchOK
  <2>1. CASE r < epoch
    <3>1. wake <= Boundary - EpochTicks + MaxLate
      BY <2>1, <1>1, <1>2, Intervals DEF WorldOK
    <3> QED
      BY <3>1, <1>1, <1>2, <1>3, Intervals
  <2>2. CASE r = epoch
    <3>1. ~window
      BY <2>2, <1>5
    <3>2. clock <= Boundary - WindowTicks
      BY <3>1 DEF WorldOK
    <3>3. CASE SleepFor(s) = Tight
      BY <3>2, <3>3, <1>1, <1>2, Intervals
    <3>4. CASE s.ttb > TightWindow
      <4>1. Boundary - wake > TightWindow
        BY <2>2, <3>4, <1>2
      <4> QED
        BY <4>1, <1>1, <1>2, <1>3, Intervals
    <3> QED
      BY <3>3, <3>4, <1>4, <2>2
  <2> QED
    BY <2>1, <2>2, <1>1
<1>10. AlarmOK'
  <2> SUFFICES ASSUME epoch \notin registered, Severity(s) # "CRIT"
               PROVE  clock + SleepFor(s) <= flipped + Far
    BY <1>5, <1>6 DEF AlarmOK
  <2>1. r = epoch - 1 /\ r + 1 = epoch /\ wake <= flipped /\ epoch > 0
    BY <1>1
  <2>2. s.ttb <= 1
    <3>1. s.ttb = Boundary - EpochTicks - wake
      BY <2>1, <1>2
    <3>2. flipped >= Boundary - EpochTicks
      BY <2>1 DEF WorldOK
    <3> QED
      BY <3>1, <3>2, <1>1, <1>2, Intervals
  <2>3. SleepFor(s) = Tight
    <3>1. s.ttb \in Int /\ s.ttb <= TightWindow
      BY <2>1, <2>2, <1>1, <1>2, Intervals
    <3> QED
      BY <3>1, <2>1, SleepFacts
  <2> QED
    BY <2>1, <2>3, <1>1, Intervals
<1>11. WindowWatched'
  BY <1>5, <1>6 DEF WindowWatched
<1> QED
  BY <1>7, <1>8, <1>9, <1>10, <1>11

LEMMA RegInitOK == RegInit => RegInv
<1> SUFFICES ASSUME RegInit PROVE RegInv
  OBVIOUS
<1> USE DEF RegInit
<1>1. /\ Boundary \in Nat /\ Boundary = EpochTicks /\ Boundary >= 1
  BY BoundaryFacts, Intervals DEF Boundary
<1>2. WorldOK
  <2>1. registered \subseteq 0 .. epoch + 1
    OBVIOUS
  <2>2. reading.error = FALSE /\ status.error \in BOOLEAN
    BY DEF NoReading
  <2>3. 0 \in 0 .. MaxClock /\ 0 \in 0 .. MaxTrouble /\ 0 \in 0 .. 0 + Far
    BY Intervals
  <2>4. /\ clock \in 0 .. MaxClock /\ flipped \in 0 .. clock /\ epoch \in 0 .. clock
        /\ wake \in 0 .. clock + Far /\ clock <= wake /\ trouble \in 0 .. MaxTrouble
    BY <2>3
  <2>5. /\ window \in BOOLEAN /\ gas \in {"low", "nearing", "fine"} /\ entity \in BOOLEAN /\ weight \in BOOLEAN
        /\ rpc \in {"asleep", "reading"} /\ warned \subseteq 0 .. epoch + 1 /\ blind \subseteq 0 .. epoch
    OBVIOUS
  <2>6. raised \in 0 .. clock
    BY <2>4
  <2>7. RegTypeOK
    BY <2>1, <2>2, <2>4, <2>5, <2>6 DEF RegTypeOK
  <2> QED
    BY <2>7, <1>1, Intervals DEF WorldOK
<1>3. WatchOK /\ AlarmOK
  BY <1>1, Intervals DEF WatchOK, AlarmOK
<1>4. ReadingOK /\ WindowWatched
  BY DEF ReadingOK, WindowWatched
<1> QED
  BY <1>2, <1>3, <1>4 DEF RegInv

(* The world moves between two looks; a flip ends the epoch's watch.       *)
LEMMA WorldMoves ==
  ASSUME RegInv, Tick \/ OpenWindow \/ Register \/ Degrade
  PROVE  RegInv'
<1> USE DEF RegInv
<1>1. /\ clock \in Nat /\ clock <= MaxClock /\ flipped \in Nat /\ flipped <= clock
      /\ epoch \in Nat /\ epoch <= clock /\ wake \in Nat /\ wake <= clock + Far
  BY Intervals DEF WorldOK, RegTypeOK
<1>2. epoch' = epoch /\ flipped' = flipped /\ UNCHANGED regDaemon
  BY DEF Tick, OpenWindow, Register, Degrade
<1>3. Boundary \in Nat /\ Boundary' = Boundary
  BY <1>1, <1>2, BoundaryFacts
<1>4. registered \subseteq registered' /\ registered' \subseteq 0 .. epoch + 1
  <2>1. registered' = registered \/ registered' = registered \cup {epoch + 1}
    BY DEF Tick, OpenWindow, Register, Degrade
  <2>2. registered \subseteq 0 .. epoch + 1
    BY DEF WorldOK, RegTypeOK
  <2>3. epoch + 1 \in 0 .. epoch + 1
    BY <1>1
  <2> QED
    BY <2>1, <2>2, <2>3
<1>5. trouble' \in 0 .. MaxTrouble
  BY Intervals DEF Tick, OpenWindow, Register, Degrade, Trouble, WorldOK, RegTypeOK
<1>6. gas' \in {"low", "nearing", "fine"} /\ entity' \in BOOLEAN /\ weight' \in BOOLEAN /\ window' \in BOOLEAN
  BY DEF Tick, OpenWindow, Register, Degrade, WorldOK, RegTypeOK
<1>7. \/ clock' = clock
      \/ /\ clock' = clock + 1 /\ clock < MaxClock /\ clock < Boundary + MaxLate /\ window' = window
         /\ clock >= Boundary - WindowTicks => window
         /\ clock < wake \/ (rpc = "reading" /\ clock = wake)
  BY DEF Tick, OpenWindow, Register, Degrade
<1>8. window' = window \/ (window' /\ clock >= Boundary - WindowTicks /\ clock' = clock)
  BY DEF Tick, OpenWindow, Register, Degrade
<1>9. /\ rpc' = rpc /\ wake' = wake /\ reading' = reading /\ status' = status
      /\ warned' = warned /\ blind' = blind /\ raised' = raised /\ raised \in 0 .. clock
  BY <1>2 DEF regDaemon, WorldOK, RegTypeOK
<1>10. WorldOK'
  <2>1. /\ clock' \in 0 .. MaxClock /\ flipped' \in 0 .. clock' /\ epoch' \in 0 .. clock'
        /\ raised' \in 0 .. clock'
    BY <1>1, <1>2, <1>7, <1>9, Intervals
  <2>2. wake' \in 0 .. clock' + Far /\ (rpc' = "asleep" => clock' <= wake')
    BY <1>1, <1>7, <1>9, Intervals DEF WorldOK, RegTypeOK
  <2>3. RegTypeOK'
    BY <2>1, <2>2, <1>2, <1>4, <1>5, <1>6, <1>9 DEF WorldOK, RegTypeOK
  <2>4. clock' <= Boundary + MaxLate
    BY <1>1, <1>3, <1>7, Intervals DEF WorldOK
  <2>5. IF window' THEN clock' >= Boundary - WindowTicks ELSE clock' <= Boundary - WindowTicks
    BY <1>1, <1>3, <1>7, <1>8, Intervals DEF WorldOK
  <2> QED
    BY <2>3, <2>4, <2>5, <1>2, <1>3 DEF WorldOK
<1>11. ReadingOK'
  BY <1>1, <1>2, <1>7, <1>9 DEF ReadingOK
<1>12. WatchOK' /\ AlarmOK' /\ WindowWatched'
  BY <1>2, <1>3, <1>4, <1>9 DEF WatchOK, AlarmOK, WindowWatched
<1> QED
  BY <1>10, <1>11, <1>12

LEMMA FlipKeeps == ASSUME RegInv, Flip PROVE RegInv'
<1> USE DEF RegInv
<1>1. /\ clock \in Nat /\ clock <= MaxClock /\ flipped \in Nat /\ flipped <= clock
      /\ epoch \in Nat /\ epoch <= clock /\ wake \in Nat /\ wake <= clock + Far
      /\ (rpc = "asleep" => clock <= wake) /\ rpc \in {"asleep", "reading"}
  BY Intervals DEF WorldOK, RegTypeOK
<1>2. /\ clock >= Boundary /\ epoch' = epoch + 1 /\ flipped' = clock /\ clock' = clock
      /\ window' = FALSE /\ weight' = TRUE
      /\ UNCHANGED <<registered, gas, entity, trouble, regDaemon>>
  BY DEF Flip
<1>3. /\ Boundary \in Nat /\ Boundary' = Boundary + EpochTicks /\ Boundary >= epoch + 1
      /\ Boundary = (epoch + 1) * EpochTicks
  BY <1>1, <1>2, BoundaryFacts
<1>4. /\ rpc' = rpc /\ wake' = wake /\ reading' = reading /\ status' = status
      /\ warned' = warned /\ blind' = blind /\ registered' = registered
      /\ gas' = gas /\ entity' = entity /\ trouble' = trouble
      /\ raised' = raised /\ raised \in 0 .. clock
  BY <1>2 DEF regDaemon, WorldOK, RegTypeOK
<1>5. WorldOK'
  <2>1. registered' \subseteq 0 .. epoch' + 1 /\ warned' \subseteq 0 .. epoch' + 1 /\ blind' \subseteq 0 .. epoch'
    BY <1>1, <1>2, <1>4 DEF WorldOK, RegTypeOK
  <2>2. clock' \in 0 .. MaxClock /\ flipped' \in 0 .. clock' /\ epoch' \in 0 .. clock'
    BY <1>1, <1>2, <1>3, Intervals
  <2>3. wake' \in 0 .. clock' + Far /\ (rpc' = "asleep" => clock' <= wake')
    BY <1>1, <1>2, <1>4, Intervals
  <2>4. RegTypeOK'
    BY <2>1, <2>2, <2>3, <1>2, <1>4 DEF WorldOK, RegTypeOK
  <2>5. clock <= Boundary + MaxLate
    BY DEF WorldOK
  <2>6. /\ clock <= Boundary' - EpochTicks + MaxLate /\ clock >= Boundary' - EpochTicks
        /\ clock <= Boundary' + MaxLate /\ clock <= Boundary' - WindowTicks
    BY <2>5, <1>1, <1>2, <1>3, Intervals
  <2> QED
    BY <2>4, <2>6, <1>2 DEF WorldOK
<1>6. ASSUME rpc = "reading"
      PROVE  /\ wake <= clock /\ clock <= wake + 1
             /\ reading = [NoReading EXCEPT !.epoch = epoch, !.ttb = (epoch + 1) * EpochTicks - wake]
  <2>1. PICK r \in {epoch - 1, epoch} :
          /\ r \in Nat /\ (r < epoch => wake <= flipped) /\ wake <= clock /\ clock <= wake + 1
          /\ reading = [NoReading EXCEPT !.epoch = r, !.ttb = (r + 1) * EpochTicks - wake]
    BY <1>6 DEF ReadingOK
  <2>2. r = epoch
    <3>1. flipped <= Boundary - EpochTicks + MaxLate
      BY DEF WorldOK
    <3> QED
      BY <3>1, <2>1, <1>1, <1>2, <1>3, Intervals
  <2> QED
    BY <2>1, <2>2
<1>7. ReadingOK'
  <2> SUFFICES ASSUME rpc = "reading" PROVE ReadingOK'
    BY <1>4 DEF ReadingOK
  <2>1. epoch = epoch' - 1 /\ epoch \in Nat /\ wake' <= flipped'
    BY <1>1, <1>2, <1>4, <1>6
  <2> QED
    BY <2>1, <1>2, <1>4, <1>6 DEF ReadingOK
<1>8. clock <= wake + 1
  BY <1>1, <1>6
<1>9. WatchOK'
  <2>1. wake' <= Boundary' - WindowTicks + Tight
    <3>1. clock <= Boundary + MaxLate
      BY DEF WorldOK
    <3> QED
      BY <3>1, <1>1, <1>3, <1>4, Intervals
  <2> QED
    BY <2>1 DEF WatchOK
<1>10. AlarmOK'
  BY <1>1, <1>2, <1>4, Intervals DEF AlarmOK
<1>11. WindowWatched'
  <2> SUFFICES ASSUME epoch + 1 \notin registered, epoch + 1 \notin warned, epoch \notin blind
               PROVE  FALSE
    BY <1>1, <1>2, <1>4 DEF WindowWatched
  <2>1. wake <= Boundary - WindowTicks + Tight
    BY DEF WatchOK
  <2> QED
    BY <2>1, <1>1, <1>2, <1>3, <1>8, Intervals
<1> QED
  BY <1>5, <1>7, <1>9, <1>10, <1>11

LEMMA ReadEpochKeeps == ASSUME RegInv, ReadEpoch PROVE RegInv'
<1> USE DEF RegInv
<1>1. /\ rpc' = "reading" /\ clock = wake /\ UNCHANGED <<regChain, trouble, wake, status, warned, blind, raised>>
      /\ reading' = [NoReading EXCEPT !.epoch = epoch, !.ttb = Boundary - clock]
  BY DEF ReadEpoch
<1>2. /\ clock' = clock /\ flipped' = flipped /\ epoch' = epoch /\ window' = window
      /\ registered' = registered /\ gas' = gas /\ entity' = entity /\ weight' = weight
      /\ trouble' = trouble /\ wake' = wake /\ status' = status /\ warned' = warned /\ blind' = blind
      /\ raised' = raised
  BY <1>1 DEF regChain
<1>3. clock \in Nat /\ epoch \in Nat
  BY DEF WorldOK, RegTypeOK
<1>4. Boundary' = Boundary /\ Boundary = (epoch + 1) * EpochTicks
  BY <1>2, <1>3, BoundaryFacts
<1>5. WorldOK'
  <2>1. reading'.error = FALSE
    BY <1>1 DEF NoReading
  <2>2. RegTypeOK'
    BY <2>1, <1>1, <1>2 DEF WorldOK, RegTypeOK
  <2> QED
    BY <2>2, <1>2, <1>4 DEF WorldOK
<1>6. ReadingOK'
  <2>1. epoch \in {epoch' - 1, epoch'} /\ epoch \in Nat /\ ~(epoch < epoch') /\ clock <= wake + 1 /\ wake <= clock
    BY <1>1, <1>2, <1>3
  <2> QED
    BY <2>1, <1>1, <1>2, <1>4 DEF ReadingOK
<1>7. WatchOK' /\ AlarmOK' /\ WindowWatched'
  BY <1>2, <1>4 DEF WatchOK, AlarmOK, WindowWatched
<1> QED
  BY <1>5, <1>6, <1>7

(* A cycle that fails before the boundary is known: CRIT, and blind.       *)
LEMMA ReadEpochFailsKeeps == ASSUME RegInv, ReadEpochFails PROVE RegInv'
<1> USE DEF RegInv
<1> DEFINE s == [NoReading EXCEPT !.error = TRUE]
<1>1. /\ clock = wake /\ Conclude(s) /\ Trouble("rpc") /\ blind' = blind \cup {epoch} /\ UNCHANGED regChain
  BY DEF ReadEpochFails
<1>2. s.error = TRUE
  BY DEF NoReading
<1> HIDE DEF s
<1>3. Severity(s) = "CRIT"
  BY <1>2 DEF Severity
<1>4. SleepFor(s) \in Nat /\ SleepFor(s) <= Far /\ SleepFor(s) >= 1
  BY SleepInterval, Intervals
<1>5. /\ rpc' = "asleep" /\ reading' = NoReading /\ status' = s /\ wake' = clock + SleepFor(s)
      /\ warned' = IF window THEN warned \cup {epoch + 1} ELSE warned
  BY <1>1, <1>3 DEF Conclude
<1>6. /\ clock' = clock /\ flipped' = flipped /\ epoch' = epoch /\ window' = window
      /\ registered' = registered /\ gas' = gas /\ entity' = entity /\ weight' = weight
      /\ raised' = raised /\ raised \in 0 .. clock
  BY <1>1 DEF regChain, Conclude, WorldOK, RegTypeOK
<1>7. clock \in Nat /\ epoch \in Nat /\ trouble' \in 0 .. MaxTrouble
  BY <1>1, Intervals DEF WorldOK, RegTypeOK, Trouble
<1>8. Boundary' = Boundary
  BY <1>6, <1>7, BoundaryFacts
<1>9. WorldOK'
  <2>1. wake' \in 0 .. clock' + Far /\ clock' <= wake'
    BY <1>4, <1>5, <1>6, <1>7, Intervals
  <2>2. warned' \subseteq 0 .. epoch' + 1
    <3>1. warned \subseteq 0 .. epoch + 1 /\ epoch + 1 \in 0 .. epoch + 1
      BY <1>7 DEF WorldOK, RegTypeOK
    <3> QED
      BY <3>1, <1>5, <1>6
  <2>3. blind' \subseteq 0 .. epoch'
    <3>1. blind \subseteq 0 .. epoch /\ epoch \in 0 .. epoch
      BY <1>7 DEF WorldOK, RegTypeOK
    <3> QED
      BY <3>1, <1>1, <1>6
  <2>4. reading'.error = FALSE /\ status'.error \in BOOLEAN
    BY <1>2, <1>5 DEF NoReading
  <2>5. RegTypeOK'
    BY <2>1, <2>2, <2>3, <2>4, <1>5, <1>6, <1>7 DEF WorldOK, RegTypeOK
  <2> QED
    BY <2>5, <1>6, <1>8 DEF WorldOK
<1>10. ReadingOK' /\ WatchOK' /\ AlarmOK'
  BY <1>1, <1>3, <1>5, <1>6 DEF ReadingOK, WatchOK, AlarmOK
<1>11. WindowWatched'
  BY <1>1, <1>5, <1>6 DEF WindowWatched
<1> QED
  BY <1>9, <1>10, <1>11

(* A cycle that reaches the end, or fails on its way there.                *)
LEMMA ReadRestKeeps == ASSUME RegInv, ReadRest \/ ReadRestFails PROVE RegInv'
<1> USE DEF RegInv
<1>1. rpc = "reading" /\ epoch \in Nat
  BY DEF ReadRest, ReadRestFails, WorldOK, RegTypeOK
<1>2. PICK r \in {epoch - 1, epoch} :
        /\ r \in Nat /\ (r < epoch => wake <= flipped)
        /\ reading = [NoReading EXCEPT !.epoch = r, !.ttb = (r + 1) * EpochTicks - wake]
  BY <1>1 DEF ReadingOK
<1>3. /\ reading.epoch = r /\ reading.ttb = (r + 1) * EpochTicks - wake /\ reading.next = FALSE
      /\ reading.current = FALSE /\ reading.open = FALSE /\ reading.error = FALSE
      /\ reading = [epoch |-> reading.epoch, ttb |-> reading.ttb, current |-> reading.current,
                    open |-> reading.open, next |-> reading.next, weight |-> reading.weight,
                    gas |-> reading.gas, entity |-> reading.entity, error |-> reading.error]
  BY <1>2 DEF NoReading
<1>4. UNCHANGED <<regChain, blind>> /\ trouble' \in 0 .. MaxTrouble
  BY Intervals DEF ReadRest, ReadRestFails, Trouble, WorldOK, RegTypeOK
<1>5. PICK s :
        /\ Conclude(s) /\ s.ttb = reading.ttb /\ s.error \in BOOLEAN
        /\ s.next => r + 1 \in registered
        /\ ~s.error => /\ s.current <=> r \in registered
                       /\ s.open <=> window /\ r + 1 = epoch + 1
  <2>1. CASE ReadRest
    <3> DEFINE n == reading.epoch + 1
               s == [reading EXCEPT !.current = reading.epoch \in registered,
                                    !.open    = window /\ n = epoch + 1,
                                    !.next    = n \in registered,
                                    !.weight  = n # epoch + 1 \/ weight,
                                    !.gas     = gas, !.entity = entity]
    <3>1. Conclude(s)
      BY <2>1 DEF ReadRest
    <3>2. /\ s.ttb = reading.ttb /\ s.error = FALSE /\ (s.next <=> r + 1 \in registered)
          /\ (s.current <=> r \in registered) /\ (s.open <=> window /\ r + 1 = epoch + 1)
      BY <1>3
    <3> HIDE DEF s
    <3> QED
      BY <3>1, <3>2
  <2>2. CASE ReadRestFails
    <3> DEFINE s == [reading EXCEPT !.error = TRUE]
               t == [reading EXCEPT !.error = TRUE, !.current = reading.epoch \in registered,
                       !.open = window /\ reading.epoch = epoch, !.next = reading.epoch + 1 \in registered]
    <3>1. Conclude(s) \/ Conclude(t)
      BY <2>2 DEF ReadRestFails
    <3>2. /\ s.ttb = reading.ttb /\ s.error = TRUE /\ s.next = FALSE
          /\ t.ttb = reading.ttb /\ t.error = TRUE /\ (t.next <=> r + 1 \in registered)
      BY <1>3
    <3> HIDE DEF s, t
    <3> QED
      BY <3>1, <3>2
  <2> QED
    BY <2>1, <2>2
<1>6. r = epoch /\ epoch \notin registered => Severity(s) = "CRIT"
  BY <1>5 DEF Severity
<1>7. r = epoch /\ window /\ epoch + 1 \notin registered => Severity(s) # "OK"
  BY <1>5 DEF Severity
<1>8. s.ttb = (r + 1) * EpochTicks - wake /\ s.error \in BOOLEAN /\ Conclude(s)
      /\ (s.next => r + 1 \in registered)
  BY <1>3, <1>5
<1> HIDE DEF RegInv
<1> QED
  BY <1>1, <1>2, <1>4, <1>6, <1>7, <1>8, CycleEnds

(* A cycle that raises: nothing on file, and blind for what it looked at.  *)
LEMMA CycleRaisesKeeps == ASSUME RegInv, CycleRaises PROVE RegInv'
<1> USE DEF RegInv
<1>1. /\ rpc' = "asleep" /\ reading' = NoReading /\ wake' = clock + Far /\ raised' = clock
      /\ clock' = clock /\ flipped' = flipped /\ epoch' = epoch /\ window' = window
      /\ registered' = registered /\ gas' = gas /\ entity' = entity /\ weight' = weight
      /\ status' = status /\ warned' = warned /\ Trouble("raise")
  BY DEF CycleRaises, regChain
<1>2. /\ clock \in Nat /\ clock <= MaxClock /\ flipped \in Nat /\ flipped <= clock
      /\ epoch \in Nat /\ epoch <= clock /\ trouble' \in 0 .. MaxTrouble
  BY <1>1, Intervals DEF WorldOK, RegTypeOK, Trouble
<1>3. /\ Boundary \in Nat /\ Boundary' = Boundary /\ epoch * EpochTicks = Boundary - EpochTicks
      /\ Boundary = (epoch + 1) * EpochTicks
  BY <1>1, <1>2, BoundaryFacts
<1>4. \/ blind' = blind \cup {epoch}
      \/ /\ blind' = blind \cup {epoch - 1} /\ epoch - 1 \in Nat
         /\ wake \in Nat /\ wake <= flipped /\ clock <= wake + 1
  <2>1. CASE rpc = "asleep"
    BY <2>1 DEF CycleRaises
  <2>2. CASE rpc = "reading"
    <3>1. PICK r \in {epoch - 1, epoch} :
            /\ r \in Nat /\ (r < epoch => wake <= flipped) /\ clock <= wake + 1
            /\ reading = [NoReading EXCEPT !.epoch = r, !.ttb = (r + 1) * EpochTicks - wake]
      BY <2>2 DEF ReadingOK
    <3>2. reading.epoch = r /\ blind' = blind \cup {reading.epoch} /\ wake \in Nat
      BY <2>2, <3>1, Intervals DEF CycleRaises, NoReading, WorldOK, RegTypeOK
    <3> QED
      BY <3>1, <3>2, <1>2
  <2> QED
    BY <2>1, <2>2 DEF WorldOK, RegTypeOK
<1>5. WorldOK'
  <2>1. blind' \subseteq 0 .. epoch'
    <3>1. blind \subseteq 0 .. epoch /\ epoch \in 0 .. epoch /\ (epoch - 1 \in Nat => epoch - 1 \in 0 .. epoch)
      BY <1>2 DEF WorldOK, RegTypeOK
    <3> QED
      BY <3>1, <1>1, <1>4
  <2>2. /\ wake' \in 0 .. clock' + Far /\ clock' <= wake' /\ raised' \in 0 .. clock'
    BY <1>1, <1>2, Intervals
  <2>3. reading'.error = FALSE
    BY <1>1 DEF NoReading
  <2>4. RegTypeOK'
    BY <2>1, <2>2, <2>3, <1>1, <1>2 DEF WorldOK, RegTypeOK
  <2> QED
    BY <2>4, <1>1, <1>3 DEF WorldOK
<1>6. ReadingOK' /\ AlarmOK' /\ WindowWatched'
  <2>1. blind \subseteq blind'
    BY <1>4
  <2>2. ReadingOK'
    BY <1>1 DEF ReadingOK
  <2>3. wake' <= raised' + Far
    BY <1>1, <1>2, Intervals
  <2>4. AlarmOK'
    BY <2>3 DEF AlarmOK
  <2>5. WindowWatched'
    BY <2>1, <1>1 DEF WindowWatched
  <2> QED
    BY <2>2, <2>4, <2>5
<1>7. WatchOK'
  <2>1. CASE blind' = blind \cup {epoch}
    BY <2>1, <1>1 DEF WatchOK
  <2>2. CASE wake \in Nat /\ wake <= flipped /\ clock <= wake + 1
    <3>1. flipped <= Boundary - EpochTicks + MaxLate
      BY DEF WorldOK
    <3>2. clock + Far <= Boundary - WindowTicks + Tight
      BY <2>2, <3>1, <1>2, <1>3, Intervals
    <3> QED
      BY <3>2, <1>1, <1>3 DEF WatchOK
  <2> QED
    BY <2>1, <2>2, <1>4
<1> QED
  BY <1>5, <1>6, <1>7

LEMMA RegStep == ASSUME RegInv, RegNext PROVE RegInv'
BY WorldMoves, FlipKeeps, ReadEpochKeeps, ReadEpochFailsKeeps, ReadRestKeeps, CycleRaisesKeeps DEF RegNext

LEMMA RegAlways == Spec => []RegInv
<1>1. Init => RegInv
  BY RegInitOK DEF Init
<1>2. RegInv /\ [Next]_vars => RegInv'
  <2> SUFFICES ASSUME RegInv, [Next]_vars PROVE RegInv'
    OBVIOUS
  <2>1. RegNext \/ UNCHANGED regVars
    BY DEF Next, vars
  <2>2. CASE UNCHANGED regVars
    BY <2>2 DEF RegInv, WorldOK, ReadingOK, WatchOK, AlarmOK, WindowWatched, RegTypeOK, Boundary,
                Severity, GasOk, regVars, regChain, regDaemon
  <2> QED
    BY <2>1, <2>2, RegStep
<1> QED
  BY <1>1, <1>2, PTL DEF Spec

(* An epoch entered unregistered was announced while its window was open,  *)
(* whatever the intervals, however late the chain flipped: unless a        *)
(* reading failed before it knew the boundary, or a cycle raised.          *)
THEOREM WindowWatchedHolds == Spec => []WindowWatched
<1>1. RegInv => WindowWatched
  BY DEF RegInv
<1> QED
  BY <1>1, RegAlways, PTL

(* A live exclusion is CRIT on file one long sleep after the epoch began,  *)
(* or after the last cycle that raised and so wrote nothing.               *)
THEOREM ExclusionOnFileHolds == Spec => []ExclusionOnFile
<1>1. ASSUME RegInv PROVE ExclusionOnFile
  <2> SUFFICES ASSUME epoch \notin registered, Severity(status) # "CRIT"
               PROVE  ~(clock > flipped + Far + 1 /\ clock > raised + Far + 1)
    BY DEF ExclusionOnFile
  <2>1. wake <= flipped + Far \/ wake <= raised + Far
    BY <1>1 DEF RegInv, AlarmOK
  <2>2. clock \in Nat /\ flipped \in Nat /\ raised \in Nat /\ wake \in Nat /\ clock <= wake + 1
    BY <1>1, Intervals DEF RegInv, WorldOK, RegTypeOK, ReadingOK
  <2> QED
    BY <2>1, <2>2, Intervals
<1> QED
  BY <1>1, RegAlways, PTL
-----------------------------------------------------------------------------
(***************************************************************************)
(* The import of credentials.                                              *)
(***************************************************************************)
LinesOK(lines) == \E n \in Nat : DOMAIN lines \subseteq 0 .. n

FilesOK ==
  /\ ImportTypeOK
  /\ env = [n \in Networks |-> env[n]] /\ LinesOK(text) /\ \A n \in Networks : LinesOK(env[n])

(* What a bundle carries is in force, and the import works on the bundle   *)
(* that lies there.                                                        *)
BundleOK ==
  /\ bundle # NoBundle => \A c \in DOMAIN bundle.tokens : bundle.tokens[c] = token[bundle.network][c]
  /\ ~overtaken /\ ipc # "idle" =>
       bundle # NoBundle /\ bundle.network = held.network /\ bundle.tokens = held.tokens
  /\ IF ipc = "write" THEN todo \subseteq Assignments(held) ELSE todo = {}
  /\ ipc = "writing" => env[held.network] = <<>>

(* A token that was minted is the one a file assigns, if it assigns any.   *)
InForce(lines, n, c) ==
  token[n][c] > 0 => IF Assigned(lines, c) # {} THEN Effective(lines, c) = token[n][c] ELSE n \in torn
Carried(n, c) == bundle # NoBundle /\ bundle.network = n /\ c \in DOMAIN bundle.tokens

(* It is revoked only while a bundle carries its successor ...             *)
TokensOK ==
  ~overtaken =>
    /\ \A n \in Networks, c \in Capabilities :
         InForce(env[n], n, c) \/ Carried(n, c) \/ (ipc = "writing" /\ n = held.network)
    /\ ipc \in {"write", "writing"} =>
         \A c \in Capabilities : InForce(text, held.network, c) \/ \E a \in todo : a.name = c
    /\ ipc = "consume" => \A c \in Capabilities : InForce(env[held.network], held.network, c)

(* ... and the operator's settings are in the text about to be written.    *)
Keeps(lines, n) ==
  Assigned(before[n], "own") # {} =>
    Assigned(lines, "own") # {} /\ Effective(lines, "own") = Effective(before[n], "own")
OwnOK ==
  /\ \A n \in Networks \ torn : Keeps(env[n], n) \/ (ipc = "writing" /\ n = held.network)
  /\ ipc \in {"write", "writing"} /\ held.network \notin torn => Keeps(text, held.network)

ImportInv == FilesOK /\ BundleOK /\ TokensOK /\ OwnOK

LEMMA MaxFacts ==
  ASSUME NEW n \in Nat, NEW S, S \subseteq 0 .. n, S # {}
  PROVE  Max(S) \in S /\ \A x \in S : Max(S) >= x
BY GreatestOf DEF Max

LEMMA MinIn == ASSUME NEW S, S \subseteq Nat, S # {} PROVE Min(S) \in S
BY LeastOf DEF Min

(* upsert_env_var: the name is assigned once, the other names as before.   *)
LEMMA UpsertFacts ==
  ASSUME NEW lines, LinesOK(lines), NEW new
  PROVE  /\ LinesOK(Upsert(lines, new))
         /\ Assigned(Upsert(lines, new), new.name) # {}
         /\ Effective(Upsert(lines, new), new.name) = new.value
         /\ \A name : name # new.name =>
              /\ Assigned(Upsert(lines, new), name) = Assigned(lines, name)
              /\ Assigned(lines, name) # {} => Effective(Upsert(lines, new), name) = Effective(lines, name)
<1>1. PICK n \in Nat : DOMAIN lines \subseteq 0 .. n
  BY DEF LinesOK
<1> DEFINE p == LineOf(lines, new.name)
           hits == Assigned(lines, new.name)
           r == Upsert(lines, new)
<1>2. /\ hits \subseteq DOMAIN lines /\ \A i \in DOMAIN lines : i \in hits <=> lines[i].name = new.name
  BY DEF Assigned
<1>3. /\ p \in Nat
      /\ hits = {} => p \notin DOMAIN lines
      /\ hits # {} => p \in hits
  <2>1. CASE hits = {}
    <3>1. /\ DOMAIN lines \cup {0} \subseteq 0 .. n /\ DOMAIN lines \cup {0} # {}
      BY <1>1
    <3>2. /\ Max(DOMAIN lines \cup {0}) \in 0 .. n
          /\ \A x \in DOMAIN lines : Max(DOMAIN lines \cup {0}) >= x /\ x \in 0 .. n
      BY <3>1, MaxFacts
    <3>3. p = Max(DOMAIN lines \cup {0}) + 1
      BY <2>1 DEF LineOf
    <3> QED
      BY <2>1, <3>2, <3>3
  <2>2. CASE hits # {}
    <3>1. hits \subseteq Nat
      BY <1>1, <1>2
    <3>2. p = Min(hits)
      BY <2>2 DEF LineOf
    <3> QED
      BY <2>2, <3>1, <3>2, MinIn
  <2> QED
    BY <2>1, <2>2
<1>4. /\ r = [i \in (DOMAIN lines \ hits) \cup {p} |-> IF i = p THEN new ELSE lines[i]]
  BY DEF Upsert
<1> HIDE DEF p, hits, r
<1>5. /\ DOMAIN r = (DOMAIN lines \ hits) \cup {p} /\ r[p] = new
      /\ \A i \in DOMAIN lines \ hits : i # p /\ r[i] = lines[i]
  BY <1>2, <1>3, <1>4
<1>6. LinesOK(r)
  <2>1. n + p \in Nat /\ DOMAIN r \subseteq 0 .. n + p
    BY <1>1, <1>3, <1>5
  <2> QED
    BY <2>1 DEF LinesOK
<1>7. Assigned(r, new.name) = {p}
  <2>1. \A i \in DOMAIN r : r[i].name = new.name <=> i = p
    BY <1>2, <1>5
  <2> QED
    BY <2>1, <1>5 DEF Assigned
<1>8. Effective(r, new.name) = new.value
  <2>1. Max({p}) = p
    BY <1>3 DEF Max
  <2> QED
    BY <2>1, <1>5, <1>7 DEF Effective
<1>9. ASSUME NEW name, name # new.name
      PROVE  /\ Assigned(r, name) = Assigned(lines, name)
             /\ Assigned(lines, name) # {} => Effective(r, name) = Effective(lines, name)
  <2>1. \A i : i \in Assigned(r, name) <=> i \in DOMAIN lines \ hits /\ lines[i].name = name
    BY <1>5, <1>9 DEF Assigned
  <2>2. \A i : i \in Assigned(lines, name) <=> i \in DOMAIN lines \ hits /\ lines[i].name = name
    BY <1>2, <1>9 DEF Assigned
  <2>3. Assigned(r, name) = Assigned(lines, name)
    BY <2>1, <2>2
  <2>4. ASSUME Assigned(lines, name) # {} PROVE Effective(r, name) = Effective(lines, name)
    <3>1. Assigned(lines, name) \subseteq 0 .. n
      BY <1>1 DEF Assigned
    <3>2. Max(Assigned(lines, name)) \in Assigned(lines, name)
      BY <2>4, <3>1, MaxFacts
    <3>3. r[Max(Assigned(lines, name))] = lines[Max(Assigned(lines, name))]
      BY <3>2, <2>2, <1>5
    <3> QED
      BY <2>3, <3>3 DEF Effective
  <2> QED
    BY <2>3, <2>4
<1> QED
  BY <1>6, <1>7, <1>8, <1>9 DEF r

LEMMA NoLines == LinesOK(<<>>) /\ \A name : Assigned(<<>>, name) = {}
<1>1. DOMAIN <<>> = {}
  OBVIOUS
<1>2. 0 \in Nat /\ DOMAIN <<>> \subseteq 0 .. 0
  BY <1>1
<1> QED
  BY <1>1, <1>2 DEF LinesOK, Assigned

(* The names a bundle governs, each with its value.                        *)
LEMMA AssignmentFacts ==
  ASSUME NEW b \in Bundle
  PROVE  /\ Assignments(b) \subseteq Assignment /\ Assignments(b) # {}
         /\ DOMAIN b.tokens \subseteq Capabilities /\ b.network \in Networks
         /\ \A c \in DOMAIN b.tokens : b.tokens[c] \in 0 .. MaxMint /\ \E a \in Assignments(b) : a.name = c
         /\ \A a \in Assignments(b) :
              /\ a.name # "own"
              /\ a.name \in Capabilities => a.name \in DOMAIN b.tokens /\ a.value = b.tokens[a.name]
<1>1. /\ b.network \in Networks /\ b.network \in Nat /\ MaxMint \in Nat
      /\ "own" \notin Capabilities /\ "config" \notin Capabilities /\ "NETWORK" \notin Capabilities
  BY CredentialsAssumption DEF Bundle
<1>2. PICK caps \in SUBSET Capabilities : b.tokens \in [caps -> 0 .. MaxMint]
  BY DEF Bundle
<1>3. DOMAIN b.tokens = caps /\ \A c \in caps : b.tokens[c] \in 0 .. MaxMint /\ b.tokens[c] \in Nat
  BY <1>1, <1>2
<1>4. ASSUME NEW a \in Assignments(b)
      PROVE  /\ a \in Assignment /\ a.name # "own"
             /\ a.name \in Capabilities => a.name \in DOMAIN b.tokens /\ a.value = b.tokens[a.name]
  <2>1. CASE \E c \in DOMAIN b.tokens : a = [name |-> c, value |-> b.tokens[c]]
    BY <2>1, <1>1, <1>3 DEF Assignment, Names
  <2>2. CASE a = [name |-> "config", value |-> 1]
    BY <2>2, <1>1 DEF Assignment, Names
  <2>3. CASE a = [name |-> "NETWORK", value |-> b.network]
    BY <2>3, <1>1 DEF Assignment, Names
  <2> QED
    BY <2>1, <2>2, <2>3 DEF Assignments
<1>5. ASSUME NEW c \in DOMAIN b.tokens PROVE \E a \in Assignments(b) : a.name = c
  <2>1. [name |-> c, value |-> b.tokens[c]] \in Assignments(b)
    BY DEF Assignments
  <2> QED
    BY <2>1
<1>6. Assignments(b) # {}
  BY DEF Assignments
<1> QED
  BY <1>1, <1>3, <1>4, <1>5, <1>6

LEMMA ImportStarts == ImportInit => ImportInv
<1> SUFFICES ASSUME ImportInit PROVE ImportInv
  OBVIOUS
<1> USE DEF ImportInit
<1>1. MaxMint \in Nat /\ MaxImportFaults \in Nat
  BY CredentialsAssumption
<1>2. \A n \in Networks : LinesOK(env[n])
  <2> SUFFICES ASSUME NEW n \in Networks PROVE LinesOK(env[n])
    OBVIOUS
  <2>1. env[n] \in EnvFiles
    OBVIOUS
  <2>2. Len(env[n]) \in Nat /\ DOMAIN env[n] = 1 .. Len(env[n])
    BY <2>1, CredentialsAssumption
  <2>3. DOMAIN env[n] \subseteq 0 .. Len(env[n])
    BY <2>2
  <2> QED
    BY <2>2, <2>3 DEF LinesOK
<1>3. FilesOK
  <2>1. ImportTypeOK
    <3>1. minted \in 0 .. MaxMint /\ mishaps \in 0 .. MaxImportFaults
      BY <1>1
    <3>2. token \in [Networks -> [Capabilities -> 0 .. minted]]
      OBVIOUS
    <3> QED
      BY <3>1, <3>2 DEF ImportTypeOK
  <2> QED
    BY <2>1, <1>2, NoLines DEF FilesOK
<1>4. BundleOK
  BY DEF BundleOK
<1>5. TokensOK
  BY DEF TokensOK, InForce
<1>6. OwnOK
  BY DEF OwnOK, Keeps
<1> QED
  BY <1>3, <1>4, <1>5, <1>6 DEF ImportInv

(* fwd mints: what it revokes is in the bundle it leaves.                  *)
LEMMA MintKeeps ==
  ASSUME ImportInv, NEW n \in Networks, NEW caps \in SUBSET Capabilities, Mint(n, caps)
  PROVE  ImportInv'
<1> USE DEF ImportInv
<1>1. /\ minted \in Nat /\ MaxMint \in Nat /\ minted < MaxMint /\ minted' = minted + 1 /\ MaxImportFaults \in Nat
      /\ bundle # NoBundle => bundle.network = n /\ DOMAIN bundle.tokens \subseteq caps
      /\ token' = [token EXCEPT ![n] = [c \in Capabilities |-> @[c] + (IF c \in caps THEN 1 ELSE 0)]]
      /\ overtaken' = (overtaken \/ ipc # "idle")
      /\ UNCHANGED <<env, ipc, held, text, todo, before, torn>>
  BY CredentialsAssumption DEF Mint, FilesOK, ImportTypeOK
<1>2. PICK valid \in BOOLEAN, version \in 1 .. 2 :
        /\ IF valid THEN UNCHANGED mishaps ELSE Mishap("flawed")
        /\ bundle' = [network |-> n, version |-> version, valid |-> valid,
                      tokens |-> [c \in caps |-> token'[n][c]]]
  BY DEF Mint
<1>3. token \in [Networks -> [Capabilities -> 0 .. minted]]
  BY DEF FilesOK, ImportTypeOK
<1>4. \A c \in Capabilities : token[n][c] \in 0 .. minted
  BY <1>3
<1>5. /\ token'[n] = [c \in Capabilities |-> token[n][c] + (IF c \in caps THEN 1 ELSE 0)]
      /\ \A m \in Networks \ {n} : token'[m] = token[m]
      /\ DOMAIN token' = Networks
  BY <1>1, <1>3
<1>6. /\ \A c \in Capabilities : token'[n][c] \in 0 .. minted'
      /\ \A c \in Capabilities \ caps : token'[n][c] = token[n][c]
  BY <1>1, <1>4, <1>5
<1>7. token' \in [Networks -> [Capabilities -> 0 .. minted']]
  <2>1. \A m \in Networks \ {n} : token[m] \in [Capabilities -> 0 .. minted + 1]
    <3>1. \A m \in Networks : \A c \in Capabilities : token[m][c] \in 0 .. minted
      BY <1>3
    <3>2. \A m \in Networks : \A c \in Capabilities : token[m][c] \in 0 .. minted + 1
      BY <3>1, <1>1
    <3> QED
      BY <3>2, <1>3
  <2>2. token'[n] \in [Capabilities -> 0 .. minted + 1]
    BY <1>1, <1>5, <1>6
  <2>3. token' = [m \in Networks |-> token'[m]]
    BY <1>1, <1>3
  <2> QED
    BY <2>1, <2>2, <2>3, <1>1, <1>5
<1>8. bundle' \in Bundle
  <2>1. \A c \in caps : token'[n][c] \in 0 .. MaxMint
    BY <1>1, <1>6
  <2>2. [c \in caps |-> token'[n][c]] \in [caps -> 0 .. MaxMint]
    BY <2>1
  <2> DEFINE t == [c \in caps |-> token'[n][c]]
  <2>3. t \in UNION {[k -> 0 .. MaxMint] : k \in SUBSET Capabilities}
    BY <2>2
  <2> HIDE DEF t
  <2>4. bundle' = [network |-> n, version |-> version, valid |-> valid, tokens |-> t]
    BY <1>2 DEF t
  <2> QED
    BY <2>3, <2>4 DEF Bundle
<1>9. /\ bundle' # NoBundle /\ bundle'.network = n /\ DOMAIN bundle'.tokens = caps
      /\ \A c \in caps : bundle'.tokens[c] = token'[n][c]
  BY <1>2, <1>8, CredentialsAssumption
<1>10. FilesOK'
  <2>1. minted' \in 0 .. MaxMint /\ mishaps' \in 0 .. MaxImportFaults /\ overtaken' \in BOOLEAN
    BY <1>1, <1>2 DEF FilesOK, ImportTypeOK, Mishap
  <2>2. ImportTypeOK'
    BY <2>1, <1>1, <1>7, <1>8 DEF FilesOK, ImportTypeOK
  <2> QED
    BY <2>2, <1>1 DEF FilesOK
<1>11. BundleOK'
  BY <1>1, <1>9 DEF BundleOK
<1>12. TokensOK'
  <2> SUFFICES ASSUME ~overtaken, ipc = "idle",
                      NEW m \in Networks, NEW c \in Capabilities, ~Carried(m, c)'
               PROVE  InForce(env[m], m, c)'
    BY <1>1 DEF TokensOK
  <2>1. m # n \/ c \notin caps
    BY <1>9 DEF Carried
  <2>2. token'[m][c] = token[m][c]
    BY <2>1, <1>5, <1>6
  <2>3. ~Carried(m, c)
    BY <2>1, <1>1 DEF Carried
  <2>4. InForce(env[m], m, c)
    BY <2>3 DEF TokensOK
  <2> QED
    BY <2>2, <2>4, <1>1 DEF InForce
<1>13. OwnOK'
  BY <1>1 DEF OwnOK, Keeps
<1> QED
  BY <1>10, <1>11, <1>12, <1>13

LEMMA ExpiryKeeps == ASSUME ImportInv, BundleExpires PROVE ImportInv'
<1> USE DEF ImportInv
<1>1. /\ bundle # NoBundle /\ bundle' = [bundle EXCEPT !.valid = FALSE] /\ Mishap("expired")
      /\ UNCHANGED <<env, token, ipc, held, text, todo, minted, before, torn, overtaken>>
  BY DEF BundleExpires
<1>2. bundle \in Bundle
  BY <1>1 DEF FilesOK, ImportTypeOK
<1>3. /\ bundle' \in Bundle /\ bundle' # NoBundle
      /\ bundle'.network = bundle.network /\ bundle'.tokens = bundle.tokens
  BY <1>1, <1>2, CredentialsAssumption DEF Bundle
<1>4. FilesOK'
  <2>1. mishaps' \in 0 .. MaxImportFaults
    BY <1>1, CredentialsAssumption DEF Mishap, FilesOK, ImportTypeOK
  <2>2. ImportTypeOK'
    BY <2>1, <1>1, <1>3 DEF FilesOK, ImportTypeOK
  <2> QED
    BY <2>2, <1>1 DEF FilesOK
<1>5. BundleOK'
  BY <1>1, <1>3 DEF BundleOK
<1>6. TokensOK'
  <2>1. \A m, c : Carried(m, c)' <=> Carried(m, c)
    BY <1>1, <1>3 DEF Carried
  <2>2. \A lines, m, c : (token'[m][c] = token[m][c] /\ torn' = torn)
    BY <1>1
  <2> QED
    BY <2>1, <1>1 DEF TokensOK, InForce
<1>7. OwnOK'
  BY <1>1 DEF OwnOK, Keeps
<1> QED
  BY <1>4, <1>5, <1>6, <1>7

(* An import starts from the current file, which lacks what the bundle     *)
(* carries.                                                                *)
LEMMA ReadKeeps == ASSUME ImportInv, ReadBundle PROVE ImportInv'
<1> USE DEF ImportInv
<1>1. /\ ipc = "idle" /\ bundle # NoBundle /\ ipc' = "write" /\ held' = bundle
      /\ text' = env[bundle.network] /\ todo' = Assignments(bundle)
      /\ UNCHANGED <<env, token, bundle, minted, mishaps, before, torn, overtaken>>
  BY DEF ReadBundle, Current
<1>2. bundle \in Bundle
  BY <1>1 DEF FilesOK, ImportTypeOK
<1>3. bundle.network \in Networks /\ Assignments(bundle) \subseteq Assignment
  BY <1>2, AssignmentFacts
<1>4. FilesOK'
  <2>1. ImportTypeOK'
    BY <1>1, <1>2, <1>3 DEF FilesOK, ImportTypeOK
  <2>2. LinesOK(text)'
    BY <1>1, <1>3 DEF FilesOK, LinesOK
  <2> QED
    BY <2>1, <2>2, <1>1 DEF FilesOK
<1>5. BundleOK'
  <2>1. Assignments(held)' = Assignments(bundle)
    BY <1>1 DEF Assignments
  <2> QED
    BY <2>1, <1>1 DEF BundleOK
<1>6. TokensOK'
  <2>1. \A m, c : (Carried(m, c)' <=> Carried(m, c)) /\ (InForce(env[m], m, c)' <=> InForce(env[m], m, c))
    BY <1>1 DEF Carried, InForce
  <2>2. ASSUME ~overtaken, NEW c \in Capabilities, \A a \in todo' : a.name # c
        PROVE  InForce(env[bundle.network], bundle.network, c)
    <3>1. ~Carried(bundle.network, c)
      BY <2>2, <1>1, <1>2, AssignmentFacts DEF Carried
    <3> QED
      BY <3>1, <2>2, <1>1, <1>3 DEF TokensOK
  <2>3. \A c : InForce(text, held.network, c)' <=> InForce(env[bundle.network], bundle.network, c)
    BY <1>1 DEF InForce
  <2> QED
    BY <2>1, <2>2, <2>3, <1>1 DEF TokensOK
<1>7. OwnOK'
  BY <1>1, <1>3 DEF OwnOK, Keeps
<1> QED
  BY <1>4, <1>5, <1>6, <1>7

(* One assignment is made, the others are as they were.                    *)
LEMMA AssignKeeps == ASSUME ImportInv, Assign PROVE ImportInv'
<1> USE DEF ImportInv
<1>1. /\ ipc = "write" /\ todo # {}
      /\ UNCHANGED <<env, token, bundle, ipc, held, minted, mishaps, before, torn, overtaken>>
  BY DEF Assign
<1>2. PICK new \in todo : text' = Upsert(text, new) /\ todo' = todo \ {new}
  BY <1>1 DEF Assign
<1>3. held \in Bundle /\ todo \subseteq Assignments(held)
  BY <1>1 DEF FilesOK, ImportTypeOK, BundleOK
<1>4. /\ new.name # "own" /\ held.network \in Networks
      /\ new.name \in Capabilities => new.name \in DOMAIN held.tokens /\ new.value = held.tokens[new.name]
  BY <1>2, <1>3, AssignmentFacts
<1>5. LinesOK(text)
  BY DEF FilesOK
<1>6. /\ LinesOK(text') /\ Assigned(text', new.name) # {} /\ Effective(text', new.name) = new.value
      /\ \A name : name # new.name =>
           /\ Assigned(text', name) = Assigned(text, name)
           /\ Assigned(text, name) # {} => Effective(text', name) = Effective(text, name)
  BY <1>2, <1>5, UpsertFacts
<1>7. FilesOK'
  <2>1. ImportTypeOK'
    BY <1>1, <1>2 DEF FilesOK, ImportTypeOK
  <2> QED
    BY <2>1, <1>1, <1>6 DEF FilesOK, LinesOK
<1>8. BundleOK'
  <2>1. Assignments(held)' = Assignments(held)
    BY <1>1 DEF Assignments
  <2> QED
    BY <2>1, <1>1, <1>2 DEF BundleOK
<1>9. TokensOK'
  <2>1. \A m, c : (Carried(m, c)' <=> Carried(m, c)) /\ (InForce(env[m], m, c)' <=> InForce(env[m], m, c))
    BY <1>1 DEF Carried, InForce
  <2>2. ASSUME ~overtaken, NEW c \in Capabilities, \A a \in todo' : a.name # c
        PROVE  InForce(text, held.network, c)'
    <3>1. CASE c = new.name
      <4>1. bundle # NoBundle /\ bundle.network = held.network /\ bundle.tokens = held.tokens
        BY <2>2, <1>1 DEF BundleOK
      <4>2. new.value = token[held.network][c]
        BY <3>1, <4>1, <1>4 DEF BundleOK
      <4> QED
        BY <3>1, <4>2, <1>1, <1>6 DEF InForce
    <3>2. CASE c # new.name
      <4>1. \A a \in todo : a.name # c
        BY <3>2, <2>2, <1>2
      <4>2. InForce(text, held.network, c)
        BY <4>1, <2>2, <1>1 DEF TokensOK
      <4> QED
        BY <3>2, <4>2, <1>1, <1>6 DEF InForce
    <3> QED
      BY <3>1, <3>2
  <2> QED
    BY <2>1, <2>2, <1>1 DEF TokensOK
<1>10. OwnOK'
  BY <1>1, <1>4, <1>6 DEF OwnOK, Keeps
<1> QED
  BY <1>7, <1>8, <1>9, <1>10

(* The file is empty for a moment, the text complete.                      *)
LEMMA TruncateKeeps == ASSUME ImportInv, Truncate PROVE ImportInv'
<1> USE DEF ImportInv
<1>1. /\ ipc = "write" /\ todo = {} /\ ipc' = "writing" /\ env' = [env EXCEPT ![held.network] = <<>>]
      /\ UNCHANGED <<token, bundle, held, text, todo, minted, mishaps, before, torn, overtaken>>
  BY DEF Truncate
<1>2. held \in Bundle
  BY <1>1 DEF FilesOK, ImportTypeOK
<1>3. held.network \in Networks
  BY <1>2, AssignmentFacts
<1>4. /\ env = [n \in Networks |-> env[n]] /\ env'[held.network] = <<>>
      /\ env' = [n \in Networks |-> env'[n]] /\ \A n \in Networks \ {held.network} : env'[n] = env[n]
  BY <1>1, <1>3 DEF FilesOK
<1>5. FilesOK'
  <2>1. ImportTypeOK'
    BY <1>1 DEF FilesOK, ImportTypeOK
  <2>2. LinesOK(text)'
    BY <1>1 DEF FilesOK, LinesOK
  <2>3. \A n \in Networks : LinesOK(env'[n])
    BY <1>4, NoLines DEF FilesOK
  <2> QED
    BY <2>1, <2>2, <2>3, <1>4 DEF FilesOK, LinesOK
<1>6. BundleOK'
  BY <1>1, <1>4 DEF BundleOK
<1>7. TokensOK'
  <2>1. \A c : InForce(text, held.network, c)' <=> InForce(text, held.network, c)
    BY <1>1 DEF InForce
  <2>2. \A m \in Networks \ {held.network}, c \in Capabilities : InForce(env[m], m, c)' <=> InForce(env[m], m, c)
    BY <1>1, <1>4 DEF InForce
  <2>3. \A m, c : Carried(m, c)' <=> Carried(m, c)
    BY <1>1 DEF Carried
  <2> QED
    BY <2>1, <2>2, <2>3, <1>1 DEF TokensOK
<1>8. OwnOK'
  BY <1>1, <1>4 DEF OwnOK, Keeps
<1> QED
  BY <1>5, <1>6, <1>7, <1>8

LEMMA WriteKeeps == ASSUME ImportInv, WriteText PROVE ImportInv'
<1> USE DEF ImportInv
<1>1. /\ ipc = "writing" /\ ipc' = "consume" /\ env' = [env EXCEPT ![held.network] = text]
      /\ UNCHANGED <<token, bundle, held, text, todo, minted, mishaps, before, torn, overtaken>>
  BY DEF WriteText
<1>2. held \in Bundle /\ todo = {}
  BY <1>1 DEF FilesOK, ImportTypeOK, BundleOK
<1>3. held.network \in Networks
  BY <1>2, AssignmentFacts
<1>4. /\ env = [n \in Networks |-> env[n]] /\ env'[held.network] = text
      /\ env' = [n \in Networks |-> env'[n]] /\ \A n \in Networks \ {held.network} : env'[n] = env[n]
  BY <1>1, <1>3 DEF FilesOK
<1>5. FilesOK'
  <2>1. ImportTypeOK'
    BY <1>1 DEF FilesOK, ImportTypeOK
  <2>2. LinesOK(text)'
    BY <1>1 DEF FilesOK, LinesOK
  <2>3. \A n \in Networks : LinesOK(env'[n])
    BY <1>4 DEF FilesOK
  <2> QED
    BY <2>1, <2>2, <2>3, <1>4 DEF FilesOK, LinesOK
<1>6. BundleOK'
  BY <1>1 DEF BundleOK
<1>7. TokensOK'
  <2>1. ~overtaken => \A c \in Capabilities : InForce(text, held.network, c)
    BY <1>1, <1>2 DEF TokensOK
  <2>2. \A c : InForce(text, held.network, c) => InForce(env[held.network], held.network, c)'
    BY <1>1, <1>4 DEF InForce
  <2>3. \A m \in Networks \ {held.network}, c \in Capabilities : InForce(env[m], m, c)' <=> InForce(env[m], m, c)
    BY <1>1, <1>4 DEF InForce
  <2>4. \A m, c : Carried(m, c)' <=> Carried(m, c)
    BY <1>1 DEF Carried
  <2>5. held' = held /\ overtaken' = overtaken /\ ipc' = "consume"
    BY <1>1
  <2>6. ASSUME ~overtaken, NEW m \in Networks, NEW c \in Capabilities
        PROVE  InForce(env[m], m, c)' \/ Carried(m, c)'
    <3>1. CASE m = held.network
      <4>1. InForce(text, m, c) /\ env'[m] = text /\ token' = token /\ torn' = torn
        BY <3>1, <2>1, <2>6, <1>1, <1>4
      <4> QED
        BY <4>1 DEF InForce
    <3>2. CASE m # held.network
      BY <3>2, <2>3, <2>4, <2>6 DEF TokensOK
    <3> QED
      BY <3>1, <3>2
  <2> QED
    BY <2>1, <2>2, <2>5, <2>6 DEF TokensOK
<1>8. OwnOK'
  BY <1>1, <1>4 DEF OwnOK, Keeps
<1> QED
  BY <1>5, <1>6, <1>7, <1>8

(* An import that stops leaves its bundle; a cut write leaves its mark.    *)
LEMMA StopKeeps == ASSUME ImportInv, ImportStops PROVE ImportInv'
<1> USE DEF ImportInv
<1>1. /\ ipc # "idle" /\ Mishap("stops") /\ ipc' = "idle" /\ held' = NoBundle /\ text' = <<>> /\ todo' = {}
      /\ torn' = IF ipc = "writing" THEN torn \cup {held.network} ELSE torn
      /\ UNCHANGED <<env, token, bundle, minted, before, overtaken>>
  BY DEF ImportStops
<1>2. held \in Bundle
  BY <1>1 DEF FilesOK, ImportTypeOK
<1>3. held.network \in Networks
  BY <1>2, AssignmentFacts
<1>4. FilesOK'
  <2>1. mishaps' \in 0 .. MaxImportFaults
    BY <1>1, CredentialsAssumption DEF Mishap, FilesOK, ImportTypeOK
  <2>2. torn' \subseteq Networks
    BY <1>1, <1>3 DEF FilesOK, ImportTypeOK
  <2>3. ImportTypeOK'
    BY <2>1, <2>2, <1>1 DEF FilesOK, ImportTypeOK
  <2> QED
    BY <2>3, <1>1, NoLines DEF FilesOK
<1>5. BundleOK'
  BY <1>1 DEF BundleOK
<1>6. torn \subseteq torn' /\ (ipc = "writing" => held.network \in torn' /\ Assigned(env[held.network], "own") = {}
                               /\ \A c : Assigned(env[held.network], c) = {})
  BY <1>1, NoLines DEF BundleOK
<1>7. TokensOK'
  <2> SUFFICES ASSUME ~overtaken, NEW m \in Networks, NEW c \in Capabilities, ~Carried(m, c)'
               PROVE  InForce(env[m], m, c)'
    BY <1>1 DEF TokensOK
  <2>1. ~Carried(m, c)
    BY <1>1 DEF Carried
  <2>2. InForce(env[m], m, c) \/ (ipc = "writing" /\ m = held.network)
    BY <2>1 DEF TokensOK
  <2> QED
    BY <2>2, <1>1, <1>6 DEF InForce
<1>8. OwnOK'
  BY <1>1, <1>6 DEF OwnOK, Keeps
<1> QED
  BY <1>4, <1>5, <1>7, <1>8

(* The bundle goes once the file assigns what it carried.                  *)
LEMMA ConsumeKeeps == ASSUME ImportInv, Consume PROVE ImportInv'
<1> USE DEF ImportInv
<1>1. /\ ipc = "consume" /\ ipc' = "idle" /\ bundle' = NoBundle /\ held' = NoBundle /\ text' = <<>> /\ todo' = {}
      /\ UNCHANGED <<env, token, minted, mishaps, before, torn, overtaken>>
  BY DEF Consume
<1>2. FilesOK'
  <2>1. ImportTypeOK'
    BY <1>1 DEF FilesOK, ImportTypeOK
  <2> QED
    BY <2>1, <1>1, NoLines DEF FilesOK
<1>3. BundleOK'
  BY <1>1 DEF BundleOK
<1>4. TokensOK'
  <2> SUFFICES ASSUME ~overtaken, NEW m \in Networks, NEW c \in Capabilities
               PROVE  InForce(env[m], m, c)
    BY <1>1 DEF TokensOK, InForce
  <2>1. CASE m = held.network
    BY <2>1, <1>1 DEF TokensOK
  <2>2. CASE m # held.network
    <3>1. ~Carried(m, c)
      BY <2>2, <1>1 DEF Carried, BundleOK
    <3> QED
      BY <3>1, <2>2 DEF TokensOK
  <2> QED
    BY <2>1, <2>2
<1>5. OwnOK'
  BY <1>1 DEF OwnOK, Keeps
<1> QED
  BY <1>2, <1>3, <1>4, <1>5

LEMMA ImportAlways == Spec => []ImportInv
<1>1. Init => ImportInv
  BY ImportStarts DEF Init
<1>2. ImportInv /\ [Next]_vars => ImportInv'
  <2> SUFFICES ASSUME ImportInv, [Next]_vars PROVE ImportInv'
    OBVIOUS
  <2>1. ImportNext \/ UNCHANGED importVars
    BY DEF Next, vars
  <2>2. CASE ImportNext
    BY <2>2, MintKeeps, ExpiryKeeps, ReadKeeps, AssignKeeps, TruncateKeeps, WriteKeeps, StopKeeps,
       ConsumeKeeps DEF ImportNext
  <2>3. CASE UNCHANGED importVars
    <3>1. FilesOK'
      BY <2>3 DEF ImportInv, FilesOK, ImportTypeOK, LinesOK, importVars
    <3>2. BundleOK'
      BY <2>3 DEF ImportInv, BundleOK, Assignments, importVars
    <3>3. TokensOK'
      BY <2>3 DEF ImportInv, TokensOK, InForce, Carried, importVars
    <3>4. OwnOK'
      BY <2>3 DEF ImportInv, OwnOK, Keeps, importVars
    <3> QED
      BY <3>1, <3>2, <3>3, <3>4 DEF ImportInv
  <2> QED
    BY <2>1, <2>2, <2>3
<1> QED
  BY <1>1, <1>2, PTL DEF Spec

(* When no bundle waits, clif does not run on a revoked token: for every   *)
(* env file, order of bundles, and number of imports that stop anywhere.   *)
THEOREM NoRevokedTokenHolds == Spec => []NoRevokedToken
<1>1. ImportInv => NoRevokedToken
  BY DEF ImportInv, TokensOK, InForce, Carried, NoRevokedToken
<1> QED
  BY <1>1, ImportAlways, PTL

(* No import loses or changes a setting that no bundle governs, unless its *)
(* write was cut short.                                                    *)
THEOREM SettingsKeptHolds == Spec => []SettingsKept
<1>1. ImportInv => SettingsKept
  BY DEF ImportInv, OwnOK, Keeps, SettingsKept
<1> QED
  BY <1>1, ImportAlways, PTL
-----------------------------------------------------------------------------
(***************************************************************************)
(* The recursive functions have the values their definitions say.  Each    *)
(* exists because its first (or last) k values do, for every k.            *)
(***************************************************************************)
LEMMA FoldedIs ==
  ASSUME NEW leaf, NEW proof, Len(proof) \in Nat
  PROVE  Folded(leaf, proof) =
           [i \in 0 .. Len(proof) |-> IF i = 0 THEN leaf ELSE Node(proof[i], Folded(leaf, proof)[i - 1])]
<1> DEFINE n == Len(proof)
           Step(h, k) == [i \in 0 .. k |-> IF i = 0 THEN leaf ELSE Node(proof[i], h[i - 1])]
           Some == {k \in 0 .. n : \E h : h = Step(h, k)}
<1>1. 0 \in Some
  <2> DEFINE g == [i \in 0 .. 0 |-> leaf]
  <2>1. g = Step(g, 0)
    OBVIOUS
  <2> HIDE DEF g, Step
  <2>2. \E h : h = Step(h, 0)
    BY <2>1
  <2> QED
    BY <2>2
<1>2. ASSUME NEW k \in 0 .. n - 1, k \in Some PROVE k + 1 \in Some
  <2>1. PICK h : h = Step(h, k)
    BY <1>2
  <2> DEFINE g == [i \in 0 .. k + 1 |-> IF i = k + 1 THEN Node(proof[k + 1], h[k]) ELSE h[i]]
  <2>2. \A i \in 0 .. k + 1 : g[i] = IF i = 0 THEN leaf ELSE Node(proof[i], g[i - 1])
    BY <2>1
  <2>3. g = Step(g, k + 1)
    BY <2>2
  <2> HIDE DEF g, Step
  <2>4. \E f : f = Step(f, k + 1)
    BY <2>3
  <2> QED
    BY <2>4
<1>3. n \in Some
  <2> HIDE DEF Some
  <2>1. \A k \in 0 .. n - 1 : k \in Some => k + 1 \in Some
    BY <1>2
  <2>2. 0 .. n \subseteq Some
    BY <1>1, <2>1, StepByStep
  <2> QED
    BY <2>2
<1>4. Folded(leaf, proof) = CHOOSE h : h = Step(h, n)
  BY DEF Folded
<1> QED
  BY <1>3, <1>4

LEMMA HashAtIs ==
  ASSUME NEW leaves, Len(leaves) \in Nat \ {0}
  PROVE  HashAt(leaves) =
           [i \in 0 .. 2 * Len(leaves) - 2 |->
              IF i >= Len(leaves) - 1 THEN leaves[i - Len(leaves) + 2]
              ELSE <<"node", {HashAt(leaves)[2 * i + 1], HashAt(leaves)[2 * i + 2]}>>]
<1> DEFINE n == Len(leaves)
           last == 2 * n - 2
           Value(h, i) == IF i >= n - 1 THEN leaves[i - n + 2] ELSE <<"node", {h[2 * i + 1], h[2 * i + 2]}>>
           Step(h, k) == [i \in last - k .. last |-> Value(h, i)]
           Some == {k \in 0 .. last : \E h : h = Step(h, k)}
<1>0. n \in Nat \ {0} /\ last \in Nat
  OBVIOUS
<1>1. 0 \in Some
  <2> DEFINE g == [i \in last .. last |-> leaves[i - n + 2]]
  <2>1. last - 0 = last /\ last >= n - 1
    BY <1>0
  <2>2. g = Step(g, 0)
    BY <2>1
  <2> HIDE DEF g, Step, last
  <2>3. \E h : h = Step(h, 0)
    BY <2>2
  <2> QED
    BY <2>3, <1>0
<1>2. ASSUME NEW k \in 0 .. last - 1, k \in Some PROVE k + 1 \in Some
  <2>1. PICK h : h = Step(h, k)
    BY <1>2
  <2> DEFINE g == [i \in last - (k + 1) .. last |-> IF i = last - (k + 1) THEN Value(h, i) ELSE h[i]]
  <2>2. \A i \in last - (k + 1) .. last :
          i < n - 1 => /\ 2 * i + 1 \in last - k .. last
                       /\ 2 * i + 2 \in last - k .. last
    BY <1>0
  <2>3. \A i \in last - k .. last : g[i] = h[i]
    BY <1>0
  <2>4. \A i \in last - (k + 1) .. last : g[i] = Value(h, i)
    <3>1. \A i \in last - k .. last : h[i] = Value(h, i)
      <4> HIDE DEF Value
      <4> QED
        BY <2>1
    <3>2. \A i \in last - (k + 1) .. last : i = last - (k + 1) \/ i \in last - k .. last
      BY <1>0
    <3> HIDE DEF Value
    <3> QED
      BY <3>1, <3>2, <1>0
  <2>5. ASSUME NEW i \in last - (k + 1) .. last PROVE Value(h, i) = Value(g, i)
    <3> HIDE DEF g, last
    <3>1. CASE i >= n - 1
      BY <3>1
    <3>2. CASE ~(i >= n - 1)
      <4>0. /\ 2 * i + 1 \in last - k .. last
            /\ 2 * i + 2 \in last - k .. last
        <5>1. i \in Int /\ n \in Int
          BY <1>0
        <5>2. i < n - 1
          BY <3>2, <5>1
        <5> HIDE DEF n
        <5> QED
          BY <2>2, <5>2
      <4>1. g[2 * i + 1] = h[2 * i + 1] /\ g[2 * i + 2] = h[2 * i + 2]
        BY <2>3, <4>0
      <4> QED
        BY <4>1, <3>2
    <3> QED
      BY <3>1, <3>2
  <2>6. g = Step(g, k + 1)
    <3> HIDE DEF Value
    <3> QED
      BY <2>4, <2>5
  <2> HIDE DEF g, Step, last
  <2>7. \E h_1 : h_1 = Step(h_1, k + 1)
    BY <2>6
  <2> QED
    BY <2>7, <1>0
<1>3. last \in Some
  <2> HIDE DEF Some, last
  <2>1. \A k \in 0 .. last - 1 : k \in Some => k + 1 \in Some
    BY <1>2
  <2>2. 0 .. last \subseteq Some
    BY <1>0, <1>1, <2>1, StepByStep
  <2> QED
    BY <1>0, <2>2
<1>4. HashAt(leaves) = CHOOSE h : h = [i \in 0 .. last |-> Value(h, i)]
  BY DEF HashAt
<1>5. \A h : Step(h, last) = [i \in 0 .. last |-> Value(h, i)]
  BY <1>0
<1> QED
  BY <1>3, <1>4, <1>5

LEMMA SiblingsIs ==
  ASSUME NEW leaves, Len(leaves) \in Nat \ {0}
  PROVE  Siblings(leaves) =
           [i \in 0 .. 2 * Len(leaves) - 2 |->
              IF i = 0 THEN <<>>
              ELSE <<HashAt(leaves)[IF i % 2 = 0 THEN i - 1 ELSE i + 1]>> \o Siblings(leaves)[(i - 1) \div 2]]
<1> DEFINE last == 2 * Len(leaves) - 2
           Value(h, i) == IF i = 0 THEN <<>>
                          ELSE <<HashAt(leaves)[IF i % 2 = 0 THEN i - 1 ELSE i + 1]>> \o h[(i - 1) \div 2]
           Step(h, k) == [i \in 0 .. k |-> Value(h, i)]
           Some == {k \in 0 .. last : \E h : h = Step(h, k)}
<1>0. last \in Nat
  OBVIOUS
<1>1. 0 \in Some
  <2> DEFINE g == [i \in 0 .. 0 |-> <<>>]
  <2>1. g = Step(g, 0)
    OBVIOUS
  <2> HIDE DEF g, Step, last
  <2>2. \E h : h = Step(h, 0)
    BY <2>1
  <2> QED
    BY <2>2, <1>0
<1>2. ASSUME NEW k \in 0 .. last - 1, k \in Some PROVE k + 1 \in Some
  <2>1. PICK h : h = Step(h, k)
    BY <1>2
  <2> DEFINE g == [i \in 0 .. k + 1 |-> IF i = k + 1 THEN Value(h, i) ELSE h[i]]
  <2>0. k \in Nat
    BY <1>0
  <2>2. \A i \in 0 .. k + 1 : g[i] = Value(h, i)
    <3>1. \A i \in 0 .. k : h[i] = Value(h, i)
      <4> HIDE DEF Value
      <4> QED
        BY <2>1
    <3> HIDE DEF Value
    <3> QED
      BY <3>1, <2>0
  <2>3. ASSUME NEW i \in 0 .. k + 1 PROVE Value(h, i) = Value(g, i)
    <3>1. CASE i = 0
      BY <3>1
    <3>2. CASE i # 0
      <4>1. (i - 1) \div 2 \in 0 .. k
        BY <3>2, <2>0
      <4>2. g[(i - 1) \div 2] = h[(i - 1) \div 2]
        <5> HIDE DEF Value
        <5> QED
          BY <4>1, <2>0
      <4> HIDE DEF g
      <4> QED
        BY <4>2, <3>2
    <3> QED
      BY <3>1, <3>2
  <2>4. g = Step(g, k + 1)
    <3> HIDE DEF Value
    <3> QED
      BY <2>2, <2>3
  <2> HIDE DEF g, Step, last
  <2>5. \E h_1 : h_1 = Step(h_1, k + 1)
    BY <2>4
  <2> QED
    BY <2>5, <1>0
<1>3. last \in Some
  <2> HIDE DEF Some, last
  <2>1. \A k \in 0 .. last - 1 : k \in Some => k + 1 \in Some
    BY <1>2
  <2>2. 0 .. last \subseteq Some
    BY <1>0, <1>1, <2>1, StepByStep
  <2> QED
    BY <1>0, <2>2
<1>4. Siblings(leaves) = CHOOSE h : h = Step(h, last)
  BY DEF Siblings
<1> QED
  BY <1>3, <1>4

(* The flat array of build_reward_merkle_root holds the contract's tree.   *)
LEMMA TreeIs == ASSUME NEW leaves PROVE Tree(leaves) = HashAt(leaves)
BY DEF Tree, HashAt, Node

LEMMA FoldedAt ==
  ASSUME NEW leaf, NEW proof, Len(proof) \in Nat
  PROVE  /\ Folded(leaf, proof)[0] = leaf
         /\ \A i \in 1 .. Len(proof) : Folded(leaf, proof)[i] = Node(proof[i], Folded(leaf, proof)[i - 1])
<1> DEFINE h == Folded(leaf, proof)
<1>1. h = [i \in 0 .. Len(proof) |-> IF i = 0 THEN leaf ELSE Node(proof[i], h[i - 1])]
  BY FoldedIs
<1> HIDE DEF h
<1>2. \A i \in 0 .. Len(proof) : h[i] = IF i = 0 THEN leaf ELSE Node(proof[i], h[i - 1])
  BY <1>1
<1>3. h[0] = leaf /\ \A i \in 1 .. Len(proof) : h[i] = Node(proof[i], h[i - 1])
  BY <1>2
<1> QED
  BY <1>3 DEF h

LEMMA HashesAt ==
  ASSUME NEW leaves, Len(leaves) \in Nat \ {0}
  PROVE  /\ \A i \in 1 .. Len(leaves) : HashAt(leaves)[i + Len(leaves) - 2] = leaves[i]
         /\ \A i \in 0 .. Len(leaves) - 2 :
              HashAt(leaves)[i] = <<"node", {HashAt(leaves)[2 * i + 1], HashAt(leaves)[2 * i + 2]}>>
<1> DEFINE n == Len(leaves)
           h == HashAt(leaves)
           Value(i) == IF i >= n - 1 THEN leaves[i - n + 2] ELSE <<"node", {h[2 * i + 1], h[2 * i + 2]}>>
<1>1. h = [i \in 0 .. 2 * n - 2 |-> Value(i)]
  BY HashAtIs
<1>2. \A i \in 0 .. 2 * n - 2 : h[i] = Value(i)
  <2> HIDE DEF h, n, Value
  <2> QED
    BY <1>1
<1> HIDE DEF h
<1>3. ASSUME NEW i \in 1 .. n PROVE h[i + n - 2] = leaves[i]
  <2>1. i + n - 2 \in 0 .. 2 * n - 2 /\ i + n - 2 >= n - 1 /\ (i + n - 2) - n + 2 = i
    OBVIOUS
  <2>2. h[i + n - 2] = Value(i + n - 2)
    BY <1>2, <2>1
  <2> QED
    BY <2>1, <2>2
<1>4. ASSUME NEW i \in 0 .. n - 2 PROVE h[i] = <<"node", {h[2 * i + 1], h[2 * i + 2]}>>
  <2>1. i \in 0 .. 2 * n - 2 /\ ~(i >= n - 1)
    OBVIOUS
  <2>2. h[i] = Value(i)
    BY <1>2, <2>1
  <2> QED
    BY <2>1, <2>2
<1> QED
  BY <1>3, <1>4 DEF h

LEMMA SiblingsAt ==
  ASSUME NEW leaves, Len(leaves) \in Nat \ {0}
  PROVE  /\ Siblings(leaves)[0] = <<>>
         /\ \A i \in 1 .. 2 * Len(leaves) - 2 :
              Siblings(leaves)[i] =
                <<HashAt(leaves)[IF i % 2 = 0 THEN i - 1 ELSE i + 1]>> \o Siblings(leaves)[(i - 1) \div 2]
<1> DEFINE last == 2 * Len(leaves) - 2
           up == Siblings(leaves)
           Value(i) == IF i = 0 THEN <<>>
                       ELSE <<HashAt(leaves)[IF i % 2 = 0 THEN i - 1 ELSE i + 1]>> \o up[(i - 1) \div 2]
<1>0. last \in Nat
  OBVIOUS
<1>1. up = [i \in 0 .. last |-> Value(i)]
  BY SiblingsIs
<1>2. \A i \in 0 .. last : up[i] = Value(i)
  <2> HIDE DEF up, last, Value
  <2> QED
    BY <1>1
<1>3. up[0] = Value(0) /\ \A i \in 1 .. last : up[i] = Value(i)
  <2> HIDE DEF up, last, Value
  <2> QED
    BY <1>0, <1>2
<1>4. \A i \in 1 .. last : i # 0
  OBVIOUS
<1> HIDE DEF up, last
<1>5. up[0] = <<>> /\ \A i \in 1 .. last :
        up[i] = <<HashAt(leaves)[IF i % 2 = 0 THEN i - 1 ELSE i + 1]>> \o up[(i - 1) \div 2]
  BY <1>3, <1>4
<1> QED
  BY <1>5 DEF up, last

LEMMA Prepended ==
  ASSUME NEW H, NEW x \in H, NEW s \in Seq(H)
  PROVE  /\ <<x>> \o s \in Seq(H) /\ Len(s) \in Nat
         /\ Len(<<x>> \o s) = Len(s) + 1
         /\ (<<x>> \o s)[1] = x
         /\ \A i \in 1 .. Len(s) : (<<x>> \o s)[i + 1] = s[i]
OBVIOUS
-----------------------------------------------------------------------------
(***************************************************************************)
(* A proof leads to the root exactly from a leaf.                          *)
(***************************************************************************)
(* Folding a proof is folding its first sibling and then the others.       *)
LEMMA FoldedFirst ==
  ASSUME NEW H, NEW x \in H, NEW s \in Seq(H), NEW leaf
  PROVE  Folded(leaf, <<x>> \o s)[Len(<<x>> \o s)] = Folded(Node(x, leaf), s)[Len(s)]
<1> DEFINE p == <<x>> \o s
           n == Len(s)
           f == Folded(leaf, p)
           g == Folded(Node(x, leaf), s)
           Same == {i \in 0 .. n : f[i + 1] = g[i]}
<1>1. n \in Nat /\ Len(p) = n + 1 /\ p[1] = x /\ \A i \in 1 .. n : p[i + 1] = s[i]
  BY Prepended
<1>2. f[0] = leaf /\ \A i \in 1 .. n + 1 : f[i] = Node(p[i], f[i - 1])
  <2> HIDE DEF p
  <2> QED
    BY <1>1, FoldedAt
<1>3. g[0] = Node(x, leaf) /\ \A i \in 1 .. n : g[i] = Node(s[i], g[i - 1])
  BY <1>1, FoldedAt
<1> HIDE DEF p, n, f, g
<1>4. 0 \in Same
  <2>1. f[1] = Node(p[1], f[1 - 1])
    BY <1>1, <1>2
  <2> QED
    BY <1>1, <1>2, <1>3, <2>1
<1>5. ASSUME NEW k \in 0 .. n - 1, k \in Same PROVE k + 1 \in Same
  <2>1. k + 1 \in 1 .. n /\ k + 2 \in 1 .. n + 1 /\ (k + 2) - 1 = k + 1 /\ (k + 1) - 1 = k /\ (k + 1) + 1 = k + 2
    BY <1>1
  <2>2. f[k + 2] = Node(p[k + 2], f[k + 1])
    BY <1>2, <2>1
  <2>3. g[k + 1] = Node(s[k + 1], g[k])
    BY <1>3, <2>1
  <2>4. p[k + 2] = s[k + 1] /\ f[k + 1] = g[k]
    BY <1>1, <1>5, <2>1
  <2> QED
    BY <2>1, <2>2, <2>3, <2>4, <1>1
<1>6. n \in Same
  <2> HIDE DEF Same
  <2>1. \A k \in 0 .. n - 1 : k \in Same => k + 1 \in Same
    BY <1>5
  <2>2. 0 .. n \subseteq Same
    BY <1>1, <1>4, <2>1, StepByStep
  <2> QED
    BY <1>1, <2>2
<1>7. f[n + 1] = g[n]
  BY <1>6
<1> QED
  BY <1>1, <1>7 DEF f, g, p, n

(* What the calculator computes for a place of the tree leads from the     *)
(* hash there to the root.                                                 *)
LEMMA PlacesVerify ==
  ASSUME NEW leaves, Len(leaves) \in Nat \ {0}
  PROVE  \A i \in 0 .. 2 * Len(leaves) - 2 :
           /\ Len(Siblings(leaves)[i]) \in Nat
           /\ VerifyProof(HashAt(leaves)[i], Siblings(leaves)[i], HashAt(leaves)[0])
<1> DEFINE n == Len(leaves)
           last == 2 * n - 2
           t == HashAt(leaves)
           up == Siblings(leaves)
           H == {t[i] : i \in 0 .. last}
           Leads(i) == up[i] \in Seq(H) /\ Folded(t[i], up[i])[Len(up[i])] = t[0]
           Good == {k \in 0 .. last : \A i \in 0 .. k : Leads(i)}
<1>0. n \in Nat \ {0} /\ last \in Nat
  OBVIOUS
<1>1. up[0] = <<>> /\ \A i \in 1 .. last : up[i] = <<t[IF i % 2 = 0 THEN i - 1 ELSE i + 1]>> \o up[(i - 1) \div 2]
  BY SiblingsAt
<1>2. \A i \in 0 .. n - 2 : t[i] = Node(t[2 * i + 1], t[2 * i + 2])
  BY HashesAt DEF Node
<1>3. \A i \in 0 .. last : t[i] \in H
  OBVIOUS
<1> HIDE DEF t, up, H
<1>4. Leads(0)
  <2>1. up[0] \in Seq(H) /\ Len(up[0]) = 0
    BY <1>1
  <2>2. Folded(t[0], up[0])[0] = t[0]
    BY <2>1, FoldedAt
  <2> QED
    BY <2>1, <2>2
<1>5. ASSUME NEW k \in 0 .. last - 1, k \in Good PROVE Leads(k + 1)
  <2> DEFINE i == k + 1
             above == (i - 1) \div 2
             beside == IF i % 2 = 0 THEN i - 1 ELSE i + 1
  <2>1. i \in 1 .. last /\ above \in 0 .. k /\ above \in 0 .. n - 2 /\ beside \in 0 .. last
    BY <1>0
  <2>2. {beside, i} = {2 * above + 1, 2 * above + 2}
    BY <1>0
  <2>3. up[i] = <<t[beside]>> \o up[above]
    BY <1>1, <2>1
  <2>4. t[above] = Node(t[beside], t[i])
    <3> HIDE DEF i, above, beside
    <3>1. t[above] = <<"node", {t[2 * above + 1], t[2 * above + 2]}>>
      BY <1>2, <2>1 DEF Node
    <3>2. {t[2 * above + 1], t[2 * above + 2]} = {t[beside], t[i]}
      BY <2>2
    <3> QED
      BY <3>1, <3>2 DEF Node
  <2>5. Leads(above)
    <3> HIDE DEF i, above, beside, Leads
    <3> QED
      BY <1>5, <2>1
  <2>6. t[beside] \in H /\ up[above] \in Seq(H)
    <3> HIDE DEF i, above, beside
    <3> QED
      BY <1>3, <2>1, <2>5
  <2> HIDE DEF i, above, beside
  <2>7. up[i] \in Seq(H)
    BY <2>3, <2>6, Prepended
  <2>8. Folded(t[i], up[i])[Len(up[i])] = Folded(t[above], up[above])[Len(up[above])]
    BY <2>3, <2>4, <2>6, FoldedFirst
  <2>9. Leads(i)
    BY <2>5, <2>7, <2>8
  <2> QED
    BY <2>9 DEF i
<1> HIDE DEF Leads
<1>6. last \in Good
  <2>1. 0 \in Good
    <3>1. \A i \in 0 .. 0 : i = 0
      OBVIOUS
    <3> QED
      BY <1>0, <1>4, <3>1
  <2>2. ASSUME NEW k \in 0 .. last - 1, k \in Good PROVE k + 1 \in Good
    <3>1. \A i \in 0 .. k + 1 : i \in 0 .. k \/ i = k + 1
      BY <1>0
    <3>2. k + 1 \in 0 .. last
      BY <1>0
    <3> QED
      BY <1>5, <2>2, <3>1, <3>2
  <2> HIDE DEF Good, last
  <2>3. \A k \in 0 .. last - 1 : k \in Good => k + 1 \in Good
    BY <2>2
  <2>4. 0 .. last \subseteq Good
    BY <1>0, <2>1, <2>3, StepByStep
  <2> QED
    BY <1>0, <2>4
<1>7. ASSUME NEW i \in 0 .. last PROVE Len(up[i]) \in Nat /\ VerifyProof(t[i], up[i], t[0])
  <2>1. up[i] \in Seq(H) /\ Folded(t[i], up[i])[Len(up[i])] = t[0]
    BY <1>6 DEF Leads
  <2> QED
    BY <2>1 DEF VerifyProof
<1> QED
  BY <1>7 DEF t, up

(* Hashing is injective, and no leaf is a node.                            *)
LEMMA Hashing ==
  /\ \A S, T : <<"node", S>> = <<"node", T>> => S = T
  /\ \A b, S : Leaf(b) # <<"node", S>>
  /\ \A b, c : Leaf(b) = Leaf(c) => b = c
<1>1. ASSUME NEW S, NEW T, <<"node", S>> = <<"node", T>> PROVE S = T
  BY <1>1
<1>2. ASSUME NEW b, NEW S, Leaf(b) = <<"node", S>> PROVE FALSE
  BY <1>2 DEF Leaf
<1>3. ASSUME NEW b, NEW c, Leaf(b) = Leaf(c) PROVE b = c
  BY <1>3 DEF Leaf
<1> QED
  BY <1>1, <1>2, <1>3

(* Whatever proof is offered, if it leads from a leaf to the root then the *)
(* leaf is one of the tree: going back from the root, each hash on the way *)
(* is that of a place.                                                     *)
LEMMA OnlyLeavesVerify ==
  ASSUME NEW leaves, Len(leaves) \in Nat \ {0}, \A i \in 1 .. Len(leaves) : \E b : leaves[i] = Leaf(b),
         NEW body, NEW proof, Len(proof) \in Nat,
         VerifyProof(Leaf(body), proof, HashAt(leaves)[0])
  PROVE  \E i \in 1 .. Len(leaves) : leaves[i] = Leaf(body)
<1> DEFINE n == Len(leaves)
           last == 2 * n - 2
           m == Len(proof)
           t == HashAt(leaves)
           h == Folded(Leaf(body), proof)
           Back == {k \in 0 .. m : \E i \in 0 .. last : h[m - k] = t[i]}
<1>0. n \in Nat \ {0} /\ last \in Nat /\ m \in Nat
  OBVIOUS
<1>1. h[0] = Leaf(body) /\ \A i \in 1 .. m : h[i] = Node(proof[i], h[i - 1])
  BY FoldedAt
<1>2. h[m] = t[0]
  BY DEF VerifyProof
<1>3. /\ \A i \in 1 .. n : t[i + n - 2] = leaves[i]
      /\ \A i \in 0 .. n - 2 : t[i] = <<"node", {t[2 * i + 1], t[2 * i + 2]}>>
  BY HashesAt
<1> HIDE DEF t, h
<1>4. ASSUME NEW i \in 0 .. last, \A b : t[i] # Leaf(b) PROVE i \in 0 .. n - 2
  <2>1. i \in 0 .. n - 2 \/ i - n + 2 \in 1 .. n
    BY <1>0
  <2>2. ASSUME i - n + 2 \in 1 .. n PROVE FALSE
    <3>1. (i - n + 2) + n - 2 = i
      BY <1>0
    <3> HIDE DEF n, last
    <3>2. t[i] = leaves[i - n + 2]
      BY <1>3, <2>2, <3>1
    <3>3. PICK b : leaves[i - n + 2] = Leaf(b)
      BY <2>2 DEF n
    <3> QED
      BY <1>4, <3>2, <3>3
  <2> QED
    BY <2>1, <2>2
<1>5. 0 \in Back
  BY <1>0, <1>2
<1>6. ASSUME NEW k \in 0 .. m - 1, k \in Back PROVE k + 1 \in Back
  <2>1. PICK i \in 0 .. last : h[m - k] = t[i]
    BY <1>6
  <2>2. h[m - k] = <<"node", {proof[m - k], h[m - (k + 1)]}>>
    <3>1. m - k \in 1 .. m /\ (m - k) - 1 = m - (k + 1)
      BY <1>0
    <3> QED
      BY <1>1, <3>1 DEF Node
  <2>3. i \in 0 .. n - 2
    <3>1. \A b : t[i] # Leaf(b)
      BY <2>1, <2>2, Hashing
    <3> QED
      BY <1>4, <3>1
  <2>4. t[i] = <<"node", {t[2 * i + 1], t[2 * i + 2]}>>
    BY <1>3, <2>3
  <2>5. h[m - (k + 1)] \in {t[2 * i + 1], t[2 * i + 2]}
    <3>1. {proof[m - k], h[m - (k + 1)]} = {t[2 * i + 1], t[2 * i + 2]}
      BY <2>1, <2>2, <2>4, Hashing
    <3> QED
      BY <3>1
  <2>6. 2 * i + 1 \in 0 .. last /\ 2 * i + 2 \in 0 .. last /\ k + 1 \in 0 .. m
    BY <1>0, <2>3
  <2> QED
    BY <2>5, <2>6
<1>7. m \in Back
  <2> HIDE DEF Back, m
  <2>1. \A k \in 0 .. m - 1 : k \in Back => k + 1 \in Back
    BY <1>6
  <2>2. 0 .. m \subseteq Back
    BY <1>0, <1>5, <2>1, StepByStep
  <2> QED
    BY <1>0, <2>2
<1>8. PICK i \in 0 .. last : h[m - m] = t[i]
  BY <1>7
<1>9. t[i] = Leaf(body)
  BY <1>0, <1>1, <1>8
<1>10. ~(i \in 0 .. n - 2)
  BY <1>3, <1>9, Hashing
<1>11. i - n + 2 \in 1 .. n /\ (i - n + 2) + n - 2 = i
  BY <1>0, <1>10
<1> HIDE DEF n, last
<1>12. leaves[i - n + 2] = t[i]
  BY <1>3, <1>11
<1> QED
  BY <1>9, <1>11, <1>12 DEF n
-----------------------------------------------------------------------------
(***************************************************************************)
(* The sorted leaves are those of the claims, each once.                   *)
(***************************************************************************)
Body == [epoch : Int, who : Voters, amount : Int]

LEMMA SortedLeaves ==
  ASSUME NEW A, A \subseteq Body, IsFiniteSet(A), rank \in Ranks
  PROVE  LET leaves == SortedUnique(A)
         IN  /\ Len(leaves) = Cardinality(A) /\ Cardinality(A) \in Nat
             /\ \A i \in 1 .. Len(leaves) : \E b \in A : leaves[i] = Leaf(b)
             /\ \A b \in A : \E i \in 1 .. Len(leaves) : leaves[i] = Leaf(b)
<1> DEFINE n == Cardinality(A)
           R == {p \in A \X A : Before(p[1], p[2])}
           Sorted(s) == \A i, j \in 1 .. n : i < j => Before(s[i], s[j])
           sorted == CHOOSE s \in [1 .. n -> A] : Sorted(s)
           leaves == SortedUnique(A)
<1>0. n \in Nat
  BY FS_CardinalityType
<1>1. /\ \A v \in Voters : rank[v] \in Int
      /\ \A v, w \in Voters : rank[v] = rank[w] => v = w
  BY TreeAssumption
<1>2. StrictOrder(R, A)
  <2>1. \A a, b \in A : <<a, b>> \in R <=> Before(a, b)
    OBVIOUS
  <2>2. \A a \in A : a.epoch \in Int /\ a.who \in Voters /\ a.amount \in Int /\ rank[a.who] \in Int
    BY <1>1 DEF Body
  <2>3. ASSUME NEW a \in A PROVE ~Before(a, a)
    BY <2>2 DEF Before
  <2>4. ASSUME NEW a \in A, NEW b \in A, a # b PROVE Before(a, b) \/ Before(b, a)
    <3>1. a.epoch = b.epoch /\ a.who = b.who => a.amount # b.amount
      BY <2>4 DEF Body
    <3>2. rank[a.who] = rank[b.who] => a.who = b.who
      BY <1>1, <2>2
    <3> QED
      BY <2>2, <3>1, <3>2 DEF Before
  <2>5. ASSUME NEW a \in A, NEW b \in A, NEW c \in A, Before(a, b), Before(b, c) PROVE Before(a, c)
    BY <2>2, <2>5 DEF Before
  <2> HIDE DEF R
  <2> QED
    BY <2>1, <2>3, <2>4, <2>5 DEF StrictOrder
<1>3. \A s \in [1 .. n -> A] : Sorted(s) <=> InOrder(s, n, R)
  BY DEF InOrder
<1> HIDE DEF R, Sorted
<1>4. sorted \in [1 .. n -> A] /\ InOrder(sorted, n, R)
  <2>1. PICK s \in [1 .. n -> A] : Sorted(s)
    BY <1>2, <1>3, Listed
  <2> QED
    BY <1>3, <2>1
<1>5. {sorted[i] : i \in 1 .. n} = A
  <2> HIDE DEF sorted
  <2> QED
    BY <1>2, <1>4, ListsAll
<1>6. leaves = [i \in 1 .. n |-> Leaf(sorted[i])]
  BY DEF SortedUnique, Sorted
<1> HIDE DEF sorted, leaves, n
<1>7. Len(leaves) = n
  BY <1>0, <1>6
<1>8. \A i \in 1 .. n : leaves[i] = Leaf(sorted[i]) /\ sorted[i] \in A
  BY <1>4, <1>6
<1>9. \A b \in A : \E i \in 1 .. n : b = sorted[i]
  BY <1>5
<1>10. /\ Len(leaves) = n /\ n \in Nat
       /\ \A i \in 1 .. Len(leaves) : \E b \in A : leaves[i] = Leaf(b)
       /\ \A b \in A : \E i \in 1 .. Len(leaves) : leaves[i] = Leaf(b)
  BY <1>0, <1>7, <1>8, <1>9
<1> QED
  BY <1>10 DEF n, leaves

(* The root of some claims, as clif computes it, is that of their tree; it *)
(* is a leaf or a node, so it is none of the other hashes.                 *)
LEMMA RootOf ==
  ASSUME NEW A, A \subseteq Body, IsFiniteSet(A), A # {}, rank \in Ranks
  PROVE  /\ Len(SortedUnique(A)) \in Nat \ {0}
         /\ BuildRewardMerkleRoot(A) = HashAt(SortedUnique(A))[0]
         /\ BuildRewardMerkleRoot(A) \notin {ZeroRoot, WrongRoot}
<1> DEFINE leaves == SortedUnique(A)
           n == Len(leaves)
           t == HashAt(leaves)
<1>1. /\ n \in Nat \ {0}
      /\ \A i \in 1 .. n : \E b \in A : leaves[i] = Leaf(b)
  BY SortedLeaves, FS_EmptySet
<1>2. BuildRewardMerkleRoot(A) = t[0]
  BY TreeIs DEF BuildRewardMerkleRoot
<1>3. /\ \A i \in 1 .. n : t[i + n - 2] = leaves[i]
      /\ \A i \in 0 .. n - 2 : t[i] = <<"node", {t[2 * i + 1], t[2 * i + 2]}>>
  <2> HIDE DEF leaves
  <2> QED
    BY <1>1, HashesAt
<1> HIDE DEF t, leaves
<1>4. CASE n = 1
  <2>1. t[0] = leaves[1] /\ \E b \in A : leaves[1] = Leaf(b)
    <3>1. 1 \in 1 .. n /\ 1 + n - 2 = 0
      BY <1>4
    <3> HIDE DEF n
    <3> QED
      BY <1>1, <1>3, <3>1
  <2>2. t[0] # ZeroRoot /\ t[0] # WrongRoot
    BY <2>1 DEF Leaf, ZeroRoot, WrongRoot
  <2> QED
    BY <1>1, <1>2, <2>2 DEF leaves, t
<1>5. CASE n # 1
  <2>1. 0 \in 0 .. n - 2
    <3> HIDE DEF n
    <3> QED
      BY <1>1, <1>5
  <2>2. t[0] = <<"node", {t[2 * 0 + 1], t[2 * 0 + 2]}>>
    BY <1>3, <2>1
  <2>3. t[0] # ZeroRoot /\ t[0] # WrongRoot
    BY <2>2 DEF ZeroRoot, WrongRoot
  <2> QED
    BY <1>1, <1>2, <2>3 DEF leaves, t
<1> QED
  BY <1>4, <1>5

(* Each claim has a proof that verify_proof accepts ...                    *)
LEMMA ClaimsVerify ==
  ASSUME NEW A, A \subseteq Body, IsFiniteSet(A), NEW b \in A, rank \in Ranks
  PROVE  LET proof == ProofOf(b, SortedUnique(A))
         IN  Len(proof) \in Nat /\ VerifyProof(Leaf(b), proof, BuildRewardMerkleRoot(A))
<1> DEFINE leaves == SortedUnique(A)
           n == Len(leaves)
           place == CHOOSE i \in n - 1 .. 2 * n - 2 : leaves[i - n + 2] = Leaf(b)
<1>1. n \in Nat \ {0} /\ BuildRewardMerkleRoot(A) = HashAt(leaves)[0]
  BY RootOf
<1>2. PICK i \in 1 .. n : leaves[i] = Leaf(b)
  BY SortedLeaves
<1> HIDE DEF leaves
<1>3. i + n - 2 \in n - 1 .. 2 * n - 2 /\ (i + n - 2) - n + 2 = i
  BY <1>1
<1>4. place \in n - 1 .. 2 * n - 2 /\ leaves[place - n + 2] = Leaf(b)
  BY <1>2, <1>3
<1> HIDE DEF place
<1>5. place \in 0 .. 2 * n - 2 /\ place - n + 2 \in 1 .. n /\ (place - n + 2) + n - 2 = place
  BY <1>1, <1>4
<1>6. HashAt(leaves)[place] = Leaf(b)
  <2>1. \A j \in 1 .. n : HashAt(leaves)[j + n - 2] = leaves[j]
    BY <1>1, HashesAt
  <2> HIDE DEF n
  <2> QED
    BY <1>4, <1>5, <2>1
<1>7. /\ Len(Siblings(leaves)[place]) \in Nat
      /\ VerifyProof(HashAt(leaves)[place], Siblings(leaves)[place], HashAt(leaves)[0])
  BY <1>1, <1>5, PlacesVerify
<1>8. ProofOf(b, leaves) = Siblings(leaves)[place]
  BY DEF ProofOf, place
<1> QED
  BY <1>1, <1>6, <1>7, <1>8 DEF leaves

(* ... and whatever verify_proof accepts is one of the claims.             *)
THEOREM OnlyClaimsVerify ==
  ASSUME NEW A, A \subseteq Body, IsFiniteSet(A), A # {}, rank \in Ranks,
         NEW b, NEW proof, Len(proof) \in Nat,
         VerifyProof(Leaf(b), proof, BuildRewardMerkleRoot(A))
  PROVE  b \in A
<1> DEFINE leaves == SortedUnique(A)
<1>1. Len(leaves) \in Nat \ {0} /\ BuildRewardMerkleRoot(A) = HashAt(leaves)[0]
  BY RootOf
<1>2. \A i \in 1 .. Len(leaves) : \E c \in A : leaves[i] = Leaf(c)
  BY SortedLeaves
<1> HIDE DEF leaves
<1>3. PICK i \in 1 .. Len(leaves) : leaves[i] = Leaf(b)
  BY <1>1, <1>2, OnlyLeavesVerify
<1>4. PICK c \in A : leaves[i] = Leaf(c)
  BY <1>2
<1> QED
  BY <1>3, <1>4, Hashing

(* The root run_sign_rewards recomputes commits to the claims: two lists   *)
(* of claims with one root are of the same claims, none at all included.   *)
THEOREM RootBinds ==
  ASSUME NEW A, A \subseteq Body, IsFiniteSet(A), NEW B, B \subseteq Body, IsFiniteSet(B), rank \in Ranks,
         BuildRewardMerkleRoot(A) = BuildRewardMerkleRoot(B)
  PROVE  A = B
<1>1. ASSUME NEW C, C \subseteq Body, IsFiniteSet(C), C # {} PROVE BuildRewardMerkleRoot(C) # ZeroRoot
  BY <1>1, RootOf
<1>2. BuildRewardMerkleRoot({}) = ZeroRoot
  BY DEF BuildRewardMerkleRoot
<1>3. CASE A = {} \/ B = {}
  BY <1>1, <1>2, <1>3
<1>4. ASSUME NEW C, C \subseteq Body, IsFiniteSet(C), NEW D, D \subseteq Body, IsFiniteSet(D), D # {},
             BuildRewardMerkleRoot(C) = BuildRewardMerkleRoot(D), NEW b \in C
      PROVE  b \in D
  <2>1. /\ Len(ProofOf(b, SortedUnique(C))) \in Nat
        /\ VerifyProof(Leaf(b), ProofOf(b, SortedUnique(C)), BuildRewardMerkleRoot(D))
    BY <1>4, ClaimsVerify
  <2> QED
    BY <1>4, <2>1, OnlyClaimsVerify
<1>5. CASE A # {} /\ B # {}
  <2>1. \A b \in A : b \in B
    BY <1>4, <1>5
  <2>2. \A b \in B : b \in A
    BY <1>4, <1>5
  <2> QED
    BY <2>1, <2>2
<1> QED
  BY <1>3, <1>5
-----------------------------------------------------------------------------
(***************************************************************************)
(* The files and the chain.                                                *)
(***************************************************************************)
(* Whatever is wrong with a file, it has its fields, and each claim in it  *)
(* a list of hashes for a proof (models.py refuses it otherwise).          *)
Parsed(f) ==
  /\ f = [epoch |-> f.epoch, root |-> f.root, count |-> f.count, claims |-> f.claims]
  /\ \A c \in f.claims : c = [body |-> c.body, proof |-> c.proof] /\ Len(c.proof) \in Nat

(* The calculator's files are what FileOf says, for the claims of the      *)
(* epoch and an order of their hashes, none of which change.               *)
World ==
  /\ rank \in Ranks /\ rewarded \in Rewardees
  /\ edition = [e \in TreeEpochs |-> [v \in 1 .. 2 |-> FileOf(e, v)]]

LEMMA BodiesFinite ==
  ASSUME World, NEW e \in TreeEpochs, NEW v \in 1 .. 2
  PROVE  Bodies(e, v) \subseteq Body /\ IsFiniteSet(Bodies(e, v)) /\ Bodies(e, v) # {}
<1>1. rewarded \subseteq Voters /\ rewarded # {} /\ IsFiniteSet(rewarded) /\ e \in Int /\ v \in Int
  BY TreeAssumption DEF World
<1> DEFINE f == [w \in rewarded |-> [epoch |-> e, who |-> w, amount |-> v]]
<1>2. f \in Surjection(rewarded, Bodies(e, v))
  BY DEF Surjection, Bodies
<1>3. IsFiniteSet(Bodies(e, v))
  <2> HIDE DEF f
  <2> QED
    BY <1>1, <1>2, FS_Surjection
<1>4. \A w \in rewarded : [epoch |-> e, who |-> w, amount |-> v] \in Body
  BY <1>1 DEF Body
<1>5. Bodies(e, v) \subseteq Body /\ Bodies(e, v) # {}
  <2> HIDE DEF Body
  <2> QED
    BY <1>1, <1>4 DEF Bodies
<1> QED
  BY <1>3, <1>5

(* What clif finds in an intact file.                                      *)
LEMMA IntactFile ==
  ASSUME World, NEW e \in TreeEpochs, NEW v \in 1 .. 2
  PROVE  /\ Parsed(File(e, v)) /\ File(e, v).epoch = e
         /\ BodiesOf(File(e, v)) = Bodies(e, v) /\ File(e, v).claims # {}
         /\ File(e, v).root = BuildRewardMerkleRoot(Bodies(e, v))
         /\ File(e, v).root \notin {ZeroRoot, WrongRoot}
         /\ \A c \in File(e, v).claims : VerifyProof(Leaf(c.body), c.proof, File(e, v).root)
<1> DEFINE A == Bodies(e, v)
           leaves == SortedUnique(A)
           root == HashAt(leaves)[0]
           claims == {[body |-> b, proof |-> ProofOf(b, leaves)] : b \in A}
           f == File(e, v)
<1>1. A \subseteq Body /\ IsFiniteSet(A) /\ A # {} /\ rank \in Ranks
  BY BodiesFinite DEF World
<1>2. f = [epoch |-> e, root |-> root, count |-> 0, claims |-> claims]
  BY DEF World, File, FileOf
<1> HIDE DEF A
<1>3. root = BuildRewardMerkleRoot(A) /\ root \notin {ZeroRoot, WrongRoot}
  BY <1>1, RootOf
<1>4. \A b \in A : /\ Len(ProofOf(b, leaves)) \in Nat
                   /\ VerifyProof(Leaf(b), ProofOf(b, leaves), root)
  BY <1>1, <1>3, ClaimsVerify
<1> HIDE DEF root, leaves
<1>5. /\ claims # {} /\ {c.body : c \in claims} = A
      /\ \A c \in claims : /\ c = [body |-> c.body, proof |-> c.proof] /\ Len(c.proof) \in Nat
                           /\ VerifyProof(Leaf(c.body), c.proof, root)
  <2>1. \A c \in claims : \E b \in A : c = [body |-> b, proof |-> ProofOf(b, leaves)]
    OBVIOUS
  <2>2. \A b \in A : \E c \in claims : c = [body |-> b, proof |-> ProofOf(b, leaves)]
    OBVIOUS
  <2> HIDE DEF claims
  <2>3. \A c \in claims : /\ c.body \in A /\ c = [body |-> c.body, proof |-> c.proof]
                         /\ c.proof = ProofOf(c.body, leaves)
    BY <2>1
  <2>4. claims # {}
    BY <1>1, <2>2
  <2>5. \A b \in A : \E c \in claims : c.body = b
    BY <2>2
  <2> QED
    BY <1>4, <2>3, <2>4, <2>5
<1> HIDE DEF claims, f
<1>6. f.epoch = e /\ f.root = root /\ f.claims = claims
  BY <1>2
<1>7. Parsed(f)
  BY <1>2, <1>5, <1>6 DEF Parsed
<1>8. BodiesOf(f) = A
  BY <1>5, <1>6 DEF BodiesOf
<1> QED
  BY <1>3, <1>5, <1>6, <1>7, <1>8 DEF A, f

LEMMA WorldKeeps ==
  ASSUME World, UNCHANGED <<rank, rewarded, edition>>
  PROVE  World' /\ (\A e, v : File(e, v)' = File(e, v) /\ Bodies(e, v)' = Bodies(e, v))
<1>1. \A e, v : FileOf(e, v)' = FileOf(e, v)
  BY DEF FileOf, Bodies, SortedUnique, Before
<1> QED
  BY <1>1 DEF World, File, Bodies

(* The site, the operator's directory and the chain.                       *)
FilesHeld ==
  /\ served = [e \in TreeEpochs |-> served[e]] /\ kept = [e \in TreeEpochs |-> kept[e]]
  /\ \A e \in TreeEpochs : \A f \in {served[e], kept[e]} \ {NoFile} : Parsed(f)
HashesHeld ==
  /\ hash = [e \in TreeEpochs |-> hash[e]]
  /\ \A e \in TreeEpochs : hash[e] \in {ZeroRoot, Root(e, 2)}
PairsHeld ==
  /\ \A c \in claimed : c[1] \in TreeEpochs
  /\ \A s \in signed : s[1] \in TreeEpochs

TreeInv == World /\ TreeTypeOK /\ FilesHeld /\ HashesHeld /\ PairsHeld /\ ClaimIsPayable

(* Where a file comes from when at most one thing is wrong with it: it is  *)
(* a published edition of its epoch; or it has been damaged, or is that of *)
(* another epoch.                                                          *)
Genuine(f, e) == \E v \in 1 .. published[e] : f = File(e, v)
Faulty(f, e) ==
  \/ \E v \in 1 .. published[e] : f \in Damaged(File(e, v))
  \/ \E d \in TreeEpochs \ {e}, v \in 1 .. 2 : f = File(d, v)
Traced ==
  \A e \in TreeEpochs : \A f \in {served[e], kept[e]} \ {NoFile} :
    Genuine(f, e) \/ (damage = 1 /\ Faulty(f, e))

TraceInv == TreeInv /\ Traced /\ SignedWasPublished

LEMMA ParsedIsFile == ASSUME NEW f, Parsed(f) PROVE f # NoFile
<1>1. "root" \in DOMAIN f
  <2>1. "root" \in DOMAIN [epoch |-> f.epoch, root |-> f.root, count |-> f.count, claims |-> f.claims]
    OBVIOUS
  <2> QED
    BY <2>1 DEF Parsed
<1>2. DOMAIN NoFile = {}
  BY DEF NoFile
<1> QED
  BY <1>1, <1>2

(* The shapes of damage leave a file one that can be parsed.               *)
LEMMA DamagedParsed == ASSUME NEW f, Parsed(f), NEW g \in Damaged(f) PROVE Parsed(g)
<1> USE DEF Parsed
<1>1. CASE g = [f EXCEPT !.root = WrongRoot]
  BY <1>1
<1>2. CASE g = [f EXCEPT !.claims = {}] \/ g = [f EXCEPT !.count = 1]
  BY <1>2
<1>3. ASSUME NEW d, g = [f EXCEPT !.epoch = d] PROVE Parsed(g)
  BY <1>3
<1>4. ASSUME NEW c \in f.claims, NEW x, x = [body |-> x.body, proof |-> x.proof], Len(x.proof) \in Nat,
             g = [f EXCEPT !.claims = (@ \ {c}) \cup {x}]
      PROVE  Parsed(g)
  <2>1. g = [epoch |-> f.epoch, root |-> f.root, count |-> f.count, claims |-> (f.claims \ {c}) \cup {x}]
    BY <1>4
  <2> QED
    BY <1>4, <2>1
<1>5. ASSUME NEW c \in f.claims, g = [f EXCEPT !.claims = (@ \ {c}) \cup {[c EXCEPT !.body.amount = @ + 5]}]
      PROVE  Parsed(g)
  <2> DEFINE x == [c EXCEPT !.body.amount = @ + 5]
  <2>1. c = [body |-> c.body, proof |-> c.proof] /\ Len(c.proof) \in Nat
    OBVIOUS
  <2>2. x = [body |-> [c.body EXCEPT !.amount = @ + 5], proof |-> c.proof]
    BY <2>1
  <2>3. x = [body |-> x.body, proof |-> x.proof] /\ Len(x.proof) \in Nat
    BY <2>1, <2>2
  <2> HIDE DEF x, Parsed
  <2> QED
    BY <1>4, <1>5, <2>3 DEF x
<1>6. ASSUME NEW c \in f.claims, g = [f EXCEPT !.claims = (@ \ {c}) \cup {[c EXCEPT !.proof = <<WrongRoot>>]}]
      PROVE  Parsed(g)
  <2> DEFINE x == [c EXCEPT !.proof = <<WrongRoot>>]
  <2>1. c = [body |-> c.body, proof |-> c.proof]
    OBVIOUS
  <2>2. x = [body |-> c.body, proof |-> <<WrongRoot>>] /\ Len(<<WrongRoot>>) = 1
    BY <2>1
  <2>3. x = [body |-> x.body, proof |-> x.proof] /\ Len(x.proof) \in Nat
    BY <2>2
  <2> HIDE DEF x, Parsed
  <2> QED
    BY <1>4, <1>6, <2>3 DEF x
<1> HIDE DEF Parsed
<1> QED
  BY <1>1, <1>2, <1>3, <1>5, <1>6 DEF Damaged, Ours
-----------------------------------------------------------------------------
(***************************************************************************)
(* One lemma per action.                                                   *)
(***************************************************************************)
LEMMA TreeStarts == TreeInit => TreeInv /\ Traced /\ SignedWasPublished
<1> SUFFICES ASSUME TreeInit PROVE TreeInv /\ Traced /\ SignedWasPublished
  OBVIOUS
<1> HIDE DEF NoFile
<1>1. World
  BY DEF TreeInit, World
<1>2. TreeTypeOK
  <2>1. published \in [TreeEpochs -> 0 .. 2] /\ damage \in 0 .. MaxFileFaults
    BY TreeAssumption DEF TreeInit
  <2> QED
    BY <2>1 DEF TreeTypeOK, TreeInit
<1>3. FilesHeld /\ HashesHeld /\ PairsHeld
  BY DEF TreeInit, FilesHeld, HashesHeld, PairsHeld
<1>4. ClaimIsPayable /\ SignedWasPublished
  BY DEF TreeInit, ClaimIsPayable, SignedWasPublished
<1>5. Traced
  BY DEF TreeInit, Traced
<1> QED
  BY <1>1, <1>2, <1>3, <1>4, <1>5 DEF TreeInv

(* A new edition is genuine, and what was published stays published.       *)
LEMMA PublishKeeps ==
  ASSUME TreeInv, NEW e \in TreeEpochs, PublishFile(e)
  PROVE  TreeInv' /\ (Traced => Traced') /\ (SignedWasPublished => SignedWasPublished')
<1> USE DEF TreeInv
<1>1. UNCHANGED <<rank, rewarded, edition, kept, hash, signed, claimed, damage>>
  BY DEF PublishFile
<1>2. World' /\ \A d, v : File(d, v)' = File(d, v) /\ Bodies(d, v)' = Bodies(d, v)
  BY <1>1, WorldKeeps
<1>3. published \in [TreeEpochs -> 0 .. 2] /\ published[e] \in 0 .. 1
  BY DEF TreeTypeOK, PublishFile
<1> DEFINE v == published[e] + 1
<1>4. v \in 1 .. 2 /\ published' = [published EXCEPT ![e] = v] /\ published'[e] = v
  BY <1>3 DEF PublishFile
<1>5. served' = [served EXCEPT ![e] = File(e, v)]
  BY <1>2, <1>4 DEF PublishFile
<1> HIDE DEF v, NoFile
<1>6. /\ served' = [d \in TreeEpochs |-> served'[d]] /\ served'[e] = File(e, v)
      /\ \A d \in TreeEpochs \ {e} : served'[d] = served[d] /\ published'[d] = published[d]
      /\ published' \in [TreeEpochs -> 0 .. 2] /\ published'[e] # 0
  BY <1>3, <1>4, <1>5 DEF FilesHeld
<1>7. Parsed(File(e, v)) /\ File(e, v) # NoFile
  BY <1>4, IntactFile, ParsedIsFile
<1>8. FilesHeld'
  BY <1>1, <1>6, <1>7 DEF FilesHeld
<1>9. TreeTypeOK'
  BY <1>1, <1>6, <1>7 DEF TreeTypeOK
<1>10. HashesHeld' /\ PairsHeld' /\ ClaimIsPayable'
  BY <1>1, <1>2 DEF HashesHeld, PairsHeld, ClaimIsPayable, Root
<1>11. \A d \in TreeEpochs : 1 .. published[d] \subseteq 1 .. published'[d]
  <2>1. \A d \in TreeEpochs \ {e} : published'[d] = published[d]
    BY <1>6
  <2>2. 1 .. published[e] \subseteq 1 .. published'[e]
    BY <1>3, <1>4 DEF v
  <2> QED
    BY <2>1, <2>2
<1>12. ASSUME Traced PROVE Traced'
  <2>1. ASSUME NEW d \in TreeEpochs, NEW f, Genuine(f, d) \/ (damage = 1 /\ Faulty(f, d))
        PROVE  (Genuine(f, d) \/ (damage = 1 /\ Faulty(f, d)))'
    <3>1. CASE Genuine(f, d)
      BY <1>2, <1>11, <3>1 DEF Genuine
    <3>2. CASE damage = 1 /\ Faulty(f, d)
      BY <1>1, <1>2, <1>11, <3>2 DEF Faulty, Damaged, Ours
    <3> QED
      BY <2>1, <3>1, <3>2
  <2>2. ASSUME NEW f, f = File(e, v) PROVE Genuine(f, e)'
    <3>1. PICK w \in 1 .. 2 : w = v
      BY <1>4
    <3>2. w \in 1 .. published'[e] /\ f = File(e, w)
      BY <1>4, <2>2, <3>1
    <3>3. f = File(e, w)'
      BY <1>2, <3>2
    <3> QED
      BY <3>2, <3>3 DEF Genuine
  <2>3. ASSUME NEW d \in TreeEpochs, NEW f \in {served'[d], kept'[d]} \ {NoFile}
        PROVE  (Genuine(f, d) \/ (damage = 1 /\ Faulty(f, d)))'
    <3>1. CASE f \in {served[d], kept[d]}
      BY <1>12, <2>1, <3>1 DEF Traced
    <3>2. CASE d = e /\ f = File(e, v)
      BY <2>2, <3>2
    <3> QED
      BY <1>1, <1>6, <3>1, <3>2
  <2> QED
    BY <2>3 DEF Traced, NoFile
<1>13. ASSUME SignedWasPublished PROVE SignedWasPublished'
  BY <1>1, <1>2, <1>11, <1>13 DEF SignedWasPublished, PairsHeld, Root
<1> QED
  BY <1>2, <1>8, <1>9, <1>10, <1>12, <1>13

LEMMA TracedKeeps ==
  ASSUME World, Traced, UNCHANGED <<rank, rewarded, edition, published, served, kept, damage>>
  PROVE  Traced'
  BY WorldKeeps DEF Traced, Genuine, Faulty, Damaged, Ours

LEMMA FinalizeKeeps ==
  ASSUME TreeInv, NEW e \in TreeEpochs, FinalizeRoot(e)
  PROVE  TreeInv' /\ (Traced => Traced') /\ (SignedWasPublished => SignedWasPublished')
<1> USE DEF TreeInv
<1> HIDE DEF NoFile
<1>1. UNCHANGED <<rank, rewarded, edition, published, served, kept, signed, claimed, damage>>
  BY DEF FinalizeRoot
<1>2. World' /\ \A d, v : File(d, v)' = File(d, v) /\ Bodies(d, v)' = Bodies(d, v)
  BY <1>1, WorldKeeps
<1>3. HashesHeld'
  <2>1. hash' = [hash EXCEPT ![e] = Root(e, 2)]
    BY DEF FinalizeRoot
  <2> QED
    BY <1>2, <2>1 DEF HashesHeld, Root
<1>4. FilesHeld' /\ TreeTypeOK' /\ PairsHeld' /\ ClaimIsPayable'
  BY <1>1, <1>2 DEF FilesHeld, TreeTypeOK, PairsHeld, ClaimIsPayable
<1>5. ASSUME Traced PROVE Traced'
  BY <1>1, <1>5, TracedKeeps
<1>6. ASSUME SignedWasPublished PROVE SignedWasPublished'
  BY <1>1, <1>2, <1>6 DEF SignedWasPublished, Root
<1> QED
  BY <1>2, <1>3, <1>4, <1>5, <1>6

(* The first damage hits a genuine file, as one thing at most goes wrong.  *)
LEMMA DamageKeeps ==
  ASSUME TreeInv, NEW e \in TreeEpochs, DamageFile(e)
  PROVE  /\ TreeInv' /\ (MaxFileFaults <= 1 /\ Traced => Traced')
         /\ (SignedWasPublished => SignedWasPublished')
<1> USE DEF TreeInv
<1> HIDE DEF NoFile
<1>1. UNCHANGED <<rank, rewarded, edition, published, kept, hash, signed, claimed>>
  BY DEF DamageFile
<1>2. World' /\ \A d, v : File(d, v)' = File(d, v) /\ Bodies(d, v)' = Bodies(d, v)
  BY <1>1, WorldKeeps
<1>3. PICK g \in Damaged(served[e]) : served' = [served EXCEPT ![e] = g]
  BY DEF DamageFile
<1>4. served[e] # NoFile /\ damage \in Nat /\ damage < MaxFileFaults /\ damage' = damage + 1
  BY DEF DamageFile, Damage, TreeTypeOK
<1>5. Parsed(served[e]) /\ Parsed(g) /\ g # NoFile
  <2>1. Parsed(served[e])
    BY <1>4 DEF FilesHeld
  <2> QED
    BY <2>1, DamagedParsed, ParsedIsFile
<1>6. /\ served' = [d \in TreeEpochs |-> served'[d]] /\ served'[e] = g
      /\ \A d \in TreeEpochs \ {e} : served'[d] = served[d]
  BY <1>3 DEF FilesHeld
<1>7. FilesHeld'
  BY <1>1, <1>5, <1>6 DEF FilesHeld
<1>8. TreeTypeOK'
  <2>1. damage' \in 0 .. MaxFileFaults
    BY <1>4, TreeAssumption
  <2> QED
    BY <1>1, <1>4, <1>5, <1>6, <2>1 DEF TreeTypeOK
<1>9. HashesHeld' /\ PairsHeld' /\ ClaimIsPayable'
  BY <1>1, <1>2 DEF HashesHeld, PairsHeld, ClaimIsPayable, Root
<1>10. ASSUME MaxFileFaults <= 1, Traced PROVE Traced'
  <2>1. damage = 0 /\ damage' = 1
    BY <1>4, <1>10, TreeAssumption
  <2>2. \A d \in TreeEpochs : \A f \in {served[d], kept[d]} \ {NoFile} : Genuine(f, d)
    BY <1>10, <2>1 DEF Traced
  <2>3. ASSUME NEW d \in TreeEpochs, NEW f, Genuine(f, d) PROVE Genuine(f, d)'
    BY <1>1, <1>2, <2>3 DEF Genuine
  <2>4. Faulty(g, e)'
    <3>1. PICK v \in 1 .. published[e] : served[e] = File(e, v)
      BY <1>4, <2>2 DEF Genuine
    <3>2. \E w \in 1 .. published[e] : g \in Damaged(File(e, w))
      BY <3>1
    <3> QED
      BY <1>1, <1>2, <3>2 DEF Faulty, Damaged, Ours
  <2>5. ASSUME NEW d \in TreeEpochs, NEW f \in {served'[d], kept'[d]} \ {NoFile}
        PROVE  (Genuine(f, d) \/ (damage = 1 /\ Faulty(f, d)))'
    <3>1. CASE f \in {served[d], kept[d]}
      BY <2>2, <2>3, <3>1
    <3>2. CASE d = e /\ f = g
      BY <2>1, <2>4, <3>2
    <3> QED
      BY <1>1, <1>6, <3>1, <3>2
  <2> QED
    BY <2>5 DEF Traced, NoFile
<1>11. ASSUME SignedWasPublished PROVE SignedWasPublished'
  BY <1>1, <1>2, <1>11 DEF SignedWasPublished, Root
<1> QED
  BY <1>2, <1>7, <1>8, <1>9, <1>10, <1>11

(* A copy is like the file it is taken from, unless it is misfiled; then   *)
(* that file was genuine, and the copy is another epoch's.                 *)
LEMMA KeepKeeps ==
  ASSUME TreeInv, NEW e \in TreeEpochs, NEW d \in TreeEpochs, KeepFile(e, d)
  PROVE  /\ TreeInv' /\ (MaxFileFaults <= 1 /\ Traced => Traced')
         /\ (SignedWasPublished => SignedWasPublished')
<1> USE DEF TreeInv
<1> HIDE DEF NoFile
<1>1. UNCHANGED <<rank, rewarded, edition, published, served, hash, signed, claimed>>
  BY DEF KeepFile
<1>2. World' /\ \A i, v : File(i, v)' = File(i, v) /\ Bodies(i, v)' = Bodies(i, v)
  BY <1>1, WorldKeeps
<1>3. /\ served[d] # NoFile /\ kept' = [kept EXCEPT ![e] = served[d]] /\ damage \in Nat
      /\ \/ e = d /\ damage' = damage
         \/ e # d /\ damage < MaxFileFaults /\ damage' = damage + 1
  BY DEF KeepFile, Damage, TreeTypeOK
<1>4. /\ kept' = [i \in TreeEpochs |-> kept'[i]] /\ kept'[e] = served[d]
      /\ \A i \in TreeEpochs \ {e} : kept'[i] = kept[i]
  BY <1>3 DEF FilesHeld
<1>5. FilesHeld'
  BY <1>1, <1>3, <1>4 DEF FilesHeld
<1>6. TreeTypeOK'
  <2>1. damage' \in 0 .. MaxFileFaults
    BY <1>3, TreeAssumption DEF TreeTypeOK
  <2> QED
    BY <1>1, <2>1 DEF TreeTypeOK
<1>7. HashesHeld' /\ PairsHeld' /\ ClaimIsPayable'
  BY <1>1, <1>2 DEF HashesHeld, PairsHeld, ClaimIsPayable, Root
<1>8. ASSUME MaxFileFaults <= 1, Traced PROVE Traced'
  <2>1. ASSUME NEW i \in TreeEpochs, NEW f, Genuine(f, i) PROVE Genuine(f, i)'
    BY <1>1, <1>2, <2>1 DEF Genuine
  <2>2. ASSUME NEW i \in TreeEpochs, NEW f, Faulty(f, i) PROVE Faulty(f, i)'
    BY <1>1, <1>2, <2>2 DEF Faulty, Damaged, Ours
  <2>3. CASE e = d
    BY <1>1, <1>3, <1>4, <1>8, <2>1, <2>2, <2>3 DEF Traced
  <2>4. CASE e # d
    <3>1. damage = 0 /\ damage' = 1
      BY <1>3, <1>8, <2>4, TreeAssumption
    <3>2. \A i \in TreeEpochs : \A f \in {served[i], kept[i]} \ {NoFile} : Genuine(f, i)
      BY <1>8, <3>1 DEF Traced
    <3>3. PICK v \in 1 .. published[d] : served[d] = File(d, v)
      BY <1>3, <3>2 DEF Genuine
    <3>4. v \in 1 .. 2
      BY <3>3 DEF TreeTypeOK
    <3>5. ASSUME NEW f, f = served[d] PROVE Faulty(f, e)'
      <4>1. Faulty(f, e)
        BY <2>4, <3>3, <3>4, <3>5 DEF Faulty
      <4> QED
        BY <2>2, <4>1
    <3>6. ASSUME NEW i \in TreeEpochs, NEW f \in {served'[i], kept'[i]} \ {NoFile}
          PROVE  (Genuine(f, i) \/ (damage = 1 /\ Faulty(f, i)))'
      <4>1. CASE f \in {served[i], kept[i]}
        BY <2>1, <3>2, <4>1
      <4>2. CASE i = e /\ f = served[d]
        BY <3>1, <3>5, <4>2
      <4> QED
        BY <1>1, <1>4, <4>1, <4>2
    <3> QED
      BY <3>6 DEF Traced, NoFile
  <2> QED
    BY <2>3, <2>4
<1>9. ASSUME SignedWasPublished PROVE SignedWasPublished'
  BY <1>1, <1>2, <1>9 DEF SignedWasPublished, Root
<1> QED
  BY <1>2, <1>5, <1>6, <1>7, <1>8, <1>9

(* A root that is signed is a published one: what may be wrong with the    *)
(* file is another part of it, or it is not signable.                      *)
LEMMA SignKeeps ==
  ASSUME TreeInv, NEW e \in TreeEpochs, SignRewards(e)
  PROVE  TreeInv' /\ (Traced => Traced') /\ (Traced /\ SignedWasPublished => SignedWasPublished')
<1> USE DEF TreeInv
<1> HIDE DEF NoFile
<1> DEFINE f == GetRewardData(e)
<1>1. /\ UNCHANGED <<rank, rewarded, edition, published, served, kept, hash, claimed, damage>>
      /\ f # NoFile /\ Signable(e, f) /\ signed' = signed \cup {<<e, f.root, f.count>>}
  BY DEF SignRewards
<1>2. World' /\ \A d, v : File(d, v)' = File(d, v) /\ Bodies(d, v)' = Bodies(d, v)
  BY <1>1, WorldKeeps
<1>3. f \in {served[e], kept[e]} \ {NoFile}
  BY <1>1 DEF GetRewardData
<1> HIDE DEF f
<1>4. PairsHeld'
  <2>1. \A s \in signed' : s \in signed \/ s = <<e, f.root, f.count>>
    BY <1>1
  <2> QED
    BY <1>1, <2>1 DEF PairsHeld
<1>5. FilesHeld' /\ TreeTypeOK' /\ HashesHeld' /\ ClaimIsPayable'
  BY <1>1, <1>2 DEF FilesHeld, TreeTypeOK, HashesHeld, ClaimIsPayable, Root
<1>6. ASSUME Traced PROVE Traced'
  BY <1>1, <1>6, TracedKeeps
<1>7. ASSUME Traced, SignedWasPublished PROVE SignedWasPublished'
  <2>1. \E v \in 1 .. published[e] : f.root = Root(e, v)
    <3>1. CASE Genuine(f, e)
      BY <3>1 DEF Genuine, Root
    <3>2. CASE \E v \in 1 .. published[e] : f \in Damaged(File(e, v))
      <4>1. PICK v \in 1 .. published[e] : f \in Damaged(File(e, v))
        BY <3>2
      <4>2. v \in 1 .. 2
        BY <4>1 DEF TreeTypeOK
      <4> DEFINE g == File(e, v)
      <4>3. /\ g = [epoch |-> g.epoch, root |-> g.root, count |-> g.count, claims |-> g.claims] /\ g.epoch = e
            /\ g.claims # {} /\ BuildRewardMerkleRoot(BodiesOf(g)) = g.root /\ g.root # WrongRoot
        BY <4>2, IntactFile DEF Parsed
      <4> HIDE DEF g
      <4>4. CASE f = [g EXCEPT !.root = WrongRoot]
        <5>1. f.claims = g.claims /\ f.root = WrongRoot
          BY <4>3, <4>4
        <5> QED
          BY <1>1, <4>3, <5>1 DEF Signable, BodiesOf
      <4>5. CASE \E d \in TreeEpochs \ {g.epoch} : f = [g EXCEPT !.epoch = d]
        BY <1>1, <4>3, <4>5 DEF Signable
      <4>6. CASE f = [g EXCEPT !.count = 1] \/ \E claims : f = [g EXCEPT !.claims = claims]
        <5>1. f.root = g.root
          BY <4>3, <4>6
        <5> QED
          BY <5>1 DEF g, Root
      <4>7. f \in Damaged(g)
        BY <4>1 DEF g
      <4>8. \/ f = [g EXCEPT !.root = WrongRoot] \/ f = [g EXCEPT !.claims = {}]
            \/ f = [g EXCEPT !.count = 1] \/ \E d \in TreeEpochs \ {g.epoch} : f = [g EXCEPT !.epoch = d]
            \/ \E c \in g.claims : f = [g EXCEPT !.claims = (@ \ {c}) \cup {[c EXCEPT !.body.amount = @ + 5]}]
            \/ \E c \in g.claims : f = [g EXCEPT !.claims = (@ \ {c}) \cup {[c EXCEPT !.proof = <<WrongRoot>>]}]
        BY <4>7 DEF Damaged, Ours
      <4> QED
        BY <4>4, <4>5, <4>6, <4>8
    <3>3. CASE \E d \in TreeEpochs \ {e}, v \in 1 .. 2 : f = File(d, v)
      BY <1>1, <3>3, IntactFile DEF Signable
    <3> QED
      BY <1>3, <1>7, <3>1, <3>2, <3>3 DEF Traced, Faulty
  <2>2. \A s \in signed' : s \in signed \/ (s[1] = e /\ s[2] = f.root)
    BY <1>1
  <2> QED
    BY <1>1, <1>2, <1>7, <2>1, <2>2 DEF SignedWasPublished, Root
<1> QED
  BY <1>2, <1>4, <1>5, <1>6, <1>7

(* What is claimed verifies against the finalized root, so it is one of    *)
(* the claims under it.                                                    *)
LEMMA ClaimKeeps ==
  ASSUME TreeInv, NEW e \in TreeEpochs, ClaimReward(e)
  PROVE  TreeInv' /\ (Traced => Traced') /\ (SignedWasPublished => SignedWasPublished')
<1> USE DEF TreeInv
<1> HIDE DEF NoFile
<1> DEFINE f == GetRewardData(e)
           A == Bodies(e, 2)
<1>1. /\ UNCHANGED <<rank, rewarded, edition, published, served, kept, hash, signed, damage>>
      /\ f # NoFile /\ hash[e] # ZeroRoot
      /\ claimed' = claimed \cup {<<e, c.body>> : c \in RewardClaims(f, hash[e])}
  BY DEF ClaimReward
<1>2. World' /\ \A d, v : File(d, v)' = File(d, v) /\ Bodies(d, v)' = Bodies(d, v)
  BY <1>1, WorldKeeps
<1>3. f \in {served[e], kept[e]} \ {NoFile}
  BY <1>1 DEF GetRewardData
<1>4. Parsed(f)
  BY <1>3 DEF FilesHeld
<1>5. /\ A \subseteq Body /\ IsFiniteSet(A) /\ A # {} /\ rank \in Ranks
      /\ hash[e] = BuildRewardMerkleRoot(A)
  BY <1>1, BodiesFinite, IntactFile DEF HashesHeld, Root, World
<1> HIDE DEF f
<1>6. ASSUME NEW c \in RewardClaims(f, hash[e]) PROVE c.body \in A
  <2>1. /\ c \in f.claims /\ f.root = hash[e] /\ VerifyProof(Leaf(c.body), c.proof, f.root)
    BY <1>6 DEF RewardClaims, Ours
  <2>2. Len(c.proof) \in Nat
    BY <1>4, <2>1 DEF Parsed
  <2> HIDE DEF A
  <2> QED
    BY <1>5, <2>1, <2>2, OnlyClaimsVerify
<1>7. \A p \in claimed' : p \in claimed \/ (p[1] = e /\ p[2] \in A)
  <2> HIDE DEF A
  <2> QED
    BY <1>1, <1>6
<1>8. ClaimIsPayable' /\ PairsHeld'
  BY <1>1, <1>2, <1>7 DEF ClaimIsPayable, PairsHeld
<1>9. FilesHeld' /\ TreeTypeOK' /\ HashesHeld'
  BY <1>1, <1>2 DEF FilesHeld, TreeTypeOK, HashesHeld, Root
<1>10. ASSUME Traced PROVE Traced'
  BY <1>1, <1>10, TracedKeeps
<1>11. ASSUME SignedWasPublished PROVE SignedWasPublished'
  BY <1>1, <1>2, <1>11 DEF SignedWasPublished, Root
<1> QED
  BY <1>2, <1>8, <1>9, <1>10, <1>11

LEMMA TreeKeeps ==
  ASSUME TreeInv, [Next]_vars
  PROVE  /\ TreeInv'
         /\ MaxFileFaults <= 1 /\ Traced /\ SignedWasPublished => (Traced /\ SignedWasPublished)'
<1>1. CASE TreeNext
  BY <1>1, PublishKeeps, FinalizeKeeps, DamageKeeps, KeepKeeps, SignKeeps, ClaimKeeps DEF TreeNext
<1>2. CASE UNCHANGED treeVars
  <2>1. UNCHANGED <<rank, rewarded, edition, published, served, kept, hash, signed, claimed, damage>>
    BY <1>2 DEF treeVars
  <2>2. World' /\ \A d, v : File(d, v)' = File(d, v) /\ Bodies(d, v)' = Bodies(d, v)
    BY <2>1, WorldKeeps DEF TreeInv
  <2>3. TreeInv'
    BY <2>1, <2>2 DEF TreeInv, FilesHeld, TreeTypeOK, HashesHeld, PairsHeld, ClaimIsPayable, Root
  <2>4. Traced => Traced'
    BY <2>1, TracedKeeps DEF TreeInv
  <2>5. SignedWasPublished => SignedWasPublished'
    BY <2>1, <2>2 DEF SignedWasPublished, Root
  <2> QED
    BY <2>3, <2>4, <2>5
<1> QED
  BY <1>1, <1>2 DEF Next, vars
-----------------------------------------------------------------------------
(***************************************************************************)
(* The theorems.                                                           *)
(***************************************************************************)
LEMMA TreeAlways == Spec => []TreeInv
<1>1. Init => TreeInv
  BY TreeStarts DEF Init
<1>2. TreeInv /\ [Next]_vars => TreeInv'
  BY TreeKeeps
<1> QED
  BY <1>1, <1>2, PTL DEF Spec

(* A reward claim that clif builds is a leaf of the tree whose root is on  *)
(* chain: however many parts of however many files are damaged, outdated   *)
(* or misfiled, whoever is rewarded, and however the hashes are ordered.   *)
THEOREM ClaimIsPayableHolds == Spec => []ClaimIsPayable
<1>1. TreeInv => ClaimIsPayable
  BY DEF TreeInv
<1> QED
  BY <1>1, TreeAlways, PTL

(* An intact file passes the guards of run_sign_rewards and of             *)
(* reward_claim_for, for any number of claims: clif's flat array and the   *)
(* calculator's tree have one root, and every proof leads there.           *)
THEOREM IntactFileAcceptedHolds == Spec => []IntactFileAccepted
<1>1. TreeInv => IntactFileAccepted
  <2> SUFFICES ASSUME TreeInv, NEW e \in TreeEpochs, published[e] = 2, served[e] = File(e, 2)
               PROVE  /\ Signable(e, served[e])
                      /\ Me \in rewarded => RewardClaims(served[e], Root(e, 2)) # {}
    BY DEF IntactFileAccepted
  <2> DEFINE f == File(e, 2)
  <2>1. /\ f.epoch = e /\ BodiesOf(f) = Bodies(e, 2) /\ f.root = BuildRewardMerkleRoot(Bodies(e, 2))
        /\ \A c \in f.claims : VerifyProof(Leaf(c.body), c.proof, f.root)
    BY IntactFile DEF TreeInv
  <2>2. Signable(e, f)
    BY <2>1 DEF Signable
  <2>3. ASSUME Me \in rewarded PROVE RewardClaims(f, f.root) # {}
    <3>1. [epoch |-> e, who |-> Me, amount |-> 2] \in BodiesOf(f)
      BY <2>1, <2>3 DEF Bodies
    <3> HIDE DEF f
    <3>2. PICK c \in f.claims : c.body = [epoch |-> e, who |-> Me, amount |-> 2]
      BY <3>1 DEF BodiesOf
    <3>3. c \in Ours(f)
      BY <3>2 DEF Ours
    <3> QED
      BY <2>1, <3>2, <3>3 DEF RewardClaims
  <2> QED
    BY <2>2, <2>3 DEF Root
<1> QED
  BY <1>1, TreeAlways, PTL

(* A root we have signed for an epoch is one the calculator published for  *)
(* that epoch, as long as only one thing is wrong with the files: one part *)
(* damaged, or one copy misfiled.  (With two, a copy of another epoch's    *)
(* file with its epoch damaged as well passes every guard.)                *)
THEOREM SignedWasPublishedHolds ==
  ASSUME MaxFileFaults <= 1
  PROVE  Spec => []SignedWasPublished
<1> DEFINE Inv == TreeInv /\ Traced /\ SignedWasPublished
<1>1. Init => Inv
  BY TreeStarts DEF Init
<1>2. Inv /\ [Next]_vars => Inv'
  BY TreeKeeps
<1>3. Inv => SignedWasPublished
  OBVIOUS
<1> QED
  BY <1>1, <1>2, <1>3, PTL DEF Spec
-----------------------------------------------------------------------------
(***************************************************************************)
(* Types of the four parts.                                                *)
(***************************************************************************)
(* Every part keeps to its values: the daemon never sleeps past its        *)
(* interval, no scan leaves the blocks there are, a published file stays   *)
(* on the site, a token counts mintings.                                   *)
THEOREM TypeCorrect == Spec => []TypeOK
<1>1. ASSUME ScanType, ReportOK PROVE ProgressTypeOK
  <2>1. cache = NoReport \/ cache \in [votes : SUBSET Vote, hi : 0 .. head, from : 0 .. head, complete : BOOLEAN]
    BY <1>1, ScanAssumption DEF ScanType, Cached
  <2> QED
    BY <1>1, <2>1 DEF ScanType, ReportOK, Counted, ProgressTypeOK
<1>2. RegInv /\ ProgressInv /\ TreeInv /\ ImportInv => TypeOK
  BY <1>1 DEF RegInv, WorldOK, ProgressInv, TreeInv, ImportInv, FilesOK, TypeOK
<1> QED
  BY <1>2, RegAlways, ProgressAlways, TreeAlways, ImportAlways, PTL
=============================================================================
