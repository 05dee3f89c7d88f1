----------------------------- MODULE RewardTree -----------------------------
(***************************************************************************)
(* The reward data of an epoch and what clif verifies of it before it      *)
(* signs or claims (clif/merkle.py, clif/reward_data.py, the guards of     *)
(* fsp.run_sign_rewards and discovery.reward_claim_for).  The calculator   *)
(* publishes a file of claims with their Merkle proofs and root, may       *)
(* publish it again with other amounts, and the network finalizes the root *)
(* of the last version.  What clif reads may be an outdated or a damaged   *)
(* copy: the published file, or one an operator keeps under rewards-data.  *)
(*                                                                         *)
(* keccak256 is an injective constructor.  A node sorts its two children,  *)
(* so it is the unordered pair.  The order of the leaves is the order of   *)
(* their hashes, which is any order: rank.  The two forms of the file (one *)
(* for signing, one for claiming) are published and damaged alike.         *)
(***************************************************************************)
EXTENDS Integers, Sequences, FiniteSets

CONSTANTS
  Voters, Me,       \* beneficiaries with a reward; ours
  TreeEpochs,       \* the reward epochs whose files are around
  Rewardees,        \* the sets of voters an epoch may reward, never empty
  Ranks,            \* the orders of the leaf hashes that are considered
  FileFaults,       \* the kinds of damage a file may take
  MaxFileFaults     \* bound: how many of them one behaviour contains

ASSUME TreeAssumption ==
  /\ Me \in Voters /\ MaxFileFaults \in Nat /\ TreeEpochs \subseteq Nat
  /\ \A W \in Rewardees : W \subseteq Voters /\ W # {} /\ IsFiniteSet(W)
  /\ \A r \in Ranks : r \in [Voters -> Int] /\ \A v, w \in Voters : r[v] = r[w] => v = w

NoFile == <<>>   \* Python's None; a file has fields

VARIABLES
  rank,       \* where a voter's leaf hash comes in the order of all hashes
  rewarded,   \* the voters with a reward
  edition,    \* the two versions of each epoch's file; constant
  published,  \* the last version the calculator published, 0 before the first
  served,     \* the file the calculator's site serves, per epoch
  kept,       \* the file the operator keeps, per epoch
  hash,       \* rewardsHash on chain, per epoch
  signed,     \* <<epoch, root, count>> we asked fwd to sign
  claimed,    \* <<epoch, body>> pairs we built a claim for
  damage

treeVars == <<rank, rewarded, edition, published, served, kept, hash, signed, claimed, damage>>
-----------------------------------------------------------------------------
Leaf(body) == <<"leaf", body>>
(* Mutant: the pair is hashed in the order given.                          *)
NodeUnsorted(x, y) == <<"node", x, y>>

Node(x, y) == <<"node", {x, y}>>
ZeroRoot  == <<"zero">>
WrongRoot == <<"wrong">>

(* The order of the hashes of the leaves.                                  *)
Before(b, c) ==
  \/ b.epoch < c.epoch
  \/ b.epoch = c.epoch /\ rank[b.who] < rank[c.who]
  \/ b.epoch = c.epoch /\ b.who = c.who /\ b.amount < c.amount

(* sorted(set(leaves)).                                                    *)
SortedUnique(bodies) ==
  LET n      == Cardinality(bodies)
      sorted == CHOOSE s \in [1 .. n -> bodies] : \A i, j \in 1 .. n : i < j => Before(s[i], s[j])
  IN  [i \in 1 .. n |-> Leaf(sorted[i])]

(* The flat array of the tree: internal nodes 0 .. n-2, leaves n-1 .. 2n-2.*)
Tree(leaves) ==
  LET n == Len(leaves)
      tree[i \in 0 .. 2 * n - 2] ==
        IF i >= n - 1 THEN leaves[i - n + 2] ELSE Node(tree[2 * i + 1], tree[2 * i + 2])
  IN  tree

BuildRewardMerkleRoot(bodies) ==
  IF bodies = {} THEN ZeroRoot ELSE Tree(SortedUnique(bodies))[0]

(* verify_proof: h[i] is the hash after i siblings.                        *)
Folded(leaf, proof) ==
  LET h[i \in 0 .. Len(proof)] == IF i = 0 THEN leaf ELSE Node(proof[i], h[i - 1])
  IN  h
VerifyProof(leaf, proof, root) == Folded(leaf, proof)[Len(proof)] = root
-----------------------------------------------------------------------------
(***************************************************************************)
(* The calculator: version v of an epoch's file.                           *)
(***************************************************************************)
Bodies(e, v) == {[epoch |-> e, who |-> w, amount |-> v] : w \in rewarded}

(* The binary tree that the reward manager contract expects: the hash at   *)
(* each place, and the siblings on the way from there to the root.         *)
HashAt(leaves) ==
  LET n == Len(leaves)
      sub[i \in 0 .. 2 * n - 2] ==
        IF i >= n - 1 THEN leaves[i - n + 2] ELSE <<"node", {sub[2 * i + 1], sub[2 * i + 2]}>>
  IN  sub
Siblings(leaves) ==
  LET up[i \in 0 .. 2 * Len(leaves) - 2] ==
        IF i = 0 THEN <<>>
        ELSE <<HashAt(leaves)[IF i % 2 = 0 THEN i - 1 ELSE i + 1]>> \o up[(i - 1) \div 2]
  IN  up

ProofOf(body, leaves) ==
  LET n     == Len(leaves)
      place == CHOOSE i \in n - 1 .. 2 * n - 2 : leaves[i - n + 2] = Leaf(body)
  IN  Siblings(leaves)[place]

FileOf(e, v) ==
  LET leaves == SortedUnique(Bodies(e, v))
  IN  [epoch |-> e, root |-> HashAt(leaves)[0], count |-> 0,
       claims |-> {[body |-> b, proof |-> ProofOf(b, leaves)] : b \in Bodies(e, v)}]
File(e, v) == edition[e][v]
Root(e, v) == File(e, v).root

TreeInit ==
  /\ rank \in Ranks /\ rewarded \in Rewardees
  /\ edition = [e \in TreeEpochs |-> [v \in 1 .. 2 |-> FileOf(e, v)]]
  /\ published = [e \in TreeEpochs |-> 0]
  /\ served = [e \in TreeEpochs |-> NoFile] /\ kept = [e \in TreeEpochs |-> NoFile]
  /\ hash = [e \in TreeEpochs |-> ZeroRoot]
  /\ signed = {} /\ claimed = {} /\ damage = 0

(* A first version, then a corrected one, which the network finalizes;     *)
(* days later the next epoch's.                                            *)
PublishFile(e) ==
  /\ published[e] < 2 /\ \A d \in TreeEpochs : d < e => hash[d] # ZeroRoot
  /\ published' = [published EXCEPT ![e] = @ + 1]
  /\ served' = [served EXCEPT ![e] = File(e, published'[e])]
  /\ UNCHANGED <<rank, rewarded, edition, kept, hash, signed, claimed, damage>>

FinalizeRoot(e) ==
  /\ published[e] = 2 /\ hash[e] = ZeroRoot /\ hash' = [hash EXCEPT ![e] = Root(e, 2)]
  /\ UNCHANGED <<rank, rewarded, edition, published, served, kept, signed, claimed, damage>>

Damage(kind) == kind \in FileFaults /\ damage < MaxFileFaults /\ damage' = damage + 1

(* One part of a file is wrong: an amount, a proof, the root, the epoch,   *)
(* the number of weight-based claims, or the claims are missing.  (The     *)
(* proofs of others are never read.)                                       *)
Ours(f) == {c \in f.claims : c.body.who = Me}
Damaged(f) ==
  {[f EXCEPT !.root = WrongRoot], [f EXCEPT !.claims = {}], [f EXCEPT !.count = 1]}
  \cup {[f EXCEPT !.epoch = d] : d \in TreeEpochs \ {f.epoch}}
  \cup {[f EXCEPT !.claims = (@ \ {c}) \cup {[c EXCEPT !.body.amount = @ + 5]}] : c \in f.claims}
  \cup {[f EXCEPT !.claims = (@ \ {c}) \cup {[c EXCEPT !.proof = <<WrongRoot>>]}] : c \in Ours(f)}

DamageFile(e) ==
  /\ served[e] # NoFile /\ Damage("damaged")
  /\ served' \in {[served EXCEPT ![e] = f] : f \in Damaged(served[e])}
  /\ UNCHANGED <<rank, rewarded, edition, published, kept, hash, signed, claimed>>

(* The operator keeps a copy, once; under the wrong epoch by mistake.      *)
KeepFile(e, d) ==
  /\ served[d] # NoFile /\ kept[e] = NoFile
  /\ \/ e = d /\ UNCHANGED damage
     \/ e # d /\ Damage("misfiled")
  /\ kept' = [kept EXCEPT ![e] = served[d]]
  /\ UNCHANGED <<rank, rewarded, edition, published, served, hash, signed, claimed>>
-----------------------------------------------------------------------------
(***************************************************************************)
(* clif.                                                                   *)
(***************************************************************************)
(* get_reward_distribution_data, get_reward_calculation_data: the local    *)
(* copy first.                                                             *)
GetRewardData(e) == IF kept[e] # NoFile THEN kept[e] ELSE served[e]

BodiesOf(f) == {c.body : c \in f.claims}

(* Mutant: the root in the file is taken on trust.                         *)
SignableUnverified(e, f) == f.epoch = e

(* run_sign_rewards: bound to the epoch; the root is the claims' (a file   *)
(* without claims has none to verify).  Nothing is held against the count  *)
(* of weight-based claims, which is signed with the root.                  *)
Signable(e, f) ==
  /\ f.epoch = e
  /\ f.claims # {} => BuildRewardMerkleRoot(BodiesOf(f)) = f.root

SignRewards(e) ==
  /\ GetRewardData(e) # NoFile /\ Signable(e, GetRewardData(e)) /\ hash[e] = ZeroRoot
  /\ signed' = signed \cup {<<e, GetRewardData(e).root, GetRewardData(e).count>>}
  /\ UNCHANGED <<rank, rewarded, edition, published, served, kept, hash, claimed, damage>>

(* Mutant: the proof is not followed to the root.                          *)
RewardClaimsTrusting(f, onChain) == IF f.root # onChain THEN {} ELSE Ours(f)

(* reward_claim_for: our claim, if the file's root is the chain's and the  *)
(* proof leads to it.                                                      *)
RewardClaims(f, onChain) ==
  IF f.root # onChain THEN {}
  ELSE {c \in Ours(f) : VerifyProof(Leaf(c.body), c.proof, f.root)}

ClaimReward(e) ==
  /\ GetRewardData(e) # NoFile /\ hash[e] # ZeroRoot
  /\ RewardClaims(GetRewardData(e), hash[e]) # {}
  /\ claimed' = claimed \cup {<<e, c.body>> : c \in RewardClaims(GetRewardData(e), hash[e])}
  /\ UNCHANGED <<rank, rewarded, edition, published, served, kept, hash, signed, damage>>

TreeNext ==
  \/ \E e \in TreeEpochs : PublishFile(e) \/ FinalizeRoot(e) \/ DamageFile(e)
                           \/ SignRewards(e) \/ ClaimReward(e)
  \/ \E e, d \in TreeEpochs : KeepFile(e, d)
-----------------------------------------------------------------------------
TreeTypeOK ==
  /\ published \in [TreeEpochs -> 0 .. 2] /\ damage \in 0 .. MaxFileFaults
  /\ \A e \in TreeEpochs : served[e] = NoFile <=> published[e] = 0

(* "Never sign an unverified rewardsHash": whatever one part of a file is  *)
(* damaged or misfiled, a root we have signed for an epoch is one the      *)
(* calculator published for that epoch.  It says nothing of the count that *)
(* is signed with the root.                                                *)
SignedWasPublished ==
  \A s \in signed : \E v \in 1 .. published[s[1]] : s[2] = Root(s[1], v)

(* A claim we build is a leaf of the tree whose root is on chain, so the   *)
(* contract accepts it, whichever version the file at hand is of.          *)
ClaimIsPayable == \A c \in claimed : c[2] \in Bodies(c[1], 2)

(* An intact file passes every guard, whatever the number of claims and    *)
(* the order of their hashes: the flat array and the fold of verify_proof  *)
(* agree with the binary tree.                                             *)
IntactFileAccepted ==
  \A e \in TreeEpochs :
    published[e] = 2 /\ served[e] = File(e, 2) =>
      /\ Signable(e, served[e])
      /\ Me \in rewarded => RewardClaims(served[e], Root(e, 2)) # {}
=============================================================================
