----------------------------- MODULE MCReaders -----------------------------
(* A small instance of Readers for TLC: one signer with twice the weight   *)
(* of the others; our leaf at every place among those of four voters; env  *)
(* files with a token set twice, and with settings of the operator.        *)
EXTENDS Readers

MCWeight == [s \in Signers |-> IF s = "a" THEN 2 ELSE 1]
MCRanks  == {[v \in Voters |-> IF v = Me THEN 2 * p - 1 ELSE 2 * v] : p \in 1 .. Cardinality(Voters)}
MCRewardees == {{Me}, {Me, 1, 2}, Voters, {1, 2}}

Line(n, v) == [name |-> n, value |-> v]
MCEnvFiles ==
  {<<>>,
   <<Line("claim", 0), Line("own", 1), Line("claim", 0), Line("own", 2)>>,
   <<Line("own", 1), Line("fsp", 0), Line("config", 0), Line("NETWORK", 0)>>}
============================================================================
