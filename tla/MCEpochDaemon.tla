--------------------------- MODULE MCEpochDaemon ---------------------------
(* Small instances of EpochDaemon for TLC.                                 *)
EXTENDS EpochDaemon, TLC

CONSTANTS fee, direct

(* Every closed epoch pays the FEE stream; the DIRECT one skips epoch 0.   *)
MCEntitled == {<<e, s>> \in (0 .. MaxEpoch) \X {fee, direct} : s \in Streams /\ (s = fee \/ e > 0)}
============================================================================
