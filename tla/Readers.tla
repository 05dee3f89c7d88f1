------------------------------ MODULE Readers ------------------------------
(***************************************************************************)
(* Four parts of clif that read and report, accept or refuse: the          *)
(* registration daemon, the signing narration, the verification of reward  *)
(* data and the import of credentials.  They share nothing, so one         *)
(* behaviour follows one of them.                                          *)
(***************************************************************************)
EXTENDS Registration, SigningProgress, RewardTree, Credentials

CONSTANT Parts   \* the parts a behaviour may follow

ASSUME PartsAssumption == Parts \subseteq {"registration", "progress", "rewards", "credentials"}

VARIABLE part    \* the one it follows

vars == <<regVars, progressVars, treeVars, importVars, part>>

(* A part that is not followed stays at one initial state.                 *)
Init ==
  /\ RegInit /\ ProgressInit /\ TreeInit /\ ImportInit /\ part \in Parts
  /\ part # "registration" => registered = {}
  /\ part # "rewards" => rewarded = (CHOOSE W \in Rewardees : TRUE) /\ rank = (CHOOSE r \in Ranks : TRUE)
  /\ part # "credentials" => env = (CHOOSE e \in [Networks -> EnvFiles] : TRUE)

Next ==
  \/ part = "registration" /\ RegNext /\ UNCHANGED <<progressVars, treeVars, importVars, part>>
  \/ part = "progress" /\ ProgressNext /\ UNCHANGED <<regVars, treeVars, importVars, part>>
  \/ part = "rewards" /\ TreeNext /\ UNCHANGED <<regVars, progressVars, importVars, part>>
  \/ part = "credentials" /\ ImportNext /\ UNCHANGED <<regVars, progressVars, treeVars, part>>

Spec == Init /\ [][Next]_vars

(* Type invariant of the four parts: the daemon never sleeps past its     *)
(* interval, no scan leaves the chain's blocks.                            *)
TypeOK == RegTypeOK /\ ProgressTypeOK /\ TreeTypeOK /\ ImportTypeOK
============================================================================
