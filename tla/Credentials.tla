---------------------------- MODULE Credentials ----------------------------
(***************************************************************************)
(* `clif import-credentials` (clif/credentials.py, clif/cli.py): fwd mints *)
(* caller tokens and drops them in a one-shot bundle; clif validates it,   *)
(* rewrites .env.<network> and deletes the bundle.  Re-minting revokes the *)
(* token before it, so importing is also how tokens are rotated.           *)
(*                                                                         *)
(* An env file maps line numbers to assignments.  A dropped line leaves a  *)
(* gap; a reader takes the last assignment of a name.  A token is the      *)
(* count of mintings of its capability.  The wallet names and settings a   *)
(* version 2 bundle carries are one name, "config"; the settings no bundle *)
(* governs are another, "own".                                             *)
(*                                                                         *)
(* There is one path for bundles, where a new one replaces the one before; *)
(* an older bundle that lies elsewhere and has not expired could still be  *)
(* imported after a newer one, and nothing in clif would notice.           *)
(***************************************************************************)
EXTENDS Integers, Sequences, FiniteSets, FiniteSetsExt

CONSTANTS
  Networks,      \* the networks (numbers), each with its env file
  Capabilities,  \* the capabilities clif requests on a network
  EnvFiles,      \* the env files an operator may have before the first import
  NoBundle,      \* no bundle at the path
  MaxMint,       \* bound: bundles fwd issues
  ImportFaults,  \* the kinds of failure an import may meet
  MaxImportFaults \* bound: how many of them

Names == Capabilities \cup {"own", "config", "NETWORK"}
Assignment == [name : Names, value : Nat]
Bundle == [network : Networks, version : 1 .. 2, valid : BOOLEAN,
           tokens : UNION {[caps -> 0 .. MaxMint] : caps \in SUBSET Capabilities}]

ASSUME CredentialsAssumption ==
  /\ MaxMint \in Nat /\ MaxImportFaults \in Nat /\ Networks \subseteq Nat
  /\ Capabilities \cap {"own", "config", "NETWORK"} = {} /\ NoBundle \notin Bundle
  /\ \A f \in EnvFiles :
       Len(f) \in Nat /\ DOMAIN f = 1 .. Len(f) /\ \A i \in 1 .. Len(f) : f[i] \in Assignment

VARIABLES
  env,       \* the env file of each network
  token,     \* fwd: the token in force, per network and capability; 0 before any
  bundle,    \* the file at the bundle's path
  ipc,       \* where the import is
  held,      \* the bundle as it was read
  text,      \* the new content of the env file
  todo,      \* the assignments it still lacks
  minted,    \* bundles issued so far
  mishaps,
  before,    \* history: the env files before the first import
  torn,      \* history: networks whose env file was cut by a failed write
  overtaken  \* history: a bundle was issued over one being imported

importVars == <<env, token, bundle, ipc, held, text, todo, minted, mishaps,
                before, torn, overtaken>>

ImportInit ==
  /\ env \in [Networks -> EnvFiles] /\ before = env
  /\ token = [n \in Networks |-> [c \in Capabilities |-> 0]]
  /\ bundle = NoBundle /\ ipc = "idle" /\ held = NoBundle /\ text = <<>> /\ todo = {}
  /\ minted = 0 /\ mishaps = 0 /\ torn = {} /\ overtaken = FALSE

Mishap(kind) == kind \in ImportFaults /\ mishaps < MaxImportFaults /\ mishaps' = mishaps + 1

(* fwd mints tokens for some capabilities; the operator asks for a bundle  *)
(* when there is none, or again for the same capabilities.                 *)
Mint(n, caps) ==
  /\ minted < MaxMint /\ minted' = minted + 1 /\ caps # {}
  /\ bundle # NoBundle => bundle.network = n /\ DOMAIN bundle.tokens \subseteq caps
  /\ token' = [token EXCEPT ![n] = [c \in Capabilities |-> @[c] + (IF c \in caps THEN 1 ELSE 0)]]
  /\ \E valid \in BOOLEAN, version \in 1 .. 2 :
       /\ IF valid THEN UNCHANGED mishaps ELSE Mishap("flawed")
       /\ bundle' = [network |-> n, version |-> version, valid |-> valid,
                     tokens |-> [c \in caps |-> token'[n][c]]]
  /\ overtaken' = (overtaken \/ ipc # "idle")
  /\ UNCHANGED <<env, ipc, held, text, todo, before, torn>>

(* The bundle's time runs out.                                             *)
BundleExpires ==
  /\ bundle # NoBundle /\ bundle.valid /\ Mishap("expired")
  /\ bundle' = [bundle EXCEPT !.valid = FALSE]
  /\ UNCHANGED <<env, token, ipc, held, text, todo, minted, before, torn, overtaken>>
-----------------------------------------------------------------------------
Assigned(lines, name) == {i \in DOMAIN lines : lines[i].name = name}

(* Where upsert_env_var puts a name: at its first line, or at the end.     *)
LineOf(lines, name) ==
  IF Assigned(lines, name) = {} THEN Max(DOMAIN lines \cup {0}) + 1
  ELSE Min(Assigned(lines, name))

(* Mutant: only the first assignment is replaced.                          *)
UpsertFirst(lines, new) ==
  [i \in DOMAIN lines \cup {LineOf(lines, new.name)} |->
     IF i = LineOf(lines, new.name) THEN new ELSE lines[i]]

(* upsert_env_var: one assignment of the name, later duplicates dropped.   *)
Upsert(lines, new) ==
  [i \in (DOMAIN lines \ Assigned(lines, new.name)) \cup {LineOf(lines, new.name)} |->
     IF i = LineOf(lines, new.name) THEN new ELSE lines[i]]

(* The assignments of a bundle: the tokens, with version 2 the wallet      *)
(* names and the config, and always the network.                           *)
Assignments(b) ==
  {[name |-> c, value |-> b.tokens[c]] : c \in DOMAIN b.tokens}
  \cup {[name |-> "config", value |-> 1] : v \in {b.version} \cap {2}}
  \cup {[name |-> "NETWORK", value |-> b.network]}

(* Mutant: the complete handoff starts a new file.                         *)
CurrentUnlessComplete(b) == IF b.version = 2 THEN <<>> ELSE env[b.network]

(* The content an import starts from.                                      *)
Current(b) == env[b.network]

(* Read and validate; an invalid or expired bundle is rejected and nothing *)
(* written.                                                                *)
ReadBundle ==
  /\ ipc = "idle" /\ bundle # NoBundle /\ bundle.valid
  /\ ipc' = "write" /\ held' = bundle /\ text' = Current(bundle) /\ todo' = Assignments(bundle)
  /\ UNCHANGED <<env, token, bundle, minted, mishaps, before, torn, overtaken>>

(* import_credentials makes one assignment after the other; their names    *)
(* differ, so the order does not matter.                                   *)
Assign ==
  /\ ipc = "write" /\ todo # {}
  /\ LET new == CHOOSE a \in todo : TRUE
     IN  text' = Upsert(text, new) /\ todo' = todo \ {new}
  /\ UNCHANGED <<env, token, bundle, ipc, held, minted, mishaps, before, torn, overtaken>>

(* write_text opens the file for writing, which empties it ...             *)
Truncate ==
  /\ ipc = "write" /\ todo = {} /\ ipc' = "writing" /\ env' = [env EXCEPT ![held.network] = <<>>]
  /\ UNCHANGED <<token, bundle, held, text, todo, minted, mishaps, before, torn, overtaken>>

(* ... and then writes.                                                    *)
WriteText ==
  /\ ipc = "writing" /\ ipc' = "consume" /\ env' = [env EXCEPT ![held.network] = text]
  /\ UNCHANGED <<token, bundle, held, text, todo, minted, mishaps, before, torn, overtaken>>

(* The write fails, or the process dies: the bundle is left for a retry.   *)
ImportStops ==
  /\ ipc # "idle" /\ Mishap("stops") /\ ipc' = "idle" /\ held' = NoBundle /\ text' = <<>> /\ todo' = {}
  /\ torn' = IF ipc = "writing" THEN torn \cup {held.network} ELSE torn
  /\ UNCHANGED <<env, token, bundle, minted, before, overtaken>>

(* The bundle is deleted only after the write.  (A failed deletion leaves  *)
(* it, as ImportStops does.)                                               *)
Consume ==
  /\ ipc = "consume" /\ ipc' = "idle" /\ bundle' = NoBundle /\ held' = NoBundle /\ text' = <<>> /\ todo' = {}
  /\ UNCHANGED <<env, token, minted, mishaps, before, torn, overtaken>>

ImportNext ==
  \/ \E n \in Networks, caps \in SUBSET Capabilities : Mint(n, caps)
  \/ BundleExpires \/ ReadBundle \/ Assign \/ Truncate \/ WriteText \/ ImportStops \/ Consume
-----------------------------------------------------------------------------
ImportTypeOK ==
  /\ ipc \in {"idle", "write", "writing", "consume"} /\ (held # NoBundle <=> ipc # "idle")
  /\ minted \in 0 .. MaxMint /\ mishaps \in 0 .. MaxImportFaults /\ torn \subseteq Networks
  /\ bundle \in Bundle \cup {NoBundle} /\ held \in Bundle \cup {NoBundle} /\ todo \subseteq Assignment
  /\ token \in [Networks -> [Capabilities -> 0 .. minted]] /\ overtaken \in BOOLEAN

(* What clif reads of an env file: the last assignment of a name.          *)
Effective(lines, name) == lines[Max(Assigned(lines, name))].value

(* When no bundle waits, clif does not run on a revoked token: what the    *)
(* env file assigns is the token in force, whatever duplicates it held and *)
(* whichever imports failed half way.  (A bundle issued over one that is   *)
(* being imported is deleted unread with it.)                              *)
NoRevokedToken ==
  bundle = NoBundle /\ ipc = "idle" /\ ~overtaken =>
    \A n \in Networks, c \in Capabilities :
      token[n][c] > 0 =>
        IF Assigned(env[n], c) # {} THEN Effective(env[n], c) = token[n][c] ELSE n \in torn

(* An import keeps what its bundle does not carry, in the file it rewrites *)
(* and in those of the other networks: over a whole import, whatever order *)
(* the bundles come in, no setting of the operator is lost or changed,     *)
(* unless a write was cut short.                                           *)
SettingsKept ==
  \A n \in Networks \ torn :
    /\ ~(ipc = "writing" /\ held.network = n)
    /\ Assigned(before[n], "own") # {}
    => Assigned(env[n], "own") # {} /\ Effective(env[n], "own") = Effective(before[n], "own")

=============================================================================
