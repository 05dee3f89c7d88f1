----------------------------- MODULE AlertDaemon -----------------------------
(***************************************************************************)
(* `clif alert run`: read registration and funding health, debounce, page  *)
(* a webhook (clif/alert.py, alert_run of clif/cli.py).  The environment   *)
(* is the health of the operation, the webhook, and the process' restarts. *)
(*                                                                         *)
(* Time is what decide() asks of it: `due` says that repeat_sec have       *)
(* passed since last_sent.  pending_n is counted up to Confirm, the only   *)
(* value it is compared with.                                              *)
(***************************************************************************)
EXTENDS Naturals

CONSTANTS
  Confirm,     \* alert_confirm_cycles
  Conditions,  \* the conditions of the operation this instance looks at
  Faults,      \* the kinds of failure the environment may inject
  MaxFaults    \* bound: how many of them one behaviour contains

Level == {"OK", "WARN", "CRIT"}
Order == [OK |-> 0, WARN |-> 1, CRIT |-> 2]

(* "healthy", "nearing" (a balance or the runway is low), "excluded" (not  *)
(* registered, or a prerequisite fails), "below" (an account is below its  *)
(* funding band).                                                          *)
ASSUME AlertAssumption ==
  /\ Confirm \in Nat \ {0} /\ MaxFaults \in Nat
  /\ Conditions \subseteq {"healthy", "nearing", "excluded", "below"}

VARIABLES
  health,  \* the condition of the operation
  pc,      \* "down", "read", "write", "post"
  mem,     \* decide()'s state in memory
  disk,    \* the same in alert-status.json
  mail,    \* the page decide() asked for: the level it carries, or "none"
  pager,   \* the level of the last page that was delivered
  heard,   \* history: the current run of equal recorded readings, [level, n]
  faults   \* failures injected so far

vars == <<health, pc, mem, disk, mail, pager, heard, faults>>

(* What decide() makes of the empty dict of a first start.                 *)
Blank == [level |-> "OK", due |-> TRUE, pending |-> "none", n |-> 0]

Init ==
  /\ health \in Conditions /\ pc = "down" /\ mem = Blank /\ disk = Blank
  /\ mail = "none" /\ pager = "OK" /\ heard = [level |-> "none", n |-> 0] /\ faults = 0

Fault(kind) == kind \in Faults /\ faults < MaxFaults /\ faults' = faults + 1
NoFault == UNCHANGED faults

UpTo(cap, n) == IF n > cap THEN cap ELSE n
-----------------------------------------------------------------------------
(* alert_level: the worst of both reports' severities.                     *)
Severity == [healthy |-> "OK", nearing |-> "WARN", excluded |-> "CRIT", below |-> "CRIT"]
LevelOf(h) == Severity[h]

(* decide(): a level (de)escalates after Confirm consecutive reads of it.  *)
(* Mutant: the count is not reset when the level changes.                  *)
PendingNSticky(st, level) == UpTo(Confirm, st.n + 1)

PendingN(st, level) == IF level = st.pending THEN UpTo(Confirm, st.n + 1) ELSE 1

(* Mutant: the pending level stands in for the previous one.               *)
ConfirmedPending(st, level) == IF PendingN(st, level) >= Confirm THEN level ELSE st.pending

Confirmed(st, level) == IF PendingN(st, level) >= Confirm THEN level ELSE st.level

(* Mutant: no reminders.                                                   *)
SendsOnce(st, level) == Confirmed(st, level) # st.level

Sends(st, level) ==
  \/ Confirmed(st, level) # st.level                           \* ALERT, UPDATE, RESOLVED
  \/ Order[Confirmed(st, level)] >= Order["WARN"] /\ st.due    \* REMINDER

Decide(st, level) ==
  [level |-> Confirmed(st, level), due |-> st.due /\ ~Sends(st, level),
   pending |-> level, n |-> PendingN(st, level)]
-----------------------------------------------------------------------------
Change(h) ==
  /\ health' = h /\ h # health
  /\ UNCHANGED <<pc, mem, disk, mail, pager, heard, faults>>

(* repeat_sec go by since the last_sent of the file, which is never the    *)
(* younger one, or since both.                                             *)
Elapse(both) ==
  /\ disk' = [disk EXCEPT !.due = TRUE] /\ mem' = [mem EXCEPT !.due = @ \/ both]
  /\ UNCHANGED <<health, pc, mail, pager, heard, faults>>

Start ==
  /\ pc = "down" /\ pc' = "read" /\ mem' = disk
  /\ UNCHANGED <<health, disk, mail, pager, heard, faults>>

Halt == pc' = "down" /\ mem' = Blank /\ mail' = "none"

(* A crash between decide() and the write loses that reading.              *)
Crash ==
  /\ pc # "down" /\ Fault("crash") /\ Halt
  /\ UNCHANGED <<health, disk, pager, heard>>

(* One reading and decide() on it.  A transport error reads as CRIT.       *)
Reads(level) ==
  /\ mem' = Decide(mem, level)
  /\ mail' = IF Sends(mem, level) THEN Confirmed(mem, level) ELSE "none"
  /\ pc' = "write" /\ UNCHANGED <<health, disk, pager, heard>>

Read ==
  /\ pc = "read"
  /\ \/ health # "below" /\ Reads(LevelOf(health)) /\ NoFault
     \/ Reads("CRIT") /\ Fault("blip")

(* alert_level formats a.lower of every account below its band; an         *)
(* AccountStatus has no such attribute, and nothing catches the error.     *)
ReadRaises ==
  /\ pc = "read" /\ health = "below" /\ Halt
  /\ UNCHANGED <<health, disk, pager, heard, faults>>

Extend(run, level) ==
  [level |-> level, n |-> IF level = run.level THEN UpTo(Confirm, run.n + 1) ELSE 1]

(* The state is on disk before the page goes out ...                       *)
Write ==
  /\ pc = "write" /\ disk' = mem /\ heard' = Extend(heard, mem.pending)
  /\ pc' = IF mail = "none" THEN "read" ELSE "post"
  /\ UNCHANGED <<health, mem, mail, pager, faults>>

(* ... and a failed post changes nothing.                                  *)
Post ==
  /\ pc = "post" /\ pc' = "read" /\ mail' = "none"
  /\ \/ pager' = mail /\ NoFault
     \/ UNCHANGED pager /\ Fault("lost")
  /\ UNCHANGED <<health, mem, disk, heard>>

Daemon == Start \/ Read \/ ReadRaises \/ Write \/ Post
Next == (\E h \in Conditions : Change(h)) \/ (\E both \in BOOLEAN : Elapse(both)) \/ Crash \/ Daemon

Spec == Init /\ [][Next]_vars

(* The process loops and is restarted (compose: unless-stopped); repeat_sec*)
(* is reached while the daemon waits between two readings.                 *)
Fairness == WF_vars(Daemon) /\ SF_vars(pc = "read" /\ Elapse(TRUE))
FairSpec == Spec /\ Fairness
-----------------------------------------------------------------------------
DecideState == [level : Level, due : BOOLEAN, pending : Level \cup {"none"}, n : 0 .. Confirm]

TypeOK ==
  /\ health \in Conditions /\ pc \in {"down", "read", "write", "post"}
  /\ mem \in DecideState /\ disk \in DecideState
  /\ mail \in Level \cup {"none"} /\ pager \in Level
  /\ heard \in [level : Level \cup {"none"}, n : 0 .. Confirm] /\ faults \in Nat

(* "consecutive same-level reads before (de)escalating": decide() changes  *)
(* the alert level only to one that Confirm recorded readings in a row     *)
(* showed, through restarts and webhook failures.                          *)
LevelsAreConfirmed ==
  [][pc = "read" /\ pc' = "write" /\ mem'.level # mem.level
       => Extend(heard, mem'.pending) = [level |-> mem'.level, n |-> Confirm]]_vars

(* "POSTs to the webhook on CRIT/WARN": a bad condition that stays is what *)
(* the operator keeps being told, however pages were lost and the daemon   *)
(* was restarted before.                                                   *)
BadStatePaged ==
  \A h \in Conditions \ {"healthy", "below"} :
    <>[](health = h) => <>[](pager = LevelOf(h))
============================================================================
