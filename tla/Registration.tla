---------------------------- MODULE Registration ----------------------------
(***************************************************************************)
(* `clif registration run` (clif/registration.py, clif/cli.py), the daemon *)
(* that watches whether we are, and will be, in the registered voter set.  *)
(* It only reads.  What matters is when it looks: the window in which the  *)
(* flare-system-client can register us for the next epoch is shorter than  *)
(* the daemon's usual sleep.                                               *)
(*                                                                         *)
(* Time is a count of ticks; the boundary of epoch n is due at tick        *)
(* (n + 1) * EpochTicks and the chain flips up to MaxLate ticks later.     *)
(***************************************************************************)
EXTENDS Integers

CONSTANTS
  EpochTicks,  \* length of a reward epoch
  Far,         \* registration_poll_interval_sec
  Tight,       \* registration_tight_interval_sec
  TightWindow, \* registration_tight_window_sec
  WindowTicks, \* the window opens this long before the boundary is due
  MaxLate,     \* bound: how late the chain flips
  MaxClock,    \* bound: the length of a behaviour
  Unknown,     \* a field that was not read
  RegFaults,   \* the kinds of trouble a behaviour may contain
  MaxTrouble   \* bound: how many of them

ASSUME RegistrationAssumption ==
  /\ {EpochTicks, Far, Tight, WindowTicks} \subseteq Nat \ {0}
  /\ {TightWindow, MaxLate, MaxClock, MaxTrouble} \subseteq Nat
  /\ Tight < Far /\ Tight + 1 < WindowTicks /\ Far + WindowTicks <= TightWindow
  /\ MaxLate + Far + WindowTicks < EpochTicks
ASSUME UnknownAssumption == Unknown \notin Int

VARIABLES
  clock, flipped,  \* the time, and when the current epoch began
  epoch,           \* getCurrentRewardEpochId
  window,          \* the registration window of epoch + 1 is open
  registered,      \* epochs whose registered set we are in
  gas,             \* the sender's balance against the floor: low, nearing, fine
  entity,          \* every role address of the entity is set
  weight,          \* our registration weight for epoch + 1 is positive
  trouble,         \* how much of it there has been
  rpc,             \* where the daemon is: asleep, or between two reads
  wake,            \* when it reads next
  reading,         \* the readiness being read
  status,          \* the status file
  warned,          \* history: epochs for which a line above OK was logged while their window was open
  blind,           \* history: epochs during which a cycle raised, or did not learn the boundary
  raised           \* history: when a cycle last raised

regChain  == <<clock, flipped, epoch, window, registered, gas, entity, weight>>
regDaemon == <<rpc, wake, reading, status, warned, blind, raised>>
regVars   == <<regChain, trouble, regDaemon>>

(* RegistrationReadiness, as constructed: everything unread or false.      *)
NoReading ==
  [epoch |-> Unknown, ttb |-> Unknown, current |-> FALSE, open |-> FALSE, next |-> FALSE,
   weight |-> FALSE, gas |-> Unknown, entity |-> FALSE, error |-> FALSE]

RegInit ==
  /\ clock = 0 /\ flipped = 0 /\ epoch = 0 /\ window = FALSE /\ registered \in {{}, {0}}
  /\ gas = "fine" /\ entity = TRUE /\ weight = TRUE /\ trouble = 0
  /\ rpc = "asleep" /\ wake = 0 /\ reading = NoReading /\ status = NoReading
  /\ warned = {} /\ blind = {} /\ raised = 0

Boundary == (epoch + 1) * EpochTicks

Trouble(kind) == kind \in RegFaults /\ trouble < MaxTrouble /\ trouble' = trouble + 1
-----------------------------------------------------------------------------
(* The world.  A due reading, an overdue flip and a due window come first; *)
(* a reading takes less than two ticks.                                    *)
Tick ==
  /\ clock < MaxClock /\ (clock < wake \/ (rpc = "reading" /\ clock = wake))
  /\ clock < Boundary + MaxLate /\ (clock >= Boundary - WindowTicks => window)
  /\ clock' = clock + 1
  /\ UNCHANGED <<flipped, epoch, window, registered, gas, entity, weight, trouble, regDaemon>>

OpenWindow ==
  /\ ~window /\ clock >= Boundary - WindowTicks /\ clock < Boundary /\ window' = TRUE
  /\ UNCHANGED <<clock, flipped, epoch, registered, gas, entity, weight, trouble, regDaemon>>

Flip ==
  /\ clock >= Boundary /\ epoch' = epoch + 1 /\ flipped' = clock
  /\ window' = FALSE /\ weight' = TRUE
  /\ UNCHANGED <<clock, registered, gas, entity, trouble, regDaemon>>

(* The client's registerVoter: needs gas, the entity and weight.           *)
Register ==
  /\ window /\ epoch + 1 \notin registered /\ gas # "low" /\ entity /\ weight
  /\ registered' = registered \cup {epoch + 1}
  /\ UNCHANGED <<clock, flipped, epoch, window, gas, entity, weight, trouble, regDaemon>>

Degrade ==
  /\ \/ Trouble("gas") /\ gas' \in {"nearing", "low"} \ {gas} /\ UNCHANGED <<entity, weight>>
     \/ Trouble("entity") /\ entity' = FALSE /\ UNCHANGED <<gas, weight>>
     \/ Trouble("weight") /\ window /\ weight' = FALSE /\ UNCHANGED <<gas, entity>>
  /\ UNCHANGED <<clock, flipped, epoch, window, registered, regDaemon>>
-----------------------------------------------------------------------------
GasOk(r) == r.gas \in {"nearing", "fine"}

(* Mutant: only a failed prerequisite is critical.                         *)
SeverityPrereqs(r) ==
  CASE r.error \/ ~GasOk(r) \/ ~r.entity -> "CRIT"
    [] OTHER -> IF r.open /\ ~r.next THEN IF r.weight THEN "WARN" ELSE "CRIT"
                ELSE IF r.gas = "nearing" THEN "WARN" ELSE "OK"

Severity(r) ==
  CASE r.error \/ ~r.current \/ ~GasOk(r) \/ ~r.entity -> "CRIT"
    [] OTHER -> IF r.open /\ ~r.next THEN IF r.weight THEN "WARN" ELSE "CRIT"
                ELSE IF r.gas = "nearing" THEN "WARN" ELSE "OK"

(* Mutant: the cadence follows the boundary alone, closing at the boundary.*)
SleepForBoundary(r) ==
  IF r.ttb # Unknown /\ r.ttb \in 1 .. Tight THEN Tight ELSE Far

SleepFor(r) ==
  LET near == r.ttb # Unknown /\ r.ttb <= TightWindow
  IN  IF (r.open \/ near) /\ ~r.next THEN Tight ELSE Far

(* The end of a cycle: write the status file, log a state above OK (an     *)
(* unchanged OK is tempered), choose the sleep.                            *)
Conclude(r) ==
  /\ rpc' = "asleep" /\ reading' = NoReading /\ status' = r
  /\ warned' = IF window /\ Severity(r) # "OK" THEN warned \cup {epoch + 1} ELSE warned
  /\ wake' = clock + SleepFor(r) /\ UNCHANGED raised

(* read_readiness, first the epoch and its timing ...                      *)
ReadEpoch ==
  /\ rpc = "asleep" /\ clock = wake /\ rpc' = "reading"
  /\ reading' = [NoReading EXCEPT !.epoch = epoch, !.ttb = Boundary - clock]
  /\ UNCHANGED <<regChain, trouble, wake, status, warned, blind, raised>>

ReadEpochFails ==
  /\ rpc = "asleep" /\ clock = wake /\ Trouble("rpc")
  /\ Conclude([NoReading EXCEPT !.error = TRUE]) /\ blind' = blind \cup {epoch}
  /\ UNCHANGED regChain

(* ... then, for that epoch and the next, the rest; the chain may have     *)
(* moved on meanwhile.  A revert for an epoch not set up reads as false.   *)
ReadRest ==
  /\ rpc = "reading"
  /\ LET n == reading.epoch + 1 IN
     Conclude([reading EXCEPT !.current = reading.epoch \in registered,
                              !.open    = window /\ n = epoch + 1,
                              !.next    = n \in registered,
                              !.weight  = n # epoch + 1 \/ weight,
                              !.gas     = gas, !.entity = entity])
  /\ UNCHANGED <<regChain, trouble, blind>>

(* A read in the middle fails: the fields before it are kept.              *)
ReadRestFails ==
  /\ rpc = "reading" /\ Trouble("rpc")
  /\ \/ Conclude([reading EXCEPT !.error = TRUE])
     \/ Conclude([reading EXCEPT !.error = TRUE, !.current = reading.epoch \in registered,
                    !.open = window /\ reading.epoch = epoch, !.next = reading.epoch + 1 \in registered])
  /\ UNCHANGED <<regChain, blind>>

(* What is not an RpcError, in a read or in the write of the status file,  *)
(* ends the cycle: no status, no line, and the long sleep it began with,   *)
(* boundary known or not.                                                  *)
CycleRaises ==
  /\ Trouble("raise") /\ raised' = clock
  /\ \/ rpc = "asleep" /\ clock = wake /\ blind' = blind \cup {epoch}
     \/ rpc = "reading" /\ blind' = blind \cup {reading.epoch}
  /\ rpc' = "asleep" /\ reading' = NoReading /\ wake' = clock + Far
  /\ UNCHANGED <<regChain, status, warned>>

RegNext ==
  \/ Tick \/ OpenWindow \/ Flip \/ Register \/ Degrade
  \/ ReadEpoch \/ ReadEpochFails \/ ReadRest \/ ReadRestFails \/ CycleRaises
-----------------------------------------------------------------------------
RegTypeOK ==
  /\ clock \in 0 .. MaxClock /\ flipped \in 0 .. clock /\ epoch \in 0 .. clock
  /\ window \in BOOLEAN /\ registered \subseteq 0 .. epoch + 1
  /\ gas \in {"low", "nearing", "fine"} /\ entity \in BOOLEAN /\ weight \in BOOLEAN
  /\ trouble \in 0 .. MaxTrouble /\ rpc \in {"asleep", "reading"}
  /\ wake \in 0 .. clock + Far /\ (rpc = "asleep" => clock <= wake)
  /\ reading.error = FALSE /\ status.error \in BOOLEAN
  /\ warned \subseteq 0 .. epoch + 1 /\ blind \subseteq 0 .. epoch
  /\ raised \in 0 .. clock

(* An epoch we enter unregistered did not take us by surprise: while its   *)
(* window was open a line above OK was logged, because the daemon was in   *)
(* its tight cadence before the window opened.  There are two holes: a     *)
(* reading that fails before the boundary is known, and a cycle that       *)
(* raises (a status file that cannot be written), fall back to the long    *)
(* sleep, which can span the window.                                       *)
WindowWatched ==
  epoch > 0 /\ epoch \notin registered => epoch \in warned \/ epoch - 1 \in blind

(* A live exclusion is CRIT in the status file at the latest one long      *)
(* sleep after the epoch began, whichever reads failed in between; a cycle *)
(* that raises writes nothing, and the sleep counts again from there.      *)
ExclusionOnFile ==
  /\ epoch \notin registered /\ clock > flipped + Far + 1 /\ clock > raised + Far + 1
  => Severity(status) = "CRIT"
=============================================================================
