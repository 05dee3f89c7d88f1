------------------------- MODULE AlertDaemonProofs -------------------------
(***************************************************************************)
(* The debounce of AlertDaemon holds for every alert_confirm_cycles, every *)
(* set of conditions, and any number of crashes, blips and lost pages.     *)
(***************************************************************************)
EXTENDS AlertDaemon, TLAPS

(* The run of equal readings and decide()'s pending counter stay in range. *)
LEMMA ExtendType ==
  ASSUME NEW run \in [level : Level \cup {"none"}, n : 0 .. Confirm], NEW level \in Level
  PROVE  Extend(run, level) \in [level : Level \cup {"none"}, n : 0 .. Confirm]
BY AlertAssumption DEF Extend, UpTo

LEMMA DecideType ==
  ASSUME NEW st \in DecideState, NEW level \in Level
  PROVE  /\ Decide(st, level) \in DecideState
         /\ Decide(st, level).pending = level
         /\ Confirmed(st, level) \in Level
<1>1. PendingN(st, level) \in 0 .. Confirm
  BY AlertAssumption DEF PendingN, UpTo, DecideState
<1>2. Confirmed(st, level) \in Level
  BY DEF Confirmed, DecideState
<1>3. (st.due /\ ~Sends(st, level)) \in BOOLEAN
  OBVIOUS
<1> QED
  BY <1>1, <1>2, <1>3 DEF Decide, DecideState

(* decide() moves the level only to one whose pending count is complete.   *)
LEMMA DecideConfirms ==
  ASSUME NEW st \in DecideState, NEW level \in Level, Decide(st, level).level # st.level
  PROVE  Decide(st, level).level = level /\ PendingN(st, level) = Confirm
<1>1. PendingN(st, level) <= Confirm
  BY AlertAssumption DEF PendingN, UpTo, DecideState
<1>2. PendingN(st, level) \in Nat
  BY AlertAssumption DEF PendingN, UpTo, DecideState
<1> QED
  BY <1>1, <1>2, AlertAssumption DEF Decide, Confirmed

LEMMA LevelOfType == \A h \in Conditions : LevelOf(h) \in Level
BY AlertAssumption DEF LevelOf, Severity, Level

LEMMA BlankType == Blank \in DecideState
BY AlertAssumption DEF Blank, DecideState, Level

(* The strengthening of TypeOK: a page is posted only if there is one.     *)
TypeInv == TypeOK /\ (pc = "post" => mail # "none")

(* Every variable of the alert daemon keeps its type; in particular the    *)
(* pager is only ever told a level, never "none".                          *)
THEOREM TypeCorrect == Spec => []TypeOK
<1>1. Init => TypeInv
  BY BlankType, AlertAssumption DEF Init, TypeOK, TypeInv, Level
<1>2. TypeInv /\ [Next]_vars => TypeInv'
  <2> SUFFICES ASSUME TypeInv, [Next]_vars PROVE TypeInv'
    OBVIOUS
  <2> USE DEF TypeOK, TypeInv
  <2>1. ASSUME NEW h \in Conditions, Change(h) PROVE TypeInv'
    BY <2>1 DEF Change
  <2>2. ASSUME NEW both \in BOOLEAN, Elapse(both) PROVE TypeInv'
    <3>1. disk' \in DecideState /\ mem' \in DecideState
      BY <2>2 DEF Elapse, DecideState
    <3> QED
      BY <2>2, <3>1 DEF Elapse
  <2>3. CASE Crash
    BY <2>3, BlankType DEF Crash, Halt, Fault
  <2>4. CASE Start
    BY <2>4 DEF Start
  <2>5. CASE Read
    <3>1. ASSUME NEW level \in Level, Reads(level), faults' \in Nat PROVE TypeInv'
      BY <3>1, DecideType DEF Reads
    <3>2. CASE health # "below" /\ Reads(LevelOf(health)) /\ NoFault
      BY <3>1, <3>2, LevelOfType DEF NoFault
    <3>3. CASE Reads("CRIT") /\ Fault("blip")
      BY <3>1, <3>3 DEF Fault, Level
    <3> QED
      BY <2>5, <3>2, <3>3 DEF Read
  <2>6. CASE ReadRaises
    BY <2>6, BlankType DEF ReadRaises, Halt
  <2>7. CASE Write
    <3>1. heard' \in [level : Level \cup {"none"}, n : 0 .. Confirm]
      <4>1. CASE mem.pending \in Level
        BY <2>7, <4>1, ExtendType DEF Write
      <4>2. CASE mem.pending = "none"
        BY <2>7, <4>2, AlertAssumption DEF Write, Extend, UpTo
      <4> QED
        BY <4>1, <4>2 DEF DecideState
    <3> QED
      BY <2>7, <3>1 DEF Write
  <2>8. CASE Post
    BY <2>8 DEF Post, NoFault, Fault
  <2>9. CASE UNCHANGED vars
    BY <2>9 DEF vars
  <2> QED
    BY <2>1, <2>2, <2>3, <2>4, <2>5, <2>6, <2>7, <2>8, <2>9 DEF Next, Daemon
<1> QED
  BY <1>1, <1>2, PTL DEF Spec, TypeInv
-----------------------------------------------------------------------------
(* The strengthening: decide()'s counter, in the file and in memory, is    *)
(* the current run of recorded readings; while a reading is not yet        *)
(* written, memory is one reading ahead.                                   *)
Counts(st, run) == st.pending = run.level /\ st.n = run.n

CounterInv ==
  /\ TypeOK
  /\ Counts(disk, heard)
  /\ pc \in {"read", "post"} => Counts(mem, heard)
  /\ pc = "write" => mem.pending \in Level /\ Counts(mem, Extend(heard, mem.pending))

LEMMA DecideCounts ==
  ASSUME NEW st \in DecideState, NEW run, NEW level \in Level, Counts(st, run)
  PROVE  Counts(Decide(st, level), Extend(run, level))
BY DEF Counts, Decide, Extend, PendingN

LEMMA CounterInvInit == Init => CounterInv
BY BlankType, AlertAssumption
   DEF Init, CounterInv, Counts, TypeOK, Blank, Level

LEMMA CounterInvStep == CounterInv /\ TypeOK' /\ [Next]_vars => CounterInv'
<1> SUFFICES ASSUME CounterInv, TypeOK', [Next]_vars PROVE CounterInv'
  OBVIOUS
<1> USE DEF CounterInv
<1>1. ASSUME NEW h \in Conditions, Change(h) PROVE CounterInv'
  BY <1>1 DEF Change
<1>2. ASSUME NEW both \in BOOLEAN, Elapse(both) PROVE CounterInv'
  <2>1. /\ disk'.pending = disk.pending /\ disk'.n = disk.n
        /\ mem'.pending = mem.pending /\ mem'.n = mem.n
    BY <1>2 DEF Elapse, TypeOK, DecideState
  <2> QED
    BY <1>2, <2>1 DEF Elapse, Counts
<1>3. CASE Crash
  BY <1>3 DEF Crash, Halt
<1>4. CASE Start
  BY <1>4 DEF Start
<1>5. CASE Read
  <2>1. ASSUME NEW level \in Level, Reads(level), pc = "read" PROVE CounterInv'
    <3>1. Counts(mem', Extend(heard, level)) /\ mem'.pending = level
      BY <2>1, DecideCounts, DecideType DEF Reads, TypeOK
    <3> QED
      BY <2>1, <3>1 DEF Reads
  <2> QED
    BY <1>5, <2>1, LevelOfType DEF Read, TypeOK, Level
<1>6. CASE ReadRaises
  BY <1>6 DEF ReadRaises, Halt
<1>7. CASE Write
  BY <1>7 DEF Write, Counts
<1>8. CASE Post
  BY <1>8 DEF Post
<1>9. CASE UNCHANGED vars
  BY <1>9 DEF vars
<1> QED
  BY <1>1, <1>2, <1>3, <1>4, <1>5, <1>6, <1>7, <1>8, <1>9 DEF Next, Daemon

(* alert_run never (de)escalates on fewer than alert_confirm_cycles        *)
(* recorded readings in a row, whatever crashes and restarts interleave.   *)
THEOREM DebounceSound == Spec => LevelsAreConfirmed
<1>1. CounterInv /\ [Next]_vars =>
        [pc = "read" /\ pc' = "write" /\ mem'.level # mem.level
           => Extend(heard, mem'.pending) = [level |-> mem'.level, n |-> Confirm]]_vars
  <2> SUFFICES ASSUME CounterInv, Next, pc = "read", pc' = "write",
                      mem'.level # mem.level
               PROVE  Extend(heard, mem'.pending) = [level |-> mem'.level, n |-> Confirm]
    BY DEF vars
  <2>1. PICK level \in Level : Reads(level)
    <3>1. Read
      BY DEF Next, Daemon, Change, Elapse, Crash, Halt, Start, ReadRaises, Write, Post
    <3> QED
      BY <3>1, LevelOfType DEF Read, CounterInv, TypeOK, Level
  <2>2. mem' = Decide(mem, level) /\ mem \in DecideState
    BY <2>1 DEF Reads, CounterInv, TypeOK
  <2>3. mem'.pending = level /\ mem'.level = level /\ PendingN(mem, level) = Confirm
    BY <2>2, DecideConfirms, DecideType
  <2>4. Extend(heard, level).n = PendingN(mem, level)
    BY DEF Extend, PendingN, CounterInv, Counts
  <2> QED
    BY <2>3, <2>4 DEF Extend
<1>2. Spec => []CounterInv
  BY TypeCorrect, CounterInvInit, CounterInvStep, PTL DEF Spec
<1> QED
  BY <1>1, <1>2, PTL DEF Spec, LevelsAreConfirmed
============================================================================
