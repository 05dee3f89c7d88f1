----------------------------- MODULE AutoState -----------------------------
(***************************************************************************)
(* The daemons' in-memory memory of one stream (clif/autostate.py): which  *)
(* epochs are outstanding and for how long, and which are cooling down     *)
(* after a terminal failure.  Operators only: a daemon's module keeps a    *)
(* value of this shape in a variable.                                      *)
(*                                                                         *)
(* Wall-clock times are abstracted to what evaluate() tells apart:         *)
(*   seen[e] = "unseen"  e is not in first_seen                            *)
(*           = "fresh"   in first_seen, no older than stale_after          *)
(*           = "stale"   in first_seen, older than stale_after             *)
(*   cooling             the epochs whose cooldown_until lies ahead        *)
(***************************************************************************)

SeenAge == {"unseen", "fresh", "stale"}

(* The empty _Stream a process starts with: nothing here is persisted. *)
NewStream(E) == [seen |-> [e \in E |-> "unseen"], cooling |-> {}]

Tracked(st) == {e \in DOMAIN st.seen : st.seen[e] # "unseen"}

(* Mutant: an epoch in cooldown does not count as outstanding.             *)
ObserveIdle(st, active) ==
  [st EXCEPT !.seen = [e \in DOMAIN st.seen |->
                         IF e \notin active \ st.cooling THEN "unseen"
                         ELSE IF st.seen[e] = "unseen" THEN "fresh" ELSE st.seen[e]]]

(* observe(): time-stamp newly active epochs, keep the older stamps, and   *)
(* forget an epoch that left the active set, its cooldown included.        *)
Observe(st, active) ==
  [seen    |-> [e \in DOMAIN st.seen |->
                  IF e \notin active THEN "unseen"
                  ELSE IF st.seen[e] = "unseen" THEN "fresh" ELSE st.seen[e]],
   cooling |-> st.cooling \ (Tracked(st) \ active)]

RecordTerminal(st, e) == [st EXCEPT !.cooling = @ \cup {e}]

InCooldown(st, e) == e \in st.cooling

(* Mutant: staleness alone degrades.                                       *)
DegradedWhenStale(st) == \E e \in Tracked(st) : st.seen[e] = "stale"

(* evaluate(): only epochs in first_seen are looked at.                    *)
Degraded(st) == \E e \in Tracked(st) : st.seen[e] = "stale" \/ InCooldown(st, e)

(* Time passing: an outstanding epoch outlives stale_after, a cooldown     *)
(* window ends.                                                            *)
Outlive(st, e) == [st EXCEPT !.seen[e] = "stale"]
CoolOff(st, e) == [st EXCEPT !.cooling = @ \ {e}]
============================================================================
