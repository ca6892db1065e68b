--------------------------- MODULE EventCalendar ---------------------------
(***************************************************************************)
(* What CoreTiming promises to the rest of the emulator: a calendar of     *)
(* events.  Time never goes back, an event fires at its time or later and  *)
(* never before an event that was due earlier, and events due at the same  *)
(* time fire in the order they were scheduled in.                          *)
(***************************************************************************)
EXTENDS Integers, Sequences, Removal

CONSTANTS
  Event,   \* what can be scheduled
  Group    \* the sets of events that are cancelled together

VARIABLES
  now,
  due      \* the events of each time that has any, first come first served

calendarvars == <<now, due>>

\* Emulation starts with one event: the first vertical blank.
Init ==
  /\ now = 0
  /\ \E t \in DOMAIN due : \E e \in Event : due = [u \in {t} |-> <<e>>]

Pass == now' \in Int /\ now' > now /\ UNCHANGED due

Schedule(t, e) ==
  /\ due' = [u \in DOMAIN due \cup {t} |->
               IF u # t THEN due[u]
               ELSE IF t \in DOMAIN due THEN Append(due[t], e) ELSE <<e>>]
  /\ UNCHANGED now

Cancel(E) ==
  /\ LET left(t) == Without(due[t], E)
     IN  due' = [t \in {u \in DOMAIN due : left(u) # <<>>} |-> left(t)]
  /\ UNCHANGED now

Fire(t) ==
  /\ t <= now /\ \A u \in DOMAIN due : t <= u
  /\ due' = [u \in DOMAIN due \ (IF Len(due[t]) = 1 THEN {t} ELSE {}) |->
               IF u = t THEN Tail(due[t]) ELSE due[u]]
  /\ UNCHANGED now

Next ==
  \/ Pass
  \/ \E t \in DOMAIN due : Fire(t)
  \/ \E t \in DOMAIN due', e \in Event : Schedule(t, e)
  \/ \E E \in Group : Cancel(E)

Spec == Init /\ [][Next]_calendarvars
=============================================================================
