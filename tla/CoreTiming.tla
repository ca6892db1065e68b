----------------------------- MODULE CoreTiming -----------------------------
(***************************************************************************)
(* Emulated time (Core/CoreTiming.cpp): the list of scheduled events, the  *)
(* slices the CPU runs in and the clock the guest reads.                   *)
(*                                                                         *)
(* The CPU counts downcount down and calls Advance() once it is negative.  *)
(* Advance() fires the events that are due and cuts the next slice at the  *)
(* first event that is not.  A handler may schedule, unschedule, use up    *)
(* cycles and call Advance() again (through __KernelReSchedule()), so      *)
(* frames is that part of the host's stack: Advance() in ProcessEvents()   *)
(* or a handler, the innermost last.                                       *)
(*                                                                         *)
(* Two event types belong to the display: every vertical blank schedules   *)
(* its end, and its end the next one (Core/HLE/sceDisplay.cpp).  Every     *)
(* other event is a timer of some kernel object.                           *)
(***************************************************************************)
EXTENDS Integers, Sequences, Removal

CONSTANTS
  Type,            \* event types of kernel timers
  UserData,        \* and what tells their events apart, such as a thread id
  vbCount,         \* userdata of the display's events (the count is left out)
  Hz, InitialHz,   \* values of CPU_HZ
  UsPerSecond,     \* 1000000
  FrameMs, VblankMs,
  InitialSlice,    \* INITIAL_SLICE_LENGTH
  MaxSlice,        \* MAX_SLICE_LENGTH
  EmptySlice,      \* 10000: the slice when there is no event
  IntLimit,        \* INT_MAX + 1
  MaxSince,        \* UINT_MAX: when GetGlobalTimeUs() moves its base
  Delay,           \* cyclesIntoFuture of kernel timers
  MaxBlock,        \* bound: cycles used between two looks at downcount
  MaxDepth,        \* bound: frames on the host stack
  MaxEvents,       \* bound: events in the list
  Horizon,         \* bound: ticks
  Rebase           \* bound: ticks at which the guest sets the frequency

Display == {"enterVblank", "leaveVblank"}

ASSUME ClockAssumption ==
  /\ Hz \subseteq Nat \ {0} /\ InitialHz \in Hz
  /\ UsPerSecond \in Nat \ {0}
ASSUME SliceAssumption ==
  /\ {InitialSlice, MaxSlice, EmptySlice, MaxSince, MaxBlock} \subseteq Nat \ {0}
  /\ IntLimit \in Nat \ {0} /\ MaxSlice < IntLimit
  /\ Delay \subseteq Nat
ASSUME FrameAssumption ==
  /\ VblankMs \in Nat \ {0} /\ FrameMs \in Nat /\ VblankMs < FrameMs
  /\ \A hz \in Hz : FrameMs * hz < IntLimit
ASSUME BoundAssumption ==
  {MaxDepth, MaxEvents, Horizon} \subseteq Nat /\ Rebase \subseteq Nat
ASSUME TypeAssumption == Display \cap Type = {} /\ vbCount \notin UserData

VARIABLES
  queue,         \* the list that starts at first
  globalTimer, slicelength, downcount,
  CPU_HZ, lastGlobalTimeTicks, lastGlobalTimeUs,
  frames

clock == <<CPU_HZ, lastGlobalTimeTicks, lastGlobalTimeUs>>
timingvars == <<queue, globalTimer, slicelength, downcount, clock, frames>>

\* fresh is a history variable: the event was scheduled after the slice was cut.
EventType == Display \cup Type
Event == [type : EventType, userdata : UserData \cup {vbCount}, time : Int, fresh : BOOLEAN]

\* What a handler of the display still has to schedule: late is cyclesLate.
Frame == [at : {"ProcessEvents", "handler"} \cup Display, late : Int]

-----------------------------------------------------------------------------
ToInt(x) == ((x + IntLimit) % (2 * IntLimit)) - IntLimit
msToCycles(ms) == ms * CPU_HZ

GetTicks == globalTimer + slicelength - downcount

UsSince(ticks) == ((ticks - lastGlobalTimeTicks) * UsPerSecond) \div CPU_HZ
GlobalTimeUs == lastGlobalTimeUs + UsSince(GetTicks)

\* Mutant: a new event goes before those that are due at the same time.
AddEventToQueueFirst(q, e) ==
  LET before == {i \in 1..Len(q) : q[i].time < e.time}
      n == IF before = {} THEN 0 ELSE CHOOSE i \in before : \A j \in before : j <= i
  IN  SubSeq(q, 1, n) \o <<e>> \o SubSeq(q, n + 1, Len(q))

\* In front of the first event that is due later.
AddEventToQueue(q, e) ==
  LET later == {i \in 1..Len(q) : e.time < q[i].time}
      n == IF later = {} THEN Len(q) + 1
           ELSE CHOOSE i \in later : \A j \in later : i <= j
  IN  SubSeq(q, 1, n - 1) \o <<e>> \o SubSeq(q, n, Len(q))

EventIn(cyclesIntoFuture, type, userdata) ==
  [type |-> type, userdata |-> userdata, time |-> GetTicks + cyclesIntoFuture,
   fresh |-> TRUE]

\* Guest code or a handler runs: whatever may call into CoreTiming.
Running == frames # <<>> => frames[Len(frames)].at = "handler"
Top(at) == frames # <<>> /\ frames[Len(frames)].at = at
Pop == SubSeq(frames, 1, Len(frames) - 1)
Due == queue # <<>> /\ Head(queue).time <= GetTicks

-----------------------------------------------------------------------------
(* Calls. *)

\* A block of guest code, or the cycles a system call or a handler eats.
Execute(n) ==
  /\ frames = <<>> /\ downcount >= 0
  /\ GetTicks + n <= Horizon
  /\ downcount' = downcount - n
  /\ UNCHANGED <<queue, globalTimer, slicelength, clock, frames>>

hleEatCycles(n) ==
  /\ Running /\ downcount > -MaxBlock
  /\ GetTicks + n <= Horizon
  /\ downcount' = downcount - n
  /\ UNCHANGED <<queue, globalTimer, slicelength, clock, frames>>

ScheduleEvent(cyclesIntoFuture, type, userdata) ==
  /\ Running /\ Len(queue) < MaxEvents
  /\ queue' = AddEventToQueue(queue, EventIn(cyclesIntoFuture, type, userdata))
  /\ UNCHANGED <<globalTimer, slicelength, downcount, clock, frames>>

UnscheduleEvent(type, userdata) ==
  /\ Running
  /\ queue' = Without(queue, {e \in Event : e.type = type /\ e.userdata = userdata})
  /\ UNCHANGED <<globalTimer, slicelength, downcount, clock, frames>>

RemoveEvent(type) ==
  /\ Running
  /\ queue' = Without(queue, {e \in Event : e.type = type})
  /\ UNCHANGED <<globalTimer, slicelength, downcount, clock, frames>>

ForceCheck ==
  /\ frames = <<>>
  /\ globalTimer' = globalTimer + slicelength - downcount
  /\ downcount' = -1 /\ slicelength' = -1
  /\ UNCHANGED <<queue, clock, frames>>

\* Idle(0): to the end of the slice or the first event, whichever is sooner.
IdleCycles ==
  LET cyclesNextEvent == ToInt(Head(queue).time - globalTimer)
      cyclesExecuted == slicelength - downcount
      cut == IF /\ queue # <<>> /\ downcount > 0
                /\ cyclesNextEvent < cyclesExecuted + downcount
             THEN cyclesNextEvent - cyclesExecuted
             ELSE downcount
  IN  IF cut < 0 THEN 0 ELSE cut

Idle ==
  /\ frames = <<>>
  /\ GetTicks + IdleCycles < Horizon
  /\ LET left == downcount - IdleCycles
     IN  downcount' = IF left = 0 THEN -1 ELSE left
  /\ UNCHANGED <<queue, globalTimer, slicelength, clock, frames>>

\* Mutant: the time is read at the new frequency.
SetClockFrequencyHzFirst(hz) ==
  /\ frames = <<>> /\ GetTicks \in Rebase
  /\ CPU_HZ' = hz
  /\ lastGlobalTimeUs' = lastGlobalTimeUs
       + ((GetTicks - lastGlobalTimeTicks) * UsPerSecond) \div hz
  /\ lastGlobalTimeTicks' = GetTicks
  /\ UNCHANGED <<queue, globalTimer, slicelength, downcount, frames>>

\* The events in the list keep their times.
SetClockFrequencyHz(hz) ==
  /\ frames = <<>> /\ GetTicks \in Rebase
  /\ lastGlobalTimeUs' = GlobalTimeUs
  /\ lastGlobalTimeTicks' = GetTicks
  /\ CPU_HZ' = hz
  /\ UNCHANGED <<queue, globalTimer, slicelength, downcount, frames>>

\* The side effect of reading the clock.
GetGlobalTimeUs ==
  /\ Running
  /\ GetTicks - lastGlobalTimeTicks > MaxSince
  /\ lastGlobalTimeUs' = GlobalTimeUs
  /\ lastGlobalTimeTicks' = GetTicks
  /\ UNCHANGED <<queue, globalTimer, slicelength, downcount, CPU_HZ, frames>>

-----------------------------------------------------------------------------
(* Advance(), which the CPU loop calls when downcount is negative and      *)
(* __KernelReSchedule() at any time.                                       *)

Advance ==
  /\ Running /\ Len(frames) < MaxDepth
  /\ globalTimer' = GetTicks
  /\ downcount' = slicelength
  /\ frames' = Append(frames, [at |-> "ProcessEvents", late |-> 0])
  /\ UNCHANGED <<queue, slicelength, clock>>

\* Takes the first event off the list and calls its handler.
ProcessEvents ==
  /\ Top("ProcessEvents") /\ Due
  /\ LET evt == Head(queue)
     IN  frames' = Append(frames,
           IF evt.type \in Display
           THEN [at |-> evt.type, late |-> ToInt(GetTicks - evt.time)]
           ELSE [at |-> "handler", late |-> 0])
  /\ queue' = Tail(queue)
  /\ UNCHANGED <<globalTimer, slicelength, downcount, clock>>

\* Mutant: cyclesLate is not taken off.
VblankEventDrifts(at, next, cycles, late) ==
  EventIn(cycles, next, vbCount)

VblankEvent(at, next, cycles, late) ==
  EventIn(cycles - late, next, vbCount)

\* The display's handlers first schedule each other.
DisplayHandler(at, next, ms) ==
  /\ Top(at)
  /\ queue' = AddEventToQueue(queue,
                 VblankEvent(at, next, msToCycles(ms), frames[Len(frames)].late))
  /\ frames' = Append(Pop, [at |-> "handler", late |-> 0])
  /\ UNCHANGED <<globalTimer, slicelength, downcount, clock>>

hleEnterVblank == DisplayHandler("enterVblank", "leaveVblank", VblankMs)
hleLeaveVblank == DisplayHandler("leaveVblank", "enterVblank", FrameMs - VblankMs)

HandlerReturns ==
  /\ Top("handler")
  /\ frames' = Pop
  /\ UNCHANGED <<queue, globalTimer, slicelength, downcount, clock>>

\* Mutant: forgets that the handlers have used up some of the slice.
NextSliceFromNow ==
  IF queue = <<>>
  THEN IF slicelength < EmptySlice THEN slicelength + EmptySlice ELSE slicelength
  ELSE LET target == ToInt(Head(queue).time - globalTimer + (slicelength - downcount))
       IN  IF target > MaxSlice THEN MaxSlice ELSE target

NextSlice ==
  IF queue = <<>>
  THEN IF slicelength < EmptySlice THEN slicelength + EmptySlice ELSE slicelength
  ELSE LET target == ToInt(Head(queue).time - globalTimer)
       IN  IF target > MaxSlice THEN MaxSlice ELSE target

\* Caught up: the next slice ends at the first event.
AdvanceReturns ==
  /\ Top("ProcessEvents") /\ ~Due
  /\ slicelength' = NextSlice
  /\ downcount' = downcount + (NextSlice - slicelength)
  /\ queue' = [i \in 1..Len(queue) |-> [queue[i] EXCEPT !.fresh = FALSE]]
  /\ frames' = Pop
  /\ UNCHANGED <<globalTimer, clock>>

-----------------------------------------------------------------------------
Init ==
  /\ queue = <<[type |-> "enterVblank", userdata |-> vbCount,
                time |-> (FrameMs - VblankMs) * InitialHz, fresh |-> TRUE]>>
  /\ globalTimer = 0 /\ slicelength = InitialSlice /\ downcount = InitialSlice
  /\ CPU_HZ = InitialHz /\ lastGlobalTimeTicks = 0 /\ lastGlobalTimeUs = 0
  /\ frames = <<>>

Next ==
  \/ \E n \in 1..MaxBlock : Execute(n) \/ hleEatCycles(n)
  \/ \E type \in Type, userdata \in UserData :
       \/ \E d \in Delay : ScheduleEvent(d, type, userdata)
       \/ UnscheduleEvent(type, userdata)
  \/ \E type \in Type : RemoveEvent(type)
  \/ ForceCheck
  \/ Idle
  \/ \E hz \in Hz : SetClockFrequencyHz(hz)
  \/ GetGlobalTimeUs
  \/ Advance
  \/ ProcessEvents
  \/ hleEnterVblank
  \/ hleLeaveVblank
  \/ HandlerReturns
  \/ AdvanceReturns

Spec == Init /\ [][Next]_timingvars

-----------------------------------------------------------------------------
(* Properties. *)

\* The variables have the types of their declarations, and slicelength and
\* downcount stay within an int.
TimingTypeOK ==
  /\ queue \in Seq(Event) /\ frames \in Seq(Frame)
  /\ {globalTimer, lastGlobalTimeTicks, lastGlobalTimeUs} \subseteq Nat
  /\ CPU_HZ \in Hz
  /\ slicelength = ToInt(slicelength) /\ downcount = ToInt(downcount)

\* The CPU never runs on past an event: if it is about to execute a block, the
\* events that are overdue were all scheduled after the slice was cut.  Events
\* eat cycles, slices are capped and forced to end, and far events do not fit
\* the int the slice is computed in.
NoEventSlept ==
  frames = <<>> /\ downcount >= 0 =>
    \A i \in 1..Len(queue) : queue[i].fresh \/ queue[i].time >= GetTicks

\* Advance() leaves the CPU something to run: as the first event is never more
\* than a frame away, the conversion to int cannot give a negative slice, with
\* which the CPU loop would call Advance() forever.
AdvanceMakesProgress ==
  [][AdvanceReturns /\ Len(frames) = 1 /\ downcount >= slicelength - MaxSlice =>
       downcount' >= 0]_timingvars

\* The display is never left without an event: one of its two events is in the
\* list, or its handler is about to schedule the other, and never both.
DisplayAlive ==
  LET pending == {i \in 1..Len(queue) : queue[i].type \in Display}
      coming == {i \in 1..Len(frames) : frames[i].at \in Display}
  IN  \/ coming = {} /\ \E i \in pending : pending = {i}
      \/ pending = {} /\ \E i \in coming : coming = {i}

\* However late the events are fired, the vertical blanks stay on the grid of
\* frames while the clock frequency does not change.
DisplayDoesNotDrift ==
  lastGlobalTimeTicks = 0 /\ CPU_HZ = InitialHz =>
    \A i \in 1..Len(queue) :
      LET phase == IF queue[i].type = "enterVblank" THEN FrameMs - VblankMs ELSE 0
      IN  queue[i].type \in Display =>
            queue[i].time % (FrameMs * InitialHz) = phase * InitialHz

\* "This way, time always moves forward, even if mhz is changed"
\* (SetClockFrequencyHz()): neither the ticks nor the microseconds the guest
\* reads ever go back, and what does not take time does not change them.
TimeMovesForward ==
  [][/\ GetTicks' >= GetTicks /\ GlobalTimeUs' >= GlobalTimeUs
     /\ GetTicks' = GetTicks => GlobalTimeUs' = GlobalTimeUs]_timingvars

\* Idling ends at the next event (one cycle later if the slice is used up
\* exactly), although the event may have been scheduled within the slice.
IdleStopsAtEvent ==
  [][Idle /\ queue # <<>> /\ GetTicks' > GetTicks + 1 =>
       GetTicks' <= Head(queue).time + 1]_timingvars

\* What every call and handler keeps: the widths of the ints, and one display event
\* that stays on its grid however late it was fired.
TimingInv == TimingTypeOK /\ DisplayAlive /\ DisplayDoesNotDrift

\* What a step may never do: turn time back, return from Advance() with nothing to
\* run, or idle past an event.
TimeAdvances == TimeMovesForward /\ AdvanceMakesProgress /\ IdleStopsAtEvent

\* The calendar: the events of each time in the order they are listed in.

CalendarEvent == [type : EventType, userdata : UserData \cup {vbCount}]
Cancelled == {{[type |-> y, userdata |-> u]} : y \in Type, u \in UserData}
               \cup {[type : {y}, userdata : UserData \cup {vbCount}] : y \in Type}

DueIn(q, t) ==
  LET at[n \in 0..Len(q)] ==
        IF n = 0 THEN <<>>
        ELSE IF q[n].time # t THEN at[n - 1]
        ELSE Append(at[n - 1], [type |-> q[n].type, userdata |-> q[n].userdata])
  IN  at[Len(q)]

Times(q) == {q[i].time : i \in 1..Len(q)}
DueTable(q) == [t \in Times(q) |-> DueIn(q, t)]

Calendar == INSTANCE EventCalendar
              WITH Event <- CalendarEvent, Group <- Cancelled, now <- GetTicks,
                   due <- DueTable(queue)

\* The list implements the calendar, nested handlers included: nothing fires early
\* or out of order, and only what is unscheduled or removed is lost.
ImplementsCalendar == Calendar!Spec
=============================================================================
