-------------------------- MODULE DisplayListProofs --------------------------
(* The lists of the graphics engine, their queue, their callbacks and the threads *)
(* that wait for them agree, whatever the guest and the interrupts do in between. *)
EXTENDS DisplayLists, UidListProofs

-----------------------------------------------------------------------------
(* The inductive invariant, of a record y. *)

ListTyped(d) == d \in DisplayList /\ InBounds(d) /\ (d.signal = "SYNC" => SyncSeen(d))
Typed(y) == y \in Engine /\ \A l \in List : ListTyped(y.dls[l])

\* The first list of the queue may run or be paused, the others wait for their turn.
QueueOK(y) ==
  /\ Distinct(y.queue)
  /\ \A n \in 1..Len(y.queue) :
       /\ y.dls[y.queue[n]].state \in {"QUEUED", "RUNNING", "PAUSED"}
       /\ n > 1 => y.dls[y.queue[n]].state = "QUEUED"

CurOK(y) == y.cur = IF y.queue = <<>> THEN NoList ELSE Head(y.queue)

\* A list with a callback to come has been started and is marked; it is paused, or has
\* left the queue at its end, or was broken off.
CallbackOK(y, c) ==
  LET d == y.dls[c.list]
  IN  /\ d.pendingInterrupt /\ d.started
      /\ c.cmd = "SIGNAL" => d.pos = c.pc /\ (Holds(y.queue, c.list) \/ d.state = "NONE")
      /\ c.cmd = "FINISH" => Holds(y.queue, c.list) \/ d.signal # "PAUSE"
      /\ Holds(y.queue, c.list) =>
           d.state = "PAUSED" /\ (c.cmd = "FINISH" => d.signal = "PAUSE")
PendOK(y) ==
  /\ \A n \in 1..Len(y.pend) : CallbackOK(y, y.pend[n])
  /\ \A n, m \in 1..Len(y.pend) : y.pend[n].list = y.pend[m].list => n = m

WaitOK(y) ==
  /\ \A t \in Thread : y.wait[t] \in List => y.dls[y.wait[t]].busy
  /\ \A t \in Thread : y.wait[t] = "draw" => y.drawEvent \/ y.draw = "never"
  /\ y.draw = "future" => y.drawEvent

\* Drawing that nothing has ended yet has a list that was started, or was broken off.
DrawOK(y) ==
  y.draw = "never" => \/ \E n \in 1..Len(y.queue) : y.dls[y.queue[n]].started
                      \/ "BreakAll" \in y.guest

QueuesOK(y) == Typed(y) /\ QueueOK(y) /\ PendOK(y) /\ WaitOK(y)
ListsOK(y) == QueuesOK(y) /\ CurOK(y) /\ DrawOK(y)

\* A list that is busy is in the queue or has a callback to come, or is one that the calls
\* named at LeftBusy have left.
ToCome(y, l) == \E n \in 1..Len(y.pend) : y.pend[n].list = l
LeftBy(y, d) ==
  \/ /\ "ListEnQueueHeadRefused" \in y.guest /\ ~d.started
     /\ d.state \in {"NONE", "COMPLETED"}
  \/ "BreakAll" \in y.guest /\ d.state = "NONE"
BusyAt(y, l) ==
  y.dls[l].busy => Holds(y.queue, l) \/ ToCome(y, l) \/ LeftBy(y, y.dls[l])
BusyOK(y) == \A l \in List : BusyAt(y, l)

\* The list of the callback whose handler runs is in the queue or complete: the end of
\* the interrupt makes it go on or ends the waits for it.
Seen(y, l) == Holds(y.queue, l) \/ y.dls[l].state \in {"COMPLETED", "NONE"}
HandlerOK(y) ==
  y.i.inside /\ y.i.ran = "GE" => y.pend # <<>> /\ Seen(y, Head(y.pend).list)

Events(y) == Len(Without(y.i.pending, SubIntr))
IntrOK(y) ==
  /\ Len(y.pend) = y.intrEvents + Events(y)
  /\ y.i.inside => y.i.pending # <<>> /\ Head(y.i.pending) = y.i.ran
  /\ BusyOK(y) /\ HandlerOK(y)

GeIInv == ListsOK(x) /\ IntrOK(x)

-----------------------------------------------------------------------------
(* Running a list. *)

\* List l becomes d; with a callback c noted.
Changed(y, l, d) == [y EXCEPT !.dls[l] = d]
Noted(y, l, d, c) ==
  [y EXCEPT !.dls[l] = d, !.pend = Append(@, c), !.intrEvents = @ + 1]

\* What running list l of y to r does: it goes on or stalls, or it has noted one
\* callback, for which it is paused unless it has come to its end.
Plain(y, l, d) ==
  /\ ListTyped(d) /\ d.started /\ d.busy = y.dls[l].busy
  /\ d.state = "RUNNING" /\ d.pendingInterrupt = y.dls[l].pendingInterrupt
Calling(y, l, d, c, gpu) ==
  /\ ListTyped(d) /\ d.started /\ d.busy = y.dls[l].busy
  /\ d.pendingInterrupt /\ c \in PendingCallback /\ c.list = l
  /\ gpu = "INTERRUPT" => /\ d.state = "PAUSED"
                          /\ IF c.cmd = "SIGNAL" THEN d.pos = c.pc ELSE d.signal = "PAUSE"
  /\ gpu = "DONE" => c.cmd = "FINISH" /\ d.signal # "PAUSE"
Ran(y, l, r) ==
  /\ r = [x |-> r.x, gpu |-> r.gpu]
  /\ \/ /\ r.gpu \in {"RUNNING", "STALL"}
        /\ \E d \in DisplayList : Plain(y, l, d) /\ r.x = Changed(y, l, d)
     \/ /\ r.gpu \in {"INTERRUPT", "DONE"}
        /\ \E d \in DisplayList, c \in PendingCallback :
             Calling(y, l, d, c, r.gpu) /\ r.x = Noted(y, l, d, c)

\* Setting one field of a list, or the lists of a record of the engine.
LEMMA ListFields ==
  ASSUME NEW d \in DisplayList
  PROVE  /\ \A pos \in Nat : [d EXCEPT !.pos = pos] \in DisplayList
         /\ \A stall \in Nat : [d EXCEPT !.stall = stall] \in DisplayList
         /\ \A signal \in Signal : [d EXCEPT !.signal = signal] \in DisplayList
         /\ \A state \in DlState : [d EXCEPT !.state = state] \in DisplayList
         /\ \A b \in BOOLEAN : /\ [d EXCEPT !.pendingInterrupt = b] \in DisplayList
                               /\ [d EXCEPT !.started = b] \in DisplayList
                               /\ [d EXCEPT !.busy = b] \in DisplayList
<1>1. \A pos \in Nat : [d EXCEPT !.pos = pos] \in DisplayList
  BY DEF DisplayList
<1>2. \A stall \in Nat : [d EXCEPT !.stall = stall] \in DisplayList
  BY DEF DisplayList
<1>3. \A signal \in Signal : [d EXCEPT !.signal = signal] \in DisplayList
  BY DEF DisplayList
<1>4. \A state \in DlState : [d EXCEPT !.state = state] \in DisplayList
  BY DEF DisplayList
<1>5. \A b \in BOOLEAN : [d EXCEPT !.pendingInterrupt = b] \in DisplayList
  BY DEF DisplayList
<1>6. \A b \in BOOLEAN : [d EXCEPT !.started = b] \in DisplayList
  BY DEF DisplayList
<1>7. \A b \in BOOLEAN : [d EXCEPT !.busy = b] \in DisplayList
  BY DEF DisplayList
<1> QED BY <1>1, <1>2, <1>3, <1>4, <1>5, <1>6, <1>7

LEMMA ChangedFields ==
  ASSUME NEW y \in Engine, NEW l \in List, NEW d \in DisplayList
  PROVE  /\ Changed(y, l, d) \in Engine
         /\ Changed(y, l, d).dls \in [List -> DisplayList]
         /\ Changed(y, l, d).dls[l] = d
         /\ \A m \in List : m # l => Changed(y, l, d).dls[m] = y.dls[m]
<1>1. Changed(y, l, d) \in Engine
  BY DEF Changed, Engine
<1>2. /\ Changed(y, l, d).dls \in [List -> DisplayList]
      /\ Changed(y, l, d).dls[l] = d
      /\ \A m \in List : m # l => Changed(y, l, d).dls[m] = y.dls[m]
  BY DEF Changed, Engine
<1> QED BY <1>1, <1>2

LEMMA ChangedTwice ==
  ASSUME NEW y \in Engine, NEW l \in List, NEW d \in DisplayList, NEW e \in DisplayList
  PROVE  Changed(Changed(y, l, d), l, e) = Changed(y, l, e)
BY DEF Changed, Engine

LEMMA ChangedNoted ==
  ASSUME NEW y \in Engine, NEW l \in List, NEW d \in DisplayList, NEW e \in DisplayList,
         NEW c \in PendingCallback
  PROVE  Noted(Changed(y, l, d), l, e, c) = Noted(y, l, e, c)
BY DEF Changed, Engine, Noted

\* A list that runs and is not at its stall address executes one command.
LEMMA Executes ==
  ASSUME Orderly, NEW y, Typed(y), NEW l \in List,
         y.dls[l].state = "RUNNING", y.dls[l].started, ~AtStall(y.dls[l])
  PROVE  Ran(y, l, Execute(y, l))
<1> DEFINE d == y.dls[l]
           cmd == d.prog[d.pos + 1]
           e == [d EXCEPT !.pos = @ + 1]
           r == Execute(y, l)
<1>1. d \in DisplayList /\ ListTyped(d) /\ y \in Engine
  BY DEF Typed, Engine
<1>2. /\ d.pos \in Nat /\ d.pos + 1 \in 1..Len(d.prog) /\ d.prog \in Seq(Command)
      /\ cmd \in Command /\ cmd # "CONTINUE" /\ (cmd = "SUSPEND" => OldSdk)
  <2>1. d.pos \in Nat /\ d.stall \in Nat /\ d.prog \in Programs \cup {<<>>} /\ d.pos <= Len(d.prog)
    BY <1>1 DEF ListTyped, DisplayList, InBounds
  <2>2. d.prog \in Seq(Command)
    <3>1. <<>> \in Seq(Command) /\ Programs \subseteq Seq(Command)
      BY GeAssumption
    <3> QED BY <2>1, <3>1
  <2>3. d.pos # Len(d.prog) /\ Len(d.prog) \in Nat
    BY <2>2 DEF AtStall
  <2>4. d.pos + 1 \in 1..Len(d.prog)
    BY <2>1, <2>3, SMTT(20)
  <2>5. d.prog \in Programs
    BY <2>1, <2>4, SMTT(20)
  <2> QED BY <2>1, <2>2, <2>4, <2>5 DEF Orderly
<1>3. /\ d.pos <= d.stall \/ SyncSeen(d)
      /\ d.pos # d.stall /\ d.stall \in Nat /\ d.stall <= Len(d.prog)
      /\ d.signal = "SYNC" => SyncSeen(d)
  BY <1>1, <1>2 DEF ListTyped, InBounds, AtStall, DisplayList
<1>4. SyncSeen(d) \/ cmd = "SYNC" => SyncSeen(e) /\ \A s \in Signal : SyncSeen([e EXCEPT !.signal = s])
  BY <1>1, <1>2 DEF SyncSeen, DisplayList
<1>5. ASSUME NEW f \in DisplayList, f.pos = d.pos + 1, f.stall = d.stall, f.prog = d.prog,
             f.signal = "SYNC" => SyncSeen(d) \/ cmd = "SYNC"
      PROVE  ListTyped(f)
  <2>1. SyncSeen(d) \/ cmd = "SYNC" => SyncSeen(f)
    BY <1>2, <1>5 DEF SyncSeen
  <2> QED BY <1>2, <1>3, <1>5, <2>1 DEF ListTyped, InBounds
<1> HIDE DEF cmd
<1>e. e \in DisplayList
  BY <1>1, <1>2, ListFields
<1> DEFINE z == [y EXCEPT !.dls[l].pos = @ + 1]
<1>6. z = Changed(y, l, e) /\ y.dls \in [List -> DisplayList] /\ z.dls[l] = e /\ z.dls = [y.dls EXCEPT ![l] = e]
  BY <1>1 DEF Engine, Changed, DisplayList
<1>7. CASE cmd = "draw"
  <2>1. r = [x |-> z, gpu |-> "RUNNING"]
    BY <1>7 DEF Execute, cmd
  <2>2. e \in DisplayList /\ Plain(y, l, e)
    BY <1>1, <1>2, <1>3, <1>5 DEF DisplayList, Plain
  <2> QED BY <1>6, <2>1, <2>2 DEF Ran
<1>8. CASE cmd \in {"PAUSE", "SYNC"}
  <2> DEFINE f == [e EXCEPT !.signal = cmd]
  <2>1. r = [x |-> [z EXCEPT !.dls[l].signal = cmd], gpu |-> "RUNNING"]
    BY <1>8 DEF Execute, cmd
  <2>2. [z EXCEPT !.dls[l].signal = cmd] = Changed(y, l, f)
    BY <1>1, <1>6, ZenonT(40) DEF Changed, DisplayList, Engine
  <2>3. f \in DisplayList
    <3>1. cmd \in Signal
      BY <1>8 DEF Signal
    <3> QED BY <1>e, <3>1, ListFields
  <2>4. /\ f.pos = d.pos + 1 /\ f.stall = d.stall /\ f.prog = d.prog /\ f.signal = cmd
        /\ f.started = d.started /\ f.busy = d.busy /\ f.state = d.state
        /\ f.pendingInterrupt = d.pendingInterrupt
    BY <1>1 DEF DisplayList
  <2> HIDE DEF f
  <2>5. ListTyped(f)
    BY <1>5, <2>3, <2>4
  <2>6. Plain(y, l, f)
    BY <2>4, <2>5 DEF Plain
  <2> QED BY <2>1, <2>2, <2>3, <2>6 DEF Ran
<1>9. ASSUME NEW u \in Engine, NEW f \in DisplayList, u = Changed(y, l, f), NEW what \in {"SIGNAL", "FINISH"},
             f.pos = d.pos + 1, f.stall = d.stall, f.prog = d.prog,
             f.signal = "SYNC" => SyncSeen(d) \/ cmd = "SYNC",
             f.started, f.busy = d.busy,
             NEW gpu \in {"INTERRUPT", "DONE"},
             gpu = "INTERRUPT" => /\ f.state = "PAUSED"
                                  /\ what = "SIGNAL" \/ f.signal = "PAUSE",
             gpu = "DONE" => what = "FINISH" /\ f.signal # "PAUSE"
      PROVE  Ran(y, l, [x |-> TriggerInterrupt(u, l, what), gpu |-> gpu])
  <2> HIDE DEF d, e, z, r
  <2> DEFINE g == [f EXCEPT !.pendingInterrupt = TRUE]
             c == [list |-> l, cmd |-> what, pc |-> f.pos]
  <2>1. g \in DisplayList /\ c \in PendingCallback /\ c.cmd = what /\ c.list = l /\ c.pc = f.pos
    BY <1>9 DEF DisplayList, PendingCallback
  <2>2. /\ g.pos = d.pos + 1 /\ g.stall = d.stall /\ g.prog = d.prog /\ g.signal = f.signal
        /\ g.started /\ g.busy = d.busy /\ g.state = f.state
        /\ g.pendingInterrupt
    BY <1>9 DEF DisplayList
  <2>3. TriggerInterrupt(u, l, what) = Noted(y, l, g, c)
    <3>1. y \in Engine /\ f \in DisplayList /\ g \in DisplayList
      BY <1>1, <1>9, <2>1
    <3>5. u.dls[l] = f
      <4>1. Changed(y, l, f).dls[l] = f
        BY <3>1, ChangedFields
      <4> QED BY <1>9, <4>1
    <3>2. TriggerInterrupt(u, l, what) = Noted(u, l, g, c)
      BY <1>9, <3>1, <3>5, ZenonT(40) DEF TriggerInterrupt, Noted, Engine
    <3> HIDE DEF g, c
    <3>3. u = Changed(y, l, f)
      BY <1>9
    <3>4. Noted(Changed(y, l, f), l, g, c) = Noted(y, l, g, c)
      BY <2>1, <3>1, ChangedNoted
    <3> QED BY <3>2, <3>3, <3>4
  <2> HIDE DEF g, c
  <2>4. ListTyped(g)
    BY <1>5, <1>9, <2>1, <2>2
  <2>5. Calling(y, l, g, c, gpu)
    <3>1. g.busy = y.dls[l].busy
      BY <2>2 DEF d
    <3>2. gpu = "INTERRUPT" => g.state = "PAUSED" /\ IF c.cmd = "SIGNAL" THEN g.pos = c.pc ELSE g.signal = "PAUSE"
      BY <1>9, <2>1, <2>2
    <3>3. gpu = "DONE" => c.cmd = "FINISH" /\ g.signal # "PAUSE"
      BY <1>9, <2>1, <2>2
    <3> QED BY <2>1, <2>2, <2>4, <3>1, <3>2, <3>3 DEF Calling
  <2> QED BY <1>9, <2>1, <2>3, <2>5 DEF Ran
<1>10. CASE cmd = "SUSPEND"
  <2> DEFINE f == [e EXCEPT !.signal = "SUSPEND", !.state = "PAUSED"]
             u == Suspend([z EXCEPT !.dls[l].signal = cmd], l)
  <2>1. r = [x |-> TriggerInterrupt(u, l, "SIGNAL"), gpu |-> "INTERRUPT"]
    BY <1>10 DEF Execute, cmd
  <2>2. u = [[z EXCEPT !.dls[l].signal = cmd] EXCEPT !.dls[l].state = "PAUSED"]
    BY <1>2, <1>10 DEF Suspend
  <2>3. f \in DisplayList
    <3>1. "SUSPEND" \in Signal /\ "PAUSED" \in DlState
      BY DEF Signal, DlState
    <3>2. [e EXCEPT !.signal = "SUSPEND"] \in DisplayList
      BY <1>e, <3>1, ListFields
    <3>3. f = [[e EXCEPT !.signal = "SUSPEND"] EXCEPT !.state = "PAUSED"]
      OBVIOUS
    <3> QED BY <3>1, <3>2, <3>3, ListFields
  <2>5. u = Changed(y, l, f)
    <3>1. u = [Changed(y, l, e) EXCEPT !.dls[l].signal = "SUSPEND", !.dls[l].state = "PAUSED"]
      BY <1>6, <1>10, <2>2
    <3>2. u = [Changed(y, l, e) EXCEPT !.dls[l] = f]
      <4> DEFINE v == Changed(y, l, e)
      <4> HIDE DEF e, z, d, r, u
      <4>1. v \in Engine /\ v.dls \in [List -> DisplayList] /\ v.dls[l] = e
        <5>1. y \in Engine
          BY <1>1
        <5> QED BY <1>e, <5>1, ChangedFields
      <4>2. u = [v EXCEPT !.dls[l].signal = "SUSPEND", !.dls[l].state = "PAUSED"]
        BY <3>1
      <4> HIDE DEF v
      <4>3. u = [v EXCEPT !.dls[l] = f]
        BY <4>1, <4>2 DEF Engine, DisplayList
      <4> QED BY <4>3 DEF v
    <3> HIDE DEF e, z, d, r, u, f
    <3>3. u = Changed(Changed(y, l, e), l, f)
      BY <3>2 DEF Changed
    <3> QED BY <1>1, <1>e, <2>3, <3>3, ChangedTwice
  <2>4. /\ f.pos = d.pos + 1 /\ f.stall = d.stall /\ f.prog = d.prog /\ f.signal = "SUSPEND"
        /\ f.started = d.started /\ f.busy = d.busy /\ f.state = "PAUSED"
    BY <1>1 DEF DisplayList
  <2> HIDE DEF f, u
  <2>6. u \in Engine
    BY <1>1, <2>3, <2>5, ChangedFields
  <2> QED BY <1>9, <2>1, <2>3, <2>4, <2>5, <2>6
<1>11. CASE cmd = "FINISH" /\ d.signal = "PAUSE"
  <2> DEFINE f == [e EXCEPT !.state = "PAUSED"]
             u == [z EXCEPT !.dls[l].state = "PAUSED"]
  <2>1. r = [x |-> TriggerInterrupt(u, l, "FINISH"), gpu |-> "INTERRUPT"]
    BY <1>11 DEF Execute, cmd
  <2>3. f \in DisplayList
    <3>1. "PAUSED" \in DlState
      BY DEF DlState
    <3> QED BY <1>e, <3>1, ListFields
  <2>5. u = Changed(y, l, f)
    BY <1>1, <1>6, ZenonT(40) DEF Changed, DisplayList, Engine
  <2>4. /\ f.pos = d.pos + 1 /\ f.stall = d.stall /\ f.prog = d.prog /\ f.signal = "PAUSE"
        /\ f.started = d.started /\ f.busy = d.busy /\ f.state = "PAUSED"
    BY <1>1, <1>11 DEF DisplayList
  <2> HIDE DEF f, u
  <2>6. u \in Engine
    BY <1>1, <2>3, <2>5, ChangedFields
  <2> QED BY <1>9, <2>1, <2>3, <2>4, <2>5, <2>6
<1>12. CASE cmd = "FINISH" /\ d.signal = "SYNC"
  <2> DEFINE f == [e EXCEPT !.signal = "NONE"]
  <2>1. r = [x |-> [z EXCEPT !.dls[l].signal = "NONE"], gpu |-> "RUNNING"]
    BY <1>12 DEF Execute, cmd
  <2>2. [z EXCEPT !.dls[l].signal = "NONE"] = Changed(y, l, f)
    BY <1>1, <1>6, ZenonT(40) DEF Changed, DisplayList, Engine
  <2>3. f \in DisplayList
    <3>1. "NONE" \in Signal
      BY DEF Signal
    <3> QED BY <1>e, <3>1, ListFields
  <2>4. /\ f.pos = d.pos + 1 /\ f.stall = d.stall /\ f.prog = d.prog /\ f.signal = "NONE"
        /\ f.started = d.started /\ f.busy = d.busy /\ f.state = d.state
        /\ f.pendingInterrupt = d.pendingInterrupt
    BY <1>1 DEF DisplayList
  <2> HIDE DEF f
  <2>5. ListTyped(f)
    BY <1>5, <2>3, <2>4
  <2>6. Plain(y, l, f)
    BY <2>4, <2>5 DEF Plain
  <2> QED BY <2>1, <2>2, <2>3, <2>6 DEF Ran
<1>13. CASE cmd = "FINISH" /\ d.signal \notin {"PAUSE", "SYNC"}
  <2>1. r = [x |-> TriggerInterrupt(z, l, "FINISH"), gpu |-> "DONE"]
    BY <1>13 DEF Execute, cmd
  <2>2. z \in Engine /\ e \in DisplayList
    <3> HIDE DEF z, e
    <3> QED BY <1>1, <1>e, <1>6, ChangedFields
  <2>3. /\ e.pos = d.pos + 1 /\ e.stall = d.stall /\ e.prog = d.prog /\ e.signal = d.signal
        /\ e.started = d.started /\ e.busy = d.busy
    BY <1>1 DEF DisplayList
  <2> HIDE DEF z, e
  <2> QED BY <1>6, <1>9, <1>13, <2>1, <2>2, <2>3
<1> QED BY <1>2, <1>7, <1>8, <1>10, <1>11, <1>12, <1>13 DEF Command

-----------------------------------------------------------------------------
(* The run loop. *)

RunRound(q, l) ==
  IF q.gpu # "RUNNING" THEN q
  ELSE IF AtStall(q.x.dls[l]) THEN [q EXCEPT !.gpu = "STALL"]
  ELSE Execute(q.x, l)

\* after is the sequence of the states of the loop that RunLoop() runs.
RunLoopIs(y, l, after) ==
  LET N == Len(y.dls[l].prog) + 1
  IN  /\ after[0] = [x |-> y, gpu |-> "RUNNING"]
      /\ \A n \in 1..N : after[n] = RunRound(after[n - 1], l)
      /\ RunLoop(y, l) = after[N]

LEMMA RunLoopExists ==
  ASSUME NEW y, NEW l, Len(y.dls[l].prog) \in Nat
  PROVE  \E after : RunLoopIs(y, l, after)
<1> DEFINE N == Len(y.dls[l].prog) + 1
           First == [x |-> y, gpu |-> "RUNNING"]
           IsLoop(f, m) ==
             f = [n \in 0..m |-> IF n = 0 THEN First ELSE RunRound(f[n - 1], l)]
           after == CHOOSE f : IsLoop(f, N)
<1>1. RunLoop(y, l) = after[N]
  BY DEF RunLoop, RunRound
<1>2. after[0] = First /\ \A n \in 1..N : after[n] = RunRound(after[n - 1], l)
  <2> HIDE DEF First
  <2>a. N \in Nat
    OBVIOUS
  <2> HIDE DEF N
  <2>1. IsLoop(after, N)
    <3> DEFINE G == {m \in 0..N : \E f : IsLoop(f, m)}
    <3>2. 0 \in G
      <4>1. IsLoop([n \in 0..0 |-> First], 0)
        OBVIOUS
      <4> HIDE DEF IsLoop
      <4> QED BY <2>a, <4>1
    <3>3. ASSUME NEW m \in 1..N, m - 1 \in G PROVE m \in G
      <4>1. PICK f : IsLoop(f, m - 1)
        BY <3>3
      <4> DEFINE g == [n \in 0..m |-> IF n < m THEN f[n] ELSE RunRound(f[m - 1], l)]
      <4>2. ASSUME NEW n \in 0..m
            PROVE  g[n] = IF n = 0 THEN First ELSE RunRound(g[n - 1], l)
        <5>1. CASE n = 0
          BY <4>1, <5>1
        <5>2. CASE n # 0 /\ n < m
          BY <4>1, <5>2
        <5>3. CASE n = m
          BY <5>3
        <5> QED BY <5>1, <5>2, <5>3
      <4>3. IsLoop(g, m)
        BY <4>2
      <4> HIDE DEF IsLoop, g
      <4> QED BY <4>3
    <3> HIDE DEF G
    <3>4. \A m \in 1..N : m - 1 \in G => m \in G
      BY <3>3
    <3>5. \A m \in 0..N : m \in G
      BY <2>a, <3>2, <3>4, SetInduction
    <3>6. N \in G
      BY <2>a, <3>5
    <3> QED BY <3>6 DEF G
  <2> HIDE DEF after
  <2> QED BY <2>a, <2>1
<1> HIDE DEF after
<1> QED BY <1>1, <1>2 DEF RunLoopIs

\* Running on from where a run has got.
LEMMA RanOn ==
  ASSUME Orderly, NEW y, Typed(y), NEW l \in List, NEW q, Ran(y, l, q)
  PROVE  Ran(y, l, RunRound(q, l))
<1>1. CASE q.gpu # "RUNNING"
  BY <1>1 DEF RunRound
<1>2. CASE q.gpu = "RUNNING"
  <2>1. PICK d \in DisplayList : Plain(y, l, d) /\ q.x = Changed(y, l, d)
    BY <1>2 DEF Ran
  <2>2. y \in Engine /\ \A m \in List : ListTyped(y.dls[m])
    BY DEF Typed
  <2>3. /\ q.x \in Engine /\ q.x.dls[l] = d
        /\ \A m \in List : m # l => q.x.dls[m] = y.dls[m]
    <3>1. /\ Changed(y, l, d) \in Engine /\ Changed(y, l, d).dls[l] = d
          /\ \A m \in List : m # l => Changed(y, l, d).dls[m] = y.dls[m]
      BY <2>2, ChangedFields
    <3> QED BY <2>1, <3>1
  <2>4. Typed(q.x)
    BY <2>1, <2>2, <2>3 DEF Typed, Plain
  <2>5. CASE AtStall(d)
    <3> DEFINE r == RunRound(q, l)
    <3>1. r = [q EXCEPT !.gpu = "STALL"]
      BY <1>2, <2>3, <2>5 DEF RunRound
    <3>2. q = [x |-> q.x, gpu |-> q.gpu]
      BY DEF Ran
    <3>3. r = [x |-> q.x, gpu |-> "STALL"]
      BY <3>1, <3>2
    <3> HIDE DEF r
    <3>4. r = [x |-> r.x, gpu |-> r.gpu] /\ r.x = q.x /\ r.gpu = "STALL"
      BY <3>3
    <3>5. Ran(y, l, r)
      BY <2>1, <3>4 DEF Ran
    <3> QED BY <3>5 DEF r
  <2>6. CASE ~AtStall(d)
    <3> DEFINE r == Execute(q.x, l)
    <3>1. RunRound(q, l) = r
      BY <1>2, <2>3, <2>6 DEF RunRound
    <3>2. Ran(q.x, l, r)
      BY <2>1, <2>3, <2>4, <2>6, Executes DEF Plain
    <3> HIDE DEF r
    <3>3. ASSUME NEW e \in DisplayList, Plain(q.x, l, e) PROVE Plain(y, l, e)
      BY <2>1, <2>3, <3>3 DEF Plain
    <3>4. ASSUME NEW e \in DisplayList, NEW c \in PendingCallback,
                 Calling(q.x, l, e, c, r.gpu)
          PROVE  Calling(y, l, e, c, r.gpu)
      BY <2>1, <2>3, <3>4 DEF Plain, Calling
    <3>5. ASSUME NEW e \in DisplayList PROVE Changed(q.x, l, e) = Changed(y, l, e)
      BY <2>1, <2>2, ChangedTwice
    <3>6. ASSUME NEW e \in DisplayList, NEW c \in PendingCallback
          PROVE  Noted(q.x, l, e, c) = Noted(y, l, e, c)
      BY <2>1, <2>2, ChangedNoted
    <3>7. Ran(y, l, r)
      BY <3>2, <3>3, <3>4, <3>5, <3>6 DEF Ran
    <3> QED BY <3>1, <3>7
  <2> QED BY <2>5, <2>6
<1> QED BY <1>1, <1>2

\* A list that is started and running is run as far as it goes.
LEMMA RunsList ==
  ASSUME Orderly, NEW y, Typed(y), NEW l \in List, y.dls[l].state = "RUNNING",
         y.dls[l].started
  PROVE  Ran(y, l, RunLoop(y, l))
<1>1. y \in Engine /\ y.dls[l] \in DisplayList /\ ListTyped(y.dls[l])
  BY DEF Typed, Engine
<1>2. Len(y.dls[l].prog) \in Nat
  <2>1. y.dls[l].prog \in Programs \cup {<<>>}
    BY <1>1 DEF DisplayList
  <2>2. <<>> \in Seq(Command) /\ Programs \subseteq Seq(Command)
    BY GeAssumption
  <2> QED BY <2>1, <2>2
<1> DEFINE N == Len(y.dls[l].prog) + 1
<1>3. PICK after : RunLoopIs(y, l, after)
  BY <1>2, RunLoopExists
<1>4. N \in Nat /\ after[0] = [x |-> y, gpu |-> "RUNNING"]
      /\ (\A n \in 1..N : after[n] = RunRound(after[n - 1], l)) /\ RunLoop(y, l) = after[N]
  BY <1>2, <1>3 DEF RunLoopIs
<1> DEFINE G == {n \in 0..N : Ran(y, l, after[n])}
<1> HIDE DEF N
<1>5. 0 \in G
  <2> DEFINE d == y.dls[l]
             q == [x |-> y, gpu |-> "RUNNING"]
  <2>1. Plain(y, l, d)
    BY <1>1 DEF Plain
  <2>2. q.x = Changed(y, l, d) /\ q.gpu = "RUNNING" /\ q = [x |-> q.x, gpu |-> q.gpu]
    BY <1>1 DEF Changed, Engine
  <2> HIDE DEF d, q
  <2>3. d \in DisplayList
    BY <1>1 DEF d
  <2>4. Ran(y, l, q)
    BY <2>1, <2>2, <2>3 DEF Ran
  <2> QED BY <1>4, <2>4 DEF q
<1>6. \A n \in 1..N : n - 1 \in G => n \in G
  <2> SUFFICES ASSUME NEW n \in 1..N, n - 1 \in G PROVE n \in G
    OBVIOUS
  <2>1. Ran(y, l, after[n - 1]) /\ after[n] = RunRound(after[n - 1], l) /\ n \in 0..N
    BY <1>4
  <2>2. Ran(y, l, after[n])
    BY <2>1, RanOn
  <2> QED BY <2>1, <2>2
<1> HIDE DEF G
<1>7. \A n \in 0..N : n \in G
  BY <1>4, <1>5, <1>6, SetInduction
<1>8. N \in G
  BY <1>4, <1>7
<1> QED BY <1>4, <1>8 DEF G

-----------------------------------------------------------------------------
(* The queue. *)

\* Taking out what is not there, and the first of a list of different elements.
LEMMA WithoutAbsent ==
  ASSUME NEW S, NEW s \in Seq(S), NEW e, ~Holds(s, e)
  PROVE  Without(s, {e}) = s
<1> DEFINE G == {z \in Seq(S) : ~Holds(z, e) => Without(z, {e}) = z}
<1>1. <<>> \in G
  <2>1. Without(<<>>, {e}) = <<>> /\ <<>> \in Seq(S)
    BY WithoutNothing
  <2> QED BY <2>1
<1>2. ASSUME NEW z \in Seq(S), NEW u \in S, z \in G PROVE Append(z, u) \in G
  <2>0. z \in Seq(S) /\ Append(z, u) \in Seq(S)
    OBVIOUS
  <2> SUFFICES ASSUME ~Holds(Append(z, u), e) PROVE Without(Append(z, u), {e}) = Append(z, u)
    BY <2>0
  <2>1. ~Holds(z, e) /\ u # e
    BY AppendHolds
  <2>2. Without(z, {e}) = z
    BY <1>2, <2>1
  <2>3. Without(Append(z, u), {e})
          = IF u \in {e} THEN Without(z, {e}) ELSE Append(Without(z, {e}), u)
    BY <2>0, WithoutAppend
  <2> QED BY <2>1, <2>2, <2>3
<1> HIDE DEF G
<1>3. s \in G
  BY <1>1, <1>2, SeqInduction
<1> QED BY <1>3 DEF G

LEMMA WithoutFirst ==
  ASSUME NEW S, NEW s \in Seq(S), s # <<>>, Distinct(s)
  PROVE  Without(s, {Head(s)}) = Tail(s)
<1> DEFINE Claim(z) == z # <<>> /\ Distinct(z) => Without(z, {Head(z)}) = Tail(z)
           G == {z \in Seq(S) : Claim(z)}
<1>1. <<>> \in G
  OBVIOUS
<1>2. ASSUME NEW z \in Seq(S), NEW u \in S, z \in G PROVE Append(z, u) \in G
  <2>0. z \in Seq(S) /\ Append(z, u) \in Seq(S)
    OBVIOUS
  <2> SUFFICES ASSUME Distinct(Append(z, u)) PROVE Claim(Append(z, u))
    BY <2>0
  <2>1. CASE z = <<>>
    <3>1. Append(z, u) = <<u>> /\ Head(Append(z, u)) = u /\ Tail(Append(z, u)) = <<>>
      BY <2>1
    <3>2. Without(Append(z, u), {u}) = Without(<<>>, {u})
      BY <2>1, WithoutAppend, ZenonT(40)
    <3> QED BY <3>1, <3>2, WithoutNothing
  <2>2. CASE z # <<>>
    <3>1. /\ Head(Append(z, u)) = Head(z) /\ Tail(Append(z, u)) = Append(Tail(z), u)
          /\ Len(z) \in Nat /\ 1 \in 1..Len(z) /\ z[1] = Head(z) /\ Tail(z) \in Seq(S)
          /\ Append(z, u)[1] = z[1] /\ Append(z, u)[Len(z) + 1] = u
          /\ Len(Append(z, u)) = Len(z) + 1
          /\ \A n \in 1..Len(z) : Append(z, u)[n] = z[n]
      BY <2>2
    <3>2. Distinct(z)
      BY <3>1 DEF Distinct
    <3>3. u # Head(z)
      BY <3>1 DEF Distinct
    <3>4. Without(z, {Head(z)}) = Tail(z)
      BY <1>2, <2>2, <3>2
    <3>5. Without(Append(z, u), {Head(z)})
            = IF u \in {Head(z)} THEN Without(z, {Head(z)})
              ELSE Append(Without(z, {Head(z)}), u)
      BY <2>0, WithoutAppend
    <3> QED BY <3>1, <3>3, <3>4, <3>5
  <2> QED BY <2>1, <2>2
<1> HIDE DEF G
<1>3. s \in G
  BY <1>1, <1>2, SeqInduction
<1> QED BY <1>3 DEF G

\* A list that leaves the queue leaves the others in their order.
LEMMA WithoutOrder ==
  ASSUME NEW S, NEW s \in Seq(S), NEW e, Distinct(s)
  PROVE  LET r == Without(s, {e})
         IN  /\ r \in Seq(S) /\ Distinct(r)
             /\ \A u : Holds(r, u) <=> Holds(s, u) /\ u # e
             /\ \A n \in 1..Len(r) : n > 1 => \E m \in 1..Len(s) : m > 1 /\ s[m] = r[n]
             /\ s # <<>> /\ Head(s) # e => r # <<>> /\ Head(r) = Head(s)
<1> DEFINE r == Without(s, {e})
<1>1. r \in Seq(S) /\ Distinct(r) /\ \A u : Holds(r, u) <=> Holds(s, u) /\ u # e
  BY WithoutHolds
<1>2. PICK f : TakenFrom(r, s, {e}, f)
  BY WithoutTakes
<1> HIDE DEF r
<1>3. Len(r) \in Nat /\ Len(s) \in Nat
  BY <1>1
<1>4. ASSUME NEW n \in 1..Len(r), n > 1 PROVE \E m \in 1..Len(s) : m > 1 /\ s[m] = r[n]
  <2>0. 1 \in 1..Len(r) /\ n \in 1..Len(r) /\ 1 < n
    BY <1>3, <1>4
  <2>1. f[1] \in 1..Len(s) /\ f[n] \in 1..Len(s) /\ f[1] < f[n] /\ s[f[n]] = r[n]
    BY <1>2, <2>0 DEF TakenFrom
  <2> QED BY <1>3, <2>1
<1>5. ASSUME s # <<>>, Head(s) # e PROVE r # <<>> /\ Head(r) = Head(s)
  <2>1. 1 \in 1..Len(s) /\ s[1] = Head(s) /\ s[1] \notin {e}
    BY <1>5
  <2>2. PICK i \in 1..Len(r) : f[i] = 1
    BY <1>2, <2>1 DEF TakenFrom
  <2>3. 1 \in 1..Len(r) /\ f[1] \in 1..Len(s) /\ r[1] = s[f[1]]
    BY <1>2, <1>3, <2>2 DEF TakenFrom
  <2>4. i = 1
    <3>1. i > 1 => f[1] < f[i]
      BY <1>2, <2>2, <2>3 DEF TakenFrom
    <3> QED BY <2>2, <2>3, <3>1
  <2>5. r[1] = Head(s)
    BY <2>1, <2>2, <2>3, <2>4
  <2> QED BY <1>1, <2>3, <2>5
<1> QED BY <1>1, <1>4, <1>5 DEF r

\* The invariant does not depend on the rest of a record.
LEMMA QueuesKept ==
  ASSUME NEW y, QueuesOK(y), NEW z \in Engine,
         z.dls = y.dls, z.queue = y.queue, z.pend = y.pend, z.wait = y.wait,
         z.draw = y.draw, z.drawEvent = y.drawEvent
  PROVE  QueuesOK(z)
BY DEF QueuesOK, Typed, QueueOK, PendOK, CallbackOK, WaitOK

Live == {"QUEUED", "RUNNING", "PAUSED"}

\* One list changes, and the callbacks that are to come for it do not notice.
Unnoticed(y, l, d) ==
  \A n \in 1..Len(y.pend) : y.pend[n].list = l =>
    /\ d.pendingInterrupt /\ d.started /\ d.pos = y.dls[l].pos /\ d.signal = y.dls[l].signal
    /\ Holds(y.queue, l) \/ y.pend[n].cmd = "SIGNAL" => d.state = y.dls[l].state
InPlace(y, l, d) ==
  Holds(y.queue, l) => d.state \in Live /\ (d.state = "QUEUED" \/ Head(y.queue) = l)

LEMMA OneListChanges ==
  ASSUME NEW y, QueuesOK(y), NEW l \in List, NEW d, ListTyped(d),
         y.dls[l].busy => d.busy \/ \A t \in Thread : y.wait[t] # l,
         Unnoticed(y, l, d), InPlace(y, l, d)
  PROVE  QueuesOK(Changed(y, l, d))
<1> DEFINE z == Changed(y, l, d)
<1>1. y \in Engine /\ d \in DisplayList
  BY DEF QueuesOK, Typed, ListTyped
<1>2. /\ z \in Engine /\ z.dls[l] = d
      /\ \A m \in List : m # l => z.dls[m] = y.dls[m]
  BY <1>1, ChangedFields
<1>3. z.queue = y.queue /\ z.pend = y.pend /\ z.wait = y.wait /\ z.draw = y.draw
      /\ z.drawEvent = y.drawEvent
  BY <1>1 DEF Changed, Engine
<1>4. y.queue \in Seq(List) /\ y.pend \in Seq(PendingCallback) /\ \A n \in 1..Len(y.pend) : y.pend[n].list \in List
  <2>1. y.queue \in Seq(List) /\ y.pend \in Seq(PendingCallback)
    BY <1>1 DEF Engine
  <2>2. \A n \in 1..Len(y.pend) : y.pend[n] \in PendingCallback
    BY <2>1
  <2> QED BY <2>1, <2>2 DEF PendingCallback
<1> HIDE DEF z
<1>5. Typed(z)
  BY <1>2 DEF QueuesOK, Typed
<1>6. QueueOK(z)
  <2>1. ASSUME NEW n \in 1..Len(y.queue), y.queue[n] = l
        PROVE  d.state \in Live /\ (n > 1 => d.state = "QUEUED")
    <3>1. Holds(y.queue, l) /\ d.state \in Live /\ (d.state = "QUEUED" \/ Head(y.queue) = l)
      BY <2>1 DEF Holds, InPlace
    <3>2. n > 1 => Head(y.queue) # l
      <4>1. Head(y.queue) = y.queue[1] /\ 1 \in 1..Len(y.queue)
        BY <1>4
      <4> QED BY <2>1, <4>1 DEF QueuesOK, QueueOK, Distinct
    <3> QED BY <3>1, <3>2
  <2>2. \A n \in 1..Len(y.queue) : y.queue[n] \in List
    BY <1>4
  <2> QED BY <1>2, <1>3, <2>1, <2>2 DEF QueuesOK, QueueOK, Live
<1>7. PendOK(z)
  <2>1. ASSUME NEW n \in 1..Len(y.pend) PROVE CallbackOK(z, y.pend[n])
    <3>1. CallbackOK(y, y.pend[n]) /\ y.pend[n].list \in List
      BY <1>4 DEF QueuesOK, PendOK
    <3>2. CASE y.pend[n].list = l
      BY <1>2, <1>3, <3>1, <3>2 DEF CallbackOK, Unnoticed
    <3>3. CASE y.pend[n].list # l
      BY <1>2, <1>3, <3>1, <3>3 DEF CallbackOK
    <3> QED BY <3>2, <3>3
  <2> QED BY <1>3, <2>1 DEF QueuesOK, PendOK
<1>8. WaitOK(z)
  <2>1. \A t \in Thread : y.wait[t] \in List => z.dls[y.wait[t]].busy
    BY <1>2 DEF QueuesOK, WaitOK
  <2> QED BY <1>3, <2>1 DEF QueuesOK, WaitOK
<1> QED BY <1>5, <1>6, <1>7, <1>8 DEF QueuesOK, z

\* List l becomes d, which has noted callback c.
LEMMA OneListNotes ==
  ASSUME NEW y, QueuesOK(y), NEW l \in List, NEW d, ListTyped(d),
         y.dls[l].busy => d.busy, d.pendingInterrupt, d.started,
         \A n \in 1..Len(y.pend) : y.pend[n].list # l,
         InPlace(y, l, d),
         NEW c \in PendingCallback, c.list = l,
         c.cmd = "SIGNAL" => Holds(y.queue, l) /\ d.pos = c.pc,
         c.cmd = "FINISH" => Holds(y.queue, l) \/ d.signal # "PAUSE",
         Holds(y.queue, l) => d.state = "PAUSED" /\ (c.cmd = "FINISH" => d.signal = "PAUSE")
  PROVE  QueuesOK(Noted(y, l, d, c))
<1> DEFINE z == Changed(y, l, d)
           v == Noted(y, l, d, c)
<1>1. y \in Engine /\ d \in DisplayList
  BY DEF QueuesOK, Typed, ListTyped
<1>2. Unnoticed(y, l, d)
  BY DEF Unnoticed
<1>3. QueuesOK(z)
  BY <1>2, OneListChanges
<1>4. z \in Engine /\ z.dls[l] = d
  BY <1>1, ChangedFields
<1>5. /\ v = [z EXCEPT !.pend = Append(@, c), !.intrEvents = @ + 1]
      /\ z.pend = y.pend /\ z.queue = y.queue
  BY <1>1 DEF Noted, Changed, Engine
<1> HIDE DEF z
<1>6. z.pend \in Seq(PendingCallback) /\ z.intrEvents \in Nat
  BY <1>4 DEF Engine
<1> DEFINE p == Append(z.pend, c)
<1>7. /\ v \in Engine /\ v.pend = p /\ v.dls = z.dls /\ v.queue = z.queue /\ v.wait = z.wait
      /\ v.draw = z.draw /\ v.drawEvent = z.drawEvent
  <2>1. p \in Seq(PendingCallback) /\ z.intrEvents + 1 \in Nat
    BY <1>6
  <2> HIDE DEF v, p
  <2>2. v = [z EXCEPT !.pend = p, !.intrEvents = @ + 1]
    BY <1>5 DEF p
  <2> QED BY <1>4, <2>1, <2>2 DEF Engine
<1>8. /\ Len(p) = Len(z.pend) + 1 /\ p[Len(z.pend) + 1] = c /\ Len(z.pend) \in Nat
      /\ \A n \in 1..Len(z.pend) : p[n] = z.pend[n]
  BY <1>6
<1> HIDE DEF v, p
<1>9. \A n \in 1..Len(p) : n \in 1..Len(z.pend) \/ n = Len(z.pend) + 1
  BY <1>8
<1>10. CallbackOK(v, c)
  BY <1>4, <1>5, <1>7 DEF CallbackOK
<1>11. \A n \in 1..Len(z.pend) : CallbackOK(v, z.pend[n])
  BY <1>3, <1>7 DEF QueuesOK, PendOK, CallbackOK
<1>12. PendOK(v)
  <2>1. \A n \in 1..Len(p) : CallbackOK(v, p[n])
    BY <1>8, <1>9, <1>10, <1>11
  <2>2. \A n, m \in 1..Len(p) : p[n].list = p[m].list => n = m
    BY <1>3, <1>5, <1>8, <1>9 DEF QueuesOK, PendOK
  <2> QED BY <1>7, <2>1, <2>2 DEF PendOK
<1>13. Typed(v) /\ QueueOK(v) /\ WaitOK(v)
  BY <1>3, <1>7 DEF QueuesOK, Typed, QueueOK, WaitOK
<1> QED BY <1>12, <1>13 DEF QueuesOK, v

\* A list that has no callback to come may leave the queue.
LEMMA ListLeaves ==
  ASSUME NEW y, QueuesOK(y), NEW l \in List,
         \A n \in 1..Len(y.pend) : y.pend[n].list # l
  PROVE  LET z == LeaveQueue(y, l)
         IN  /\ QueuesOK(z) /\ ~Holds(z.queue, l)
             /\ \A m : Holds(z.queue, m) <=> Holds(y.queue, m) /\ m # l
             /\ z = [y EXCEPT !.queue = z.queue]
             /\ ~Holds(y.queue, l) => z = y
             /\ y.queue # <<>> /\ Head(y.queue) = l =>
                  /\ z.queue = Tail(y.queue)
                  /\ \A n \in 1..Len(z.queue) : y.dls[z.queue[n]].state = "QUEUED"
             /\ y.queue # <<>> /\ Head(y.queue) # l =>
                  z.queue # <<>> /\ Head(z.queue) = Head(y.queue)
<1> DEFINE z == LeaveQueue(y, l)
           q == y.queue
           r == Without(q, {l})
<1>1. y \in Engine /\ q \in Seq(List) /\ Distinct(q) /\ y.pend \in Seq(PendingCallback)
  BY DEF QueuesOK, Typed, Engine, QueueOK
<1>2. /\ r \in Seq(List) /\ Distinct(r)
      /\ \A u : Holds(r, u) <=> Holds(q, u) /\ u # l
      /\ \A n \in 1..Len(r) : n > 1 => \E m \in 1..Len(q) : m > 1 /\ q[m] = r[n]
      /\ q # <<>> /\ Head(q) # l => r # <<>> /\ Head(r) = Head(q)
  BY <1>1, WithoutOrder
<1>3. z = [y EXCEPT !.queue = r]
  BY DEF LeaveQueue
<1> HIDE DEF z, q, r
<1>4. /\ z \in Engine /\ z.queue = r /\ z.dls = y.dls /\ z.pend = y.pend /\ z.wait = y.wait
      /\ z.draw = y.draw /\ z.drawEvent = y.drawEvent
  BY <1>1, <1>2, <1>3 DEF Engine
<1>5. Typed(z) /\ WaitOK(z)
  BY <1>4 DEF QueuesOK, Typed, WaitOK
<1>6. QueueOK(z)
  <2>1. ASSUME NEW n \in 1..Len(r)
        PROVE  /\ y.dls[r[n]].state \in Live
               /\ n > 1 => y.dls[r[n]].state = "QUEUED"
    <3>1. \E m \in 1..Len(q) : q[m] = r[n]
      BY <1>2, <2>1 DEF Holds
    <3>2. n > 1 => \E m \in 1..Len(q) : m > 1 /\ q[m] = r[n]
      BY <1>2, <2>1
    <3> QED BY <3>1, <3>2 DEF QueuesOK, QueueOK, Live, q
  <2> QED BY <1>2, <1>4, <2>1 DEF QueueOK, Live
<1>7. PendOK(z)
  <2>1. ASSUME NEW n \in 1..Len(y.pend) PROVE CallbackOK(z, y.pend[n])
    <3>1. CallbackOK(y, y.pend[n])
      BY <2>1 DEF QueuesOK, PendOK
    <3>2. y.pend[n].list # l
      BY <2>1
    <3> QED BY <1>2, <1>4, <3>1, <3>2 DEF CallbackOK, q
  <2> QED BY <1>4, <2>1 DEF QueuesOK, PendOK
<1>8. QueuesOK(z)
  BY <1>5, <1>6, <1>7 DEF QueuesOK
<1>9. ~Holds(q, l) => z = y
  <2>1. ~Holds(q, l) => r = q
    BY <1>1, WithoutAbsent DEF r
  <2> QED BY <1>1, <1>3, <2>1 DEF q, Engine
<1>10. ASSUME q # <<>>, Head(q) = l
       PROVE  r = Tail(q) /\ \A n \in 1..Len(r) : y.dls[r[n]].state = "QUEUED"
  <2>1. r = Tail(q)
    BY <1>1, <1>10, WithoutFirst DEF r
  <2>2. \A n \in 1..Len(r) : n + 1 \in 1..Len(q) /\ n + 1 > 1 /\ r[n] = q[n + 1]
    BY <1>1, <1>10, <2>1
  <2> QED BY <2>1, <2>2 DEF QueuesOK, QueueOK, q
<1> QED BY <1>2, <1>3, <1>4, <1>8, <1>9, <1>10 DEF z, q

\* What running lists leaves alone, and that each callback it notes has its event.
Counted(y, z) ==
  /\ z.i = y.i /\ z.guest = y.guest
  /\ Len(z.pend) + y.intrEvents = Len(y.pend) + z.intrEvents

\* What is owed stays: no callback is lost, a busy list will be served, and the list of a
\* callback that is being served stays one that goes on or is complete.
Owed(y, z) ==
  /\ \A n \in 1..Len(y.pend) : n \in 1..Len(z.pend) /\ z.pend[n] = y.pend[n]
  /\ \A l \in List : BusyAt(y, l) => BusyAt(z, l)
  /\ \A l \in List : ToCome(y, l) /\ Seen(y, l) => Seen(z, l)

Same(y, z) == Counted(y, z) /\ Owed(y, z)

LEMMA OwedKept ==
  ASSUME NEW y, NEW z, z.dls = y.dls, z.queue = y.queue, z.pend = y.pend, z.guest = y.guest
  PROVE  Owed(y, z)
BY DEF Owed, BusyAt, Seen, ToCome, LeftBy

LEMMA OwedTwice ==
  ASSUME NEW y, NEW z, NEW w, Owed(y, z), Owed(z, w)
  PROVE  Owed(y, w)
<1>1. \A l \in List : ToCome(y, l) => ToCome(z, l)
  BY DEF Owed, ToCome
<1> QED BY <1>1 DEF Owed

\* Only list l changes, and it is served as it must be.
LEMMA OwedByOne ==
  ASSUME NEW y, NEW z, z.guest = y.guest, NEW l \in List,
         \A n \in 1..Len(y.pend) : n \in 1..Len(z.pend) /\ z.pend[n] = y.pend[n],
         \A m \in List : m # l => z.dls[m] = y.dls[m],
         \A m \in List : m # l => (Holds(y.queue, m) => Holds(z.queue, m)),
         BusyAt(y, l) => BusyAt(z, l), ToCome(y, l) /\ Seen(y, l) => Seen(z, l)
  PROVE  Owed(y, z)
<1>1. ASSUME NEW m \in List, m # l PROVE (BusyAt(y, m) => BusyAt(z, m)) /\ (Seen(y, m) => Seen(z, m))
  <2>1. z.dls[m] = y.dls[m] /\ (Holds(y.queue, m) => Holds(z.queue, m))
    BY <1>1
  <2>2. ToCome(y, m) => ToCome(z, m)
    BY DEF ToCome
  <2> QED BY <2>1, <2>2 DEF BusyAt, Seen, LeftBy
<1> QED BY <1>1 DEF Owed

Started(y, l) == [y EXCEPT !.cur = l, !.dls[l].started = TRUE, !.dls[l].state = "RUNNING"]

\* The first list has run: it stays the first, or it is done and the rest is queued.
Left(y, v) ==
  /\ QueuesOK(v) /\ Same(y, v) /\ v.queue = Tail(y.queue)
  /\ \A n \in 1..Len(v.queue) : v.dls[v.queue[n]].state = "QUEUED"
FirstRan(y, l, run) ==
  IF run.gpu = "DONE" THEN Left(y, LeaveQueue(run.x, l))
  ELSE Same(y, run.x) /\ ListsOK(run.x)

LEMMA FirstRuns ==
  ASSUME Orderly, NEW y, QueuesOK(y), y.queue # <<>>, NEW l, l = Head(y.queue),
         y.dls[l].state # "PAUSED"
  PROVE  FirstRan(y, l, RunLoop(Started(y, l), l))
<1> DEFINE z == Started(y, l)
           run == RunLoop(z, l)
           d == [y.dls[l] EXCEPT !.started = TRUE, !.state = "RUNNING"]
<1> SUFFICES FirstRan(y, l, run)
  OBVIOUS
<1>1. /\ y \in Engine /\ y.queue \in Seq(List) /\ y.pend \in Seq(PendingCallback)
      /\ y.dls \in [List -> DisplayList] /\ y.intrEvents \in Nat /\ Len(y.pend) \in Nat
  BY DEF QueuesOK, Typed, Engine
<1>n. Len(y.pend) \in Nat /\ y.intrEvents \in Nat
  BY <1>1
<1>2. l \in List /\ Holds(y.queue, l)
  <2>1. 1 \in 1..Len(y.queue) /\ y.queue[1] = l /\ l \in List
    BY <1>1
  <2> QED BY <2>1 DEF Holds
<1>3. ListTyped(y.dls[l]) /\ y.dls[l] \in DisplayList
  BY <1>1, <1>2 DEF QueuesOK, Typed
<1>4. d \in DisplayList
  <2>1. [y.dls[l] EXCEPT !.started = TRUE] \in DisplayList /\ "RUNNING" \in DlState
    BY <1>3, ListFields DEF DlState
  <2>2. d = [[y.dls[l] EXCEPT !.started = TRUE] EXCEPT !.state = "RUNNING"]
    OBVIOUS
  <2> HIDE DEF d
  <2> QED BY <2>1, <2>2, ListFields
<1>5. /\ d.started /\ d.state = "RUNNING" /\ d.pos = y.dls[l].pos /\ d.stall = y.dls[l].stall
      /\ d.prog = y.dls[l].prog /\ d.signal = y.dls[l].signal /\ d.busy = y.dls[l].busy
      /\ d.pendingInterrupt = y.dls[l].pendingInterrupt
  BY <1>3 DEF DisplayList
<1>6. z = [Changed(y, l, d) EXCEPT !.cur = l]
  BY <1>1, <1>2, ZenonT(40) DEF Started, Changed, Engine
<1> HIDE DEF d
<1>7. ListTyped(d)
  BY <1>3, <1>4, <1>5 DEF ListTyped, InBounds, SyncSeen
<1>8. \A n \in 1..Len(y.pend) : y.pend[n].list # l
  BY <1>2 DEF QueuesOK, PendOK, CallbackOK
<1>9. Unnoticed(y, l, d) /\ \A e : Head(y.queue) = l /\ e.state \in Live => InPlace(y, l, e)
  BY <1>8 DEF Unnoticed, InPlace
<1>10. QueuesOK(Changed(y, l, d))
  BY <1>2, <1>5, <1>7, <1>9, OneListChanges DEF Live
<1> HIDE DEF z
<1>11. /\ z \in Engine /\ z.dls = Changed(y, l, d).dls /\ z.queue = y.queue /\ z.pend = y.pend
       /\ z.wait = y.wait /\ z.draw = y.draw /\ z.drawEvent = y.drawEvent /\ z.cur = l
       /\ z.i = y.i /\ z.guest = y.guest /\ z.intrEvents = y.intrEvents
  <2> DEFINE w == Changed(y, l, d)
  <2>1. /\ w \in Engine /\ w.queue = y.queue /\ w.pend = y.pend
        /\ w.wait = y.wait /\ w.draw = y.draw /\ w.drawEvent = y.drawEvent
        /\ w.i = y.i /\ w.guest = y.guest /\ w.intrEvents = y.intrEvents
    <3>1. w \in Engine
      BY <1>1, <1>2, <1>4, ChangedFields
    <3> QED BY <1>1, <3>1 DEF Changed, Engine
  <2> HIDE DEF w
  <2>2. z = [w EXCEPT !.cur = l]
    BY <1>6 DEF w
  <2>3. z.dls = w.dls
    BY <2>1, <2>2 DEF Engine
  <2> QED BY <1>2, <2>1, <2>2, <2>3 DEF Engine, w
<1>12. QueuesOK(z)
  <2> DEFINE w == Changed(y, l, d)
  <2>1. /\ w.queue = y.queue /\ w.pend = y.pend
        /\ w.wait = y.wait /\ w.draw = y.draw /\ w.drawEvent = y.drawEvent
    BY <1>1 DEF Changed, Engine
  <2>2. QueuesOK(w) /\ z.dls = w.dls
    BY <1>10, <1>11
  <2> HIDE DEF w
  <2> QED BY <1>11, <2>1, <2>2, QueuesKept
<1>13. z.dls[l] = d
  BY <1>1, <1>2, <1>4, <1>11, ChangedFields
<1>20. \A m \in List : m # l => z.dls[m] = y.dls[m]
  BY <1>1, <1>2, <1>4, <1>11, ChangedFields
<1>14. Ran(z, l, run)
  BY <1>2, <1>5, <1>12, <1>13, RunsList DEF QueuesOK
<1> HIDE DEF run
<1>15. \A n \in 1..Len(z.pend) : z.pend[n].list # l
  BY <1>8, <1>11
<1>16. Len(z.pend) \in Nat /\ z.intrEvents \in Nat /\ z.pend \in Seq(PendingCallback)
  BY <1>1, <1>11
<1>17. CASE run.gpu \in {"RUNNING", "STALL"}
  <2>1. PICK e \in DisplayList : Plain(z, l, e) /\ run.x = Changed(z, l, e)
    BY <1>14, <1>17 DEF Ran
  <2> DEFINE v == Changed(z, l, e)
  <2>2. Unnoticed(z, l, e) /\ InPlace(z, l, e)
    BY <1>11, <1>15, <2>1 DEF Plain, Unnoticed, InPlace, Live
  <2>3. QueuesOK(v)
    BY <1>2, <1>12, <2>1, <2>2, OneListChanges DEF Plain
  <2>4. /\ v.queue = z.queue /\ v.pend = z.pend /\ v.cur = z.cur /\ v.i = z.i /\ v.guest = z.guest
        /\ v.intrEvents = z.intrEvents
    BY <1>11 DEF Changed, Engine
  <2>5. v.dls[l] = e
    BY <1>2, <1>11, ChangedFields
  <2>10. \A m \in List : m # l => v.dls[m] = z.dls[m]
    BY <1>2, <1>11, ChangedFields
  <2> HIDE DEF v
  <2>9. Owed(y, v)
    <3>1. \A m \in List : m # l => v.dls[m] = y.dls[m]
      BY <1>20, <2>10
    <3>2. Holds(v.queue, l)
      BY <1>2, <1>11, <2>4
    <3>3. v.queue = y.queue /\ v.pend = y.pend /\ v.guest = y.guest
      BY <1>11, <2>4
    <3> QED BY <1>2, <3>1, <3>2, <3>3, OwedByOne DEF BusyAt, Seen
  <2>6. Same(y, v) /\ CurOK(v)
    BY <1>1, <1>11, <2>4, <2>9 DEF Same, Counted, CurOK
  <2>7. DrawOK(v)
    BY <1>2, <1>11, <2>1, <2>4, <2>5 DEF DrawOK, Plain, Holds
  <2>8. run.x = v /\ run.gpu # "DONE"
    BY <1>17, <2>1 DEF v
  <2> QED BY <2>3, <2>6, <2>7, <2>8 DEF ListsOK, FirstRan
<1>18. CASE run.gpu = "INTERRUPT"
  <2>1. PICK e \in DisplayList, c \in PendingCallback :
          Calling(z, l, e, c, "INTERRUPT") /\ run.x = Noted(z, l, e, c)
    BY <1>14, <1>18 DEF Ran
  <2> DEFINE v == Noted(z, l, e, c)
  <2>2. InPlace(z, l, e) /\ Holds(z.queue, l) /\ ListTyped(e) /\ e.started /\ e.pendingInterrupt
        /\ e.busy = z.dls[l].busy /\ c.list = l
        /\ (c.cmd = "SIGNAL" => e.pos = c.pc) /\ e.state = "PAUSED"
        /\ (c.cmd = "FINISH" => e.signal = "PAUSE")
    BY <1>2, <1>11, <2>1 DEF Calling, InPlace, Live
  <2>3. QueuesOK(v)
    BY <1>2, <1>12, <1>15, <2>2, OneListNotes
  <2>4. /\ v.queue = z.queue /\ v.cur = z.cur /\ v.i = z.i /\ v.guest = z.guest
        /\ v.intrEvents = z.intrEvents + 1 /\ v.pend = Append(z.pend, c)
        /\ v.dls = Changed(z, l, e).dls
    BY <1>11 DEF Noted, Changed, Engine
  <2>5. v.dls[l] = e
    BY <1>2, <1>11, <2>4, ChangedFields
  <2>6. Len(v.pend) = Len(z.pend) + 1
    BY <1>16, <2>4
  <2> HIDE DEF v
  <2>11. Owed(y, v)
    <3>1. \A m \in List : m # l => v.dls[m] = y.dls[m]
      <4>1. \A m \in List : m # l => Changed(z, l, e).dls[m] = z.dls[m]
        BY <1>2, <1>11, ChangedFields
      <4> QED BY <1>20, <2>4, <4>1
    <3>2. Holds(v.queue, l)
      BY <1>2, <1>11, <2>4
    <3>3. v.queue = y.queue /\ v.guest = y.guest
      BY <1>11, <2>4
    <3>4. \A n \in 1..Len(y.pend) : n \in 1..Len(v.pend) /\ v.pend[n] = y.pend[n]
      <4>1. z.pend = y.pend /\ z.pend \in Seq(PendingCallback)
        BY <1>11, <1>16
      <4> QED BY <2>4, <4>1
    <3> QED BY <1>2, <3>1, <3>2, <3>3, <3>4, OwedByOne DEF BusyAt, Seen
  <2>7. Same(y, v)
    <3>1. /\ Len(v.pend) = Len(y.pend) + 1 /\ v.intrEvents = y.intrEvents + 1
          /\ v.i = y.i /\ v.guest = y.guest
      BY <1>11, <2>4, <2>6
    <3> QED BY <1>n, <2>11, <3>1 DEF Same, Counted
  <2>9. CurOK(v)
    BY <1>11, <2>4 DEF CurOK
  <2>8. DrawOK(v)
    BY <1>2, <1>11, <2>2, <2>4, <2>5 DEF DrawOK, Holds
  <2>10. run.x = v /\ run.gpu # "DONE"
    BY <1>18, <2>1 DEF v
  <2> QED BY <2>3, <2>7, <2>8, <2>9, <2>10 DEF ListsOK, FirstRan
<1>19. CASE run.gpu = "DONE"
  <2>1. PICK e \in DisplayList, c \in PendingCallback :
          Calling(z, l, e, c, "DONE") /\ run.x = Noted(z, l, e, c)
    BY <1>14, <1>19 DEF Ran
  <2>2. ListTyped(e) /\ e.started /\ e.pendingInterrupt
        /\ e.busy = z.dls[l].busy /\ c.list = l /\ c.cmd = "FINISH" /\ e.signal # "PAUSE"
    BY <2>1 DEF Calling
  <2> DEFINE w == LeaveQueue(z, l)
             u == Noted(z, l, e, c)
             v == Noted(w, l, e, c)
  <2>3. /\ QueuesOK(w) /\ ~Holds(w.queue, l) /\ w = [z EXCEPT !.queue = w.queue]
        /\ w.queue = Tail(z.queue) /\ \A m : Holds(w.queue, m) <=> Holds(z.queue, m) /\ m # l
        /\ \A n \in 1..Len(w.queue) : z.dls[w.queue[n]].state = "QUEUED"
    <3>1. z.queue # <<>> /\ Head(z.queue) = l /\ l \in List /\ QueuesOK(z)
      BY <1>2, <1>11, <1>12
    <3>2. /\ QueuesOK(w) /\ ~Holds(w.queue, l) /\ w = [z EXCEPT !.queue = w.queue]
          /\ \A m : Holds(w.queue, m) <=> Holds(z.queue, m) /\ m # l
          /\ z.queue # <<>> /\ Head(z.queue) = l =>
               /\ w.queue = Tail(z.queue)
               /\ \A n \in 1..Len(w.queue) : z.dls[w.queue[n]].state = "QUEUED"
      BY <1>15, <3>1, ListLeaves
    <3> QED BY <3>1, <3>2
  <2>4. LeaveQueue(u, l) = v
    BY <1>11 DEF LeaveQueue, Noted, Engine
  <2>5. /\ u.i = z.i /\ u.guest = z.guest /\ u.pend = Append(z.pend, c)
        /\ u.intrEvents = z.intrEvents + 1
    BY <1>11 DEF Noted, Engine
  <2> HIDE DEF w
  <2>6. w \in Engine /\ w.dls = z.dls /\ w.pend = z.pend /\ w.i = z.i /\ w.guest = z.guest
        /\ w.intrEvents = z.intrEvents
    BY <1>11, <2>3 DEF Engine, QueuesOK, Typed
  <2>7. InPlace(w, l, e)
    BY <2>3 DEF InPlace
  <2>8. QueuesOK(v)
    BY <1>2, <1>15, <2>2, <2>3, <2>6, <2>7, OneListNotes
  <2>9. /\ v.queue = w.queue /\ v.i = z.i /\ v.guest = z.guest
        /\ v.intrEvents = z.intrEvents + 1 /\ v.pend = Append(z.pend, c)
        /\ v.dls = Changed(w, l, e).dls
    BY <2>6 DEF Noted, Changed, Engine
  <2>10. \A m \in List : m # l => v.dls[m] = z.dls[m]
    BY <1>2, <2>6, <2>9, ChangedFields
  <2>11. Len(Append(z.pend, c)) = Len(z.pend) + 1
    BY <1>16
  <2> HIDE DEF v, u
  <2>16. Owed(y, v)
    <3>1. \A m \in List : m # l => v.dls[m] = y.dls[m]
      BY <1>20, <2>10
    <3>2. \A m \in List : m # l => (Holds(y.queue, m) => Holds(v.queue, m))
      BY <1>11, <2>3, <2>9
    <3>3. v.guest = y.guest
      BY <1>11, <2>9
    <3>4. \A n \in 1..Len(y.pend) : n \in 1..Len(v.pend) /\ v.pend[n] = y.pend[n]
      <4>1. z.pend = y.pend /\ z.pend \in Seq(PendingCallback)
        BY <1>11, <1>16
      <4> QED BY <2>9, <4>1
    <3>5. ToCome(v, l)
      <4>1. Len(v.pend) \in 1..Len(v.pend) /\ v.pend[Len(v.pend)] = c
        BY <1>16, <2>9
      <4> QED BY <2>2, <4>1 DEF ToCome
    <3>6. ~ToCome(y, l)
      BY <1>8 DEF ToCome
    <3> QED BY <1>2, <3>1, <3>2, <3>3, <3>4, <3>5, <3>6, OwedByOne DEF BusyAt
  <2>12. Same(y, v)
    <3>1. /\ Len(v.pend) = Len(y.pend) + 1 /\ v.intrEvents = y.intrEvents + 1
          /\ v.i = y.i /\ v.guest = y.guest
      BY <1>11, <2>9, <2>11
    <3> QED BY <1>n, <2>16, <3>1 DEF Same, Counted
  <2>13. \A n \in 1..Len(v.queue) : v.dls[v.queue[n]].state = "QUEUED"
    <3>1. w.queue \in Seq(List)
      BY <2>6 DEF Engine
    <3>2. \A n \in 1..Len(w.queue) : w.queue[n] \in List /\ w.queue[n] # l
      BY <2>3, <3>1 DEF Holds
    <3> QED BY <2>3, <2>9, <2>10, <3>2
  <2>14. v.queue = Tail(y.queue)
    BY <1>11, <2>3, <2>9
  <2>15. LeaveQueue(run.x, l) = v
    BY <2>1, <2>4 DEF u
  <2> QED BY <1>19, <2>8, <2>12, <2>13, <2>14, <2>15 DEF FirstRan, Left
<1> QED BY <1>14, <1>17, <1>18, <1>19 DEF Ran

-----------------------------------------------------------------------------
(* ProcessDLQueue(). *)

QueueRound(r) ==
  LET l == Head(r.x.queue)
      run == RunLoop(Started(r.x, l), l)
  IN  IF r.stop THEN r
      ELSE IF r.x.queue = <<>> THEN [r EXCEPT !.x = DrawingDone(@, r.ran), !.stop = TRUE]
      ELSE IF r.x.dls[l].state = "PAUSED" THEN [r EXCEPT !.stop = TRUE]
      ELSE IF r.x.dls[l].state = "NONE"
      THEN [r EXCEPT !.x = LeaveQueue(@, l), !.stop = TRUE]
      ELSE IF run.gpu # "DONE" THEN [x |-> run.x, ran |-> TRUE, stop |-> TRUE]
      ELSE [x |-> LeaveQueue(run.x, l), ran |-> TRUE, stop |-> FALSE]

\* after is the sequence of the states of the loop that ProcessDLQueue() runs.
QueueLoopIs(y, after) ==
  LET N == Len(y.queue) + 1
  IN  /\ after[0] = [x |-> y, ran |-> FALSE, stop |-> FALSE]
      /\ \A n \in 1..N : after[n] = QueueRound(after[n - 1])
      /\ ProcessDLQueue(y) = after[N].x

LEMMA QueueLoopExists ==
  ASSUME NEW y, Len(y.queue) \in Nat
  PROVE  \E after : QueueLoopIs(y, after)
<1> DEFINE N == Len(y.queue) + 1
           First == [x |-> y, ran |-> FALSE, stop |-> FALSE]
           IsLoop(f, m) ==
             f = [n \in 0..m |-> IF n = 0 THEN First ELSE QueueRound(f[n - 1])]
           after == CHOOSE f : IsLoop(f, N)
<1>1. ProcessDLQueue(y) = after[N].x
  BY DEF ProcessDLQueue, QueueRound, Started
<1>2. after[0] = First /\ \A n \in 1..N : after[n] = QueueRound(after[n - 1])
  <2> HIDE DEF First
  <2>a. N \in Nat
    OBVIOUS
  <2> HIDE DEF N
  <2>1. IsLoop(after, N)
    <3> DEFINE G == {m \in 0..N : \E f : IsLoop(f, m)}
    <3>2. 0 \in G
      <4>1. IsLoop([n \in 0..0 |-> First], 0)
        OBVIOUS
      <4> HIDE DEF IsLoop
      <4> QED BY <2>a, <4>1
    <3>3. ASSUME NEW m \in 1..N, m - 1 \in G PROVE m \in G
      <4>1. PICK f : IsLoop(f, m - 1)
        BY <3>3
      <4> DEFINE g == [n \in 0..m |-> IF n < m THEN f[n] ELSE QueueRound(f[m - 1])]
      <4>2. ASSUME NEW n \in 0..m
            PROVE  g[n] = IF n = 0 THEN First ELSE QueueRound(g[n - 1])
        <5>1. CASE n = 0
          BY <4>1, <5>1
        <5>2. CASE n # 0 /\ n < m
          BY <4>1, <5>2
        <5>3. CASE n = m
          BY <5>3
        <5> QED BY <5>1, <5>2, <5>3
      <4>3. IsLoop(g, m)
        BY <4>2
      <4> HIDE DEF IsLoop, g
      <4> QED BY <4>3
    <3> HIDE DEF G
    <3>4. \A m \in 1..N : m - 1 \in G => m \in G
      BY <3>3
    <3>5. \A m \in 0..N : m \in G
      BY <2>a, <3>2, <3>4, SetInduction
    <3>6. N \in G
      BY <2>a, <3>5
    <3> QED BY <3>6 DEF G
  <2> HIDE DEF after
  <2> QED BY <2>a, <2>1
<1> HIDE DEF after
<1> QED BY <1>1, <1>2 DEF QueueLoopIs

\* What a record must be for its lists to be run: the first may be about to start.
Runnable(y) ==
  /\ QueuesOK(y) /\ CurOK(y)
  /\ y.queue # <<>> /\ y.dls[Head(y.queue)].state = "PAUSED" => DrawOK(y)

\* After n rounds the lists of y are at r: the loop goes on, or it has stopped.
QueueAt(y, n, r) ==
  /\ r = [x |-> r.x, ran |-> r.ran, stop |-> r.stop] /\ r.ran \in BOOLEAN
  /\ Same(y, r.x)
  /\ \/ /\ r.stop = TRUE /\ ListsOK(r.x)
     \/ /\ r.stop = FALSE /\ QueuesOK(r.x) /\ Len(r.x.queue) = Len(y.queue) - n
        /\ IF n = 0 THEN r.x = y
           ELSE \A m \in 1..Len(r.x.queue) : r.x.dls[r.x.queue[m]].state = "QUEUED"

LEMMA DrawingEnds ==
  ASSUME NEW y, QueuesOK(y), y.queue = <<>>, NEW ran \in BOOLEAN
  PROVE  ListsOK(DrawingDone(y, ran)) /\ Same(y, DrawingDone(y, ran))
<1> DEFINE z == DrawingDone(y, ran)
           when == IF ran THEN "future" ELSE "past"
<1>1. y \in Engine /\ y.intrEvents \in Nat /\ Len(y.pend) \in Nat
  BY DEF QueuesOK, Typed, Engine
<1>2. z = [y EXCEPT !.cur = NoList, !.draw = when, !.drawEvent = TRUE]
  BY DEF DrawingDone
<1>3. when \in {"past", "future"}
  OBVIOUS
<1> HIDE DEF z, when
<1>4. /\ z \in Engine /\ z.dls = y.dls /\ z.queue = y.queue /\ z.pend = y.pend /\ z.wait = y.wait
      /\ z.draw = when /\ z.drawEvent = TRUE /\ z.cur = NoList
      /\ z.i = y.i /\ z.guest = y.guest /\ z.intrEvents = y.intrEvents
  BY <1>1, <1>2, <1>3 DEF Engine
<1>5. Typed(z) /\ QueueOK(z) /\ PendOK(z)
  BY <1>4 DEF QueuesOK, Typed, QueueOK, PendOK, CallbackOK
<1>6. WaitOK(z) /\ CurOK(z) /\ DrawOK(z)
  BY <1>3, <1>4 DEF QueuesOK, WaitOK, CurOK, DrawOK
<1>7. Same(y, z)
  BY <1>1, <1>4, OwedKept DEF Same, Counted
<1> QED BY <1>5, <1>6, <1>7 DEF ListsOK, QueuesOK, z

LEMMA CountedTwice ==
  ASSUME NEW y, QueuesOK(y), NEW z, QueuesOK(z), NEW w, QueuesOK(w),
         Counted(y, z), Counted(z, w)
  PROVE  Counted(y, w)
<1>1. /\ Len(y.pend) \in Nat /\ y.intrEvents \in Nat
      /\ Len(z.pend) \in Nat /\ z.intrEvents \in Nat
      /\ Len(w.pend) \in Nat /\ w.intrEvents \in Nat
  BY DEF QueuesOK, Typed, Engine
<1>2. /\ Len(z.pend) + y.intrEvents = Len(y.pend) + z.intrEvents
      /\ Len(w.pend) + z.intrEvents = Len(z.pend) + w.intrEvents
      /\ z.i = y.i /\ z.guest = y.guest /\ w.i = z.i /\ w.guest = z.guest
  BY DEF Counted
<1> DEFINE a == Len(y.pend)
           b == Len(z.pend)
           c == Len(w.pend)
           d == y.intrEvents
           e == z.intrEvents
           f == w.intrEvents
<1>3. c + d = a + f
  <2>1. /\ a \in Nat /\ b \in Nat /\ c \in Nat /\ d \in Nat /\ e \in Nat /\ f \in Nat
        /\ b + d = a + e /\ c + e = b + f
    BY <1>1, <1>2
  <2> HIDE DEF a, b, c, d, e, f
  <2> QED BY <2>1
<1> QED BY <1>2, <1>3 DEF Counted

LEMMA SameTwice ==
  ASSUME NEW y, QueuesOK(y), NEW z, QueuesOK(z), NEW w, QueuesOK(w), Same(y, z), Same(z, w)
  PROVE  Same(y, w)
BY CountedTwice, OwedTwice DEF Same

LEMMA QueueRoundKeeps ==
  ASSUME Orderly, NEW y, Runnable(y), NEW n \in 0..Len(y.queue), NEW r, QueueAt(y, n, r)
  PROVE  QueueAt(y, n + 1, QueueRound(r))
<1> DEFINE z == r.x
           l == Head(z.queue)
           run == RunLoop(Started(z, l), l)
           q == QueueRound(r)
<1>y. QueuesOK(y)
  BY DEF Runnable
<1>1. /\ r = [x |-> z, ran |-> r.ran, stop |-> r.stop] /\ r.ran \in BOOLEAN
      /\ Same(y, z)
  BY DEF QueueAt
<1>2. CASE r.stop
  <2>1. q = r
    BY <1>2 DEF QueueRound
  <2>2. r.stop = TRUE /\ ListsOK(r.x)
    BY <1>2 DEF QueueAt
  <2> HIDE DEF q
  <2> QED BY <1>1, <2>1, <2>2 DEF QueueAt, q
<1>3. CASE ~r.stop
  <2>1. /\ r.stop = FALSE /\ QueuesOK(z) /\ Len(z.queue) = Len(y.queue) - n
        /\ n = 0 => z = y
        /\ n # 0 => \A m \in 1..Len(z.queue) : z.dls[z.queue[m]].state = "QUEUED"
    BY <1>3 DEF QueueAt
  <2>2. z \in Engine /\ z.queue \in Seq(List)
    BY <2>1 DEF QueuesOK, Typed, Engine
  <2>3. CASE z.queue = <<>>
    <3>1. q = [x |-> DrawingDone(z, r.ran), ran |-> r.ran, stop |-> TRUE]
      <4>1. q = [r EXCEPT !.x = DrawingDone(@, r.ran), !.stop = TRUE]
        BY <1>3, <2>3 DEF QueueRound
      <4> QED BY <1>1, <4>1
    <3>2. ListsOK(DrawingDone(z, r.ran)) /\ Same(z, DrawingDone(z, r.ran))
      BY <1>1, <2>1, <2>3, DrawingEnds
    <3> HIDE DEF q
    <3>3. /\ q.x = DrawingDone(z, r.ran) /\ q.ran = r.ran /\ q.stop = TRUE
          /\ q = [x |-> q.x, ran |-> q.ran, stop |-> q.stop]
      BY <3>1
    <3>4. Same(y, q.x)
      BY <1>1, <1>y, <2>1, <3>2, <3>3, SameTwice DEF ListsOK
    <3>5. QueueAt(y, n + 1, q)
      BY <1>1, <3>2, <3>3, <3>4 DEF QueueAt
    <3> QED BY <3>5 DEF q
  <2>4. CASE z.queue # <<>>
    <3>1. 1 \in 1..Len(z.queue) /\ l = z.queue[1] /\ l \in List
      BY <2>2, <2>4
    <3>2. z.dls[l].state \in Live
      BY <2>1, <3>1 DEF QueuesOK, QueueOK, Live
    <3>3. CASE z.dls[l].state = "PAUSED"
      <4>1. z = y
        BY <2>1, <3>1, <3>3
      <4>2. ListsOK(z)
        BY <2>1, <2>4, <3>3, <4>1 DEF Runnable, ListsOK
      <4>3. q = [x |-> z, ran |-> r.ran, stop |-> TRUE]
        <5>1. q = [r EXCEPT !.stop = TRUE]
          BY <1>3, <2>4, <3>3 DEF QueueRound
        <5> QED BY <1>1, <5>1
      <4> HIDE DEF q
      <4>4. /\ q.x = z /\ q.ran = r.ran /\ q.stop = TRUE
            /\ q = [x |-> q.x, ran |-> q.ran, stop |-> q.stop]
        BY <4>3
      <4>5. QueueAt(y, n + 1, q)
        BY <1>1, <4>2, <4>4 DEF QueueAt
      <4> QED BY <4>5 DEF q
    <3>4. CASE z.dls[l].state # "PAUSED"
      <4>1. FirstRan(z, l, run)
        BY <2>1, <2>4, <3>4, FirstRuns
      <4>2. q = IF run.gpu # "DONE" THEN [x |-> run.x, ran |-> TRUE, stop |-> TRUE]
                ELSE [x |-> LeaveQueue(run.x, l), ran |-> TRUE, stop |-> FALSE]
        BY <1>3, <2>4, <3>2, <3>4 DEF QueueRound, Live
      <4> HIDE DEF q, run
      <4>3. CASE run.gpu # "DONE"
        <5>1. /\ q.x = run.x /\ q.ran = TRUE /\ q.stop = TRUE
              /\ q = [x |-> q.x, ran |-> q.ran, stop |-> q.stop]
          BY <4>2, <4>3
        <5>2. Same(z, run.x) /\ ListsOK(run.x)
          BY <4>1, <4>3 DEF FirstRan
        <5>3. Same(y, q.x)
          BY <1>1, <1>y, <2>1, <5>1, <5>2, SameTwice DEF ListsOK
        <5>4. QueueAt(y, n + 1, q)
          BY <5>1, <5>2, <5>3 DEF QueueAt
        <5> QED BY <5>4 DEF q
      <4>4. CASE run.gpu = "DONE"
        <5> DEFINE v == LeaveQueue(run.x, l)
        <5>1. /\ q.x = v /\ q.ran = TRUE /\ q.stop = FALSE
              /\ q = [x |-> q.x, ran |-> q.ran, stop |-> q.stop]
          BY <4>2, <4>4
        <5>2. Left(z, v)
          BY <4>1, <4>4 DEF FirstRan
        <5> HIDE DEF v
        <5>3. Same(y, v)
          BY <1>1, <1>y, <2>1, <5>2, SameTwice DEF Left
        <5>4. Len(v.queue) = Len(y.queue) - (n + 1)
          <6>1. v.queue = Tail(z.queue)
            BY <5>2 DEF Left
          <6>2. Len(Tail(z.queue)) = Len(z.queue) - 1
            BY <2>2, <2>4
          <6>3. Len(y.queue) \in Nat /\ n \in Nat
            BY <1>y DEF QueuesOK, Typed, Engine
          <6> QED BY <2>1, <6>1, <6>2, <6>3
        <5>5. n + 1 # 0
          OBVIOUS
        <5>6. QueueAt(y, n + 1, q)
          BY <5>1, <5>2, <5>3, <5>4, <5>5 DEF QueueAt, Left
        <5> QED BY <5>6 DEF q
      <4> QED BY <4>3, <4>4
    <3> QED BY <3>3, <3>4
  <2> QED BY <2>3, <2>4
<1> QED BY <1>2, <1>3

\* ProcessDLQueue() leaves the lists in order.
LEMMA QueueProcessed ==
  ASSUME Orderly, NEW y, Runnable(y)
  PROVE  ListsOK(ProcessDLQueue(y)) /\ Same(y, ProcessDLQueue(y))
<1>1. y.queue \in Seq(List) /\ Len(y.queue) \in Nat
  BY DEF Runnable, QueuesOK, Typed, Engine
<1>2. PICK after : QueueLoopIs(y, after)
  BY <1>1, QueueLoopExists
<1> DEFINE N == Len(y.queue) + 1
<1>3. /\ after[0] = [x |-> y, ran |-> FALSE, stop |-> FALSE]
      /\ \A n \in 1..N : after[n] = QueueRound(after[n - 1])
      /\ ProcessDLQueue(y) = after[N].x
  BY <1>2 DEF QueueLoopIs
<1> DEFINE G == {n \in 0..N : QueueAt(y, n, after[n])}
<1>4. 0 \in G
  <2> DEFINE r == [x |-> y, ran |-> FALSE, stop |-> FALSE]
  <2>1. /\ r = [x |-> r.x, ran |-> r.ran, stop |-> r.stop] /\ r.ran = FALSE
        /\ r.stop = FALSE /\ r.x = y
    OBVIOUS
  <2> HIDE DEF r
  <2>2. Same(y, r.x)
    BY <2>1, OwedKept DEF Same, Counted
  <2>3. QueueAt(y, 0, r)
    <3>1. Len(r.x.queue) = Len(y.queue) - 0
      BY <1>1, <2>1
    <3>2. QueuesOK(r.x)
      BY <2>1 DEF Runnable
    <3>3. r.ran \in BOOLEAN
      BY <2>1
    <3> QED BY <2>1, <2>2, <3>1, <3>2, <3>3 DEF QueueAt
  <2> QED BY <1>1, <1>3, <2>3 DEF r
<1>5. ASSUME NEW n \in 1..N, n - 1 \in G PROVE n \in G
  <2>1. n - 1 \in 0..Len(y.queue) /\ n \in 0..N /\ (n - 1) + 1 = n
    BY <1>1
  <2>2. QueueAt(y, n - 1, after[n - 1]) /\ after[n] = QueueRound(after[n - 1])
    BY <1>3, <1>5
  <2>3. QueueAt(y, (n - 1) + 1, after[n])
    BY <2>1, <2>2, QueueRoundKeeps
  <2> QED BY <2>1, <2>3
<1>6. N \in Nat
  BY <1>1
<1>7. QueueAt(y, N, after[N])
  <2> HIDE DEF G, N
  <2>1. \A n \in 1..N : n - 1 \in G => n \in G
    BY <1>5
  <2>2. \A n \in 0..N : n \in G
    BY <1>4, <1>6, <2>1, SetInduction
  <2>3. N \in G
    BY <1>6, <2>2
  <2> QED BY <2>3 DEF G
<1>8. CASE after[N].stop = TRUE
  BY <1>3, <1>7, <1>8 DEF QueueAt
<1>9. CASE after[N].stop # TRUE
  <2>1. Len(after[N].x.queue) = Len(y.queue) - N /\ QueuesOK(after[N].x)
    BY <1>7, <1>9 DEF QueueAt
  <2>2. Len(after[N].x.queue) \in Nat
    BY <2>1 DEF QueuesOK, Typed, Engine
  <2> QED BY <1>1, <2>1, <2>2
<1> QED BY <1>8, <1>9

-----------------------------------------------------------------------------
(* The end of an interrupt. *)

\* The lists stay in order, but a callback is gone; all that are busy are still served.
Less(y, z) ==
  /\ z.i = y.i /\ z.guest = y.guest
  /\ Len(z.pend) + y.intrEvents + 1 = Len(y.pend) + z.intrEvents
OneLess(y, z) == Less(y, z) /\ \A l \in List : BusyAt(y, l) => BusyAt(z, l)

\* The first callback is taken.
LEMMA CallbackTaken ==
  ASSUME NEW y, ListsOK(y), y.pend # <<>>
  PROVE  LET z == [y EXCEPT !.pend = Tail(@)]
         IN  /\ ListsOK(z) /\ Less(y, z) /\ z.dls = y.dls /\ z.queue = y.queue
             /\ Head(y.pend).list \in List
             /\ \A n \in 1..Len(z.pend) : z.pend[n].list # Head(y.pend).list
             /\ \A m \in List : m # Head(y.pend).list => (BusyAt(y, m) => BusyAt(z, m))
<1> DEFINE z == [y EXCEPT !.pend = Tail(@)]
           l == Head(y.pend).list
<1>1. y \in Engine /\ y.pend \in Seq(PendingCallback) /\ y.intrEvents \in Nat
  BY DEF ListsOK, QueuesOK, Typed, Engine
<1>2. /\ Tail(y.pend) \in Seq(PendingCallback) /\ Len(Tail(y.pend)) = Len(y.pend) - 1
      /\ Len(y.pend) \in Nat /\ 1 \in 1..Len(y.pend) /\ Head(y.pend) = y.pend[1]
      /\ Head(y.pend) \in PendingCallback
      /\ \A n \in 1..Len(Tail(y.pend)) : n + 1 \in 1..Len(y.pend) /\ n + 1 # 1
                                         /\ Tail(y.pend)[n] = y.pend[n + 1]
  BY <1>1
<1>3. /\ z \in Engine /\ z.pend = Tail(y.pend) /\ z.dls = y.dls /\ z.queue = y.queue
      /\ z.wait = y.wait /\ z.draw = y.draw /\ z.drawEvent = y.drawEvent /\ z.cur = y.cur
      /\ z.i = y.i /\ z.guest = y.guest /\ z.intrEvents = y.intrEvents
  BY <1>1, <1>2 DEF Engine
<1> HIDE DEF z
<1>4. Typed(z) /\ QueueOK(z) /\ WaitOK(z) /\ CurOK(z) /\ DrawOK(z)
  BY <1>3 DEF ListsOK, QueuesOK, Typed, QueueOK, WaitOK, CurOK, DrawOK
<1>5. PendOK(z)
  <2>1. ASSUME NEW n \in 1..Len(z.pend) PROVE CallbackOK(z, z.pend[n])
    <3>1. n + 1 \in 1..Len(y.pend) /\ z.pend[n] = y.pend[n + 1]
      BY <1>2, <1>3
    <3>2. CallbackOK(y, y.pend[n + 1])
      BY <3>1 DEF ListsOK, QueuesOK, PendOK
    <3> QED BY <1>3, <3>1, <3>2 DEF CallbackOK
  <2>2. ASSUME NEW n \in 1..Len(z.pend), NEW m \in 1..Len(z.pend),
               z.pend[n].list = z.pend[m].list
        PROVE  n = m
    <3>1. n + 1 \in 1..Len(y.pend) /\ m + 1 \in 1..Len(y.pend)
          /\ y.pend[n + 1].list = y.pend[m + 1].list
      BY <1>2, <1>3, <2>2
    <3>2. n + 1 = m + 1
      BY <3>1 DEF ListsOK, QueuesOK, PendOK
    <3> QED BY <3>2
  <2> QED BY <2>1, <2>2 DEF PendOK
<1>6. \A n \in 1..Len(z.pend) : z.pend[n].list # l
  BY <1>2, <1>3 DEF ListsOK, QueuesOK, PendOK
<1>7. Less(y, z)
  BY <1>1, <1>2, <1>3 DEF Less
<1>8. l \in List
  BY <1>2 DEF PendingCallback
<1>9. ASSUME NEW m \in List, m # l, BusyAt(y, m) PROVE BusyAt(z, m)
  <2>1. ToCome(y, m) => ToCome(z, m)
    <3>1. SUFFICES ASSUME NEW k \in 1..Len(y.pend), y.pend[k].list = m PROVE ToCome(z, m)
      BY DEF ToCome
    <3>2. k # 1
      BY <1>2, <1>9, <3>1
    <3>3. k - 1 \in 1..Len(Tail(y.pend)) /\ Tail(y.pend)[k - 1] = y.pend[k]
      BY <1>1, <1>2, <3>2
    <3> QED BY <1>3, <3>1, <3>3 DEF ToCome
  <2> QED BY <1>3, <1>9, <2>1 DEF BusyAt, LeftBy
<1> QED BY <1>3, <1>4, <1>5, <1>6, <1>7, <1>8, <1>9 DEF ListsOK, QueuesOK, z

\* List l becomes d, which is as well served.
Quiet(y, l, d) ==
  /\ d.busy => \/ Holds(y.queue, l) \/ ToCome(y, l) \/ LeftBy(y, d)
               \/ y.dls[l].busy /\ ~LeftBy(y, y.dls[l])
  /\ ToCome(y, l) /\ y.dls[l].state \in {"COMPLETED", "NONE"} =>
       Holds(y.queue, l) \/ d.state \in {"COMPLETED", "NONE"}

LEMMA OwedChanged ==
  ASSUME NEW y, y \in Engine, NEW l \in List, NEW d \in DisplayList, Quiet(y, l, d)
  PROVE  Owed(y, Changed(y, l, d))
<1> DEFINE z == Changed(y, l, d)
<1>1. z.dls[l] = d /\ \A m \in List : m # l => z.dls[m] = y.dls[m]
  BY ChangedFields
<1>2. z.queue = y.queue /\ z.pend = y.pend /\ z.guest = y.guest
  BY DEF Changed, Engine
<1> HIDE DEF z
<1>3. ToCome(z, l) <=> ToCome(y, l)
  BY <1>2 DEF ToCome
<1>4. LeftBy(z, d) <=> LeftBy(y, d)
  BY <1>2 DEF LeftBy
<1>5. BusyAt(y, l) => BusyAt(z, l)
  BY <1>1, <1>2, <1>3, <1>4 DEF Quiet, BusyAt
<1>6. ToCome(y, l) /\ Seen(y, l) => Seen(z, l)
  BY <1>1, <1>2 DEF Quiet, Seen
<1>7. Owed(y, z)
  BY <1>1, <1>2, <1>5, <1>6, OwedByOne
<1> QED BY <1>7 DEF z

\* List l changes in place, unnoticed by its callbacks.
LEMMA ListChanges ==
  ASSUME NEW y, ListsOK(y), NEW l \in List, NEW d, ListTyped(d), Unnoticed(y, l, d),
         InPlace(y, l, d), y.dls[l].started => d.started, Quiet(y, l, d),
         y.dls[l].busy => d.busy \/ \A t \in Thread : y.wait[t] # l
  PROVE  LET z == Changed(y, l, d)
         IN  /\ ListsOK(z) /\ Same(y, z) /\ z.dls[l] = d /\ z.queue = y.queue
             /\ z.pend = y.pend /\ z.cur = y.cur /\ z.draw = y.draw
<1> DEFINE z == Changed(y, l, d)
<1>1. QueuesOK(z)
  BY OneListChanges DEF ListsOK
<1>2. y \in Engine /\ d \in DisplayList /\ Len(y.pend) \in Nat /\ y.intrEvents \in Nat
  BY DEF ListsOK, QueuesOK, Typed, Engine, ListTyped
<1>3. /\ z.queue = y.queue /\ z.pend = y.pend /\ z.cur = y.cur /\ z.i = y.i
      /\ z.guest = y.guest /\ z.intrEvents = y.intrEvents /\ z.draw = y.draw
  BY <1>2 DEF Changed, Engine
<1>4. z.dls[l] = d /\ \A m \in List : m # l => z.dls[m] = y.dls[m]
  BY <1>2, ChangedFields
<1>8. Owed(y, z)
  BY <1>2, OwedChanged
<1> HIDE DEF z
<1>5. y.queue \in Seq(List)
  BY <1>2 DEF Engine
<1>6. DrawOK(z)
  <2>1. \A n \in 1..Len(y.queue) : y.queue[n] \in List
    BY <1>5
  <2> QED BY <1>3, <1>4, <2>1 DEF ListsOK, DrawOK
<1>7. CurOK(z) /\ Same(y, z)
  BY <1>2, <1>3, <1>8 DEF ListsOK, CurOK, Same, Counted
<1> QED BY <1>1, <1>3, <1>4, <1>6, <1>7 DEF ListsOK, z

\* The same for the parts of a record that the invariant does not look at.
LEMMA ListsKept ==
  ASSUME NEW y, ListsOK(y), NEW z \in Engine,
         z.dls = y.dls, z.queue = y.queue, z.pend = y.pend, z.wait = y.wait,
         z.draw = y.draw, z.drawEvent = y.drawEvent, z.cur = y.cur, z.guest = y.guest
  PROVE  ListsOK(z)
<1>1. QueuesOK(z)
  BY QueuesKept DEF ListsOK
<1> QED BY <1>1 DEF ListsOK, CurOK, DrawOK

\* Waits for what end.
LEMMA WaitsEnd ==
  ASSUME NEW y, ListsOK(y), NEW what \in List \cup {"draw"}
  PROVE  LET z == GeTriggerWait(y, what)
         IN  /\ ListsOK(z) /\ Same(y, z) /\ z = [y EXCEPT !.wait = z.wait]
             /\ \A t \in Thread : z.wait[t] # what
             /\ z.dls = y.dls /\ z.queue = y.queue /\ z.pend = y.pend /\ z.cur = y.cur
             /\ z.draw = y.draw
<1> DEFINE z == GeTriggerWait(y, what)
           w == [t \in Thread |-> IF y.wait[t] = what THEN "none" ELSE y.wait[t]]
<1>1. /\ y \in Engine /\ y.wait \in [Thread -> {"none", "draw"} \cup List]
      /\ Len(y.pend) \in Nat /\ y.intrEvents \in Nat
  BY DEF ListsOK, QueuesOK, Typed, Engine
<1>2. z = [y EXCEPT !.wait = w]
  BY DEF GeTriggerWait
<1>3. what # "none" /\ "none" \notin List
  BY GeAssumption
<1>4. /\ w \in [Thread -> {"none", "draw"} \cup List]
      /\ \A t \in Thread : w[t] # what /\ (w[t] = y.wait[t] \/ w[t] = "none")
  BY <1>1, <1>3
<1> HIDE DEF w, z
<1>5. /\ z \in Engine /\ z.wait = w /\ z.dls = y.dls /\ z.queue = y.queue /\ z.pend = y.pend
      /\ z.draw = y.draw /\ z.drawEvent = y.drawEvent /\ z.cur = y.cur
      /\ z.i = y.i /\ z.guest = y.guest /\ z.intrEvents = y.intrEvents
  BY <1>1, <1>2, <1>4 DEF Engine
<1>6. Typed(z) /\ QueueOK(z) /\ PendOK(z) /\ CurOK(z) /\ DrawOK(z)
  BY <1>5 DEF ListsOK, QueuesOK, Typed, QueueOK, PendOK, CallbackOK, CurOK, DrawOK
<1>7. WaitOK(z)
  <2>1. \A t \in Thread : w[t] \in List => w[t] = y.wait[t]
    BY <1>3, <1>4
  <2>2. \A t \in Thread : w[t] = "draw" => w[t] = y.wait[t]
    BY <1>4
  <2> QED BY <1>5, <2>1, <2>2 DEF ListsOK, QueuesOK, WaitOK
<1>8. Same(y, z)
  BY <1>1, <1>5, OwedKept DEF Same, Counted
<1> QED BY <1>2, <1>4, <1>5, <1>6, <1>7, <1>8 DEF ListsOK, QueuesOK, z

\* A list that is broken off goes on being queued when its callback is taken.
LEMMA Requeues ==
  ASSUME NEW y, ListsOK(y), NEW l \in List, \A n \in 1..Len(y.pend) : y.pend[n].list # l
  PROVE  LET z == Requeue(y, l)
         IN  ListsOK(z) /\ Same(y, z) /\ z.pend = y.pend /\ (Seen(y, l) => Seen(z, l))
<1> DEFINE z == Requeue(y, l)
           d == [y.dls[l] EXCEPT !.state = "QUEUED"]
<1>1. y \in Engine /\ y.dls[l] \in DisplayList /\ ListTyped(y.dls[l]) /\ Len(y.pend) \in Nat
      /\ y.intrEvents \in Nat
  BY DEF ListsOK, QueuesOK, Typed, Engine
<1>2. CASE z = y
  BY <1>1, <1>2, OwedKept DEF Same, Counted
<1>3. CASE z # y
  <2>1. z = Changed(y, l, d)
    BY <1>1, <1>3 DEF Requeue, Changed, Engine
  <2>2. d \in DisplayList
    <3>1. "QUEUED" \in DlState
      BY DEF DlState
    <3> QED BY <1>1, <3>1, ListFields
  <2>3. /\ d.state = "QUEUED" /\ d.pos = y.dls[l].pos /\ d.stall = y.dls[l].stall
        /\ d.prog = y.dls[l].prog /\ d.signal = y.dls[l].signal /\ d.busy = y.dls[l].busy
        /\ d.started = y.dls[l].started
    BY <1>1 DEF DisplayList
  <2> HIDE DEF d, z
  <2>4. ListTyped(d) /\ Unnoticed(y, l, d) /\ InPlace(y, l, d)
    BY <1>1, <2>2, <2>3 DEF ListTyped, InBounds, SyncSeen, Unnoticed, InPlace, Live
  <2>6. y.dls[l].state \notin {"NONE", "COMPLETED"}
    BY <1>3 DEF Requeue, z
  <2>7. Quiet(y, l, d)
    BY <2>3, <2>6 DEF Quiet, LeftBy
  <2>5. ListsOK(z) /\ Same(y, z) /\ z.pend = y.pend /\ z.queue = y.queue
    BY <2>1, <2>3, <2>4, <2>7, ListChanges
  <2>8. Seen(y, l) => Seen(z, l)
    BY <2>5, <2>6 DEF Seen
  <2> QED BY <2>5, <2>8 DEF z
<1> QED BY <1>2, <1>3

\* A list whose interrupt is over is marked no more; if it is complete, nobody waits for it.
LEMMA InterruptEnds ==
  ASSUME NEW y, ListsOK(y), NEW l \in List, \A n \in 1..Len(y.pend) : y.pend[n].list # l
  PROVE  LET z == InterruptEnd(y, l)
         IN  ListsOK(z) /\ Same(y, z) /\ (Seen(y, l) => BusyAt(z, l))
<1> DEFINE d == [y.dls[l] EXCEPT !.pendingInterrupt = FALSE]
           left == [y EXCEPT !.isbreak = FALSE, !.dls[l].pendingInterrupt = FALSE]
           freed == GeTriggerWait([left EXCEPT !.dls[l].busy = FALSE], l)
           z == InterruptEnd(y, l)
<1>1. y \in Engine /\ y.dls[l] \in DisplayList /\ ListTyped(y.dls[l]) /\ Len(y.pend) \in Nat
      /\ y.intrEvents \in Nat /\ y.queue \in Seq(List)
  BY DEF ListsOK, QueuesOK, Typed, Engine
<1>2. ASSUME NEW w, ListsOK(w), NEW v, v = [w EXCEPT !.isbreak = FALSE]
      PROVE  ListsOK(v) /\ Same(w, v)
  <2>1. w \in Engine /\ Len(w.pend) \in Nat /\ w.intrEvents \in Nat
    BY <1>2 DEF ListsOK, QueuesOK, Typed, Engine
  <2>2. /\ v \in Engine /\ v.dls = w.dls /\ v.queue = w.queue /\ v.pend = w.pend
        /\ v.wait = w.wait /\ v.draw = w.draw /\ v.drawEvent = w.drawEvent /\ v.cur = w.cur
        /\ v.i = w.i /\ v.guest = w.guest /\ v.intrEvents = w.intrEvents
    BY <1>2, <2>1 DEF Engine
  <2> QED BY <1>2, <2>1, <2>2, ListsKept, OwedKept DEF Same, Counted
<1>3. ASSUME NEW e, ListTyped(e), e.state = y.dls[l].state,
             e.started = y.dls[l].started,
             e.busy => y.dls[l].busy /\ y.dls[l].state \notin {"COMPLETED", "NONE"},
             NEW w, ListsOK(w), Same(y, w), w.dls = y.dls, w.pend = y.pend, w.queue = y.queue,
             w.dls[l].busy => e.busy \/ \A t \in Thread : w.wait[t] # l,
             NEW v, v = [Changed(w, l, e) EXCEPT !.isbreak = FALSE]
      PROVE  ListsOK(v) /\ Same(y, v) /\ v.queue = y.queue /\ v.dls[l] = e
  <2>1. Unnoticed(w, l, e)
    BY <1>3 DEF Unnoticed
  <2>2. InPlace(w, l, e)
    <3>1. ASSUME Holds(y.queue, l) PROVE e.state \in Live /\ (e.state = "QUEUED" \/ Head(y.queue) = l)
      <4>1. PICK n \in 1..Len(y.queue) : y.queue[n] = l
        BY <3>1 DEF Holds
      <4>2. y.dls[l].state \in Live /\ (n > 1 => y.dls[l].state = "QUEUED")
        BY <4>1 DEF ListsOK, QueuesOK, QueueOK, Live
      <4>3. n = 1 => Head(y.queue) = l
        BY <1>1, <4>1
      <4> QED BY <1>1, <1>3, <4>1, <4>2, <4>3
    <3> QED BY <1>3, <3>1 DEF InPlace
  <2>8. Quiet(w, l, e)
    BY <1>3 DEF Quiet, LeftBy
  <2>3. /\ ListsOK(Changed(w, l, e)) /\ Same(w, Changed(w, l, e))
        /\ Changed(w, l, e).queue = w.queue /\ Changed(w, l, e).dls[l] = e
    BY <1>3, <2>1, <2>2, <2>8, ListChanges
  <2>4. ListsOK(v) /\ Same(Changed(w, l, e), v)
    BY <1>2, <1>3, <2>3
  <2>5. v.queue = Changed(w, l, e).queue /\ v.dls = Changed(w, l, e).dls
    <3>1. Changed(w, l, e) \in Engine
      BY <2>3 DEF ListsOK, QueuesOK, Typed
    <3> QED BY <1>3, <3>1 DEF Engine
  <2>6. Same(w, v)
    BY <1>3, <2>3, <2>4, SameTwice DEF ListsOK
  <2>7. Same(y, v)
    BY <1>3, <2>4, <2>6, SameTwice DEF ListsOK
  <2> QED BY <1>3, <2>3, <2>4, <2>5, <2>7
<1>4. d \in DisplayList /\ [d EXCEPT !.busy = FALSE] \in DisplayList
  <2>1. d \in DisplayList
    BY <1>1, ListFields
  <2> HIDE DEF d
  <2> QED BY <2>1, ListFields
<1>5. ASSUME NEW e \in DisplayList, e.pos = y.dls[l].pos, e.stall = y.dls[l].stall,
             e.prog = y.dls[l].prog, e.signal = y.dls[l].signal
      PROVE  ListTyped(e)
  BY <1>1, <1>5 DEF ListTyped, InBounds, SyncSeen
<1>6. /\ d.pos = y.dls[l].pos /\ d.stall = y.dls[l].stall /\ d.prog = y.dls[l].prog
      /\ d.signal = y.dls[l].signal /\ d.state = y.dls[l].state /\ d.busy = y.dls[l].busy
      /\ d.started = y.dls[l].started
  BY <1>1 DEF DisplayList
<1>7. left = [Changed(y, l, d) EXCEPT !.isbreak = FALSE] /\ left.dls[l] = d
      /\ left \in Engine
  BY <1>1, <1>4 DEF Changed, Engine
<1>8. CASE y.dls[l].state \notin {"COMPLETED", "NONE"}
  <2>1. z = left
    <3> HIDE DEF left, d
    <3>1. InterruptEnd(y, l) = left
      BY <1>6, <1>7, <1>8 DEF InterruptEnd, left
    <3> QED BY <3>1
  <2> HIDE DEF d, left, z
  <2>2. ListTyped(d)
    BY <1>4, <1>5, <1>6
  <2>3. Same(y, y)
    BY <1>1, OwedKept DEF Same, Counted
  <2>6. /\ d.busy => y.dls[l].busy /\ y.dls[l].state \notin {"COMPLETED", "NONE"}
        /\ y.dls[l].busy => d.busy \/ \A t \in Thread : y.wait[t] # l
        /\ d.state = y.dls[l].state /\ d.started = y.dls[l].started
    BY <1>6, <1>8
  <2> DEFINE w == y
  <2>8. /\ w.dls[l].busy => d.busy \/ \A t \in Thread : w.wait[t] # l
        /\ ListsOK(w) /\ Same(y, w) /\ w.dls = y.dls /\ w.pend = y.pend /\ w.queue = y.queue
    BY <2>3, <2>6
  <2>7. left = [Changed(w, l, d) EXCEPT !.isbreak = FALSE]
    BY <1>7
  <2> HIDE DEF w
  <2>4. ListsOK(left) /\ Same(y, left) /\ left.queue = y.queue
    BY <1>3, <2>2, <2>6, <2>7, <2>8, ZenonT(60)
  <2>5. Seen(y, l) => BusyAt(left, l)
    BY <1>8, <2>4 DEF Seen, BusyAt
  <2> QED BY <2>1, <2>4, <2>5 DEF z
<1>9. CASE y.dls[l].state \in {"COMPLETED", "NONE"}
  <2> DEFINE e == [d EXCEPT !.busy = FALSE]
             w == GeTriggerWait(y, l)
  <2>1. /\ ListsOK(w) /\ Same(y, w) /\ w = [y EXCEPT !.wait = w.wait]
        /\ \A t \in Thread : w.wait[t] # l
        /\ w.dls = y.dls /\ w.queue = y.queue /\ w.pend = y.pend /\ w.cur = y.cur
    BY WaitsEnd
  <2>2. /\ e.pos = y.dls[l].pos /\ e.stall = y.dls[l].stall /\ e.prog = y.dls[l].prog
        /\ e.signal = y.dls[l].signal /\ e.state = y.dls[l].state
        /\ e.started = y.dls[l].started /\ ~e.busy
    BY <1>1 DEF DisplayList
  <2>3. freed = [Changed(w, l, e) EXCEPT !.isbreak = FALSE]
    BY <1>1 DEF Changed, GeTriggerWait, Engine
  <2>4. z = IF freed.queue # <<>> /\ Head(freed.queue) = l THEN PopDLQueue(freed)
            ELSE LeaveQueue(freed, l)
    <3>1. left.dls[l].state \in {"COMPLETED", "NONE"}
      BY <1>6, <1>7, <1>9
    <3> HIDE DEF left, freed
    <3>2. InterruptEnd(y, l) =
            IF left.dls[l].state \notin {"COMPLETED", "NONE"} THEN left
            ELSE IF freed.queue # <<>> /\ Head(freed.queue) = l THEN PopDLQueue(freed)
            ELSE LeaveQueue(freed, l)
      BY DEF InterruptEnd, left, freed
    <3> QED BY <3>1, <3>2
  <2> HIDE DEF d, left, z, e, w, freed
  <2>5. ListTyped(e)
    BY <1>4, <1>5, <2>2 DEF e
  <2>11. /\ e.busy => y.dls[l].busy /\ y.dls[l].state \notin {"COMPLETED", "NONE"}
         /\ w.dls[l].busy => e.busy \/ \A t \in Thread : w.wait[t] # l
         /\ e.state = y.dls[l].state /\ e.started = y.dls[l].started
         /\ ListsOK(w) /\ Same(y, w) /\ w.dls = y.dls /\ w.pend = y.pend /\ w.queue = y.queue
    BY <2>1, <2>2
  <2>6. ListsOK(freed) /\ Same(y, freed) /\ freed.queue = y.queue /\ freed.dls[l] = e
    BY <1>3, <2>3, <2>5, <2>11, ZenonT(60)
  <2>7. ~Holds(y.queue, l)
    BY <1>9 DEF ListsOK, QueuesOK, QueueOK, Holds
  <2>8. freed.queue # <<>> => Head(freed.queue) # l
    <3>1. y.queue # <<>> => 1 \in 1..Len(y.queue) /\ Head(y.queue) = y.queue[1]
      BY <1>1
    <3> QED BY <2>6, <2>7, <3>1 DEF Holds
  <2>9. LeaveQueue(freed, l) = freed
    <3>1. freed \in Engine
      BY <2>6 DEF ListsOK, QueuesOK, Typed
    <3>2. Without(freed.queue, {l}) = freed.queue
      BY <1>1, <2>6, <2>7, WithoutAbsent
    <3> QED BY <3>1, <3>2 DEF LeaveQueue, Engine
  <2>10. BusyAt(freed, l)
    BY <2>2, <2>6 DEF BusyAt
  <2> QED BY <2>4, <2>6, <2>8, <2>9, <2>10 DEF z
<1> QED BY <1>8, <1>9

\* One callback less, and what follows keeps the balance.
LEMMA LessThenSame ==
  ASSUME NEW y, QueuesOK(y), NEW z, QueuesOK(z), NEW w, QueuesOK(w), Less(y, z), Same(z, w)
  PROVE  Less(y, w)
<1> DEFINE a == Len(y.pend)
           b == Len(z.pend)
           c == Len(w.pend)
           d == y.intrEvents
           e == z.intrEvents
           f == w.intrEvents
<1>1. /\ a \in Nat /\ b \in Nat /\ c \in Nat /\ d \in Nat /\ e \in Nat /\ f \in Nat
  BY DEF QueuesOK, Typed, Engine
<1>2. b + d + 1 = a + e /\ c + e = b + f /\ w.i = y.i /\ w.guest = y.guest
  BY DEF Less, Same, Counted
<1>3. c + d + 1 = a + f
  <2> HIDE DEF a, b, c, d, e, f
  <2> QED BY <1>1, <1>2
<1> QED BY <1>2, <1>3 DEF Less

\* When the interrupt of a callback is over, the lists go on.
LEMMA GeIntrEnds ==
  ASSUME Orderly, NEW y, ListsOK(y), y.pend # <<>>, Seen(y, Head(y.pend).list)
  PROVE  ListsOK(GeIntrEnd(y)) /\ OneLess(y, GeIntrEnd(y))
<1> DEFINE l == Head(y.pend).list
           y1 == [y EXCEPT !.pend = Tail(@)]
           y2 == Requeue(y1, l)
           y3 == InterruptEnd(y2, l)
           y4 == ProcessDLQueue(y3)
<1>1. GeIntrEnd(y) = y4
  BY DEF GeIntrEnd
<1>2. /\ ListsOK(y1) /\ Less(y, y1) /\ l \in List /\ \A n \in 1..Len(y1.pend) : y1.pend[n].list # l
      /\ y1.dls = y.dls /\ y1.queue = y.queue
      /\ \A m \in List : m # l => (BusyAt(y, m) => BusyAt(y1, m))
  BY CallbackTaken
<1>10. Seen(y1, l)
  BY <1>2 DEF Seen
<1> HIDE DEF y1, l
<1>3. ListsOK(y2) /\ Same(y1, y2) /\ y2.pend = y1.pend /\ Seen(y2, l)
  BY <1>2, <1>10, Requeues
<1> HIDE DEF y2
<1>4. ListsOK(y3) /\ Same(y2, y3) /\ BusyAt(y3, l)
  BY <1>2, <1>3, InterruptEnds
<1> HIDE DEF y3
<1>5. Runnable(y3)
  BY <1>4 DEF Runnable, ListsOK
<1>6. ListsOK(y4) /\ Same(y3, y4)
  BY <1>5, QueueProcessed
<1> HIDE DEF y4
<1>7. Less(y, y2)
  BY <1>2, <1>3, LessThenSame DEF ListsOK
<1>8. Less(y, y3)
  BY <1>3, <1>4, <1>7, LessThenSame DEF ListsOK
<1>9. Less(y, y4)
  BY <1>4, <1>6, <1>8, LessThenSame DEF ListsOK
<1>11. \A m \in List : BusyAt(y, m) => BusyAt(y3, m)
  BY <1>2, <1>3, <1>4 DEF Same, Owed
<1>12. \A m \in List : BusyAt(y, m) => BusyAt(y4, m)
  BY <1>6, <1>11 DEF Same, Owed
<1> QED BY <1>1, <1>6, <1>9, <1>12 DEF OneLess

\* The interrupt of a callback enters the handler of the guest, or is over at once.
LEMMA GeIntrRuns ==
  ASSUME Orderly, NEW y, ListsOK(y), y.pend # <<>>
  PROVE  LET r == GeIntrRun(y)
         IN  /\ ListsOK(r.x) /\ r.entered \in BOOLEAN
             /\ IF r.entered
                THEN Same(y, r.x) /\ r.x.pend # <<>> /\ Seen(r.x, Head(r.x.pend).list)
                ELSE OneLess(y, r.x)
<1> DEFINE c == Head(y.pend)
           l == c.list
           d == [y.dls[l] EXCEPT !.state = "COMPLETED"]
           seen == IF y.dls[l].signal # "PAUSE" /\ c.cmd = "FINISH"
                   THEN [y EXCEPT !.dls[l].state = "COMPLETED"] ELSE y
<1>1. /\ y \in Engine /\ y.pend \in Seq(PendingCallback) /\ Len(y.pend) \in Nat
      /\ y.intrEvents \in Nat
  BY DEF ListsOK, QueuesOK, Typed, Engine
<1>2. 1 \in 1..Len(y.pend) /\ c = y.pend[1] /\ c \in PendingCallback /\ l \in List
  <2>1. 1 \in 1..Len(y.pend) /\ c = y.pend[1] /\ c \in PendingCallback
    BY <1>1
  <2> HIDE DEF c
  <2> QED BY <2>1 DEF PendingCallback
<1>3. CallbackOK(y, c)
  BY <1>2 DEF ListsOK, QueuesOK, PendOK
<1>4. ListsOK(seen) /\ Same(y, seen) /\ seen.pend = y.pend /\ Seen(seen, l)
  <2>1. CASE ~(y.dls[l].signal # "PAUSE" /\ c.cmd = "FINISH")
    <3>1. seen = y
      BY <2>1
    <3>2. Seen(y, l)
      <4>1. c.cmd \in {"SIGNAL", "FINISH"}
        BY <1>2 DEF PendingCallback
      <4> HIDE DEF c
      <4> QED BY <1>3, <2>1, <4>1 DEF CallbackOK, Seen
    <3> QED BY <1>1, <3>1, <3>2, OwedKept DEF Same, Counted
  <2>2. CASE y.dls[l].signal # "PAUSE" /\ c.cmd = "FINISH"
    <3>0. y.dls[l] \in DisplayList /\ ListTyped(y.dls[l])
      BY <1>2 DEF ListsOK, QueuesOK, Typed, ListTyped
    <3>1. seen = Changed(y, l, d)
      <4>1. seen = [y EXCEPT !.dls[l].state = "COMPLETED"]
        BY <2>2
      <4> HIDE DEF seen, c
      <4> QED BY <1>1, <4>1 DEF Changed, Engine
    <3>2. d \in DisplayList
      <4>1. "COMPLETED" \in DlState
        BY DEF DlState
      <4> HIDE DEF c
      <4> QED BY <3>0, <4>1, ListFields
    <3>3. /\ d.pos = y.dls[l].pos /\ d.stall = y.dls[l].stall /\ d.pendingInterrupt = y.dls[l].pendingInterrupt
          /\ d.prog = y.dls[l].prog /\ d.signal = y.dls[l].signal /\ d.busy = y.dls[l].busy
          /\ d.started = y.dls[l].started
      BY <3>0 DEF DisplayList
    <3> HIDE DEF d, seen
    <3>4. ~Holds(y.queue, l) /\ y.dls[l].pendingInterrupt /\ y.dls[l].started
      BY <1>3, <2>2 DEF CallbackOK
    <3>5. ListTyped(d)
      BY <3>0, <3>2, <3>3 DEF ListTyped, InBounds, SyncSeen
    <3>8. \A n \in 1..Len(y.pend) : y.pend[n].list = l => y.pend[n] = c
      BY <1>2 DEF ListsOK, QueuesOK, PendOK
    <3> HIDE DEF c
    <3>6. Unnoticed(y, l, d) /\ InPlace(y, l, d)
      BY <2>2, <3>3, <3>4, <3>8 DEF Unnoticed, InPlace
    <3>9. ToCome(y, l)
      BY <1>2 DEF ToCome
    <3>10. d.state = "COMPLETED"
      BY <3>0 DEF d, DisplayList
    <3>11. Quiet(y, l, d)
      BY <3>9, <3>10 DEF Quiet
    <3>7. ListsOK(seen) /\ Same(y, seen) /\ seen.pend = y.pend /\ seen.dls[l] = d
      BY <1>2, <3>1, <3>3, <3>5, <3>6, <3>11, ListChanges
    <3> QED BY <3>7, <3>10 DEF Seen
  <2> QED BY <2>1, <2>2
<1>5. GeIntrRun(y) = IF CallsHandler(y, c) THEN [x |-> seen, entered |-> TRUE]
                     ELSE [x |-> GeIntrEnd(seen), entered |-> FALSE]
  BY DEF GeIntrRun
<1> HIDE DEF seen, c
<1>8. seen.pend # <<>> /\ Seen(seen, Head(seen.pend).list)
  BY <1>4 DEF c
<1>6. ListsOK(GeIntrEnd(seen)) /\ OneLess(seen, GeIntrEnd(seen))
  BY <1>4, <1>8, GeIntrEnds
<1>7. OneLess(y, GeIntrEnd(seen))
  <2> DEFINE w == GeIntrEnd(seen)
  <2>1. OneLess(seen, w)
    BY <1>6
  <2>2. seen.intrEvents = y.intrEvents /\ seen.i = y.i /\ seen.guest = y.guest
    <3>1. /\ Len(seen.pend) + y.intrEvents = Len(y.pend) + seen.intrEvents
          /\ seen.i = y.i /\ seen.guest = y.guest
      BY <1>4 DEF Same, Counted
    <3>2. seen.intrEvents \in Nat
      BY <1>4 DEF ListsOK, QueuesOK, Typed, Engine
    <3> QED BY <1>1, <1>4, <3>1, <3>2
  <2> HIDE DEF w
  <2>3. OneLess(y, w)
    BY <1>4, <2>1, <2>2 DEF OneLess, Less, Same, Owed
  <2> QED BY <2>3 DEF w
<1> QED BY <1>4, <1>5, <1>6, <1>7, <1>8

-----------------------------------------------------------------------------
(* Pending interrupts. *)

LEMMA WithoutTail ==
  ASSUME NEW S, NEW s \in Seq(S), s # <<>>, NEW E
  PROVE  /\ Len(Without(s, E)) \in Nat /\ Len(Without(Tail(s), E)) \in Nat
         /\ Len(Without(s, E)) =
              Len(Without(Tail(s), E)) + (IF Head(s) \in E THEN 0 ELSE 1)
<1> DEFINE Here(z) == IF Head(z) \in E THEN 0 ELSE 1
           Claim(z) == z # <<>> => Len(Without(z, E)) = Len(Without(Tail(z), E)) + Here(z)
           G == {z \in Seq(S) : Claim(z)}
<1>0. \A z \in Seq(S) : Without(z, E) \in Seq(S)
  BY WithoutTakes
<1>1. <<>> \in G
  OBVIOUS
<1>2. ASSUME NEW z \in Seq(S), NEW u \in S, z \in G PROVE Append(z, u) \in G
  <2>1. z \in Seq(S) /\ Append(z, u) \in Seq(S) /\ Append(z, u) # <<>>
    OBVIOUS
  <2> SUFFICES Claim(Append(z, u))
    BY <2>1
  <2>2. Without(Append(z, u), E)
          = IF u \in E THEN Without(z, E) ELSE Append(Without(z, E), u)
    BY <2>1, WithoutAppend
  <2>3. Without(z, E) \in Seq(S)
    BY <1>0
  <2>4. CASE z = <<>>
    <3>1. Head(Append(z, u)) = u /\ Tail(Append(z, u)) = <<>>
      BY <2>4
    <3>2. Without(z, E) = <<>>
      BY <2>4, WithoutNothing
    <3> QED BY <2>2, <2>4, <3>1, <3>2
  <2>5. CASE z # <<>>
    <3>1. Head(Append(z, u)) = Head(z) /\ Tail(Append(z, u)) = Append(Tail(z), u)
          /\ Tail(z) \in Seq(S)
      BY <2>5
    <3>2. Without(Append(Tail(z), u), E)
            = IF u \in E THEN Without(Tail(z), E) ELSE Append(Without(Tail(z), E), u)
      BY <3>1, WithoutAppend, ZenonT(40)
    <3>3. Without(Tail(z), E) \in Seq(S)
      BY <1>0, <3>1
    <3>4. Len(Without(z, E)) = Len(Without(Tail(z), E)) + Here(z)
      BY <1>2, <2>5
    <3>5. Here(Append(z, u)) = Here(z) /\ Here(z) \in Nat
      BY <3>1
    <3> HIDE DEF Here
    <3>6. CASE u \in E
      BY <2>2, <3>1, <3>2, <3>4, <3>5, <3>6
    <3>7. CASE u \notin E
      <4>1. /\ Len(Without(Append(z, u), E)) = Len(Without(z, E)) + 1
            /\ Len(Without(Append(Tail(z), u), E)) = Len(Without(Tail(z), E)) + 1
            /\ Len(Without(z, E)) \in Nat /\ Len(Without(Tail(z), E)) \in Nat
        BY <2>2, <2>3, <3>2, <3>3, <3>7
      <4> DEFINE a == Len(Without(z, E))
                 b == Len(Without(Tail(z), E))
                 h == Here(z)
      <4>2. a \in Nat /\ b \in Nat /\ h \in Nat /\ a = b + h
        BY <3>4, <3>5, <4>1
      <4>3. a + 1 = (b + 1) + h
        <5> HIDE DEF a, b, h
        <5> QED BY <4>2
      <4> QED BY <3>1, <3>5, <4>1, <4>3
    <3> QED BY <3>6, <3>7
  <2> QED BY <2>4, <2>5
<1> HIDE DEF G
<1>3. s \in G
  BY <1>1, <1>2, SeqInduction
<1>4. Tail(s) \in Seq(S)
  OBVIOUS
<1>5. Len(Without(s, E)) \in Nat /\ Len(Without(Tail(s), E)) \in Nat
  BY <1>0, <1>4
<1> QED BY <1>3, <1>5 DEF G

\* Taking out twice, and taking out of a list behind which there is nothing to keep.
LEMMA WithoutTwice ==
  ASSUME NEW S, NEW s \in Seq(S), NEW D, NEW E, D \subseteq E
  PROVE  Without(Without(s, D), E) = Without(s, E)
<1> DEFINE G == {z \in Seq(S) : Without(Without(z, D), E) = Without(z, E)}
<1>1. <<>> \in G
  <2>1. <<>> \in Seq(S) /\ Without(Without(<<>>, D), E) = Without(<<>>, E)
    BY WithoutNothing
  <2> QED BY <2>1
<1>2. ASSUME NEW z \in Seq(S), NEW u \in S, z \in G PROVE Append(z, u) \in G
  <2>1. z \in Seq(S) /\ Append(z, u) \in Seq(S) /\ Without(Without(z, D), E) = Without(z, E)
    BY <1>2
  <2>2. Without(z, D) \in Seq(S)
    BY <2>1, WithoutTakes
  <2>3. Without(Append(z, u), D) = IF u \in D THEN Without(z, D) ELSE Append(Without(z, D), u)
    BY <2>1, WithoutAppend
  <2>4. Without(Append(z, u), E) = IF u \in E THEN Without(z, E) ELSE Append(Without(z, E), u)
    BY <2>1, WithoutAppend
  <2>5. Without(Append(Without(z, D), u), E)
          = IF u \in E THEN Without(Without(z, D), E) ELSE Append(Without(Without(z, D), E), u)
    BY <2>2, WithoutAppend
  <2>6. CASE u \in D
    BY <2>1, <2>3, <2>4, <2>6
  <2>7. CASE u \notin D
    BY <2>1, <2>3, <2>4, <2>5, <2>7
  <2> QED BY <2>6, <2>7
<1> HIDE DEF G
<1>3. s \in G
  BY <1>1, <1>2, SeqInduction
<1> QED BY <1>3 DEF G

LEMMA WithoutMore ==
  ASSUME NEW S, NEW s \in Seq(S), NEW E, E \subseteq S, NEW z \in Seq(E)
  PROVE  s \o z \in Seq(S) /\ Without(s \o z, E) = Without(s, E)
<1> DEFINE G == {w \in Seq(E) : s \o w \in Seq(S) /\ Without(s \o w, E) = Without(s, E)}
<1>1. <<>> \in G
  OBVIOUS
<1>2. ASSUME NEW w \in Seq(E), NEW u \in E, w \in G PROVE Append(w, u) \in G
  <2>1. w \in Seq(S) /\ u \in S /\ Append(w, u) \in Seq(E)
    OBVIOUS
  <2>2. s \o Append(w, u) = Append(s \o w, u)
    BY <2>1
  <2>3. s \o w \in Seq(S) /\ Without(s \o w, E) = Without(s, E)
    BY <1>2
  <2>4. Without(Append(s \o w, u), E)
          = IF u \in E THEN Without(s \o w, E) ELSE Append(Without(s \o w, E), u)
    <3> DEFINE v == s \o w
    <3>1. v \in Seq(S) /\ u \in S
      BY <2>1, <2>3
    <3> HIDE DEF v
    <3>2. Without(Append(v, u), E) = IF u \in E THEN Without(v, E) ELSE Append(Without(v, E), u)
      BY <3>1, WithoutAppend
    <3> QED BY <3>2 DEF v
  <2>5. Append(s \o w, u) \in Seq(S)
    BY <2>1, <2>3
  <2> QED BY <2>1, <2>2, <2>3, <2>4, <2>5
<1> HIDE DEF G
<1>3. z \in G
  BY <1>1, <1>2, SeqInduction
<1> QED BY <1>3 DEF G

\* The first stays the first if it is not taken out.
LEMMA WithoutKeepsFirst ==
  ASSUME NEW S, NEW s \in Seq(S), NEW E, s # <<>>, Head(s) \notin E
  PROVE  Without(s, E) # <<>> /\ Head(Without(s, E)) = Head(s)
<1> DEFINE r == Without(s, E)
<1>1. r \in Seq(S) /\ \E f : TakenFrom(r, s, E, f)
  BY WithoutTakes
<1>2. PICK f : TakenFrom(r, s, E, f)
  BY <1>1
<1> HIDE DEF r
<1>3. 1 \in 1..Len(s) /\ s[1] = Head(s) /\ s[1] \notin E /\ Len(r) \in Nat
  BY <1>1
<1>4. PICK i \in 1..Len(r) : f[i] = 1
  BY <1>2, <1>3 DEF TakenFrom
<1>5. 1 \in 1..Len(r) /\ f[1] \in 1..Len(s) /\ r[1] = s[f[1]]
  BY <1>2, <1>3, <1>4 DEF TakenFrom
<1>6. i > 1 => f[1] < f[i]
  BY <1>2, <1>4, <1>5 DEF TakenFrom
<1>7. i = 1
  BY <1>3, <1>4, <1>5, <1>6
<1>8. r[1] = Head(s)
  BY <1>3, <1>4, <1>5, <1>7
<1> QED BY <1>1, <1>5, <1>8 DEF r

\* Each callback that has no interrupt on its way has a pending one.
Balanced(y) == Len(y.pend) = y.intrEvents + Events(y) /\ BusyOK(y)

IntrRound(r) ==
  LET p == Head(r.x.i.pending)
      ran == Run(r.x, p)
  IN  IF r.entered THEN r
      ELSE IF ran.entered
      THEN [x |-> [ran.x EXCEPT !.i.inside = TRUE, !.i.ran = p], entered |-> TRUE]
      ELSE [x |-> [ran.x EXCEPT !.i.pending = Tail(@)], entered |-> FALSE]

\* after is the sequence of the states of the loop over the pending interrupts.
IntrLoopIs(y, after) ==
  LET N == Len(y.i.pending)
  IN  /\ after[0] = [x |-> y, entered |-> y.i.inside \/ ~y.i.enabled]
      /\ \A n \in 1..N : after[n] = IntrRound(after[n - 1])
      /\ RunPending(y) = after[N].x

LEMMA IntrLoopExists ==
  ASSUME NEW y, Len(y.i.pending) \in Nat
  PROVE  \E after : IntrLoopIs(y, after)
<1> DEFINE N == Len(y.i.pending)
           First == [x |-> y, entered |-> y.i.inside \/ ~y.i.enabled]
           IsLoop(f, m) ==
             f = [n \in 0..m |-> IF n = 0 THEN First ELSE IntrRound(f[n - 1])]
           after == CHOOSE f : IsLoop(f, N)
<1>1. RunPending(y) = after[N].x
  BY DEF RunPending, RunOnePendingInterrupt, IntrRound
<1>2. after[0] = First /\ \A n \in 1..N : after[n] = IntrRound(after[n - 1])
  <2> HIDE DEF First
  <2>a. N \in Nat
    OBVIOUS
  <2> HIDE DEF N
  <2>1. IsLoop(after, N)
    <3> DEFINE G == {m \in 0..N : \E f : IsLoop(f, m)}
    <3>2. 0 \in G
      <4>1. IsLoop([n \in 0..0 |-> First], 0)
        OBVIOUS
      <4> HIDE DEF IsLoop
      <4> QED BY <2>a, <4>1
    <3>3. ASSUME NEW m \in 1..N, m - 1 \in G PROVE m \in G
      <4>1. PICK f : IsLoop(f, m - 1)
        BY <3>3
      <4> DEFINE g == [n \in 0..m |-> IF n < m THEN f[n] ELSE IntrRound(f[m - 1])]
      <4>2. ASSUME NEW n \in 0..m
            PROVE  g[n] = IF n = 0 THEN First ELSE IntrRound(g[n - 1])
        <5>1. CASE n = 0
          BY <4>1, <5>1
        <5>2. CASE n # 0 /\ n < m
          BY <4>1, <5>2
        <5>3. CASE n = m
          BY <5>3
        <5> QED BY <5>1, <5>2, <5>3
      <4>3. IsLoop(g, m)
        BY <4>2
      <4> HIDE DEF IsLoop, g
      <4> QED BY <4>3
    <3> HIDE DEF G
    <3>4. \A m \in 1..N : m - 1 \in G => m \in G
      BY <3>3
    <3>5. \A m \in 0..N : m \in G
      BY <2>a, <3>2, <3>4, SetInduction
    <3>6. N \in G
      BY <2>a, <3>5
    <3> QED BY <3>6 DEF G
  <2> HIDE DEF after
  <2> QED BY <2>a, <2>1
<1> HIDE DEF after
<1> QED BY <1>1, <1>2 DEF IntrLoopIs

\* A record whose interrupts change.
LEMMA Interrupted ==
  ASSUME NEW y, ListsOK(y), NEW j \in InterruptState, NEW z, z = [y EXCEPT !.i = j]
  PROVE  /\ ListsOK(z) /\ z.i = j /\ z.pend = y.pend /\ z.intrEvents = y.intrEvents
         /\ z.guest = y.guest /\ z.dls = y.dls /\ z.queue = y.queue /\ Owed(y, z)
<1>1. y \in Engine
  BY DEF ListsOK, QueuesOK, Typed
<1>2. /\ z \in Engine /\ z.dls = y.dls /\ z.queue = y.queue /\ z.pend = y.pend
      /\ z.wait = y.wait /\ z.draw = y.draw /\ z.drawEvent = y.drawEvent /\ z.cur = y.cur
      /\ z.i = j /\ z.guest = y.guest /\ z.intrEvents = y.intrEvents
  BY <1>1 DEF Engine
<1> QED BY <1>2, ListsKept, OwedKept

\* What the fields of InterruptState may become.
LEMMA InterruptFields ==
  ASSUME NEW i \in InterruptState
  PROVE  /\ \A b \in BOOLEAN, p \in SubIntr \cup OtherIntr \cup {"nothing"} :
              [i EXCEPT !.inside = b, !.ran = p] \in InterruptState
         /\ \A s \in Seq(SubIntr \cup OtherIntr) : [i EXCEPT !.pending = s] \in InterruptState
         /\ \A b \in BOOLEAN : [i EXCEPT !.enabled = b] \in InterruptState
         /\ \A h \in [SubIntr -> SubIntrHandler] : [i EXCEPT !.handler = h] \in InterruptState
<1>1. \A b \in BOOLEAN, p \in SubIntr \cup OtherIntr \cup {"nothing"} :
        [i EXCEPT !.inside = b, !.ran = p] \in InterruptState
  BY DEF InterruptState
<1>2. \A s \in Seq(SubIntr \cup OtherIntr) : [i EXCEPT !.pending = s] \in InterruptState
  BY DEF InterruptState
<1>3. \A b \in BOOLEAN : [i EXCEPT !.enabled = b] \in InterruptState
  BY DEF InterruptState
<1>4. \A h \in [SubIntr -> SubIntrHandler] : [i EXCEPT !.handler = h] \in InterruptState
  BY DEF InterruptState
<1> QED BY <1>1, <1>2, <1>3, <1>4

\* An interrupt is a callback's, or one the guest has registered a handler for.
LEMMA Pending ==
  ASSUME NEW y, ListsOK(y), y.i.pending # <<>>
  PROVE  LET p == Head(y.i.pending)
         IN  /\ p \in SubIntr \cup OtherIntr /\ (p = "GE" <=> p \notin SubIntr)
             /\ y.i \in InterruptState /\ y.i.pending \in Seq(SubIntr \cup OtherIntr)
             /\ Tail(y.i.pending) \in Seq(SubIntr \cup OtherIntr)
             /\ Len(Tail(y.i.pending)) = Len(y.i.pending) - 1
             /\ Len(y.pend) \in Nat /\ y.intrEvents \in Nat /\ Events(y) \in Nat
             /\ Len(Without(Tail(y.i.pending), SubIntr)) \in Nat
             /\ Events(y) = Len(Without(Tail(y.i.pending), SubIntr)) + (IF p = "GE" THEN 1 ELSE 0)
<1> DEFINE p == Head(y.i.pending)
<1>1. y.i \in InterruptState /\ Len(y.pend) \in Nat /\ y.intrEvents \in Nat
  BY DEF ListsOK, QueuesOK, Typed, Engine
<1>2. y.i.pending \in Seq(SubIntr \cup OtherIntr)
  BY <1>1 DEF InterruptState
<1>3. p \in SubIntr \cup OtherIntr
  BY <1>2
<1>4. p = "GE" <=> p \notin SubIntr
  BY <1>3, GeAssumption, IntrAssumption
<1>5. /\ Tail(y.i.pending) \in Seq(SubIntr \cup OtherIntr)
      /\ Len(Tail(y.i.pending)) = Len(y.i.pending) - 1
  BY <1>2
<1>6. /\ Len(Without(y.i.pending, SubIntr)) \in Nat
      /\ Len(Without(Tail(y.i.pending), SubIntr)) \in Nat
      /\ Len(Without(y.i.pending, SubIntr))
           = Len(Without(Tail(y.i.pending), SubIntr)) + (IF p \in SubIntr THEN 0 ELSE 1)
  BY <1>2, WithoutTail
<1> QED BY <1>1, <1>2, <1>3, <1>4, <1>5, <1>6 DEF Events

\* The first of the pending interrupts is taken off.
Dropped(y, z) == z = [y EXCEPT !.i.pending = Tail(@)]

\* What running or ending the first of the pending interrupts does to the balance.
LEMMA Takes ==
  ASSUME NEW y, ListsOK(y), y.i.pending # <<>>, Balanced(y), NEW z, ListsOK(z),
         IF Head(y.i.pending) = "GE" THEN OneLess(y, z) ELSE Same(y, z),
         NEW w, Dropped(z, w)
  PROVE  /\ ListsOK(w) /\ Balanced(w) /\ w.guest = y.guest
         /\ w.i.pending = Tail(y.i.pending) /\ w.i.inside = y.i.inside /\ w.i.ran = y.i.ran
<1> DEFINE p == Head(y.i.pending)
           left == Tail(y.i.pending)
           a == Len(y.pend)
           b == Len(z.pend)
           d == y.intrEvents
           e == z.intrEvents
           m == Len(Without(left, SubIntr))
<1>1. /\ y.i \in InterruptState /\ left \in Seq(SubIntr \cup OtherIntr)
      /\ a \in Nat /\ d \in Nat /\ m \in Nat
      /\ Events(y) = m + (IF p = "GE" THEN 1 ELSE 0)
  BY Pending
<1>2. b \in Nat /\ e \in Nat /\ z \in Engine
  BY DEF ListsOK, QueuesOK, Typed, Engine
<1>3. z.i = y.i /\ z.guest = y.guest
      /\ (p = "GE" => b + d + 1 = a + e) /\ (p # "GE" => b + d = a + e)
  BY DEF OneLess, Less, Same, Counted
<1>4. a = d + Events(y)
  BY DEF Balanced
<1>5. b = e + m
  <2>1. CASE p = "GE"
    <3>1. b + d + 1 = a + e /\ a = d + (m + 1)
      BY <1>1, <1>3, <1>4, <2>1
    <3> HIDE DEF a, b, d, e, m
    <3> QED BY <1>1, <1>2, <3>1
  <2>2. CASE p # "GE"
    <3>1. b + d = a + e /\ a = d + (m + 0)
      BY <1>1, <1>3, <1>4, <2>2
    <3> HIDE DEF a, b, d, e, m
    <3> QED BY <1>1, <1>2, <3>1
  <2> QED BY <2>1, <2>2
<1> DEFINE j == [y.i EXCEPT !.pending = left]
<1>6. j \in InterruptState
  BY <1>1, InterruptFields
<1>7. j.pending = left /\ j.inside = y.i.inside /\ j.ran = y.i.ran
  BY <1>1 DEF InterruptState
<1>8. w = [z EXCEPT !.i = j]
  BY <1>2, <1>3 DEF Engine, Dropped
<1> HIDE DEF j
<1>12. BusyOK(z)
  BY DEF Balanced, BusyOK, OneLess, Same, Owed
<1>9. /\ ListsOK(w) /\ w.i = j /\ w.pend = z.pend /\ w.intrEvents = z.intrEvents
      /\ w.guest = z.guest /\ Owed(z, w)
  <2> HIDE DEF a, b, d, e, m, p, left
  <2>1. ListsOK(z) /\ j \in InterruptState /\ w = [z EXCEPT !.i = j]
    BY <1>6, <1>8
  <2> QED BY <2>1, Interrupted
<1>10. Balanced(w)
  <2>1. Len(w.pend) = w.intrEvents + m /\ m = Len(Without(w.i.pending, SubIntr))
    BY <1>5, <1>7, <1>9
  <2>2. BusyOK(w)
    BY <1>9, <1>12 DEF BusyOK, Owed
  <2> QED BY <2>1, <2>2 DEF Balanced, Events
<1> HIDE DEF a, b, d, e, m, left
<1>11. w.i.pending = left /\ w.i.inside = y.i.inside /\ w.i.ran = y.i.ran /\ w.guest = y.guest
  BY <1>3, <1>7, <1>9
<1> QED BY <1>9, <1>10, <1>11 DEF left

\* After n rounds the interrupts of y are at r.
IntrAt(y, n, r) ==
  /\ r = [x |-> r.x, entered |-> r.entered] /\ r.entered \in BOOLEAN
  /\ ListsOK(r.x) /\ Balanced(r.x) /\ r.x.guest = y.guest
  /\ IF r.entered THEN IntrOK(r.x)
     ELSE ~r.x.i.inside /\ Len(r.x.i.pending) = Len(y.i.pending) - n

LEMMA IntrRoundKeeps ==
  ASSUME Orderly, NEW y, Len(y.i.pending) \in Nat, NEW n \in 1..Len(y.i.pending), NEW r,
         IntrAt(y, n - 1, r)
  PROVE  IntrAt(y, n, IntrRound(r))
<1> DEFINE z == r.x
           p == Head(z.i.pending)
           ran == Run(z, p)
           q == IntrRound(r)
<1>0. r = [x |-> z, entered |-> r.entered] /\ r.entered \in BOOLEAN
      /\ ListsOK(z) /\ Balanced(z) /\ z.guest = y.guest
  BY DEF IntrAt
<1>1. CASE r.entered
  <2>1. q = r
    BY <1>1 DEF IntrRound
  <2> HIDE DEF q
  <2>2. IntrAt(y, n, q)
    BY <1>1, <2>1 DEF IntrAt
  <2> QED BY <2>2 DEF q
<1>2. CASE ~r.entered
  <2>1. ~z.i.inside /\ Len(z.i.pending) = Len(y.i.pending) - (n - 1)
    BY <1>2 DEF IntrAt
  <2>2. z.i.pending # <<>>
    <3>1. Len(z.i.pending) # 0
      BY <2>1
    <3> QED BY <3>1
  <2>3. /\ p \in SubIntr \cup OtherIntr /\ z.i \in InterruptState /\ Len(z.pend) \in Nat
        /\ z.intrEvents \in Nat /\ Events(z) \in Nat
        /\ Len(Tail(z.i.pending)) = Len(z.i.pending) - 1
        /\ p = "GE" => Events(z) # 0
    <3>1. /\ p \in SubIntr \cup OtherIntr /\ z.i \in InterruptState /\ Len(z.pend) \in Nat
          /\ z.intrEvents \in Nat /\ Events(z) \in Nat
          /\ Len(Tail(z.i.pending)) = Len(z.i.pending) - 1
          /\ Len(Without(Tail(z.i.pending), SubIntr)) \in Nat
          /\ Events(z) = Len(Without(Tail(z.i.pending), SubIntr)) + (IF p = "GE" THEN 1 ELSE 0)
      BY <1>0, <2>2, Pending
    <3> QED BY <3>1
  <2>4. p = "GE" => z.pend # <<>>
    <3>1. p = "GE" => Len(z.pend) # 0
      BY <1>0, <2>3 DEF Balanced
    <3> QED BY <3>1
  <2>5. /\ ListsOK(ran.x)
        /\ IF ran.entered \/ p # "GE" THEN Same(z, ran.x) ELSE OneLess(z, ran.x)
        /\ ran.entered /\ p = "GE" => ran.x.pend # <<>> /\ Seen(ran.x, Head(ran.x.pend).list)
    <3>1. CASE p = "GE"
      <4>1. ran = GeIntrRun(z) /\ z.pend # <<>>
        BY <2>4, <3>1 DEF Run
      <4> HIDE DEF ran
      <4> QED BY <1>0, <3>1, <4>1, GeIntrRuns
    <3>2. CASE p # "GE"
      <4>1. ran.x = z
        BY <3>2 DEF Run, IntrHandlerRun
      <4> HIDE DEF ran
      <4> QED BY <1>0, <2>3, <3>2, <4>1, OwedKept DEF Same, Counted
    <3> QED BY <3>1, <3>2
  <2>6. q = IF ran.entered
            THEN [x |-> [ran.x EXCEPT !.i.inside = TRUE, !.i.ran = p], entered |-> TRUE]
            ELSE [x |-> [ran.x EXCEPT !.i.pending = Tail(@)], entered |-> FALSE]
    BY <1>2 DEF IntrRound
  <2>0. ran.x \in Engine
    BY <2>5 DEF ListsOK, QueuesOK, Typed
  <2> HIDE DEF q, ran
  <2>7. CASE ran.entered
    <3> DEFINE j == [z.i EXCEPT !.inside = TRUE, !.ran = p]
               w == [ran.x EXCEPT !.i.inside = TRUE, !.i.ran = p]
    <3>1. j \in InterruptState
      BY <2>3, InterruptFields
    <3>2. j.pending = z.i.pending /\ j.ran = p
      BY <2>3 DEF InterruptState
    <3>3. /\ ran.x.i = z.i /\ ran.x.guest = z.guest
          /\ Len(ran.x.pend) + z.intrEvents = Len(z.pend) + ran.x.intrEvents
      BY <2>5, <2>7 DEF Same, Counted
    <3>4. w = [ran.x EXCEPT !.i = j]
      BY <2>0, <2>3, <3>3 DEF Engine, InterruptState
    <3>5. q = [x |-> w, entered |-> TRUE]
      BY <2>6, <2>7
    <3> HIDE DEF w, j
    <3>6. ListsOK(w) /\ w.i = j /\ w.pend = ran.x.pend /\ w.intrEvents = ran.x.intrEvents
          /\ w.guest = ran.x.guest /\ w.dls = ran.x.dls /\ w.queue = ran.x.queue /\ Owed(ran.x, w)
      BY <2>5, <3>1, <3>4, Interrupted
    <3>12. BusyOK(w)
      BY <1>0, <2>5, <2>7, <3>6 DEF Balanced, BusyOK, Same, Owed
    <3>13. HandlerOK(w)
      BY <2>5, <2>7, <3>2, <3>6 DEF HandlerOK, Seen
    <3>7. Events(w) = Events(z)
      BY <3>2, <3>6 DEF Events
    <3>8. Balanced(w)
      <4> DEFINE a == Len(z.pend)
                 b == Len(ran.x.pend)
                 d == z.intrEvents
                 e == ran.x.intrEvents
                 m == Events(z)
      <4>1. b \in Nat /\ e \in Nat
        BY <2>5 DEF ListsOK, QueuesOK, Typed, Engine
      <4>2. a \in Nat /\ d \in Nat /\ m \in Nat /\ a = d + m /\ b + d = a + e
        BY <1>0, <2>3, <3>3 DEF Balanced
      <4>3. b = e + m
        <5> HIDE DEF a, b, d, e, m
        <5> QED BY <4>1, <4>2
      <4> QED BY <3>6, <3>7, <3>12, <4>3 DEF Balanced
    <3>9. IntrOK(w)
      BY <2>2, <3>2, <3>6, <3>8, <3>13 DEF IntrOK, Balanced
    <3>10. q.x = w /\ q.entered = TRUE /\ q = [x |-> q.x, entered |-> q.entered]
      BY <3>5
    <3>11. IntrAt(y, n, q)
      BY <1>0, <3>3, <3>6, <3>8, <3>9, <3>10 DEF IntrAt
    <3> QED BY <3>11 DEF q
  <2>8. CASE ~ran.entered
    <3> DEFINE w == [ran.x EXCEPT !.i.pending = Tail(@)]
    <3>1. IF p = "GE" THEN OneLess(z, ran.x) ELSE Same(z, ran.x)
      BY <2>5, <2>8
    <3>2. /\ ListsOK(w) /\ Balanced(w) /\ w.guest = z.guest
          /\ w.i.pending = Tail(z.i.pending) /\ w.i.inside = z.i.inside
      <4>1. Dropped(ran.x, w)
        BY DEF Dropped
      <4>2. ListsOK(ran.x) /\ IF Head(z.i.pending) = "GE" THEN OneLess(z, ran.x) ELSE Same(z, ran.x)
        BY <2>5, <3>1
      <4> HIDE DEF w, p
      <4> QED BY <1>0, <2>2, <4>1, <4>2, Takes
    <3>3. q = [x |-> w, entered |-> FALSE]
      BY <2>6, <2>8
    <3> HIDE DEF w
    <3>4. q.x = w /\ q.entered = FALSE /\ q = [x |-> q.x, entered |-> q.entered]
      BY <3>3
    <3>5. Len(w.i.pending) = Len(y.i.pending) - n
      <4>1. Len(w.i.pending) = Len(z.i.pending) - 1
        BY <2>3, <3>2
      <4> QED BY <2>1, <4>1
    <3>6. IntrAt(y, n, q)
      BY <1>0, <2>1, <3>2, <3>4, <3>5 DEF IntrAt
    <3> QED BY <3>6 DEF q
  <2> QED BY <2>7, <2>8
<1> QED BY <1>0, <1>1, <1>2

\* Running the pending interrupts keeps lists and interrupts in order.
LEMMA PendingRun ==
  ASSUME Orderly, NEW y, ListsOK(y), IntrOK(y)
  PROVE  /\ ListsOK(RunPending(y)) /\ IntrOK(RunPending(y))
<1> DEFINE N == Len(y.i.pending)
<1>1. y.i \in InterruptState /\ y.i.pending \in Seq(SubIntr \cup OtherIntr) /\ N \in Nat
      /\ y.i.inside \in BOOLEAN /\ y.i.enabled \in BOOLEAN
  <2>1. y.i \in InterruptState
    BY DEF ListsOK, QueuesOK, Typed, Engine
  <2> QED BY <2>1 DEF InterruptState
<1>2. PICK after : IntrLoopIs(y, after)
  BY <1>1, IntrLoopExists
<1>3. /\ after[0] = [x |-> y, entered |-> y.i.inside \/ ~y.i.enabled]
      /\ \A n \in 1..N : after[n] = IntrRound(after[n - 1])
      /\ RunPending(y) = after[N].x
  BY <1>2 DEF IntrLoopIs
<1> DEFINE G == {n \in 0..N : IntrAt(y, n, after[n])}
<1>4. 0 \in G
  <2> DEFINE r == [x |-> y, entered |-> y.i.inside \/ ~y.i.enabled]
  <2>1. r = [x |-> r.x, entered |-> r.entered] /\ r.x = y
    OBVIOUS
  <2>2. r.entered = (y.i.inside \/ ~y.i.enabled)
    OBVIOUS
  <2> HIDE DEF r
  <2>3. r.entered \in BOOLEAN
    BY <2>2
  <2>4. ~r.entered => ~y.i.inside
    BY <2>2
  <2>5. Balanced(y)
    BY DEF IntrOK, Balanced
  <2>6. Len(y.i.pending) = Len(y.i.pending) - 0
    BY <1>1
  <2>7. IntrAt(y, 0, r)
    BY <2>1, <2>3, <2>4, <2>5, <2>6 DEF IntrAt
  <2> QED BY <1>1, <1>3, <2>7 DEF r
<1>5. ASSUME NEW n \in 1..N, n - 1 \in G PROVE n \in G
  <2>1. IntrAt(y, n - 1, after[n - 1]) /\ after[n] = IntrRound(after[n - 1]) /\ n \in 0..N
    BY <1>3, <1>5
  <2>2. IntrAt(y, n, after[n])
    BY <1>1, <2>1, IntrRoundKeeps
  <2> QED BY <2>1, <2>2
<1>6. IntrAt(y, N, after[N])
  <2>1. \A n \in 1..N : n - 1 \in G => n \in G
    BY <1>5
  <2> HIDE DEF G, N
  <2>2. \A n \in 0..N : n \in G
    BY <1>1, <1>4, <2>1, SetInduction
  <2>3. N \in G
    BY <1>1, <2>2
  <2> QED BY <2>3 DEF G
<1>7. IntrOK(after[N].x) /\ ListsOK(after[N].x)
  BY <1>6 DEF IntrAt, IntrOK, Balanced, HandlerOK
<1> QED BY <1>3, <1>7

-----------------------------------------------------------------------------
(* System calls: lists. *)

LEMMA IntrStays ==
  ASSUME NEW y, ListsOK(y), IntrOK(y), NEW z, ListsOK(z), Same(y, z)
  PROVE  IntrOK(z)
<1> DEFINE a == Len(y.pend)
           b == Len(z.pend)
           d == y.intrEvents
           e == z.intrEvents
           m == Events(y)
<1>1. /\ a \in Nat /\ b \in Nat /\ d \in Nat /\ e \in Nat /\ y.i \in InterruptState
  BY DEF ListsOK, QueuesOK, Typed, Engine
<1>2. m \in Nat
  <2>1. y.i.pending \in Seq(SubIntr \cup OtherIntr)
    BY <1>1 DEF InterruptState
  <2>2. Without(y.i.pending, SubIntr) \in Seq(SubIntr \cup OtherIntr)
    BY <2>1, WithoutTakes
  <2> QED BY <2>2 DEF Events
<1>3. z.i = y.i /\ b + d = a + e /\ a = d + m
  BY DEF Same, Counted, IntrOK
<1>4. b = e + m
  <2> HIDE DEF a, b, d, e, m
  <2> QED BY <1>1, <1>2, <1>3
<1>5. Events(z) = m
  BY <1>3 DEF Events
<1> HIDE DEF m
<1>6. BusyOK(z)
  BY DEF IntrOK, BusyOK, Same, Owed
<1>7. HandlerOK(z)
  <2> SUFFICES ASSUME y.i.inside /\ y.i.ran = "GE" PROVE z.pend # <<>> /\ Seen(z, Head(z.pend).list)
    BY <1>3 DEF HandlerOK
  <2>1. y.pend # <<>> /\ Seen(y, Head(y.pend).list)
    BY DEF IntrOK, HandlerOK
  <2>2. y.pend \in Seq(PendingCallback) /\ z.pend \in Seq(PendingCallback)
    BY DEF ListsOK, QueuesOK, Typed, Engine
  <2>3. 1 \in 1..Len(y.pend) /\ Head(y.pend) = y.pend[1] /\ Head(y.pend) \in PendingCallback
    BY <2>1, <2>2
  <2>4. 1 \in 1..Len(z.pend) /\ z.pend[1] = y.pend[1]
    BY <2>3 DEF Same, Owed
  <2>5. z.pend # <<>> /\ Head(z.pend) = z.pend[1]
    BY <2>2, <2>4
  <2>6. Head(y.pend).list \in List /\ ToCome(y, Head(y.pend).list)
    BY <2>3 DEF PendingCallback, ToCome
  <2> QED BY <2>1, <2>3, <2>4, <2>5, <2>6 DEF Same, Owed
<1> QED BY <1>3, <1>4, <1>5, <1>6, <1>7 DEF IntrOK

\* The lists are run from a record in which they may be.
LEMMA QueueRuns ==
  ASSUME Orderly, NEW y, ListsOK(y), IntrOK(y), NEW z, Runnable(z), Same(y, z)
  PROVE  ListsOK(ProcessDLQueue(z)) /\ IntrOK(ProcessDLQueue(z))
<1> DEFINE w == ProcessDLQueue(z)
<1>1. ListsOK(w) /\ Same(z, w)
  BY QueueProcessed
<1> HIDE DEF w
<1>2. Same(y, w)
  BY <1>1, SameTwice DEF ListsOK, Runnable
<1>3. IntrOK(w)
  BY <1>1, <1>2, IntrStays
<1> QED BY <1>1, <1>3 DEF w

NoCallback(y, l) == \A n \in 1..Len(y.pend) : y.pend[n].list # l

\* An entry that is free has no callback and is not in the queue.
LEMMA FreeEntry ==
  ASSUME ListsOK(x), NEW l \in List, Free(l)
  PROVE  NoCallback(x, l) /\ ~Holds(x.queue, l) /\ x.dls[l].state \in {"NONE", "COMPLETED"}
<1>1. ~x.dls[l].pendingInterrupt /\ x.dls[l].state \in {"NONE", "COMPLETED"}
  BY DEF Free
<1>2. NoCallback(x, l)
  BY <1>1 DEF ListsOK, QueuesOK, PendOK, CallbackOK, NoCallback
<1>3. ~Holds(x.queue, l)
  BY <1>1 DEF ListsOK, QueuesOK, QueueOK, Holds
<1> QED BY <1>1, <1>2, <1>3

LEMMA NewListTyped ==
  ASSUME NEW prog \in Programs, NEW stall \in 0..Len(prog), NEW callback \in BOOLEAN,
         NEW state \in DlState
  PROVE  LET d == NewList(prog, stall, callback, state)
         IN  /\ ListTyped(d) /\ d.busy /\ d.state = state /\ ~d.pendingInterrupt
             /\ ~d.started
<1> DEFINE d == NewList(prog, stall, callback, state)
<1>1. prog \in Seq(Command) /\ Len(prog) \in Nat /\ stall \in Nat /\ stall <= Len(prog)
  BY GeAssumption
<1>2. d = [UnusedList EXCEPT !.prog = prog, !.stall = stall, !.callback = callback,
                             !.state = state, !.busy = TRUE]
  BY DEF NewList
<1>u. /\ UnusedList \in DisplayList /\ UnusedList.pos = 0 /\ UnusedList.signal = "NONE"
      /\ UnusedList.pendingInterrupt = FALSE /\ UnusedList.started = FALSE
  BY DEF UnusedList, DisplayList, Signal, DlState
<1> HIDE DEF d
<1>3. d \in DisplayList
  BY <1>1, <1>2, <1>u DEF DisplayList
<1>4. d.pos = 0 /\ d.stall = stall /\ d.prog = prog /\ d.signal = "NONE" /\ d.busy /\ d.state = state
      /\ ~d.pendingInterrupt /\ ~d.started
  BY <1>2, <1>u DEF DisplayList
<1>5. InBounds(d)
  BY <1>1, <1>4 DEF InBounds
<1> QED BY <1>3, <1>4, <1>5 DEF ListTyped, d

\* A list that is not in the queue and has no callback becomes d, for which threads may wait.
LEMMA EntryFilled ==
  ASSUME NEW y, ListsOK(y), NEW l \in List, NoCallback(y, l), ~Holds(y.queue, l),
         NEW d, ListTyped(d), d.busy
  PROVE  LET z == Changed(y, l, d)
         IN  /\ ListsOK(z) /\ Counted(y, z) /\ z.dls[l] = d /\ z.queue = y.queue
             /\ z.pend = y.pend /\ z.cur = y.cur /\ z.draw = y.draw /\ z.guest = y.guest
             /\ \A m \in List : m # l => z.dls[m] = y.dls[m]
<1> DEFINE z == Changed(y, l, d)
<1>1. Unnoticed(y, l, d) /\ InPlace(y, l, d)
  BY DEF Unnoticed, InPlace, NoCallback
<1>2. QueuesOK(z)
  BY <1>1, OneListChanges DEF ListsOK
<1>3. y \in Engine /\ d \in DisplayList /\ Len(y.pend) \in Nat /\ y.intrEvents \in Nat
      /\ y.queue \in Seq(List)
  BY DEF ListsOK, QueuesOK, Typed, Engine, ListTyped
<1>4. /\ z.queue = y.queue /\ z.pend = y.pend /\ z.cur = y.cur /\ z.i = y.i
      /\ z.guest = y.guest /\ z.intrEvents = y.intrEvents /\ z.draw = y.draw
  BY <1>3 DEF Changed, Engine
<1>5. z.dls[l] = d /\ \A m \in List : m # l => z.dls[m] = y.dls[m]
  BY <1>3, ChangedFields
<1> HIDE DEF z
<1>6. DrawOK(z)
  <2>1. \A n \in 1..Len(y.queue) : y.queue[n] \in List /\ y.queue[n] # l
    BY <1>3 DEF Holds
  <2> QED BY <1>4, <1>5, <2>1 DEF ListsOK, DrawOK
<1>7. CurOK(z) /\ Counted(y, z)
  BY <1>3, <1>4 DEF ListsOK, CurOK, Counted
<1> QED BY <1>2, <1>4, <1>5, <1>6, <1>7 DEF ListsOK, z

\* An entry that is filled and enters the queue is served.
LEMMA EntryServed ==
  ASSUME NEW y, NEW z, NEW l \in List, z.guest = y.guest, z.pend = y.pend,
         \A m \in List : m # l => z.dls[m] = y.dls[m],
         \A m : Holds(z.queue, m) <=> Holds(y.queue, m) \/ m = l
  PROVE  Owed(y, z)
<1>1. BusyAt(z, l) /\ Seen(z, l)
  BY DEF BusyAt, Seen
<1> QED BY <1>1, OwedByOne

\* The queue gets longer by a list that is not in it.
LEMMA ListEnters ==
  ASSUME NEW y, ListsOK(y), NEW l \in List, NoCallback(y, l), ~Holds(y.queue, l),
         y.dls[l].state \in Live,
         NEW q \in Seq(List), Distinct(q), \A m : Holds(q, m) <=> Holds(y.queue, m) \/ m = l,
         \A n \in 1..Len(q) : n > 1 => y.dls[q[n]].state = "QUEUED",
         NEW z \in Engine, z.queue = q, z.dls = y.dls, z.pend = y.pend, z.wait = y.wait,
         z.drawEvent = y.drawEvent, z.draw \in {y.draw, "never"},
         z.i = y.i, z.guest = y.guest, z.intrEvents = y.intrEvents
  PROVE  QueuesOK(z) /\ Counted(y, z) /\ (z.draw = y.draw => DrawOK(z))
<1>1. y \in Engine /\ y.queue \in Seq(List) /\ Len(y.pend) \in Nat /\ y.intrEvents \in Nat
      /\ y.pend \in Seq(PendingCallback)
  BY DEF ListsOK, QueuesOK, Typed, Engine
<1>2. Typed(z)
  BY DEF ListsOK, QueuesOK, Typed
<1>3. WaitOK(z)
  BY DEF ListsOK, QueuesOK, WaitOK
<1>4. QueueOK(z)
  <2>1. \A n \in 1..Len(q) : Holds(y.queue, q[n]) \/ q[n] = l
    BY DEF Holds
  <2>2. \A m : Holds(y.queue, m) => y.dls[m].state \in Live
    BY DEF ListsOK, QueuesOK, QueueOK, Holds, Live
  <2> QED BY <2>1, <2>2 DEF QueueOK, Live
<1>5. PendOK(z)
  <2>1. \A n \in 1..Len(y.pend) : Holds(q, y.pend[n].list) <=> Holds(y.queue, y.pend[n].list)
    BY DEF NoCallback
  <2>2. \A n \in 1..Len(y.pend) : CallbackOK(y, y.pend[n])
    BY DEF ListsOK, QueuesOK, PendOK
  <2>3. \A n \in 1..Len(z.pend) : CallbackOK(z, z.pend[n])
    BY <2>1, <2>2 DEF CallbackOK
  <2>4. \A n, m \in 1..Len(z.pend) : z.pend[n].list = z.pend[m].list => n = m
    BY DEF ListsOK, QueuesOK, PendOK
  <2> QED BY <2>3, <2>4 DEF PendOK
<1>6. ASSUME z.draw = y.draw PROVE DrawOK(z)
  <2> SUFFICES ASSUME y.draw = "never", "BreakAll" \notin y.guest
               PROVE  \E n \in 1..Len(q) : z.dls[q[n]].started
    BY <1>6 DEF DrawOK
  <2>1. PICK n \in 1..Len(y.queue) : y.dls[y.queue[n]].started
    BY DEF ListsOK, DrawOK
  <2>2. Holds(q, y.queue[n])
    BY DEF Holds
  <2> QED BY <2>1, <2>2 DEF Holds
<1>7. Counted(y, z)
  BY <1>1 DEF Counted
<1> QED BY <1>2, <1>3, <1>4, <1>5, <1>6, <1>7 DEF QueuesOK

\* What the invariant says of the current list.
LEMMA CurrentList ==
  ASSUME ListsOK(x)
  PROVE  /\ x \in Engine /\ x.queue \in Seq(List) /\ Len(x.pend) \in Nat /\ x.intrEvents \in Nat
         /\ x.cur = NoList => x.queue = <<>>
         /\ x.cur # NoList => /\ x.queue # <<>> /\ x.cur = Head(x.queue) /\ x.cur \in List
                              /\ Holds(x.queue, x.cur) /\ ListTyped(x.dls[x.cur])
                              /\ x.dls[x.cur] \in DisplayList
                              /\ x.dls[x.cur].state # "PAUSED" => NoCallback(x, x.cur)
                              /\ ~x.dls[x.cur].pendingInterrupt => NoCallback(x, x.cur)
<1>1. x \in Engine /\ x.queue \in Seq(List) /\ Len(x.pend) \in Nat /\ x.intrEvents \in Nat
      /\ x.cur = IF x.queue = <<>> THEN NoList ELSE Head(x.queue)
  BY DEF ListsOK, QueuesOK, Typed, Engine, CurOK
<1>2. x.queue # <<>> => 1 \in 1..Len(x.queue) /\ Head(x.queue) = x.queue[1] /\ Head(x.queue) \in List
  BY <1>1
<1>3. ASSUME x.cur # NoList
      PROVE  /\ x.queue # <<>> /\ x.cur = Head(x.queue) /\ x.cur \in List /\ Holds(x.queue, x.cur)
             /\ ListTyped(x.dls[x.cur]) /\ x.dls[x.cur] \in DisplayList
             /\ x.dls[x.cur].state # "PAUSED" => NoCallback(x, x.cur)
             /\ ~x.dls[x.cur].pendingInterrupt => NoCallback(x, x.cur)
  <2>1. x.queue # <<>> /\ x.cur = Head(x.queue) /\ x.cur \in List /\ Holds(x.queue, x.cur)
    BY <1>1, <1>2, <1>3 DEF Holds
  <2>2. ListTyped(x.dls[x.cur]) /\ x.dls[x.cur] \in DisplayList
    BY <2>1 DEF ListsOK, QueuesOK, Typed, ListTyped
  <2>3. /\ x.dls[x.cur].state # "PAUSED" => NoCallback(x, x.cur)
        /\ ~x.dls[x.cur].pendingInterrupt => NoCallback(x, x.cur)
    BY <2>1 DEF ListsOK, QueuesOK, PendOK, CallbackOK, NoCallback
  <2> QED BY <2>1, <2>2, <2>3
<1>4. x.cur = NoList => x.queue = <<>>
  BY <1>1, <1>2, GeAssumption
<1> QED BY <1>1, <1>3, <1>4

LEMMA EnQueueKeeps ==
  ASSUME Orderly, GeIInv, NEW l \in List, NEW prog \in Programs, NEW stall \in 0..Len(prog),
         NEW callback \in BOOLEAN, sceGeListEnQueue(l, prog, stall, callback)
  PROVE  GeIInv'
<1>0. ListsOK(x) /\ IntrOK(x)
  BY DEF GeIInv
<1>1. NoCallback(x, l) /\ ~Holds(x.queue, l)
  BY <1>0, FreeEntry DEF sceGeListEnQueue
<1>2. /\ x \in Engine /\ x.queue \in Seq(List) /\ Len(x.pend) \in Nat /\ x.intrEvents \in Nat
      /\ x.cur = NoList => x.queue = <<>>
  BY <1>0, CurrentList
<1>3. CASE x.cur # NoList
  <2> DEFINE d == NewList(prog, stall, callback, "QUEUED")
             y == Changed(x, l, d)
             q == Append(x.queue, l)
             z == [x EXCEPT !.dls[l] = d, !.queue = q]
  <2>1. x' = z
    BY <1>3 DEF sceGeListEnQueue
  <2>2. ListTyped(d) /\ d.busy /\ d.state = "QUEUED"
    BY NewListTyped DEF DlState
  <2>3. z = [y EXCEPT !.queue = q]
    BY <1>2 DEF Changed, Engine
  <2> HIDE DEF d, z
  <2>4. /\ ListsOK(y) /\ Counted(x, y) /\ y.dls[l] = d /\ y.queue = x.queue
        /\ y.pend = x.pend /\ y.cur = x.cur /\ y.draw = x.draw /\ y.guest = x.guest
        /\ \A m \in List : m # l => y.dls[m] = x.dls[m]
    BY <1>0, <1>1, <2>2, EntryFilled
  <2> HIDE DEF y
  <2>5. y \in Engine
    BY <2>4 DEF ListsOK, QueuesOK, Typed
  <2>6. q \in Seq(List) /\ Distinct(q) /\ \A m : Holds(q, m) <=> Holds(x.queue, m) \/ m = l
    BY <1>0, <1>1, <1>2, AppendHolds DEF ListsOK, QueuesOK, QueueOK
  <2>7. ASSUME NEW n \in 1..Len(q), n > 1 PROVE y.dls[q[n]].state = "QUEUED"
    <3>1. CASE n \in 1..Len(x.queue)
      <4>1. q[n] = y.queue[n] /\ n \in 1..Len(y.queue)
        BY <1>2, <2>4, <3>1
      <4> QED BY <2>4, <2>7, <4>1 DEF ListsOK, QueuesOK, QueueOK
    <3>2. CASE n \notin 1..Len(x.queue)
      <4>1. q[n] = l
        BY <1>2, <3>2
      <4> QED BY <2>2, <2>4, <4>1
    <3> QED BY <3>1, <3>2
  <2>8. q # <<>> /\ (x.queue # <<>> => Head(q) = Head(x.queue))
    BY <1>2
  <2>h. x.cur = Head(x.queue) /\ x.queue # <<>>
    BY <1>0, <1>3, CurrentList
  <2> HIDE DEF q
  <2>9. /\ z \in Engine /\ z.queue = q /\ z.dls = y.dls /\ z.pend = y.pend /\ z.wait = y.wait
        /\ z.drawEvent = y.drawEvent /\ z.draw = y.draw /\ z.cur = y.cur
        /\ z.i = y.i /\ z.guest = y.guest /\ z.intrEvents = y.intrEvents
    BY <2>3, <2>5, <2>6 DEF Engine
  <2>10. NoCallback(y, l) /\ ~Holds(y.queue, l) /\ y.dls[l].state \in Live
    BY <1>1, <2>2, <2>4 DEF NoCallback, Live
  <2>11. QueuesOK(z) /\ Counted(y, z) /\ DrawOK(z)
    BY <2>4, <2>6, <2>7, <2>9, <2>10, ListEnters
  <2>12. CurOK(z)
    BY <2>4, <2>8, <2>9, <2>h DEF CurOK
  <2>13. ListsOK(z)
    BY <2>11, <2>12 DEF ListsOK
  <2>16. Owed(x, z)
    BY <2>4, <2>6, <2>9, EntryServed
  <2>14. Same(x, z)
    BY <1>0, <2>4, <2>11, <2>16, CountedTwice DEF ListsOK, Same
  <2>15. IntrOK(z)
    BY <1>0, <2>13, <2>14, IntrStays
  <2> QED BY <2>1, <2>13, <2>15 DEF GeIInv
<1>4. CASE x.cur = NoList
  <2> DEFINE d == NewList(prog, stall, callback, "RUNNING")
             y == Changed(x, l, d)
             q == <<l>> \o x.queue
             z == [x EXCEPT !.dls[l] = d, !.queue = q, !.cur = l, !.draw = "never"]
  <2>1. x' = ProcessDLQueue(z)
    BY <1>4 DEF sceGeListEnQueue
  <2>2. ListTyped(d) /\ d.busy /\ d.state = "RUNNING"
    BY NewListTyped DEF DlState
  <2>3. z = [y EXCEPT !.queue = q, !.cur = l, !.draw = "never"]
    BY <1>2 DEF Changed, Engine
  <2> HIDE DEF d, z
  <2>4. /\ ListsOK(y) /\ Counted(x, y) /\ y.dls[l] = d /\ y.queue = x.queue
        /\ y.pend = x.pend /\ y.cur = x.cur /\ y.draw = x.draw /\ y.guest = x.guest
        /\ \A m \in List : m # l => y.dls[m] = x.dls[m]
    BY <1>0, <1>1, <2>2, EntryFilled
  <2> HIDE DEF y
  <2>5. y \in Engine
    BY <2>4 DEF ListsOK, QueuesOK, Typed
  <2>6. q \in Seq(List) /\ Distinct(q) /\ \A m : Holds(q, m) <=> Holds(x.queue, m) \/ m = l
    BY <1>0, <1>1, <1>2, FrontHolds DEF ListsOK, QueuesOK, QueueOK
  <2>7. Len(q) = 1 /\ q # <<>> /\ Head(q) = l
    BY <1>2, <1>4
  <2> HIDE DEF q
  <2>9. /\ z \in Engine /\ z.queue = q /\ z.dls = y.dls /\ z.pend = y.pend /\ z.wait = y.wait
        /\ z.drawEvent = y.drawEvent /\ z.draw = "never" /\ z.cur = l
        /\ z.i = y.i /\ z.guest = y.guest /\ z.intrEvents = y.intrEvents
    BY <2>3, <2>5, <2>6 DEF Engine
  <2>10. NoCallback(y, l) /\ ~Holds(y.queue, l) /\ y.dls[l].state \in Live
    BY <1>1, <2>2, <2>4 DEF NoCallback, Live
  <2>11. QueuesOK(z) /\ Counted(y, z)
    <3>1. \A n \in 1..Len(q) : n > 1 => y.dls[q[n]].state = "QUEUED"
      BY <2>7
    <3>2. z.draw \in {y.draw, "never"}
      BY <2>9
    <3> QED BY <2>4, <2>6, <2>9, <2>10, <3>1, <3>2, ListEnters
  <2>12. Runnable(z)
    BY <2>2, <2>4, <2>7, <2>9, <2>11 DEF Runnable, CurOK
  <2>15. Owed(x, z)
    BY <2>4, <2>6, <2>9, EntryServed
  <2>13. Same(x, z)
    BY <1>0, <2>4, <2>11, <2>15, CountedTwice DEF ListsOK, Same
  <2>14. ListsOK(ProcessDLQueue(z)) /\ IntrOK(ProcessDLQueue(z))
    BY <1>0, <2>12, <2>13, QueueRuns
  <2> QED BY <2>1, <2>14 DEF GeIInv
<1> QED BY <1>3, <1>4

\* Under Orderly, what is InTime waits for the first list's interrupt.
LEMMA NotEarly ==
  ASSUME Orderly, ListsOK(x), InTime, x.cur # NoList
  PROVE  NoCallback(x, x.cur)
<1>1. x.guest \in Guests
  BY DEF ListsOK, QueuesOK, Typed, Engine
<1>2. ~Calls("RunEarly")
  BY <1>1 DEF Orderly, Calls
<1>3. x.cur = Head(x.queue) /\ x.queue # <<>>
      /\ (~x.dls[x.cur].pendingInterrupt => NoCallback(x, x.cur))
  BY CurrentList
<1> QED BY <1>2, <1>3 DEF InTime

LEMMA EnQueueHeadRefusedKeeps ==
  ASSUME GeIInv, NEW l \in List, NEW prog \in Programs, NEW stall \in 0..Len(prog),
         NEW callback \in BOOLEAN, sceGeListEnQueueHeadRefused(l, prog, stall, callback)
  PROVE  GeIInv'
<1> DEFINE d == NewList(prog, stall, callback, x.dls[l].state)
           y == Changed(x, l, d)
<1>0. ListsOK(x) /\ IntrOK(x) /\ x \in Engine
  BY CurrentList DEF GeIInv
<1>1. NoCallback(x, l) /\ ~Holds(x.queue, l) /\ x.dls[l].state \in {"NONE", "COMPLETED"}
  BY <1>0, FreeEntry DEF sceGeListEnQueueHeadRefused
<1>2. ListTyped(d) /\ d.busy /\ ~d.started /\ d.state = x.dls[l].state
  BY <1>1, NewListTyped DEF DlState
<1>3. x' = y /\ "ListEnQueueHeadRefused" \in x.guest
  BY <1>0 DEF sceGeListEnQueueHeadRefused, Changed, Engine, Calls
<1> HIDE DEF d
<1>6. Quiet(x, l, d)
  BY <1>1, <1>2, <1>3 DEF Quiet, LeftBy, NoCallback, ToCome
<1>7. d \in DisplayList
  BY <1>2 DEF ListTyped
<1>8. Owed(x, y)
  BY <1>0, <1>6, <1>7, OwedChanged
<1>4. ListsOK(y) /\ Same(x, y)
  BY <1>0, <1>1, <1>2, <1>8, EntryFilled DEF Same
<1> HIDE DEF y
<1>5. IntrOK(y)
  BY <1>0, <1>4, IntrStays
<1> QED BY <1>3, <1>4, <1>5 DEF GeIInv

LEMMA EnQueueHeadKeeps ==
  ASSUME Orderly, GeIInv, NEW l \in List, NEW prog \in Programs, NEW stall \in 0..Len(prog),
         NEW callback \in BOOLEAN, sceGeListEnQueueHead(l, prog, stall, callback)
  PROVE  GeIInv'
<1> DEFINE d == NewList(prog, stall, callback, "PAUSED")
           e == [x.dls[x.cur] EXCEPT !.state = "QUEUED", !.signal = "NONE"]
           behind == IF x.cur = NoList THEN x
                     ELSE [x EXCEPT !.dls[x.cur].state = "QUEUED", !.dls[x.cur].signal = "NONE"]
           y == Changed(behind, l, d)
           q == <<l>> \o x.queue
           z == [behind EXCEPT !.dls[l] = d, !.queue = <<l>> \o @, !.cur = l]
<1>0. ListsOK(x) /\ IntrOK(x)
  BY DEF GeIInv
<1>1. NoCallback(x, l) /\ ~Holds(x.queue, l)
  BY <1>0, FreeEntry DEF sceGeListEnQueueHead
<1>2. /\ x \in Engine /\ x.queue \in Seq(List) /\ Len(x.pend) \in Nat /\ x.intrEvents \in Nat
      /\ x.cur = NoList => x.queue = <<>>
  BY <1>0, CurrentList
<1>3. x' = z
  BY DEF sceGeListEnQueueHead
<1>4. ListTyped(d) /\ d.busy /\ d.state = "PAUSED"
  BY NewListTyped DEF DlState
<1>5. /\ ListsOK(behind) /\ Same(x, behind) /\ behind.queue = x.queue /\ behind.pend = x.pend
      /\ behind.draw = x.draw
      /\ x.queue # <<>> => behind.dls[Head(x.queue)].state = "QUEUED"
  <2>1. CASE x.cur = NoList
    <3>1. behind = x
      BY <2>1
    <3> HIDE DEF behind
    <3> QED BY <1>0, <1>2, <2>1, <3>1, OwedKept DEF Same, Counted
  <2>2. CASE x.cur # NoList
    <3>1. InTime /\ x.dls[x.cur].state = "PAUSED"
      BY <2>2 DEF sceGeListEnQueueHead
    <3>2. /\ x.queue # <<>> /\ x.cur = Head(x.queue) /\ x.cur \in List
          /\ ListTyped(x.dls[x.cur]) /\ x.dls[x.cur] \in DisplayList
      BY <1>0, <2>2, CurrentList
    <3>3. NoCallback(x, x.cur)
      BY <1>0, <2>2, <3>1, NotEarly
    <3>4. behind = Changed(x, x.cur, e)
      <4>1. behind = [x EXCEPT !.dls[x.cur].state = "QUEUED", !.dls[x.cur].signal = "NONE"]
        BY <2>2
      <4> HIDE DEF behind
      <4> QED BY <1>2, <3>2, <4>1 DEF Changed, Engine
    <3>5. /\ e \in DisplayList /\ e.pos = x.dls[x.cur].pos /\ e.stall = x.dls[x.cur].stall
          /\ e.prog = x.dls[x.cur].prog /\ e.signal = "NONE" /\ e.state = "QUEUED"
          /\ e.busy = x.dls[x.cur].busy /\ e.started = x.dls[x.cur].started
      BY <3>2 DEF DisplayList, DlState, Signal
    <3> HIDE DEF e, behind
    <3>6. ListTyped(e)
      BY <3>2, <3>5 DEF ListTyped, InBounds, SyncSeen
    <3>7. Unnoticed(x, x.cur, e) /\ InPlace(x, x.cur, e)
      BY <3>2, <3>3, <3>5 DEF Unnoticed, InPlace, NoCallback, Live
    <3>9. Quiet(x, x.cur, e)
      <4>1. Holds(x.queue, x.cur)
        BY <1>0, <2>2, CurrentList
      <4> QED BY <4>1 DEF Quiet
    <3> DEFINE c == x.cur
    <3>8. /\ ListsOK(Changed(x, c, e)) /\ Same(x, Changed(x, c, e)) /\ Changed(x, c, e).dls[c] = e
          /\ Changed(x, c, e).queue = x.queue /\ Changed(x, c, e).pend = x.pend
          /\ Changed(x, c, e).draw = x.draw
      BY <1>0, <3>2, <3>5, <3>6, <3>7, <3>9, ListChanges
    <3> QED BY <3>2, <3>4, <3>5, <3>8
  <2> QED BY <2>1, <2>2
<1>6. z = [y EXCEPT !.queue = q, !.cur = l]
  <2> HIDE DEF behind, d
  <2>1. behind \in Engine
    BY <1>5 DEF ListsOK, QueuesOK, Typed
  <2> QED BY <1>5, <2>1 DEF Changed, Engine
<1> HIDE DEF d, z, behind
<1>7. NoCallback(behind, l) /\ ~Holds(behind.queue, l)
  BY <1>1, <1>5 DEF NoCallback
<1>8. /\ ListsOK(y) /\ Counted(behind, y) /\ y.dls[l] = d /\ y.queue = behind.queue
      /\ y.pend = behind.pend /\ y.draw = behind.draw /\ y.guest = behind.guest
      /\ \A m \in List : m # l => y.dls[m] = behind.dls[m]
  BY <1>4, <1>5, <1>7, EntryFilled
<1> HIDE DEF y
<1>9. y \in Engine
  BY <1>8 DEF ListsOK, QueuesOK, Typed
<1>10. q \in Seq(List) /\ Distinct(q) /\ \A m : Holds(q, m) <=> Holds(x.queue, m) \/ m = l
  BY <1>0, <1>1, <1>2, FrontHolds DEF ListsOK, QueuesOK, QueueOK
<1>11. ASSUME NEW n \in 1..Len(q), n > 1 PROVE y.dls[q[n]].state = "QUEUED"
  <2>1. n - 1 \in 1..Len(x.queue) /\ q[n] = x.queue[n - 1] /\ x.queue[n - 1] \in List
    BY <1>2, <1>11
  <2>2. x.queue[n - 1] # l
    BY <1>1, <2>1 DEF Holds
  <2>3. behind.dls[x.queue[n - 1]].state = "QUEUED"
    <3>1. CASE n - 1 = 1
      <4>1. Head(x.queue) = x.queue[n - 1] /\ x.queue # <<>>
        BY <1>2, <2>1, <3>1
      <4> QED BY <1>5, <4>1
    <3>2. CASE n - 1 > 1
      BY <1>5, <2>1, <3>2 DEF ListsOK, QueuesOK, QueueOK
    <3> QED BY <2>1, <3>1, <3>2
  <2> QED BY <1>8, <2>1, <2>2, <2>3
<1>12. q # <<>> /\ Head(q) = l
  BY <1>2
<1> HIDE DEF q
<1>13. /\ z \in Engine /\ z.queue = q /\ z.dls = y.dls /\ z.pend = y.pend /\ z.wait = y.wait
       /\ z.drawEvent = y.drawEvent /\ z.draw = y.draw /\ z.cur = l
       /\ z.i = y.i /\ z.guest = y.guest /\ z.intrEvents = y.intrEvents
  BY <1>6, <1>9, <1>10 DEF Engine
<1>14. NoCallback(y, l) /\ ~Holds(y.queue, l) /\ y.dls[l].state \in Live
  BY <1>1, <1>4, <1>5, <1>8 DEF NoCallback, Live
<1>15. QueuesOK(z) /\ Counted(y, z) /\ DrawOK(z)
  <2>1. /\ ListsOK(y) /\ \A m : Holds(q, m) <=> Holds(y.queue, m) \/ m = l
        /\ \A n \in 1..Len(q) : n > 1 => y.dls[q[n]].state = "QUEUED"
        /\ z.draw \in {y.draw, "never"}
    BY <1>5, <1>8, <1>10, <1>11, <1>13
  <2> QED BY <1>10, <1>13, <1>14, <2>1, ListEnters
<1>16. ListsOK(z)
  BY <1>12, <1>13, <1>15 DEF ListsOK, CurOK
<1>20. Owed(behind, z)
  BY <1>5, <1>8, <1>10, <1>13, EntryServed
<1>17. Same(behind, z)
  BY <1>5, <1>8, <1>15, <1>20, CountedTwice DEF ListsOK, Same
<1>18. Same(x, z)
  BY <1>0, <1>5, <1>15, <1>17, SameTwice DEF ListsOK
<1>19. IntrOK(z)
  BY <1>0, <1>16, <1>18, IntrStays
<1> QED BY <1>3, <1>16, <1>19 DEF GeIInv

\* Lists that are not in the queue are forgotten.
StatesOnly(y, f) ==
  \A m \in List : \E state \in {y.dls[m].state, "NONE"} :
    f[m] = [y.dls[m] EXCEPT !.state = state] /\ (Holds(y.queue, m) => state = y.dls[m].state)

LEMMA StatesChange ==
  ASSUME NEW y, ListsOK(y), NEW f \in [List -> DisplayList], StatesOnly(y, f),
         NEW z, z = [y EXCEPT !.dls = f]
  PROVE  ListsOK(z) /\ Same(y, z)
<1>1. /\ y \in Engine /\ Len(y.pend) \in Nat /\ y.intrEvents \in Nat /\ y.queue \in Seq(List)
      /\ y.pend \in Seq(PendingCallback)
  BY DEF ListsOK, QueuesOK, Typed, Engine
<1>2. /\ z \in Engine /\ z.dls = f /\ z.queue = y.queue /\ z.pend = y.pend /\ z.wait = y.wait
      /\ z.draw = y.draw /\ z.drawEvent = y.drawEvent /\ z.cur = y.cur
      /\ z.i = y.i /\ z.guest = y.guest /\ z.intrEvents = y.intrEvents
  BY <1>1 DEF Engine
<1>3. ASSUME NEW m \in List
      PROVE  /\ ListTyped(f[m]) /\ f[m].started = y.dls[m].started /\ f[m].busy = y.dls[m].busy
             /\ f[m].signal = y.dls[m].signal /\ f[m].pos = y.dls[m].pos
             /\ f[m].pendingInterrupt = y.dls[m].pendingInterrupt
             /\ f[m].state \in {y.dls[m].state, "NONE"}
             /\ Holds(y.queue, m) => f[m].state = y.dls[m].state
  <2>1. y.dls[m] \in DisplayList /\ ListTyped(y.dls[m]) /\ f[m] \in DisplayList
    BY DEF ListsOK, QueuesOK, Typed, ListTyped
  <2>2. PICK state \in {y.dls[m].state, "NONE"} :
          f[m] = [y.dls[m] EXCEPT !.state = state] /\ (Holds(y.queue, m) => state = y.dls[m].state)
    BY DEF StatesOnly
  <2>3. /\ f[m].pos = y.dls[m].pos /\ f[m].stall = y.dls[m].stall /\ f[m].prog = y.dls[m].prog
        /\ f[m].signal = y.dls[m].signal /\ f[m].started = y.dls[m].started
        /\ f[m].busy = y.dls[m].busy /\ f[m].pendingInterrupt = y.dls[m].pendingInterrupt
        /\ f[m].state = state
    BY <2>1, <2>2 DEF DisplayList
  <2>4. ListTyped(f[m])
    BY <2>1, <2>3 DEF ListTyped, InBounds, SyncSeen
  <2> QED BY <2>2, <2>3, <2>4
<1>4. Typed(z)
  BY <1>2, <1>3 DEF Typed
<1>5. /\ \A n \in 1..Len(y.queue) : y.queue[n] \in List /\ Holds(y.queue, y.queue[n])
      /\ \A n \in 1..Len(y.pend) : y.pend[n].list \in List
  <2>1. \A n \in 1..Len(y.pend) : y.pend[n] \in PendingCallback
    BY <1>1
  <2> QED BY <1>1, <2>1 DEF Holds, PendingCallback
<1>6. QueueOK(z)
  BY <1>2, <1>3, <1>5 DEF ListsOK, QueuesOK, QueueOK
<1>7. PendOK(z)
  <2>1. ASSUME NEW n \in 1..Len(y.pend) PROVE CallbackOK(z, y.pend[n])
    <3>1. CallbackOK(y, y.pend[n])
      BY DEF ListsOK, QueuesOK, PendOK
    <3> QED BY <1>2, <1>3, <1>5, <3>1 DEF CallbackOK
  <2> QED BY <1>2, <2>1 DEF ListsOK, QueuesOK, PendOK
<1>8. WaitOK(z)
  BY <1>2, <1>3 DEF ListsOK, QueuesOK, WaitOK
<1>9. DrawOK(z)
  BY <1>2, <1>3, <1>5 DEF ListsOK, DrawOK
<1>11. Owed(y, z)
  <2>1. \A m \in List : LeftBy(y, y.dls[m]) => LeftBy(z, z.dls[m])
    BY <1>2, <1>3 DEF LeftBy
  <2>2. \A m \in List : BusyAt(y, m) => BusyAt(z, m)
    BY <1>2, <1>3, <2>1 DEF BusyAt, ToCome
  <2>3. \A m \in List : Seen(y, m) => Seen(z, m)
    BY <1>2, <1>3 DEF Seen
  <2> QED BY <1>2, <2>2, <2>3 DEF Owed
<1>10. CurOK(z) /\ Same(y, z)
  BY <1>1, <1>2, <1>11 DEF ListsOK, CurOK, Same, Counted
<1> QED BY <1>4, <1>6, <1>7, <1>8, <1>9, <1>10 DEF ListsOK, QueuesOK

\* Lists that are complete are forgotten.
LEMMA CompletedForgotten ==
  ASSUME NEW y, ListsOK(y), NEW z,
         z = [y EXCEPT !.dls = [l \in List |->
                IF @[l].state = "COMPLETED" THEN [@[l] EXCEPT !.state = "NONE"] ELSE @[l]]]
  PROVE  ListsOK(z) /\ Same(y, z)
<1> DEFINE f == [l \in List |-> IF y.dls[l].state = "COMPLETED"
                                THEN [y.dls[l] EXCEPT !.state = "NONE"] ELSE y.dls[l]]
<1>1. \A l \in List : y.dls[l] \in DisplayList
  BY DEF ListsOK, QueuesOK, Typed, Engine
<1>2. \A l \in List : [y.dls[l] EXCEPT !.state = "NONE"] \in DisplayList
  BY <1>1, ListFields DEF DlState
<1>3. f \in [List -> DisplayList]
  BY <1>1, <1>2
<1>4. \A m \in List : Holds(y.queue, m) => y.dls[m].state # "COMPLETED"
  BY DEF ListsOK, QueuesOK, QueueOK, Holds
<1>5. StatesOnly(y, f)
  <2> SUFFICES ASSUME NEW m \in List
               PROVE  \E state \in {y.dls[m].state, "NONE"} :
                        /\ f[m] = [y.dls[m] EXCEPT !.state = state]
                        /\ Holds(y.queue, m) => state = y.dls[m].state
    BY DEF StatesOnly
  <2>1. CASE y.dls[m].state = "COMPLETED"
    BY <1>4, <2>1 DEF DlState
  <2>2. CASE y.dls[m].state # "COMPLETED"
    <3>1. y.dls[m].state \in DlState /\ y.dls[m] = [y.dls[m] EXCEPT !.state = y.dls[m].state]
      BY <1>1 DEF DisplayList
    <3>2. f[m] = y.dls[m]
      BY <2>2
    <3> HIDE DEF f
    <3> QED BY <3>1, <3>2
  <2> QED BY <2>1, <2>2
<1>6. z = [y EXCEPT !.dls = f]
  OBVIOUS
<1> HIDE DEF f
<1> QED BY <1>3, <1>5, <1>6, StatesChange

LEMMA DeQueueKeeps ==
  ASSUME GeIInv, NEW l \in List, sceGeListDeQueue(l)
  PROVE  GeIInv'
<1> DEFINE d == [x.dls[l] EXCEPT !.state = "NONE", !.busy = FALSE]
           w == LeaveQueue(x, l)
           c == IF w.queue = <<>> THEN NoList ELSE Head(w.queue)
           v == [w EXCEPT !.cur = c]
           u == GeTriggerWait(v, l)
           none == [x EXCEPT !.dls[l].state = "NONE"]
           out == IF x.queue # <<>> /\ Head(x.queue) = l THEN PopDLQueue(none)
                  ELSE LeaveQueue(none, l)
           freed == GeTriggerWait([out EXCEPT !.dls[l].busy = FALSE], l)
           z == [freed EXCEPT !.dls = [m \in List |-> [@[m] EXCEPT !.state = "NONE"]]]
<1>0. ListsOK(x) /\ IntrOK(x)
  BY DEF GeIInv
<1>1. /\ x \in Engine /\ x.queue \in Seq(List) /\ x.pend \in Seq(PendingCallback)
      /\ x.dls[l] \in DisplayList /\ ListTyped(x.dls[l]) /\ Len(x.pend) \in Nat
      /\ x.intrEvents \in Nat /\ ~x.dls[l].started
      /\ x.cur = IF x.queue = <<>> THEN NoList ELSE Head(x.queue)
  <2>1. ~x.dls[l].started
    BY DEF sceGeListDeQueue
  <2>2. x \in Engine /\ \A m \in List : ListTyped(x.dls[m])
    BY <1>0 DEF ListsOK, QueuesOK, Typed
  <2>3. x.cur = IF x.queue = <<>> THEN NoList ELSE Head(x.queue)
    BY <1>0, <2>1 DEF ListsOK, CurOK
  <2> QED BY <2>1, <2>2, <2>3 DEF Engine, ListTyped
<1>2. x' = IF freed.queue # <<>> THEN freed ELSE z
  BY DEF sceGeListDeQueue
<1>3. NoCallback(x, l)
  BY <1>0, <1>1 DEF ListsOK, QueuesOK, PendOK, CallbackOK, NoCallback
<1>4. /\ QueuesOK(w) /\ ~Holds(w.queue, l)
      /\ \A m : Holds(w.queue, m) <=> Holds(x.queue, m) /\ m # l
      /\ w = [x EXCEPT !.queue = w.queue]
      /\ x.queue # <<>> /\ Head(x.queue) = l => w.queue = Tail(x.queue)
      /\ x.queue # <<>> /\ Head(x.queue) # l => w.queue # <<>> /\ Head(w.queue) = Head(x.queue)
      /\ ~Holds(x.queue, l) => w = x
  <2>1. \A n \in 1..Len(x.pend) : x.pend[n].list # l
    BY <1>3 DEF NoCallback
  <2>2. QueuesOK(x)
    BY <1>0 DEF ListsOK
  <2> QED BY <1>1, <2>1, <2>2, ListLeaves
<1>5. out = [x EXCEPT !.dls[l].state = "NONE", !.queue = w.queue, !.cur = c]
  <2>1. CASE x.queue # <<>> /\ Head(x.queue) = l
    <3>1. none = [x EXCEPT !.dls[l].state = "NONE"] /\ none.dls[l].state = "NONE"
          /\ none.queue = x.queue /\ none.cur = l /\ none \in Engine
      BY <1>1, <2>1 DEF Engine, DisplayList, DlState
    <3>2. Tail(x.queue) # <<>> => Head(Tail(x.queue)) \in List
      BY <1>1
    <3> HIDE DEF none, w
    <3>3. out = IF Tail(x.queue) = <<>>
                THEN [none EXCEPT !.queue = Tail(x.queue), !.cur = NoList]
                ELSE [none EXCEPT !.queue = Tail(x.queue), !.cur = Head(Tail(x.queue))]
      <4>1. out = PopDLQueue(none)
        BY <2>1
      <4> HIDE DEF out
      <4>2. CASE Tail(x.queue) = <<>>
        BY <3>1, <4>1, <4>2 DEF PopDLQueue
      <4>3. CASE Tail(x.queue) # <<>>
        <5>1. out = [none EXCEPT !.queue = Tail(x.queue), !.cur = Head(Tail(x.queue)),
                                 !.dls[Head(Tail(x.queue))].state = @]
          BY <3>1, <4>1, <4>3 DEF PopDLQueue
        <5>2. none.dls \in [List -> DisplayList]
          BY <3>1 DEF Engine
        <5> DEFINE h == Head(Tail(x.queue))
                   g == [none.dls EXCEPT ![h].state = @]
        <5>3. none.dls = g
          BY <3>2, <4>3, <5>2 DEF DisplayList
        <5>4. out = [none EXCEPT !.queue = Tail(x.queue), !.cur = h, !.dls = g]
          BY <3>1, <5>1 DEF Engine
        <5> HIDE DEF g
        <5>5. out = [none EXCEPT !.queue = Tail(x.queue), !.cur = h]
          BY <3>1, <5>3, <5>4 DEF Engine
        <5> QED BY <4>3, <5>5
      <4> QED BY <4>2, <4>3
    <3>4. w.queue = Tail(x.queue)
      BY <1>4, <2>1
    <3> HIDE DEF out
    <3>5. out = [none EXCEPT !.queue = w.queue, !.cur = c]
      BY <3>3, <3>4
    <3> QED BY <1>1, <3>1, <3>5 DEF Engine
  <2>2. CASE ~(x.queue # <<>> /\ Head(x.queue) = l)
    <3>1. out = LeaveQueue(none, l)
      BY <2>2
    <3>2. w.queue = Without(x.queue, {l})
      BY <1>1 DEF LeaveQueue, Engine
    <3>3. c = x.cur
      <4> HIDE DEF w
      <4>1. CASE x.queue = <<>>
        <5>1. ~Holds(x.queue, l)
          BY <1>1, <4>1 DEF Holds
        <5> QED BY <1>1, <1>4, <4>1, <5>1
      <4>2. CASE x.queue # <<>>
        BY <1>1, <1>4, <2>2, <4>2
      <4> QED BY <4>1, <4>2
    <3> HIDE DEF out, w, c
    <3> QED BY <1>1, <3>1, <3>2, <3>3 DEF LeaveQueue, Engine
  <2> QED BY <2>1, <2>2
<1>6. freed = Changed(u, l, d)
  <2> HIDE DEF out
  <2>1. freed = GeTriggerWait([out EXCEPT !.dls[l].busy = FALSE], l)
    OBVIOUS
  <2> HIDE DEF freed, c
  <2>2. v = [x EXCEPT !.queue = w.queue, !.cur = c]
    BY <1>1, <1>4 DEF Engine
  <2> HIDE DEF v, w
  <2> DEFINE wt == [t \in Thread |-> IF x.wait[t] = l THEN "none" ELSE x.wait[t]]
  <2>3. u = [x EXCEPT !.queue = w.queue, !.cur = c, !.wait = wt]
    BY <1>1, <2>2 DEF GeTriggerWait, Engine
  <2>4. freed = [x EXCEPT !.dls[l] = d, !.queue = w.queue, !.cur = c, !.wait = wt]
    <3>1. [out EXCEPT !.dls[l].busy = FALSE] = [x EXCEPT !.dls[l] = d, !.queue = w.queue, !.cur = c]
      BY <1>1, <1>5, ZenonT(40) DEF Engine, DisplayList
    <3> DEFINE o == [out EXCEPT !.dls[l].busy = FALSE]
    <3>2. freed = [o EXCEPT !.wait = [t \in Thread |-> IF @[t] = l THEN "none" ELSE @[t]]]
      BY <2>1 DEF GeTriggerWait
    <3> HIDE DEF d, o
    <3>3. o = [x EXCEPT !.dls[l] = d, !.queue = w.queue, !.cur = c] /\ o.wait = x.wait
      BY <1>1, <3>1 DEF o, Engine
    <3>4. freed = [o EXCEPT !.wait = wt]
      BY <3>2, <3>3
    <3> HIDE DEF wt
    <3> QED BY <1>1, <3>3, <3>4 DEF Engine
  <2> HIDE DEF wt, d, u
  <2> QED BY <1>1, <2>3, <2>4 DEF Changed, Engine
<1>7. ListTyped(d) /\ d.state = "NONE" /\ d.started = x.dls[l].started /\ ~d.busy
  <2>1. "NONE" \in DlState /\ FALSE \in BOOLEAN
    BY DEF DlState
  <2>2. /\ d \in DisplayList /\ d.pos = x.dls[l].pos /\ d.stall = x.dls[l].stall
        /\ d.prog = x.dls[l].prog /\ d.signal = x.dls[l].signal /\ d.state = "NONE"
        /\ d.started = x.dls[l].started /\ ~d.busy
    BY <1>1, <2>1 DEF DisplayList
  <2> HIDE DEF d
  <2> QED BY <1>1, <2>2 DEF ListTyped, InBounds, SyncSeen
<1> HIDE DEF d, out
<1>8. /\ w \in Engine /\ w.dls = x.dls /\ w.pend = x.pend /\ w.i = x.i /\ w.guest = x.guest
      /\ w.intrEvents = x.intrEvents /\ w.draw = x.draw /\ w.wait = x.wait
      /\ w.drawEvent = x.drawEvent /\ w.queue \in Seq(List)
  <2>1. w \in Engine
    BY <1>4 DEF QueuesOK, Typed
  <2> HIDE DEF w
  <2> QED BY <1>1, <1>4, <2>1 DEF Engine
<1> HIDE DEF w
<1>9. c \in List \cup {NoList}
  BY <1>8
<1>10. /\ ListsOK(v) /\ Counted(x, v) /\ v.dls = x.dls /\ v.queue = w.queue /\ v.pend = x.pend
       /\ v.guest = x.guest
  <2>1. /\ v \in Engine /\ v.dls = w.dls /\ v.queue = w.queue /\ v.pend = w.pend
        /\ v.wait = w.wait /\ v.draw = w.draw /\ v.drawEvent = w.drawEvent /\ v.cur = c
        /\ v.i = w.i /\ v.guest = w.guest /\ v.intrEvents = w.intrEvents
    BY <1>8, <1>9 DEF Engine
  <2> HIDE DEF v
  <2>2. QueuesOK(v)
    BY <1>4, <2>1, QueuesKept
  <2>3. CurOK(v)
    BY <2>1 DEF CurOK
  <2>4. DrawOK(v)
    <3> SUFFICES ASSUME x.draw = "never", "BreakAll" \notin x.guest
                 PROVE  \E n \in 1..Len(w.queue) : x.dls[w.queue[n]].started
      BY <1>8, <2>1 DEF DrawOK
    <3>1. PICK n \in 1..Len(x.queue) : x.dls[x.queue[n]].started
      BY <1>0 DEF ListsOK, DrawOK
    <3>2. Holds(w.queue, x.queue[n])
      BY <1>1, <1>4, <3>1 DEF Holds
    <3> QED BY <3>1, <3>2 DEF Holds
  <2>5. Counted(x, v)
    BY <1>1, <1>8, <2>1 DEF Counted
  <2> QED BY <1>8, <2>1, <2>2, <2>3, <2>4, <2>5 DEF ListsOK
<1> HIDE DEF v
<1>11. /\ ListsOK(u) /\ Same(v, u) /\ \A t \in Thread : u.wait[t] # l
       /\ u.dls = v.dls /\ u.queue = v.queue /\ u.pend = v.pend
  BY <1>10, WaitsEnd
<1> HIDE DEF u
<1>12. Unnoticed(u, l, d) /\ InPlace(u, l, d)
  BY <1>3, <1>4, <1>10, <1>11 DEF Unnoticed, InPlace, NoCallback
<1>13. /\ ListsOK(freed) /\ Counted(u, freed) /\ freed.dls[l] = d /\ freed.queue = w.queue
       /\ freed.pend = x.pend /\ freed.guest = x.guest
       /\ \A m \in List : m # l => freed.dls[m] = x.dls[m]
  <2>1. /\ ListsOK(Changed(u, l, d)) /\ Same(u, Changed(u, l, d))
        /\ Changed(u, l, d).queue = u.queue /\ Changed(u, l, d).pend = u.pend
    <3>1. u.dls[l].started => d.started
      BY <1>7, <1>10, <1>11
    <3>2. Quiet(u, l, d)
      BY <1>3, <1>7, <1>10, <1>11 DEF Quiet, NoCallback, ToCome
    <3> QED BY <1>7, <1>11, <1>12, <3>1, <3>2, ListChanges
  <2>2. /\ Changed(u, l, d).dls[l] = d
        /\ \A m \in List : m # l => Changed(u, l, d).dls[m] = u.dls[m]
    <3>1. u \in Engine /\ d \in DisplayList
      BY <1>7, <1>11 DEF ListsOK, QueuesOK, Typed, ListTyped
    <3> QED BY <3>1, ChangedFields
  <2> HIDE DEF freed
  <2>3. Counted(u, freed) /\ freed.guest = u.guest
    BY <1>6, <2>1 DEF Same, Counted
  <2>4. u.guest = x.guest
    BY <1>10, <1>11 DEF Same, Counted
  <2> QED BY <1>6, <1>10, <1>11, <2>1, <2>2, <2>3, <2>4
<1> HIDE DEF freed
<1>14. Same(x, freed)
  <2>1. Counted(x, u)
    BY <1>0, <1>10, <1>11, CountedTwice DEF ListsOK, Same
  <2>2. Counted(x, freed)
    BY <1>0, <1>11, <1>13, <2>1, CountedTwice DEF ListsOK
  <2>3. BusyAt(freed, l)
    BY <1>7, <1>13 DEF BusyAt
  <2>4. ~ToCome(x, l)
    BY <1>3 DEF NoCallback, ToCome
  <2>5. \A m \in List : m # l => (Holds(x.queue, m) => Holds(freed.queue, m))
    BY <1>4, <1>13
  <2>6. Owed(x, freed)
    BY <1>13, <2>3, <2>4, <2>5, OwedByOne
  <2> QED BY <2>2, <2>6 DEF Same
<1>15. CASE freed.queue # <<>>
  <2>1. x' = freed
    BY <1>2, <1>15
  <2>2. IntrOK(freed)
    BY <1>0, <1>13, <1>14, IntrStays
  <2> QED BY <1>13, <2>1, <2>2 DEF GeIInv
<1>16. CASE freed.queue = <<>>
  <2> DEFINE f == [m \in List |-> [freed.dls[m] EXCEPT !.state = "NONE"]]
  <2>1. x' = [freed EXCEPT !.dls = f]
    BY <1>2, <1>16
  <2>2. \A m \in List : freed.dls[m] \in DisplayList
    BY <1>13 DEF ListsOK, QueuesOK, Typed, Engine
  <2>3. f \in [List -> DisplayList]
    BY <2>2, ListFields DEF DlState
  <2>4. StatesOnly(freed, f)
    BY <1>16 DEF StatesOnly, Holds
  <2> HIDE DEF f, z
  <2>5. ListsOK(x') /\ Same(freed, x')
    BY <1>13, <2>1, <2>3, <2>4, StatesChange
  <2>6. Same(x, x')
    BY <1>0, <1>13, <1>14, <2>5, SameTwice DEF ListsOK
  <2>7. IntrOK(x')
    BY <1>0, <2>5, <2>6, IntrStays
  <2> QED BY <2>5, <2>7 DEF GeIInv
<1> QED BY <1>15, <1>16

LEMMA UpdateStallKeeps ==
  ASSUME Orderly, GeIInv, NEW l \in List, NEW stall \in x.dls[l].pos..Len(x.dls[l].prog),
         sceGeListUpdateStallAddr(l, stall)
  PROVE  GeIInv'
<1> DEFINE d == [x.dls[l] EXCEPT !.stall = stall]
           y == Changed(x, l, d)
<1>0. ListsOK(x) /\ IntrOK(x)
  BY DEF GeIInv
<1>1. /\ x \in Engine /\ x.dls[l] \in DisplayList /\ ListTyped(x.dls[l]) /\ x.queue \in Seq(List)
  BY <1>0 DEF ListsOK, QueuesOK, Typed, Engine, ListTyped
<1>2. x.dls[l].pos \in Nat /\ stall \in Nat /\ x.dls[l].pos <= stall /\ stall <= Len(x.dls[l].prog)
  <2>1. x.dls[l].pos \in Nat /\ x.dls[l].prog \in Programs \cup {<<>>}
    BY <1>1 DEF DisplayList
  <2>2. Len(x.dls[l].prog) \in Nat
    <3>1. <<>> \in Seq(Command) /\ Programs \subseteq Seq(Command)
      BY GeAssumption
    <3> QED BY <2>1, <3>1
  <2> QED BY <2>1, <2>2
<1>3. x' = ProcessDLQueue(y)
  BY <1>1 DEF sceGeListUpdateStallAddr, Changed, Engine
<1>4. d \in DisplayList
  BY <1>1, <1>2, ListFields
<1>5. /\ d.stall = stall /\ d.pos = x.dls[l].pos /\ d.state = x.dls[l].state
      /\ d.prog = x.dls[l].prog /\ d.signal = x.dls[l].signal /\ d.started = x.dls[l].started
      /\ d.busy = x.dls[l].busy /\ d.pendingInterrupt = x.dls[l].pendingInterrupt
  BY <1>1 DEF DisplayList
<1> HIDE DEF d
<1>6. ListTyped(d)
  BY <1>1, <1>2, <1>4, <1>5 DEF ListTyped, InBounds, SyncSeen
<1>7. Unnoticed(x, l, d)
  BY <1>0, <1>5 DEF Unnoticed, ListsOK, QueuesOK, PendOK, CallbackOK
<1>8. InPlace(x, l, d)
  <2> SUFFICES ASSUME Holds(x.queue, l) PROVE d.state \in Live /\ (d.state = "QUEUED" \/ Head(x.queue) = l)
    BY DEF InPlace
  <2>1. PICK n \in 1..Len(x.queue) : x.queue[n] = l
    BY DEF Holds
  <2>2. d.state \in Live /\ (n > 1 => d.state = "QUEUED")
    BY <1>0, <1>5, <2>1 DEF ListsOK, QueuesOK, QueueOK, Live
  <2>3. n = 1 => Head(x.queue) = l
    BY <1>1, <2>1
  <2> QED BY <1>1, <2>1, <2>2, <2>3
<1>12. Quiet(x, l, d)
  BY <1>5 DEF Quiet, LeftBy
<1>9. ListsOK(y) /\ Same(x, y)
  BY <1>0, <1>5, <1>6, <1>7, <1>8, <1>12, ListChanges
<1> HIDE DEF y
<1>10. Runnable(y)
  BY <1>9 DEF Runnable, ListsOK
<1>11. ListsOK(ProcessDLQueue(y)) /\ IntrOK(ProcessDLQueue(y))
  BY <1>0, <1>9, <1>10, QueueRuns
<1> QED BY <1>3, <1>11 DEF GeIInv

\* A thread begins to wait.
LEMMA WaitBegins ==
  ASSUME NEW y, ListsOK(y), NEW t \in Thread, NEW what \in List \cup {"draw"},
         what \in List => y.dls[what].busy, what = "draw" => y.draw # "past",
         NEW z, z = [y EXCEPT !.wait[t] = what]
  PROVE  ListsOK(z) /\ Same(y, z)
<1>1. /\ y \in Engine /\ Len(y.pend) \in Nat /\ y.intrEvents \in Nat
      /\ y.wait \in [Thread -> {"none", "draw"} \cup List] /\ y.draw \in {"past", "future", "never"}
  BY DEF ListsOK, QueuesOK, Typed, Engine
<1> DEFINE w == [y.wait EXCEPT ![t] = what]
<1>2. w \in [Thread -> {"none", "draw"} \cup List] /\ \A r \in Thread : w[r] = y.wait[r] \/ w[r] = what
  BY <1>1
<1>3. z = [y EXCEPT !.wait = w]
  BY <1>1 DEF Engine
<1> HIDE DEF w
<1>4. /\ z \in Engine /\ z.dls = y.dls /\ z.queue = y.queue /\ z.pend = y.pend
      /\ z.wait = w /\ z.draw = y.draw /\ z.drawEvent = y.drawEvent /\ z.cur = y.cur
      /\ z.i = y.i /\ z.guest = y.guest /\ z.intrEvents = y.intrEvents
  BY <1>1, <1>2, <1>3 DEF Engine
<1>5. Typed(z) /\ QueueOK(z) /\ PendOK(z) /\ CurOK(z) /\ DrawOK(z)
  BY <1>4, SMTT(20) DEF ListsOK, QueuesOK, Typed, QueueOK, PendOK, CallbackOK, CurOK, DrawOK
<1>6. what = "draw" => y.drawEvent \/ y.draw = "never"
  BY <1>1 DEF ListsOK, QueuesOK, WaitOK
<1>7. "draw" \notin List
  BY GeAssumption
<1>8. WaitOK(z)
  <2>1. ASSUME NEW r \in Thread
        PROVE  /\ w[r] \in List => y.dls[w[r]].busy
               /\ w[r] = "draw" => y.drawEvent \/ y.draw = "never"
    BY <1>2, <1>6 DEF ListsOK, QueuesOK, WaitOK
  <2> QED BY <1>4, <2>1 DEF ListsOK, QueuesOK, WaitOK
<1>9. Same(y, z)
  BY <1>1, <1>4, OwedKept DEF Same, Counted
<1> QED BY <1>5, <1>8, <1>9 DEF ListsOK, QueuesOK

LEMMA ListSyncKeeps ==
  ASSUME GeIInv, NEW t \in Thread, NEW l \in List, sceGeListSync(t, l)
  PROVE  GeIInv'
<1>1. ListsOK(x) /\ IntrOK(x)
  BY DEF GeIInv
<1>2. x.dls[l].busy /\ x' = [x EXCEPT !.wait[t] = l] /\ l # "draw"
  BY GeAssumption DEF sceGeListSync
<1>3. ListsOK(x') /\ Same(x, x')
  BY <1>1, <1>2, WaitBegins
<1> QED BY <1>1, <1>3, IntrStays DEF GeIInv

LEMMA DrawSyncKeeps ==
  ASSUME GeIInv, NEW t \in Thread, sceGeDrawSync(t)
  PROVE  GeIInv'
<1>1. ListsOK(x) /\ IntrOK(x)
  BY DEF GeIInv
<1>2. ListsOK(x') /\ Same(x, x')
  <2>1. CASE x.draw # "past"
    <3>1. x' = [x EXCEPT !.wait[t] = "draw"] /\ "draw" \notin List
      BY <2>1, GeAssumption DEF sceGeDrawSync
    <3> QED BY <1>1, <2>1, <3>1, WaitBegins
  <2>2. CASE x.draw = "past"
    <3>1. x' = [x EXCEPT !.dls = [l \in List |->
                 IF @[l].state = "COMPLETED" THEN [@[l] EXCEPT !.state = "NONE"] ELSE @[l]]]
      BY <2>2 DEF sceGeDrawSync
    <3> QED BY <1>1, <3>1, CompletedForgotten
  <2> QED BY <2>1, <2>2
<1> QED BY <1>1, <1>2, IntrStays DEF GeIInv

LEMMA ContinueKeeps ==
  ASSUME Orderly, GeIInv, sceGeContinue
  PROVE  GeIInv'
<1> DEFINE c == x.cur
           state == IF x.isbreak THEN "QUEUED" ELSE "RUNNING"
           d == [x.dls[c] EXCEPT !.signal = "NONE", !.state = state]
           y == Changed(x, c, d)
           draw == IF x.isbreak THEN x.draw ELSE "never"
           z == [y EXCEPT !.draw = draw]
<1>0. ListsOK(x) /\ IntrOK(x)
  BY DEF GeIInv
<1>1. x.cur # NoList /\ x.dls[x.cur].state = "PAUSED" /\ InTime
  BY DEF sceGeContinue
<1>2. /\ x \in Engine /\ x.queue # <<>> /\ c = Head(x.queue) /\ c \in List
      /\ ListTyped(x.dls[c]) /\ x.dls[c] \in DisplayList /\ Holds(x.queue, c)
  BY <1>0, <1>1, CurrentList
<1>3. NoCallback(x, c)
  BY <1>0, <1>1, NotEarly
<1>4. state \in {"QUEUED", "RUNNING"} /\ draw \in {x.draw, "never"}
  OBVIOUS
<1>5. x' = ProcessDLQueue(z)
  <2> DEFINE again == [x EXCEPT !.dls[x.cur].signal = "NONE"]
             next == IF x.isbreak THEN [again EXCEPT !.dls[x.cur].state = "QUEUED"]
                     ELSE [again EXCEPT !.dls[x.cur].state = "RUNNING", !.draw = "never"]
  <2>1. x' = ProcessDLQueue(next)
    BY DEF sceGeContinue
  <2>2. next = z
    <3>1. CASE x.isbreak
      <4>1. next = [again EXCEPT !.dls[x.cur].state = "QUEUED"] /\ state = "QUEUED" /\ draw = x.draw
        BY <3>1
      <4> HIDE DEF next, state, draw
      <4> QED BY <1>2, <4>1 DEF Changed, Engine, DisplayList
    <3>2. CASE ~x.isbreak
      <4>1. next = [again EXCEPT !.dls[x.cur].state = "RUNNING", !.draw = "never"]
            /\ state = "RUNNING" /\ draw = "never"
        BY <3>2
      <4> HIDE DEF next, state, draw
      <4> QED BY <1>2, <4>1 DEF Changed, Engine, DisplayList
    <3> QED BY <3>1, <3>2
  <2> HIDE DEF next, z
  <2> QED BY <2>1, <2>2
<1> HIDE DEF state, draw
<1>6. /\ d \in DisplayList /\ d.stall = x.dls[c].stall /\ d.pos = x.dls[c].pos /\ d.state = state
      /\ d.prog = x.dls[c].prog /\ d.signal = "NONE" /\ d.started = x.dls[c].started
      /\ d.busy = x.dls[c].busy
  BY <1>2, <1>4 DEF DisplayList, DlState, Signal
<1> HIDE DEF d
<1>7. ListTyped(d)
  BY <1>2, <1>6 DEF ListTyped, InBounds, SyncSeen
<1>8. Unnoticed(x, c, d) /\ InPlace(x, c, d)
  BY <1>2, <1>3, <1>4, <1>6 DEF Unnoticed, InPlace, NoCallback, Live
<1>18. Quiet(x, c, d)
  BY <1>2 DEF Quiet
<1>9. ListsOK(y) /\ Same(x, y) /\ y.dls[c] = d /\ y.queue = x.queue /\ y.draw = x.draw
  <2> HIDE DEF c
  <2> QED BY <1>0, <1>2, <1>6, <1>7, <1>8, <1>18, ListChanges
<1> HIDE DEF y
<1>10. y \in Engine /\ Len(y.pend) \in Nat /\ y.intrEvents \in Nat
  BY <1>9 DEF ListsOK, QueuesOK, Typed, Engine
<1>11. /\ z \in Engine /\ z.dls = y.dls /\ z.queue = y.queue /\ z.pend = y.pend /\ z.wait = y.wait
       /\ z.draw = draw /\ z.drawEvent = y.drawEvent /\ z.cur = y.cur
       /\ z.i = y.i /\ z.guest = y.guest /\ z.intrEvents = y.intrEvents
  BY <1>4, <1>9, <1>10 DEF Engine
<1> HIDE DEF z
<1>12. WaitOK(z)
  BY <1>4, <1>9, <1>11 DEF ListsOK, QueuesOK, WaitOK
<1>13. Typed(z) /\ QueueOK(z) /\ PendOK(z) /\ CurOK(z)
  BY <1>9, <1>11 DEF ListsOK, QueuesOK, Typed, QueueOK, PendOK, CallbackOK, CurOK
<1>14. z.dls[Head(z.queue)].state # "PAUSED"
  BY <1>2, <1>4, <1>6, <1>9, <1>11
<1>15. Runnable(z)
  BY <1>12, <1>13, <1>14 DEF Runnable, QueuesOK
<1>16. Same(x, z)
  <2>1. Same(y, z)
    BY <1>10, <1>11, OwedKept DEF Same, Counted
  <2> QED BY <1>0, <1>9, <1>15, <2>1, SameTwice DEF ListsOK, Runnable
<1>17. ListsOK(ProcessDLQueue(z)) /\ IntrOK(ProcessDLQueue(z))
  BY <1>0, <1>15, <1>16, QueueRuns
<1> QED BY <1>5, <1>17 DEF GeIInv

\* The current list is paused.
LEMMA BreakKeeps ==
  ASSUME GeIInv, sceGeBreak
  PROVE  GeIInv'
<1> DEFINE c == x.cur
           old == x.dls[c]
<1>0. ListsOK(x) /\ IntrOK(x) /\ x.cur # NoList
  BY DEF GeIInv, sceGeBreak
<1>1. /\ x \in Engine /\ x.queue # <<>> /\ c = Head(x.queue) /\ c \in List
      /\ ListTyped(old) /\ old \in DisplayList /\ (old.state # "PAUSED" => NoCallback(x, c))
      /\ Holds(x.queue, c)
  BY <1>0, CurrentList
<1>2. ASSUME NEW d \in DisplayList, ListTyped(d), d.state = "PAUSED", d.busy = old.busy,
             d.started = old.started, old.state # "PAUSED",
             NEW b \in BOOLEAN, x' = [Changed(x, c, d) EXCEPT !.isbreak = b]
      PROVE  GeIInv'
  <2> DEFINE y == Changed(x, c, d)
  <2>1. Unnoticed(x, c, d) /\ InPlace(x, c, d)
    BY <1>1, <1>2 DEF Unnoticed, InPlace, NoCallback, Live
  <2>7. Quiet(x, c, d)
    BY <1>1 DEF Quiet
  <2>2. ListsOK(y) /\ Same(x, y)
    <3> HIDE DEF c
    <3> QED BY <1>0, <1>1, <1>2, <2>1, <2>7, ListChanges
  <2>0. x' = [y EXCEPT !.isbreak = b]
    BY <1>2
  <2> HIDE DEF y
  <2>3. y \in Engine /\ Len(y.pend) \in Nat /\ y.intrEvents \in Nat
    BY <2>2 DEF ListsOK, QueuesOK, Typed, Engine
  <2>4. /\ x' \in Engine /\ x'.dls = y.dls /\ x'.queue = y.queue /\ x'.pend = y.pend
        /\ x'.wait = y.wait /\ x'.draw = y.draw /\ x'.drawEvent = y.drawEvent /\ x'.cur = y.cur
        /\ x'.i = y.i /\ x'.guest = y.guest /\ x'.intrEvents = y.intrEvents
    BY <2>0, <2>3 DEF Engine
  <2>5. ListsOK(x')
    BY <2>2, <2>4, ListsKept
  <2>6. Same(x, x')
    <3>1. Same(y, x')
      BY <2>3, <2>4, OwedKept DEF Same, Counted
    <3> QED BY <1>0, <2>2, <2>5, <3>1, SameTwice DEF ListsOK
  <2> QED BY <1>0, <2>5, <2>6, IntrStays DEF GeIInv
<1>3. CASE old.state = "QUEUED" /\ x' = [x EXCEPT !.dls[x.cur].state = "PAUSED"]
  <2> DEFINE d == [old EXCEPT !.state = "PAUSED"]
  <2>1. /\ d \in DisplayList /\ d.pos = old.pos /\ d.stall = old.stall /\ d.prog = old.prog
        /\ d.signal = old.signal /\ d.started = old.started /\ d.busy = old.busy
        /\ d.state = "PAUSED"
    BY <1>1 DEF DisplayList, DlState
  <2>2. x' = [Changed(x, c, d) EXCEPT !.isbreak = x.isbreak] /\ x.isbreak \in BOOLEAN
    BY <1>1, <1>3 DEF Changed, Engine
  <2> HIDE DEF d
  <2>3. ListTyped(d)
    BY <1>1, <2>1 DEF ListTyped, InBounds, SyncSeen
  <2> QED BY <1>2, <1>3, <2>1, <2>2, <2>3
<1>4. CASE /\ old.state = "RUNNING"
           /\ x' = [x EXCEPT
                !.dls[x.cur].pos = IF old.signal = "SYNC" /\ @ < Len(old.prog) THEN @ + 1 ELSE @,
                !.dls[x.cur].state = "PAUSED", !.dls[x.cur].signal = "SUSPEND",
                !.isbreak = TRUE]
  <2> DEFINE pos == IF old.signal = "SYNC" /\ old.pos < Len(old.prog) THEN old.pos + 1 ELSE old.pos
             d == [old EXCEPT !.pos = pos, !.state = "PAUSED", !.signal = "SUSPEND"]
  <2>1. x' = [Changed(x, c, d) EXCEPT !.isbreak = TRUE]
    <3> DEFINE g == [x.dls EXCEPT ![c].pos = pos, ![c].state = "PAUSED", ![c].signal = "SUSPEND"]
    <3>1. x.dls \in [List -> DisplayList]
      BY <1>1 DEF Engine
    <3>2. x' = [x EXCEPT !.dls[c].pos = pos, !.dls[c].state = "PAUSED",
                         !.dls[c].signal = "SUSPEND", !.isbreak = TRUE]
      BY <1>1, <1>4, <3>1 DEF Engine
    <3>3. g = [x.dls EXCEPT ![c] = d]
      <4> HIDE DEF pos
      <4> QED BY <1>1, <3>1 DEF DisplayList
    <3> HIDE DEF d, pos, old, c
    <3>4. x' = [x EXCEPT !.dls = g, !.isbreak = TRUE]
      BY <1>1, <3>1, <3>2 DEF Engine
    <3> HIDE DEF g
    <3> QED BY <1>1, <3>3, <3>4 DEF Changed, Engine
  <2>2. old.pos \in Nat /\ pos \in Nat /\ old.stall \in Nat /\ Len(old.prog) \in Nat /\ old.pos <= Len(old.prog)
        /\ old.prog \in Programs \cup {<<>>}
    <3>1. <<>> \in Seq(Command) /\ Programs \subseteq Seq(Command)
      BY GeAssumption
    <3>2. old.pos \in Nat /\ old.stall \in Nat /\ old.prog \in Programs \cup {<<>>}
      BY <1>1 DEF DisplayList
    <3>3. Len(old.prog) \in Nat /\ old.pos <= Len(old.prog)
      BY <1>1, <3>1, <3>2, SMTT(20) DEF ListTyped, InBounds
    <3> QED BY <3>2, <3>3
  <2>3. /\ d \in DisplayList /\ d.pos = pos /\ d.stall = old.stall /\ d.prog = old.prog
        /\ d.signal = "SUSPEND" /\ d.started = old.started /\ d.busy = old.busy
        /\ d.state = "PAUSED"
    <3> HIDE DEF old, pos
    <3> QED BY <1>1, <2>2 DEF DisplayList, DlState, Signal
  <2> HIDE DEF d
  <2>4. pos <= Len(old.prog) /\ (pos # old.pos => SyncSeen(old)) /\ old.pos <= pos
    BY <1>1, <2>2 DEF ListTyped
  <2> HIDE DEF pos, old
  <2>5. SyncSeen(old) => SyncSeen(d)
    BY <2>2, <2>3, <2>4 DEF SyncSeen
  <2>6. ListTyped(d)
    BY <1>1, <2>2, <2>3, <2>4, <2>5 DEF ListTyped, InBounds
  <2> QED BY <1>2, <1>4, <2>1, <2>3, <2>6
<1> QED BY <1>3, <1>4 DEF sceGeBreak

\* Everything is forgotten but the callbacks to come, the drawing and the waiters.
LEMMA BreakAllKeeps ==
  ASSUME GeIInv, sceGeBreakAll
  PROVE  GeIInv'
<1> DEFINE f == [l \in List |-> [x.dls[l] EXCEPT !.state = "NONE", !.signal = "NONE"]]
<1>0. ListsOK(x) /\ IntrOK(x)
  BY DEF GeIInv
<1>1. /\ x \in Engine /\ Len(x.pend) \in Nat /\ x.intrEvents \in Nat
      /\ \A l \in List : ListTyped(x.dls[l]) /\ x.dls[l] \in DisplayList
  BY <1>0 DEF ListsOK, QueuesOK, Typed, Engine, ListTyped
<1>2. x' = [x EXCEPT !.queue = <<>>, !.cur = NoList, !.dls = f]
  BY DEF sceGeBreakAll
<1>3. "BreakAll" \in x.guest
  BY DEF sceGeBreakAll, Calls
<1>4. ASSUME NEW l \in List
      PROVE  /\ f[l] \in DisplayList /\ ListTyped(f[l]) /\ f[l].busy = x.dls[l].busy
             /\ f[l].pos = x.dls[l].pos /\ f[l].signal = "NONE" /\ f[l].state = "NONE"
             /\ f[l].started = x.dls[l].started
             /\ f[l].pendingInterrupt = x.dls[l].pendingInterrupt
  <2> DEFINE d == [x.dls[l] EXCEPT !.state = "NONE", !.signal = "NONE"]
  <2>1. /\ d \in DisplayList /\ d.pos = x.dls[l].pos /\ d.stall = x.dls[l].stall
        /\ d.prog = x.dls[l].prog /\ d.signal = "NONE" /\ d.busy = x.dls[l].busy
        /\ d.state = "NONE" /\ d.started = x.dls[l].started
        /\ d.pendingInterrupt = x.dls[l].pendingInterrupt
    BY <1>1 DEF DisplayList, DlState, Signal
  <2>2. f[l] = d
    OBVIOUS
  <2> HIDE DEF d, f
  <2>3. ListTyped(d)
    BY <1>1, <2>1 DEF ListTyped, InBounds, SyncSeen
  <2> QED BY <2>1, <2>2, <2>3
<1>5. f \in [List -> DisplayList]
  BY <1>4
<1> HIDE DEF f
<1>6. /\ x' \in Engine /\ x'.dls = f /\ x'.queue = <<>> /\ x'.pend = x.pend /\ x'.wait = x.wait
      /\ x'.draw = x.draw /\ x'.drawEvent = x.drawEvent /\ x'.cur = NoList
      /\ x'.i = x.i /\ x'.guest = x.guest /\ x'.intrEvents = x.intrEvents
  <2>1. <<>> \in Seq(List) /\ NoList \in List \cup {NoList}
    OBVIOUS
  <2> DEFINE e == <<>>
  <2>2. e \in Seq(List) /\ x' = [x EXCEPT !.queue = e, !.cur = NoList, !.dls = f]
    BY <1>2, <2>1
  <2> HIDE DEF e
  <2>3. /\ x' \in Engine /\ x'.dls = f /\ x'.queue = e /\ x'.pend = x.pend /\ x'.wait = x.wait
        /\ x'.draw = x.draw /\ x'.drawEvent = x.drawEvent /\ x'.cur = NoList
        /\ x'.i = x.i /\ x'.guest = x.guest /\ x'.intrEvents = x.intrEvents
    BY <1>1, <1>5, <2>1, <2>2 DEF Engine
  <2> QED BY <2>3 DEF e
<1>7. Typed(x') /\ QueueOK(x') /\ CurOK(x') /\ DrawOK(x')
  BY <1>3, <1>4, <1>6 DEF Typed, QueueOK, Distinct, CurOK, DrawOK
<1>8. PendOK(x')
  <2>1. x.pend \in Seq(PendingCallback)
    BY <1>1 DEF Engine
  <2>2. ASSUME NEW n \in 1..Len(x.pend) PROVE CallbackOK(x', x.pend[n])
    <3>1. CallbackOK(x, x.pend[n])
      BY <1>0 DEF ListsOK, QueuesOK, PendOK
    <3>2. x.pend[n] \in PendingCallback
      BY <2>1
    <3>3. x.pend[n].list \in List /\ ~Holds(x'.queue, x.pend[n].list)
      BY <1>6, <3>2 DEF PendingCallback, Holds
    <3> QED BY <1>4, <1>6, <3>1, <3>3 DEF CallbackOK
  <2> QED BY <1>0, <1>6, <2>2 DEF ListsOK, QueuesOK, PendOK
<1>9. WaitOK(x')
  BY <1>0, <1>4, <1>6 DEF ListsOK, QueuesOK, WaitOK
<1>10. ListsOK(x')
  BY <1>7, <1>8, <1>9 DEF ListsOK, QueuesOK
<1>12. Owed(x, x')
  <2>1. \A l \in List : BusyAt(x', l) /\ Seen(x', l)
    BY <1>3, <1>4, <1>6 DEF BusyAt, LeftBy, Seen
  <2> QED BY <1>6, <2>1 DEF Owed
<1>11. Same(x, x')
  BY <1>1, <1>6, <1>12 DEF Same, Counted
<1> QED BY <1>0, <1>10, <1>11, IntrStays DEF GeIInv

\* Whether there is a callback matters to nothing else.
LEMMA CallbackCallsKeep ==
  ASSUME GeIInv, sceGeSetCallback \/ sceGeUnsetCallback
  PROVE  GeIInv'
<1>1. PICK b \in BOOLEAN : x' = [x EXCEPT !.callbacks = b]
  BY DEF sceGeSetCallback, sceGeUnsetCallback
<1>2. ListsOK(x) /\ IntrOK(x) /\ x \in Engine /\ Len(x.pend) \in Nat /\ x.intrEvents \in Nat
  BY CurrentList DEF GeIInv
<1>3. /\ x' \in Engine /\ x'.dls = x.dls /\ x'.queue = x.queue /\ x'.pend = x.pend
      /\ x'.wait = x.wait /\ x'.draw = x.draw /\ x'.drawEvent = x.drawEvent /\ x'.cur = x.cur
      /\ x'.i = x.i /\ x'.guest = x.guest /\ x'.intrEvents = x.intrEvents
  BY <1>1, <1>2 DEF Engine
<1>4. ListsOK(x')
  BY <1>2, <1>3, ListsKept
<1>5. Same(x, x')
  BY <1>2, <1>3, OwedKept DEF Same, Counted
<1> QED BY <1>2, <1>4, <1>5, IntrStays DEF GeIInv

-----------------------------------------------------------------------------
(* System calls: interrupts. *)

\* As many callbacks are pending, and the first interrupt stays the first while it runs.
IntrKept(i, j) ==
  /\ j.inside = i.inside /\ j.ran = i.ran
  /\ Len(Without(j.pending, SubIntr)) = Len(Without(i.pending, SubIntr))
  /\ i.inside => j.pending # <<>> /\ Head(j.pending) = Head(i.pending)

LEMMA IntrChanges ==
  ASSUME NEW y, ListsOK(y), IntrOK(y), NEW j \in InterruptState, IntrKept(y.i, j),
         NEW z, z = [y EXCEPT !.i = j]
  PROVE  ListsOK(z) /\ IntrOK(z)
<1>1. /\ ListsOK(z) /\ z.i = j /\ z.pend = y.pend /\ z.intrEvents = y.intrEvents
      /\ z.dls = y.dls /\ z.queue = y.queue /\ Owed(y, z)
  BY Interrupted
<1>2. BusyOK(z)
  BY <1>1 DEF IntrOK, BusyOK, Owed
<1>3. HandlerOK(z)
  BY <1>1 DEF IntrOK, IntrKept, HandlerOK, Seen
<1>4. IntrOK(z)
  BY <1>1, <1>2, <1>3 DEF IntrOK, IntrKept, Events
<1> QED BY <1>1, <1>4

LEMMA InterruptsTyped ==
  ASSUME GeIInv
  PROVE  /\ ListsOK(x) /\ IntrOK(x) /\ x \in Engine /\ x.i \in InterruptState
         /\ x.i.pending \in Seq(SubIntr \cup OtherIntr)
         /\ x.i.handler \in [SubIntr -> SubIntrHandler]
         /\ x.i.inside \in BOOLEAN /\ x.i.enabled \in BOOLEAN
         /\ x.i.inside => x.i.pending # <<>> /\ Head(x.i.pending) = x.i.ran
         /\ x.guest \in Guests
<1>1. ListsOK(x) /\ IntrOK(x) /\ x \in Engine
  BY DEF GeIInv, ListsOK, QueuesOK, Typed
<1>2. x.i \in InterruptState /\ x.guest \in Guests
  BY <1>1 DEF Engine
<1> QED BY <1>1, <1>2 DEF InterruptState, IntrOK

LEMMA CpuIntrKeeps ==
  ASSUME Orderly, GeIInv, sceKernelCpuSuspendIntr \/ sceKernelCpuResumeIntr
  PROVE  GeIInv'
<1>1. /\ ListsOK(x) /\ IntrOK(x) /\ x \in Engine /\ x.i \in InterruptState
      /\ x.i.inside => x.i.pending # <<>>
  BY InterruptsTyped
<1>2. ASSUME NEW b \in BOOLEAN, NEW z, z = [x EXCEPT !.i.enabled = b]
      PROVE  ListsOK(z) /\ IntrOK(z)
  <2> DEFINE j == [x.i EXCEPT !.enabled = b]
  <2>1. j \in InterruptState /\ j.inside = x.i.inside /\ j.ran = x.i.ran /\ j.pending = x.i.pending
    BY <1>1 DEF InterruptState
  <2>2. z = [x EXCEPT !.i = j]
    BY <1>1, <1>2 DEF Engine
  <2> HIDE DEF j
  <2>3. IntrKept(x.i, j)
    BY <1>1, <2>1 DEF IntrKept
  <2> QED BY <1>1, <2>1, <2>2, <2>3, IntrChanges
<1>3. CASE sceKernelCpuSuspendIntr
  <2>1. x' = [x EXCEPT !.i.enabled = FALSE]
    BY <1>3 DEF sceKernelCpuSuspendIntr
  <2> QED BY <1>2, <2>1 DEF GeIInv
<1>4. CASE sceKernelCpuResumeIntr
  <2> DEFINE z == [x EXCEPT !.i.enabled = TRUE]
  <2>1. x' = RunPending(z)
    BY <1>4 DEF sceKernelCpuResumeIntr
  <2>2. ListsOK(z) /\ IntrOK(z)
    BY <1>2
  <2> HIDE DEF z
  <2>3. ListsOK(RunPending(z)) /\ IntrOK(RunPending(z))
    BY <2>2, PendingRun
  <2> QED BY <2>1, <2>3 DEF GeIInv
<1> QED BY <1>3, <1>4

LEMMA HandlerCallsKeep ==
  ASSUME Orderly, GeIInv, NEW s \in SubIntr,
         \/ sceKernelRegisterSubIntrHandler(s) \/ sceKernelReleaseSubIntrHandler(s)
         \/ sceKernelEnableSubIntr(s) \/ sceKernelDisableSubIntr(s)
  PROVE  GeIInv'
<1>1. /\ ListsOK(x) /\ IntrOK(x) /\ x \in Engine /\ x.i \in InterruptState
      /\ x.i.pending \in Seq(SubIntr \cup OtherIntr)
      /\ x.i.handler \in [SubIntr -> SubIntrHandler]
      /\ x.i.inside => x.i.pending # <<>> /\ Head(x.i.pending) = x.i.ran
      /\ x.guest \in Guests
  BY InterruptsTyped
<1>2. x.i.handler[s] \in SubIntrHandler
  BY <1>1
<1>3. ASSUME NEW h \in SubIntrHandler, x' = [x EXCEPT !.i = [@ EXCEPT !.handler[s] = h]]
      PROVE  GeIInv'
  <2> DEFINE g == [x.i.handler EXCEPT ![s] = h]
             j == [x.i EXCEPT !.handler = g]
  <2>1. g \in [SubIntr -> SubIntrHandler]
    BY <1>1, <1>3
  <2>2. x' = [x EXCEPT !.i = j]
    BY <1>1, <1>3 DEF Engine, InterruptState
  <2> HIDE DEF g
  <2>3. j \in InterruptState /\ j.inside = x.i.inside /\ j.ran = x.i.ran /\ j.pending = x.i.pending
    BY <1>1, <2>1 DEF InterruptState
  <2> HIDE DEF j
  <2>4. IntrKept(x.i, j)
    BY <1>1, <2>3 DEF IntrKept
  <2> QED BY <1>1, <2>2, <2>3, <2>4, IntrChanges DEF GeIInv
<1>4. CASE sceKernelRegisterSubIntrHandler(s)
  <2> DEFINE h == [x.i.handler[s] EXCEPT !.has = TRUE, !.address = TRUE]
  <2>1. h \in SubIntrHandler
    BY <1>2 DEF SubIntrHandler
  <2>2. x' = [x EXCEPT !.i = [@ EXCEPT !.handler[s] = h]]
    BY <1>4 DEF sceKernelRegisterSubIntrHandler, RegisterSubIntrHandler
  <2> HIDE DEF h
  <2> QED BY <1>3, <2>1, <2>2
<1>5. CASE sceKernelEnableSubIntr(s)
  <2> DEFINE h == [x.i.handler[s] EXCEPT !.has = TRUE, !.enabled = TRUE]
  <2>1. h \in SubIntrHandler
    BY <1>2 DEF SubIntrHandler
  <2>2. x' = [x EXCEPT !.i = [@ EXCEPT !.handler[s] = h]]
    BY <1>5 DEF sceKernelEnableSubIntr, EnableSubIntr
  <2> HIDE DEF h
  <2> QED BY <1>3, <2>1, <2>2
<1>6. CASE sceKernelDisableSubIntr(s)
  <2> DEFINE h == [x.i.handler[s] EXCEPT !.enabled = FALSE]
  <2>1. h \in SubIntrHandler
    BY <1>2 DEF SubIntrHandler
  <2>2. x' = [x EXCEPT !.i = [@ EXCEPT !.handler[s].enabled = FALSE]]
    BY <1>6 DEF sceKernelDisableSubIntr, DisableSubIntr
  <2>3. x' = [x EXCEPT !.i = [@ EXCEPT !.handler[s] = h]]
    BY <1>1, <1>2, <2>2 DEF InterruptState, SubIntrHandler
  <2> HIDE DEF h
  <2> QED BY <1>3, <2>1, <2>3
<1>7. CASE sceKernelReleaseSubIntrHandler(s)
  <2> DEFINE g == [x.i.handler EXCEPT ![s] = NoHandler]
             p == Without(x.i.pending, {s})
             j == [x.i EXCEPT !.handler = g, !.pending = p]
  <2>1. x' = [x EXCEPT !.i = j]
    BY <1>1, <1>7 DEF sceKernelReleaseSubIntrHandler, ReleaseSubIntrHandler, InterruptState
  <2>2. g \in [SubIntr -> SubIntrHandler]
    <3>1. NoHandler \in SubIntrHandler
      BY DEF NoHandler, SubIntrHandler
    <3> QED BY <1>1, <3>1
  <2>3. p \in Seq(SubIntr \cup OtherIntr)
    BY <1>1, WithoutTakes
  <2>4. Len(Without(p, SubIntr)) = Len(Without(x.i.pending, SubIntr))
    BY <1>1, WithoutTwice
  <2>5. ASSUME x.i.inside PROVE p # <<>> /\ Head(p) = Head(x.i.pending)
    <3>1. ~Calls("ReleaseRunning")
      BY <1>1 DEF Orderly, Calls
    <3>2. Head(x.i.pending) \notin {s} /\ x.i.pending # <<>>
      BY <1>1, <1>7, <2>5, <3>1 DEF sceKernelReleaseSubIntrHandler
    <3> QED BY <1>1, <3>2, WithoutKeepsFirst
  <2> HIDE DEF g, p
  <2>6. j \in InterruptState /\ j.inside = x.i.inside /\ j.ran = x.i.ran /\ j.pending = p
    BY <1>1, <2>2, <2>3 DEF InterruptState
  <2> HIDE DEF j
  <2>7. IntrKept(x.i, j)
    BY <2>4, <2>5, <2>6 DEF IntrKept
  <2> QED BY <1>1, <2>1, <2>6, <2>7, IntrChanges DEF GeIInv
<1> QED BY <1>4, <1>5, <1>6, <1>7

-----------------------------------------------------------------------------
(* Events, the return of a handler, and time. *)

LEMMA ExecuteInterruptKeeps ==
  ASSUME Orderly, GeIInv, GeExecuteInterrupt
  PROVE  GeIInv'
<1> DEFINE p == Append(x.i.pending, "GE")
           j == [x.i EXCEPT !.pending = p]
           n == x.intrEvents - 1
           z == [x EXCEPT !.intrEvents = @ - 1, !.i.pending = Append(@, "GE")]
<1>1. /\ ListsOK(x) /\ IntrOK(x) /\ x \in Engine /\ x.i \in InterruptState
      /\ x.i.pending \in Seq(SubIntr \cup OtherIntr)
      /\ x.i.inside => x.i.pending # <<>> /\ Head(x.i.pending) = x.i.ran
  BY InterruptsTyped
<1>2. x' = RunPending(z)
  BY DEF GeExecuteInterrupt
<1>3. x.intrEvents \in Nat /\ x.intrEvents > 0 /\ Len(x.pend) \in Nat /\ n \in Nat
  <2>1. x.intrEvents \in Nat /\ Len(x.pend) \in Nat
    BY <1>1 DEF Engine
  <2> QED BY <2>1 DEF GeExecuteInterrupt
<1>4. "GE" \in SubIntr \cup OtherIntr /\ "GE" \notin SubIntr
  BY GeAssumption, IntrAssumption
<1>5. /\ p \in Seq(SubIntr \cup OtherIntr) /\ p # <<>>
      /\ x.i.pending # <<>> => Head(p) = Head(x.i.pending)
  <2> DEFINE s == x.i.pending
             S == SubIntr \cup OtherIntr
  <2>1. s \in Seq(S) /\ "GE" \in S
    BY <1>1, <1>4
  <2> HIDE DEF s, S
  <2>2. \A e \in S : /\ Append(s, e) \in Seq(S) /\ Append(s, e) # <<>>
                     /\ s # <<>> => Head(Append(s, e)) = Head(s)
    BY <2>1
  <2> QED BY <2>1, <2>2 DEF s, S
<1>6. Len(Without(p, SubIntr)) = Len(Without(x.i.pending, SubIntr)) + 1
      /\ Len(Without(x.i.pending, SubIntr)) \in Nat
  <2>1. Without(p, SubIntr) = Append(Without(x.i.pending, SubIntr), "GE")
    BY <1>1, <1>4, WithoutAppend
  <2>2. Without(x.i.pending, SubIntr) \in Seq(SubIntr \cup OtherIntr)
    BY <1>1, WithoutTakes
  <2> QED BY <1>4, <2>1, <2>2
<1>7. z = [x EXCEPT !.intrEvents = n, !.i = j]
  BY <1>1 DEF Engine
<1> HIDE DEF p, n
<1>8. j \in InterruptState /\ j.inside = x.i.inside /\ j.ran = x.i.ran /\ j.pending = p
  BY <1>1, <1>5 DEF InterruptState
<1> HIDE DEF j, z
<1>9. /\ z \in Engine /\ z.dls = x.dls /\ z.queue = x.queue /\ z.pend = x.pend /\ z.wait = x.wait
      /\ z.draw = x.draw /\ z.drawEvent = x.drawEvent /\ z.cur = x.cur
      /\ z.i = j /\ z.intrEvents = n /\ z.guest = x.guest
  BY <1>1, <1>3, <1>7, <1>8 DEF Engine
<1>10. ListsOK(z)
  BY <1>1, <1>9, ListsKept
<1>11. Len(z.pend) = z.intrEvents + Events(z)
  <2>1. Events(z) = Events(x) + 1 /\ Events(x) \in Nat
    BY <1>6, <1>8, <1>9 DEF Events
  <2>2. Len(x.pend) = x.intrEvents + Events(x)
    BY <1>1 DEF IntrOK
  <2>3. Len(x.pend) = (x.intrEvents - 1) + (Events(x) + 1)
    BY <1>3, <2>1, <2>2
  <2> QED BY <1>9, <2>1, <2>3 DEF n
<1>14. BusyOK(z)
  <2>1. Owed(x, z)
    BY <1>9, OwedKept
  <2> QED BY <1>1, <2>1 DEF IntrOK, BusyOK, Owed
<1>15. HandlerOK(z)
  BY <1>1, <1>8, <1>9 DEF IntrOK, HandlerOK, Seen
<1>12. IntrOK(z)
  BY <1>1, <1>5, <1>8, <1>9, <1>11, <1>14, <1>15 DEF IntrOK
<1>13. ListsOK(RunPending(z)) /\ IntrOK(RunPending(z))
  BY <1>10, <1>12, PendingRun
<1> QED BY <1>2, <1>13 DEF GeIInv

LEMMA VblankKeeps ==
  ASSUME Orderly, GeIInv, Vblank
  PROVE  GeIInv'
<1> DEFINE more == Without(SubOrder, {s \in SubIntr : ~(x.i.handler[s].enabled /\ x.i.handler[s].address)})
           p == x.i.pending \o more
           j == [x.i EXCEPT !.pending = p]
           z == [x EXCEPT !.i = QueueUpAll(@, SubOrder)]
<1>1. /\ ListsOK(x) /\ IntrOK(x) /\ x \in Engine /\ x.i \in InterruptState
      /\ x.i.pending \in Seq(SubIntr \cup OtherIntr)
      /\ x.i.inside => x.i.pending # <<>> /\ Head(x.i.pending) = x.i.ran
  BY InterruptsTyped
<1>2. x' = RunPending(z)
  BY DEF Vblank
<1>3. z = [x EXCEPT !.i = j]
  BY DEF QueueUpAll
<1>4. more \in Seq(SubIntr)
  BY WithoutTakes, GeAssumption
<1> HIDE DEF more
<1>5. p \in Seq(SubIntr \cup OtherIntr) /\ Without(p, SubIntr) = Without(x.i.pending, SubIntr)
  BY <1>1, <1>4, WithoutMore
<1>6. x.i.pending # <<>> => p # <<>> /\ Head(p) = Head(x.i.pending)
  <2>1. more \in Seq(SubIntr \cup OtherIntr)
    BY <1>4
  <2> SUFFICES ASSUME x.i.pending # <<>> PROVE p # <<>> /\ Head(p) = Head(x.i.pending)
    OBVIOUS
  <2>2. Len(p) = Len(x.i.pending) + Len(more) /\ Len(more) \in Nat /\ Len(x.i.pending) \in Nat
        /\ 1 \in 1..Len(x.i.pending) /\ p[1] = x.i.pending[1]
    BY <1>1, <2>1
  <2>3. p # <<>>
    BY <2>2
  <2> QED BY <1>1, <1>5, <2>2, <2>3
<1> HIDE DEF p
<1>7. j \in InterruptState /\ j.inside = x.i.inside /\ j.ran = x.i.ran /\ j.pending = p
  BY <1>1, <1>5 DEF InterruptState
<1> HIDE DEF j, z
<1>8. IntrKept(x.i, j)
  BY <1>1, <1>5, <1>6, <1>7 DEF IntrKept
<1>9. ListsOK(z) /\ IntrOK(z)
  BY <1>1, <1>3, <1>7, <1>8, IntrChanges
<1>10. ListsOK(RunPending(z)) /\ IntrOK(RunPending(z))
  BY <1>9, PendingRun
<1> QED BY <1>2, <1>10 DEF GeIInv

\* The threads that wait for drawing go on, and lists that are complete are forgotten.
LEMMA ExecuteSyncKeeps ==
  ASSUME GeIInv, GeExecuteSync
  PROVE  GeIInv'
<1> DEFINE when == IF x.draw = "future" THEN "past" ELSE x.draw
           y == [x EXCEPT !.drawEvent = FALSE, !.draw = when]
           w == [t \in Thread |-> IF x.wait[t] = "draw" THEN "none" ELSE x.wait[t]]
           gone == GeTriggerWait(y, "draw")
<1>1. /\ ListsOK(x) /\ IntrOK(x) /\ x \in Engine /\ Len(x.pend) \in Nat /\ x.intrEvents \in Nat
      /\ x.wait \in [Thread -> {"none", "draw"} \cup List] /\ x.draw \in {"past", "future", "never"}
  BY DEF GeIInv, ListsOK, QueuesOK, Typed, Engine
<1>2. \/ x' = gone
      \/ x' = [gone EXCEPT !.dls = [l \in List |->
                 IF @[l].state = "COMPLETED" THEN [@[l] EXCEPT !.state = "NONE"] ELSE @[l]]]
  BY DEF GeExecuteSync
<1>3. when \in {"past", "never"} /\ (when = "never" => x.draw = "never")
  BY <1>1
<1>4. w \in [Thread -> {"none", "draw"} \cup List] /\ \A t \in Thread : w[t] # "draw" /\ (w[t] \in List => w[t] = x.wait[t])
  BY <1>1, GeAssumption
<1>5. gone = [x EXCEPT !.drawEvent = FALSE, !.draw = when, !.wait = w]
  <2> HIDE DEF when
  <2>1. y.wait = x.wait
    BY <1>1 DEF Engine
  <2>2. gone = [y EXCEPT !.wait = [t \in Thread |-> IF y.wait[t] = "draw" THEN "none" ELSE y.wait[t]]]
    BY DEF GeTriggerWait
  <2>3. gone = [y EXCEPT !.wait = w]
    BY <2>1, <2>2
  <2> HIDE DEF gone, w
  <2> QED BY <1>1, <2>3 DEF Engine
<1> HIDE DEF gone, when, w
<1>6. /\ gone \in Engine /\ gone.dls = x.dls /\ gone.queue = x.queue /\ gone.pend = x.pend
      /\ gone.wait = w /\ gone.draw = when /\ gone.drawEvent = FALSE /\ gone.cur = x.cur
      /\ gone.i = x.i /\ gone.guest = x.guest /\ gone.intrEvents = x.intrEvents
  BY <1>1, <1>3, <1>4, <1>5 DEF Engine
<1>7. Typed(gone) /\ QueueOK(gone) /\ PendOK(gone) /\ CurOK(gone) /\ DrawOK(gone)
  BY <1>1, <1>3, <1>6 DEF ListsOK, QueuesOK, Typed, QueueOK, PendOK, CallbackOK, CurOK, DrawOK
<1>8. WaitOK(gone)
  BY <1>1, <1>3, <1>4, <1>6 DEF ListsOK, QueuesOK, WaitOK
<1>9. ListsOK(gone)
  BY <1>7, <1>8 DEF ListsOK, QueuesOK
<1>10. Same(x, gone)
  BY <1>1, <1>6, OwedKept DEF Same, Counted
<1>11. CASE x' = gone
  BY <1>1, <1>9, <1>10, <1>11, IntrStays DEF GeIInv
<1>12. CASE x' # gone
  <2>1. ListsOK(x') /\ Same(gone, x')
    BY <1>2, <1>9, <1>12, CompletedForgotten
  <2>2. Same(x, x')
    BY <1>1, <1>9, <1>10, <2>1, SameTwice DEF ListsOK
  <2> QED BY <1>1, <2>1, <2>2, IntrStays DEF GeIInv
<1> QED BY <1>11, <1>12

LEMMA DrawTicksKeeps ==
  ASSUME GeIInv, DrawTicksPass
  PROVE  GeIInv'
<1>1. /\ ListsOK(x) /\ IntrOK(x) /\ x \in Engine /\ Len(x.pend) \in Nat /\ x.intrEvents \in Nat
  BY DEF GeIInv, ListsOK, QueuesOK, Typed, Engine
<1>2. x.draw = "future" /\ x' = [x EXCEPT !.draw = "past"]
  BY DEF DrawTicksPass
<1>3. /\ x' \in Engine /\ x'.dls = x.dls /\ x'.queue = x.queue /\ x'.pend = x.pend
      /\ x'.wait = x.wait /\ x'.draw = "past" /\ x'.drawEvent = x.drawEvent /\ x'.cur = x.cur
      /\ x'.i = x.i /\ x'.guest = x.guest /\ x'.intrEvents = x.intrEvents
  BY <1>1, <1>2 DEF Engine
<1>4. Typed(x') /\ QueueOK(x') /\ PendOK(x') /\ CurOK(x') /\ DrawOK(x') /\ WaitOK(x')
  <2>1. Typed(x') /\ QueueOK(x') /\ PendOK(x') /\ CurOK(x') /\ DrawOK(x')
    BY <1>1, <1>3 DEF ListsOK, QueuesOK, Typed, QueueOK, PendOK, CallbackOK, CurOK, DrawOK
  <2>2. WaitOK(x')
    BY <1>1, <1>2, <1>3 DEF ListsOK, QueuesOK, WaitOK
  <2> QED BY <2>1, <2>2
<1>5. ListsOK(x') /\ Same(x, x')
  BY <1>1, <1>3, <1>4, OwedKept DEF ListsOK, QueuesOK, Same, Counted
<1> QED BY <1>1, <1>5, IntrStays DEF GeIInv

LEMMA ReturnKeeps ==
  ASSUME Orderly, GeIInv, ReturnFromInterrupt
  PROVE  GeIInv'
<1> DEFINE p == Head(x.i.pending)
           y == [x EXCEPT !.i.pending = Tail(@)]
           done == IF p = "GE" THEN GeIntrEnd(y) ELSE y
           z == [done EXCEPT !.i.inside = FALSE, !.i.ran = "nothing"]
<1>1. /\ ListsOK(x) /\ IntrOK(x) /\ x \in Engine /\ x.i \in InterruptState
      /\ x.i.pending \in Seq(SubIntr \cup OtherIntr)
  BY InterruptsTyped
<1>2. x.i.pending # <<>> /\ x.i.inside /\ x.i.ran = p
  BY InterruptsTyped DEF ReturnFromInterrupt
<1>3. x' = RunPending(z)
  BY DEF ReturnFromInterrupt, KernelReturnFromInterrupt, HandleResult, RunPending
<1> DEFINE left == Tail(x.i.pending)
           j == [x.i EXCEPT !.pending = left]
           m == Len(Without(left, SubIntr))
<1>4. /\ left \in Seq(SubIntr \cup OtherIntr) /\ Len(x.pend) \in Nat /\ x.intrEvents \in Nat
      /\ m \in Nat /\ Events(x) = m + (IF p = "GE" THEN 1 ELSE 0)
  BY <1>1, <1>2, Pending
<1>5. Len(x.pend) = x.intrEvents + Events(x)
  BY <1>1 DEF IntrOK
<1>6. j \in InterruptState /\ j.pending = left
  BY <1>1, <1>4 DEF InterruptState
<1>7. y = [x EXCEPT !.i = j]
  BY <1>1 DEF Engine
<1> HIDE DEF y, j, m
<1>8. /\ ListsOK(y) /\ y.i = j /\ y.pend = x.pend /\ y.intrEvents = x.intrEvents
      /\ y.dls = x.dls /\ y.queue = x.queue /\ Owed(x, y)
  BY <1>1, <1>6, <1>7, Interrupted
<1>15. BusyOK(y)
  BY <1>1, <1>8 DEF IntrOK, BusyOK, Owed
<1>9. ListsOK(done) /\ done.i = j /\ Len(done.pend) = done.intrEvents + m /\ BusyOK(done)
  <2>1. CASE p = "GE"
    <3>1. Len(y.pend) = y.intrEvents + (m + 1)
      BY <1>4, <1>5, <1>8, <2>1
    <3>2. y.pend # <<>> /\ Seen(y, Head(y.pend).list)
      BY <1>1, <1>2, <1>8, <2>1 DEF IntrOK, HandlerOK, Seen
    <3>3. ListsOK(GeIntrEnd(y)) /\ OneLess(y, GeIntrEnd(y))
      BY <1>8, <3>2, GeIntrEnds
    <3>4. done = GeIntrEnd(y)
      BY <2>1
    <3> HIDE DEF done
    <3>5. done.i = y.i /\ Len(done.pend) + y.intrEvents + 1 = Len(y.pend) + done.intrEvents
      BY <3>3, <3>4 DEF OneLess, Less
    <3>6. Len(done.pend) \in Nat /\ done.intrEvents \in Nat
      BY <3>3, <3>4 DEF ListsOK, QueuesOK, Typed, Engine
    <3>7. Len(done.pend) = done.intrEvents + m
      <4> DEFINE a == Len(y.pend)
                 b == Len(done.pend)
                 d == y.intrEvents
                 e == done.intrEvents
      <4>1. a \in Nat /\ b \in Nat /\ d \in Nat /\ e \in Nat /\ a = d + (m + 1) /\ b + d + 1 = a + e
        BY <1>4, <1>8, <3>1, <3>5, <3>6
      <4> HIDE DEF a, b, d, e
      <4>2. b = e + m
        BY <1>4, <4>1
      <4> QED BY <4>2 DEF b, e
    <3>8. BusyOK(done)
      BY <1>15, <3>3, <3>4 DEF OneLess, BusyOK
    <3> QED BY <1>8, <3>3, <3>4, <3>5, <3>7, <3>8
  <2>2. CASE p # "GE"
    <3>1. done = y
      BY <2>2
    <3> HIDE DEF done
    <3>2. Len(y.pend) = y.intrEvents + (m + 0)
      BY <1>4, <1>5, <1>8, <2>2
    <3> QED BY <1>4, <1>8, <1>15, <3>1, <3>2
  <2> QED BY <2>1, <2>2
<1> HIDE DEF done
<1> DEFINE k == [j EXCEPT !.inside = FALSE, !.ran = "nothing"]
<1>10. k \in InterruptState /\ k.inside = FALSE /\ k.pending = left
  BY <1>6 DEF InterruptState
<1>11. z = [done EXCEPT !.i = k]
  <2>1. done \in Engine
    BY <1>9 DEF ListsOK, QueuesOK, Typed
  <2> QED BY <1>6, <1>9, <2>1 DEF Engine, InterruptState
<1> HIDE DEF z, k
<1>12. ListsOK(z) /\ z.i = k /\ z.pend = done.pend /\ z.intrEvents = done.intrEvents
       /\ Owed(done, z)
  BY <1>9, <1>10, <1>11, Interrupted
<1>13. IntrOK(z)
  <2>1. BusyOK(z)
    BY <1>9, <1>12 DEF BusyOK, Owed
  <2>2. HandlerOK(z)
    BY <1>10, <1>12 DEF HandlerOK
  <2> QED BY <1>9, <1>10, <1>12, <2>1, <2>2 DEF IntrOK, Events, m
<1>14. ListsOK(RunPending(z)) /\ IntrOK(RunPending(z))
  BY <1>12, <1>13, PendingRun
<1> QED BY <1>3, <1>14 DEF GeIInv

-----------------------------------------------------------------------------
(* The theorems. *)

LEMMA GeInitially ==
  ASSUME GeInit
  PROVE  GeIInv
<1>1. PICK g \in Guests :
        x = [guest |-> g, i |-> InterruptsInit, dls |-> [l \in List |-> UnusedList], queue |-> <<>>,
             cur |-> NoList, isbreak |-> FALSE, draw |-> "past", pend |-> <<>>,
             intrEvents |-> 0, drawEvent |-> FALSE, callbacks |-> FALSE,
             wait |-> [t \in Thread |-> "none"]]
  BY DEF GeInit
<1>2. UnusedList \in DisplayList /\ ListTyped(UnusedList)
  <2>1. UnusedList \in DisplayList
    BY DEF UnusedList, DisplayList, Signal, DlState
  <2>2. UnusedList.pos = 0 /\ UnusedList.stall = 0 /\ UnusedList.prog = <<>> /\ UnusedList.signal = "NONE"
    BY DEF UnusedList
  <2>3. InBounds(UnusedList)
    BY <2>2 DEF InBounds
  <2> QED BY <2>1, <2>2, <2>3 DEF ListTyped
<1>10. ~UnusedList.busy
  BY DEF UnusedList
<1>3. InterruptsInit \in InterruptState /\ InterruptsInit.pending = <<>> /\ ~InterruptsInit.inside
  <2>1. NoHandler \in SubIntrHandler
    BY DEF NoHandler, SubIntrHandler
  <2>2. [s \in SubIntr |-> NoHandler] \in [SubIntr -> SubIntrHandler]
    BY <2>1
  <2>3. <<>> \in Seq(SubIntr \cup OtherIntr)
    OBVIOUS
  <2> QED BY <2>2, <2>3 DEF InterruptsInit, InterruptState
<1> HIDE DEF UnusedList, InterruptsInit
<1>4. /\ x.i = InterruptsInit /\ x.dls = [l \in List |-> UnusedList] /\ x.queue = <<>> /\ x.cur = NoList
      /\ x.draw = "past" /\ x.pend = <<>> /\ x.intrEvents = 0
      /\ x.wait = [t \in Thread |-> "none"]
  BY <1>1
<1>5. x \in Engine
  <2>1. /\ <<>> \in Seq(List) /\ <<>> \in Seq(PendingCallback)
        /\ [l \in List |-> UnusedList] \in [List -> DisplayList]
        /\ [t \in Thread |-> "none"] \in [Thread -> {"none", "draw"} \cup List]
    BY <1>2
  <2> QED BY <1>1, <1>3, <2>1 DEF Engine
<1>6. Typed(x)
  BY <1>2, <1>4, <1>5 DEF Typed
<1>7. QueueOK(x) /\ CurOK(x) /\ DrawOK(x) /\ PendOK(x)
  BY <1>4 DEF QueueOK, Distinct, CurOK, DrawOK, PendOK
<1>8. WaitOK(x)
  BY <1>4, GeAssumption DEF WaitOK
<1>9. IntrOK(x)
  <2>1. Without(x.i.pending, SubIntr) = <<>>
    BY <1>3, <1>4, WithoutNothing
  <2>2. Events(x) = 0 /\ Len(x.pend) = 0
    BY <1>4, <2>1 DEF Events
  <2>3. BusyOK(x) /\ HandlerOK(x)
    BY <1>3, <1>4, <1>10 DEF BusyOK, BusyAt, HandlerOK
  <2> QED BY <1>3, <1>4, <2>2, <2>3 DEF IntrOK
<1> QED BY <1>6, <1>7, <1>8, <1>9 DEF GeIInv, ListsOK, QueuesOK

LEMMA GeCallKeeps ==
  ASSUME Orderly, GeIInv, GeCall
  PROVE  GeIInv'
<1>1. ASSUME NEW l \in List, NEW prog \in Programs, NEW stall \in 0..Len(prog),
             NEW callback \in BOOLEAN,
             \/ sceGeListEnQueue(l, prog, stall, callback)
             \/ sceGeListEnQueueHead(l, prog, stall, callback)
             \/ sceGeListEnQueueHeadRefused(l, prog, stall, callback)
      PROVE  GeIInv'
  BY <1>1, EnQueueKeeps, EnQueueHeadKeeps, EnQueueHeadRefusedKeeps
<1>2. ASSUME NEW l \in List, sceGeListDeQueue(l) PROVE GeIInv'
  BY <1>2, DeQueueKeeps
<1>3. ASSUME NEW l \in List, NEW stall \in x.dls[l].pos..Len(x.dls[l].prog),
             sceGeListUpdateStallAddr(l, stall)
      PROVE  GeIInv'
  BY <1>3, UpdateStallKeeps
<1>4. ASSUME NEW l \in List, NEW t \in Thread, sceGeListSync(t, l) PROVE GeIInv'
  BY <1>4, ListSyncKeeps
<1>5. ASSUME NEW t \in Thread, sceGeDrawSync(t) PROVE GeIInv'
  BY <1>5, DrawSyncKeeps
<1>6. CASE sceGeContinue
  BY <1>6, ContinueKeeps
<1>7. CASE sceGeBreak
  BY <1>7, BreakKeeps
<1>8. CASE sceGeBreakAll
  BY <1>8, BreakAllKeeps
<1>9. CASE sceGeSetCallback \/ sceGeUnsetCallback
  BY <1>9, CallbackCallsKeep
<1> QED BY <1>1, <1>2, <1>3, <1>4, <1>5, <1>6, <1>7, <1>8, <1>9 DEF GeCall

LEMMA GeStepKeeps ==
  ASSUME Orderly, GeIInv, [GeNext]_x
  PROVE  GeIInv'
<1>1. CASE GeCall
  BY <1>1, GeCallKeeps
<1>2. CASE IntrCall
  BY <1>2, CpuIntrKeeps, HandlerCallsKeep DEF IntrCall
<1>3. CASE GeEvent
  BY <1>3, ExecuteInterruptKeeps, ExecuteSyncKeeps, DrawTicksKeeps, VblankKeeps DEF GeEvent
<1>4. CASE ReturnFromInterrupt
  BY <1>4, ReturnKeeps
<1>5. CASE UNCHANGED x
  BY <1>5 DEF GeIInv
<1> QED BY <1>1, <1>2, <1>3, <1>4, <1>5 DEF GeNext

LEMMA GeInductive ==
  ASSUME Orderly
  PROVE  GeSpec => []GeIInv
<1>1. GeInit => GeIInv
  BY GeInitially
<1>2. GeIInv /\ [GeNext]_x => GeIInv'
  BY GeStepKeeps
<1> QED BY <1>1, <1>2, PTL DEF GeSpec

\* Whatever calls, commands and interrupts do in whatever order, queue, current list,
\* the states of the lists, their callbacks and the pending interrupts agree:
\* currentList may be followed when dlQueue is not empty (GPU/GPUCommon.cpp), and
\* ge_pending_cb.front() exists whenever GeIntrHandler is run (Core/HLE/sceGe.cpp).
THEOREM ListsAgree ==
  ASSUME Orderly
  PROVE  GeSpec => []GeInv
<1>1. GeIInv => GeInv
  <2> SUFFICES ASSUME GeIInv PROVE GeInv
    OBVIOUS
  <2>1. Typed(x) /\ QueueOK(x) /\ PendOK(x) /\ CurOK(x) /\ IntrOK(x)
    BY DEF GeIInv, ListsOK, QueuesOK
  <2>2. GeTypeOK
    BY <2>1 DEF Typed, GeTypeOK, ListTyped
  <2>3. CurrentIsFront
    BY <2>1 DEF QueueOK, CurOK, CurrentIsFront
  <2>4. CallbacksHaveInterrupts /\ RanIsFront
    BY <2>1 DEF IntrOK, CallbacksHaveInterrupts, RanIsFront, Events
  <2>5. PendingListsMarked
    BY <2>1 DEF PendOK, CallbackOK, PendingListsMarked
  <2>6. QueueHoldsLive
    BY <2>1 DEF QueueOK, QueueHoldsLive
  <2> QED BY <2>2, <2>3, <2>4, <2>5, <2>6 DEF GeInv
<1> QED BY <1>1, GeInductive, PTL

\* A thread in sceGeListSync() waits for a list that is in the queue or has its interrupt
\* to come, one in sceGeDrawSync() for an event on its way or for lists still to be run;
\* the only other ones are those left by a refused sceGeListEnQueueHead() and by
\* sceGeBreak(1) (InterruptEnd() and ProcessDLQueue(), GPU/GPUCommon.cpp).
THEOREM WaitersAreLetGo ==
  ASSUME Orderly
  PROVE  GeSpec => []WaitersHaveWork
<1>1. GeIInv => WaitersHaveWork
  <2> SUFFICES ASSUME GeIInv PROVE WaitersHaveWork
    OBVIOUS
  <2>1. WaitOK(x) /\ DrawOK(x) /\ BusyOK(x) /\ x.queue \in Seq(List)
    BY DEF GeIInv, ListsOK, IntrOK, QueuesOK, Typed, Engine
  <2>2. ASSUME NEW t \in Thread, x.wait[t] \in List
        PROVE  LET l == x.wait[t]
               IN  x.dls[l].busy /\ (Queued(l) \/ CallbackToCome(l) \/ LeftBusy(l))
    <3> DEFINE l == x.wait[t]
    <3>1. x.dls[l].busy /\ (Holds(x.queue, l) \/ ToCome(x, l) \/ LeftBy(x, x.dls[l]))
      BY <2>1, <2>2 DEF WaitOK, BusyOK, BusyAt
    <3> HIDE DEF l
    <3>2. /\ Holds(x.queue, l) <=> Queued(l)
          /\ ToCome(x, l) <=> CallbackToCome(l)
          /\ LeftBy(x, x.dls[l]) <=> LeftBusy(l)
      BY DEF Holds, Queued, ToCome, CallbackToCome, LeftBy, LeftBusy, Calls
    <3> QED BY <3>1, <3>2 DEF l
  <2>5. ListWaitersHaveWork
    BY <2>2 DEF ListWaitersHaveWork
  <2>3. x.draw = "never" => x.queue # <<>> \/ LeftDrawing
    BY <2>1 DEF DrawOK, LeftDrawing, Calls
  <2>4. DrawWaitersHaveWork
    BY <2>1, <2>3 DEF WaitOK, DrawWaitersHaveWork
  <2> QED BY <2>4, <2>5 DEF WaitersHaveWork
<1> QED BY <1>1, GeInductive, PTL

\* Under an old SDK version a list stands behind its SUSPEND until the interrupt of the
\* signal is over: Execute_End() pauses it, and UpdateStall(), EnqueueList() of other
\* lists, DequeueList(), Break() and the interrupts of other lists leave it there
\* (GPU/GPUCommon.cpp).  What would run it on is the guest's own sceGeContinue(), or a list
\* it puts in front and then continues, before the interrupt: Orderly excludes guests that
\* call these so early.
THEOREM SuspendHolds ==
  ASSUME Orderly
  PROVE  GeSpec => []SuspendWaitsForHandler
<1>1. GeIInv => SuspendWaitsForHandler
  <2> SUFFICES ASSUME GeIInv PROVE SuspendWaitsForHandler
    OBVIOUS
  <2>1. PendOK(x)
    BY DEF GeIInv, ListsOK, QueuesOK
  <2> QED BY <2>1 DEF PendOK, CallbackOK, SuspendWaitsForHandler
<1> QED BY <1>1, GeInductive, PTL
=============================================================================
