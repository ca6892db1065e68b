-------------------------- MODULE CoreTimingProofs --------------------------
(***************************************************************************)
(* The CPU never runs on past an event, time never goes back, and the list *)
(* of events implements the calendar, for any event types, delays, slices  *)
(* and clock frequencies, however the handlers nest.  As long as no event   *)
(* is so late that an int wraps, the display keeps its pace.               *)
(***************************************************************************)
EXTENDS CoreTiming, UidListProofs, SequenceTheorems

-----------------------------------------------------------------------------
(* Arithmetic. *)

LEMMA DivisionMonotone ==
  ASSUME NEW x \in Int, NEW y \in Int, NEW n \in Nat \ {0}, x <= y
  PROVE  x \div n <= y \div n
<1> SUFFICES ASSUME x \div n > y \div n PROVE FALSE
  BY Division
<1> DEFINE p == x \div n
           q == y \div n
<1>1. /\ p \in Int /\ q \in Int /\ p - q >= 1
      /\ x % n \in 0..(n - 1) /\ y % n \in 0..(n - 1)
      /\ x = n * p + (x % n) /\ y = n * q + (y % n)
  BY Division
<1> HIDE DEF p, q
<1>2. n * (p - q) >= n
  BY <1>1, ProductGrows
<1>3. n * (p - q) = n * p - n * q
  BY <1>1
<1>4. n * p \in Int /\ n * q \in Int
  BY <1>1
<1> QED BY <1>1, <1>2, <1>3, <1>4

LEMMA ProductMonotone ==
  ASSUME NEW x \in Int, NEW y \in Int, NEW n \in Nat, x <= y
  PROVE  x * n \in Int /\ y * n \in Int /\ x * n <= y * n
<1> DEFINE d == y - x
<1>1. d \in Nat /\ y = x + d
  OBVIOUS
<1> HIDE DEF d
<1>2. d * n \in Nat
  BY <1>1
<1>3. y * n = x * n + d * n
  BY <1>1
<1>4. x * n \in Int
  OBVIOUS
<1> QED BY <1>2, <1>3, <1>4

LEMMA ZeroDivided ==
  ASSUME NEW n \in Nat \ {0} PROVE 0 \div n = 0
<1> DEFINE q == 0 \div n
           r == 0 % n
<1>1. q \in Int /\ r \in 0..(n - 1) /\ 0 = n * q + r
  BY Division
<1> HIDE DEF q, r
<1>2. ~(q >= 1) /\ ~(q < 0)
  BY <1>1, ProductGrows
<1> QED BY <1>1, <1>2 DEF q

\* What becomes of a number that is stored in an int.
LEMMA ToIntFacts ==
  ASSUME NEW v \in Int
  PROVE  /\ ToInt(v) \in Int /\ -IntLimit <= ToInt(v) /\ ToInt(v) < IntLimit
         /\ -IntLimit <= v => ToInt(v) <= v
         /\ -IntLimit <= v /\ v < IntLimit => ToInt(v) = v
<1> DEFINE n == 2 * IntLimit
           y == v + IntLimit
           q == y \div n
           r == y % n
<1>1. IntLimit \in Nat \ {0} /\ n \in Nat \ {0} /\ y \in Int
  BY SliceAssumption
<1>2. q \in Int /\ r \in 0..(n - 1) /\ y = n * q + r
  BY <1>1, Division
<1>3. ToInt(v) = r - IntLimit
  BY DEF ToInt
<1>4. n = 2 * IntLimit /\ y = v + IntLimit
  OBVIOUS
<1> HIDE DEF n, y, q, r
<1>5. /\ n * q \in Int /\ (q >= 0 => n * q >= 0)
      /\ (q >= 1 => n * q >= n) /\ (q < 0 => n * q <= -n)
  BY <1>1, <1>2, ProductGrows
<1>6. ToInt(v) \in Int /\ -IntLimit <= ToInt(v) /\ ToInt(v) < IntLimit
  BY <1>1, <1>2, <1>3, <1>4
<1>7. -IntLimit <= v => n * q >= 0
  <2> SUFFICES ASSUME y >= 0, q < 0 PROVE FALSE
    BY <1>1, <1>2, <1>4, <1>5
  <2> QED BY <1>1, <1>2, <1>5
<1>8. -IntLimit <= v => ToInt(v) <= v
  BY <1>1, <1>2, <1>3, <1>4, <1>5, <1>7
<1>9. -IntLimit <= v /\ v < IntLimit => ToInt(v) = v
  <2> SUFFICES ASSUME y >= 0, y < n PROVE r = y
    BY <1>1, <1>2, <1>3, <1>4
  <2>1. ~(q >= 1) /\ ~(q < 0)
    BY <1>1, <1>2, <1>5
  <2>2. q = 0
    BY <1>2, <2>1
  <2> QED BY <1>1, <1>2, <2>2
<1> QED BY <1>6, <1>8, <1>9

-----------------------------------------------------------------------------
(* The list of events. *)

Sorted(q) == \A i, j \in 1..Len(q) : i <= j => q[i].time <= q[j].time

LEMMA EventFields ==
  ASSUME NEW e \in Event
  PROVE  /\ e.type \in EventType /\ e.userdata \in UserData \cup {vbCount}
         /\ e.time \in Int /\ e.fresh \in BOOLEAN
BY DEF Event

\* r is q with e in front of the event at n.
PutAt(r, q, e, n) ==
  /\ n \in 1..(Len(q) + 1)
  /\ Len(r) = Len(q) + 1
  /\ r[n] = e
  /\ \A i \in 1..(n - 1) : r[i] = q[i] /\ q[i].time <= e.time
  /\ \A i \in n..Len(q) : r[i + 1] = q[i] /\ e.time < q[i].time

LEMMA AddEventPuts ==
  ASSUME NEW q \in Seq(Event), Sorted(q), NEW e \in Event
  PROVE  /\ AddEventToQueue(q, e) \in Seq(Event) /\ Sorted(AddEventToQueue(q, e))
         /\ \E n : /\ PutAt(AddEventToQueue(q, e), q, e, n)
                   /\ AddEventToQueue(q, e)
                        = SubSeq(q, 1, n - 1) \o <<e>> \o SubSeq(q, n, Len(q))
<1> DEFINE later == {i \in 1..Len(q) : e.time < q[i].time}
           n == IF later = {} THEN Len(q) + 1
                ELSE CHOOSE i \in later : \A j \in later : i <= j
           r == SubSeq(q, 1, n - 1) \o <<e>> \o SubSeq(q, n, Len(q))
<1>1. Len(q) \in Nat /\ e.time \in Int /\ \A i \in 1..Len(q) : q[i] \in Event /\ q[i].time \in Int
  <2>1. Len(q) \in Nat /\ \A i \in 1..Len(q) : q[i] \in Event
    OBVIOUS
  <2> QED BY <2>1, EventFields
<1>2. r = AddEventToQueue(q, e)
  BY DEF AddEventToQueue
<1>3. /\ n \in 1..(Len(q) + 1)
      /\ \A i \in 1..(n - 1) : q[i].time <= e.time
      /\ n <= Len(q) => e.time < q[n].time
  <2>1. CASE later = {}
    BY <1>1, <2>1
  <2>2. CASE later # {}
    <3>1. later \subseteq Nat
      BY <1>1
    <3>2. \E i \in later : \A j \in later : i <= j
      BY <2>2, <3>1, LeastElement
    <3>3. n \in later /\ \A j \in later : n <= j
      BY <2>2, <3>2
    <3> HIDE DEF n
    <3>4. \A i \in 1..(n - 1) : i \in 1..Len(q) /\ i \notin later
      BY <1>1, <3>3
    <3> QED BY <1>1, <3>3, <3>4
  <2> QED BY <2>1, <2>2
<1> HIDE DEF n, later
<1>4. \A i \in n..Len(q) : e.time < q[i].time
  BY <1>1, <1>3 DEF Sorted
<1>5. r \in Seq(Event)
  BY <1>1, <1>3
<1>6. /\ Len(r) = Len(q) + 1 /\ r[n] = e
      /\ \A i \in 1..(n - 1) : r[i] = q[i]
      /\ \A i \in n..Len(q) : r[i + 1] = q[i]
  <2> DEFINE a == SubSeq(q, 1, n - 1)
             b == SubSeq(q, n, Len(q))
  <2>1. /\ a \in Seq(Event) /\ Len(a) = n - 1 /\ \A i \in 1..(n - 1) : a[i] = q[i]
        /\ b \in Seq(Event) /\ Len(b) = Len(q) - n + 1
        /\ \A i \in 1..(Len(q) - n + 1) : b[i] = q[i + n - 1]
    BY <1>1, <1>3
  <2>2. r = a \o <<e>> \o b
    OBVIOUS
  <2> HIDE DEF a, b, r
  <2>3. /\ Len(r) = Len(q) + 1 /\ r[n] = e
        /\ \A i \in 1..(n - 1) : r[i] = q[i]
    BY <1>1, <1>3, <2>1, <2>2, SMTT(30)
  <2>4. ASSUME NEW i \in n..Len(q) PROVE r[i + 1] = q[i]
    <3>1. i - n + 1 \in 1..Len(b) /\ b[i - n + 1] = q[i]
      BY <1>1, <1>3, <2>1
    <3>2. r[i + 1] = b[i - n + 1]
      BY <1>1, <1>3, <2>1, <2>2, <3>1
    <3> QED BY <3>1, <3>2
  <2> QED BY <2>3, <2>4
<1> HIDE DEF r
<1>7. PutAt(r, q, e, n)
  BY <1>3, <1>4, <1>6 DEF PutAt
<1>8. Sorted(r)
  <2> SUFFICES ASSUME NEW i \in 1..Len(r), NEW j \in 1..Len(r), i < j
               PROVE  r[i].time <= r[j].time
    <3>1. \A i \in 1..Len(r) : r[i] \in Event
      BY <1>5
    <3>2. \A i \in 1..Len(r) : r[i].time \in Int
      BY <3>1, EventFields
    <3>3. 1..Len(r) \subseteq Int
      OBVIOUS
    <3> QED BY <3>2, <3>3 DEF Sorted
  <2>1. \A m \in 1..Len(r) :
          \/ m \in 1..(n - 1) /\ m \in 1..Len(q) /\ r[m] = q[m] /\ q[m].time <= e.time
          \/ m = n /\ r[m] = e
          \/ m > n /\ m - 1 \in 1..Len(q) /\ r[m] = q[m - 1] /\ e.time < q[m - 1].time
    <3> SUFFICES ASSUME NEW m \in 1..Len(r), m # n, ~(m \in 1..(n - 1))
                 PROVE  m > n /\ m - 1 \in 1..Len(q) /\ r[m] = q[m - 1] /\ e.time < q[m - 1].time
      BY <1>1, <1>3, <1>6
    <3>1. m > n /\ m - 1 \in n..Len(q) /\ m - 1 \in 1..Len(q)
      BY <1>1, <1>3, <1>6
    <3> QED BY <1>4, <1>6, <3>1
  <2>2. CASE j \in 1..(n - 1)
    <3>1. i \in 1..(n - 1) /\ i \in 1..Len(q) /\ j \in 1..Len(q)
      BY <1>3, <2>1, <2>2
    <3>2. r[i] = q[i] /\ r[j] = q[j]
      BY <1>6, <2>2, <3>1
    <3> QED BY <3>1, <3>2 DEF Sorted
  <2>3. CASE j = n
    <3>1. r[i] = q[i] /\ q[i].time <= e.time
      BY <1>3, <2>1, <2>3
    <3> QED BY <1>6, <2>3, <3>1
  <2>4. CASE j > n
    <3>1. j - 1 \in 1..Len(q) /\ r[j] = q[j - 1] /\ e.time < q[j - 1].time
      BY <1>3, <2>1, <2>4
    <3>2. CASE i > n
      <4>1. i - 1 \in 1..Len(q) /\ r[i] = q[i - 1] /\ i - 1 <= j - 1
        BY <1>3, <2>1, <3>2
      <4> QED BY <3>1, <4>1 DEF Sorted
    <3>3. CASE ~(i > n)
      <4>1. r[i].time <= e.time /\ r[i].time \in Int
        BY <1>1, <1>3, <2>1, <3>3
      <4> QED BY <1>1, <3>1, <4>1
    <3> QED BY <3>2, <3>3
  <2>5. j \in 1..(n - 1) \/ j = n \/ j > n
    BY <1>3
  <2> QED BY <2>2, <2>3, <2>4, <2>5
<1> QED BY <1>2, <1>5, <1>7, <1>8 DEF r

LEMMA WithoutSorted ==
  ASSUME NEW q \in Seq(Event), Sorted(q), NEW E
  PROVE  /\ Without(q, E) \in Seq(Event) /\ Sorted(Without(q, E))
         /\ \A i \in 1..Len(Without(q, E)) : \E j \in 1..Len(q) : Without(q, E)[i] = q[j]
<1> DEFINE r == Without(q, E)
<1>1. r \in Seq(Event)
  BY WithoutTakes
<1>2. PICK f : TakenFrom(r, q, E, f)
  BY WithoutTakes
<1> HIDE DEF r
<1>3. /\ \A i \in 1..Len(r) : f[i] \in 1..Len(q) /\ r[i] = q[f[i]]
      /\ \A i, j \in 1..Len(r) : i < j => f[i] < f[j]
  BY <1>2 DEF TakenFrom
<1>4. Sorted(r)
  <2> SUFFICES ASSUME NEW i \in 1..Len(r), NEW j \in 1..Len(r), i <= j
               PROVE  r[i].time <= r[j].time
    BY DEF Sorted
  <2>1. f[i] <= f[j]
    BY <1>1, <1>3
  <2> QED BY <1>3, <2>1 DEF Sorted
<1> QED BY <1>1, <1>3, <1>4 DEF r

LEMMA TailSorted ==
  ASSUME NEW q \in Seq(Event), q # <<>>, Sorted(q)
  PROVE  /\ Tail(q) \in Seq(Event) /\ Sorted(Tail(q)) /\ Len(Tail(q)) = Len(q) - 1
         /\ 1 \in 1..Len(q) /\ Head(q) = q[1] /\ Head(q) \in Event
         /\ \A i \in 1..Len(Tail(q)) : i + 1 \in 1..Len(q) /\ Tail(q)[i] = q[i + 1]
         /\ \A i \in 1..Len(q) : Head(q).time <= q[i].time
<1> DEFINE r == Tail(q)
<1>1. /\ r \in Seq(Event) /\ Len(r) = Len(q) - 1 /\ Len(q) \in Nat
      /\ 1 \in 1..Len(q) /\ Head(q) = q[1] /\ q[1] \in Event
      /\ \A i \in 1..Len(r) : i + 1 \in 1..Len(q) /\ r[i] = q[i + 1]
  OBVIOUS
<1> HIDE DEF r
<1>2. Sorted(r)
  <2> SUFFICES ASSUME NEW i \in 1..Len(r), NEW j \in 1..Len(r), i <= j
               PROVE  r[i].time <= r[j].time
    BY DEF Sorted
  <2>1. i + 1 \in 1..Len(q) /\ j + 1 \in 1..Len(q) /\ i + 1 <= j + 1
    BY <1>1
  <2>2. q[i + 1].time <= q[j + 1].time
    BY <2>1 DEF Sorted
  <2> QED BY <1>1, <2>2
<1>3. \A i \in 1..Len(q) : q[1].time <= q[i].time
  BY <1>1 DEF Sorted
<1> QED BY <1>1, <1>2, <1>3 DEF r

-----------------------------------------------------------------------------
(* The slice never reaches past an event. *)

Typed ==
  /\ queue \in Seq(Event) /\ frames \in Seq(Frame) /\ CPU_HZ \in Hz
  /\ globalTimer \in Int /\ slicelength \in Int /\ downcount \in Int
  /\ lastGlobalTimeTicks \in Int /\ lastGlobalTimeUs \in Int

FramesNested == frames # <<>> => frames[1].at = "ProcessEvents"

\* Where the guest runs, what is not fresh is due after the slice.
SliceFits ==
  frames = <<>> /\ downcount >= 0 =>
    \A i \in 1..Len(queue) :
      /\ globalTimer <= queue[i].time
      /\ queue[i].fresh \/ globalTimer + slicelength <= queue[i].time

CoreInv ==
  /\ Typed
  /\ Sorted(queue)
  /\ FramesNested
  /\ downcount <= slicelength
  /\ SliceFits

LEMMA TicksFacts ==
  ASSUME CoreInv PROVE GetTicks \in Int /\ globalTimer <= GetTicks
BY DEF CoreInv, Typed, GetTicks

LEMMA FrontFacts ==
  ASSUME NEW S, NEW s \in Seq(S), Len(s) >= 1
  PROVE  LET f == SubSeq(s, 1, Len(s) - 1)
         IN  f \in Seq(S) /\ Len(f) = Len(s) - 1 /\ \A i \in 1..Len(f) : f[i] = s[i]
<1> DEFINE m == Len(s) - 1
<1>1. m \in 0..Len(s) /\ Len(s) \in Nat
  OBVIOUS
<1> HIDE DEF m
<1>2. /\ SubSeq(s, 1, m) \in Seq(S) /\ Len(SubSeq(s, 1, m)) = m
      /\ \A i \in 1..m : SubSeq(s, 1, m)[i] = s[i]
  <2>1. \A i \in 1..m : i \in 1..Len(s) /\ s[i] \in S
    BY <1>1
  <2>2. m \in Nat /\ SubSeq(s, 1, m) = [i \in 1..m |-> s[i]]
    BY <1>1
  <2>3. [i \in 1..m |-> s[i]] \in [1..m -> S]
    BY <2>1
  <2> QED BY <2>2, <2>3, FunctionIsSeq
<1> QED BY <1>2 DEF m

LEMMA PopFacts ==
  ASSUME CoreInv, frames # <<>>
  PROVE  /\ Pop \in Seq(Frame) /\ Len(Pop) = Len(frames) - 1 /\ Len(frames) \in Nat
         /\ Len(frames) >= 1
         /\ \A i \in 1..Len(Pop) : Pop[i] = frames[i]
         /\ Pop # <<>> => Pop[1].at = "ProcessEvents"
         /\ Pop = <<>> <=> Len(frames) = 1
<1>1. frames \in Seq(Frame) /\ Len(frames) \in Nat /\ Len(frames) >= 1
  BY DEF CoreInv, Typed
<1>2. /\ Pop \in Seq(Frame) /\ Len(Pop) = Len(frames) - 1
      /\ \A i \in 1..Len(Pop) : Pop[i] = frames[i]
  BY <1>1, FrontFacts DEF Pop
<1>3. Pop # <<>> => 1 \in 1..Len(Pop)
  BY <1>1, <1>2
<1>4. Pop = <<>> <=> Len(frames) = 1
  BY <1>1, <1>2
<1> QED BY <1>1, <1>2, <1>3, <1>4 DEF CoreInv, FramesNested

LEMMA PushFacts ==
  ASSUME NEW s \in Seq(Frame), NEW e \in Frame, s = <<>> => e.at = "ProcessEvents",
         s # <<>> => s[1].at = "ProcessEvents"
  PROVE  /\ Append(s, e) \in Seq(Frame) /\ Append(s, e) # <<>>
         /\ Append(s, e)[1].at = "ProcessEvents"
<1>1. Append(s, e) \in Seq(Frame) /\ Append(s, e) # <<>>
  OBVIOUS
<1>2. CASE s = <<>>
  BY <1>2
<1>3. CASE s # <<>>
  <2>1. Append(s, e)[1] = s[1]
    BY <1>3
  <2> QED BY <1>1, <1>3, <2>1
<1> QED BY <1>1, <1>2, <1>3

LEMMA InitCore == Init => CoreInv
<1> SUFFICES ASSUME Init PROVE CoreInv
  OBVIOUS
<1> DEFINE e == [type |-> "enterVblank", userdata |-> vbCount,
                 time |-> (FrameMs - VblankMs) * InitialHz, fresh |-> TRUE]
<1>1. FrameMs - VblankMs \in Nat /\ InitialHz \in Nat
  BY FrameAssumption, ClockAssumption
<1>2. e.time \in Int /\ 0 <= e.time
  BY <1>1
<1>3. e \in Event
  BY <1>2 DEF Event, EventType, Display
<1>4. queue = <<e>> /\ frames = <<>> /\ globalTimer = 0
  BY DEF Init
<1>5. e.fresh
  OBVIOUS
<1> HIDE DEF e
<1>6. queue \in Seq(Event) /\ Len(queue) = 1 /\ queue[1] = e
  BY <1>3, <1>4
<1>7. Typed
  BY <1>4, <1>6, ClockAssumption, SliceAssumption DEF Init, Typed
<1>8. Sorted(queue)
  BY <1>2, <1>6 DEF Sorted
<1>9. SliceFits
  BY <1>2, <1>4, <1>5, <1>6 DEF SliceFits
<1> QED BY <1>4, <1>7, <1>8, <1>9 DEF Init, CoreInv, FramesNested, Typed

LEMMA ExecuteCore ==
  ASSUME CoreInv, NEW n \in 1..MaxBlock, Execute(n) \/ hleEatCycles(n)
  PROVE  CoreInv' /\ GetTicks' = GetTicks + n
<1>1. MaxBlock \in Nat /\ n \in Nat
  BY SliceAssumption
<1>2. /\ downcount' = downcount - n
      /\ UNCHANGED <<queue, globalTimer, slicelength, clock, frames>>
      /\ frames = <<>> /\ downcount - n >= 0 => downcount >= 0
  BY <1>1 DEF Execute, hleEatCycles, CoreInv, Typed
<1>3. Typed' /\ downcount' <= slicelength'
  BY <1>1, <1>2 DEF CoreInv, Typed, clock
<1>4. SliceFits'
  BY <1>2 DEF CoreInv, SliceFits
<1>5. GetTicks' = GetTicks + n
  BY <1>1, <1>2 DEF CoreInv, Typed, GetTicks
<1>6. Sorted(queue)' /\ FramesNested'
  BY <1>2 DEF CoreInv, Sorted, FramesNested
<1> QED BY <1>3, <1>4, <1>5, <1>6 DEF CoreInv

\* An event is put in the list while nobody has cut the slice again.
LEMMA AddedCore ==
  ASSUME CoreInv, NEW e \in Event, queue' = AddEventToQueue(queue, e),
         frames' \in Seq(Frame), FramesNested',
         frames' = <<>> => frames = <<>> /\ e.fresh /\ globalTimer <= e.time,
         UNCHANGED <<globalTimer, slicelength, downcount, clock>>
  PROVE  CoreInv' /\ GetTicks' = GetTicks
<1>1. queue \in Seq(Event) /\ Sorted(queue)
  BY DEF CoreInv, Typed
<1>2. PICK n : PutAt(queue', queue, e, n)
  BY <1>1, AddEventPuts
<1>3. queue' \in Seq(Event) /\ Sorted(queue')
  BY <1>1, AddEventPuts
<1>4. SliceFits'
  <2> SUFFICES ASSUME frames' = <<>>, downcount' >= 0, NEW i \in 1..Len(queue')
               PROVE  /\ globalTimer <= queue'[i].time
                      /\ queue'[i].fresh \/ globalTimer + slicelength <= queue'[i].time
    BY DEF SliceFits
  <2>1. frames = <<>> /\ downcount >= 0 /\ e.fresh /\ globalTimer <= e.time
    OBVIOUS
  <2>2. queue'[i] = e \/ \E j \in 1..Len(queue) : queue'[i] = queue[j]
    <3>1. n \in 1..(Len(queue) + 1) /\ Len(queue) \in Nat /\ Len(queue') = Len(queue) + 1
      BY <1>1, <1>2 DEF PutAt
    <3>2. i \in 1..(n - 1) \/ i = n \/ (i - 1 \in n..Len(queue) /\ (i - 1) + 1 = i)
      BY <3>1
    <3>3. 1..(n - 1) \subseteq 1..Len(queue) /\ n..Len(queue) \subseteq 1..Len(queue)
      BY <3>1
    <3>4. i - 1 \in n..Len(queue) => queue'[i] = queue[i - 1]
      BY <1>2, <3>2 DEF PutAt
    <3> QED BY <1>2, <3>2, <3>3, <3>4 DEF PutAt
  <2> QED BY <2>1, <2>2 DEF CoreInv, SliceFits
<1> QED BY <1>3, <1>4 DEF CoreInv, Typed, clock, GetTicks

LEMMA ScheduleCore ==
  ASSUME CoreInv, NEW type \in Type, NEW userdata \in UserData, NEW d \in Delay,
         ScheduleEvent(d, type, userdata)
  PROVE  /\ CoreInv' /\ GetTicks' = GetTicks
         /\ EventIn(d, type, userdata) \in Event
<1> DEFINE e == EventIn(d, type, userdata)
<1>1. /\ queue' = AddEventToQueue(queue, e) /\ frames' = frames
      /\ UNCHANGED <<globalTimer, slicelength, downcount, clock>>
  BY DEF ScheduleEvent
<1>2. GetTicks + d \in Int /\ globalTimer <= GetTicks + d
  BY TicksFacts, SliceAssumption DEF CoreInv, Typed
<1>3. e \in Event /\ e.fresh /\ globalTimer <= e.time
  BY <1>2 DEF EventIn, Event, EventType
<1> HIDE DEF e
<1>4. CoreInv' /\ GetTicks' = GetTicks
  <2>1. frames' \in Seq(Frame) /\ FramesNested'
    BY <1>1 DEF CoreInv, Typed, FramesNested
  <2> QED BY <1>1, <1>3, <2>1, AddedCore
<1> QED BY <1>3, <1>4 DEF e

LEMMA RemovedCore ==
  ASSUME CoreInv, NEW E, queue' = Without(queue, E),
         UNCHANGED <<globalTimer, slicelength, downcount, clock, frames>>
  PROVE  CoreInv' /\ GetTicks' = GetTicks
<1>1. queue \in Seq(Event) /\ Sorted(queue)
  BY DEF CoreInv, Typed
<1>2. /\ queue' \in Seq(Event) /\ Sorted(queue')
      /\ \A i \in 1..Len(queue') : \E j \in 1..Len(queue) : queue'[i] = queue[j]
  BY <1>1, WithoutSorted
<1>3. SliceFits'
  BY <1>2 DEF CoreInv, SliceFits
<1> QED BY <1>2, <1>3 DEF CoreInv, Typed, FramesNested, clock, GetTicks

LEMMA ForceCheckCore ==
  ASSUME CoreInv, ForceCheck PROVE CoreInv' /\ GetTicks' = GetTicks
BY DEF CoreInv, Typed, FramesNested, SliceFits, ForceCheck, clock, GetTicks

LEMMA IdleFacts ==
  ASSUME CoreInv, Idle
  PROVE  /\ IdleCycles \in Nat
         /\ IdleCycles > 0 => downcount > 0 /\ IdleCycles <= downcount
         /\ GetTicks' \in Int /\ GetTicks + IdleCycles <= GetTicks'
         /\ GetTicks' <= GetTicks + IdleCycles + 1
         /\ downcount' <= downcount
         /\ downcount < 0 => downcount' < 0
         /\ downcount < 0 => GetTicks' = GetTicks
         /\ downcount # IdleCycles => GetTicks' = GetTicks + IdleCycles
<1> DEFINE next == ToInt(Head(queue).time - globalTimer)
           executed == slicelength - downcount
           cut == IF queue # <<>> /\ downcount > 0 /\ next < executed + downcount
                  THEN next - executed ELSE downcount
           left == downcount - IdleCycles
<1>1. downcount \in Int /\ executed \in Int
  BY DEF CoreInv, Typed
<1>2. queue # <<>> => next \in Int
  <2> SUFFICES ASSUME queue # <<>> PROVE next \in Int
    OBVIOUS
  <2>1. Head(queue).time \in Int
    BY TailSorted, EventFields DEF CoreInv, Typed
  <2>2. Head(queue).time - globalTimer \in Int
    BY <2>1 DEF CoreInv, Typed
  <2> QED BY <2>2, ToIntFacts
<1>3. IdleCycles = IF cut < 0 THEN 0 ELSE cut
  BY DEF IdleCycles
<1>4. /\ downcount' = IF left = 0 THEN -1 ELSE left
      /\ UNCHANGED <<queue, globalTimer, slicelength, clock, frames>>
  BY DEF Idle
<1> HIDE DEF next
<1>5. cut \in Int /\ (cut > 0 => downcount > 0 /\ cut <= downcount) /\ (downcount < 0 => cut < 0)
  BY <1>1, <1>2
<1> HIDE DEF cut
<1>6. /\ IdleCycles \in Nat
      /\ IdleCycles > 0 => downcount > 0 /\ IdleCycles <= downcount
      /\ downcount < 0 => IdleCycles = 0
  BY <1>1, <1>3, <1>5
<1> DEFINE c == IdleCycles
<1>7. c \in Nat /\ (c > 0 => downcount > 0 /\ c <= downcount) /\ (downcount < 0 => c = 0)
  BY <1>6
<1>8. downcount' = IF downcount - c = 0 THEN -1 ELSE downcount - c
  BY <1>4
<1> HIDE DEF c
<1>9. GetTicks = globalTimer + slicelength - downcount
      /\ GetTicks' = globalTimer + slicelength - downcount'
      /\ globalTimer \in Int /\ slicelength \in Int
  BY <1>4 DEF GetTicks, CoreInv, Typed
<1>10. /\ GetTicks' \in Int /\ GetTicks + c <= GetTicks' /\ GetTicks' <= GetTicks + c + 1
       /\ downcount' <= downcount /\ (downcount < 0 => downcount' < 0)
       /\ downcount < 0 => GetTicks' = GetTicks
       /\ downcount # c => GetTicks' = GetTicks + c
  BY <1>1, <1>7, <1>8, <1>9
<1> QED BY <1>6, <1>10 DEF c

LEMMA IdleCore ==
  ASSUME CoreInv, Idle PROVE CoreInv' /\ GetTicks <= GetTicks'
<1>1. UNCHANGED <<queue, globalTimer, slicelength, clock, frames>>
  BY DEF Idle
<1>2. /\ IdleCycles \in Nat /\ GetTicks' \in Int /\ GetTicks + IdleCycles <= GetTicks'
      /\ downcount' <= downcount /\ (downcount < 0 => downcount' < 0)
  BY IdleFacts
<1>3. downcount' \in Int
  BY <1>2 DEF Idle, CoreInv, Typed
<1>4. SliceFits'
  BY <1>1, <1>2, <1>3 DEF CoreInv, Typed, SliceFits
<1>5. downcount' <= slicelength'
  BY <1>1, <1>2, <1>3 DEF CoreInv, Typed
<1>6. GetTicks <= GetTicks'
  BY <1>2, TicksFacts
<1> QED BY <1>1, <1>3, <1>4, <1>5, <1>6 DEF CoreInv, Typed, FramesNested, clock

LEMMA RebaseCore ==
  ASSUME CoreInv, UNCHANGED <<queue, globalTimer, slicelength, downcount, frames>>,
         CPU_HZ' \in Hz, lastGlobalTimeUs' = GlobalTimeUs, lastGlobalTimeTicks' = GetTicks
  PROVE  CoreInv' /\ GetTicks' = GetTicks
<1>1. GetTicks \in Int /\ CPU_HZ \in Nat \ {0} /\ lastGlobalTimeTicks \in Int
      /\ UsPerSecond \in Nat /\ lastGlobalTimeUs \in Int
  BY TicksFacts, ClockAssumption DEF CoreInv, Typed
<1>2. (GetTicks - lastGlobalTimeTicks) * UsPerSecond \in Int
  BY <1>1
<1>3. UsSince(GetTicks) \in Int
  BY <1>1, <1>2, Division DEF UsSince
<1>4. GlobalTimeUs \in Int
  BY <1>1, <1>3 DEF GlobalTimeUs
<1>5. GetTicks' = GetTicks
  BY DEF GetTicks
<1> QED BY <1>1, <1>4, <1>5 DEF CoreInv, Typed, FramesNested, SliceFits

LEMMA AdvanceCore ==
  ASSUME CoreInv, Advance PROVE CoreInv' /\ GetTicks' = GetTicks
<1> DEFINE f == [at |-> "ProcessEvents", late |-> 0]
<1>1. /\ frames' = Append(frames, f) /\ globalTimer' = GetTicks /\ downcount' = slicelength
      /\ UNCHANGED <<queue, slicelength, clock>>
  BY DEF Advance
<1>2. f \in Frame /\ f.at = "ProcessEvents"
  BY DEF Frame
<1> HIDE DEF f
<1>3. frames' \in Seq(Frame) /\ frames' # <<>> /\ frames'[1].at = "ProcessEvents"
  BY <1>1, <1>2, PushFacts DEF CoreInv, Typed, FramesNested
<1>4. GetTicks' = GetTicks
  BY <1>1, TicksFacts DEF GetTicks, CoreInv, Typed
<1>5. globalTimer' \in Int
  BY <1>1, TicksFacts
<1> QED BY <1>1, <1>3, <1>4, <1>5 DEF CoreInv, Typed, FramesNested, SliceFits, clock

LEMMA ProcessEventsCore ==
  ASSUME CoreInv, ProcessEvents PROVE CoreInv' /\ GetTicks' = GetTicks
<1> DEFINE evt == Head(queue)
           f == IF evt.type \in Display
                THEN [at |-> evt.type, late |-> ToInt(GetTicks - evt.time)]
                ELSE [at |-> "handler", late |-> 0]
<1>1. /\ frames' = Append(frames, f) /\ queue' = Tail(queue) /\ queue # <<>> /\ frames # <<>>
      /\ UNCHANGED <<globalTimer, slicelength, downcount, clock>>
  BY DEF ProcessEvents, Due, Top
<1>2. /\ Head(queue) \in Event /\ Tail(queue) \in Seq(Event) /\ Sorted(Tail(queue))
  BY <1>1, TailSorted DEF CoreInv, Typed
<1>3. f \in Frame
  <2>1. GetTicks - evt.time \in Int
    BY <1>2, EventFields, TicksFacts
  <2>2. ToInt(GetTicks - evt.time) \in Int
    BY <2>1, ToIntFacts
  <2> QED BY <2>2 DEF Frame
<1> HIDE DEF f
<1>4. frames' \in Seq(Frame) /\ frames' # <<>> /\ frames'[1].at = "ProcessEvents"
  BY <1>1, <1>3, PushFacts DEF CoreInv, Typed, FramesNested
<1> QED BY <1>1, <1>2, <1>4 DEF CoreInv, Typed, FramesNested, SliceFits, clock, GetTicks

LEMMA DisplayHandlerCore ==
  ASSUME CoreInv, NEW at \in Display, NEW next \in Display, NEW ms \in Nat,
         DisplayHandler(at, next, ms)
  PROVE  LET e == VblankEvent(at, next, msToCycles(ms), frames[Len(frames)].late)
         IN  /\ CoreInv' /\ GetTicks' = GetTicks
             /\ e \in Event /\ queue' = AddEventToQueue(queue, e)
<1> DEFINE e == VblankEvent(at, next, msToCycles(ms), frames[Len(frames)].late)
           f == [at |-> "handler", late |-> 0]
<1>1. /\ frames # <<>> /\ frames[Len(frames)].at = at
      /\ queue' = AddEventToQueue(queue, e) /\ frames' = Append(Pop, f)
      /\ UNCHANGED <<globalTimer, slicelength, downcount, clock>>
  BY DEF DisplayHandler, Top
<1>2. Len(frames) # 1
  BY <1>1 DEF CoreInv, FramesNested, Display
<1>3. f \in Frame
  BY DEF Frame
<1>4. frames[Len(frames)] \in Frame
  BY <1>1 DEF CoreInv, Typed
<1>5. e \in Event
  <2>1. frames[Len(frames)].late \in Int
    BY <1>4 DEF Frame
  <2>2. msToCycles(ms) \in Int
    BY ClockAssumption DEF msToCycles, CoreInv, Typed
  <2>3. GetTicks + (msToCycles(ms) - frames[Len(frames)].late) \in Int
    BY <2>1, <2>2, TicksFacts
  <2> QED BY <2>3 DEF VblankEvent, EventIn, Event, EventType
<1> HIDE DEF e, f
<1>6. frames' \in Seq(Frame) /\ frames' # <<>> /\ FramesNested'
  BY <1>1, <1>2, <1>3, PopFacts, PushFacts DEF FramesNested
<1>7. CoreInv' /\ GetTicks' = GetTicks
  BY <1>1, <1>5, <1>6, AddedCore
<1> QED BY <1>1, <1>5, <1>7 DEF e

LEMMA HandlerReturnsCore ==
  ASSUME CoreInv, HandlerReturns PROVE CoreInv' /\ GetTicks' = GetTicks
<1>1. /\ frames # <<>> /\ frames[Len(frames)].at = "handler" /\ frames' = Pop
      /\ UNCHANGED <<queue, globalTimer, slicelength, downcount, clock>>
  BY DEF HandlerReturns, Top
<1>2. Len(frames) # 1
  BY <1>1 DEF CoreInv, FramesNested
<1>3. Pop \in Seq(Frame) /\ Pop # <<>> /\ Pop[1].at = "ProcessEvents"
  BY <1>1, <1>2, PopFacts
<1> QED BY <1>1, <1>3 DEF CoreInv, Typed, FramesNested, SliceFits, clock, GetTicks

\* The next slice ends at the first event at the latest.
LEMMA NextSliceFits ==
  ASSUME CoreInv, ~Due
  PROVE  /\ NextSlice \in Int
         /\ \A i \in 1..Len(queue) : /\ GetTicks < queue[i].time
                                     /\ globalTimer + NextSlice <= queue[i].time
<1>1. CASE queue = <<>>
  <2>1. Len(queue) = 0
    BY <1>1
  <2> QED BY <1>1, <2>1, SliceAssumption DEF NextSlice, CoreInv, Typed
<1>2. CASE queue # <<>>
  <2> DEFINE h == Head(queue).time
             target == ToInt(h - globalTimer)
  <2>1. /\ h \in Int /\ \A i \in 1..Len(queue) : h <= queue[i].time /\ queue[i].time \in Int
    <3>1. \A i \in 1..Len(queue) : queue[i] \in Event
      BY DEF CoreInv, Typed
    <3> QED BY <1>2, <3>1, TailSorted, EventFields DEF CoreInv, Typed
  <2>2. globalTimer \in Int /\ GetTicks \in Int /\ globalTimer <= GetTicks /\ GetTicks < h
    BY <1>2, <2>1, TicksFacts DEF Due, CoreInv, Typed
  <2>3. NextSlice = IF target > MaxSlice THEN MaxSlice ELSE target
    BY <1>2 DEF NextSlice
  <2> HIDE DEF h
  <2>4. target \in Int /\ target <= h - globalTimer
    <3>1. h - globalTimer \in Int /\ -IntLimit <= h - globalTimer
      BY <2>1, <2>2, SliceAssumption
    <3> QED BY <3>1, ToIntFacts
  <2> HIDE DEF target
  <2>5. NextSlice \in Int /\ NextSlice <= h - globalTimer
    BY <2>1, <2>2, <2>3, <2>4, SliceAssumption
  <2> QED BY <2>1, <2>2, <2>5
<1> QED BY <1>1, <1>2

LEMMA AdvanceReturnsCore ==
  ASSUME CoreInv, AdvanceReturns
  PROVE  /\ CoreInv' /\ GetTicks' = GetTicks
         /\ Len(queue') = Len(queue)
         /\ \A i \in 1..Len(queue) :
              /\ queue'[i].type = queue[i].type /\ queue'[i].userdata = queue[i].userdata
              /\ queue'[i].time = queue[i].time
<1>1. /\ frames # <<>> /\ ~Due /\ frames' = Pop
      /\ slicelength' = NextSlice /\ downcount' = downcount + (NextSlice - slicelength)
      /\ queue' = [i \in 1..Len(queue) |-> [queue[i] EXCEPT !.fresh = FALSE]]
      /\ UNCHANGED <<globalTimer, clock>>
  BY DEF AdvanceReturns, Top
<1>2. queue \in Seq(Event) /\ Len(queue) \in Nat /\ \A i \in 1..Len(queue) : queue[i] \in Event
  BY DEF CoreInv, Typed
<1>3. /\ queue' \in Seq(Event) /\ Len(queue') = Len(queue)
      /\ \A i \in 1..Len(queue) :
           /\ queue'[i].type = queue[i].type /\ queue'[i].userdata = queue[i].userdata
           /\ queue'[i].time = queue[i].time
  <2>1. \A e \in Event : /\ [e EXCEPT !.fresh = FALSE] \in Event
                         /\ [e EXCEPT !.fresh = FALSE].type = e.type
                         /\ [e EXCEPT !.fresh = FALSE].userdata = e.userdata
                         /\ [e EXCEPT !.fresh = FALSE].time = e.time
    BY DEF Event
  <2>2. queue' \in [1..Len(queue) -> Event]
    BY <1>1, <1>2, <2>1
  <2>3. \A i \in 1..Len(queue) : queue'[i] = [queue[i] EXCEPT !.fresh = FALSE]
    BY <1>1
  <2>4. queue' \in Seq(Event) /\ Len(queue') = Len(queue)
    BY <1>2, <2>2, FunctionIsSeq
  <2> QED BY <1>2, <2>1, <2>3, <2>4
<1>4. Sorted(queue')
  BY <1>3 DEF CoreInv, Sorted
<1>5. /\ NextSlice \in Int
      /\ \A i \in 1..Len(queue) : /\ GetTicks < queue[i].time
                                  /\ globalTimer + NextSlice <= queue[i].time
  BY <1>1, NextSliceFits
<1>6. /\ slicelength' \in Int /\ downcount' \in Int /\ downcount' <= slicelength'
      /\ GetTicks' = GetTicks
  BY <1>1, <1>5 DEF CoreInv, Typed, GetTicks
<1>7. SliceFits'
  <2>1. \A i \in 1..Len(queue) : globalTimer <= queue[i].time
    <3>1. \A i \in 1..Len(queue) : queue[i].time \in Int
      BY <1>2, EventFields
    <3> QED BY <1>5, <3>1, TicksFacts DEF CoreInv, Typed
  <2> QED BY <1>1, <1>3, <1>5, <2>1 DEF SliceFits
<1>8. Pop \in Seq(Frame) /\ (Pop # <<>> => Pop[1].at = "ProcessEvents")
  BY <1>1, PopFacts
<1> QED BY <1>1, <1>3, <1>4, <1>6, <1>7, <1>8 DEF CoreInv, Typed, FramesNested, clock

\* The clock goes on from where it was, or its base is moved to now.
Rebased ==
  /\ GetTicks' = GetTicks /\ CPU_HZ' \in Hz
  /\ lastGlobalTimeUs' = GlobalTimeUs /\ lastGlobalTimeTicks' = GetTicks

LEMMA CoreStep ==
  ASSUME CoreInv, [Next]_timingvars
  PROVE  CoreInv' /\ GetTicks <= GetTicks' /\ (UNCHANGED clock \/ Rebased)
<1>1. GetTicks \in Int
  BY TicksFacts
<1>2. CASE UNCHANGED timingvars
  BY <1>1, <1>2 DEF timingvars, clock, CoreInv, Typed, FramesNested, SliceFits, GetTicks
<1>3. ASSUME NEW n \in 1..MaxBlock, Execute(n) \/ hleEatCycles(n)
      PROVE  CoreInv' /\ GetTicks <= GetTicks' /\ UNCHANGED clock
  <2>1. n \in Nat
    BY SliceAssumption
  <2> QED BY <1>1, <1>3, <2>1, ExecuteCore DEF Execute, hleEatCycles
<1>4. ASSUME NEW type \in Type, NEW userdata \in UserData, NEW d \in Delay,
             ScheduleEvent(d, type, userdata)
      PROVE  CoreInv' /\ GetTicks <= GetTicks' /\ UNCHANGED clock
  BY <1>1, <1>4, ScheduleCore DEF ScheduleEvent
<1>5. ASSUME NEW type \in Type, NEW userdata \in UserData, UnscheduleEvent(type, userdata)
      PROVE  CoreInv' /\ GetTicks <= GetTicks' /\ UNCHANGED clock
  BY <1>1, <1>5, RemovedCore DEF UnscheduleEvent
<1>6. ASSUME NEW type \in Type, RemoveEvent(type)
      PROVE  CoreInv' /\ GetTicks <= GetTicks' /\ UNCHANGED clock
  BY <1>1, <1>6, RemovedCore DEF RemoveEvent
<1>7. CASE ForceCheck
  BY <1>1, <1>7, ForceCheckCore DEF ForceCheck
<1>8. CASE Idle
  BY <1>8, IdleCore DEF Idle
<1>9. ASSUME NEW hz \in Hz, SetClockFrequencyHz(hz)
      PROVE  CoreInv' /\ GetTicks <= GetTicks' /\ Rebased
  BY <1>1, <1>9, RebaseCore DEF SetClockFrequencyHz, Rebased
<1>10. ASSUME GetGlobalTimeUs PROVE CoreInv' /\ GetTicks <= GetTicks' /\ Rebased
  <2>1. CPU_HZ' \in Hz
    BY <1>10 DEF GetGlobalTimeUs, CoreInv, Typed
  <2> QED BY <1>1, <1>10, <2>1, RebaseCore DEF GetGlobalTimeUs, Rebased
<1>11. CASE Advance
  BY <1>1, <1>11, AdvanceCore DEF Advance
<1>12. CASE ProcessEvents
  BY <1>1, <1>12, ProcessEventsCore DEF ProcessEvents
<1>13. CASE hleEnterVblank \/ hleLeaveVblank
  <2>1. /\ VblankMs \in Nat /\ FrameMs - VblankMs \in Nat
        /\ "enterVblank" \in Display /\ "leaveVblank" \in Display
    BY FrameAssumption DEF Display
  <2>2. UNCHANGED clock
    BY <1>13 DEF hleEnterVblank, hleLeaveVblank, DisplayHandler
  <2>3. CASE hleEnterVblank
    BY <1>1, <2>1, <2>2, <2>3, DisplayHandlerCore DEF hleEnterVblank
  <2>4. CASE hleLeaveVblank
    BY <1>1, <2>1, <2>2, <2>4, DisplayHandlerCore DEF hleLeaveVblank
  <2> QED BY <1>13, <2>3, <2>4
<1>14. CASE HandlerReturns
  BY <1>1, <1>14, HandlerReturnsCore DEF HandlerReturns
<1>15. CASE AdvanceReturns
  BY <1>1, <1>15, AdvanceReturnsCore DEF AdvanceReturns
<1> QED BY <1>2, <1>3, <1>4, <1>5, <1>6, <1>7, <1>8, <1>9, <1>10, <1>11, <1>12, <1>13,
           <1>14, <1>15 DEF Next

LEMMA CoreHolds == Spec => []CoreInv
<1>1. CoreInv /\ [Next]_timingvars => CoreInv'
  BY CoreStep
<1> QED BY <1>1, InitCore, PTL DEF Spec

LEMMA CoreNoEventSlept == CoreInv => NoEventSlept
<1> SUFFICES ASSUME CoreInv, frames = <<>>, downcount >= 0, NEW i \in 1..Len(queue)
             PROVE  queue[i].fresh \/ queue[i].time >= GetTicks
  BY DEF NoEventSlept
<1>1. queue[i] \in Event
  BY DEF CoreInv, Typed
<1>2. queue[i].time \in Int
  BY <1>1, EventFields
<1>3. GetTicks <= globalTimer + slicelength
  BY DEF GetTicks, CoreInv, Typed
<1>4. globalTimer + slicelength <= queue[i].time => GetTicks <= queue[i].time
  BY <1>2, <1>3, TicksFacts DEF CoreInv, Typed
<1> QED BY <1>4 DEF CoreInv, SliceFits

\* When the CPU is about to execute a block, the events that are overdue were all
\* scheduled after Advance() cut the slice, for any delays, slice lengths and width
\* of int, however deep handlers and __KernelReSchedule() nest Advance().
THEOREM NoEventSleptHolds == Spec => []NoEventSlept
BY CoreHolds, CoreNoEventSlept, PTL

-----------------------------------------------------------------------------
(* Time. *)

LEMMA TimeStep ==
  ASSUME CoreInv, [Next]_timingvars
  PROVE  /\ GetTicks' >= GetTicks /\ GlobalTimeUs' >= GlobalTimeUs
         /\ GetTicks' = GetTicks => GlobalTimeUs' = GlobalTimeUs
<1> DEFINE us(now, then, hz) == ((now - then) * UsPerSecond) \div hz
<1>1. /\ CoreInv' /\ GetTicks <= GetTicks' /\ (UNCHANGED clock \/ Rebased)
      /\ GetTicks \in Int /\ GetTicks' \in Int
  <2>1. CoreInv' => GetTicks' \in Int
    BY DEF CoreInv, Typed, GetTicks
  <2> QED BY <2>1, CoreStep, TicksFacts
<1>2. /\ CPU_HZ \in Nat \ {0} /\ CPU_HZ' \in Nat \ {0} /\ UsPerSecond \in Nat
      /\ lastGlobalTimeTicks \in Int /\ lastGlobalTimeUs \in Int
  BY <1>1, ClockAssumption DEF CoreInv, Typed
<1>3. /\ GlobalTimeUs = lastGlobalTimeUs + us(GetTicks, lastGlobalTimeTicks, CPU_HZ)
      /\ GlobalTimeUs' = lastGlobalTimeUs' + us(GetTicks', lastGlobalTimeTicks', CPU_HZ')
  BY DEF GlobalTimeUs, UsSince, GetTicks
<1>4. CASE UNCHANGED clock
  <2> DEFINE now == GetTicks
             next == GetTicks'
             u == (now - lastGlobalTimeTicks) * UsPerSecond
             v == (next - lastGlobalTimeTicks) * UsPerSecond
  <2>1. u \in Int /\ v \in Int /\ u <= v
    <3>1. now \in Int /\ next \in Int /\ now <= next
      BY <1>1
    <3> HIDE DEF now, next
    <3>2. /\ now - lastGlobalTimeTicks \in Int /\ next - lastGlobalTimeTicks \in Int
          /\ now - lastGlobalTimeTicks <= next - lastGlobalTimeTicks
      BY <1>2, <3>1
    <3> QED BY <1>2, <3>2, ProductMonotone
  <2>2. /\ us(GetTicks, lastGlobalTimeTicks, CPU_HZ) = u \div CPU_HZ
        /\ us(GetTicks', lastGlobalTimeTicks', CPU_HZ') = v \div CPU_HZ
        /\ lastGlobalTimeUs' = lastGlobalTimeUs
        /\ GetTicks' = GetTicks => v = u
    BY <1>4 DEF clock
  <2> HIDE DEF u, v, us
  <2>3. u \div CPU_HZ \in Int /\ v \div CPU_HZ \in Int /\ u \div CPU_HZ <= v \div CPU_HZ
    BY <1>2, <2>1, Division, DivisionMonotone
  <2> QED BY <1>1, <1>2, <1>3, <2>2, <2>3
<1>5. CASE Rebased
  <2>1. us(GetTicks', lastGlobalTimeTicks', CPU_HZ') = 0
    <3>1. (GetTicks' - lastGlobalTimeTicks') * UsPerSecond = 0
      BY <1>1, <1>2, <1>5 DEF Rebased
    <3>2. 0 \div CPU_HZ' = 0
      BY <1>2, ZeroDivided
    <3> QED BY <3>1, <3>2
  <2>2. GlobalTimeUs \in Int
    BY <1>1, <1>2, <1>3, Division
  <2> HIDE DEF us
  <2> QED BY <1>1, <1>3, <1>5, <2>1, <2>2 DEF Rebased
<1> QED BY <1>1, <1>4, <1>5

\* Neither the ticks nor the microseconds the guest reads ever go back, also when the
\* frequency changes: the microseconds grow with the ticks, and only with them.
THEOREM TimeMovesForwardHolds == Spec => TimeMovesForward
<1>1. CoreInv /\ [Next]_timingvars =>
        [/\ GetTicks' >= GetTicks /\ GlobalTimeUs' >= GlobalTimeUs
         /\ GetTicks' = GetTicks => GlobalTimeUs' = GlobalTimeUs]_timingvars
  BY TimeStep
<1> QED BY <1>1, CoreHolds, PTL DEF Spec, TimeMovesForward

LEMMA IdleStops ==
  ASSUME CoreInv, Idle, queue # <<>>, GetTicks' > GetTicks + 1
  PROVE  GetTicks' <= Head(queue).time + 1
<1> DEFINE h == Head(queue).time
           next == ToInt(h - globalTimer)
           executed == slicelength - downcount
           cut == IF downcount > 0 /\ next < executed + downcount
                  THEN next - executed ELSE downcount
<1>1. /\ h \in Int /\ GetTicks \in Int /\ globalTimer \in Int /\ slicelength \in Int
      /\ downcount \in Int /\ globalTimer <= GetTicks /\ downcount <= slicelength
      /\ GetTicks = globalTimer + executed
  BY TicksFacts, TailSorted, EventFields DEF CoreInv, Typed, GetTicks
<1>2. /\ IdleCycles \in Nat /\ (IdleCycles > 0 => downcount > 0 /\ IdleCycles <= downcount)
      /\ GetTicks' \in Int /\ GetTicks' <= GetTicks + IdleCycles + 1
  BY IdleFacts
<1>3. IdleCycles > 0 /\ downcount > 0
  BY <1>1, <1>2
<1>4. globalTimer <= h
  <2>1. frames = <<>> /\ Head(queue) = queue[1] /\ 1 \in 1..Len(queue)
    BY TailSorted DEF Idle, CoreInv, Typed
  <2> QED BY <1>1, <1>3, <2>1 DEF CoreInv, SliceFits
<1>5. IdleCycles = IF cut < 0 THEN 0 ELSE cut
  BY DEF IdleCycles
<1> HIDE DEF h
<1>6. next \in Int /\ next <= h - globalTimer
  <2>1. h - globalTimer \in Int /\ -IntLimit <= h - globalTimer
    BY <1>1, <1>4, SliceAssumption
  <2> QED BY <2>1, ToIntFacts
<1> HIDE DEF next
<1>7. IdleCycles <= h - GetTicks
  BY <1>1, <1>3, <1>5, <1>6
<1>8. GetTicks' <= h + 1
  BY <1>1, <1>2, <1>7
<1> QED BY <1>8 DEF h

\* Idling never passes the first event by more than the one cycle that ends the slice,
\* whenever the event was scheduled.
THEOREM IdleStopsAtEventHolds == Spec => IdleStopsAtEvent
<1>1. CoreInv /\ [Next]_timingvars =>
        [Idle /\ queue # <<>> /\ GetTicks' > GetTicks + 1 =>
           GetTicks' <= Head(queue).time + 1]_timingvars
  BY IdleStops
<1> QED BY <1>1, CoreHolds, PTL DEF Spec, IdleStopsAtEvent

-----------------------------------------------------------------------------
(* What the list says of each time. *)

Item(e) == [type |-> e.type, userdata |-> e.userdata]

LEMMA ItemFacts ==
  ASSUME NEW e \in Event PROVE Item(e) \in CalendarEvent
BY EventFields DEF Item, CalendarEvent

DueLoop(q, t, at) ==
  /\ at[0] = <<>>
  /\ \A n \in 1..Len(q) :
       at[n] = IF q[n].time # t THEN at[n - 1] ELSE Append(at[n - 1], Item(q[n]))
  /\ DueIn(q, t) = at[Len(q)]

LEMMA DueLoopExists ==
  ASSUME NEW s, NEW t, Len(s) \in Nat
  PROVE  \E at : DueLoop(s, t, at)
<1> DEFINE N == Len(s)
           Round(r, n) == IF s[n].time # t THEN r
                          ELSE Append(r, [type |-> s[n].type, userdata |-> s[n].userdata])
           IsLoop(f, m) == f = [n \in 0..m |-> IF n = 0 THEN <<>> ELSE Round(f[n - 1], n)]
           at == CHOOSE f : IsLoop(f, N)
<1>1. DueIn(s, t) = at[N]
  BY DEF DueIn
<1>2. at[0] = <<>> /\ \A n \in 1..N : at[n] = Round(at[n - 1], n)
  <2> HIDE DEF N, Round
  <2>1. IsLoop(at, N)
    <3> DEFINE G == {m \in 0..N : \E f : IsLoop(f, m)}
    <3>1. N \in Nat
      BY DEF N
    <3>2. 0 \in G
      <4>1. IsLoop([n \in 0..0 |-> <<>>], 0)
        OBVIOUS
      <4> HIDE DEF IsLoop
      <4> QED BY <3>1, <4>1
    <3>3. ASSUME NEW m \in 1..N, m - 1 \in G PROVE m \in G
      <4>1. PICK f : IsLoop(f, m - 1)
        BY <3>3
      <4> DEFINE g == [n \in 0..m |-> IF n < m THEN f[n] ELSE Round(f[m - 1], m)]
      <4>2. ASSUME NEW n \in 0..m
            PROVE  g[n] = IF n = 0 THEN <<>> ELSE Round(g[n - 1], n)
        <5>1. CASE n = 0
          BY <4>1, <5>1
        <5>2. CASE n # 0 /\ n < m
          BY <4>1, <5>2
        <5>3. CASE n = m
          BY <5>3
        <5> QED BY <5>1, <5>2, <5>3
      <4>3. IsLoop(g, m)
        BY <4>2
      <4> HIDE DEF IsLoop, g
      <4> QED BY <4>3
    <3> HIDE DEF G
    <3>4. \A m \in 1..N : m - 1 \in G => m \in G
      BY <3>3
    <3>5. \A m \in 0..N : m \in G
      BY <3>1, <3>2, <3>4, SetInduction
    <3>6. N \in G
      BY <3>1, <3>5
    <3> QED BY <3>6 DEF G
  <2> HIDE DEF at
  <2>2. N \in Nat
    BY DEF N
  <2> QED BY <2>1, <2>2
<1> HIDE DEF at
<1> QED BY <1>1, <1>2 DEF DueLoop, Item

LEMMA DueNothing ==
  ASSUME NEW t PROVE DueIn(<<>>, t) = <<>>
<1>1. PICK at : DueLoop(<<>>, t, at)
  BY DueLoopExists
<1> QED BY <1>1 DEF DueLoop

LEMMA DueAppend ==
  ASSUME NEW S, NEW s \in Seq(S), NEW e \in S, NEW t
  PROVE  DueIn(Append(s, e), t)
           = IF e.time # t THEN DueIn(s, t) ELSE Append(DueIn(s, t), Item(e))
<1> DEFINE z == Append(s, e)
           N == Len(s)
<1>1. N \in Nat /\ Len(z) = N + 1 /\ z[N + 1] = e /\ \A n \in 1..N : z[n] = s[n]
  OBVIOUS
<1> HIDE DEF z
<1>2. PICK k : DueLoop(s, t, k)
  BY <1>1, DueLoopExists
<1>3. PICK l : DueLoop(z, t, l)
  <2>1. Len(z) \in Nat
    BY <1>1
  <2> QED BY <2>1, DueLoopExists
<1> HIDE DEF N
<1> DEFINE G == {n \in 0..N : l[n] = k[n]}
<1>4. 0 \in G
  BY <1>1, <1>2, <1>3 DEF DueLoop
<1>5. \A n \in 1..N : n - 1 \in G => n \in G
  BY <1>1, <1>2, <1>3 DEF DueLoop, N
<1> HIDE DEF G
<1>6. \A n \in 0..N : n \in G
  BY <1>1, <1>4, <1>5, SetInduction
<1>7. l[N] = k[N]
  BY <1>1, <1>6 DEF G
<1>8. l[N + 1] = IF e.time # t THEN l[N] ELSE Append(l[N], Item(e))
  BY <1>1, <1>3 DEF DueLoop
<1>9. DueIn(s, t) = k[N] /\ DueIn(z, t) = l[N + 1]
  BY <1>1, <1>2, <1>3 DEF DueLoop, N
<1> QED BY <1>7, <1>8, <1>9 DEF z

\* A time has events exactly if one of the list is due then.
LEMMA DueFacts ==
  ASSUME NEW s \in Seq(Event), NEW t
  PROVE  DueIn(s, t) \in Seq(CalendarEvent) /\ (DueIn(s, t) # <<>> <=> t \in Times(s))
<1> DEFINE Good(z) == /\ DueIn(z, t) \in Seq(CalendarEvent)
                      /\ DueIn(z, t) # <<>> <=> t \in Times(z)
           G == {z \in Seq(Event) : Good(z)}
<1>1. <<>> \in G
  <2>1. Times(<<>>) = {}
    BY DEF Times
  <2>2. <<>> \in Seq(Event) /\ <<>> \in Seq(CalendarEvent)
    OBVIOUS
  <2> QED BY <2>1, <2>2, DueNothing
<1>2. ASSUME NEW z \in Seq(Event), NEW e \in Event, z \in G PROVE Append(z, e) \in G
  <2> DEFINE u == Append(z, e)
  <2>1. /\ u \in Seq(Event) /\ Len(u) = Len(z) + 1 /\ u[Len(z) + 1] = e /\ Len(z) \in Nat
        /\ \A n \in 1..Len(z) : u[n] = z[n]
    OBVIOUS
  <2>2. DueIn(u, t) = IF e.time # t THEN DueIn(z, t) ELSE Append(DueIn(z, t), Item(e))
    BY DueAppend
  <2> HIDE DEF u
  <2>3. Times(u) = Times(z) \cup {e.time}
    <3>1. \A n \in 1..Len(u) : n \in 1..Len(z) \/ n = Len(z) + 1
      BY <2>1
    <3>2. 1..Len(z) \subseteq 1..Len(u) /\ Len(z) + 1 \in 1..Len(u)
      BY <2>1
    <3> QED BY <2>1, <3>1, <3>2 DEF Times
  <2>4. Good(z) /\ Item(e) \in CalendarEvent
    BY <1>2, ItemFacts
  <2>5. CASE e.time # t
    BY <2>1, <2>2, <2>3, <2>4, <2>5 DEF u
  <2>6. CASE e.time = t
    <3>1. DueIn(u, t) = Append(DueIn(z, t), Item(e))
      BY <2>2, <2>6
    <3>2. DueIn(u, t) \in Seq(CalendarEvent) /\ DueIn(u, t) # <<>>
      BY <2>4, <3>1
    <3> QED BY <2>1, <2>3, <2>6, <3>2 DEF u
  <2> QED BY <2>5, <2>6
<1> HIDE DEF G
<1>3. s \in G
  BY <1>1, <1>2, SeqInduction
<1> QED BY <1>3 DEF G

LEMMA AppendConcat ==
  ASSUME NEW S, NEW a \in Seq(S), NEW b \in Seq(S), NEW e \in S
  PROVE  a \o Append(b, e) = Append(a \o b, e)
<1> DEFINE u == a \o Append(b, e)
           v == Append(a \o b, e)
<1>1. u \in Seq(S) /\ v \in Seq(S) /\ Len(u) = Len(a) + Len(b) + 1 /\ Len(v) = Len(u)
  OBVIOUS
<1>2. \A i \in 1..Len(u) : u[i] = v[i]
  <2> SUFFICES ASSUME NEW i \in 1..Len(u) PROVE u[i] = v[i]
    OBVIOUS
  <2>1. CASE i <= Len(a)
    BY <2>1
  <2>2. CASE i > Len(a) /\ i <= Len(a) + Len(b)
    BY <2>2
  <2>3. CASE i = Len(a) + Len(b) + 1
    BY <2>3
  <2> QED BY <1>1, <2>1, <2>2, <2>3
<1> HIDE DEF u, v
<1>3. u = v
  BY <1>1, <1>2, SeqEqual
<1> QED BY <1>3 DEF u, v

LEMMA DueConcat ==
  ASSUME NEW a \in Seq(Event), NEW b \in Seq(Event), NEW t
  PROVE  DueIn(a \o b, t) = DueIn(a, t) \o DueIn(b, t)
<1> DEFINE Good(z) == DueIn(a \o z, t) = DueIn(a, t) \o DueIn(z, t)
           G == {z \in Seq(Event) : Good(z)}
<1>1. <<>> \in G
  <2>1. <<>> \in Seq(Event) /\ a \o <<>> = a
    OBVIOUS
  <2>2. DueIn(a, t) \o <<>> = DueIn(a, t)
    BY DueFacts, ConcatEmptySeq
  <2> QED BY <2>1, <2>2, DueNothing
<1>2. ASSUME NEW z \in Seq(Event), NEW e \in Event, z \in G PROVE Append(z, e) \in G
  <2>1. a \o Append(z, e) = Append(a \o z, e) /\ a \o z \in Seq(Event) /\ Append(z, e) \in Seq(Event)
    BY AppendConcat
  <2>2. /\ DueIn(a \o Append(z, e), t)
             = IF e.time # t THEN DueIn(a \o z, t) ELSE Append(DueIn(a \o z, t), Item(e))
        /\ DueIn(Append(z, e), t)
             = IF e.time # t THEN DueIn(z, t) ELSE Append(DueIn(z, t), Item(e))
    <3> DEFINE y == a \o z
    <3>1. y \in Seq(Event) /\ a \o Append(z, e) = Append(y, e)
      BY <2>1
    <3> HIDE DEF y
    <3>2. DueIn(Append(y, e), t)
            = IF e.time # t THEN DueIn(y, t) ELSE Append(DueIn(y, t), Item(e))
      BY <3>1, DueAppend
    <3>3. DueIn(Append(z, e), t)
            = IF e.time # t THEN DueIn(z, t) ELSE Append(DueIn(z, t), Item(e))
      BY DueAppend
    <3> QED BY <3>1, <3>2, <3>3 DEF y
  <2>3. DueIn(a \o z, t) = DueIn(a, t) \o DueIn(z, t)
    BY <1>2
  <2>4. DueIn(a, t) \o Append(DueIn(z, t), Item(e)) = Append(DueIn(a, t) \o DueIn(z, t), Item(e))
    BY AppendConcat, DueFacts, ItemFacts
  <2>5. Good(Append(z, e))
    BY <2>2, <2>3, <2>4
  <2> QED BY <2>1, <2>5
<1> HIDE DEF G
<1>3. b \in G
  BY <1>1, <1>2, SeqInduction
<1> QED BY <1>3 DEF G

JoinOf(c, a, b) == c = a \o b

DueJoins(c, a, b, t) == DueIn(c, t) = DueIn(a, t) \o DueIn(b, t)

LEMMA DueJoined ==
  ASSUME NEW a \in Seq(Event), NEW b \in Seq(Event), NEW c, JoinOf(c, a, b), NEW t
  PROVE  DueJoins(c, a, b, t)
BY DueConcat DEF JoinOf, DueJoins

LEMMA DueOne ==
  ASSUME NEW e \in Event, NEW t
  PROVE  DueIn(<<e>>, t) = IF e.time # t THEN <<>> ELSE <<Item(e)>>
<1> DEFINE n == <<>>
<1>1. <<e>> = Append(n, e) /\ n \in Seq(Event)
  OBVIOUS
<1>2. DueIn(n, t) = <<>> /\ Append(<<>>, Item(e)) = <<Item(e)>>
  BY DueNothing
<1> HIDE DEF n
<1>3. DueIn(Append(n, e), t) = IF e.time # t THEN DueIn(n, t) ELSE Append(DueIn(n, t), Item(e))
  BY <1>1, DueAppend
<1>4. DueIn(<<e>>, t) = DueIn(Append(n, e), t)
  BY <1>1
<1> QED BY <1>2, <1>3, <1>4

\* Taking events out of the list takes them out of their time.
LEMMA DueWithout ==
  ASSUME NEW s \in Seq(Event), NEW F, NEW E, NEW t,
         \A e \in Event : e \in F <=> Item(e) \in E
  PROVE  DueIn(Without(s, F), t) = Without(DueIn(s, t), E)
<1> DEFINE Good(z) == DueIn(Without(z, F), t) = Without(DueIn(z, t), E)
           G == {z \in Seq(Event) : Good(z)}
<1>1. <<>> \in G
  <2>1. <<>> \in Seq(Event)
    OBVIOUS
  <2> QED BY <2>1, DueNothing, WithoutNothing
<1>2. ASSUME NEW z \in Seq(Event), NEW e \in Event, z \in G PROVE Append(z, e) \in G
  <2>1. Append(z, e) \in Seq(Event)
    OBVIOUS
  <2>2. /\ Without(Append(z, e), F)
             = IF e \in F THEN Without(z, F) ELSE Append(Without(z, F), e)
        /\ DueIn(Append(z, e), t)
             = IF e.time # t THEN DueIn(z, t) ELSE Append(DueIn(z, t), Item(e))
    BY DueAppend, WithoutAppend
  <2>3. DueIn(Append(Without(z, F), e), t)
          = IF e.time # t THEN DueIn(Without(z, F), t)
            ELSE Append(DueIn(Without(z, F), t), Item(e))
    BY WithoutTakes, DueAppend
  <2>4. Without(Append(DueIn(z, t), Item(e)), E)
          = IF Item(e) \in E THEN Without(DueIn(z, t), E)
            ELSE Append(Without(DueIn(z, t), E), Item(e))
    BY DueFacts, ItemFacts, WithoutAppend
  <2>5. DueIn(Without(z, F), t) = Without(DueIn(z, t), E) /\ (e \in F <=> Item(e) \in E)
    BY <1>2
  <2>6. Good(Append(z, e))
    <3>1. CASE e \in F
      BY <2>2, <2>4, <2>5, <3>1
    <3>2. CASE e \notin F /\ e.time # t
      BY <2>2, <2>3, <2>5, <3>2
    <3>3. CASE e \notin F /\ e.time = t
      BY <2>2, <2>3, <2>4, <2>5, <3>3
    <3> QED BY <3>1, <3>2, <3>3
  <2> QED BY <2>1, <2>6
<1> HIDE DEF G
<1>3. s \in G
  BY <1>1, <1>2, SeqInduction
<1> QED BY <1>3 DEF G

\* fresh plays no part.
LEMMA DueSame ==
  ASSUME NEW s \in Seq(Event), NEW r \in Seq(Event), NEW t, Len(s) = Len(r),
         \A i \in 1..Len(s) : Item(s[i]) = Item(r[i]) /\ s[i].time = r[i].time
  PROVE  DueIn(s, t) = DueIn(r, t)
<1> DEFINE N == Len(s)
<1>1. PICK k : DueLoop(s, t, k)
  <2>1. Len(s) \in Nat
    OBVIOUS
  <2> QED BY <2>1, DueLoopExists
<1>2. PICK l : DueLoop(r, t, l)
  <2>1. Len(r) \in Nat
    OBVIOUS
  <2> QED BY <2>1, DueLoopExists
<1>3. N \in Nat /\ Len(r) = N
  OBVIOUS
<1> DEFINE G == {n \in 0..N : l[n] = k[n]}
<1>4. 0 \in G
  BY <1>1, <1>2, <1>3 DEF DueLoop
<1>5. ASSUME NEW n \in 1..N, n - 1 \in G PROVE n \in G
  <2>1. /\ Item(s[n]) = Item(r[n]) /\ s[n].time = r[n].time /\ l[n - 1] = k[n - 1]
        /\ n \in 1..Len(s) /\ n \in 1..Len(r) /\ n \in 0..N
    BY <1>3, <1>5
  <2>2. k[n] = IF s[n].time # t THEN k[n - 1] ELSE Append(k[n - 1], Item(s[n]))
    BY <1>1, <2>1 DEF DueLoop
  <2>3. l[n] = IF r[n].time # t THEN l[n - 1] ELSE Append(l[n - 1], Item(r[n]))
    BY <1>2, <2>1 DEF DueLoop
  <2> QED BY <2>1, <2>2, <2>3
<1>6. \A n \in 1..N : n - 1 \in G => n \in G
  BY <1>5
<1> HIDE DEF G, N
<1>7. \A n \in 0..N : n \in G
  BY <1>3, <1>4, <1>6, SetInduction
<1>8. l[N] = k[N]
  BY <1>3, <1>7 DEF G
<1> QED BY <1>1, <1>2, <1>3, <1>8 DEF DueLoop, N

LEMMA CalendarWithout ==
  ASSUME NEW s, NEW E PROVE Calendar!Without(s, E) = Without(s, E)
BY DEF Calendar!Without, Without

-----------------------------------------------------------------------------
(* The calls, as the calendar sees them. *)

Inserted(due, t, i) ==
  [u \in DOMAIN due \cup {t} |->
     IF u # t THEN due[u] ELSE IF t \in DOMAIN due THEN Append(due[t], i) ELSE <<i>>]

LEMMA TableInsert ==
  ASSUME NEW q \in Seq(Event), Sorted(q), NEW e \in Event
  PROVE  LET r == AddEventToQueue(q, e)
         IN  /\ e.time \in DOMAIN DueTable(r)
             /\ DueTable(r) = Inserted(DueTable(q), e.time, Item(e))
<1> DEFINE r == AddEventToQueue(q, e)
           t == e.time
<1>1. PICK n : PutAt(r, q, e, n) /\ r = SubSeq(q, 1, n - 1) \o <<e>> \o SubSeq(q, n, Len(q))
  BY AddEventPuts
<1> DEFINE a == SubSeq(q, 1, n - 1)
           b == SubSeq(q, n, Len(q))
           one == <<e>>
<1>2. /\ n \in 1..(Len(q) + 1) /\ Len(q) \in Nat /\ Len(r) = Len(q) + 1 /\ r[n] = e
      /\ \A i \in 1..(n - 1) : r[i] = q[i]
      /\ \A i \in n..Len(q) : r[i + 1] = q[i] /\ t < q[i].time
  <2>1. PutAt(r, q, e, n) /\ Len(q) \in Nat
    BY <1>1
  <2> HIDE DEF r
  <2> QED BY <2>1 DEF PutAt
<1>3. /\ a \in Seq(Event) /\ b \in Seq(Event) /\ one \in Seq(Event)
      /\ Len(a) = n - 1 /\ \A i \in 1..(n - 1) : a[i] = q[i]
      /\ Len(b) = Len(q) - n + 1 /\ \A i \in 1..Len(b) : b[i] = q[i + n - 1]
  BY <1>2
<1>4. r = a \o one \o b
  BY <1>1
<1> HIDE DEF r, a, b
<1>5. q = a \o b
  <2>1. a \o b \in Seq(Event) /\ Len(a \o b) = Len(q)
    BY <1>2, <1>3
  <2>2. ASSUME NEW i \in 1..Len(q) PROVE (a \o b)[i] = q[i]
    <3>1. CASE i \in 1..(n - 1)
      BY <1>2, <1>3, <3>1
    <3>2. CASE i \in n..Len(q)
      <4> DEFINE j == i - n + 1
      <4>1. j \in 1..Len(b) /\ j + n - 1 = i /\ Len(a) + j = i
        BY <1>2, <1>3, <3>2
      <4>2. b[j] = q[i]
        BY <1>3, <4>1
      <4> HIDE DEF j
      <4>3. (a \o b)[Len(a) + j] = b[j]
        BY <1>3, <4>1
      <4> QED BY <4>1, <4>2, <4>3
    <3>3. i \in 1..(n - 1) \/ i \in n..Len(q)
      BY <1>2
    <3> QED BY <3>1, <3>2, <3>3
  <2> DEFINE v == a \o b
  <2>3. v \in Seq(Event) /\ Len(q) = Len(v) /\ \A i \in 1..Len(q) : q[i] = v[i]
    BY <2>1, <2>2
  <2> HIDE DEF v
  <2>4. q = v
    BY <2>3, SeqEqual
  <2> QED BY <2>4 DEF v
<1>6. Times(r) = Times(q) \cup {t}
  <2>1. ASSUME NEW i \in 1..Len(r) PROVE r[i].time \in Times(q) \cup {t}
    <3>1. i \in 1..(n - 1) \/ i = n \/ i - 1 \in n..Len(q)
      BY <1>2
    <3>2. CASE i \in 1..(n - 1)
      <4>1. i \in 1..Len(q) /\ r[i] = q[i]
        BY <1>2, <3>2
      <4> QED BY <4>1 DEF Times
    <3>3. CASE i = n
      BY <1>2, <3>3
    <3>4. CASE i - 1 \in n..Len(q)
      <4>1. i - 1 \in 1..Len(q) /\ (i - 1) + 1 = i
        BY <1>2, <3>4
      <4>2. r[i] = q[i - 1]
        BY <1>2, <3>4, <4>1
      <4> QED BY <4>1, <4>2 DEF Times
    <3> QED BY <3>1, <3>2, <3>3, <3>4
  <2>2. ASSUME NEW i \in 1..Len(q) PROVE q[i].time \in Times(r)
    <3>1. CASE i \in 1..(n - 1)
      <4>1. i \in 1..Len(r) /\ r[i] = q[i]
        BY <1>2, <3>1
      <4> QED BY <4>1 DEF Times
    <3>2. CASE i \in n..Len(q)
      <4>1. i + 1 \in 1..Len(r) /\ r[i + 1] = q[i]
        BY <1>2, <3>2
      <4> QED BY <4>1 DEF Times
    <3> QED BY <1>2, <3>1, <3>2
  <2>3. t \in Times(r)
    <3>1. n \in 1..Len(r)
      BY <1>2
    <3> QED BY <1>2, <3>1 DEF Times
  <2> QED BY <2>1, <2>2, <2>3 DEF Times
<1>7. t \notin Times(b)
  <2> SUFFICES ASSUME NEW i \in 1..Len(b), b[i].time = t PROVE FALSE
    BY DEF Times
  <2>1. i + n - 1 \in n..Len(q) /\ b[i] = q[i + n - 1]
    BY <1>2, <1>3
  <2>2. t < q[i + n - 1].time
    BY <1>2, <2>1
  <2> QED BY <2>1, <2>2, EventFields
<1> HIDE DEF one, t
<1>8. ASSUME NEW u PROVE DueIn(r, u) = (DueIn(a, u) \o DueIn(one, u)) \o DueIn(b, u)
  <2> DEFINE ao == a \o one
  <2>1. a \in Seq(Event) /\ one \in Seq(Event) /\ b \in Seq(Event) /\ ao \in Seq(Event)
    BY <1>3
  <2>2. JoinOf(r, ao, b) /\ JoinOf(ao, a, one)
    BY <1>4 DEF JoinOf
  <2> HIDE DEF ao
  <2>3. DueJoins(r, ao, b, u) /\ DueJoins(ao, a, one, u)
    BY <2>1, <2>2, DueJoined
  <2> QED BY <2>3 DEF DueJoins
<1>9. ASSUME NEW u PROVE DueIn(q, u) = DueIn(a, u) \o DueIn(b, u)
  <2>1. JoinOf(q, a, b)
    BY <1>5 DEF JoinOf
  <2>2. DueJoins(q, a, b, u)
    BY <1>3, <2>1, DueJoined
  <2> QED BY <2>2 DEF DueJoins
<1>10. ASSUME NEW u \in Times(r)
       PROVE  DueIn(r, u) = IF u # t THEN DueIn(q, u)
                            ELSE IF t \in Times(q) THEN Append(DueIn(q, t), Item(e))
                            ELSE <<Item(e)>>
  <2>1. DueIn(a, u) \in Seq(CalendarEvent) /\ DueIn(b, u) \in Seq(CalendarEvent)
        /\ Item(e) \in CalendarEvent
    BY <1>3, DueFacts, ItemFacts
  <2>2. CASE u # t
    <3>1. DueIn(one, u) = <<>>
      BY <2>2, DueOne DEF one, t
    <3>2. DueIn(a, u) \o DueIn(one, u) = DueIn(a, u)
      BY <2>1, <3>1, ConcatEmptySeq
    <3> QED BY <1>8, <1>9, <2>2, <3>2
  <2>3. CASE u = t
    <3>1. DueIn(one, u) = <<Item(e)>> /\ DueIn(b, u) = <<>>
      BY <1>3, <1>7, <2>3, DueOne, DueFacts DEF one, t
    <3>2. DueIn(q, u) = DueIn(a, u)
      BY <1>9, <2>1, <3>1, ConcatEmptySeq
    <3> DEFINE x == DueIn(a, u)
               i == Item(e)
    <3>3. x \in Seq(CalendarEvent) /\ i \in CalendarEvent
      BY <2>1
    <3>4. DueIn(r, u) = (x \o <<i>>) \o <<>>
      BY <1>8, <3>1
    <3> HIDE DEF x, i
    <3>5. x \o <<i>> = Append(x, i) /\ x \o <<i>> \in Seq(CalendarEvent)
      BY <3>3
    <3>6. DueIn(r, u) = Append(x, i)
      BY <3>4, <3>5, ConcatEmptySeq
    <3>7. x = <<>> => Append(x, i) = <<i>>
      BY <3>3
    <3>8. DueIn(q, u) = <<>> <=> u \notin Times(q)
      BY DueFacts
    <3> QED BY <2>3, <3>2, <3>6, <3>7, <3>8 DEF x, i
  <2> QED BY <2>2, <2>3
<1>11. DOMAIN DueTable(q) = Times(q) /\ \A u \in Times(q) : DueTable(q)[u] = DueIn(q, u)
  BY DEF DueTable
<1>12. DueTable(r) = [u \in Times(r) |-> DueIn(r, u)]
  BY DEF DueTable
<1>13. t \in DOMAIN DueTable(r)
  BY <1>6, <1>12
<1>14. DueTable(r) = Inserted(DueTable(q), t, Item(e))
  <2>1. \A u \in Times(q) \cup {t} :
          DueIn(r, u) = IF u # t THEN DueTable(q)[u]
                        ELSE IF t \in Times(q) THEN Append(DueTable(q)[t], Item(e))
                        ELSE <<Item(e)>>
    BY <1>6, <1>10, <1>11
  <2> QED BY <1>6, <1>11, <1>12, <2>1 DEF Inserted
<1> QED BY <1>13, <1>14 DEF r, t

LEMMA TableWithout ==
  ASSUME NEW q \in Seq(Event), NEW F, NEW E,
         \A e \in Event : e \in F <=> Item(e) \in E
  PROVE  LET due == DueTable(q)
         IN  DueTable(Without(q, F))
               = [t \in {u \in DOMAIN due : Without(due[u], E) # <<>>} |-> Without(due[t], E)]
<1> DEFINE r == Without(q, F)
<1>1. r \in Seq(Event)
  BY WithoutTakes
<1>2. \A t : DueIn(r, t) = Without(DueIn(q, t), E)
  BY DueWithout
<1>3. Times(r) \subseteq Times(q)
  <2>1. PICK f : TakenFrom(r, q, F, f)
    BY WithoutTakes
  <2> HIDE DEF r
  <2> QED BY <2>1 DEF TakenFrom, Times
<1>4. \A t : DueIn(r, t) # <<>> <=> t \in Times(r)
  BY <1>1, DueFacts
<1> HIDE DEF r
<1>5. DOMAIN DueTable(q) = Times(q) /\ \A u \in Times(q) : DueTable(q)[u] = DueIn(q, u)
  BY DEF DueTable
<1>6. {u \in DOMAIN DueTable(q) : Without(DueTable(q)[u], E) # <<>>} = Times(r)
  BY <1>2, <1>3, <1>4, <1>5
<1>7. DueTable(r) = [t \in Times(r) |-> Without(DueTable(q)[t], E)]
  BY <1>2, <1>3, <1>5 DEF DueTable
<1> QED BY <1>6, <1>7 DEF r

LEMMA TableTail ==
  ASSUME NEW q \in Seq(Event), q # <<>>
  PROVE  LET due == DueTable(q)
             t == Head(q).time
         IN  /\ t \in DOMAIN due
             /\ DueTable(Tail(q))
                  = [u \in DOMAIN due \ (IF Len(due[t]) = 1 THEN {t} ELSE {}) |->
                       IF u = t THEN Tail(due[t]) ELSE due[u]]
<1> DEFINE h == Head(q)
           t == h.time
           r == Tail(q)
           one == <<h>>
<1>1. /\ h \in Event /\ r \in Seq(Event) /\ one \in Seq(Event) /\ q = one \o r
      /\ Len(q) = Len(r) + 1 /\ q[1] = h /\ Len(r) \in Nat /\ \A i \in 1..Len(r) : q[i + 1] = r[i]
  OBVIOUS
<1> HIDE DEF r, h
<1>2. Times(q) = Times(r) \cup {t}
  <2>1. \A i \in 1..Len(q) : i = 1 \/ (i - 1 \in 1..Len(r) /\ q[i] = r[i - 1])
    <3> SUFFICES ASSUME NEW i \in 1..Len(q), i # 1
                 PROVE  i - 1 \in 1..Len(r) /\ q[i] = r[i - 1]
      OBVIOUS
    <3>1. i - 1 \in 1..Len(r) /\ (i - 1) + 1 = i
      BY <1>1
    <3> QED BY <1>1, <3>1
  <2>2. 1 \in 1..Len(q) /\ \A i \in 1..Len(r) : i + 1 \in 1..Len(q)
    BY <1>1
  <2>3. Times(q) \subseteq Times(r) \cup {t}
    BY <1>1, <2>1 DEF Times
  <2>4. Times(r) \cup {t} \subseteq Times(q)
    BY <1>1, <2>2 DEF Times
  <2> QED BY <2>3, <2>4
<1>3. \A u : DueIn(q, u) = DueIn(one, u) \o DueIn(r, u)
  <2>1. one \in Seq(Event) /\ r \in Seq(Event) /\ JoinOf(q, one, r)
    BY <1>1 DEF JoinOf
  <2> HIDE DEF one
  <2>2. \A u : DueJoins(q, one, r, u)
    BY <2>1, DueJoined
  <2> QED BY <2>2 DEF DueJoins
<1>4. \A u : DueIn(r, u) \in Seq(CalendarEvent) /\ (DueIn(r, u) # <<>> <=> u \in Times(r))
  BY <1>1, DueFacts
<1>5. \A u : u # t => DueIn(q, u) = DueIn(r, u)
  <2> SUFFICES ASSUME NEW u, u # t PROVE DueIn(q, u) = DueIn(r, u)
    OBVIOUS
  <2>1. DueIn(one, u) = <<>>
    BY <1>1, DueOne
  <2> HIDE DEF one
  <2> QED BY <1>3, <1>4, <2>1, ConcatEmptySeq
<1>6. Tail(DueIn(q, t)) = DueIn(r, t) /\ (Len(DueIn(q, t)) = 1 <=> t \notin Times(r))
  <2> DEFINE i == Item(h)
             x == DueIn(r, t)
  <2>1. i \in CalendarEvent /\ x \in Seq(CalendarEvent) /\ (x # <<>> <=> t \in Times(r))
    BY <1>1, <1>4, ItemFacts
  <2>2. DueIn(one, t) = <<i>>
    BY <1>1, DueOne
  <2>3. DueIn(q, t) = <<i>> \o x
    BY <1>3, <2>2
  <2> HIDE DEF i, x
  <2>4. Tail(<<i>> \o x) = x /\ Len(<<i>> \o x) = Len(x) + 1 /\ Len(x) \in Nat
    BY <2>1
  <2>5. x = <<>> <=> Len(x) = 0
    BY <2>1
  <2>6. Tail(DueIn(q, t)) = x /\ Len(DueIn(q, t)) = Len(x) + 1
    BY <2>3, <2>4
  <2> QED BY <2>1, <2>4, <2>5, <2>6 DEF x
<1> HIDE DEF t, one
<1>7. DOMAIN DueTable(q) = Times(q) /\ \A u \in Times(q) : DueTable(q)[u] = DueIn(q, u)
  BY DEF DueTable
<1>8. DOMAIN DueTable(q) \ (IF Len(DueTable(q)[t]) = 1 THEN {t} ELSE {}) = Times(r)
  BY <1>2, <1>6, <1>7
<1>9. DueTable(r) = [u \in Times(r) |-> IF u = t THEN Tail(DueTable(q)[t]) ELSE DueTable(q)[u]]
  <2>1. \A u \in Times(r) :
          DueIn(r, u) = IF u = t THEN Tail(DueTable(q)[t]) ELSE DueTable(q)[u]
    BY <1>2, <1>5, <1>6, <1>7
  <2> QED BY <2>1 DEF DueTable
<1>10. t \in DOMAIN DueTable(q)
  BY <1>2, <1>7
<1> QED BY <1>8, <1>9, <1>10 DEF r, t, h

LEMMA InitCalendar == Init => Calendar!Init
<1> SUFFICES ASSUME Init PROVE Calendar!Init
  OBVIOUS
<1> DEFINE e == [type |-> "enterVblank", userdata |-> vbCount,
                 time |-> (FrameMs - VblankMs) * InitialHz, fresh |-> TRUE]
           i == Item(e)
           t == e.time
<1>1. queue = <<e>> /\ GetTicks = 0
  BY SliceAssumption DEF Init, GetTicks
<1>2. e \in Event
  <2>1. FrameMs - VblankMs \in Nat /\ InitialHz \in Nat
    BY FrameAssumption, ClockAssumption
  <2>2. e.time \in Int
    BY <2>1
  <2> QED BY <2>2 DEF Event, EventType, Display
<1>3. i \in CalendarEvent
  BY <1>2, ItemFacts
<1> HIDE DEF e
<1>4. Times(queue) = {t} /\ DueIn(queue, t) = <<i>>
  <2>1. Len(queue) = 1 /\ queue[1] = e
    BY <1>1
  <2>2. Times(queue) = {t}
    BY <2>1 DEF Times
  <2> QED BY <1>1, <1>2, <2>2, DueOne
<1> HIDE DEF t, i
<1>5. DueTable(queue) = [u \in {t} |-> <<i>>] /\ t \in DOMAIN DueTable(queue)
  BY <1>4 DEF DueTable
<1> QED BY <1>1, <1>3, <1>5 DEF Calendar!Init

LEMMA AddedInCalendar ==
  ASSUME CoreInv, NEW e \in Event, queue' = AddEventToQueue(queue, e),
         GetTicks' = GetTicks
  PROVE  Calendar!Next
<1>1. queue \in Seq(Event) /\ Sorted(queue)
  BY DEF CoreInv, Typed
<1> DEFINE t == e.time
<1>2. /\ t \in DOMAIN DueTable(queue')
      /\ DueTable(queue') = Inserted(DueTable(queue), t, Item(e))
  BY <1>1, TableInsert
<1> HIDE DEF t
<1>3. Calendar!Schedule(t, Item(e))
  BY <1>2 DEF Calendar!Schedule, Inserted
<1> QED BY <1>2, <1>3, ItemFacts DEF Calendar!Next

LEMMA RemovedInCalendar ==
  ASSUME CoreInv, NEW F, NEW E \in Cancelled, queue' = Without(queue, F),
         \A e \in Event : e \in F <=> Item(e) \in E, GetTicks' = GetTicks
  PROVE  Calendar!Next
<1>1. queue \in Seq(Event)
  BY DEF CoreInv, Typed
<1>2. DueTable(queue') = [t \in {u \in DOMAIN DueTable(queue) :
                                    Without(DueTable(queue)[u], E) # <<>>} |->
                            Without(DueTable(queue)[t], E)]
  BY <1>1, TableWithout
<1>3. Calendar!Cancel(E)
  BY <1>2, CalendarWithout DEF Calendar!Cancel
<1> QED BY <1>3 DEF Calendar!Next

\* Cancelling the events of a type and userdata, or all of a type.
LEMMA CancelledFacts ==
  ASSUME NEW type \in Type
  PROVE  /\ \A userdata \in UserData :
              \E E \in Cancelled : \A e \in Event :
                e \in {x \in Event : x.type = type /\ x.userdata = userdata} <=> Item(e) \in E
         /\ \E E \in Cancelled : \A e \in Event :
              e \in {x \in Event : x.type = type} <=> Item(e) \in E
<1>1. ASSUME NEW userdata \in UserData
      PROVE  \E E \in Cancelled : \A e \in Event :
               e \in {x \in Event : x.type = type /\ x.userdata = userdata} <=> Item(e) \in E
  <2> DEFINE E == {[type |-> type, userdata |-> userdata]}
  <2>1. E \in Cancelled
    BY DEF Cancelled
  <2>2. \A e \in Event :
          e \in {x \in Event : x.type = type /\ x.userdata = userdata} <=> Item(e) \in E
    BY DEF Item
  <2> QED BY <2>1, <2>2
<1>2. \E E \in Cancelled : \A e \in Event :
        e \in {x \in Event : x.type = type} <=> Item(e) \in E
  <2> DEFINE all(y) == [type : {y}, userdata : UserData \cup {vbCount}]
             E == all(type)
  <2>1. E \in {all(y) : y \in Type}
    <3> HIDE DEF all
    <3> QED OBVIOUS
  <2>2. E \in Cancelled
    <3>1. {all(y) : y \in Type} \subseteq Cancelled
      BY DEF Cancelled
    <3> HIDE DEF all
    <3> QED BY <2>1, <3>1
  <2>3. \A e \in Event : e \in {x \in Event : x.type = type} <=> Item(e) \in E
    BY EventFields DEF Item
  <2> QED BY <2>2, <2>3
<1> QED BY <1>1, <1>2

LEMMA FiredInCalendar ==
  ASSUME CoreInv, ProcessEvents PROVE Calendar!Next
<1> DEFINE t == Head(queue).time
<1>1. queue \in Seq(Event) /\ Sorted(queue) /\ queue # <<>> /\ queue' = Tail(queue)
      /\ t <= GetTicks /\ GetTicks' = GetTicks
  BY ProcessEventsCore DEF CoreInv, Typed, ProcessEvents, Due
<1>2. /\ t \in DOMAIN DueTable(queue)
      /\ DueTable(queue')
           = [u \in DOMAIN DueTable(queue) \
                      (IF Len(DueTable(queue)[t]) = 1 THEN {t} ELSE {}) |->
                IF u = t THEN Tail(DueTable(queue)[t]) ELSE DueTable(queue)[u]]
  BY <1>1, TableTail
<1>3. \A u \in DOMAIN DueTable(queue) : t <= u
  BY <1>1, TailSorted DEF DueTable, Times
<1> HIDE DEF t
<1>4. Calendar!Fire(t)
  BY <1>1, <1>2, <1>3 DEF Calendar!Fire
<1> QED BY <1>2, <1>4 DEF Calendar!Next

LEMMA TimePassesInCalendar ==
  ASSUME CoreInv, CoreInv', UNCHANGED queue, GetTicks <= GetTicks'
  PROVE  Calendar!Next \/ UNCHANGED Calendar!calendarvars
<1>1. GetTicks \in Int /\ GetTicks' \in Int
  BY TicksFacts DEF CoreInv, Typed, GetTicks
<1>2. DueTable(queue)' = DueTable(queue)
  OBVIOUS
<1>3. CASE GetTicks' = GetTicks
  BY <1>2, <1>3 DEF Calendar!calendarvars
<1>4. CASE GetTicks' > GetTicks
  BY <1>1, <1>2, <1>4 DEF Calendar!Next, Calendar!Pass
<1> QED BY <1>1, <1>3, <1>4

LEMMA ReturnsInCalendar ==
  ASSUME CoreInv, AdvanceReturns PROVE UNCHANGED Calendar!calendarvars
<1>1. /\ queue \in Seq(Event) /\ queue' \in Seq(Event) /\ Len(queue') = Len(queue)
      /\ GetTicks' = GetTicks
      /\ \A i \in 1..Len(queue) : /\ Item(queue'[i]) = Item(queue[i])
                                  /\ queue'[i].time = queue[i].time
  BY AdvanceReturnsCore DEF CoreInv, Typed, Item
<1>2. Times(queue') = Times(queue)
  BY <1>1 DEF Times
<1>3. \A t : DueIn(queue', t) = DueIn(queue, t)
  BY <1>1, DueSame
<1>4. DueTable(queue') = DueTable(queue)
  BY <1>2, <1>3 DEF DueTable
<1> QED BY <1>1, <1>4 DEF Calendar!calendarvars

LEMMA CalendarStep ==
  ASSUME CoreInv, [Next]_timingvars
  PROVE  [Calendar!Next]_(Calendar!calendarvars)
<1> DEFINE Goal == Calendar!Next \/ UNCHANGED Calendar!calendarvars
<1> SUFFICES Goal
  OBVIOUS
<1>1. CoreInv' /\ GetTicks <= GetTicks'
  BY CoreStep
<1>2. UNCHANGED queue => Goal
  BY <1>1, TimePassesInCalendar
<1>3. ASSUME NEW type \in Type, NEW userdata \in UserData, NEW d \in Delay,
             ScheduleEvent(d, type, userdata)
      PROVE  Goal
  BY <1>3, ScheduleCore, AddedInCalendar DEF ScheduleEvent
<1>4. ASSUME NEW type \in Type, NEW userdata \in UserData, UnscheduleEvent(type, userdata)
      PROVE  Goal
  <2> DEFINE F == {x \in Event : x.type = type /\ x.userdata = userdata}
  <2>1. queue' = Without(queue, F) /\ GetTicks' = GetTicks
    BY <1>4 DEF UnscheduleEvent, GetTicks
  <2>2. PICK E \in Cancelled : \A e \in Event : e \in F <=> Item(e) \in E
    BY CancelledFacts
  <2> HIDE DEF F
  <2> QED BY <2>1, <2>2, RemovedInCalendar
<1>5. ASSUME NEW type \in Type, RemoveEvent(type) PROVE Goal
  <2> DEFINE F == {x \in Event : x.type = type}
  <2>1. queue' = Without(queue, F) /\ GetTicks' = GetTicks
    BY <1>5 DEF RemoveEvent, GetTicks
  <2>2. PICK E \in Cancelled : \A e \in Event : e \in F <=> Item(e) \in E
    BY CancelledFacts
  <2> HIDE DEF F
  <2> QED BY <2>1, <2>2, RemovedInCalendar
<1>6. CASE ProcessEvents
  BY <1>6, FiredInCalendar
<1>7. CASE hleEnterVblank \/ hleLeaveVblank
  <2>1. /\ VblankMs \in Nat /\ FrameMs - VblankMs \in Nat
        /\ "enterVblank" \in Display /\ "leaveVblank" \in Display
    BY FrameAssumption DEF Display
  <2>2. ASSUME NEW at \in Display, NEW next \in Display, NEW ms \in Nat,
               DisplayHandler(at, next, ms)
        PROVE  Goal
    <3> DEFINE e == VblankEvent(at, next, msToCycles(ms), frames[Len(frames)].late)
    <3>1. GetTicks' = GetTicks /\ e \in Event /\ queue' = AddEventToQueue(queue, e)
      BY <2>2, DisplayHandlerCore
    <3> HIDE DEF e
    <3> QED BY <3>1, AddedInCalendar
  <2> HIDE DEF Goal
  <2>3. CASE hleEnterVblank
    BY <2>1, <2>2, <2>3 DEF hleEnterVblank
  <2>4. CASE hleLeaveVblank
    BY <2>1, <2>2, <2>4 DEF hleLeaveVblank
  <2> QED BY <1>7, <2>3, <2>4
<1>8. CASE AdvanceReturns
  BY <1>8, ReturnsInCalendar
<1> HIDE DEF Goal
<1>9. CASE UNCHANGED timingvars
  BY <1>2, <1>9 DEF timingvars
<1>10. ASSUME NEW n \in 1..MaxBlock, Execute(n) \/ hleEatCycles(n) PROVE Goal
  BY <1>2, <1>10 DEF Execute, hleEatCycles
<1>11. CASE ForceCheck \/ Idle \/ GetGlobalTimeUs \/ Advance \/ HandlerReturns
  BY <1>2, <1>11 DEF ForceCheck, Idle, GetGlobalTimeUs, Advance, HandlerReturns
<1>12. ASSUME NEW hz \in Hz, SetClockFrequencyHz(hz) PROVE Goal
  BY <1>2, <1>12 DEF SetClockFrequencyHz
<1> QED BY <1>3, <1>4, <1>5, <1>6, <1>7, <1>8, <1>9, <1>10, <1>11, <1>12 DEF Next

\* The list, with its slices, nested handlers and narrow ints, implements the calendar:
\* an event fires at its time or later, never before one that was due earlier, those of
\* the same time fire in the order they were scheduled in, and an event leaves the list
\* only by firing, UnscheduleEvent() or RemoveEvent().
THEOREM CalendarHolds == Spec => ImplementsCalendar
<1>1. CoreInv /\ [Next]_timingvars => [Calendar!Next]_(Calendar!calendarvars)
  BY CalendarStep
<1> QED BY <1>1, CoreHolds, InitCalendar, PTL DEF Spec, ImplementsCalendar, Calendar!Spec

-----------------------------------------------------------------------------
(* The display keeps its pace as long as the ints are wide enough. *)

\* A slice, what a block can run over and a frame fit an int together, at any
\* frequency.
WideEnough ==
  /\ InitialSlice <= MaxSlice
  /\ \A hz \in Hz : FrameMs * hz + MaxSlice + 2 * MaxBlock < IntLimit

\* No event of the list is so late that cyclesLate would wrap.
NeverWraps == \A i \in 1..Len(queue) : GetTicks - queue[i].time < IntLimit

IsDisplay(e) == e.type \in Display
NoDisplay(q) == \A i \in 1..Len(q) : ~IsDisplay(q[i])
OneDisplay(q) ==
  \E i \in 1..Len(q) : IsDisplay(q[i]) /\ \A j \in 1..Len(q) : IsDisplay(q[j]) => j = i

LEMMA InsertDisplay ==
  ASSUME NEW q, NEW r, NEW e, NEW n, Len(q) \in Nat, PutAt(r, q, e, n)
  PROVE  /\ \A i \in 1..Len(r) : r[i] = e \/ \E j \in 1..Len(q) : r[i] = q[j]
         /\ ~IsDisplay(e) => /\ NoDisplay(q) => NoDisplay(r)
                             /\ OneDisplay(q) => OneDisplay(r)
         /\ IsDisplay(e) /\ NoDisplay(q) => OneDisplay(r)
<1>1. /\ n \in 1..(Len(q) + 1) /\ Len(r) = Len(q) + 1 /\ r[n] = e
      /\ \A i \in 1..(n - 1) : r[i] = q[i]
      /\ \A i \in n..Len(q) : r[i + 1] = q[i]
  BY DEF PutAt
<1>2. ASSUME NEW i \in 1..Len(r)
      PROVE  \/ i = n
             \/ i \in 1..(n - 1) /\ i \in 1..Len(q) /\ r[i] = q[i]
             \/ i - 1 \in n..Len(q) /\ i - 1 \in 1..Len(q) /\ r[i] = q[i - 1]
  <2>1. CASE i \in 1..(n - 1)
    BY <1>1, <2>1
  <2>2. CASE i - 1 \in n..Len(q)
    <3>1. i - 1 \in 1..Len(q) /\ (i - 1) + 1 = i
      BY <1>1, <2>2
    <3> QED BY <1>1, <2>2, <3>1
  <2>3. i = n \/ i \in 1..(n - 1) \/ i - 1 \in n..Len(q)
    BY <1>1
  <2> QED BY <2>1, <2>2, <2>3
<1>3. \A i \in 1..Len(r) : r[i] = e \/ \E j \in 1..Len(q) : r[i] = q[j]
  BY <1>1, <1>2
<1>4. ASSUME ~IsDisplay(e), OneDisplay(q) PROVE OneDisplay(r)
  <2>1. PICK i \in 1..Len(q) : IsDisplay(q[i]) /\ \A j \in 1..Len(q) : IsDisplay(q[j]) => j = i
    BY <1>4 DEF OneDisplay
  <2> DEFINE m == IF i < n THEN i ELSE i + 1
  <2>2. m \in 1..Len(r) /\ r[m] = q[i]
    BY <1>1
  <2>3. ASSUME NEW j \in 1..Len(r), IsDisplay(r[j]) PROVE j = m
    <3>1. CASE j = n
      BY <1>1, <1>4, <2>3, <3>1
    <3>2. CASE j \in 1..(n - 1) /\ j \in 1..Len(q) /\ r[j] = q[j]
      BY <1>1, <2>1, <2>3, <3>2
    <3>3. CASE j - 1 \in n..Len(q) /\ j - 1 \in 1..Len(q) /\ r[j] = q[j - 1]
      <4>1. j - 1 = i
        BY <2>1, <2>3, <3>3
      <4> QED BY <1>1, <2>3, <3>3, <4>1
    <3> QED BY <1>2, <3>1, <3>2, <3>3
  <2> HIDE DEF m
  <2> QED BY <2>1, <2>2, <2>3 DEF OneDisplay
<1>5. ASSUME IsDisplay(e), NoDisplay(q) PROVE OneDisplay(r)
  <2>1. n \in 1..Len(r)
    BY <1>1
  <2>2. ASSUME NEW j \in 1..Len(r), IsDisplay(r[j]) PROVE j = n
    BY <1>2, <1>5, <2>2 DEF NoDisplay
  <2> QED BY <1>1, <1>5, <2>1, <2>2 DEF OneDisplay
<1>6. ~IsDisplay(e) /\ NoDisplay(q) => NoDisplay(r)
  BY <1>3 DEF NoDisplay
<1> QED BY <1>3, <1>4, <1>5, <1>6

LEMMA RemoveDisplay ==
  ASSUME NEW q \in Seq(Event), NEW F, \A e \in F : ~IsDisplay(e)
  PROVE  LET r == Without(q, F)
         IN  (NoDisplay(q) => NoDisplay(r)) /\ (OneDisplay(q) => OneDisplay(r))
<1> DEFINE r == Without(q, F)
<1>1. PICK f : TakenFrom(r, q, F, f)
  BY WithoutTakes
<1>2. r \in Seq(Event)
  BY WithoutTakes
<1> HIDE DEF r
<1>3. /\ \A i \in 1..Len(r) : f[i] \in 1..Len(q) /\ r[i] = q[f[i]]
      /\ \A i, j \in 1..Len(r) : i < j => f[i] < f[j]
      /\ \A m \in 1..Len(q) : q[m] \in F \/ \E i \in 1..Len(r) : f[i] = m
  BY <1>1 DEF TakenFrom
<1>4. NoDisplay(q) => NoDisplay(r)
  BY <1>3 DEF NoDisplay
<1>5. ASSUME OneDisplay(q) PROVE OneDisplay(r)
  <2>1. PICK m \in 1..Len(q) : IsDisplay(q[m]) /\ \A j \in 1..Len(q) : IsDisplay(q[j]) => j = m
    BY <1>5 DEF OneDisplay
  <2>2. PICK i \in 1..Len(r) : f[i] = m
    BY <1>3, <2>1
  <2>3. ASSUME NEW j \in 1..Len(r), IsDisplay(r[j]) PROVE j = i
    <3>1. f[j] = m
      BY <1>3, <2>1, <2>3
    <3>2. ~(i < j) /\ ~(j < i) /\ i \in Int /\ j \in Int
      BY <1>3, <2>2, <3>1
    <3> QED BY <3>2
  <2> QED BY <1>3, <2>1, <2>2, <2>3 DEF OneDisplay
<1> QED BY <1>4, <1>5 DEF r

LEMMA TailDisplay ==
  ASSUME NEW q \in Seq(Event), q # <<>>, Sorted(q)
  PROVE  LET r == Tail(q)
         IN  /\ NoDisplay(q) => ~IsDisplay(Head(q)) /\ NoDisplay(r)
             /\ OneDisplay(q) => IF IsDisplay(Head(q)) THEN NoDisplay(r) ELSE OneDisplay(r)
<1> DEFINE r == Tail(q)
<1>1. /\ 1 \in 1..Len(q) /\ Head(q) = q[1] /\ Len(r) = Len(q) - 1
      /\ \A i \in 1..Len(r) : i + 1 \in 1..Len(q) /\ r[i] = q[i + 1]
      /\ Len(q) \in Nat
  BY TailSorted
<1> HIDE DEF r
<1>2. NoDisplay(q) => ~IsDisplay(Head(q)) /\ NoDisplay(r)
  BY <1>1 DEF NoDisplay
<1>3. ASSUME OneDisplay(q) PROVE IF IsDisplay(Head(q)) THEN NoDisplay(r) ELSE OneDisplay(r)
  <2>1. PICK m \in 1..Len(q) : IsDisplay(q[m]) /\ \A j \in 1..Len(q) : IsDisplay(q[j]) => j = m
    BY <1>3 DEF OneDisplay
  <2>2. ASSUME IsDisplay(Head(q)) PROVE NoDisplay(r)
    <3>1. m = 1
      BY <1>1, <2>1, <2>2
    <3>2. ASSUME NEW i \in 1..Len(r), IsDisplay(r[i]) PROVE FALSE
      BY <1>1, <2>1, <3>1, <3>2
    <3> QED BY <3>2 DEF NoDisplay
  <2>3. ASSUME ~IsDisplay(Head(q)) PROVE OneDisplay(r)
    <3>1. m - 1 \in 1..Len(r) /\ r[m - 1] = q[m]
      <4>1. m # 1 /\ m - 1 \in 1..Len(r) /\ (m - 1) + 1 = m
        BY <1>1, <2>1, <2>3
      <4> QED BY <1>1, <4>1
    <3>2. ASSUME NEW i \in 1..Len(r), IsDisplay(r[i]) PROVE i = m - 1
      BY <1>1, <2>1, <3>2
    <3> QED BY <2>1, <3>1, <3>2 DEF OneDisplay
  <2> QED BY <2>2, <2>3
<1> QED BY <1>2, <1>3 DEF r

\* The display's two events divide the frame.
LEMMA Grid ==
  ASSUME NEW h \in Nat \ {0}, NEW m \in Nat, NEW v \in Nat \ {0}, v < m, NEW t \in Int
  PROVE  /\ t % (m * h) = (m - v) * h => (t + v * h) % (m * h) = 0
         /\ t % (m * h) = 0 => (t + (m - v) * h) % (m * h) = (m - v) * h
<1> DEFINE a == v * h
           b == (m - v) * h
           F == m * h
           k == t \div F
<1>1. a \in Nat \ {0} /\ b \in Nat \ {0}
  <2>1. m - v \in Nat \ {0}
    OBVIOUS
  <2>2. h * v >= h /\ h * (m - v) >= h
    BY <2>1, ProductGrows
  <2> QED BY <2>1, <2>2
<1>2. F = a + b
  OBVIOUS
<1> HIDE DEF a, b, F
<1>3. F \in Nat \ {0}
  BY <1>1, <1>2
<1>4. k \in Int /\ t % F \in 0..(F - 1) /\ t = F * k + (t % F)
  BY <1>3, Division
<1> HIDE DEF k
<1>5. /\ \A i \in Int : F * i \in Int /\ F * (i + 1) = F * i + F
      /\ \A i \in Int, r \in 0..(F - 1) : (F * i + r) % F = r
  BY <1>3, Remainder
<1>6. ASSUME t % F = b PROVE (t + a) % F = 0
  <2>1. t + a = F * (k + 1) + 0 /\ k + 1 \in Int
    BY <1>1, <1>2, <1>4, <1>5, <1>6
  <2>2. 0 \in 0..(F - 1)
    BY <1>3
  <2>3. (F * (k + 1) + 0) % F = 0
    BY <1>5, <2>1, <2>2
  <2> QED BY <2>1, <2>3
<1>7. ASSUME t % F = 0 PROVE (t + b) % F = b
  <2>1. t + b = F * k + b /\ b \in 0..(F - 1)
    BY <1>1, <1>2, <1>4, <1>5, <1>7
  <2> QED BY <1>4, <1>5, <2>1
<1> QED BY <1>6, <1>7 DEF a, b, F

\* The display's handler is about to run.
Coming == frames # <<>> /\ frames[Len(frames)].at \in Display

\* The clock has not been rebased since emulation started, or has just started.
Steady == (lastGlobalTimeTicks = 0 /\ CPU_HZ = InitialHz) \/ GetTicks = 0

Phase(type) == IF type = "enterVblank" THEN FrameMs - VblankMs ELSE 0
OnGrid(type, t) == t % (FrameMs * InitialHz) = Phase(type) * InitialHz
KeepsPace(type, t) == 0 < t /\ (Steady => OnGrid(type, t))

Reach == IntLimit - MaxSlice - 2 * MaxBlock

\* One event of the display, on its grid and at most a frame away.
DisplayInv ==
  /\ \A i \in 1..(Len(frames) - 1) : frames[i].at \notin Display
  /\ IF Coming THEN NoDisplay(queue) ELSE OneDisplay(queue)
  /\ \A i \in 1..Len(queue) : IsDisplay(queue[i]) =>
       /\ KeepsPace(queue[i].type, queue[i].time)
       /\ queue[i].time < GetTicks + Reach
  /\ Coming => /\ frames[Len(frames)].late \in Nat
               /\ KeepsPace(frames[Len(frames)].at, GetTicks - frames[Len(frames)].late)

WidthInv ==
  /\ 0 <= globalTimer /\ 0 <= lastGlobalTimeTicks /\ lastGlobalTimeTicks <= GetTicks
  /\ 0 <= lastGlobalTimeUs
  /\ -1 <= slicelength /\ slicelength <= MaxSlice
  /\ 0 < downcount + 2 * MaxBlock

PaceInv == CoreInv /\ WidthInv /\ DisplayInv

LEMMA FrameCycles ==
  ASSUME WideEnough, NEW hz \in Hz, NEW ms \in 0..FrameMs
  PROVE  /\ hz \in Nat \ {0} /\ ms * hz \in Nat /\ ms * hz < Reach
         /\ Reach \in Int /\ MaxSlice + 2 * MaxBlock + Reach = IntLimit
<1>1. hz \in Nat \ {0} /\ FrameMs \in Nat /\ MaxSlice \in Nat /\ MaxBlock \in Nat /\ IntLimit \in Nat
  BY ClockAssumption, FrameAssumption, SliceAssumption
<1>2. ms \in Nat /\ ms <= FrameMs
  BY <1>1
<1>3. ms * hz <= FrameMs * hz /\ FrameMs * hz \in Int /\ ms * hz \in Int
  BY <1>1, <1>2, ProductMonotone
<1>4. ms * hz \in Nat
  BY <1>1, <1>2
<1>5. FrameMs * hz + MaxSlice + 2 * MaxBlock < IntLimit
  BY DEF WideEnough
<1> DEFINE p == ms * hz
           w == FrameMs * hz
<1>6. p <= w /\ w \in Int /\ p \in Int /\ w + MaxSlice + 2 * MaxBlock < IntLimit
  BY <1>3, <1>5
<1> HIDE DEF p, w
<1>7. p < Reach /\ Reach \in Int /\ MaxSlice + 2 * MaxBlock + Reach = IntLimit
  BY <1>1, <1>6 DEF Reach
<1> QED BY <1>1, <1>4, <1>7 DEF p

LEMMA InitPace == WideEnough /\ Init => PaceInv
<1> SUFFICES ASSUME WideEnough, Init PROVE PaceInv
  OBVIOUS
<1> DEFINE t == (FrameMs - VblankMs) * InitialHz
           e == [type |-> "enterVblank", userdata |-> vbCount, time |-> t, fresh |-> TRUE]
<1>1. CoreInv
  BY InitCore
<1>2. queue = <<e>> /\ frames = <<>> /\ GetTicks = 0 /\ lastGlobalTimeTicks = 0
  BY SliceAssumption DEF Init, GetTicks
<1>3. InitialHz \in Hz /\ FrameMs - VblankMs \in 0..FrameMs /\ FrameMs - VblankMs \in Nat \ {0}
  BY ClockAssumption, FrameAssumption
<1>4. t \in Nat /\ t < 0 + Reach /\ InitialHz \in Nat \ {0}
  BY <1>3, FrameCycles
<1>5. 0 < t
  <2>1. InitialHz * (FrameMs - VblankMs) >= InitialHz
    BY <1>3, <1>4, ProductGrows
  <2> QED BY <1>3, <1>4, <2>1
<1>6. OnGrid("enterVblank", t)
  <2>1. FrameMs \in Nat /\ VblankMs \in Nat \ {0} /\ VblankMs < FrameMs
    BY FrameAssumption
  <2>2. 0 % (FrameMs * InitialHz) = 0
    <3>1. FrameMs * InitialHz \in Nat \ {0}
      <4>1. FrameMs \in 0..FrameMs /\ FrameMs >= 1
        BY <2>1
      <4>2. InitialHz * FrameMs >= InitialHz
        BY <1>4, <2>1, <4>1, ProductGrows
      <4>3. FrameMs * InitialHz \in Nat
        BY <1>3, <4>1, FrameCycles
      <4> QED BY <1>4, <2>1, <4>2, <4>3
    <3> DEFINE F == FrameMs * InitialHz
    <3>2. F \in Nat \ {0}
      BY <3>1
    <3> HIDE DEF F
    <3>3. 0 \in 0..(F - 1) /\ F * 0 + 0 = 0
      BY <3>2
    <3>4. (F * 0 + 0) % F = 0
      BY <3>2, <3>3, Remainder
    <3> QED BY <3>3, <3>4 DEF F
  <2>3. (0 + (FrameMs - VblankMs) * InitialHz) % (FrameMs * InitialHz)
           = (FrameMs - VblankMs) * InitialHz
    BY <1>4, <2>1, <2>2, Grid
  <2>4. 0 + t = t
    BY <1>4
  <2> QED BY <2>3, <2>4 DEF OnGrid, Phase
<1>7. IsDisplay(e) /\ e.type = "enterVblank" /\ e.time = t
  BY DEF IsDisplay, Display
<1> HIDE DEF t, e
<1>8. Len(queue) = 1 /\ queue[1] = e /\ Len(frames) = 0
  BY <1>2
<1>9. DisplayInv
  <2>1. ~Coming /\ OneDisplay(queue)
    BY <1>2, <1>7, <1>8 DEF Coming, OneDisplay
  <2>2. KeepsPace(e.type, e.time) /\ e.time < GetTicks + Reach
    BY <1>2, <1>4, <1>5, <1>6, <1>7 DEF KeepsPace
  <2>3. \A i \in 1..Len(queue) : queue[i] = e
    BY <1>8
  <2>4. \A i \in 1..(Len(frames) - 1) : frames[i].at \notin Display
    BY <1>8
  <2> QED BY <2>1, <2>2, <2>3, <2>4 DEF DisplayInv
<1>10. WidthInv
  BY <1>2, SliceAssumption DEF WidthInv, Init, WideEnough
<1> QED BY <1>1, <1>9, <1>10 DEF PaceInv

LEMMA PaceFacts ==
  ASSUME PaceInv
  PROVE  /\ GetTicks \in Nat /\ globalTimer \in Nat
         /\ queue \in Seq(Event) /\ Sorted(queue) /\ Len(queue) \in Nat
         /\ \A i \in 1..Len(queue) : queue[i] \in Event /\ queue[i].time \in Int
         /\ frames \in Seq(Frame) /\ Len(frames) \in Nat
         /\ frames # <<>> => Len(frames) >= 1 /\ frames[Len(frames)] \in Frame
         /\ ~Coming => \A i \in 1..Len(frames) : frames[i].at \notin Display
<1>1. GetTicks \in Nat /\ globalTimer \in Nat
  BY TicksFacts DEF PaceInv, WidthInv, CoreInv, Typed
<1>2. /\ queue \in Seq(Event) /\ Sorted(queue) /\ Len(queue) \in Nat
      /\ frames \in Seq(Frame) /\ Len(frames) \in Nat
      /\ \A i \in 1..Len(queue) : queue[i] \in Event
  BY DEF PaceInv, CoreInv, Typed
<1>3. \A i \in 1..Len(queue) : queue[i].time \in Int
  BY <1>2, EventFields
<1>4. frames # <<>> => Len(frames) >= 1 /\ frames[Len(frames)] \in Frame
  BY <1>2
<1>5. ASSUME ~Coming, NEW i \in 1..Len(frames) PROVE frames[i].at \notin Display
  <2>1. i \in 1..(Len(frames) - 1) \/ (i = Len(frames) /\ frames # <<>>)
    BY <1>2
  <2> QED BY <1>5, <2>1 DEF PaceInv, DisplayInv, Coming
<1> QED BY <1>1, <1>2, <1>3, <1>4, <1>5

\* The clock does not become steady again.
LEMMA PaceKept ==
  ASSUME PaceInv, [Next]_timingvars
  PROVE  /\ GetTicks <= GetTicks' /\ GetTicks' \in Nat
         /\ Steady' => Steady
<1>1. CoreInv' /\ GetTicks <= GetTicks' /\ (UNCHANGED clock \/ Rebased)
  BY CoreStep DEF PaceInv
<1>2. GetTicks \in Nat /\ GetTicks' \in Nat
  <2>1. GetTicks \in Nat
    BY PaceFacts
  <2>2. GetTicks' \in Int
    BY <1>1 DEF CoreInv, Typed, GetTicks
  <2> QED BY <1>1, <2>1, <2>2
<1>3. Steady' => Steady
  <2> DEFINE now == GetTicks
             next == GetTicks'
  <2>1. now \in Nat /\ next \in Nat /\ now <= next
    BY <1>1, <1>2
  <2>2. Steady' <=> (lastGlobalTimeTicks' = 0 /\ CPU_HZ' = InitialHz) \/ next = 0
    BY DEF Steady
  <2>3. Steady <=> (lastGlobalTimeTicks = 0 /\ CPU_HZ = InitialHz) \/ now = 0
    BY DEF Steady
  <2>4. UNCHANGED clock \/ lastGlobalTimeTicks' = now
    BY <1>1 DEF Rebased
  <2> HIDE DEF now, next
  <2> QED BY <2>1, <2>2, <2>3, <2>4 DEF clock
<1> QED BY <1>1, <1>2, <1>3

\* No handler of the display is about to run, before or after the step.
LEMMA DisplayKept ==
  ASSUME WideEnough, PaceInv, [Next]_timingvars, ~Coming, ~Coming',
         \A i \in 1..(Len(frames') - 1) : frames'[i].at \notin Display,
         OneDisplay(queue'),
         \A i \in 1..Len(queue') : IsDisplay(queue'[i]) =>
           \E j \in 1..Len(queue) : /\ queue'[i].type = queue[j].type
                                    /\ queue'[i].time = queue[j].time
  PROVE  DisplayInv'
<1>1. ASSUME NEW i \in 1..Len(queue'), IsDisplay(queue'[i])
      PROVE  /\ 0 < queue'[i].time
             /\ Steady' => OnGrid(queue'[i].type, queue'[i].time)
             /\ queue'[i].time < GetTicks' + Reach
  <2>1. PICK j \in 1..Len(queue) : /\ queue'[i].type = queue[j].type
                                   /\ queue'[i].time = queue[j].time
    BY <1>1
  <2>2. /\ 0 < queue[j].time /\ queue[j].time < GetTicks + Reach
        /\ Steady => OnGrid(queue[j].type, queue[j].time)
    BY <1>1, <2>1 DEF PaceInv, DisplayInv, IsDisplay, KeepsPace
  <2>3. /\ GetTicks \in Nat /\ GetTicks' \in Nat /\ GetTicks <= GetTicks' /\ (Steady' => Steady)
        /\ queue[j].time \in Int
    BY PaceFacts, PaceKept
  <2>4. queue[j].time < GetTicks' + Reach
    <3> DEFINE t == queue[j].time
               now == GetTicks
               next == GetTicks'
    <3>1. t \in Int /\ now \in Int /\ next \in Int /\ now <= next /\ t < now + Reach /\ Reach \in Int
      BY <2>2, <2>3, SliceAssumption DEF Reach
    <3> HIDE DEF t, now, next
    <3>2. t < next + Reach
      BY <3>1
    <3> QED BY <3>2 DEF t, next
  <2> QED BY <2>1, <2>2, <2>3, <2>4
<1>2. Reach' = Reach
  BY DEF Reach
<1> QED BY <1>1, <1>2 DEF DisplayInv, KeepsPace, OnGrid, Phase, IsDisplay

PlainFrames == \A i \in 1..Len(frames) : frames[i].at \notin Display

LEMMA PlainFacts ==
  ASSUME frames \in Seq(Frame), PlainFrames
  PROVE  ~Coming /\ \A i \in 1..(Len(frames) - 1) : frames[i].at \notin Display
<1>1. frames # <<>> => Len(frames) \in 1..Len(frames)
  OBVIOUS
<1>2. 1..(Len(frames) - 1) \subseteq 1..Len(frames)
  OBVIOUS
<1> QED BY <1>1, <1>2 DEF PlainFrames, Coming

LEMMA NotComing ==
  ASSUME Running \/ Top("handler") \/ Top("ProcessEvents")
  PROVE  ~Coming
BY DEF Running, Top, Coming, Display

\* The list stays, and no handler of the display comes or goes.
LEMMA DisplayStays ==
  ASSUME WideEnough, PaceInv, CoreInv', [Next]_timingvars, ~Coming, UNCHANGED queue,
         PlainFrames'
  PROVE  DisplayInv'
<1>1. ~Coming' /\ \A i \in 1..(Len(frames') - 1) : frames'[i].at \notin Display
  <2>1. frames' \in Seq(Frame)
    BY DEF CoreInv, Typed
  <2> QED BY <2>1, PlainFacts DEF Coming, PlainFrames
<1>2. OneDisplay(queue')
  BY DEF PaceInv, DisplayInv
<1> QED BY <1>1, <1>2, DisplayKept

LEMMA DisplayAdded ==
  ASSUME WideEnough, PaceInv, CoreInv', [Next]_timingvars, Running, UNCHANGED frames,
         NEW e \in Event, ~IsDisplay(e), queue' = AddEventToQueue(queue, e)
  PROVE  DisplayInv'
<1>1. ~Coming /\ ~Coming'
  BY NotComing DEF Coming
<1>2. PICK n : PutAt(queue', queue, e, n)
  BY PaceFacts, AddEventPuts
<1>3. OneDisplay(queue)
  BY <1>1 DEF PaceInv, DisplayInv
<1>4. /\ OneDisplay(queue')
      /\ \A i \in 1..Len(queue') : queue'[i] = e \/ \E j \in 1..Len(queue) : queue'[i] = queue[j]
  BY <1>2, <1>3, PaceFacts, InsertDisplay
<1>5. \A i \in 1..(Len(frames') - 1) : frames'[i].at \notin Display
  BY DEF PaceInv, DisplayInv
<1> QED BY <1>1, <1>4, <1>5, DisplayKept

LEMMA DisplayNotRemoved ==
  ASSUME WideEnough, PaceInv, CoreInv', [Next]_timingvars, Running, UNCHANGED frames,
         NEW F, \A e \in F : ~IsDisplay(e), queue' = Without(queue, F)
  PROVE  DisplayInv'
<1>1. ~Coming /\ ~Coming'
  BY NotComing DEF Coming
<1>2. OneDisplay(queue)
  BY <1>1 DEF PaceInv, DisplayInv
<1>3. OneDisplay(queue')
  BY <1>2, PaceFacts, RemoveDisplay
<1>4. \A i \in 1..Len(queue') : \E j \in 1..Len(queue) : queue'[i] = queue[j]
  BY PaceFacts, WithoutSorted
<1>5. \A i \in 1..(Len(frames') - 1) : frames'[i].at \notin Display
  BY DEF PaceInv, DisplayInv
<1> QED BY <1>1, <1>3, <1>4, <1>5, DisplayKept

LEMMA DisplayFired ==
  ASSUME WideEnough, PaceInv, NeverWraps, CoreInv', [Next]_timingvars, ProcessEvents
  PROVE  DisplayInv'
<1> DEFINE evt == Head(queue)
           f == IF evt.type \in Display
                THEN [at |-> evt.type, late |-> ToInt(GetTicks - evt.time)]
                ELSE [at |-> "handler", late |-> 0]
<1>1. /\ frames' = Append(frames, f) /\ queue' = Tail(queue) /\ queue # <<>>
      /\ evt.time <= GetTicks /\ GetTicks' = GetTicks /\ ~Coming
  BY NotComing DEF ProcessEvents, Due, GetTicks
<1>2. frames \in Seq(Frame) /\ PlainFrames /\ OneDisplay(queue) /\ frames' \in Seq(Frame)
  BY <1>1, PaceFacts DEF PaceInv, DisplayInv, PlainFrames, CoreInv, Typed
<1>3. /\ Len(frames') = Len(frames) + 1 /\ frames'[Len(frames')] = f /\ frames' # <<>>
      /\ \A i \in 1..(Len(frames') - 1) : frames'[i].at \notin Display
  <2> HIDE DEF f
  <2> QED BY <1>1, <1>2 DEF PlainFrames
<1>4. /\ 1 \in 1..Len(queue) /\ evt = queue[1] /\ evt \in Event
      /\ \A i \in 1..Len(queue') : i + 1 \in 1..Len(queue) /\ queue'[i] = queue[i + 1]
      /\ IF IsDisplay(evt) THEN NoDisplay(queue') ELSE OneDisplay(queue')
  BY <1>1, <1>2, PaceFacts, TailSorted, TailDisplay
<1>5. CASE ~IsDisplay(evt)
  <2>1. f.at = "handler"
    BY <1>5 DEF IsDisplay
  <2>2. ~Coming'
    BY <1>3, <2>1 DEF Coming, Display
  <2> QED BY <1>1, <1>3, <1>4, <1>5, <2>2, DisplayKept
<1>6. CASE IsDisplay(evt)
  <2> DEFINE now == GetTicks
             t == evt.time
             late == now - t
  <2>1. now \in Nat /\ t \in Int /\ t <= now /\ late < IntLimit /\ 0 < t
        /\ (Steady => OnGrid(evt.type, t))
    BY <1>1, <1>4, <1>6, PaceFacts DEF NeverWraps, PaceInv, DisplayInv, KeepsPace
  <2>2. f.at = evt.type /\ f.late = late
    <3>1. f.at = evt.type /\ f.late = ToInt(late)
      BY <1>6 DEF IsDisplay
    <3> HIDE DEF now, t
    <3>2. late \in Int /\ -IntLimit <= late
      BY <2>1, SliceAssumption
    <3> QED BY <2>1, <3>1, <3>2, ToIntFacts
  <2> HIDE DEF f
  <2>3. GetTicks' - f.late = t /\ late \in Nat
    <3>1. GetTicks' = now
      BY <1>1
    <3> HIDE DEF now, t
    <3> QED BY <2>1, <2>2, <3>1
  <2>4. Coming'
    BY <1>3, <1>6, <2>2 DEF Coming, IsDisplay
  <2>5. Steady' => Steady
    BY PaceKept
  <2>6. /\ frames'[Len(frames')].late \in Nat
        /\ 0 < GetTicks' - frames'[Len(frames')].late
        /\ Steady' => OnGrid(frames'[Len(frames')].at, GetTicks' - frames'[Len(frames')].late)
    BY <1>3, <2>1, <2>2, <2>3, <2>5
  <2>7. NoDisplay(queue')
    BY <1>4, <1>6
  <2> QED BY <1>3, <2>4, <2>6, <2>7 DEF DisplayInv, KeepsPace, OnGrid, Phase, NoDisplay
<1> QED BY <1>5, <1>6

LEMMA DisplayScheduled ==
  ASSUME WideEnough, PaceInv, CoreInv', [Next]_timingvars, NEW at \in Display,
         NEW next \in Display, NEW ms \in 0..FrameMs,
         \A t \in Int : OnGrid(at, t) => OnGrid(next, t + ms * InitialHz),
         DisplayHandler(at, next, ms)
  PROVE  DisplayInv'
<1> DEFINE late == frames[Len(frames)].late
           e == VblankEvent(at, next, msToCycles(ms), late)
           c == ms * CPU_HZ
           t == GetTicks - late
<1>1. /\ frames # <<>> /\ frames[Len(frames)].at = at
      /\ frames' = Append(Pop, [at |-> "handler", late |-> 0])
      /\ UNCHANGED <<globalTimer, slicelength, downcount, clock>>
  BY DEF DisplayHandler, Top
<1>2. e \in Event /\ queue' = AddEventToQueue(queue, e) /\ GetTicks' = GetTicks
  <2>1. ms \in Nat
    BY FrameAssumption
  <2> QED BY <2>1, DisplayHandlerCore DEF PaceInv
<1>3. Coming /\ NoDisplay(queue) /\ late \in Nat /\ KeepsPace(at, t)
  BY <1>1 DEF PaceInv, DisplayInv, Coming
<1>4. GetTicks \in Nat /\ c \in Nat /\ c < Reach /\ Reach \in Int
  <2>1. CPU_HZ \in Hz
    BY DEF PaceInv, CoreInv, Typed
  <2> QED BY <2>1, FrameCycles, PaceFacts
<1>5. e.time = t + c /\ e.type = next
  <2>1. e.time = GetTicks + (c - late) /\ e.type = next
    BY DEF VblankEvent, EventIn, msToCycles
  <2> HIDE DEF e, c, late
  <2> QED BY <1>3, <1>4, <2>1
<1>6. 0 < e.time /\ e.time < GetTicks' + Reach /\ (Steady' => OnGrid(next, e.time))
  <2>1. 0 < t /\ (Steady => OnGrid(at, t)) /\ t \in Int
    BY <1>3, <1>4 DEF KeepsPace
  <2>2. 0 < t + c /\ t + c < GetTicks' + Reach
    <3> HIDE DEF late, c
    <3> QED BY <1>2, <1>3, <1>4, <2>1
  <2>3. ASSUME Steady' PROVE OnGrid(next, t + c)
    <3>1. Steady
      BY <2>3, PaceKept
    <3>2. GetTicks # 0
      <4> HIDE DEF late
      <4> QED BY <1>3, <1>4, <2>1
    <3>3. CPU_HZ = InitialHz
      BY <3>1, <3>2 DEF Steady
    <3>4. OnGrid(at, t)
      BY <2>1, <3>1
    <3> HIDE DEF t
    <3> QED BY <2>1, <3>3, <3>4
  <2> HIDE DEF e, t, c
  <2> QED BY <1>5, <2>2, <2>3
<1>7. ~Coming' /\ \A i \in 1..(Len(frames') - 1) : frames'[i].at \notin Display
  <2>1. /\ Pop \in Seq(Frame) /\ Len(Pop) = Len(frames) - 1
        /\ \A i \in 1..Len(Pop) : Pop[i] = frames[i]
    BY <1>1, PopFacts DEF PaceInv
  <2>2. \A i \in 1..Len(Pop) : Pop[i].at \notin Display
    BY <2>1 DEF PaceInv, DisplayInv
  <2> DEFINE p == Pop
             f == [at |-> "handler", late |-> 0]
  <2>3. frames' = Append(p, f) /\ p \in Seq(Frame) /\ f \in Frame /\ f.at \notin Display
        /\ \A i \in 1..Len(p) : p[i].at \notin Display
    BY <1>1, <2>1, <2>2 DEF Frame, Display
  <2> HIDE DEF p, f
  <2>4. /\ Len(frames') = Len(p) + 1 /\ frames'[Len(p) + 1] = f /\ Len(p) \in Nat
        /\ \A i \in 1..Len(p) : frames'[i] = p[i]
    BY <2>3
  <2> QED BY <2>3, <2>4 DEF Coming
<1>8. PICK n : PutAt(queue', queue, e, n)
  BY <1>2, PaceFacts, AddEventPuts
<1>9. IsDisplay(e)
  BY <1>5 DEF IsDisplay
<1> HIDE DEF e
<1>10. /\ OneDisplay(queue')
       /\ \A i \in 1..Len(queue') : queue'[i] = e \/ \E j \in 1..Len(queue) : queue'[i] = queue[j]
  BY <1>3, <1>8, <1>9, PaceFacts, InsertDisplay
<1>11. ASSUME NEW i \in 1..Len(queue'), IsDisplay(queue'[i]) PROVE queue'[i] = e
  BY <1>3, <1>10, <1>11 DEF NoDisplay
<1>12. Reach' = Reach
  BY DEF Reach
<1> QED BY <1>5, <1>6, <1>7, <1>10, <1>11, <1>12
       DEF DisplayInv, KeepsPace, OnGrid, Phase, OneDisplay, IsDisplay

LEMMA GridFacts ==
  /\ VblankMs \in 0..FrameMs /\ FrameMs - VblankMs \in 0..FrameMs
  /\ \A t \in Int : OnGrid("enterVblank", t) => OnGrid("leaveVblank", t + VblankMs * InitialHz)
  /\ \A t \in Int : OnGrid("leaveVblank", t)
                      => OnGrid("enterVblank", t + (FrameMs - VblankMs) * InitialHz)
<1>1. /\ FrameMs \in Nat /\ VblankMs \in Nat \ {0} /\ VblankMs < FrameMs
      /\ InitialHz \in Nat \ {0}
  BY FrameAssumption, ClockAssumption
<1>2. 0 * InitialHz = 0
  BY <1>1
<1>3. ASSUME NEW t \in Int, OnGrid("enterVblank", t)
      PROVE  OnGrid("leaveVblank", t + VblankMs * InitialHz)
  <2>1. t % (FrameMs * InitialHz) = (FrameMs - VblankMs) * InitialHz
    BY <1>3 DEF OnGrid, Phase
  <2>2. (t + VblankMs * InitialHz) % (FrameMs * InitialHz) = 0
    BY <1>1, <2>1, Grid
  <2> QED BY <1>2, <2>2 DEF OnGrid, Phase
<1>4. ASSUME NEW t \in Int, OnGrid("leaveVblank", t)
      PROVE  OnGrid("enterVblank", t + (FrameMs - VblankMs) * InitialHz)
  <2>1. t % (FrameMs * InitialHz) = 0
    BY <1>2, <1>4 DEF OnGrid, Phase
  <2>2. (t + (FrameMs - VblankMs) * InitialHz) % (FrameMs * InitialHz)
          = (FrameMs - VblankMs) * InitialHz
    <3>1. t % (FrameMs * InitialHz) = 0
             => (t + (FrameMs - VblankMs) * InitialHz) % (FrameMs * InitialHz)
                  = (FrameMs - VblankMs) * InitialHz
      BY ONLY <1>1, t \in Int, Grid
    <3> QED BY ONLY <2>1, <3>1
  <2> QED BY <2>2 DEF OnGrid, Phase
<1>5. VblankMs \in 0..FrameMs /\ FrameMs - VblankMs \in 0..FrameMs
  BY <1>1
<1> QED BY <1>3, <1>4, <1>5

LEMMA DisplayStep ==
  ASSUME WideEnough, PaceInv, NeverWraps, [Next]_timingvars
  PROVE  DisplayInv'
<1>1. CoreInv'
  BY CoreStep DEF PaceInv
<1>2. ASSUME ~Coming, UNCHANGED <<queue, frames>> PROVE DisplayInv'
  <2>1. PlainFrames'
    BY <1>2, PaceFacts DEF PlainFrames
  <2> QED BY <1>1, <1>2, <2>1, DisplayStays
<1>3. CASE UNCHANGED timingvars
  BY <1>3 DEF timingvars, clock, PaceInv, DisplayInv, KeepsPace, OnGrid, Phase, Steady, GetTicks,
     Coming, OneDisplay, NoDisplay, IsDisplay, Reach
<1>4. ASSUME NEW n \in 1..MaxBlock, Execute(n) \/ hleEatCycles(n) PROVE DisplayInv'
  BY <1>2, <1>4, NotComing DEF Execute, hleEatCycles, Coming
<1>5. CASE ForceCheck \/ Idle
  BY <1>2, <1>5 DEF ForceCheck, Idle, Coming
<1>6. ASSUME NEW hz \in Hz, SetClockFrequencyHz(hz) PROVE DisplayInv'
  BY <1>2, <1>6 DEF SetClockFrequencyHz, Coming
<1>7. CASE GetGlobalTimeUs
  BY <1>2, <1>7, NotComing DEF GetGlobalTimeUs
<1>8. ASSUME NEW type \in Type, NEW userdata \in UserData, NEW d \in Delay,
             ScheduleEvent(d, type, userdata)
      PROVE  DisplayInv'
  <2> DEFINE e == EventIn(d, type, userdata)
  <2>1. e \in Event /\ e.type = type
    BY <1>8, ScheduleCore DEF PaceInv, EventIn
  <2>2. ~IsDisplay(e)
    BY <2>1, TypeAssumption DEF IsDisplay
  <2>3. queue' = AddEventToQueue(queue, e) /\ Running /\ UNCHANGED frames
    BY <1>8 DEF ScheduleEvent
  <2> HIDE DEF e
  <2> QED BY <1>1, <2>1, <2>2, <2>3, DisplayAdded
<1>9. ASSUME NEW type \in Type, NEW userdata \in UserData, UnscheduleEvent(type, userdata)
      PROVE  DisplayInv'
  <2> DEFINE F == {x \in Event : x.type = type /\ x.userdata = userdata}
  <2>1. queue' = Without(queue, F) /\ Running /\ UNCHANGED frames
    BY <1>9 DEF UnscheduleEvent
  <2>2. \A e \in F : ~IsDisplay(e)
    BY TypeAssumption DEF IsDisplay
  <2> HIDE DEF F
  <2> QED BY <1>1, <2>1, <2>2, DisplayNotRemoved
<1>10. ASSUME NEW type \in Type, RemoveEvent(type) PROVE DisplayInv'
  <2> DEFINE F == {x \in Event : x.type = type}
  <2>1. queue' = Without(queue, F) /\ Running /\ UNCHANGED frames
    BY <1>10 DEF RemoveEvent
  <2>2. \A e \in F : ~IsDisplay(e)
    BY TypeAssumption DEF IsDisplay
  <2> HIDE DEF F
  <2> QED BY <1>1, <2>1, <2>2, DisplayNotRemoved
<1>11. CASE Advance
  <2> DEFINE f == [at |-> "ProcessEvents", late |-> 0]
  <2>1. ~Coming /\ frames' = Append(frames, f) /\ UNCHANGED queue /\ f.at \notin Display
    BY <1>11, NotComing DEF Advance, Display
  <2> HIDE DEF f
  <2>2. PlainFrames'
    <3>1. /\ Len(frames') = Len(frames) + 1 /\ frames'[Len(frames) + 1] = f
          /\ \A i \in 1..Len(frames) : frames'[i] = frames[i]
      BY <2>1, PaceFacts
    <3>2. \A i \in 1..Len(frames') : i \in 1..Len(frames) \/ i = Len(frames) + 1
      BY <3>1, PaceFacts
    <3> QED BY <2>1, <3>1, <3>2, PaceFacts DEF PlainFrames
  <2> QED BY <1>1, <2>1, <2>2, DisplayStays
<1>12. CASE ProcessEvents
  BY <1>1, <1>12, DisplayFired
<1>13. CASE hleEnterVblank
  BY <1>1, <1>13, GridFacts, DisplayScheduled DEF hleEnterVblank, Display
<1>14. CASE hleLeaveVblank
  BY <1>1, <1>14, GridFacts, DisplayScheduled DEF hleLeaveVblank, Display
<1>15. ASSUME Top("handler") \/ Top("ProcessEvents"), frames' = Pop PROVE PlainFrames' /\ ~Coming
  <2>1. ~Coming /\ frames # <<>>
    BY <1>15, NotComing DEF Top
  <2>2. /\ Len(Pop) = Len(frames) - 1 /\ \A i \in 1..Len(Pop) : Pop[i] = frames[i]
    BY <2>1, PopFacts DEF PaceInv
  <2> QED BY <1>15, <2>1, <2>2, PaceFacts DEF PlainFrames
<1>16. CASE HandlerReturns
  BY <1>1, <1>15, <1>16, DisplayStays DEF HandlerReturns
<1>17. CASE AdvanceReturns
  <2>1. ~Coming /\ PlainFrames' /\ OneDisplay(queue)
    BY <1>15, <1>17 DEF AdvanceReturns, PaceInv, DisplayInv
  <2>2. /\ Len(queue') = Len(queue)
        /\ \A i \in 1..Len(queue) : queue'[i].type = queue[i].type /\ queue'[i].time = queue[i].time
    BY <1>17, AdvanceReturnsCore DEF PaceInv
  <2>3. OneDisplay(queue')
    BY <2>1, <2>2 DEF OneDisplay, IsDisplay
  <2>4. ~Coming' /\ \A i \in 1..(Len(frames') - 1) : frames'[i].at \notin Display
    <3>1. frames' \in Seq(Frame)
      BY <1>1 DEF CoreInv, Typed
    <3> QED BY <2>1, <3>1, PlainFacts DEF Coming, PlainFrames
  <2> QED BY <2>1, <2>2, <2>3, <2>4, DisplayKept
<1> QED BY <1>3, <1>4, <1>5, <1>6, <1>7, <1>8, <1>9, <1>10, <1>11, <1>12, <1>13, <1>14,
           <1>16, <1>17 DEF Next

\* While Advance() returns, the first event is at most a frame away: the slice fits.
LEMMA NextSliceWide ==
  ASSUME WideEnough, PaceInv, AdvanceReturns
  PROVE  /\ NextSlice \in 1..MaxSlice
         /\ downcount' = NextSlice - (GetTicks - globalTimer)
         /\ NextSlice # MaxSlice => downcount' > 0
<1>1. ~Coming /\ ~Due /\ downcount' = downcount + (NextSlice - slicelength)
  BY NotComing DEF AdvanceReturns
<1>2. PICK i \in 1..Len(queue) : IsDisplay(queue[i])
  BY <1>1 DEF PaceInv, DisplayInv, OneDisplay
<1>3. queue # <<>>
  <2>1. Len(queue) >= 1
    BY <1>2, PaceFacts
  <2> QED BY <2>1
<1> DEFINE h == Head(queue).time
           base == globalTimer
           now == GetTicks
           target == ToInt(h - base)
<1>4. h \in Int /\ h < now + Reach /\ now < h
  <2>1. h <= queue[i].time /\ h \in Int /\ queue[i].time \in Int
    BY <1>3, PaceFacts, TailSorted, EventFields
  <2>2. queue[i].time < now + Reach
    BY <1>2 DEF PaceInv, DisplayInv
  <2>3. h > now
    BY <1>1, <1>3, <2>1, PaceFacts DEF Due
  <2> HIDE DEF h, now
  <2>4. now + Reach \in Int
    BY PaceFacts, SliceAssumption DEF Reach, now
  <2> QED BY <2>1, <2>2, <2>3, <2>4
<1>5. /\ base \in Nat /\ now \in Nat /\ now = base + slicelength - downcount
      /\ slicelength \in Int /\ downcount \in Int
      /\ slicelength <= MaxSlice /\ 0 < downcount + 2 * MaxBlock
      /\ base <= now
  BY PaceFacts, TicksFacts DEF PaceInv, WidthInv, CoreInv, Typed, GetTicks
<1>6. /\ MaxSlice \in Nat \ {0} /\ MaxBlock \in Nat /\ IntLimit \in Nat
      /\ Reach = IntLimit - MaxSlice - 2 * MaxBlock
  BY SliceAssumption DEF Reach
<1>7. NextSlice = IF target > MaxSlice THEN MaxSlice ELSE target
  BY <1>3 DEF NextSlice
<1> HIDE DEF h, base, now
<1>8. h - base < IntLimit /\ h - base >= 1 /\ h - base \in Int
  BY <1>4, <1>5, <1>6
<1>9. target = h - base
  <2>1. -IntLimit <= h - base
    BY <1>6, <1>8
  <2> QED BY <1>8, <2>1, ToIntFacts
<1> HIDE DEF target
<1>10. NextSlice \in 1..MaxSlice
  BY <1>6, <1>7, <1>8, <1>9
<1>11. downcount' = NextSlice - (now - base)
  BY <1>1, <1>5, <1>10
<1>12. ASSUME NextSlice # MaxSlice PROVE downcount' > 0
  <2>1. NextSlice = h - base
    BY <1>7, <1>9, <1>12
  <2> QED BY <1>4, <1>5, <1>11, <2>1
<1> QED BY <1>10, <1>11, <1>12 DEF now, base

LEMMA WidthStep ==
  ASSUME WideEnough, PaceInv, [Next]_timingvars
  PROVE  WidthInv'
<1>1. /\ GetTicks \in Nat /\ GetTicks' \in Nat /\ GetTicks <= GetTicks'
      /\ globalTimer \in Nat /\ CoreInv' /\ (UNCHANGED clock \/ Rebased)
  BY PaceFacts, PaceKept, CoreStep DEF PaceInv
<1>2. /\ MaxSlice \in Nat \ {0} /\ MaxBlock \in Nat \ {0}
      /\ slicelength \in Int /\ downcount \in Int /\ lastGlobalTimeTicks \in Nat
      /\ lastGlobalTimeUs \in Nat /\ lastGlobalTimeTicks <= GetTicks
      /\ -1 <= slicelength /\ slicelength <= MaxSlice /\ 0 < downcount + 2 * MaxBlock
      /\ downcount <= slicelength
  BY SliceAssumption DEF PaceInv, WidthInv, CoreInv, Typed
<1>3. /\ lastGlobalTimeTicks' \in Nat /\ lastGlobalTimeUs' \in Nat
      /\ lastGlobalTimeTicks' <= GetTicks'
  <2>1. CASE UNCHANGED clock
    <3> DEFINE now == GetTicks
               next == GetTicks'
    <3>1. now \in Nat /\ next \in Nat /\ now <= next /\ lastGlobalTimeTicks <= now
      BY <1>1, <1>2
    <3> HIDE DEF now, next
    <3>2. lastGlobalTimeTicks <= next
      BY <1>2, <3>1
    <3> QED BY <1>2, <2>1, <3>2 DEF clock, next
  <2>2. CASE Rebased
    <3> DEFINE u == (GetTicks - lastGlobalTimeTicks) * UsPerSecond
    <3>1. GetTicks - lastGlobalTimeTicks \in Nat
      <4> DEFINE now == GetTicks
      <4>1. now \in Nat /\ lastGlobalTimeTicks <= now
        BY <1>1, <1>2
      <4> HIDE DEF now
      <4>2. now - lastGlobalTimeTicks \in Nat
        BY <1>2, <4>1
      <4> QED BY <4>2 DEF now
    <3>2. u \in Nat
      BY <3>1, ClockAssumption
    <3>3. CPU_HZ \in Nat \ {0}
      BY ClockAssumption DEF PaceInv, CoreInv, Typed
    <3>4. GlobalTimeUs = lastGlobalTimeUs + (u \div CPU_HZ)
      BY DEF GlobalTimeUs, UsSince
    <3> HIDE DEF u
    <3>5. 0 \div CPU_HZ = 0 /\ 0 \div CPU_HZ <= u \div CPU_HZ /\ u \div CPU_HZ \in Int
      BY <3>2, <3>3, ZeroDivided, Division, DivisionMonotone
    <3>6. GlobalTimeUs \in Nat
      BY <1>2, <3>4, <3>5
    <3> QED BY <1>1, <2>2, <3>6 DEF Rebased
  <2> QED BY <1>1, <2>1, <2>2
<1> DEFINE Slices == /\ globalTimer' \in Nat
                     /\ -1 <= slicelength' /\ slicelength' <= MaxSlice
                     /\ 0 < downcount' + 2 * MaxBlock
<1> SUFFICES Slices
  BY <1>3 DEF WidthInv
<1>4. ASSUME UNCHANGED <<globalTimer, slicelength, downcount>> PROVE Slices
  BY <1>1, <1>2, <1>4
<1>5. ASSUME NEW n \in 1..MaxBlock, Execute(n) \/ hleEatCycles(n) PROVE Slices
  <2>1. /\ downcount' = downcount - n /\ globalTimer' = globalTimer /\ slicelength' = slicelength
        /\ downcount >= 0 \/ downcount > -MaxBlock
    BY <1>5 DEF Execute, hleEatCycles
  <2> QED BY <1>1, <1>2, <2>1
<1>6. CASE ForceCheck
  <2>1. globalTimer' = GetTicks /\ downcount' = -1 /\ slicelength' = -1
    BY <1>6 DEF ForceCheck, GetTicks
  <2> QED BY <1>1, <1>2, <2>1
<1>7. CASE Idle
  <2> DEFINE c == IdleCycles
  <2>1. /\ c \in Nat /\ (c > 0 => c <= downcount)
    BY <1>7, IdleFacts DEF PaceInv
  <2>2. /\ downcount' = IF downcount - c = 0 THEN -1 ELSE downcount - c
        /\ globalTimer' = globalTimer /\ slicelength' = slicelength
    BY <1>7 DEF Idle
  <2> HIDE DEF c
  <2>3. downcount' = -1 \/ downcount' >= 0 \/ downcount' = downcount
    BY <1>2, <2>1, <2>2
  <2>4. downcount' \in Int
    BY <1>2, <2>1, <2>2
  <2> QED BY <1>1, <1>2, <2>2, <2>3, <2>4
<1>8. CASE Advance
  <2>1. globalTimer' = GetTicks /\ downcount' = slicelength /\ slicelength' = slicelength
    BY <1>8 DEF Advance
  <2> QED BY <1>1, <1>2, <2>1
<1>9. CASE AdvanceReturns
  <2>1. /\ NextSlice \in 1..MaxSlice /\ downcount' = downcount + (NextSlice - slicelength)
        /\ slicelength' = NextSlice /\ globalTimer' = globalTimer
        /\ NextSlice # MaxSlice => downcount' > 0
    BY <1>9, NextSliceWide DEF AdvanceReturns
  <2>2. NextSlice = MaxSlice => downcount' >= downcount
    BY <1>2, <2>1
  <2>3. downcount' \in Int
    BY <1>2, <2>1
  <2> QED BY <1>1, <1>2, <2>1, <2>2, <2>3
<1>10. CASE UNCHANGED timingvars
  BY <1>4, <1>10 DEF timingvars
<1>11. ASSUME NEW hz \in Hz, SetClockFrequencyHz(hz) PROVE Slices
  BY <1>4, <1>11 DEF SetClockFrequencyHz
<1>12. ASSUME NEW type \in Type, NEW userdata \in UserData, UnscheduleEvent(type, userdata)
              \/ \E d \in Delay : ScheduleEvent(d, type, userdata)
       PROVE  Slices
  BY <1>4, <1>12 DEF UnscheduleEvent, ScheduleEvent
<1>13. ASSUME NEW type \in Type, RemoveEvent(type) PROVE Slices
  BY <1>4, <1>13 DEF RemoveEvent
<1>14. CASE GetGlobalTimeUs \/ ProcessEvents \/ HandlerReturns
  BY <1>4, <1>14 DEF GetGlobalTimeUs, ProcessEvents, HandlerReturns
<1>15. CASE hleEnterVblank \/ hleLeaveVblank
  BY <1>4, <1>15 DEF hleEnterVblank, hleLeaveVblank, DisplayHandler
<1> HIDE DEF Slices
<1> QED BY <1>5, <1>6, <1>7, <1>8, <1>9, <1>10, <1>11, <1>12, <1>13, <1>14, <1>15 DEF Next

LEMMA PaceHolds ==
  ASSUME WideEnough PROVE Spec /\ []NeverWraps => []PaceInv
<1>1. ASSUME PaceInv, NeverWraps, [Next]_timingvars PROVE PaceInv'
  <2>1. CoreInv' /\ WidthInv' /\ DisplayInv'
    BY <1>1, CoreStep, WidthStep, DisplayStep DEF PaceInv
  <2> QED BY <2>1 DEF PaceInv
<1>2. PaceInv /\ NeverWraps /\ [Next]_timingvars => PaceInv'
  BY <1>1
<1>3. Init => PaceInv
  BY InitPace
<1> QED BY <1>2, <1>3, PTL DEF Spec

LEMMA PaceTimingInv ==
  ASSUME WideEnough, PaceInv PROVE TimingInv
<1>1. TimingTypeOK
  <2>1. /\ MaxSlice \in Nat /\ MaxBlock \in Nat /\ IntLimit \in Nat /\ MaxSlice < IntLimit
        /\ slicelength \in Int /\ downcount \in Int
        /\ -1 <= slicelength /\ slicelength <= MaxSlice /\ downcount <= slicelength
        /\ 0 < downcount + 2 * MaxBlock
    BY SliceAssumption DEF PaceInv, WidthInv, CoreInv, Typed
  <2>2. MaxSlice + 2 * MaxBlock < IntLimit
    <3> DEFINE w == FrameMs * InitialHz
    <3>1. w \in Nat /\ w + MaxSlice + 2 * MaxBlock < IntLimit
      BY ClockAssumption, FrameAssumption DEF WideEnough
    <3> HIDE DEF w
    <3> QED BY <2>1, <3>1
  <2>3. slicelength = ToInt(slicelength) /\ downcount = ToInt(downcount)
    BY <2>1, <2>2, ToIntFacts
  <2>4. {globalTimer, lastGlobalTimeTicks, lastGlobalTimeUs} \subseteq Nat
    BY DEF PaceInv, WidthInv, CoreInv, Typed
  <2> QED BY <2>3, <2>4 DEF TimingTypeOK, PaceInv, CoreInv, Typed
<1>2. DisplayAlive
  <2> DEFINE pending == {i \in 1..Len(queue) : queue[i].type \in Display}
             coming == {i \in 1..Len(frames) : frames[i].at \in Display}
  <2>1. CASE Coming
    <3>1. Len(frames) \in coming /\ pending = {}
      BY <2>1, PaceFacts DEF Coming, PaceInv, DisplayInv, NoDisplay, IsDisplay
    <3>2. ASSUME NEW i \in coming PROVE i = Len(frames)
      <4>1. i \in 1..(Len(frames) - 1) \/ i = Len(frames)
        BY PaceFacts
      <4> QED BY <4>1 DEF PaceInv, DisplayInv
    <3>3. coming = {Len(frames)}
      BY <3>1, <3>2
    <3> QED BY <3>1, <3>3 DEF DisplayAlive
  <2>2. CASE ~Coming
    <3>1. coming = {}
      BY <2>2, PaceFacts
    <3>2. PICK i \in 1..Len(queue) : /\ IsDisplay(queue[i])
                                     /\ \A j \in 1..Len(queue) : IsDisplay(queue[j]) => j = i
      BY <2>2 DEF PaceInv, DisplayInv, OneDisplay
    <3>3. i \in pending /\ pending = {i}
      BY <3>2 DEF IsDisplay
    <3> QED BY <3>1, <3>3 DEF DisplayAlive
  <2> QED BY <2>1, <2>2
<1>3. DisplayDoesNotDrift
  BY DEF DisplayDoesNotDrift, PaceInv, DisplayInv, KeepsPace, Steady, OnGrid, Phase, IsDisplay
<1> QED BY <1>1, <1>2, <1>3 DEF TimingInv

\* As long as no event is so late that cyclesLate wraps, the slice and downcount stay
\* ints, one event of the display or its handler is always on the way, and the vertical
\* blanks stay on the grid of frames however late their events were fired.
THEOREM TimingInvHolds ==
  ASSUME WideEnough PROVE Spec /\ []NeverWraps => []TimingInv
<1>1. PaceInv => TimingInv
  BY PaceTimingInv
<1> QED BY <1>1, PaceHolds, PTL

LEMMA AdvanceProgresses ==
  ASSUME WideEnough, PaceInv, AdvanceReturns, downcount >= slicelength - MaxSlice
  PROVE  downcount' >= 0
<1>1. /\ NextSlice \in 1..MaxSlice /\ downcount' = downcount + (NextSlice - slicelength)
      /\ NextSlice # MaxSlice => downcount' > 0
  BY NextSliceWide DEF AdvanceReturns
<1>2. downcount \in Int /\ slicelength \in Int /\ MaxSlice \in Nat
  BY SliceAssumption DEF PaceInv, CoreInv, Typed
<1> QED BY <1>1, <1>2

\* As long as no event is so late that cyclesLate wraps, time goes forward, idling stops
\* at the first event, and Advance() leaves the CPU something to run, so that the loop
\* that calls it gets on.
THEOREM TimeAdvancesHolds ==
  ASSUME WideEnough PROVE Spec /\ []NeverWraps => TimeAdvances
<1>1. PaceInv =>
        [AdvanceReturns /\ Len(frames) = 1 /\ downcount >= slicelength - MaxSlice =>
           downcount' >= 0]_timingvars
  BY AdvanceProgresses
<1>2. Spec /\ []NeverWraps => AdvanceMakesProgress
  BY <1>1, PaceHolds, PTL DEF AdvanceMakesProgress
<1> QED BY <1>2, TimeMovesForwardHolds, IdleStopsAtEventHolds DEF TimeAdvances
=============================================================================
