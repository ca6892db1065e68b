----------------------------- MODULE ReadyQueue -----------------------------
(***************************************************************************)
(* What the thread manager expects of its ready queue: one list of thread  *)
(* ids per priority, of which the best nonempty one is served first.       *)
(* KernelThread works on lists like these; ThreadQueueList implements them. *)
(***************************************************************************)
EXTENDS UidList

CONSTANTS
  UID,         \* thread ids
  NoUID,       \* the id 0
  NUM_QUEUES   \* priorities are 0..NUM_QUEUES - 1, smaller is better

VARIABLES
  rq,          \* the list of each priority
  ret          \* what the last call returned, NoUID if nothing

Prio == 0..(NUM_QUEUES - 1)

\* The best priority below stop with a thread, if there is one.
IsBest(p, stop) ==
  /\ p < stop /\ rq[p] # <<>>
  /\ \A r \in Prio : r < p => rq[r] = <<>>

PushFront(p, t) == rq' = [rq EXCEPT ![p] = <<t>> \o @] /\ ret' = NoUID
PushBack(p, t) == rq' = [rq EXCEPT ![p] = Append(@, t)] /\ ret' = NoUID
Remove(p, t) == rq' = [rq EXCEPT ![p] = DropFirst(@, t)] /\ ret' = NoUID
Rotate(p) ==
  /\ Len(rq[p]) > 1
  /\ rq' = [rq EXCEPT ![p] = Append(Tail(@), Head(@))]
  /\ ret' = NoUID
\* Serves the best thread that is better than stop.
Pop(stop) ==
  \E p \in Prio : /\ IsBest(p, stop)
                  /\ ret' = Head(rq[p])
                  /\ rq' = [rq EXCEPT ![p] = Tail(@)]
NoneBetter(stop) ==
  /\ \A p \in Prio : p < stop => rq[p] = <<>>
  /\ ret' = NoUID /\ UNCHANGED rq
\* Calls that leave the lists alone: prepare, a rotation of one thread, saving.
Quiet == ret' = NoUID /\ UNCHANGED rq
Clear == rq' = [p \in Prio |-> <<>>] /\ ret' = NoUID

Init == rq = [p \in Prio |-> <<>>] /\ ret = NoUID

Next ==
  \/ \E p \in Prio, t \in UID : PushFront(p, t) \/ PushBack(p, t) \/ Remove(p, t)
  \/ \E p \in Prio : Rotate(p)
  \/ \E stop \in 0..NUM_QUEUES : Pop(stop) \/ NoneBetter(stop)
  \/ Quiet
  \/ Clear

Spec == Init /\ [][Next]_<<rq, ret>>
=============================================================================
