------------------------------ MODULE Interrupts ------------------------------
(***************************************************************************)
(* The interrupt manager (Core/HLE/sceKernelInterrupt.cpp).                *)
(*                                                                         *)
(* An interrupt that is triggered goes to the end of pendingInterrupts.    *)
(* One handler runs at a time: the entry it runs for stays at the front    *)
(* until the handler returns, and is then taken off as "what we just ran". *)
(* Interrupts that are triggered meanwhile, or while the guest has         *)
(* interrupts suspended, wait.                                             *)
(*                                                                         *)
(* Which thread is switched off for a handler, and that a reschedule       *)
(* follows its return, belongs to the thread manager.                      *)
(***************************************************************************)
EXTENDS Removal

CONSTANTS
  SubIntr,     \* the sub interrupts the guest registers handlers for
  OtherIntr    \* interrupts with a handler class of their own

ASSUME IntrAssumption == SubIntr \cap OtherIntr = {}

\* What IntrHandler keeps for a sub interrupt: whether there is an entry, whether
\* it has an address (enabling alone makes an entry without one), enabled.
SubIntrHandler == [has : BOOLEAN, address : BOOLEAN, enabled : BOOLEAN]
NoHandler == [has |-> FALSE, address |-> FALSE, enabled |-> FALSE]

\* ran is the entry whose handler runs; the code expects it at the front.
InterruptState == [enabled : BOOLEAN,                         \* interruptsEnabled
                   inside  : BOOLEAN,                         \* inInterrupt
                   pending : Seq(SubIntr \cup OtherIntr),     \* pendingInterrupts
                   handler : [SubIntr -> SubIntrHandler],
                   ran     : SubIntr \cup OtherIntr \cup {"nothing"}]
InterruptsInit == [enabled |-> TRUE, inside |-> FALSE, pending |-> <<>>,
                   handler |-> [s \in SubIntr |-> NoHandler], ran |-> "nothing"]

\* The handlers that PSP_INTR_SUB_ALL queues up, in the order of their numbers.
QueueUpAll(i, order) ==
  LET Live(s) == i.handler[s].enabled /\ i.handler[s].address
  IN  [i EXCEPT !.pending = @ \o Without(order, {s \in SubIntr : ~Live(s)})]

RegisterSubIntrHandler(i, s) ==
  [i EXCEPT !.handler[s] = [@ EXCEPT !.has = TRUE, !.address = TRUE]]
CanRegister(i, s) == ~i.handler[s].has \/ ~i.handler[s].address

\* The entries of a handler that is released leave the list, the running one too.
ReleaseSubIntrHandler(i, s) ==
  [i EXCEPT !.handler[s] = NoHandler, !.pending = Without(@, {s})]
CanRelease(i, s) == i.handler[s].has /\ i.handler[s].address

EnableSubIntr(i, s) ==
  [i EXCEPT !.handler[s] = [@ EXCEPT !.has = TRUE, !.enabled = TRUE]]
DisableSubIntr(i, s) == [i EXCEPT !.handler[s].enabled = FALSE]

\* __RunOnePendingInterrupt(): Run(x, p) is the virtual method run(), which tells
\* whether guest code was entered; what has no handler is dropped.
RunOnePendingInterrupt(x, Run(_, _)) ==
  LET after[n \in 0..Len(x.i.pending)] ==
        IF n = 0 THEN [x |-> x, entered |-> x.i.inside \/ ~x.i.enabled]
        ELSE LET y == after[n - 1]
                 p == Head(y.x.i.pending)
                 ran == Run(y.x, p)
             IN  IF y.entered THEN y
                 ELSE IF ran.entered
                 THEN [x |-> [ran.x EXCEPT !.i.inside = TRUE, !.i.ran = p], entered |-> TRUE]
                 ELSE [x |-> [ran.x EXCEPT !.i.pending = Tail(@)], entered |-> FALSE]
  IN  after[Len(x.i.pending)].x

\* IntrHandler::run().
IntrHandlerRun(x, p) == [x |-> x, entered |-> x.i.handler[p].has]

\* __KernelReturnFromInterrupt(): HandleResult(x, p) is the method handleResult().
KernelReturnFromInterrupt(x, Run(_, _), HandleResult(_, _)) ==
  LET p == Head(x.i.pending)
      done == HandleResult([x EXCEPT !.i.pending = Tail(@)], p)
  IN  RunOnePendingInterrupt([done EXCEPT !.i.inside = FALSE, !.i.ran = "nothing"], Run)
=============================================================================
