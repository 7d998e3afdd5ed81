--------------------------- MODULE CompletionPoller ---------------------------
(***************************************************************************)
(* How a thread of the connection-manager examples sleeps on a completion  *)
(* channel: poll_cq takes an event, asks for the next one, and only then   *)
(* drains the completion queue.  The other modules let a poller take a     *)
(* completion whenever there is one; this module shows that it does.       *)
(*                                                                         *)
(* The queue (external) raises one event when a completion is added while  *)
(* it is armed, and arming it says nothing about completions that are      *)
(* already there.                                                          *)
(***************************************************************************)
EXTENDS Naturals

CONSTANT Completions   \* how many completions are added, at most

ASSUME CompletionsAssumption == Completions \in Nat

VARIABLES
    pc,        \* where the poller is
    armed,     \* ibv_req_notify_cq asked for an event that has not come yet
    events,    \* events in the completion channel
    cq,        \* completions in the queue
    handled    \* completions on_completion has handled

vars == <<pc, armed, events, cq, handled>>

TypeOK ==
    /\ pc \in {"get_event", "rearm", "poll", "handle"}
    /\ armed \in BOOLEAN
    /\ events \in Nat
    /\ cq \in Nat
    /\ handled \in Nat

\* build_context arms the queue before it creates the thread.
Init ==
    /\ pc = "get_event"
    /\ armed = TRUE
    /\ events = 0
    /\ cq = 0
    /\ handled = 0

Added == handled + cq + (IF pc = "handle" THEN 1 ELSE 0)

\* The NIC adds a completion.
Complete ==
    /\ Added < Completions
    /\ cq' = cq + 1
    /\ armed' = FALSE
    /\ events' = IF armed THEN events + 1 ELSE events
    /\ UNCHANGED <<pc, handled>>

\* ibv_get_cq_event blocks until there is an event; ibv_ack_cq_events.
GetEvent ==
    /\ pc = "get_event" /\ events > 0
    /\ events' = events - 1
    /\ pc' = "rearm"
    /\ UNCHANGED <<armed, cq, handled>>

\* MUTANT: the queue is armed once, in build_context.
RearmForgotten ==
    /\ pc = "rearm"
    /\ pc' = "poll"
    /\ UNCHANGED <<armed, events, cq, handled>>

\* ibv_req_notify_cq.
Rearm ==
    /\ pc = "rearm"
    /\ armed' = TRUE
    /\ pc' = "poll"
    /\ UNCHANGED <<events, cq, handled>>

\* ibv_poll_cq takes a completion and on_completion is called ...
Poll ==
    /\ pc = "poll" /\ cq > 0
    /\ cq' = cq - 1
    /\ pc' = "handle"
    /\ UNCHANGED <<armed, events, handled>>

\* MUTANT: if instead of while.
HandleOnce ==
    /\ pc = "handle"
    /\ handled' = handled + 1
    /\ pc' = "get_event"
    /\ UNCHANGED <<armed, events, cq>>

\* ... and returns to the loop.
Handle ==
    /\ pc = "handle"
    /\ handled' = handled + 1
    /\ pc' = "poll"
    /\ UNCHANGED <<armed, events, cq>>

\* The queue is empty: back to the channel.
Drained ==
    /\ pc = "poll" /\ cq = 0
    /\ pc' = "get_event"
    /\ UNCHANGED <<armed, events, cq, handled>>

PollCq == GetEvent \/ Rearm \/ Poll \/ Handle \/ Drained

\* Nothing is left to do.
Rest ==
    /\ pc = "get_event" /\ events = 0 /\ handled = Completions
    /\ UNCHANGED vars

Next == Complete \/ PollCq \/ Rest

Spec == Init /\ [][Next]_vars

\* The poller is an infinite loop of a thread the scheduler runs; nothing
\* makes a completion arrive.
FairSpec == Spec /\ WF_vars(PollCq)

-----------------------------------------------------------------------------
\* The poller never sleeps on the channel while a completion waits in the
\* queue and no event is on its way.
NoLostWakeup == pc = "get_event" /\ cq > 0 => events > 0

\* Whatever is in the queue is handled.
EveryCompletionHandled ==
    \A k \in 1 .. Completions : (Added >= k) ~> (handled >= k)

(***************************************************************************)
(* The inductive invariant: an event is in the channel or asked for, never *)
(* both, unless the poller has just taken one; and a completion that found *)
(* the queue armed has disarmed it.                                        *)
(***************************************************************************)
Wakeup ==
    /\ events <= 1
    /\ pc = "rearm" => events = 0 /\ ~armed
    /\ pc # "rearm" => (events = 1 <=> ~armed)
    /\ armed /\ cq > 0 => pc \in {"poll", "handle"}

IInv == TypeOK /\ Wakeup
=============================================================================
