------------------------------ MODULE EventBus ------------------------------
(***************************************************************************)
(* EventBus (kernel/bus.py): one routing loop takes messages from a        *)
(* priority queue and calls the callbacks subscribed to the receiver, one  *)
(* message at a time.                                                      *)
(*                                                                         *)
(* A step runs a coroutine to its next suspension point. put on the        *)
(* unbounded queue never suspends; `await destinations[0](message)` starts *)
(* a lone callback in the loop's own step, gather starts each of several   *)
(* in a step of its own. start and stop are called in turn, as the gateway *)
(* calls them.                                                             *)
(***************************************************************************)
EXTENDS Naturals, Sequences, FiniteSets

CONSTANTS
    Callback,     \* the subscribers' callbacks
    ChannelOf,    \* the receiver id a callback subscribes to
    Message,
    ReceiverOf,   \* message.receiver_id
    RankOf        \* place of (priority, timestamp, message_id) in their order

ASSUME EventBusAssumption ==
    /\ IsFiniteSet(Callback) /\ IsFiniteSet(Message)
    /\ RankOf \in [Message -> Nat]
    /\ \A m, n \in Message : RankOf[m] = RankOf[n] => m = n
    /\ DOMAIN ChannelOf = Callback /\ DOMAIN ReceiverOf = Message

VARIABLES
    unsent,        \* messages nobody has published yet
    queue,         \* messages in _queue
    subscribers,   \* registered callbacks
    running,       \* _running
    loop,          \* where _route_loop is
    stopping,      \* where stop() is
    message,       \* the message being dispatched, a set of at most one
    destinations,  \* its snapshot of callbacks
    call,          \* call[c]: the callback's coroutine in this dispatch
    dispatching_count,
    log            \* log[c]: messages callback c has been called with

vars == <<unsent, queue, subscribers, running, loop, stopping, message,
          destinations, call, dispatching_count, log>>

LoopState == {"none", "get", "dispatch", "backoff", "ended"}
StopState == {"no", "draining", "cancelled"}
CallState == {"idle", "created", "running", "done", "failed"}

InFlight(c) == call[c] \in {"created", "running"}

\* The subscribers a message goes to: BROADCAST means every channel.
Receivers(m) ==
    {c \in subscribers : ReceiverOf[m] \in {"BROADCAST", ChannelOf[c]}}

Init ==
    /\ unsent = Message /\ queue = {}
    /\ subscribers = {}
    /\ running = FALSE /\ loop = "none" /\ stopping = "no"
    /\ message = {} /\ destinations = {}
    /\ call = [c \in Callback |-> "idle"]
    /\ dispatching_count = 0
    /\ log = [c \in Callback |-> <<>>]

-----------------------------------------------------------------------------
(* The bus's clients.                                                      *)

publish(m) ==
    /\ m \in unsent
    /\ unsent' = unsent \ {m}
    /\ queue' = queue \cup {m}
    /\ UNCHANGED <<subscribers, running, loop, stopping, message, destinations, call,
                   dispatching_count, log>>

subscribe(c) ==
    /\ c \notin subscribers
    /\ subscribers' = subscribers \cup {c}
    /\ UNCHANGED <<unsent, queue, running, loop, stopping, message, destinations, call,
                   dispatching_count, log>>

unsubscribe(c) ==
    /\ c \in subscribers
    /\ subscribers' = subscribers \ {c}
    /\ UNCHANGED <<unsent, queue, running, loop, stopping, message, destinations, call,
                   dispatching_count, log>>

start ==
    /\ ~running /\ stopping = "no"
    /\ running' = TRUE
    /\ loop' = "get"
    /\ UNCHANGED <<unsent, queue, subscribers, stopping, message, destinations, call,
                   dispatching_count, log>>

-----------------------------------------------------------------------------
(* stop.                                                                   *)

\* The loop's task is cancelled wherever it waits.
CancelLoop ==
    /\ loop' = "ended"
    /\ stopping' = "cancelled"

stop ==
    /\ running
    /\ running' = FALSE
    /\ IF dispatching_count = 0
       THEN CancelLoop
       ELSE stopping' = "draining" /\ UNCHANGED loop
    /\ UNCHANGED <<unsent, queue, subscribers, message, destinations, call,
                   dispatching_count, log>>

\* The poll of dispatching_count finds zero.
StopDrained ==
    /\ stopping = "draining"
    /\ dispatching_count = 0
    /\ CancelLoop
    /\ UNCHANGED <<unsent, queue, subscribers, running, message, destinations, call,
                   dispatching_count, log>>

\* The cancelled task has ended.
StopReturn ==
    /\ stopping = "cancelled"
    /\ stopping' = "no"
    /\ subscribers' = {}
    /\ UNCHANGED <<unsent, queue, running, loop, message, destinations, call,
                   dispatching_count, log>>

-----------------------------------------------------------------------------
(* _route_loop.                                                            *)

\* The head of the priority queue.
Next_message(m) == m \in queue /\ \A n \in queue : RankOf[m] <= RankOf[n]

\* A dispatch that is not counted.
TakeUncounted(m) ==
    /\ loop = "get"
    /\ Next_message(m)
    /\ queue' = queue \ {m}
    /\ IF Receivers(m) = {}
       THEN UNCHANGED <<loop, message, destinations, call, dispatching_count, log>>
       ELSE /\ loop' = "dispatch"
            /\ message' = {m}
            /\ destinations' = Receivers(m)
            /\ IF Cardinality(Receivers(m)) = 1
               THEN /\ call' = [c \in Callback |->
                                  IF c \in Receivers(m) THEN "running" ELSE "idle"]
                    /\ log' = [c \in Callback |->
                                  IF c \in Receivers(m) THEN Append(log[c], m) ELSE log[c]]
               ELSE /\ call' = [c \in Callback |->
                                  IF c \in Receivers(m) THEN "created" ELSE "idle"]
                    /\ UNCHANGED log
            /\ UNCHANGED dispatching_count
    /\ UNCHANGED <<unsent, subscribers, running, stopping>>

\* A message nobody receives is dropped; a lone callback starts at once, several
\* become tasks of gather.
Take(m) ==
    /\ loop = "get"
    /\ Next_message(m)
    /\ queue' = queue \ {m}
    /\ IF Receivers(m) = {}
       THEN UNCHANGED <<loop, message, destinations, call, dispatching_count, log>>
       ELSE /\ loop' = "dispatch"
            /\ message' = {m}
            /\ destinations' = Receivers(m)
            /\ IF Cardinality(Receivers(m)) = 1
               THEN /\ call' = [c \in Callback |->
                                  IF c \in Receivers(m) THEN "running" ELSE "idle"]
                    /\ log' = [c \in Callback |->
                                  IF c \in Receivers(m) THEN Append(log[c], m) ELSE log[c]]
               ELSE /\ call' = [c \in Callback |->
                                  IF c \in Receivers(m) THEN "created" ELSE "idle"]
                    /\ UNCHANGED log
            /\ dispatching_count' = dispatching_count + 1
    /\ UNCHANGED <<unsent, subscribers, running, stopping>>

\* A task of gather starts: its callback gets the message, even if it has been
\* unsubscribed since the snapshot.
BeginCall(c) ==
    /\ call[c] = "created"
    /\ call' = [call EXCEPT ![c] = "running"]
    /\ \E m \in message : log' = [log EXCEPT ![c] = Append(@, m)]
    /\ UNCHANGED <<unsent, queue, subscribers, running, loop, stopping, message,
                   destinations, dispatching_count>>

\* The callback returns or raises an exception.
EndCall(c) ==
    /\ call[c] = "running"
    /\ \E s \in {"done", "failed"} : call' = [call EXCEPT ![c] = s]
    /\ UNCHANGED <<unsent, queue, subscribers, running, loop, stopping, message,
                   destinations, dispatching_count, log>>

\* What the loop waits for: its lone callback, or all of gather's.
CallsEnded == \A c \in destinations : call[c] \in {"done", "failed"}

\* The dispatch is over: the count goes down, the loop looks at _running.
Leave(next) ==
    /\ loop' = next
    /\ message' = {} /\ destinations' = {}
    /\ call' = [c \in Callback |-> "idle"]
    /\ dispatching_count' = dispatching_count - 1
    /\ UNCHANGED <<unsent, queue, subscribers, running, stopping, log>>

\* The exception of a lone callback comes out of `await`; gather's stay inside.
LoneFailure ==
    Cardinality(destinations) = 1 /\ \E c \in destinations : call[c] = "failed"

\* gather without return_exceptions: one failure ends it, the rest go on unheard.
EndDispatchAtFirstFailure ==
    /\ loop = "dispatch"
    /\ ~LoneFailure
    /\ CallsEnded \/ \E c \in destinations : call[c] = "failed"
    /\ Leave(IF running THEN "get" ELSE "ended")

EndDispatch ==
    /\ loop = "dispatch"
    /\ CallsEnded
    /\ ~LoneFailure
    /\ Leave(IF running THEN "get" ELSE "ended")

\* A loop without the handler: the exception ends the task.
FailDispatchFatally ==
    /\ loop = "dispatch"
    /\ CallsEnded
    /\ LoneFailure
    /\ Leave("ended")

\* A handler that puts the message back.
FailDispatchRequeueing ==
    /\ loop = "dispatch"
    /\ CallsEnded
    /\ LoneFailure
    /\ loop' = "backoff"
    /\ message' = {} /\ destinations' = {}
    /\ call' = [c \in Callback |-> "idle"]
    /\ dispatching_count' = dispatching_count - 1
    /\ queue' = queue \cup message
    /\ Len(log[CHOOSE c \in destinations : TRUE]) < 4
    /\ UNCHANGED <<unsent, subscribers, running, stopping, log>>

\* Without the inner finally the count stays up.
FailDispatchUncounted ==
    /\ loop = "dispatch"
    /\ CallsEnded
    /\ LoneFailure
    /\ loop' = "backoff"
    /\ message' = {} /\ destinations' = {}
    /\ call' = [c \in Callback |-> "idle"]
    /\ UNCHANGED <<unsent, queue, subscribers, running, stopping, dispatching_count, log>>

\* The handler logs and sleeps.
FailDispatch ==
    /\ loop = "dispatch"
    /\ CallsEnded
    /\ LoneFailure
    /\ Leave("backoff")

EndBackoff ==
    /\ loop = "backoff"
    /\ loop' = IF running THEN "get" ELSE "ended"
    /\ UNCHANGED <<unsent, queue, subscribers, running, stopping, message, destinations,
                   call, dispatching_count, log>>

-----------------------------------------------------------------------------

Client ==
    \/ \E m \in Message : publish(m)
    \/ \E c \in Callback : subscribe(c) \/ unsubscribe(c)
    \/ start
    \/ stop

Bus ==
    \/ \E m \in Message : Take(m)
    \/ \E c \in Callback : BeginCall(c) \/ EndCall(c)
    \/ EndDispatch \/ FailDispatch \/ EndBackoff
    \/ StopDrained \/ StopReturn

Next == Client \/ Bus

Spec == Init /\ [][Next]_vars

\* The event loop does not idle while the bus or a callback can go on. Callbacks
\* are finite: an append, a put on an unbounded queue, a tool with a time limit.
FairSpec == Spec /\ WF_vars(Bus)

-----------------------------------------------------------------------------
(* Properties.                                                             *)

\* Every variable stays in its range.
TypeOK ==
    /\ unsent \subseteq Message /\ queue \subseteq Message
    /\ subscribers \subseteq Callback
    /\ running \in BOOLEAN
    /\ loop \in LoopState /\ stopping \in StopState
    /\ message \subseteq Message /\ destinations \subseteq Callback
    /\ call \in [Callback -> CallState]
    /\ dispatching_count \in {0, 1}
    /\ log \in [Callback -> Seq(Message)]

\* No callback gets a message twice, whatever fails and however often the bus is
\* stopped and started with messages in its queue.
AtMostOnce ==
    \A c \in Callback : \A i, j \in DOMAIN log[c] :
        log[c][i] = log[c][j] => i = j

\* A failing callback costs the others nothing: when a dispatch is over, each
\* callback of its snapshot has been called and has ended.
NobodyLeftOut ==
    [][ loop = "dispatch" /\ loop' # "dispatch" =>
          \A c \in destinations :
              /\ ~InFlight(c)
              /\ \E i \in DOMAIN log[c] : log[c][i] \in message ]_vars

\* stop waits for the dispatch under way: once it has returned no callback runs
\* and no loop is left to call one, until the bus is started again.
StopQuiesces ==
    ~running /\ stopping = "no" =>
        /\ loop \in {"none", "ended"}
        /\ \A c \in Callback : ~InFlight(c)

\* The routing loop survives its callbacks: while the bus runs, each queued
\* message is taken in the end, whatever callbacks raise.
MessagesAreTaken ==
    \A m \in Message : (m \in queue /\ running) ~> (m \notin queue \/ ~running)

\* stop returns.
StopReturns == (stopping = "draining") ~> (stopping = "no")

=============================================================================
