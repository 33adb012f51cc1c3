-------------------------- MODULE ControlRegistry ---------------------------
(***************************************************************************)
(* control.Registry for one fleet node: the ControlStream handlers of the  *)
(* gateway, of which the last one registered is the connection, and the    *)
(* calls of operators and command workers that wait for the terminal ack   *)
(* of a command.  The node acknowledges what it was sent, when it likes    *)
(* and as often as it likes; FleetNodeAgent says what it really does.      *)
(***************************************************************************)
EXTENDS Naturals, Sequences, FiniteSets

CONSTANTS
  Streams,         \* invocations of the ControlStream handler
  Legacy,          \* those whose Hello names a command protocol that is too old
  Calls,           \* calls of Send and SendCommand; each has its own command_id
  Reporting,       \* those that also stream reports (discovery, pairing)
  Codes,           \* what a terminal ack says
  EventBuffer,     \* commandEventBuffer
  OutgoingBuffer,  \* outgoingBuffer
  None

ASSUME RegistryAssumption ==
  /\ Legacy \subseteq Streams /\ Reporting \subseteq Calls /\ None \notin Streams
  /\ Codes \cap {"none", "batch", "no stream", "too old", "closed", "timeout", "stopped", "incomplete"} = {}
  /\ EventBuffer \in Nat \ {0} /\ OutgoingBuffer \in Nat \ {0}

VARIABLES
  conn,      \* the stream registered for the node, or None
  closed,    \* streams whose connection.done is closed
  stream,    \* new, hello (authenticated, Hello on its way), open (in its loop), gone
  outgoing,  \* per stream: commands enqueued on its connection
  sent,      \* per stream: commands its handler has sent
  inflight,  \* connection.cmds of the connection
  call,      \* per call: pc, on (the stream it was added to), done (closed), result
  events,    \* per call: its channel, of reports and acks
  acked      \* history: calls to which an ack was delivered

registry == <<conn, closed, stream, outgoing, sent, inflight, call, events, acked>>

CallStates ==
  [pc : {"idle", "enqueue", "wait", "ended"}, on : Streams \cup {None}, done : BOOLEAN,
   result : Codes \cup {"none", "no stream", "too old", "closed", "timeout", "stopped", "incomplete"}]

\* Types of the registry's state; addCmd puts a command on a connection, never
\* on none.
RegistryTypeOK ==
  /\ conn \in Streams \cup {None} /\ closed \subseteq Streams
  /\ stream \in [Streams -> {"new", "hello", "open", "gone"}]
  /\ outgoing \in [Streams -> SUBSET Calls] /\ sent \in [Streams -> SUBSET Calls]
  /\ inflight \subseteq Calls /\ acked \subseteq Calls
  /\ call \in [Calls -> CallStates]
  /\ \A c \in Calls : call[c].pc \in {"enqueue", "wait"} => call[c].on \in Streams
  /\ events \in [Calls -> Seq(Codes \cup {"batch"})]

RegistryInit ==
  /\ conn = None /\ closed = {} /\ stream = [s \in Streams |-> "new"]
  /\ outgoing = [s \in Streams |-> {}] /\ sent = [s \in Streams |-> {}]
  /\ inflight = {} /\ acked = {}
  /\ call = [c \in Calls |-> [pc |-> "idle", on |-> None, done |-> FALSE, result |-> "none"]]
  /\ events = [c \in Calls |-> <<>>]
-----------------------------------------------------------------------------
(* Streams.                                                                *)

\* teardown of the connection, if there is one: its handler and every waiter wake up.
teardown ==
  /\ closed' = closed \cup ({conn} \ {None})
  /\ call' = [c \in Calls |-> IF c \in inflight THEN [call[c] EXCEPT !.done = TRUE] ELSE call[c]]
  /\ inflight' = {}
  /\ UNCHANGED <<outgoing, sent, events, acked>>

\* ControlStream is called and authenticated; its Hello is awaited.
Hello(s) ==
  /\ stream[s] = "new" /\ stream' = [stream EXCEPT ![s] = "hello"]
  /\ UNCHANGED <<conn, closed, outgoing, sent, inflight, call, events, acked>>

\* The newest registration wins.
registerLocked(s) ==
  /\ stream[s] = "hello" /\ stream' = [stream EXCEPT ![s] = "open"]
  /\ conn' = s /\ teardown

\* The Hello does not come in time, or the stream ends before it.
HelloFails(s) ==
  /\ stream[s] = "hello" /\ stream' = [stream EXCEPT ![s] = "gone"]
  /\ UNCHANGED <<conn, closed, outgoing, sent, inflight, call, events, acked>>

Disconnect == conn # None /\ conn' = None /\ teardown /\ UNCHANGED stream

\* Faulty variant: a handler that was replaced removes the newer connection.
UnregisterAny(s) ==
  /\ stream[s] = "open" /\ stream' = [stream EXCEPT ![s] = "gone"]
  /\ conn' = None
  /\ IF conn = s THEN teardown ELSE UNCHANGED <<closed, outgoing, sent, inflight, call, events, acked>>

\* The handler's loop ends, for whatever reason, and Unregister runs; it leaves
\* a newer connection alone.
Unregister(s) ==
  /\ stream[s] = "open" /\ stream' = [stream EXCEPT ![s] = "gone"]
  /\ IF conn = s THEN conn' = None /\ teardown
     ELSE UNCHANGED <<conn, closed, outgoing, sent, inflight, call, events, acked>>

\* The handler sends a command to the node.
SendDown(s, c) ==
  /\ stream[s] = "open" /\ c \in outgoing[s]
  /\ outgoing' = [outgoing EXCEPT ![s] = @ \ {c}]
  /\ sent' = [sent EXCEPT ![s] = @ \cup {c}]
  /\ UNCHANGED <<conn, closed, stream, inflight, call, events, acked>>
-----------------------------------------------------------------------------
(* What the node sends back.                                               *)

\* deliverEvent: a report for a command in flight; dropped when the channel is full.
deliverEvent(c) ==
  /\ events' = IF c \in inflight /\ c \in Reporting /\ Len(events[c]) < EventBuffer
               THEN [events EXCEPT ![c] = Append(@, "batch")] ELSE events
  /\ UNCHANGED <<conn, closed, stream, outgoing, sent, inflight, call, acked>>

\* Faulty variant: an ack that finds the channel full is dropped like a report.
DroppedWhenFull(s, c, code) ==
  /\ stream[s] = "open" /\ c \in sent[s] /\ c \in inflight
  /\ events' = IF Len(events[c]) < EventBuffer
               THEN [events EXCEPT ![c] = Append(@, code)] ELSE events
  /\ acked' = acked \cup {c}
  /\ UNCHANGED <<conn, closed, stream, outgoing, sent, inflight, call>>

\* deliverAck: the oldest event makes room for it; a call that does not stream
\* reports has room for one ack, and keeps the first.  The ack of a command that
\* is no longer in flight is dropped.
deliverAck(s, c, code) ==
  /\ stream[s] = "open" /\ c \in sent[s] /\ c \in inflight
  /\ events' = [events EXCEPT ![c] =
       IF c \in Reporting
       THEN Append(IF Len(@) < EventBuffer THEN @ ELSE Tail(@), code)
       ELSE IF @ = <<>> THEN <<code>> ELSE @]
  /\ acked' = acked \cup {c}
  /\ UNCHANGED <<conn, closed, stream, outgoing, sent, inflight, call>>
-----------------------------------------------------------------------------
(* Calls: Send and runCommand, and SendCommand.                            *)

CallFrame == UNCHANGED <<conn, closed, stream, sent, acked>>

\* The call returns; removeCmd frees its command.
End(c, result) ==
  /\ call' = [call EXCEPT ![c].pc = "ended", ![c].done = TRUE, ![c].result = result]
  /\ inflight' = inflight \ {c}

addCmd(c) ==
  /\ call[c].pc = "idle"
  /\ \/ conn = None /\ End(c, "no stream")
     \/ conn \in Legacy /\ End(c, "too old")
     \/ /\ conn # None /\ conn \notin Legacy
        /\ call' = [call EXCEPT ![c].pc = "enqueue", ![c].on = conn]
        /\ inflight' = inflight \cup {c}
  /\ CallFrame /\ UNCHANGED <<outgoing, events>>

\* enqueue: there may be room on a connection that is closed already.
enqueue(c) ==
  LET s == call[c].on IN
  /\ call[c].pc = "enqueue"
  /\ \/ /\ Cardinality(outgoing[s]) < OutgoingBuffer
        /\ outgoing' = [outgoing EXCEPT ![s] = @ \cup {c}]
        /\ call' = [call EXCEPT ![c].pc = "wait"] /\ UNCHANGED inflight
     \/ s \in closed /\ End(c, "no stream") /\ UNCHANGED outgoing
  /\ CallFrame /\ UNCHANGED events

\* A report is passed on, which may end the call; an ack ends it.
Receive(c) ==
  /\ call[c].pc = "wait" /\ events[c] # <<>>
  /\ events' = [events EXCEPT ![c] = Tail(@)]
  /\ \/ Head(events[c]) = "batch" /\ UNCHANGED <<call, inflight>>
     \/ Head(events[c]) = "batch" /\ End(c, "stopped")
     \/ Head(events[c]) # "batch" /\ End(c, Head(events[c]))
  /\ CallFrame /\ UNCHANGED outgoing

\* The connection is gone, and nothing is left in the channel.
Closed(c) ==
  /\ call[c].pc = "wait" /\ call[c].done /\ events[c] = <<>> /\ End(c, "closed")
  /\ CallFrame /\ UNCHANGED <<outgoing, events>>

\* The deadline passes or the caller gives up.
Expire(c) ==
  /\ call[c].pc \in {"enqueue", "wait"} /\ End(c, "timeout")
  /\ CallFrame /\ UNCHANGED <<outgoing, events>>

Caller(c) == addCmd(c) \/ enqueue(c) \/ Receive(c) \/ Closed(c) \/ Expire(c)
-----------------------------------------------------------------------------
Streaming ==
  \/ \E s \in Streams :
       \/ Hello(s) \/ registerLocked(s) \/ HelloFails(s) \/ Unregister(s)
       \/ \E c \in Calls : SendDown(s, c) \/ \E code \in Codes : deliverAck(s, c, code)
  \/ Disconnect

RegistryNext == Streaming \/ \E c \in Calls : Caller(c) \/ deliverEvent(c)

RegistrySpec == RegistryInit /\ [][RegistryNext]_registry
-----------------------------------------------------------------------------
(* Properties.                                                             *)

\* The commands in flight are those somebody waits for, on the connection:
\* nothing is left in the registry, and nobody waits for a connection that was
\* replaced without having been woken.
InflightIsAwaited ==
  /\ inflight = {c \in Calls : call[c].pc \in {"enqueue", "wait"} /\ ~ call[c].done}
  /\ \A c \in inflight : call[c].on = conn

\* "The terminal ack must reach the operator even when the batch buffer is
\* full", and "select randomness doesn't drop a final ack": a call told that
\* the stream closed got no ack before that.
NoAckLost == \A c \in acked : call[c].result \notin {"closed", "no stream"}

=============================================================================
