----------------------- MODULE FleetNodeAgentProofs -------------------------
(***************************************************************************)
(* For any number of streams, calls and codes: nobody waits for a          *)
(* connection that was replaced without having been woken, and no terminal *)
(* ack is lost.  The agent and the gateway's report handlers keep to what  *)
(* the registry expects of a node, so this holds of them too; and for any  *)
(* number of devices a pair call that succeeds has stored every result.    *)
(***************************************************************************)
EXTENDS FleetNodeAgent, FiniteSetTheorems, TLAPS

\* A call that has not begun is not done; one that has not ended has no result.
CallsFresh ==
  \A c \in Calls : /\ call[c].pc = "idle" => ~ call[c].done
                   /\ call[c].pc # "ended" => call[c].result = "none"

\* Only commands whose call got past enqueue are on their way to the node.
SentWasQueued == \A s \in Streams : \A c \in outgoing[s] \cup sent[s] : call[c].pc \in {"wait", "ended"}

\* A call that does not stream reports finds only acks in its channel.
NoStrayReports == \A c \in Calls \ Reporting : \A i \in 1..Len(events[c]) : events[c][i] # "batch"

AckInChannel(c) == \E i \in 1..Len(events[c]) : events[c][i] # "batch"

\* A delivered ack stays in the channel until its call has ended.
AckKept == \A c \in acked : call[c].pc = "ended" \/ (call[c].pc = "wait" /\ AckInChannel(c))

RegistryInv ==
  /\ RegistryTypeOK /\ InflightIsAwaited /\ CallsFresh /\ SentWasQueued /\ NoStrayReports /\ AckKept /\ NoAckLost
-----------------------------------------------------------------------------
\* The registry starts with no connection and no call.
LEMMA InvInit == RegistryInit => RegistryInv
<1> SUFFICES ASSUME RegistryInit PROVE RegistryInv
  OBVIOUS
<1> USE DEF RegistryInit
<1>1. RegistryTypeOK
  BY DEF RegistryTypeOK, CallStates
<1>2. InflightIsAwaited /\ CallsFresh
  BY Zenon DEF InflightIsAwaited, CallsFresh
<1>3. SentWasQueued /\ NoStrayReports /\ AckKept /\ NoAckLost
  BY DEF SentWasQueued, NoStrayReports, AckKept, NoAckLost
<1> QED BY <1>1, <1>2, <1>3 DEF RegistryInv

\* A connection torn down wakes the calls in flight and takes them off it.
LEMMA InvTeardown ==
  RegistryInv /\ teardown /\ conn' \in Streams \cup {None} /\ stream' \in [Streams -> {"new", "hello", "open", "gone"}]
    => RegistryInv'
<1> SUFFICES ASSUME RegistryInv, teardown, conn' \in Streams \cup {None},
                    stream' \in [Streams -> {"new", "hello", "open", "gone"}]
             PROVE  RegistryInv'
  OBVIOUS
<1> USE DEF RegistryInv
<1>1. \A c \in Calls : /\ call'[c].pc = call[c].pc /\ call'[c].on = call[c].on
                       /\ call'[c].result = call[c].result
                       /\ c \notin inflight => call'[c] = call[c]
                       /\ c \in inflight => call'[c].done
  BY ZenonT(30) DEF teardown, RegistryTypeOK, CallStates
<1>2. RegistryTypeOK'
  <2>1. \A r \in CallStates : [r EXCEPT !.done = TRUE] \in CallStates
    BY Zenon DEF CallStates
  <2>2. call' \in [Calls -> CallStates]
    BY Zenon, <2>1 DEF teardown, RegistryTypeOK
  <2> QED BY <1>1, <2>2 DEF teardown, RegistryTypeOK
<1>3. InflightIsAwaited'
  BY Zenon, <1>1 DEF teardown, InflightIsAwaited
<1>4. CallsFresh'
  <2>1. \A c \in inflight : call[c].pc # "idle"
    BY Zenon DEF InflightIsAwaited
  <2> QED BY <1>1, <2>1 DEF CallsFresh
<1>5. SentWasQueued'
  BY ZenonT(30), <1>1 DEF teardown, SentWasQueued, RegistryTypeOK
<1>6. NoStrayReports'
  BY Zenon DEF teardown, NoStrayReports
<1>7. AckKept' /\ NoAckLost'
  <2>1. acked \subseteq Calls /\ acked' = acked /\ events' = events
    BY Zenon DEF teardown, RegistryTypeOK
  <2>2. \A c \in Calls : AckInChannel(c) => AckInChannel(c)'
    BY Zenon, <2>1 DEF AckInChannel
  <2>3. AckKept'
    BY Zenon, <1>1, <2>1, <2>2 DEF AckKept
  <2>4. NoAckLost'
    BY Zenon, <1>1, <2>1 DEF NoAckLost
  <2> QED BY <2>3, <2>4
<1> QED BY <1>2, <1>3, <1>4, <1>5, <1>6, <1>7

\* What the handlers do leaves the calls and their channels alone.
LEMMA InvStreams ==
  ASSUME RegistryInv, NEW s \in Streams,
         \/ Hello(s) \/ registerLocked(s) \/ HelloFails(s) \/ Unregister(s) \/ Disconnect
         \/ \E c \in Calls : SendDown(s, c)
  PROVE  RegistryInv'
<1>1. CASE Hello(s) \/ HelloFails(s) \/ (Unregister(s) /\ conn # s)
  <2>1. UNCHANGED <<conn, closed, outgoing, sent, inflight, call, events, acked>>
    BY Zenon, <1>1 DEF Hello, HelloFails, Unregister
  <2>2. stream' \in [Streams -> {"new", "hello", "open", "gone"}]
    BY Zenon, <1>1 DEF Hello, HelloFails, Unregister, RegistryInv, RegistryTypeOK
  <2>3. RegistryTypeOK'
    BY Zenon, <2>1, <2>2 DEF RegistryInv, RegistryTypeOK
  <2> QED BY Zenon, <2>1, <2>3 DEF RegistryInv, InflightIsAwaited, CallsFresh, SentWasQueued, NoStrayReports,
             AckKept, AckInChannel, NoAckLost
<1>2. CASE registerLocked(s) \/ Disconnect \/ (Unregister(s) /\ conn = s)
  <2>1. teardown
    BY Zenon, <1>2 DEF registerLocked, Disconnect, Unregister
  <2>2. conn' \in Streams \cup {None} /\ stream' \in [Streams -> {"new", "hello", "open", "gone"}]
    BY Zenon, <1>2 DEF registerLocked, Disconnect, Unregister, RegistryInv, RegistryTypeOK
  <2> QED BY <2>1, <2>2, InvTeardown
<1>3. CASE \E c \in Calls : SendDown(s, c)
  <2> PICK c \in Calls : SendDown(s, c)
    BY Zenon, <1>3
  <2>1. RegistryTypeOK'
    BY DEF SendDown, RegistryInv, RegistryTypeOK
  <2>2. \A t \in Streams : outgoing'[t] \cup sent'[t] = outgoing[t] \cup sent[t]
    BY DEF SendDown, RegistryInv, RegistryTypeOK
  <2>3. SentWasQueued'
    BY Zenon, <2>2 DEF SendDown, RegistryInv, SentWasQueued
  <2> QED BY ZenonT(30), <2>1, <2>3 DEF SendDown, RegistryInv, InflightIsAwaited, CallsFresh, NoStrayReports,
             AckKept, AckInChannel, NoAckLost
<1> QED BY <1>1, <1>2, <1>3
-----------------------------------------------------------------------------
(* The channels.                                                           *)

\* Appending to a channel keeps the acks in it.
LEMMA AppendKeeps ==
  ASSUME NEW S, NEW q \in Seq(S), NEW e \in S
  PROVE  /\ Append(q, e) \in Seq(S) /\ Len(Append(q, e)) = Len(q) + 1
         /\ Append(q, e)[Len(q) + 1] = e
         /\ \A i \in 1..Len(q) : i \in 1..Len(Append(q, e)) /\ Append(q, e)[i] = q[i]
OBVIOUS

\* An ack behind the head of a channel stays in its tail.
LEMMA TailKeeps ==
  ASSUME NEW S, NEW q \in Seq(S), q # <<>>
  PROVE  /\ Tail(q) \in Seq(S) /\ Len(Tail(q)) = Len(q) - 1 /\ Head(q) = q[1] /\ Head(q) \in S
         /\ \A i \in 2..Len(q) : i - 1 \in 1..Len(Tail(q)) /\ Tail(q)[i - 1] = q[i]
OBVIOUS

\* What is left of a channel with acks only is acks.
LEMMA TailOfAcks ==
  ASSUME NEW S, NEW q \in Seq(S), q # <<>>, \A i \in 1..Len(q) : q[i] # "batch"
  PROVE  \A i \in 1..Len(Tail(q)) : Tail(q)[i] # "batch"
<1> SUFFICES ASSUME NEW i \in 1..Len(Tail(q)) PROVE Tail(q)[i] # "batch"
  OBVIOUS
<1>1. i + 1 \in 1..Len(q) /\ Tail(q)[i] = q[i + 1]
  OBVIOUS
<1> QED BY <1>1

\* A report is appended, and no ack leaves its channel.
LEMMA InvEvent ==
  ASSUME RegistryInv, NEW c \in Calls, deliverEvent(c)
  PROVE  RegistryInv'
<1>1. CASE events' = events
  <2>1. UNCHANGED registry
    BY Zenon, <1>1 DEF deliverEvent, registry
  <2> QED BY Zenon, <2>1 DEF registry, RegistryInv, RegistryTypeOK, InflightIsAwaited, CallsFresh, SentWasQueued,
             NoStrayReports, AckKept, AckInChannel, NoAckLost
<1>2. CASE c \in Reporting /\ events' = [events EXCEPT ![c] = Append(@, "batch")]
  <2>1. events[c] \in Seq(Codes \cup {"batch"}) /\ events \in [Calls -> Seq(Codes \cup {"batch"})]
    BY Zenon DEF RegistryInv, RegistryTypeOK
  <2>2. events'[c] = Append(events[c], "batch") /\ \A d \in Calls \ {c} : events'[d] = events[d]
    BY Zenon, <1>2, <2>1
  <2>3. /\ events'[c] \in Seq(Codes \cup {"batch"})
        /\ \A i \in 1..Len(events[c]) : i \in 1..Len(events'[c]) /\ events'[c][i] = events[c][i]
    BY <2>1, <2>2, AppendKeeps
  <2>4. RegistryTypeOK'
    BY Zenon, <1>2, <2>1, <2>3 DEF deliverEvent, RegistryInv, RegistryTypeOK
  <2>5. \A d \in Calls : AckInChannel(d) => AckInChannel(d)'
    BY Zenon, <2>2, <2>3 DEF AckInChannel
  <2>6. AckKept' /\ NoAckLost'
    BY Zenon, <2>5 DEF deliverEvent, RegistryInv, RegistryTypeOK, AckKept, NoAckLost
  <2>7. NoStrayReports'
    BY Zenon, <1>2, <2>2 DEF RegistryInv, NoStrayReports
  <2> QED BY <2>4, <2>6, <2>7 DEF deliverEvent, RegistryInv, InflightIsAwaited, CallsFresh, SentWasQueued
<1> QED BY <1>1, <1>2 DEF deliverEvent

\* The ack is appended, to a channel that has room for it or has given up its head.
LEMMA InvAck ==
  ASSUME RegistryInv, NEW s \in Streams, NEW c \in Calls, NEW code \in Codes, deliverAck(s, c, code)
  PROVE  RegistryInv'
<1>1. events[c] \in Seq(Codes \cup {"batch"}) /\ events \in [Calls -> Seq(Codes \cup {"batch"})]
  BY Zenon DEF RegistryInv, RegistryTypeOK
<1>2. code # "batch"
  BY Zenon, RegistryAssumption
<1>3. \A d \in Calls \ {c} : events'[d] = events[d]
  BY Zenon, <1>1 DEF deliverAck
<1>4. events'[c] \in Seq(Codes \cup {"batch"}) /\ AckInChannel(c)'
  <2>1. CASE c \in Reporting
    <3>1. PICK q \in Seq(Codes \cup {"batch"}) : events'[c] = Append(q, code)
      <4>1. CASE Len(events[c]) < EventBuffer
        BY Zenon, <1>1, <2>1, <4>1 DEF deliverAck
      <4>2. CASE ~ (Len(events[c]) < EventBuffer)
        <5>1. events[c] # <<>>
          <6>1. EventBuffer \in Nat \ {0}
            BY Zenon, RegistryAssumption
          <6>2. Len(<<>>) < EventBuffer
            BY <6>1
          <6> QED BY <4>2, <6>2
        <5>2. Tail(events[c]) \in Seq(Codes \cup {"batch"})
          BY Zenon, <1>1, <5>1, TailKeeps
        <5>3. events'[c] = Append(Tail(events[c]), code)
          BY Zenon, <1>1, <2>1, <4>2 DEF deliverAck
        <5> QED BY Zenon, <5>2, <5>3
      <4> QED BY <4>1, <4>2
    <3>2. /\ Append(q, code) \in Seq(Codes \cup {"batch"}) /\ Len(Append(q, code)) = Len(q) + 1
          /\ Append(q, code)[Len(q) + 1] = code
      BY AppendKeeps
    <3> QED BY <1>2, <3>1, <3>2 DEF AckInChannel
  <2>2. CASE c \notin Reporting /\ events[c] = <<>>
    <3>1. events'[c] = <<code>>
      BY Zenon, <1>1, <2>2 DEF deliverAck
    <3> QED BY <1>2, <3>1 DEF AckInChannel
  <2>3. CASE c \notin Reporting /\ events[c] # <<>>
    <3>1. events'[c] = events[c]
      BY Zenon, <1>1, <2>3 DEF deliverAck
    <3>2. 1 \in 1..Len(events[c])
      BY <1>1, <2>3
    <3>3. events[c][1] # "batch"
      BY Zenon, <2>3, <3>2 DEF RegistryInv, NoStrayReports
    <3> QED BY <1>1, <3>1, <3>2, <3>3 DEF AckInChannel
  <2> QED BY <2>1, <2>2, <2>3
<1>5. RegistryTypeOK'
  <2>1. events' \in [Calls -> Seq(Codes \cup {"batch"})]
    <3>1. DOMAIN events' = Calls /\ events' = [d \in Calls |-> events'[d]]
      BY Zenon, <1>1 DEF deliverAck
    <3> QED BY Zenon, <1>1, <1>3, <1>4, <3>1
  <2>2. acked' \subseteq Calls
    BY Zenon DEF deliverAck, RegistryInv, RegistryTypeOK
  <2> QED BY <2>1, <2>2 DEF deliverAck, RegistryInv, RegistryTypeOK
<1>6. NoStrayReports'
  <2> SUFFICES ASSUME NEW d \in Calls \ Reporting, NEW i \in 1..Len(events'[d]) PROVE events'[d][i] # "batch"
    BY Zenon DEF NoStrayReports
  <2>1. CASE d # c \/ events[c] # <<>>
    <3>1. events'[d] = events[d]
      BY Zenon, <1>1, <1>3, <2>1 DEF deliverAck
    <3> QED BY <3>1 DEF RegistryInv, NoStrayReports
  <2>2. CASE d = c /\ events[c] = <<>>
    <3>1. events'[d] = <<code>>
      BY Zenon, <1>1, <2>2 DEF deliverAck
    <3> QED BY <1>2, <3>1
  <2> QED BY <2>1, <2>2
<1>7. AckKept' /\ NoAckLost'
  <2>1. call[c].pc = "wait" /\ call[c].result = "none"
    BY Zenon DEF deliverAck, RegistryInv, InflightIsAwaited, SentWasQueued, CallsFresh
  <2>2. \A d \in acked \ {c} : d \in Calls /\ (AckInChannel(d) => AckInChannel(d)')
    BY Zenon, <1>3 DEF AckInChannel, RegistryInv, RegistryTypeOK
  <2>3. call' = call /\ acked' = acked \cup {c}
    BY Zenon DEF deliverAck
  <2> QED BY Zenon, <1>4, <2>1, <2>2, <2>3 DEF RegistryInv, AckKept, NoAckLost
<1> QED BY <1>5, <1>6, <1>7 DEF deliverAck, RegistryInv, InflightIsAwaited, CallsFresh, SentWasQueued
-----------------------------------------------------------------------------
(* The calls.                                                              *)

EndedWith(k, r) == [k EXCEPT !.pc = "ended", !.done = TRUE, !.result = r]

\* The record of a call that has ended.
LEMMA EndedRecord ==
  \A k \in CallStates : \A r \in Codes \cup {"no stream", "too old", "closed", "timeout", "stopped"} :
    /\ EndedWith(k, r) \in CallStates /\ EndedWith(k, r).pc = "ended"
    /\ EndedWith(k, r).done /\ EndedWith(k, r).result = r /\ EndedWith(k, r).on = k.on
BY Zenon DEF CallStates, EndedWith

AddedTo(k, s) == [k EXCEPT !.pc = "enqueue", !.on = s]

\* The record of a call that was added to a stream.
LEMMA AddedRecord ==
  \A k \in CallStates : \A s \in Streams :
    /\ AddedTo(k, s) \in CallStates /\ AddedTo(k, s).pc = "enqueue" /\ AddedTo(k, s).on = s
    /\ AddedTo(k, s).result = k.result /\ AddedTo(k, s).done = k.done
BY Zenon DEF CallStates, AddedTo

\* What the end of a call changes.
LEMMA EndChanges ==
  ASSUME RegistryTypeOK, NEW c \in Calls, NEW r, End(c, r),
         r \in Codes \cup {"no stream", "too old", "closed", "timeout", "stopped"}
  PROVE  /\ call'[c].pc = "ended" /\ call'[c].done /\ call'[c].result = r /\ call'[c] \in CallStates
         /\ call'[c].on = call[c].on
         /\ \A d \in Calls \ {c} : call'[d] = call[d]
         /\ call' \in [Calls -> CallStates] /\ inflight' = inflight \ {c}
<1>1. call \in [Calls -> CallStates] /\ call[c] \in CallStates
  BY Zenon DEF RegistryTypeOK
<1>2. DOMAIN call' = Calls /\ \A d \in Calls \ {c} : call'[d] = call[d]
  BY Zenon, <1>1 DEF End
<1>3. call'[c] = [call[c] EXCEPT !.pc = "ended", !.done = TRUE, !.result = r]
  BY Zenon, <1>1 DEF End
<1>4. /\ call'[c] \in CallStates /\ call'[c].pc = "ended" /\ call'[c].done
      /\ call'[c].result = r /\ call'[c].on = call[c].on
  <2>1. /\ EndedWith(call[c], r) \in CallStates /\ EndedWith(call[c], r).pc = "ended"
        /\ EndedWith(call[c], r).done /\ EndedWith(call[c], r).result = r
        /\ EndedWith(call[c], r).on = call[c].on
    BY Zenon, <1>1, EndedRecord
  <2>2. call'[c] = EndedWith(call[c], r)
    BY Zenon, <1>3 DEF EndedWith
  <2> QED BY Zenon, <2>1, <2>2
<1>5. call' \in [Calls -> CallStates]
  <2>1. call' = [d \in Calls |-> call'[d]]
    BY Zenon, <1>1 DEF End
  <2>2. \A d \in Calls : call'[d] \in CallStates
    BY Zenon, <1>1, <1>2, <1>4
  <2> QED BY Zenon, <2>1, <2>2
<1> QED BY Zenon, <1>2, <1>4, <1>5 DEF End

\* A call may end, with no ack before it is told that the stream is gone.
LEMMA InvEnd ==
  ASSUME RegistryInv, NEW c \in Calls, NEW r, End(c, r), CallFrame, UNCHANGED outgoing,
         r \in Codes \cup {"no stream", "too old", "closed", "timeout", "stopped"},
         r \in {"closed", "no stream"} => c \notin acked,
         events' = events \/ (events[c] # <<>> /\ events' = [events EXCEPT ![c] = Tail(@)])
  PROVE  RegistryInv'
<1> USE DEF RegistryInv
<1>1. /\ call'[c].pc = "ended" /\ call'[c].done /\ call'[c].result = r /\ call'[c] \in CallStates
      /\ \A d \in Calls \ {c} : call'[d] = call[d]
      /\ call' \in [Calls -> CallStates] /\ inflight' = inflight \ {c}
  BY Zenon, EndChanges
<1>2. /\ events' \in [Calls -> Seq(Codes \cup {"batch"})] /\ \A d \in Calls \ {c} : events'[d] = events[d]
      /\ events'[c] = events[c] \/ (events[c] # <<>> /\ events'[c] = Tail(events[c]))
  <2>1. events \in [Calls -> Seq(Codes \cup {"batch"})] /\ events[c] \in Seq(Codes \cup {"batch"})
    BY Zenon DEF RegistryTypeOK
  <2>2. events[c] # <<>> => Tail(events[c]) \in Seq(Codes \cup {"batch"})
    BY Zenon, <2>1, TailKeeps
  <2> QED BY Zenon, <2>1, <2>2
<1>3. RegistryTypeOK'
  BY Zenon, <1>1, <1>2 DEF CallFrame, RegistryTypeOK
<1>4. InflightIsAwaited'
  BY ZenonT(30), <1>1 DEF CallFrame, InflightIsAwaited, RegistryTypeOK
<1>5. CallsFresh'
  BY Zenon, <1>1 DEF CallsFresh
<1>6. SentWasQueued'
  BY Zenon, <1>1 DEF CallFrame, SentWasQueued, RegistryTypeOK
<1>7. NoStrayReports'
  <2> SUFFICES ASSUME NEW d \in Calls \ Reporting, NEW i \in 1..Len(events'[d]) PROVE events'[d][i] # "batch"
    BY Zenon DEF NoStrayReports
  <2>1. CASE events'[d] = events[d]
    BY Zenon, <2>1 DEF NoStrayReports
  <2>2. CASE events[d] # <<>> /\ events'[d] = Tail(events[d])
    <3>1. events[d] \in Seq(Codes \cup {"batch"})
      BY Zenon DEF RegistryTypeOK
    <3>2. \A j \in 1..Len(events[d]) : events[d][j] # "batch"
      BY Zenon DEF NoStrayReports
    <3> QED BY Zenon, <2>2, <3>1, <3>2, TailOfAcks
  <2> QED BY Zenon, <1>2, <2>1, <2>2
<1>8. AckKept' /\ NoAckLost'
  <2>1. acked' = acked /\ acked \subseteq Calls
    BY Zenon DEF CallFrame, RegistryTypeOK
  <2>2. \A d \in Calls \ {c} : AckInChannel(d) => AckInChannel(d)'
    BY Zenon, <1>2 DEF AckInChannel
  <2> QED BY Zenon, <1>1, <2>1, <2>2 DEF AckKept, NoAckLost
<1> QED BY Zenon, <1>3, <1>4, <1>5, <1>6, <1>7, <1>8

\* A call is added to the connection that is registered.
LEMMA InvAdd ==
  ASSUME RegistryInv, NEW c \in Calls, addCmd(c)
  PROVE  RegistryInv'
<1>1. c \notin acked
  BY Zenon DEF RegistryInv, AckKept, addCmd
<1>2. CASE End(c, "no stream") \/ End(c, "too old")
  <2>1. CallFrame /\ UNCHANGED <<outgoing, events>>
    BY Zenon DEF addCmd
  <2> QED BY Zenon, <1>1, <1>2, <2>1, InvEnd
<1>3. CASE /\ conn # None /\ call' = [call EXCEPT ![c].pc = "enqueue", ![c].on = conn]
           /\ inflight' = inflight \cup {c}
  <2> USE DEF RegistryInv
  <2>1. call[c].pc = "idle" /\ ~ call[c].done /\ call[c].result = "none" /\ conn \in Streams
    BY Zenon, <1>3 DEF addCmd, CallsFresh, RegistryTypeOK
  <2>2. /\ call'[c].pc = "enqueue" /\ call'[c].on = conn /\ call'[c].result = "none"
        /\ call'[c].done = call[c].done
        /\ \A d \in Calls \ {c} : call'[d] = call[d]
        /\ call' \in [Calls -> CallStates]
    <3>1. call \in [Calls -> CallStates] /\ call[c] \in CallStates
      BY Zenon DEF RegistryTypeOK
    <3>2. call'[c] = AddedTo(call[c], conn) /\ \A d \in Calls \ {c} : call'[d] = call[d]
      BY Zenon, <1>3, <3>1 DEF AddedTo
    <3>3. /\ AddedTo(call[c], conn) \in CallStates
          /\ AddedTo(call[c], conn).pc = "enqueue" /\ AddedTo(call[c], conn).on = conn
          /\ AddedTo(call[c], conn).result = call[c].result /\ AddedTo(call[c], conn).done = call[c].done
      BY Zenon, <2>1, <3>1, AddedRecord
    <3>4. call' \in [Calls -> CallStates]
      <4>1. call' = [d \in Calls |-> call'[d]]
        BY Zenon, <1>3, <3>1
      <4>2. \A d \in Calls : call'[d] \in CallStates
        BY Zenon, <3>1, <3>2, <3>3
      <4> QED BY Zenon, <4>1, <4>2
    <3> QED BY <2>1, <3>2, <3>3, <3>4
  <2>3. CallFrame /\ UNCHANGED <<outgoing, events>>
    BY Zenon DEF addCmd
  <2>4. RegistryTypeOK'
    BY Zenon, <1>3, <2>1, <2>2, <2>3 DEF CallFrame, RegistryTypeOK
  <2>5. InflightIsAwaited'
    BY <1>3, <2>1, <2>2, <2>3 DEF CallFrame, InflightIsAwaited, RegistryTypeOK
  <2>6. CallsFresh'
    BY Zenon, <2>1, <2>2 DEF CallsFresh
  <2>7. SentWasQueued'
    BY ZenonT(30), <2>1, <2>2, <2>3 DEF CallFrame, SentWasQueued, RegistryTypeOK
  <2>8. NoStrayReports'
    BY Zenon, <2>3 DEF NoStrayReports
  <2>9. AckKept' /\ NoAckLost'
    <3>1. acked' = acked /\ acked \subseteq Calls /\ events' = events
      BY Zenon, <2>3 DEF CallFrame, RegistryTypeOK
    <3> QED BY ZenonT(30), <1>1, <2>2, <3>1 DEF AckKept, AckInChannel, NoAckLost
  <2> QED BY <2>4, <2>5, <2>6, <2>7, <2>8, <2>9
<1> QED BY Zenon, <1>2, <1>3 DEF addCmd

\* A command is put on its connection, closed or not, or the call ends.
LEMMA InvEnqueue ==
  ASSUME RegistryInv, NEW c \in Calls, enqueue(c)
  PROVE  RegistryInv'
<1>1. c \notin acked
  BY Zenon DEF RegistryInv, AckKept, enqueue
<1>2. CASE End(c, "no stream") /\ UNCHANGED outgoing
  <2>1. CallFrame /\ UNCHANGED events
    BY Zenon DEF enqueue
  <2> QED BY Zenon, <1>1, <1>2, <2>1, InvEnd
<1>3. CASE /\ outgoing' = [outgoing EXCEPT ![call[c].on] = @ \cup {c}]
           /\ call' = [call EXCEPT ![c].pc = "wait"] /\ UNCHANGED inflight
  <2> USE DEF RegistryInv
  <2>1. call[c].pc = "enqueue" /\ call[c].result = "none" /\ call[c].on \in Streams
    BY Zenon DEF enqueue, CallsFresh, RegistryTypeOK
  <2>2. /\ call'[c].pc = "wait" /\ call'[c].on = call[c].on /\ call'[c].result = "none"
        /\ call'[c].done = call[c].done
        /\ \A d \in Calls \ {c} : call'[d] = call[d]
        /\ call' \in [Calls -> CallStates]
    BY ZenonT(30), <1>3, <2>1 DEF RegistryTypeOK, CallStates
  <2>3. CallFrame /\ UNCHANGED events
    BY Zenon DEF enqueue
  <2>4. /\ outgoing' \in [Streams -> SUBSET Calls]
        /\ \A s \in Streams : outgoing'[s] \subseteq outgoing[s] \cup {c}
    BY Zenon, <1>3 DEF RegistryTypeOK
  <2>5. RegistryTypeOK'
    BY ZenonT(30), <1>3, <2>1, <2>2, <2>3, <2>4 DEF CallFrame, RegistryTypeOK
  <2>6. InflightIsAwaited'
    BY <1>3, <2>1, <2>2, <2>3 DEF CallFrame, InflightIsAwaited, RegistryTypeOK
  <2>7. CallsFresh'
    BY Zenon, <2>1, <2>2 DEF CallsFresh
  <2>8. SentWasQueued'
    BY Zenon, <2>2, <2>3, <2>4 DEF CallFrame, SentWasQueued, RegistryTypeOK
  <2>9. NoStrayReports'
    BY Zenon, <2>3 DEF NoStrayReports
  <2>10. AckKept' /\ NoAckLost'
    <3>1. acked' = acked /\ acked \subseteq Calls /\ events' = events
      BY Zenon, <2>3 DEF CallFrame, RegistryTypeOK
    <3> QED BY ZenonT(30), <1>1, <2>2, <3>1 DEF AckKept, AckInChannel, NoAckLost
  <2> QED BY <2>5, <2>6, <2>7, <2>8, <2>9, <2>10
<1> QED BY Zenon, <1>2, <1>3 DEF enqueue

\* A report at the head of the channel was no ack.
LEMMA InvReceive ==
  ASSUME RegistryInv, NEW c \in Calls, Receive(c)
  PROVE  RegistryInv'
<1>1. /\ events[c] \in Seq(Codes \cup {"batch"}) /\ events[c] # <<>>
      /\ events' = [events EXCEPT ![c] = Tail(@)] /\ CallFrame /\ UNCHANGED outgoing
  BY Zenon DEF Receive, RegistryInv, RegistryTypeOK
<1>2. Head(events[c]) \in Codes \cup {"batch"} /\ Head(events[c]) = events[c][1]
  BY Zenon, <1>1, TailKeeps
<1>3. CASE End(c, "stopped")
  BY Zenon, <1>1, <1>3, InvEnd
<1>4. CASE Head(events[c]) # "batch" /\ End(c, Head(events[c]))
  <2>1. Head(events[c]) \in Codes /\ Head(events[c]) \notin {"closed", "no stream"}
    BY Zenon, <1>2, <1>4, RegistryAssumption
  <2> QED BY Zenon, <1>1, <1>4, <2>1, InvEnd
<1>5. CASE Head(events[c]) = "batch" /\ UNCHANGED <<call, inflight>>
  <2> USE DEF RegistryInv
  <2>1. /\ events \in [Calls -> Seq(Codes \cup {"batch"})]
        /\ Tail(events[c]) \in Seq(Codes \cup {"batch"})
    BY Zenon, <1>1, TailKeeps DEF RegistryTypeOK
  <2>2. events'[c] = Tail(events[c]) /\ \A d \in Calls \ {c} : events'[d] = events[d]
    BY Zenon, <1>1, <2>1
  <2>3. events' \in [Calls -> Seq(Codes \cup {"batch"})]
    BY Zenon, <1>1, <2>1
  <2>4. RegistryTypeOK'
    BY Zenon, <1>1, <1>5, <2>3 DEF CallFrame, RegistryTypeOK
  <2>5. NoStrayReports'
    <3>1. ASSUME NEW d \in Calls \ Reporting PROVE d # c
      <4>1. 1 \in 1..Len(events[c])
        BY <1>1
      <4> QED BY <1>2, <1>5, <4>1 DEF NoStrayReports
    <3> QED BY <2>2, <3>1 DEF NoStrayReports
  <2>6. AckInChannel(c) => AckInChannel(c)'
    <3> SUFFICES ASSUME NEW i \in 1..Len(events[c]), events[c][i] # "batch" PROVE AckInChannel(c)'
      BY Zenon DEF AckInChannel
    <3>1. i \in 2..Len(events[c])
      BY <1>2, <1>5
    <3>2. i - 1 \in 1..Len(Tail(events[c])) /\ Tail(events[c])[i - 1] = events[c][i]
      BY Zenon, <1>1, <3>1, TailKeeps
    <3> QED BY Zenon, <2>2, <3>2 DEF AckInChannel
  <2>7. AckKept' /\ NoAckLost'
    <3>1. acked' = acked /\ acked \subseteq Calls /\ call' = call
      BY Zenon, <1>1, <1>5 DEF CallFrame, RegistryTypeOK
    <3>2. \A d \in Calls : AckInChannel(d) => AckInChannel(d)'
      BY Zenon, <2>2, <2>6 DEF AckInChannel
    <3> QED BY Zenon, <3>1, <3>2 DEF AckKept, NoAckLost
  <2> QED BY <1>1, <1>5, <2>4, <2>5, <2>7 DEF CallFrame, InflightIsAwaited, CallsFresh, SentWasQueued
<1> QED BY <1>3, <1>4, <1>5 DEF Receive

\* A call told that the stream is gone has an empty channel.
LEMMA InvGivesUp ==
  ASSUME RegistryInv, NEW c \in Calls, Closed(c) \/ Expire(c)
  PROVE  RegistryInv'
<1>1. CallFrame /\ UNCHANGED <<outgoing, events>>
  BY Zenon DEF Closed, Expire
<1>2. CASE Closed(c)
  <2>1. c \notin acked
    <3>1. call[c].pc = "wait" /\ events[c] = <<>>
      BY Zenon, <1>2 DEF Closed
    <3>2. ~ AckInChannel(c)
      BY <3>1 DEF AckInChannel
    <3> QED BY <3>1, <3>2 DEF RegistryInv, AckKept
  <2> QED BY Zenon, <1>1, <1>2, <2>1, InvEnd DEF Closed
<1>3. CASE Expire(c)
  BY Zenon, <1>1, <1>3, InvEnd DEF Expire
<1> QED BY <1>2, <1>3
-----------------------------------------------------------------------------
\* Every handler, every call and every delivery keeps the invariant.
LEMMA RegistryStep == RegistryInv /\ [RegistryNext]_registry => RegistryInv'
<1> SUFFICES ASSUME RegistryInv, [RegistryNext]_registry PROVE RegistryInv'
  OBVIOUS
<1>1. CASE Streaming
  <2>1. CASE \E s \in Streams : \E c \in Calls : \E code \in Codes : deliverAck(s, c, code)
    BY Zenon, <2>1, InvAck
  <2>2. CASE \E s \in Streams : \/ Hello(s) \/ registerLocked(s) \/ HelloFails(s) \/ Unregister(s)
                                \/ \E c \in Calls : SendDown(s, c)
    BY Zenon, <2>2, InvStreams
  <2>3. CASE Disconnect
    <3>1. conn \in Streams
      BY Zenon, <2>3 DEF Disconnect, RegistryInv, RegistryTypeOK
    <3> QED BY <2>3, <3>1, InvStreams
  <2> QED BY <1>1, <2>1, <2>2, <2>3 DEF Streaming
<1>2. CASE \E c \in Calls : Caller(c) \/ deliverEvent(c)
  BY Zenon, <1>2, InvEvent, InvAdd, InvEnqueue, InvReceive, InvGivesUp DEF Caller
<1>3. CASE UNCHANGED registry
  BY Zenon, <1>3 DEF registry, RegistryInv, RegistryTypeOK, InflightIsAwaited, CallsFresh, SentWasQueued,
     NoStrayReports, AckKept, AckInChannel, NoAckLost
<1> QED BY <1>1, <1>2, <1>3 DEF RegistryNext

\* RegistryInv holds throughout.
THEOREM RegistryInvariant == RegistrySpec => []RegistryInv
<1> QED BY InvInit, RegistryStep, PTL DEF RegistrySpec

\* Types, for all constants.
THEOREM RegistryTypes == RegistrySpec => []RegistryTypeOK
<1>1. RegistryInv => RegistryTypeOK
  BY Zenon DEF RegistryInv
<1> QED BY <1>1, RegistryInvariant, PTL

\* Register, Unregister, Disconnect and removeCmd keep the commands in flight
\* equal to the calls that wait on the registered connection and were not woken.
THEOREM RegistryAwaited == RegistrySpec => []InflightIsAwaited
<1>1. RegistryInv => InflightIsAwaited
  BY Zenon DEF RegistryInv
<1> QED BY <1>1, RegistryInvariant, PTL

\* deliverAck and the two selects of runCommand lose no terminal ack, however
\* small the channel, and whenever the connection is replaced.
THEOREM RegistryAcks == RegistrySpec => []NoAckLost
<1>1. RegistryInv => NoAckLost
  BY Zenon DEF RegistryInv
<1> QED BY <1>1, RegistryInvariant, PTL
-----------------------------------------------------------------------------
(***************************************************************************)
(* The agent and the report handlers.  An OK ack of a pair command can be  *)
(* found in five places on its way: with its worker, on a stream, in the   *)
(* call's channel, and as the call's result; in each of them it means that *)
(* the result of every target is stored.  A worker that is still reporting *)
(* has stored what it has crossed off, unless it knows better.             *)
(***************************************************************************)

\* A command reaches the agent at most once, on the stream it was put on.
TakenOnce(c) ==
  /\ call[c].pc \in {"idle", "enqueue"} => agent[c].pc = "none"
  /\ \A s \in Streams : c \in outgoing[s] => call[c].on = s /\ agent[c].pc = "none"

\* Its worker uploads one report at a time and ends with an ack.
OneReport(c) ==
  /\ agent[c].pc \in {"none", "start", "work"} => report[c].pc = "none"
  /\ agent[c].pc = "report" => report[c].pc \in {"none", "accepted", "rejected"}
  /\ report[c].pc # "none" => report[c].device \in Devices
  /\ agent[c].pc = "ack" => agent[c].code \in Codes

OkInChannel(c) == \E i \in 1..Len(events[c]) : events[c][i] = "ok"

\* An OK is on its way to the caller, or there.
OkUnderway(c) ==
  \/ agent[c].code = "ok" \/ OkInChannel(c) \/ call[c].result = "ok"
  \/ \E s \in Streams : <<c, "ok">> \in up[s]

\* What a pair command has stored.
Storing(c) ==
  /\ report[c].pc = "none" => targets[c] = Devices
  /\ report[c].pc \in {"publish", "accepted"} => report[c].device \in stored[c]
  /\ agent[c].pc \in {"report", "wait"} /\ ~ agent[c].truncated /\ ~ agent[c].rejected =>
       Devices \ agent[c].todo \subseteq stored[c]
  /\ OkUnderway(c) => stored[c] = Devices

\* No target of c is used up without a result.
Open(c) ==
  c \in inflight =>
    Devices \ targets[c] \subseteq
      stored[c] \cup (IF report[c].pc \in {"persist", "reinstate"} THEN {report[c].device} ELSE {})

Command(c) == TakenOnce(c) /\ OneReport(c) /\ (c \in Pairing => Storing(c) /\ Open(c))

AInv ==
  /\ RegistryInv /\ TypeOK
  /\ \A c \in Calls : TakenOnce(c) /\ OneReport(c)
  /\ \A c \in Pairing : Storing(c) /\ Open(c)
-----------------------------------------------------------------------------
\* Of the node the registry sees what it allows: acks of commands that were
\* sent, on the stream they were sent on, and reports.
LEMMA NodeSteps == [Next]_vars => [RegistryNext]_registry
<1> SUFFICES ASSUME [Next]_vars PROVE [RegistryNext]_registry
  OBVIOUS
<1>1. CASE UNCHANGED vars
  BY Zenon, <1>1 DEF vars
<1>2. ASSUME NEW s \in Streams, Connect(s) PROVE RegistryNext
  BY Zenon, <1>2 DEF Connect, RegistryNext, Streaming
<1>3. ASSUME NEW s \in Streams, NEW c \in Calls, Deliver(s, c) PROVE RegistryNext
  BY Zenon, <1>3 DEF Deliver, RegistryNext, Streaming
<1>4. ASSUME NEW s \in Streams, NEW c \in Calls, NEW code \in Codes, PublishAck(s, c, code)
      PROVE  [RegistryNext]_registry
  BY Zenon, <1>4 DEF PublishAck, RegistryNext, Streaming
<1>5. CASE Server
  BY Zenon, <1>5 DEF Server, RegistryNext, Streaming
<1>6. ASSUME NEW c \in Calls, Publish(c) PROVE RegistryNext
  BY Zenon, <1>6 DEF Publish, RegistryNext
<1>7. ASSUME NEW c \in Calls, \/ Worker(c) \/ WorkersExit(c) \/ UnlockPair(c)
                              \/ Admit(c) \/ Persist(c) \/ Reinstate(c)
      PROVE  UNCHANGED registry
  BY Zenon, <1>7 DEF Worker, handleMinerCommand, handleDiscover, handlePairCommand, fanOutPairs,
     SendReport, ReportDone, ReportFails, Reported, sendAck, WorkersExit, UnlockPair, Admit,
     Persist, Reinstate
<1>8. CASE SessionEnds
  BY Zenon, <1>8 DEF SessionEnds
<1> QED
  BY Zenon, <1>1, <1>2, <1>3, <1>4, <1>5, <1>6, <1>7, <1>8 DEF Next

\* The agent implements the node that ControlRegistry leaves free.
THEOREM AgentIsANode == Spec => ImplementsRegistry
<1>1. Init => RegistryInit
  BY Zenon DEF Init
<1> QED BY <1>1, NodeSteps, PTL DEF Spec, ImplementsRegistry, RegistrySpec

\* What a step of the registry does to one call: it is added once, put on one
\* stream, and ends OK only by an OK from its channel.
LEMMA CallSteps ==
  ASSUME RegistryInv, [RegistryNext]_registry, NEW d \in Calls
  PROVE  /\ call'[d].pc \in {"idle", "enqueue"} => call[d].pc \in {"idle", "enqueue"}
         /\ call[d].pc # "idle" => call'[d].on = call[d].on
         /\ \A s \in Streams : d \in outgoing'[s] =>
              d \in outgoing[s] \/ (call[d].pc = "enqueue" /\ s = call[d].on)
         /\ call'[d].result = "ok" => call[d].result = "ok" \/ OkInChannel(d)
         /\ d \in inflight' => d \in inflight \/ call[d].pc = "idle"
<1> USE DEF RegistryInv
<1>0. RegistryTypeOK /\ call \in [Calls -> CallStates] /\ outgoing \in [Streams -> SUBSET Calls]
  BY Zenon DEF RegistryTypeOK
<1> DEFINE Goal ==
         /\ call'[d].pc \in {"idle", "enqueue"} => call[d].pc \in {"idle", "enqueue"}
         /\ call[d].pc # "idle" => call'[d].on = call[d].on
         /\ \A s \in Streams : d \in outgoing'[s] =>
              d \in outgoing[s] \/ (call[d].pc = "enqueue" /\ s = call[d].on)
         /\ call'[d].result = "ok" => call[d].result = "ok" \/ OkInChannel(d)
         /\ d \in inflight' => d \in inflight \/ call[d].pc = "idle"
<1> SUFFICES Goal
  OBVIOUS
<1>1. ASSUME call'[d].pc = call[d].pc /\ call'[d].on = call[d].on /\ call'[d].result = call[d].result,
             \A s \in Streams : outgoing'[s] \subseteq outgoing[s], inflight' \subseteq inflight
      PROVE  Goal
  BY Zenon, <1>1
<1>2. CASE UNCHANGED <<call, outgoing, inflight>>
  BY Zenon, <1>1, <1>2
<1>3. CASE teardown
  <2>1. /\ call'[d].pc = call[d].pc /\ call'[d].on = call[d].on /\ call'[d].result = call[d].result
        /\ UNCHANGED outgoing /\ inflight' = {}
    BY Zenon, <1>0, <1>3 DEF teardown, CallStates
  <2> QED
    BY Zenon, <1>1, <2>1
<1>4. ASSUME NEW s \in Streams, NEW c \in Calls, SendDown(s, c) PROVE Goal
  <2>1. UNCHANGED <<call, inflight>> /\ \A t \in Streams : outgoing'[t] \subseteq outgoing[t]
    BY Zenon, <1>0, <1>4 DEF SendDown
  <2> QED
    BY Zenon, <1>1, <2>1
<1>5. ASSUME NEW c \in Calls, NEW r, End(c, r), UNCHANGED outgoing,
             r \in Codes \cup {"no stream", "too old", "closed", "timeout", "stopped"},
             r = "ok" => OkInChannel(c)
      PROVE  Goal
  <2>1. /\ call'[c].pc = "ended" /\ call'[c].result = r /\ call'[c].on = call[c].on
        /\ \A e \in Calls \ {c} : call'[e] = call[e]
        /\ inflight' = inflight \ {c}
    BY Zenon, <1>0, <1>5, EndChanges
  <2>2. CASE d # c
    BY Zenon, <1>1, <1>5, <2>1, <2>2
  <2>3. CASE d = c
    BY Zenon, <1>5, <2>1, <2>3
  <2> QED
    BY Zenon, <2>2, <2>3
<1>6. ASSUME NEW c \in Calls, addCmd(c) PROVE Goal
  <2>1. CASE End(c, "no stream") \/ End(c, "too old")
    <3>1. UNCHANGED outgoing
      BY Zenon, <1>6 DEF addCmd
    <3> QED
      BY Zenon, <1>5, <2>1, <3>1
  <2>2. CASE /\ conn # None /\ call' = [call EXCEPT ![c].pc = "enqueue", ![c].on = conn]
             /\ inflight' = inflight \cup {c}
    <3>1. call[c].pc = "idle" /\ UNCHANGED outgoing /\ conn \in Streams /\ call[c] \in CallStates
      BY Zenon, <1>0, <1>6, <2>2 DEF addCmd, RegistryTypeOK
    <3>2. call'[c] = AddedTo(call[c], conn) /\ \A e \in Calls \ {c} : call'[e] = call[e]
      BY Zenon, <1>0, <2>2 DEF AddedTo
    <3>3. call'[c].pc = "enqueue" /\ call'[c].result = call[c].result
      <4>1. AddedTo(call[c], conn).pc = "enqueue" /\ AddedTo(call[c], conn).result = call[c].result
        BY Zenon, <3>1, AddedRecord
      <4> QED
        BY Zenon, <3>2, <4>1
    <3>4. CASE d # c
      BY Zenon, <2>2, <3>1, <3>2, <3>4
    <3>5. CASE d = c
      BY Zenon, <2>2, <3>1, <3>3, <3>5
    <3> QED
      BY Zenon, <3>4, <3>5
  <2> QED
    BY Zenon, <1>6, <2>1, <2>2 DEF addCmd
<1>7. ASSUME NEW c \in Calls, enqueue(c) PROVE Goal
  <2>1. CASE End(c, "no stream") /\ UNCHANGED outgoing
    BY Zenon, <1>5, <2>1
  <2>2. CASE /\ outgoing' = [outgoing EXCEPT ![call[c].on] = @ \cup {c}]
             /\ call' = [call EXCEPT ![c].pc = "wait"] /\ UNCHANGED inflight
    <3>1. call[c].pc = "enqueue" /\ call[c].on \in Streams /\ inflight' = inflight
      BY Zenon, <1>7, <2>2 DEF enqueue, RegistryTypeOK
    <3>2. /\ call'[c].pc = "wait" /\ call'[c].on = call[c].on /\ call'[c].result = call[c].result
          /\ \A e \in Calls \ {c} : call'[e] = call[e]
      BY Zenon, <1>0, <2>2 DEF CallStates
    <3>3. \A s \in Streams : /\ outgoing'[s] \subseteq outgoing[s] \cup {c}
                             /\ (s # call[c].on => outgoing'[s] = outgoing[s])
      BY Zenon, <1>0, <2>2, <3>1
    <3>4. ASSUME NEW s \in Streams, d \in outgoing'[s]
          PROVE  d \in outgoing[s] \/ (call[d].pc = "enqueue" /\ s = call[d].on)
      BY Zenon, <3>1, <3>3, <3>4
    <3>5. /\ call'[d].pc \in {"idle", "enqueue"} => call[d].pc \in {"idle", "enqueue"}
          /\ call'[d].on = call[d].on /\ call'[d].result = call[d].result
      BY Zenon, <3>1, <3>2
    <3> QED
      BY Zenon, <3>1, <3>4, <3>5
  <2> QED
    BY Zenon, <1>7, <2>1, <2>2 DEF enqueue
<1>8. ASSUME NEW c \in Calls, Receive(c) PROVE Goal
  <2>1. events[c] \in Seq(Codes \cup {"batch"}) /\ events[c] # <<>> /\ UNCHANGED outgoing
    BY Zenon, <1>8 DEF Receive, RegistryTypeOK
  <2>2. Head(events[c]) \in Codes \cup {"batch"} /\ Head(events[c]) = events[c][1] /\ 1 \in 1..Len(events[c])
    BY <2>1, TailKeeps
  <2>3. CASE UNCHANGED <<call, inflight>>
    BY Zenon, <1>2, <2>1, <2>3
  <2>4. CASE End(c, "stopped")
    BY Zenon, <1>5, <2>1, <2>4
  <2>5. CASE Head(events[c]) # "batch" /\ End(c, Head(events[c]))
    <3>1. Head(events[c]) = "ok" => OkInChannel(c)
      BY Zenon, <2>2 DEF OkInChannel
    <3>2. Head(events[c]) \in Codes
      BY Zenon, <2>2, <2>5
    <3> QED
      BY Zenon, <1>5, <2>1, <2>5, <3>1, <3>2
  <2> QED
    BY Zenon, <1>8, <2>3, <2>4, <2>5 DEF Receive
<1>9. ASSUME NEW c \in Calls, Closed(c) \/ Expire(c) PROVE Goal
  <2>1. UNCHANGED outgoing /\ (End(c, "closed") \/ End(c, "timeout"))
    BY Zenon, <1>9 DEF Closed, Expire
  <2> QED
    BY Zenon, <1>5, <2>1
<1> HIDE DEF Goal
<1>10. ASSUME RegistryNext PROVE Goal
  BY Zenon, <1>2, <1>3, <1>4, <1>6, <1>7, <1>8, <1>9, <1>10 DEF RegistryNext, Streaming, Caller,
     Hello, registerLocked, HelloFails, Unregister, Disconnect, deliverAck, deliverEvent
<1> QED
  BY Zenon, <1>2, <1>10 DEF registry

\* An OK enters a channel only as an ack.
LEMMA ChannelSteps ==
  ASSUME RegistryInv, NEW d \in Calls, OkInChannel(d)', ~ OkInChannel(d)
  PROVE  /\ ~ UNCHANGED events
         /\ \A c \in Calls : ~ deliverEvent(c) /\ ~ Receive(c)
         /\ \A s \in Streams, c \in Calls, code \in Codes : deliverAck(s, c, code) => c = d /\ code = "ok"
<1>0. events \in [Calls -> Seq(Codes \cup {"batch"})] /\ events[d] \in Seq(Codes \cup {"batch"})
  BY Zenon DEF RegistryInv, RegistryTypeOK
<1>1. events'[d] # events[d]
  BY Zenon DEF OkInChannel
<1>2. ~ (events[d] # <<>> /\ events'[d] = Tail(events[d]))
  <2> SUFFICES ASSUME events[d] # <<>>, events'[d] = Tail(events[d]) PROVE FALSE
    OBVIOUS
  <2>1. PICK i \in 1..Len(Tail(events[d])) : Tail(events[d])[i] = "ok"
    BY Zenon DEF OkInChannel
  <2>2. i + 1 \in 1..Len(events[d]) /\ Tail(events[d])[i] = events[d][i + 1]
    BY <1>0
  <2> QED
    BY Zenon, <2>1, <2>2 DEF OkInChannel
<1>3. ASSUME NEW q \in Seq(Codes \cup {"batch"}), NEW e \in Codes \cup {"batch"}, e # "ok",
             events'[d] = Append(q, e), q = events[d] \/ (events[d] # <<>> /\ q = Tail(events[d]))
      PROVE  FALSE
  <2>1. PICK i \in 1..Len(Append(q, e)) : Append(q, e)[i] = "ok"
    BY Zenon, <1>3 DEF OkInChannel
  <2>2. i \in 1..Len(q) /\ q[i] = "ok"
    BY <1>3, <2>1, AppendKeeps
  <2>3. CASE q = events[d]
    BY Zenon, <2>2, <2>3 DEF OkInChannel
  <2>4. CASE events[d] # <<>> /\ q = Tail(events[d])
    <3>1. i + 1 \in 1..Len(events[d]) /\ Tail(events[d])[i] = events[d][i + 1]
      BY <1>0, <2>2, <2>4
    <3> QED
      BY Zenon, <2>2, <2>4, <3>1 DEF OkInChannel
  <2> QED
    BY Zenon, <1>3, <2>3, <2>4
<1>4. ASSUME NEW c \in Calls, deliverEvent(c) PROVE FALSE
  <2>1. events'[d] = Append(events[d], "batch")
    BY Zenon, <1>0, <1>1, <1>4 DEF deliverEvent
  <2> QED
    BY Zenon, <1>0, <1>3, <2>1
<1>5. ASSUME NEW c \in Calls, Receive(c) PROVE FALSE
  <2>1. c = d
    BY Zenon, <1>0, <1>1, <1>5 DEF Receive
  <2>2. events[d] # <<>> /\ events'[d] = Tail(events[d])
    BY Zenon, <1>0, <1>5, <2>1 DEF Receive
  <2> QED
    BY Zenon, <1>2, <2>2
<1>6. ASSUME NEW s \in Streams, NEW c \in Calls, NEW code \in Codes, deliverAck(s, c, code)
      PROVE  c = d /\ code = "ok"
  <2>1. c = d
    BY Zenon, <1>0, <1>1, <1>6 DEF deliverAck
  <2>2. \/ events'[d] = Append(events[d], code)
        \/ events[d] # <<>> /\ events'[d] = Append(Tail(events[d]), code)
        \/ events[d] = <<>> /\ events'[d] = <<code>>
    <3>1. Len(events[d]) >= EventBuffer => events[d] # <<>>
      <4>1. EventBuffer \in Nat \ {0} /\ Len(<<>>) = 0
        BY Zenon, RegistryAssumption
      <4> QED BY <4>1
    <3>2. Len(events[d]) < EventBuffer \/ Len(events[d]) >= EventBuffer
      <4>1. Len(events[d]) \in Nat
        BY <1>0
      <4>2. EventBuffer \in Nat
        BY Zenon, RegistryAssumption
      <4> QED BY <4>1, <4>2
    <3> QED
      BY Zenon, <1>0, <1>1, <1>6, <2>1, <3>1, <3>2 DEF deliverAck
  <2>3. CASE code # "ok"
    <3>1. ASSUME events[d] = <<>>, events'[d] = <<code>> PROVE FALSE
      <4>1. PICK i \in 1..Len(<<code>>) : <<code>>[i] = "ok"
        BY Zenon, <3>1 DEF OkInChannel
      <4>2. i = 1
        BY <4>1
      <4> QED
        BY Zenon, <2>3, <4>1, <4>2
    <3>2. events[d] # <<>> => Tail(events[d]) \in Seq(Codes \cup {"batch"})
      BY Zenon, <1>0, TailKeeps
    <3>3. ~ (events'[d] = Append(events[d], code))
      BY Zenon, <1>0, <1>3, <2>3
    <3>4. ~ (events[d] # <<>> /\ events'[d] = Append(Tail(events[d]), code))
      BY Zenon, <1>0, <1>3, <2>3, <3>2
    <3> QED
      BY Zenon, <2>2, <3>1, <3>3, <3>4
  <2> QED
    BY Zenon, <2>1, <2>3
<1>7. ~ UNCHANGED events
  BY Zenon, <1>1
<1> QED
  BY Zenon, <1>4, <1>5, <1>6, <1>7
-----------------------------------------------------------------------------
(* What the actions do to the records of a command.                        *)

Acked(r, code) == [r EXCEPT !.pc = "ack", !.code = code]

Reports(r, todo, truncated) == [r EXCEPT !.pc = "report", !.todo = todo, !.truncated = truncated]

CrossedOff(r, todo, rejected) == [r EXCEPT !.pc = "report", !.todo = todo, !.rejected = rejected]

\* The record of a worker that is about to send its ack.
LEMMA AckedRecord ==
  \A r \in AgentStates : \A code \in Codes :
    /\ Acked(r, code) \in AgentStates /\ Acked(r, code).pc = "ack" /\ Acked(r, code).code = code
    /\ Acked(r, code).todo = r.todo
BY Zenon DEF AgentStates, Acked

\* The record of a worker that starts to upload results.
LEMMA ReportsRecord ==
  \A r \in AgentStates : \A todo \in SUBSET Devices : \A truncated \in BOOLEAN :
    LET q == Reports(r, todo, truncated) IN
    /\ q \in AgentStates /\ q.pc = "report" /\ q.code = r.code
    /\ q.todo = todo /\ q.truncated = truncated /\ q.rejected = r.rejected
<1> SUFFICES ASSUME NEW r \in AgentStates, NEW todo \in SUBSET Devices, NEW truncated \in BOOLEAN
             PROVE  LET q == Reports(r, todo, truncated) IN
                    /\ q \in AgentStates /\ q.pc = "report" /\ q.code = r.code
                    /\ q.todo = todo /\ q.truncated = truncated /\ q.rejected = r.rejected
  BY Zenon
<1> DEFINE q == Reports(r, todo, truncated)
<1>1. q.pc = "report" /\ q.todo = todo /\ q.truncated = truncated
  BY Zenon DEF AgentStates, Reports
<1>2. q.code = r.code /\ q.rejected = r.rejected
  BY Zenon DEF AgentStates, Reports
<1>3. q \in AgentStates
  BY Zenon DEF AgentStates, Reports
<1> QED
  BY Zenon, <1>1, <1>2, <1>3

\* The record of a worker one of whose results was answered.
LEMMA CrossedOffRecord ==
  \A r \in AgentStates : \A todo \in SUBSET Devices : \A rejected \in BOOLEAN :
    LET q == CrossedOff(r, todo, rejected) IN
    /\ q \in AgentStates /\ q.pc = "report" /\ q.code = r.code
    /\ q.todo = todo /\ q.truncated = r.truncated /\ q.rejected = rejected
<1> SUFFICES ASSUME NEW r \in AgentStates, NEW todo \in SUBSET Devices, NEW rejected \in BOOLEAN
             PROVE  LET q == CrossedOff(r, todo, rejected) IN
                    /\ q \in AgentStates /\ q.pc = "report" /\ q.code = r.code
                    /\ q.todo = todo /\ q.truncated = r.truncated /\ q.rejected = rejected
  BY Zenon
<1> DEFINE q == CrossedOff(r, todo, rejected)
<1>1. q.pc = "report" /\ q.todo = todo /\ q.rejected = rejected
  BY Zenon DEF AgentStates, CrossedOff
<1>2. q.code = r.code /\ q.truncated = r.truncated
  BY Zenon DEF AgentStates, CrossedOff
<1>3. q \in AgentStates
  BY Zenon DEF AgentStates, CrossedOff
<1> QED
  BY Zenon, <1>1, <1>2, <1>3

\* What Set changes.
LEMMA SetChanges ==
  ASSUME agent \in [Calls -> AgentStates], NEW c \in Calls,
         NEW pc \in {"start", "work", "wait", "over"}, Set(c, pc)
  PROVE  /\ agent' \in [Calls -> AgentStates] /\ \A d \in Calls \ {c} : agent'[d] = agent[d]
         /\ agent'[c].pc = pc /\ agent'[c].todo = agent[c].todo /\ agent'[c].code = agent[c].code
         /\ agent'[c].truncated = agent[c].truncated /\ agent'[c].rejected = agent[c].rejected
<1>1. \A r \in AgentStates : [r EXCEPT !.pc = pc] \in AgentStates
  BY Zenon DEF AgentStates
<1> QED
  BY Zenon, <1>1 DEF Set, AgentStates

\* What Ack changes.
LEMMA AckChanges ==
  ASSUME agent \in [Calls -> AgentStates], NEW c \in Calls, NEW code \in Codes, Ack(c, code)
  PROVE  /\ agent' \in [Calls -> AgentStates] /\ \A d \in Calls \ {c} : agent'[d] = agent[d]
         /\ agent'[c].pc = "ack" /\ agent'[c].code = code
<1>1. agent'[c] = Acked(agent[c], code) /\ agent[c] \in AgentStates
  BY Zenon DEF Ack, Acked
<1>2. \A d \in Calls \ {c} : agent'[d] = agent[d]
  BY Zenon DEF Ack
<1>3. agent'[c] \in AgentStates /\ agent'[c].pc = "ack" /\ agent'[c].code = code
  BY <1>1, AckedRecord
<1>4. agent' = [d \in Calls |-> agent'[d]]
  BY Zenon DEF Ack
<1>5. \A d \in Calls : agent'[d] \in AgentStates
  BY Zenon, <1>2, <1>3
<1> QED
  BY Zenon, <1>2, <1>3, <1>4, <1>5

\* What a step of a report handler changes.
LEMMA ReportChanges ==
  ASSUME report \in [Calls -> ReportStates], NEW c \in Calls, NEW from,
         NEW to \in {"persist", "publish", "reinstate", "accepted", "rejected", "error"}, ReportAt(c, from, to)
  PROVE  /\ report' \in [Calls -> ReportStates] /\ \A d \in Calls \ {c} : report'[d] = report[d]
         /\ report[c].pc = from /\ report'[c].pc = to /\ report'[c].device = report[c].device
<1>1. \A r \in ReportStates : [r EXCEPT !.pc = to] \in ReportStates
  BY Zenon DEF ReportStates
<1> QED
  BY Zenon, <1>1 DEF ReportAt, ReportStates
-----------------------------------------------------------------------------
(* What a step keeps of the command d.                                     *)

\* A command that is not delivered now stays where it is.
LEMMA TakenOnceKept ==
  ASSUME AInv, [RegistryNext]_registry, NEW d \in Calls, agent'[d].pc = agent[d].pc
  PROVE  TakenOnce(d)'
<1>1. RegistryInv /\ TakenOnce(d)
  BY Zenon DEF AInv
<1>2. /\ call'[d].pc \in {"idle", "enqueue"} => call[d].pc \in {"idle", "enqueue"}
      /\ call[d].pc # "idle" => call'[d].on = call[d].on
      /\ \A s \in Streams : d \in outgoing'[s] =>
           d \in outgoing[s] \/ (call[d].pc = "enqueue" /\ s = call[d].on)
  BY Zenon, <1>1, CallSteps
<1>3. \A s \in Streams : d \in outgoing[s] => call[d].pc \in {"wait", "ended"}
  BY Zenon, <1>1 DEF RegistryInv, SentWasQueued
<1>4. call[d].pc \in {"wait", "ended"} \/ call[d].pc = "enqueue" => call[d].pc # "idle"
  OBVIOUS
<1>5. call[d].pc = "enqueue" => call[d].pc \in {"idle", "enqueue"}
  OBVIOUS
<1> QED
  BY Zenon, <1>1, <1>2, <1>3, <1>4, <1>5 DEF TakenOnce

\* A command that the agent has is on its way no more.
LEMMA TakenOnceGone ==
  ASSUME AInv, UNCHANGED registry, NEW d \in Calls, agent[d].pc # "none"
  PROVE  TakenOnce(d)'
BY Zenon DEF AInv, TakenOnce, registry

\* Targets that were not consumed for good before are not now.
LEMMA OpenKept ==
  ASSUME AInv, [RegistryNext]_registry, NEW d \in Pairing, targets'[d] = targets[d], stored'[d] = stored[d],
         report[d].pc \in {"persist", "reinstate"} => report'[d].pc = report[d].pc /\ report'[d].device = report[d].device
  PROVE  Open(d)'
<1>1. d \in Calls /\ RegistryInv /\ TakenOnce(d) /\ OneReport(d) /\ Storing(d) /\ Open(d)
  <2>1. Pairing \subseteq Calls
    BY Zenon, RegistryAssumption DEF AInv, TypeOK
  <2> QED
    BY Zenon, <2>1 DEF AInv
<1>2. d \in inflight' => d \in inflight \/ call[d].pc = "idle"
  BY Zenon, <1>1, CallSteps
<1>3. CASE call[d].pc = "idle"
  <2>1. agent[d].pc = "none"
    BY Zenon, <1>1, <1>3 DEF TakenOnce
  <2>2. report[d].pc = "none"
    BY Zenon, <1>1, <2>1 DEF OneReport
  <2>3. targets'[d] = Devices
    BY Zenon, <1>1, <2>2 DEF Storing
  <2> QED
    BY Zenon, <2>3 DEF Open
<1>4. CASE d \in inflight
  <2>1. CASE report[d].pc \in {"persist", "reinstate"}
    BY Zenon, <1>1, <1>4, <2>1 DEF Open
  <2>2. CASE report[d].pc \notin {"persist", "reinstate"}
    <3>1. Devices \ targets'[d] \subseteq stored'[d]
      BY Zenon, <1>1, <1>4, <2>2 DEF Open
    <3> QED
      BY Zenon, <3>1 DEF Open
  <2> QED
    BY Zenon, <2>1, <2>2
<1> QED
  BY Zenon, <1>2, <1>3, <1>4 DEF Open

\* An OK on its way was there before.
LEMMA UnderwayKept ==
  ASSUME AInv, [RegistryNext]_registry, NEW d \in Calls,
         agent'[d].code = "ok" => OkUnderway(d), OkInChannel(d)' => OkUnderway(d),
         \A s \in Streams : <<d, "ok">> \in up'[s] => OkUnderway(d)
  PROVE  OkUnderway(d)' => OkUnderway(d)
<1>1. call'[d].result = "ok" => call[d].result = "ok" \/ OkInChannel(d)
  BY Zenon, CallSteps DEF AInv
<1>2. call'[d].result = "ok" => OkUnderway(d)
  BY Zenon, <1>1 DEF OkUnderway
<1>3. OkUnderway(d)' => \/ agent'[d].code = "ok" \/ OkInChannel(d)' \/ call'[d].result = "ok"
                        \/ \E s \in Streams : <<d, "ok">> \in up'[s]
  BY Zenon DEF OkUnderway
<1> QED
  BY Zenon, <1>2, <1>3

\* Nothing happens to d but what the registry does to its call.
LEMMA CommandKept ==
  ASSUME AInv, [RegistryNext]_registry, Pairing' = Pairing, NEW d \in Calls,
         agent'[d] = agent[d], report'[d] = report[d], targets'[d] = targets[d], stored'[d] = stored[d],
         OkInChannel(d)' => OkUnderway(d), \A s \in Streams : <<d, "ok">> \in up'[s] => OkUnderway(d)
  PROVE  Command(d)'
<1>1. TakenOnce(d)'
  BY Zenon, TakenOnceKept
<1>2. OneReport(d)'
  BY Zenon DEF AInv, OneReport
<1>3. ASSUME d \in Pairing PROVE Storing(d)' /\ Open(d)'
  <2>1. agent'[d].code = "ok" => OkUnderway(d)
    BY Zenon DEF OkUnderway
  <2>2. OkUnderway(d)' => OkUnderway(d)
    BY Zenon, <2>1, UnderwayKept
  <2>3. Storing(d)'
    BY Zenon, <1>3, <2>2 DEF AInv, Storing
  <2> QED
    BY Zenon, <1>3, <2>3, OpenKept
<1> QED
  BY Zenon, <1>1, <1>2, <1>3 DEF Command

\* A step of the agent or of a report handler is about one command.
LEMMA OthersKept ==
  ASSUME AInv, UNCHANGED registry, Pairing' = Pairing, NEW c \in Calls, Command(c)',
         \A d \in Calls \ {c} :
           /\ agent'[d] = agent[d] /\ report'[d] = report[d] /\ targets'[d] = targets[d] /\ stored'[d] = stored[d]
           /\ \A s \in Streams : <<d, "ok">> \in up'[s] => <<d, "ok">> \in up[s]
  PROVE  \A d \in Calls : Command(d)'
<1> SUFFICES ASSUME NEW d \in Calls, d # c PROVE Command(d)'
  BY Zenon
<1>1. OkInChannel(d)' => OkUnderway(d)
  BY Zenon DEF registry, OkInChannel, OkUnderway
<1>2. \A s \in Streams : <<d, "ok">> \in up'[s] => OkUnderway(d)
  BY Zenon DEF OkUnderway
<1> QED
  BY Zenon, <1>1, <1>2, CommandKept

\* Outside the agent only the registry's part of a command changes.
LEMMA InvServer ==
  ASSUME AInv, [RegistryNext]_registry, UNCHANGED <<Pairing, agent, report, targets, stored>>,
         \A s \in Streams : up'[s] \subseteq up[s],
         \A d \in Calls : OkInChannel(d)' => OkUnderway(d)
  PROVE  \A d \in Calls : Command(d)'
<1> SUFFICES ASSUME NEW d \in Calls PROVE Command(d)'
  OBVIOUS
<1>1. \A s \in Streams : <<d, "ok">> \in up'[s] => OkUnderway(d)
  BY Zenon DEF OkUnderway
<1> QED
  BY Zenon, <1>1, CommandKept

\* A step of the worker of c that neither reports nor sends an ack.
LEMMA WorkerMoves ==
  ASSUME AInv, NEW c \in Calls, agent[c].pc # "none",
         UNCHANGED <<registry, Pairing, up, report, targets, stored>>,
         \A d \in Calls \ {c} : agent'[d] = agent[d],
         OneReport(c)',
         c \in Pairing /\ agent'[c].code = "ok" => agent[c].code = "ok" \/ stored[c] = Devices,
         c \in Pairing /\ agent'[c].pc \in {"report", "wait"} /\ ~ agent'[c].truncated /\ ~ agent'[c].rejected
           => Devices \ agent'[c].todo \subseteq stored[c]
  PROVE  \A d \in Calls : Command(d)'
<1>1. TakenOnce(c)'
  BY Zenon, TakenOnceGone
<1>2. ASSUME c \in Pairing PROVE Storing(c)' /\ Open(c)'
  <2>1. Storing(c)
    BY Zenon, <1>2 DEF AInv
  <2>2. OkUnderway(c)' => stored[c] = Devices
    <3>1. OkUnderway(c) => stored[c] = Devices
      BY Zenon, <2>1 DEF Storing
    <3>2. OkUnderway(c)' => agent'[c].code = "ok" \/ OkUnderway(c)
      BY Zenon DEF OkUnderway, OkInChannel, registry
    <3>3. agent[c].code = "ok" => OkUnderway(c)
      BY Zenon DEF OkUnderway
    <3> QED
      BY Zenon, <1>2, <3>1, <3>2, <3>3
  <2>3. Storing(c)'
    BY Zenon, <1>2, <2>1, <2>2 DEF Storing
  <2> QED
    BY Zenon, <1>2, <2>3, OpenKept
<1>3. Command(c)'
  BY Zenon, <1>1, <1>2 DEF Command
<1> QED
  BY Zenon, <1>3, OthersKept

\* A worker that is done, OK only when everything is stored.
LEMMA WorkerAcks ==
  ASSUME AInv, NEW c \in Calls, NEW code \in Codes, Ack(c, code), agent[c].pc # "none",
         c \in Pairing /\ code = "ok" => stored[c] = Devices,
         UNCHANGED <<registry, Pairing, up, report, targets, stored>>
  PROVE  agent' \in [Calls -> AgentStates] /\ \A d \in Calls : Command(d)'
<1>1. /\ agent' \in [Calls -> AgentStates] /\ agent'[c].pc = "ack" /\ agent'[c].code = code
      /\ \A d \in Calls \ {c} : agent'[d] = agent[d]
  BY Zenon, AckChanges DEF AInv, TypeOK
<1>2. agent'[c].pc \notin {"none", "start", "work", "report", "wait"}
  BY Zenon, <1>1
<1>3. OneReport(c)'
  <2>1. OneReport(c)
    BY Zenon DEF AInv
  <2> QED
    BY Zenon, <1>1, <1>2, <2>1 DEF OneReport
<1> QED
  BY Zenon, <1>1, <1>2, <1>3, WorkerMoves

\* A command on one miner ends OK or not; it pairs nothing.
LEMMA InvMinerCommand ==
  ASSUME AInv, NEW c \in Calls, handleMinerCommand(c)
  PROVE  agent' \in [Calls -> AgentStates] /\ \A d \in Calls : Command(d)'
<1>1. PICK code \in {"ok", "failed"} : Ack(c, code)
  BY Zenon DEF handleMinerCommand
<1>2. code \in Codes /\ agent[c].pc # "none"
  BY Zenon, AgentAssumption DEF handleMinerCommand
<1>3. c \notin Pairing /\ UNCHANGED <<registry, Pairing, up, report, targets, stored>>
  BY Zenon DEF handleMinerCommand, AInv, TypeOK
<1> QED
  BY Zenon, <1>1, <1>2, <1>3, WorkerAcks

\* A scan ends; so do the workers of a pair command: with a result of every
\* target when the worker does not know better.
LEMMA InvResults ==
  ASSUME AInv, NEW c \in Calls, agent[c].pc \in {"start", "work"},
         NEW done \in SUBSET Devices, NEW truncated \in BOOLEAN, c \in Pairing /\ ~ truncated => done = Devices,
         agent' = [agent EXCEPT ![c].pc = "report", ![c].todo = done, ![c].truncated = truncated],
         UNCHANGED <<registry, Pairing, up, report, targets, stored>>
  PROVE  agent' \in [Calls -> AgentStates] /\ \A d \in Calls : Command(d)'
<1>0. agent \in [Calls -> AgentStates] /\ agent[c] \in AgentStates
  BY Zenon DEF AInv, TypeOK
<1>1. agent'[c] = Reports(agent[c], done, truncated)
  BY Zenon, <1>0 DEF Reports
<1>2. /\ \A d \in Calls \ {c} : agent'[d] = agent[d]
      /\ agent' = [d \in Calls |-> agent'[d]]
  BY Zenon, <1>0
<1>3. /\ agent'[c] \in AgentStates /\ agent'[c].pc = "report" /\ agent'[c].code = agent[c].code
      /\ agent'[c].todo = done /\ agent'[c].truncated = truncated
  BY <1>0, <1>1, ReportsRecord
<1>4. agent' \in [Calls -> AgentStates]
  <2>1. \A d \in Calls : agent'[d] \in AgentStates
    BY Zenon, <1>0, <1>2, <1>3
  <2> QED
    BY Zenon, <1>2, <2>1
<1>5. OneReport(c)'
  <2>1. OneReport(c) /\ report' = report
    BY Zenon DEF AInv
  <2>2. report[c].pc = "none"
    BY Zenon, <2>1 DEF OneReport
  <2> QED
    BY Zenon, <1>3, <2>1, <2>2 DEF OneReport
<1>6. c \in Pairing /\ ~ agent'[c].truncated => Devices \ agent'[c].todo \subseteq stored[c]
  <2>1. c \in Pairing /\ ~ agent'[c].truncated => agent'[c].todo = Devices
    BY Zenon, <1>3
  <2> QED
    BY Zenon, <2>1
<1>7. agent[c].pc # "none"
  OBVIOUS
<1> QED
  BY Zenon, <1>2, <1>3, <1>4, <1>5, <1>6, <1>7, WorkerMoves

\* A pair command is refused, or its workers start.
LEMMA InvPairCommand ==
  ASSUME AInv, NEW c \in Calls, handlePairCommand(c)
  PROVE  agent' \in [Calls -> AgentStates] /\ \A d \in Calls : Command(d)'
<1>0. agent \in [Calls -> AgentStates] /\ UNCHANGED <<registry, Pairing, up, report, targets, stored>>
  BY Zenon DEF AInv, TypeOK, handlePairCommand
<1>1. agent[c].pc = "start" /\ agent[c].pc # "none" /\ "busy" \in Codes /\ "busy" # "ok"
  BY Zenon, AgentAssumption DEF handlePairCommand
<1>2. "failed" \in Codes /\ "failed" # "ok"
  BY Zenon, AgentAssumption
<1>3. CASE Ack(c, "busy") \/ Ack(c, "failed")
  BY Zenon, <1>0, <1>1, <1>3, <1>2, WorkerAcks
<1>4. CASE Set(c, "work")
  <2>1. /\ agent' \in [Calls -> AgentStates] /\ \A d \in Calls \ {c} : agent'[d] = agent[d]
        /\ agent'[c].pc = "work" /\ agent'[c].code = agent[c].code
    <3>1. "work" \in {"start", "work", "wait", "over"}
      OBVIOUS
    <3> QED
      BY Zenon, <1>0, <1>4, <3>1, SetChanges
  <2>2. OneReport(c)'
    <3>1. OneReport(c) /\ report' = report
      BY Zenon, <1>0 DEF AInv
    <3>2. report[c].pc = "none"
      BY Zenon, <1>1, <3>1 DEF OneReport
    <3> QED
      BY Zenon, <2>1, <3>1, <3>2 DEF OneReport
  <2>3. agent'[c].pc \notin {"report", "wait"}
    BY Zenon, <2>1
  <2> QED
    BY Zenon, <1>0, <1>1, <2>1, <2>2, <2>3, WorkerMoves
<1> QED
  BY Zenon, <1>3, <1>4 DEF handlePairCommand

\* The response to a report: a stored result is crossed off, one that was not
\* is remembered.
LEMMA InvReportDone ==
  ASSUME AInv, NEW c \in Calls, ReportDone(c)
  PROVE  agent' \in [Calls -> AgentStates] /\ \A d \in Calls : Command(d)'
<1>0. /\ agent \in [Calls -> AgentStates] /\ agent[c] \in AgentStates
      /\ UNCHANGED <<registry, Pairing, up, report, targets, stored>> /\ OneReport(c)
  BY Zenon DEF AInv, TypeOK, ReportDone
<1>1. agent[c].pc = "wait" /\ agent[c].pc # "none" /\ "failed" \in Codes /\ "failed" # "ok"
  BY Zenon, AgentAssumption DEF ReportDone
<1>2. CASE Ack(c, "failed")
  BY Zenon, <1>0, <1>1, <1>2, WorkerAcks
<1>3. ASSUME report[c].pc \in {"accepted", "rejected"},
             agent' = [agent EXCEPT ![c].pc = "report", ![c].todo = @ \ {report[c].device},
                                    ![c].rejected = @ \/ (c \in Pairing /\ report[c].pc = "rejected")]
      PROVE  agent' \in [Calls -> AgentStates] /\ \A d \in Calls : Command(d)'
  <2> DEFINE todo == agent[c].todo \ {report[c].device}
             rejected == agent[c].rejected \/ (c \in Pairing /\ report[c].pc = "rejected")
  <2>1. agent'[c] = CrossedOff(agent[c], todo, rejected)
    BY Zenon, <1>0, <1>3 DEF CrossedOff
  <2>2. /\ \A d \in Calls \ {c} : agent'[d] = agent[d]
        /\ agent' = [d \in Calls |-> agent'[d]]
    BY Zenon, <1>0, <1>3
  <2>3. todo \in SUBSET Devices /\ rejected \in BOOLEAN
    BY Zenon, <1>0 DEF AgentStates
  <2> HIDE DEF todo, rejected
  <2>4. /\ agent'[c] \in AgentStates /\ agent'[c].pc = "report" /\ agent'[c].code = agent[c].code
        /\ agent'[c].todo = todo /\ agent'[c].truncated = agent[c].truncated /\ agent'[c].rejected = rejected
    BY SMTT(30), <1>0, <2>1, <2>3, CrossedOffRecord
  <2>5. agent' \in [Calls -> AgentStates]
    <3>1. \A d \in Calls : agent'[d] \in AgentStates
      BY Zenon, <1>0, <2>2, <2>4
    <3> QED
      BY Zenon, <2>2, <3>1
  <2>6. OneReport(c)'
    BY Zenon, <1>0, <1>3, <2>4 DEF OneReport
  <2>7. ASSUME c \in Pairing, ~ agent'[c].truncated, ~ agent'[c].rejected
        PROVE  Devices \ agent'[c].todo \subseteq stored[c]
    <3>1. ~ agent[c].truncated /\ ~ agent[c].rejected /\ report[c].pc # "rejected"
      BY Zenon, <2>4, <2>7 DEF rejected
    <3>2. report[c].pc = "accepted"
      BY Zenon, <1>3, <3>1
    <3>3. report[c].device \in stored[c] /\ Devices \ agent[c].todo \subseteq stored[c]
      BY Zenon, <1>1, <2>7, <3>1, <3>2 DEF AInv, Storing
    <3> QED
      BY Zenon, <2>4, <3>3 DEF todo
  <2> QED
    BY ZenonT(30), <1>0, <1>1, <2>2, <2>4, <2>5, <2>6, <2>7, WorkerMoves
<1> QED
  BY Zenon, <1>2, <1>3 DEF ReportDone

\* The upload fails.
LEMMA InvReportFails ==
  ASSUME AInv, NEW c \in Calls, ReportFails(c)
  PROVE  agent' \in [Calls -> AgentStates] /\ \A d \in Calls : Command(d)'
<1>1. agent[c].pc # "none" /\ "failed" \in Codes /\ "failed" # "ok"
  BY Zenon, AgentAssumption DEF ReportFails
<1> QED
  BY Zenon, <1>1, WorkerAcks DEF ReportFails

\* Everything was uploaded; OK says that everything was stored.
LEMMA InvReported ==
  ASSUME AInv, NEW c \in Calls, Reported(c)
  PROVE  agent' \in [Calls -> AgentStates] /\ \A d \in Calls : Command(d)'
<1>1. PICK code \in Codes :
        /\ Ack(c, code) /\ UNCHANGED <<registry, Pairing, up, report, targets, stored>>
        /\ code = "ok" => ~ agent[c].truncated /\ ~ agent[c].rejected
  BY Zenon, AgentAssumption DEF Reported
<1>2. agent[c].pc # "none" /\ code \in Codes
  BY Zenon DEF Reported
<1>3. ASSUME c \in Pairing, code = "ok" PROVE stored[c] = Devices
  <2>1. ~ agent[c].truncated /\ ~ agent[c].rejected
    BY Zenon, <1>3, <1>1
  <2>2. agent[c].pc \in {"report", "wait"} /\ agent[c].todo = {}
    BY Zenon DEF Reported
  <2>3. Devices \ agent[c].todo \subseteq stored[c] /\ stored[c] \in SUBSET Devices
    BY Zenon, <1>3, <2>1, <2>2 DEF AInv, Storing, TypeOK
  <2> QED
    BY Zenon, <2>2, <2>3
<1> QED
  BY Zenon, <1>2, <1>3, <1>1, WorkerAcks

\* The next result is uploaded.
LEMMA InvSendReport ==
  ASSUME AInv, NEW c \in Calls, SendReport(c)
  PROVE  /\ agent' \in [Calls -> AgentStates] /\ report' \in [Calls -> ReportStates]
         /\ \A d \in Calls : Command(d)'
<1>0. /\ agent \in [Calls -> AgentStates] /\ agent[c] \in AgentStates /\ report \in [Calls -> ReportStates]
      /\ UNCHANGED <<registry, Pairing, up, targets, stored>> /\ OneReport(c)
  BY Zenon DEF AInv, TypeOK, SendReport
<1>1. agent[c].pc = "report" /\ Set(c, "wait")
  BY Zenon DEF SendReport
<1>2. PICK d \in agent[c].todo : report' = [report EXCEPT ![c] = [pc |-> "admit", device |-> d]]
  BY Zenon DEF SendReport
<1>3. /\ report' \in [Calls -> ReportStates] /\ report'[c].pc = "admit" /\ report'[c].device \in Devices
      /\ \A e \in Calls \ {c} : report'[e] = report[e]
  BY Zenon, <1>0, <1>2 DEF AgentStates, ReportStates
<1>4. /\ agent' \in [Calls -> AgentStates] /\ \A e \in Calls \ {c} : agent'[e] = agent[e]
      /\ agent'[c].pc = "wait" /\ agent'[c].code = agent[c].code /\ agent'[c].todo = agent[c].todo
      /\ agent'[c].truncated = agent[c].truncated /\ agent'[c].rejected = agent[c].rejected
  <2>1. "wait" \in {"start", "work", "wait", "over"}
    OBVIOUS
  <2> QED
    BY Zenon, <1>0, <1>1, <2>1, SetChanges
<1>5. TakenOnce(c)'
  <2>1. agent[c].pc # "none"
    BY Zenon, <1>1
  <2> QED
    BY Zenon, <1>0, <2>1, TakenOnceGone
<1>6. OneReport(c)'
  BY Zenon, <1>0, <1>3, <1>4 DEF OneReport
<1>7. ASSUME c \in Pairing PROVE Storing(c)' /\ Open(c)'
  <2>1. OkUnderway(c)' => OkUnderway(c)
    BY Zenon, <1>0, <1>4 DEF OkUnderway, OkInChannel, registry
  <2>2. agent[c].pc \in {"report", "wait"} /\ report'[c].pc \notin {"none", "publish", "accepted"}
    BY Zenon, <1>1, <1>3
  <2>3. Storing(c)'
    BY Zenon, <1>0, <1>4, <1>7, <2>1, <2>2 DEF AInv, Storing
  <2>4. report[c].pc \notin {"persist", "reinstate"}
    BY Zenon, <1>0, <1>1 DEF OneReport
  <2> QED
    BY Zenon, <1>0, <1>7, <2>3, <2>4, OpenKept
<1>8. Command(c)'
  BY Zenon, <1>0, <1>5, <1>6, <1>7 DEF Command
<1> QED
  BY Zenon, <1>0, <1>3, <1>4, <1>8, OthersKept

\* The ack goes out, or is lost with its session.
LEMMA InvSendAck ==
  ASSUME AInv, NEW c \in Calls, sendAck(c)
  PROVE  /\ agent' \in [Calls -> AgentStates] /\ up' \in [Streams -> SUBSET (Calls \X Codes)]
         /\ \A d \in Calls : Command(d)'
<1>0. /\ agent \in [Calls -> AgentStates] /\ up \in [Streams -> SUBSET (Calls \X Codes)]
      /\ UNCHANGED <<registry, Pairing, report, targets, stored>> /\ OneReport(c)
  BY Zenon DEF AInv, TypeOK, sendAck
<1>1. agent[c].pc = "ack" /\ agent[c].pc # "none" /\ Set(c, "over")
  BY Zenon DEF sendAck
<1>2. /\ agent' \in [Calls -> AgentStates] /\ \A e \in Calls \ {c} : agent'[e] = agent[e]
      /\ agent'[c].pc = "over" /\ agent'[c].code = agent[c].code
  <2>1. "over" \in {"start", "work", "wait", "over"}
    OBVIOUS
  <2> QED
    BY Zenon, <1>0, <1>1, <2>1, SetChanges
<1>3. agent[c].code \in Codes
  BY Zenon, <1>0, <1>1 DEF OneReport
<1>4. /\ up' \in [Streams -> SUBSET (Calls \X Codes)]
      /\ \A s \in Streams : up'[s] \subseteq up[s] \cup {<<c, agent[c].code>>}
  <2>1. <<c, agent[c].code>> \in Calls \X Codes
    BY Zenon, <1>3
  <2> DEFINE ack == <<c, agent[c].code>>
  <2>2. up' = up \/ up' = [up EXCEPT ![call[c].on] = @ \cup {ack}]
    BY Zenon DEF sendAck
  <2> HIDE DEF ack
  <2>3. \A s \in Streams : up'[s] \subseteq up[s] \cup {ack}
    BY Zenon, <1>0, <2>2
  <2>4. up' = [s \in Streams |-> up'[s]]
    BY Zenon, <1>0, <2>2
  <2>5. \A s \in Streams : up'[s] \in SUBSET (Calls \X Codes)
    BY Zenon, <1>0, <2>1, <2>3 DEF ack
  <2> QED
    BY Zenon, <2>3, <2>4, <2>5 DEF ack
<1>5. OneReport(c)'
  BY Zenon, <1>0, <1>2 DEF OneReport
<1>6. ASSUME c \in Pairing PROVE Storing(c)' /\ Open(c)'
  <2>1. OkUnderway(c)' => OkUnderway(c)
    <3>1. \A s \in Streams : <<c, "ok">> \in up'[s] => <<c, "ok">> \in up[s] \/ agent[c].code = "ok"
      BY Zenon, <1>4
    <3> QED
      BY Zenon, <1>0, <1>2, <3>1 DEF OkUnderway, OkInChannel, registry
  <2>2. agent'[c].pc \notin {"report", "wait"}
    BY Zenon, <1>2
  <2>3. Storing(c)'
    BY Zenon, <1>0, <1>6, <2>1, <2>2 DEF AInv, Storing
  <2> QED
    BY Zenon, <1>0, <1>6, <2>3, OpenKept
<1>7. Command(c)'
  BY Zenon, <1>0, <1>1, <1>5, <1>6, TakenOnceGone DEF Command
<1>8. \A d \in Calls \ {c}, s \in Streams : <<d, "ok">> \in up'[s] => <<d, "ok">> \in up[s]
  BY Zenon, <1>4
<1> QED
  BY Zenon, <1>0, <1>2, <1>4, <1>7, <1>8, OthersKept

\* A step of the handler of a report of c.
LEMMA HandlerMoves ==
  ASSUME AInv, [RegistryNext]_registry, UNCHANGED <<Pairing, agent, up>>,
         \A d \in Calls : OkInChannel(d)' => OkUnderway(d),
         NEW c \in Calls,
         \A d \in Calls \ {c} : report'[d] = report[d] /\ targets'[d] = targets[d] /\ stored'[d] = stored[d],
         report[c].pc \in {"admit", "persist", "publish", "reinstate"}, report'[c].pc # "none",
         report'[c].device = report[c].device,
         stored[c] \subseteq stored'[c], stored'[c] \subseteq Devices,
         c \in Pairing /\ report'[c].pc \in {"publish", "accepted"} => report[c].device \in stored'[c],
         c \in Pairing => Open(c)'
  PROVE  \A d \in Calls : Command(d)'
<1>1. TakenOnce(c)'
  BY Zenon, TakenOnceKept
<1>2. OneReport(c) /\ agent' = agent
  BY Zenon DEF AInv
<1>3. OneReport(c)'
  <2>1. agent[c].pc \notin {"none", "start", "work", "report"} /\ report[c].device \in Devices
    BY Zenon, <1>2 DEF OneReport
  <2> QED
    BY Zenon, <1>2, <2>1 DEF OneReport
<1>4. \A d \in Calls : OkUnderway(d)' => OkUnderway(d)
  <2> SUFFICES ASSUME NEW d \in Calls PROVE OkUnderway(d)' => OkUnderway(d)
    OBVIOUS
  <2>1. agent'[d].code = "ok" => OkUnderway(d)
    BY Zenon DEF OkUnderway
  <2>2. \A s \in Streams : <<d, "ok">> \in up'[s] => OkUnderway(d)
    BY Zenon DEF OkUnderway
  <2> QED
    BY Zenon, <2>1, <2>2, UnderwayKept
<1>5. ASSUME c \in Pairing PROVE Storing(c)'
  <2>1. Storing(c)
    BY Zenon, <1>5 DEF AInv
  <2>2. agent'[c].pc \in {"report", "wait"} /\ ~ agent'[c].truncated /\ ~ agent'[c].rejected =>
          Devices \ agent'[c].todo \subseteq stored'[c]
    BY Zenon, <1>2, <2>1 DEF Storing
  <2>3. OkUnderway(c)' => stored'[c] = Devices
    BY Zenon, <1>4, <2>1 DEF Storing
  <2> QED
    BY Zenon, <1>5, <2>2, <2>3 DEF Storing
<1>6. Command(c)'
  BY Zenon, <1>1, <1>3, <1>5 DEF Command
<1>7. ASSUME NEW d \in Calls, d # c PROVE Command(d)'
  <2>1. \A s \in Streams : <<d, "ok">> \in up'[s] => OkUnderway(d)
    BY Zenon DEF OkUnderway
  <2> QED
    BY Zenon, <1>7, <2>1, CommandKept
<1> QED
  BY Zenon, <1>6, <1>7

\* Without a step of the registry no OK enters a channel.
LEMMA QuietChannels == ASSUME UNCHANGED registry, NEW d \in Calls PROVE OkInChannel(d)' => OkUnderway(d)
BY Zenon DEF registry, OkInChannel, OkUnderway

\* Admission consumes the target.
LEMMA InvAdmit ==
  ASSUME AInv, NEW c \in Calls, Admit(c)
  PROVE  /\ report' \in [Calls -> ReportStates] /\ targets' \in [Calls -> SUBSET Devices]
         /\ \A d \in Calls : Command(d)'
<1>0. /\ report \in [Calls -> ReportStates] /\ targets \in [Calls -> SUBSET Devices] /\ stored \in [Calls -> SUBSET Devices]
      /\ UNCHANGED <<registry, Pairing, agent, up, stored>>
  BY Zenon DEF AInv, TypeOK, Admit
<1>1. /\ report' \in [Calls -> ReportStates] /\ \A d \in Calls \ {c} : report'[d] = report[d]
      /\ report[c].pc = "admit" /\ report'[c].device = report[c].device
      /\ IF c \in inflight THEN report'[c].pc = "persist" ELSE report'[c].pc = "error"
  <2>1. {"persist", "error"} \subseteq {"persist", "publish", "reinstate", "accepted", "rejected", "error"}
    OBVIOUS
  <2> QED
    BY Zenon, <1>0, <2>1, ReportChanges DEF Admit
<1>2. /\ targets' \in [Calls -> SUBSET Devices] /\ \A d \in Calls \ {c} : targets'[d] = targets[d]
      /\ targets'[c] = IF c \in inflight THEN targets[c] \ {report[c].device} ELSE targets[c]
  BY Zenon, <1>0 DEF Admit
<1>3. ASSUME c \in Pairing PROVE Open(c)'
  <2>1. inflight' = inflight
    BY Zenon, <1>0 DEF registry
  <2>2. CASE c \in inflight
    <3>1. Devices \ targets[c] \subseteq stored[c]
      BY Zenon, <1>1, <1>3, <2>2 DEF AInv, Open
    <3>2. report'[c].pc \in {"persist", "reinstate"} /\ targets'[c] = targets[c] \ {report[c].device}
      BY Zenon, <1>1, <1>2, <2>2
    <3>3. Devices \ targets'[c] \subseteq stored'[c] \cup {report'[c].device}
      BY Zenon, <1>0, <1>1, <3>1, <3>2
    <3> QED
      BY Zenon, <3>2, <3>3 DEF Open
  <2> QED
    BY Zenon, <2>1, <2>2 DEF Open
<1>4. /\ report[c].pc \in {"admit", "persist", "publish", "reinstate"}
      /\ report'[c].pc \notin {"none", "publish", "accepted"} /\ report'[c].pc # "none"
  BY Zenon, <1>1
<1>5. stored[c] \subseteq stored'[c] /\ stored'[c] \subseteq Devices
  BY Zenon, <1>0
<1> QED
  BY ZenonT(30), <1>0, <1>1, <1>2, <1>3, <1>4, <1>5, QuietChannels, HandlerMoves

\* A result is stored, or its target is on its way back.
LEMMA InvPersist ==
  ASSUME AInv, NEW c \in Calls, Persist(c)
  PROVE  /\ report' \in [Calls -> ReportStates] /\ stored' \in [Calls -> SUBSET Devices]
         /\ failures' \in 0..MaxStoreFailures
         /\ \A d \in Calls : Command(d)'
<1>0. /\ report \in [Calls -> ReportStates] /\ stored \in [Calls -> SUBSET Devices]
      /\ failures \in 0..MaxStoreFailures /\ OneReport(c)
      /\ UNCHANGED <<registry, Pairing, agent, up, targets>>
  BY Zenon DEF AInv, TypeOK, Persist
<1>1. PICK to \in {"publish", "reinstate", "error", "rejected"} :
        /\ ReportAt(c, "persist", to)
        /\ \/ to = "publish" /\ stored' = [stored EXCEPT ![c] = @ \cup {report[c].device}]
           \/ to \in {"reinstate", "error", "rejected"} /\ stored' = stored /\ (c \in Pairing => to = "reinstate")
  BY Zenon DEF Persist, PersistFleetNodePairResult, UpsertDiscoveredDevices, Stores, StoreFails
<1>2. failures' \in 0..MaxStoreFailures
  <2>1. failures' = failures \/ (failures < MaxStoreFailures /\ failures' = failures + 1)
    BY Zenon DEF Persist, PersistFleetNodePairResult, UpsertDiscoveredDevices, Stores, StoreFails
  <2> QED
    BY SMTT(30), <1>0, <2>1, AgentAssumption
<1>3. /\ report' \in [Calls -> ReportStates] /\ \A d \in Calls \ {c} : report'[d] = report[d]
      /\ report[c].pc = "persist" /\ report'[c].pc = to /\ report'[c].device = report[c].device
  <2>1. to \in {"persist", "publish", "reinstate", "accepted", "rejected", "error"}
    BY Zenon, <1>1
  <2> QED
    BY Zenon, <1>0, <1>1, <2>1, ReportChanges
<1>4. report[c].device \in Devices
  BY Zenon, <1>0, <1>3 DEF OneReport
<1>5. /\ stored' \in [Calls -> SUBSET Devices] /\ \A d \in Calls \ {c} : stored'[d] = stored[d]
      /\ stored[c] \subseteq stored'[c] /\ stored'[c] \subseteq Devices
      /\ to = "publish" => report[c].device \in stored'[c]
  BY Zenon, <1>0, <1>1, <1>4
<1>6. ASSUME c \in Pairing PROVE Open(c)'
  <2>1. inflight' = inflight /\ targets' = targets
    BY Zenon, <1>0 DEF registry
  <2>2. c \in inflight => Devices \ targets[c] \subseteq stored[c] \cup {report[c].device}
    BY Zenon, <1>3, <1>6 DEF AInv, Open
  <2>3. CASE to = "publish"
    <3>1. c \in inflight => Devices \ targets'[c] \subseteq stored'[c]
      BY ZenonT(30), <1>5, <2>1, <2>2, <2>3
    <3> QED
      BY Zenon, <2>1, <3>1 DEF Open
  <2>4. CASE to = "reinstate"
    <3>1. c \in inflight => Devices \ targets'[c] \subseteq stored'[c] \cup {report'[c].device}
      BY ZenonT(30), <1>3, <1>5, <2>1, <2>2
    <3>2. report'[c].pc \in {"persist", "reinstate"}
      BY Zenon, <1>3, <2>4
    <3> QED
      BY Zenon, <2>1, <3>1, <3>2 DEF Open
  <2> QED
    BY Zenon, <1>1, <1>6, <2>3, <2>4
<1>7. /\ report[c].pc \in {"admit", "persist", "publish", "reinstate"}
      /\ report'[c].pc # "none" /\ (report'[c].pc \in {"publish", "accepted"} => to = "publish")
  BY Zenon, <1>1, <1>3
<1> QED
  BY ZenonT(30), <1>0, <1>2, <1>3, <1>5, <1>6, <1>7, QuietChannels, HandlerMoves

\* The target of a result that was not stored is open again.
LEMMA InvReinstate ==
  ASSUME AInv, NEW c \in Calls, Reinstate(c)
  PROVE  /\ report' \in [Calls -> ReportStates] /\ targets' \in [Calls -> SUBSET Devices]
         /\ \A d \in Calls : Command(d)'
<1>0. /\ report \in [Calls -> ReportStates] /\ targets \in [Calls -> SUBSET Devices] /\ stored \in [Calls -> SUBSET Devices]
      /\ UNCHANGED <<registry, Pairing, agent, up, stored>> /\ OneReport(c)
  BY Zenon DEF AInv, TypeOK, Reinstate
<1>1. /\ report' \in [Calls -> ReportStates] /\ \A d \in Calls \ {c} : report'[d] = report[d]
      /\ report[c].pc = "reinstate" /\ report'[c].device = report[c].device /\ report'[c].pc = "rejected"
  <2>1. "rejected" \in {"persist", "publish", "reinstate", "accepted", "rejected", "error"}
    OBVIOUS
  <2> QED
    BY Zenon, <1>0, <2>1, ReportChanges DEF Reinstate
<1>2. report[c].device \in Devices
  BY Zenon, <1>0, <1>1 DEF OneReport
<1>3. /\ targets' \in [Calls -> SUBSET Devices] /\ \A d \in Calls \ {c} : targets'[d] = targets[d]
      /\ targets'[c] = IF c \in inflight THEN targets[c] \cup {report[c].device} ELSE targets[c]
  BY Zenon, <1>0, <1>2 DEF Reinstate
<1>4. ASSUME c \in Pairing PROVE Open(c)'
  <2>1. inflight' = inflight
    BY Zenon, <1>0 DEF registry
  <2>2. CASE c \in inflight
    <3>1. Devices \ targets[c] \subseteq stored[c] \cup {report[c].device}
      BY Zenon, <1>1, <1>4, <2>2 DEF AInv, Open
    <3>2. Devices \ targets'[c] \subseteq stored'[c]
      BY Zenon, <1>0, <1>3, <2>2, <3>1
    <3> QED
      BY Zenon, <3>2 DEF Open
  <2> QED
    BY Zenon, <2>1, <2>2 DEF Open
<1>5. /\ report[c].pc \in {"admit", "persist", "publish", "reinstate"}
      /\ report'[c].pc \notin {"none", "publish", "accepted"} /\ report'[c].pc # "none"
  BY Zenon, <1>1
<1>6. stored[c] \subseteq stored'[c] /\ stored'[c] \subseteq Devices
  BY Zenon, <1>0
<1> QED
  BY ZenonT(30), <1>0, <1>1, <1>3, <1>4, <1>5, <1>6, QuietChannels, HandlerMoves

\* The report is passed on; its result is stored.
LEMMA InvPublish ==
  ASSUME AInv, [RegistryNext]_registry, NEW c \in Calls, Publish(c)
  PROVE  report' \in [Calls -> ReportStates] /\ \A d \in Calls : Command(d)'
<1>0. /\ report \in [Calls -> ReportStates] /\ stored \in [Calls -> SUBSET Devices] /\ RegistryInv
      /\ UNCHANGED <<Pairing, agent, up, targets, stored>> /\ deliverEvent(c)
  BY Zenon DEF AInv, TypeOK, Publish
<1>1. /\ report' \in [Calls -> ReportStates] /\ \A d \in Calls \ {c} : report'[d] = report[d]
      /\ report[c].pc = "publish" /\ report'[c].device = report[c].device /\ report'[c].pc = "accepted"
  <2>1. "accepted" \in {"persist", "publish", "reinstate", "accepted", "rejected", "error"}
    OBVIOUS
  <2> QED
    BY Zenon, <1>0, <2>1, ReportChanges DEF Publish
<1>2. /\ report[c].pc \in {"admit", "persist", "publish", "reinstate"} /\ report[c].pc \in {"publish", "accepted"}
      /\ report'[c].pc # "none" /\ report[c].pc \notin {"persist", "reinstate"}
  BY Zenon, <1>1
<1>3. c \in Pairing => report[c].device \in stored[c]
  BY Zenon, <1>2 DEF AInv, Storing
<1>4. c \in Pairing => Open(c)'
  BY Zenon, <1>0, <1>2, OpenKept
<1>5. \A d \in Calls : OkInChannel(d)' => OkUnderway(d)
  BY Zenon, <1>0, ChannelSteps DEF OkUnderway
<1>6. stored[c] \subseteq stored'[c] /\ stored'[c] \subseteq Devices
  BY Zenon, <1>0
<1> QED
  BY ZenonT(30), <1>0, <1>1, <1>2, <1>3, <1>4, <1>5, <1>6, HandlerMoves

\* A command reaches the agent for the first and only time.
LEMMA InvDeliver ==
  ASSUME AInv, [RegistryNext]_registry, NEW s \in Streams, NEW c \in Calls, Deliver(s, c)
  PROVE  /\ agent' \in [Calls -> AgentStates] /\ up' \in [Streams -> SUBSET (Calls \X Codes)]
         /\ \A d \in Calls : Command(d)'
<1>0. /\ agent \in [Calls -> AgentStates] /\ up \in [Streams -> SUBSET (Calls \X Codes)]
      /\ UNCHANGED <<Pairing, report, targets, stored>> /\ SendDown(s, c)
      /\ RegistryInv /\ TakenOnce(c) /\ OneReport(c)
  BY Zenon DEF AInv, TypeOK, Deliver
<1>1. \A d \in Calls : OkInChannel(d)' => OkUnderway(d)
  BY Zenon, <1>0 DEF SendDown, OkInChannel, OkUnderway
<1>2. CASE UNCHANGED <<agent, up>>
  BY Zenon, <1>0, <1>1, <1>2, InvServer
<1>3. ASSUME NEW pc \in {"start", "over"}, Set(c, pc), up' \in [Streams -> SUBSET (Calls \X Codes)],
             \A t \in Streams : up'[t] \subseteq up[t] \cup {<<c, "busy">>}
      PROVE  agent' \in [Calls -> AgentStates] /\ \A d \in Calls : Command(d)'
  <2>1. c \in outgoing[s] /\ call[c].on = s /\ agent[c].pc = "none" /\ report[c].pc = "none"
    <3>1. c \in outgoing[s] /\ call[c].on = s /\ agent[c].pc = "none"
      BY Zenon, <1>0 DEF SendDown, TakenOnce
    <3> QED
      BY Zenon, <1>0, <3>1 DEF OneReport
  <2>2. /\ agent' \in [Calls -> AgentStates] /\ \A d \in Calls \ {c} : agent'[d] = agent[d]
        /\ agent'[c].pc = pc /\ agent'[c].code = agent[c].code
    <3>1. pc \in {"start", "work", "wait", "over"}
      OBVIOUS
    <3> QED
      BY Zenon, <1>0, <1>3, <3>1, SetChanges
  <2>3. \A d \in Calls, t \in Streams : <<d, "ok">> \in up'[t] => <<d, "ok">> \in up[t]
    <3>1. \A d \in Calls : <<d, "ok">> # <<c, "busy">>
      OBVIOUS
    <3> QED
      BY Zenon, <1>3, <3>1
  <2>4. TakenOnce(c)'
    <3>1. call[c].pc \in {"wait", "ended"}
      BY Zenon, <1>0, <2>1 DEF RegistryInv, SentWasQueued
    <3>2. call' = call /\ \A t \in Streams : c \notin outgoing'[t]
      <4>1. outgoing \in [Streams -> SUBSET Calls]
        BY Zenon, <1>0 DEF RegistryInv, RegistryTypeOK
      <4>2. \A t \in Streams \ {s} : c \notin outgoing[t]
        BY Zenon, <1>0, <2>1 DEF TakenOnce
      <4> QED
        BY Zenon, <1>0, <4>1, <4>2 DEF SendDown
    <3> QED
      BY Zenon, <3>1, <3>2 DEF TakenOnce
  <2>5. OneReport(c)' /\ agent'[c].pc \notin {"report", "wait"}
    BY Zenon, <1>0, <2>1, <2>2 DEF OneReport
  <2>6. ASSUME c \in Pairing PROVE Storing(c)' /\ Open(c)'
    <3>1. agent'[c].code = "ok" => OkUnderway(c)
      BY Zenon, <2>2 DEF OkUnderway
    <3>2. \A t \in Streams : <<c, "ok">> \in up'[t] => OkUnderway(c)
      BY Zenon, <2>3 DEF OkUnderway
    <3>3. OkUnderway(c)' => OkUnderway(c)
      BY Zenon, <1>1, <3>1, <3>2, UnderwayKept
    <3>4. Storing(c)'
      BY Zenon, <1>0, <2>5, <2>6, <3>3 DEF AInv, Storing
    <3> QED
      BY Zenon, <1>0, <2>6, <3>4, OpenKept
  <2>7. ASSUME NEW d \in Calls, d # c PROVE Command(d)'
    <3>1. \A t \in Streams : <<d, "ok">> \in up'[t] => OkUnderway(d)
      BY Zenon, <2>3 DEF OkUnderway
    <3> QED
      BY Zenon, <1>0, <1>1, <2>2, <2>7, <3>1, CommandKept
  <2>8. Command(c)'
    BY Zenon, <1>0, <2>4, <2>5, <2>6 DEF Command
  <2> QED
    BY Zenon, <2>2, <2>7, <2>8
<1>4. CASE Set(c, "start") /\ UNCHANGED up
  <2>1. "start" \in {"start", "over"}
    OBVIOUS
  <2> QED
    BY Zenon, <1>0, <1>3, <1>4, <2>1
<1>5. CASE Set(c, "over") /\ up' = [up EXCEPT ![s] = @ \cup {<<c, "busy">>}]
  <2> DEFINE ack == <<c, "busy">>
  <2>1. ack \in Calls \X Codes /\ "over" \in {"start", "over"}
    BY Zenon, AgentAssumption
  <2> HIDE DEF ack
  <2>2. /\ up' \in [Streams -> SUBSET (Calls \X Codes)]
        /\ \A t \in Streams : up'[t] \subseteq up[t] \cup {ack}
    <3>1. up' = [up EXCEPT ![s] = @ \cup {ack}]
      BY Zenon, <1>5 DEF ack
    <3> QED
      BY Zenon, <1>0, <2>1, <3>1
  <2> QED
    BY Zenon, <1>3, <1>5, <2>1, <2>2 DEF ack
<1> QED
  BY Zenon, <1>0, <1>2, <1>4, <1>5 DEF Deliver, Set

\* An ack moves from the stream into the channel of its call, or is dropped.
LEMMA InvPublishAck ==
  ASSUME AInv, [RegistryNext]_registry, NEW s \in Streams, NEW c \in Calls, NEW code \in Codes,
         PublishAck(s, c, code)
  PROVE  up' \in [Streams -> SUBSET (Calls \X Codes)] /\ \A d \in Calls : Command(d)'
<1>0. /\ up \in [Streams -> SUBSET (Calls \X Codes)] /\ RegistryInv
      /\ <<c, code>> \in up[s] /\ UNCHANGED <<Pairing, agent, report, targets, stored>>
  BY Zenon DEF AInv, TypeOK, PublishAck
<1>1. /\ up' \in [Streams -> SUBSET (Calls \X Codes)] /\ \A t \in Streams : up'[t] \subseteq up[t]
  <2> DEFINE ack == <<c, code>>
  <2>1. up' = [up EXCEPT ![s] = @ \ {ack}]
    BY Zenon DEF PublishAck
  <2> HIDE DEF ack
  <2> QED
    BY Zenon, <1>0, <2>1
<1>2. ASSUME NEW d \in Calls, OkInChannel(d)' PROVE OkUnderway(d)
  <2>1. CASE OkInChannel(d)
    BY Zenon, <2>1 DEF OkUnderway
  <2>2. CASE ~ OkInChannel(d)
    <3>1. ~ UNCHANGED events /\ (deliverAck(s, c, code) => c = d /\ code = "ok")
      BY Zenon, <1>0, <1>2, <2>2, ChannelSteps
    <3>2. c = d /\ code = "ok"
      BY Zenon, <3>1 DEF PublishAck, registry
    <3> QED
      BY Zenon, <1>0, <3>2 DEF OkUnderway
  <2> QED
    BY Zenon, <2>1, <2>2
<1> QED
  BY Zenon, <1>0, <1>1, <1>2, InvServer
-----------------------------------------------------------------------------
(* The invariant of the agent.                                             *)

\* At the start no command is on its way and every target is open.
LEMMA AgentInit == Init => AInv
<1> SUFFICES ASSUME Init PROVE AInv
  OBVIOUS
<1>1. RegistryInv
  BY Zenon, InvInit DEF Init
<1>2. TypeOK
  <2>1. RegistryTypeOK
    BY Zenon, <1>1 DEF RegistryInv
  <2>2. agent \in [Calls -> AgentStates] /\ report \in [Calls -> ReportStates]
    BY Zenon DEF Init, AgentStates, ReportStates
  <2>3. /\ up \in [Streams -> SUBSET (Calls \X Codes)]
        /\ targets \in [Calls -> SUBSET Devices] /\ stored \in [Calls -> SUBSET Devices]
    BY Zenon DEF Init
  <2>4. /\ Pairing \subseteq Reporting /\ session \in Streams \cup {None} /\ pairing \subseteq Pairing
        /\ pairMu \in Pairing \cup {None} /\ (\A c \in pairing : pairMu = c) /\ failures \in 0..MaxStoreFailures
    BY AgentAssumption DEF Init
  <2> QED
    BY Zenon, <2>1, <2>2, <2>3, <2>4 DEF TypeOK
<1>3. ASSUME NEW c \in Calls PROVE TakenOnce(c) /\ OneReport(c)
  BY Zenon DEF Init, RegistryInit, TakenOnce, OneReport
<1>4. ASSUME NEW c \in Pairing PROVE Storing(c) /\ Open(c)
  <2>1. c \in Calls
    BY Zenon, RegistryAssumption DEF Init
  <2>2. targets[c] = Devices /\ report[c].pc = "none" /\ agent[c].pc = "none" /\ c \notin inflight
    BY Zenon, <2>1 DEF Init, RegistryInit
  <2>3. ~ OkUnderway(c)
    <3>1. agent[c].code # "ok" /\ call[c].result # "ok" /\ events[c] = <<>> /\ \A s \in Streams : up[s] = {}
      BY Zenon, <2>1 DEF Init, RegistryInit
    <3>2. ~ OkInChannel(c)
      BY <3>1 DEF OkInChannel
    <3> QED
      BY Zenon, <3>1, <3>2 DEF OkUnderway
  <2> QED
    BY Zenon, <2>2, <2>3 DEF Storing, Open
<1> QED
  BY Zenon, <1>1, <1>2, <1>3, <1>4 DEF AInv

\* What is left to show of a step: the commands, and the types it may disturb.
LEMMA StepFrom ==
  ASSUME AInv, RegistryInv', Pairing' = Pairing, session' \in Streams \cup {None},
         agent' \in [Calls -> AgentStates], up' \in [Streams -> SUBSET (Calls \X Codes)],
         report' \in [Calls -> ReportStates],
         targets' \in [Calls -> SUBSET Devices], stored' \in [Calls -> SUBSET Devices],
         failures' \in 0..MaxStoreFailures,
         pairMu' \in Pairing \cup {None}, pairing' \subseteq Pairing, \A c \in pairing' : pairMu' = c,
         \A c \in Calls : Command(c)'
  PROVE  AInv'
<1>1. RegistryTypeOK' /\ Pairing \subseteq Reporting
  BY Zenon DEF RegistryInv, AInv, TypeOK
<1>2. TypeOK'
  BY Zenon, <1>1 DEF TypeOK
<1>3. \A c \in Pairing' : c \in Calls
  BY Zenon, <1>1, RegistryAssumption
<1> QED
  BY Zenon, <1>2, <1>3 DEF AInv, Command

\* Every step keeps it.
LEMMA AgentStep == AInv /\ [Next]_vars => AInv'
<1> SUFFICES ASSUME AInv, [Next]_vars PROVE AInv'
  OBVIOUS
<1>0. /\ RegistryInv' /\ [RegistryNext]_registry /\ RegistryInv
  BY Zenon, NodeSteps, RegistryStep DEF AInv
<1>t. /\ session \in Streams \cup {None} /\ agent \in [Calls -> AgentStates]
      /\ up \in [Streams -> SUBSET (Calls \X Codes)] /\ report \in [Calls -> ReportStates]
      /\ targets \in [Calls -> SUBSET Devices] /\ stored \in [Calls -> SUBSET Devices]
      /\ failures \in 0..MaxStoreFailures
      /\ pairMu \in Pairing \cup {None} /\ pairing \subseteq Pairing /\ \A c \in pairing : pairMu = c
  BY Zenon DEF AInv, TypeOK
<1>1. ASSUME UNCHANGED agentVars, \A d \in Calls : OkInChannel(d)' => OkInChannel(d) PROVE AInv'
  <2>1. \A d \in Calls : Command(d)'
    BY Zenon, <1>0, <1>1, InvServer DEF agentVars, OkUnderway
  <2> QED
    BY Zenon, <1>0, <1>t, <1>1, <2>1, StepFrom DEF agentVars
<1>2. CASE UNCHANGED vars
  <2>1. UNCHANGED agentVars /\ \A d \in Calls : OkInChannel(d)' => OkInChannel(d)
    BY Zenon, <1>2 DEF vars, registry, OkInChannel
  <2> QED
    BY Zenon, <1>1, <2>1
<1>3. CASE Server /\ UNCHANGED agentVars
  <2>1. \A d \in Calls : OkInChannel(d)' => OkInChannel(d)
    <3>1. UNCHANGED events \/ \E c \in Calls : Receive(c)
      BY Zenon, <1>3 DEF Server, Caller, registerLocked, HelloFails, Unregister, Disconnect, teardown,
         addCmd, enqueue, Closed, Expire
    <3> QED
      BY Zenon, <1>0, <3>1, ChannelSteps
  <2> QED
    BY Zenon, <1>1, <1>3, <2>1
<1>4. CASE (\E s \in Streams : Connect(s)) \/ SessionEnds
  <2>1. /\ session' \in Streams \cup {None} /\ UNCHANGED events
        /\ UNCHANGED <<Pairing, agent, up, pairMu, pairing, report, targets, stored, failures>>
    BY Zenon, <1>4 DEF Connect, SessionEnds, Hello, registry
  <2>2. \A d \in Calls : OkInChannel(d)' => OkUnderway(d)
    BY Zenon, <2>1 DEF OkInChannel, OkUnderway
  <2>3. \A d \in Calls : Command(d)'
    BY Zenon, <1>0, <2>1, <2>2, InvServer
  <2> QED
    BY Zenon, <1>0, <1>t, <2>1, <2>3, StepFrom
<1>5. ASSUME NEW s \in Streams, NEW c \in Calls, Deliver(s, c) PROVE AInv'
  <2>1. /\ agent' \in [Calls -> AgentStates] /\ up' \in [Streams -> SUBSET (Calls \X Codes)]
        /\ \A d \in Calls : Command(d)'
    BY Zenon, <1>0, <1>5, InvDeliver
  <2> QED
    BY Zenon, <1>0, <1>t, <1>5, <2>1, StepFrom DEF Deliver
<1>6. ASSUME NEW s \in Streams, NEW c \in Calls, NEW code \in Codes, PublishAck(s, c, code) PROVE AInv'
  <2>1. up' \in [Streams -> SUBSET (Calls \X Codes)] /\ \A d \in Calls : Command(d)'
    BY Zenon, <1>0, <1>6, InvPublishAck
  <2> QED
    BY Zenon, <1>0, <1>t, <1>6, <2>1, StepFrom DEF PublishAck
<1>7. ASSUME NEW c \in Calls, agent' \in [Calls -> AgentStates], \A d \in Calls : Command(d)',
             handleMinerCommand(c) \/ handleDiscover(c) \/ ReportDone(c) \/ ReportFails(c) \/ Reported(c)
      PROVE  AInv'
  BY Zenon, <1>0, <1>t, <1>7, StepFrom DEF handleMinerCommand, handleDiscover, ReportDone, ReportFails, Reported
<1>8. ASSUME NEW c \in Calls, handleMinerCommand(c) \/ ReportDone(c) \/ ReportFails(c) \/ Reported(c) PROVE AInv'
  BY ZenonT(30), <1>7, <1>8, InvMinerCommand, InvReportDone, InvReportFails, InvReported
<1>9. ASSUME NEW c \in Calls, handleDiscover(c) PROVE AInv'
  <2>1. PICK found \in SUBSET Devices, truncated \in BOOLEAN :
          agent' = [agent EXCEPT ![c].pc = "report", ![c].todo = found, ![c].truncated = truncated]
    BY Zenon, <1>9 DEF handleDiscover
  <2>2. agent[c].pc \in {"start", "work"}
    BY Zenon, <1>9 DEF handleDiscover
  <2>3. c \notin Pairing /\ UNCHANGED <<registry, Pairing, up, report, targets, stored>>
    BY Zenon, <1>9 DEF handleDiscover
  <2>4. agent' \in [Calls -> AgentStates] /\ \A d \in Calls : Command(d)'
    BY Zenon, <2>1, <2>2, <2>3, InvResults
  <2> QED
    BY Zenon, <1>7, <1>9, <2>4
<1>10. ASSUME NEW c \in Calls, handlePairCommand(c) PROVE AInv'
  <2>1. agent' \in [Calls -> AgentStates] /\ \A d \in Calls : Command(d)'
    BY Zenon, <1>10, InvPairCommand
  <2>2. /\ Pairing' = Pairing /\ c \in Pairing /\ UNCHANGED <<session, up, report, targets, stored, failures>>
        /\ \/ UNCHANGED <<pairMu, pairing>>
           \/ pairMu = None /\ pairMu' = c /\ pairing' = pairing \cup {c}
    BY Zenon, <1>10 DEF handlePairCommand
  <2>3. pairMu = None => pairing = {}
    <3>1. None \notin Pairing
      BY Zenon, RegistryAssumption, AgentAssumption DEF AInv, TypeOK
    <3> QED
      BY Zenon, <1>t, <3>1
  <2>4. pairMu' \in Pairing \cup {None} /\ pairing' \subseteq Pairing /\ \A d \in pairing' : pairMu' = d
    BY Zenon, <1>t, <2>2, <2>3
  <2> QED
    BY ZenonT(30), <1>0, <1>t, <2>1, <2>2, <2>4, StepFrom
<1>11. ASSUME NEW c \in Calls, fanOutPairs(c) PROVE AInv'
  <2>1. PICK done \in SUBSET Devices, truncated \in BOOLEAN, running \in BOOLEAN :
          /\ ~ truncated => done = Devices /\ ~ running
          /\ agent' = [agent EXCEPT ![c].pc = "report", ![c].todo = done, ![c].truncated = truncated]
          /\ pairing' = IF running THEN pairing ELSE pairing \ {c}
    BY Zenon, <1>11 DEF fanOutPairs
  <2>2. agent[c].pc \in {"start", "work"}
    BY Zenon, <1>11 DEF fanOutPairs
  <2>3. UNCHANGED <<registry, Pairing, session, up, pairMu, report, targets, stored, failures>>
    BY Zenon, <1>11 DEF fanOutPairs
  <2>4. agent' \in [Calls -> AgentStates] /\ \A d \in Calls : Command(d)'
    BY Zenon, <2>1, <2>2, <2>3, InvResults
  <2>5. pairing' \subseteq pairing
    BY Zenon, <2>1
  <2> QED
    BY ZenonT(30), <1>0, <1>t, <2>3, <2>4, <2>5, StepFrom
<1>12. ASSUME NEW c \in Calls, SendReport(c) PROVE AInv'
  <2>1. /\ agent' \in [Calls -> AgentStates] /\ report' \in [Calls -> ReportStates]
        /\ \A d \in Calls : Command(d)'
    BY Zenon, <1>12, InvSendReport
  <2> QED
    BY Zenon, <1>0, <1>t, <1>12, <2>1, StepFrom DEF SendReport
<1>13. ASSUME NEW c \in Calls, sendAck(c) PROVE AInv'
  <2>1. /\ agent' \in [Calls -> AgentStates] /\ up' \in [Streams -> SUBSET (Calls \X Codes)]
        /\ \A d \in Calls : Command(d)'
    BY Zenon, <1>13, InvSendAck
  <2> QED
    BY Zenon, <1>0, <1>t, <1>13, <2>1, StepFrom DEF sendAck
<1>14. ASSUME NEW c \in Calls, WorkersExit(c) \/ UnlockPair(c) PROVE AInv'
  <2>1. UNCHANGED <<registry, Pairing, session, agent, up, report, targets, stored, failures>>
    BY Zenon, <1>14 DEF WorkersExit, UnlockPair
  <2>2. \A d \in Calls : Command(d)'
    BY Zenon, <1>0, <2>1, QuietChannels, InvServer
  <2>3. pairMu' \in Pairing \cup {None} /\ pairing' \subseteq pairing /\ \A d \in pairing' : pairMu' = d
    BY Zenon, <1>t, <1>14 DEF WorkersExit, UnlockPair
  <2> QED
    BY ZenonT(30), <1>0, <1>t, <2>1, <2>2, <2>3, StepFrom
<1>15. ASSUME NEW c \in Calls, Admit(c) PROVE AInv'
  <2>1. /\ report' \in [Calls -> ReportStates] /\ targets' \in [Calls -> SUBSET Devices]
        /\ \A d \in Calls : Command(d)'
    BY Zenon, <1>15, InvAdmit
  <2> QED
    BY Zenon, <1>0, <1>t, <1>15, <2>1, StepFrom DEF Admit
<1>16. ASSUME NEW c \in Calls, Persist(c) PROVE AInv'
  <2>1. /\ report' \in [Calls -> ReportStates] /\ stored' \in [Calls -> SUBSET Devices]
        /\ failures' \in 0..MaxStoreFailures
        /\ \A d \in Calls : Command(d)'
    BY Zenon, <1>16, InvPersist
  <2>2. UNCHANGED <<Pairing, session, agent, up, pairMu, pairing, targets>>
    BY Zenon, <1>16 DEF Persist
  <2> QED
    BY Zenon, <1>0, <1>t, <2>1, <2>2, StepFrom
<1>17. ASSUME NEW c \in Calls, Reinstate(c) PROVE AInv'
  <2>1. /\ report' \in [Calls -> ReportStates] /\ targets' \in [Calls -> SUBSET Devices]
        /\ \A d \in Calls : Command(d)'
    BY Zenon, <1>17, InvReinstate
  <2> QED
    BY ZenonT(30), <1>0, <1>t, <1>17, <2>1, StepFrom DEF Reinstate
<1>18. ASSUME NEW c \in Calls, Publish(c) PROVE AInv'
  <2>1. report' \in [Calls -> ReportStates] /\ \A d \in Calls : Command(d)'
    BY ZenonT(30), <1>0, <1>18, InvPublish
  <2> QED
    BY Zenon, <1>0, <1>t, <1>18, <2>1, StepFrom DEF Publish
<1> QED
  BY ZenonT(30), <1>2, <1>3, <1>4, <1>5, <1>6, <1>8, <1>9, <1>10, <1>11, <1>12, <1>13, <1>14, <1>15, <1>16,
     <1>17, <1>18 DEF Next, Worker

\* The invariant of the agent holds, for all constants.
THEOREM AgentInvariant == Spec => []AInv
<1> QED BY AgentInit, AgentStep, PTL DEF Spec

\* Types of the agent's state and of the report handlers'; workers of a pair
\* command run only under pairMu.
THEOREM AgentTypes == Spec => []TypeOK
<1>1. AInv => TypeOK
  BY Zenon DEF AInv
<1> QED BY <1>1, AgentInvariant, PTL

\* Abandoned device workers of one pair command never meet those of the next,
\* however long they take and however many commands there are.
THEOREM PairsOneAtATime == Spec => []OnePairAtATime
<1>1. TypeOK => OnePairAtATime
  <2> SUFFICES ASSUME TypeOK PROVE OnePairAtATime
    OBVIOUS
  <2>1. pairing \subseteq {pairMu}
    BY Zenon DEF TypeOK
  <2>2. IsFiniteSet({pairMu}) /\ Cardinality({pairMu}) = 1
    BY Zenon, FS_Singleton
  <2>3. Cardinality(pairing) <= Cardinality({pairMu})
    BY Zenon, <2>1, <2>2, FS_Subset
  <2> QED
    BY Zenon, <2>2, <2>3 DEF OnePairAtATime
<1> QED BY <1>1, AgentTypes, PTL

\* A pair call that returns OK has every target's result in the database, for
\* any number of devices, streams, lost sessions and failing stores.
THEOREM OkMeansStored == Spec => []PairedIsStored
<1>1. AInv => PairedIsStored
  BY Zenon DEF AInv, Storing, OkUnderway, PairedIsStored
<1> QED BY <1>1, AgentInvariant, PTL

\* A store that fails gives the target back while its command is in flight.
THEOREM TargetsStayOpen == Spec => []NoTargetStranded
<1>1. AInv => NoTargetStranded
  BY Zenon DEF AInv, Open, NoTargetStranded
<1> QED BY <1>1, AgentInvariant, PTL

\* Nobody waits for a replaced connection, and no ack is lost, with the agent
\* in the place of the free node.
THEOREM AgentKeepsPromises == Spec => [](InflightIsAwaited /\ NoAckLost)
<1>1. AInv => InflightIsAwaited /\ NoAckLost
  BY Zenon DEF AInv, RegistryInv
<1> QED BY <1>1, AgentInvariant, PTL
=============================================================================
