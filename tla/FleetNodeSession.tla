-------------------------- MODULE FleetNodeSession --------------------------
(***************************************************************************)
(* The sessions of one confirmed fleet node: the handshake that rotates    *)
(* its session, the session fence of the control registry, the control     *)
(* streams authenticated with a session, revocation, and the restart of    *)
(* the server, which forgets the fence and the streams.                    *)
(***************************************************************************)
EXTENDS Naturals

CONSTANTS
  Handshakes,      \* each mints a session of its own
  Streams,         \* calls of ControlStream
  MaxRestarts,     \* bound: restarts of the server
  MaxLostReplies,  \* bound: UpsertSession is stored and returns an error
  None

ASSUME SessionAssumption ==
  /\ None \notin Handshakes \cup Streams \cup {"revoked"} /\ "revoked" \notin Handshakes
  /\ MaxRestarts \in Nat /\ MaxLostReplies \in Nat

VARIABLES
  confirmed,  \* the node's row: CONFIRMED and not deleted
  challenge,  \* fleet_node_auth_challenge: the one challenge of the node
  row,        \* fleet_node_session: the one session of the node
  fence,      \* sessionFences: None, a session, or revoked
  mutex,      \* sessionRotationMu
  shake,      \* per handshake: its pc
  stream,     \* per stream: pc, session
  conn,       \* the registered stream
  revoke,     \* idle, committed, done
  restarts, lost

vars == <<confirmed, challenge, row, fence, mutex, shake, stream, conn, revoke, restarts, lost>>

\* The types, and: sessionRotationMu is held by a handshake between its steps.
TypeOK ==
  /\ confirmed \in BOOLEAN /\ challenge \in Handshakes \cup {None} /\ row \in Handshakes \cup {None}
  /\ fence \in Handshakes \cup {None, "revoked"} /\ mutex \in Handshakes \cup {None}
  /\ shake \in [Handshakes -> {"idle", "valid", "signed", "locked", "consumed", "known", "stored", "done", "failed"}]
  /\ stream \in [Streams -> [pc : {"new", "hello", "open", "gone"}, session : Handshakes \cup {None}]]
  /\ conn \in Streams \cup {None} /\ revoke \in {"idle", "committed", "done"}
  /\ restarts \in 0..MaxRestarts /\ lost \in 0..MaxLostReplies
  /\ \A h \in Handshakes : shake[h] \in {"locked", "consumed", "known", "stored"} <=> mutex = h

Init ==
  /\ confirmed = TRUE /\ challenge = None /\ row = None /\ fence = None /\ mutex = None
  /\ shake = [h \in Handshakes |-> "idle"]
  /\ stream = [s \in Streams |-> [pc |-> "new", session |-> None]]
  /\ conn = None /\ revoke = "idle" /\ restarts = 0 /\ lost = 0

Step(h, from, to) == shake[h] = from /\ shake' = [shake EXCEPT ![h] = to]
Release(h) == mutex' = None
Fails(h, from) == Step(h, from, "failed") /\ Release(h)
-----------------------------------------------------------------------------
(* BeginHandshake and CompleteHandshake.                                   *)

\* The key is valid and the node confirmed.
BeginHandshake(h) ==
  /\ confirmed /\ Step(h, "idle", "valid")
  /\ UNCHANGED <<confirmed, challenge, row, fence, mutex, stream, conn, revoke, restarts, lost>>

\* UpsertChallenge replaces the challenge of another handshake; the node signs it.
UpsertChallenge(h) ==
  /\ Step(h, "valid", "signed") /\ challenge' = h
  /\ UNCHANGED <<confirmed, row, fence, mutex, stream, conn, revoke, restarts, lost>>

\* Faulty variant: rotations are not serialised.
LockNothing(h) ==
  /\ Step(h, "signed", "locked") /\ mutex' = mutex
  /\ UNCHANGED <<confirmed, challenge, row, fence, stream, conn, revoke, restarts, lost>>

LockRotation(h) ==
  /\ mutex = None /\ Step(h, "signed", "locked") /\ mutex' = h
  /\ UNCHANGED <<confirmed, challenge, row, fence, stream, conn, revoke, restarts, lost>>

ConsumeChallenge(h) ==
  /\ IF challenge = h THEN Step(h, "locked", "consumed") /\ challenge' = None /\ UNCHANGED mutex
     ELSE Fails(h, "locked") /\ UNCHANGED challenge
  /\ UNCHANGED <<confirmed, row, fence, stream, conn, revoke, restarts, lost>>

\* GetFleetNodeByIDUnscoped finds the node unless it is deleted.
LookUpNode(h) ==
  /\ IF confirmed THEN Step(h, "consumed", "known") /\ UNCHANGED mutex ELSE Fails(h, "consumed")
  /\ UNCHANGED <<confirmed, challenge, row, fence, stream, conn, revoke, restarts, lost>>

\* UpsertSession replaces the session; its error may come after the fact.
UpsertSession(h) ==
  /\ \/ Step(h, "known", "stored") /\ row' = h /\ UNCHANGED <<mutex, lost>>
     \/ Fails(h, "known") /\ UNCHANGED <<row, lost>>
     \/ Fails(h, "known") /\ row' = h /\ lost < MaxLostReplies /\ lost' = lost + 1
  /\ UNCHANGED <<confirmed, challenge, fence, stream, conn, revoke, restarts>>

\* ReplaceSession, after which the token is returned.
ReplaceSession(h) ==
  /\ Step(h, "stored", "done") /\ Release(h)
  /\ fence' = h /\ conn' = None
  /\ UNCHANGED <<confirmed, challenge, row, stream, revoke, restarts, lost>>

\* The session expires, or SweepExpired deletes it.
SessionExpires ==
  /\ row # None /\ row' = None
  /\ UNCHANGED <<confirmed, challenge, fence, mutex, shake, stream, conn, revoke, restarts, lost>>
-----------------------------------------------------------------------------
(* ControlStream.                                                          *)

\* ResolveSession, by the interceptor.
ResolveSession(s, h) ==
  /\ stream[s].pc = "new" /\ shake[h] = "done" /\ row = h /\ confirmed
  /\ stream' = [stream EXCEPT ![s] = [pc |-> "hello", session |-> h]]
  /\ UNCHANGED <<confirmed, challenge, row, fence, mutex, shake, conn, revoke, restarts, lost>>

\* Faulty variant: the fence is not looked at.
RegisterUnfenced(s) ==
  /\ stream[s].pc = "hello"
  /\ stream' = [stream EXCEPT ![s].pc = "open"] /\ conn' = s
  /\ UNCHANGED <<confirmed, challenge, row, fence, mutex, shake, revoke, restarts, lost>>

RegisterAuthenticated(s) ==
  /\ stream[s].pc = "hello"
  /\ IF fence \in {None, stream[s].session}
     THEN stream' = [stream EXCEPT ![s].pc = "open"] /\ conn' = s
     ELSE stream' = [stream EXCEPT ![s].pc = "gone"] /\ UNCHANGED conn
  /\ UNCHANGED <<confirmed, challenge, row, fence, mutex, shake, revoke, restarts, lost>>

StreamEnds(s) ==
  /\ stream[s].pc \in {"hello", "open"} /\ stream' = [stream EXCEPT ![s].pc = "gone"]
  /\ conn' = IF conn = s THEN None ELSE conn
  /\ UNCHANGED <<confirmed, challenge, row, fence, mutex, shake, revoke, restarts, lost>>
-----------------------------------------------------------------------------
\* revokeFleetNode: the transaction commits, then the streams are invalidated.
RevokeCommit ==
  /\ revoke = "idle" /\ revoke' = "committed" /\ confirmed' = FALSE
  /\ UNCHANGED <<challenge, row, fence, mutex, shake, stream, conn, restarts, lost>>

RevokeSession ==
  /\ revoke = "committed" /\ revoke' = "done" /\ fence' = "revoked" /\ conn' = None
  /\ UNCHANGED <<confirmed, challenge, row, mutex, shake, stream, restarts, lost>>

\* The process is gone, with all it was doing; another one takes over.
Restart ==
  /\ restarts < MaxRestarts /\ restarts' = restarts + 1
  /\ fence' = None /\ mutex' = None /\ conn' = None
  /\ shake' = [h \in Handshakes |-> IF shake[h] \in {"idle", "signed", "done"} THEN shake[h] ELSE "failed"]
  /\ stream' = [s \in Streams |-> IF stream[s].pc = "new" THEN stream[s] ELSE [stream[s] EXCEPT !.pc = "gone"]]
  /\ revoke' = IF revoke = "committed" THEN "done" ELSE revoke
  /\ UNCHANGED <<confirmed, challenge, row, lost>>

Next ==
  \/ \E h \in Handshakes :
       \/ BeginHandshake(h) \/ UpsertChallenge(h) \/ LockRotation(h) \/ ConsumeChallenge(h)
       \/ LookUpNode(h) \/ UpsertSession(h) \/ ReplaceSession(h)
       \/ \E s \in Streams : ResolveSession(s, h)
  \/ \E s \in Streams : RegisterAuthenticated(s) \/ StreamEnds(s)
  \/ SessionExpires \/ RevokeCommit \/ RevokeSession \/ Restart

Spec == Init /\ [][Next]_vars
-----------------------------------------------------------------------------
(* Properties.                                                             *)

\* Once a revocation has returned, no stream of the node is registered, not even
\* one that was authenticated before and says Hello later, or one whose
\* handshake was under way and lifts the fence again.
RevokedIsOut == revoke = "done" => conn = None

\* The other half of that order: a node that holds the session in the database
\* is not shut out by the fence of another one, and the stream that is registered
\* was authenticated with it: none of an older session is left over.
CurrentSessionRules ==
  row # None /\ shake[row] = "done" /\ fence # "revoked" =>
    /\ fence \in {None, row}
    /\ conn # None => stream[conn].session = row
=============================================================================
