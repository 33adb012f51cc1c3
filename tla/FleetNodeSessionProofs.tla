----------------------- MODULE FleetNodeSessionProofs -----------------------
(***************************************************************************)
(* Sessions of a fleet node, for any number of handshakes, streams and     *)
(* restarts.                                                               *)
(*                                                                         *)
(* Revocation: a stream that has yet to say Hello holds the session of a   *)
(* handshake that is done.  The fence that revocation leaves, or that a    *)
(* handshake under way puts in its place later, is none of these; and no   *)
(* stream is authenticated any more.                                       *)
(*                                                                         *)
(* Rotation: only the handshake that holds the mutex writes the row, and   *)
(* it sets the fence before it is done; so the row of a handshake that is  *)
(* done and the fence agree even while another rotation is under way.  A   *)
(* restart leaves no fence, but no stream either: until the next rotation  *)
(* the streams that are yet to say Hello all hold the session of the row.  *)
(***************************************************************************)
EXTENDS FleetNodeSession, TLAPS

StreamsHoldSessions ==
  \A s \in Streams : stream[s].pc = "hello" => stream[s].session \in Handshakes /\ shake[stream[s].session] = "done"

RevocationHolds ==
  /\ confirmed => revoke = "idle"
  /\ revoke = "done" => /\ conn = None
                        /\ \A s \in Streams : stream[s].pc = "hello" => fence \notin {None, stream[s].session}

RotationOrdered ==
  /\ \A h \in Handshakes : shake[h] = "stored" => row \in {h, None}
  /\ row # None /\ fence # "revoked" /\ shake[row] = "done" =>
       /\ fence \in {None, row}
       /\ conn # None => stream[conn].session = row
       /\ fence = None => \A s \in Streams : stream[s].pc = "hello" => stream[s].session = row
  /\ conn # None => stream[conn].pc = "open"

SInv == TypeOK /\ StreamsHoldSessions /\ RevocationHolds /\ RotationOrdered
-----------------------------------------------------------------------------
\* Nothing has happened yet.
LEMMA SessionInit == Init => SInv
<1> SUFFICES ASSUME Init PROVE SInv
  OBVIOUS
<1>1. TypeOK
  BY SessionAssumption DEF Init, TypeOK
<1>2. StreamsHoldSessions /\ RevocationHolds /\ RotationOrdered
  BY DEF Init, StreamsHoldSessions, RevocationHolds, RotationOrdered
<1> QED BY <1>1, <1>2 DEF SInv

\* The steps of a handshake before it writes.
LEMMA ShakeKeeps ==
  ASSUME SInv, NEW h \in Handshakes,
         BeginHandshake(h) \/ UpsertChallenge(h) \/ LockRotation(h) \/ ConsumeChallenge(h) \/ LookUpNode(h)
  PROVE  SInv'
<1>1. TypeOK'
  BY SessionAssumption DEF SInv, TypeOK, BeginHandshake, UpsertChallenge, LockRotation, ConsumeChallenge, LookUpNode,
     Step, Fails, Release
<1>2. /\ UNCHANGED <<confirmed, row, fence, stream, conn, revoke>>
      /\ \A g \in Handshakes : /\ shake[g] = "done" <=> shake'[g] = "done"
                               /\ shake[g] = "stored" <=> shake'[g] = "stored"
  BY DEF SInv, TypeOK, BeginHandshake, UpsertChallenge, LockRotation, ConsumeChallenge, LookUpNode,
     Step, Fails, Release
<1>3. StreamsHoldSessions' /\ RevocationHolds'
  BY <1>2 DEF SInv, StreamsHoldSessions, RevocationHolds
<1>4. RotationOrdered'
  BY <1>2 DEF SInv, RotationOrdered, TypeOK
<1> QED BY <1>1, <1>3, <1>4 DEF SInv

\* The row is written by the one handshake that holds the mutex, and it is not done.
LEMMA UpsertKeeps ==
  ASSUME SInv, NEW h \in Handshakes, UpsertSession(h)
  PROVE  SInv'
<1>1. TypeOK'
  BY SessionAssumption DEF SInv, TypeOK, UpsertSession, Step, Fails, Release
<1>2. /\ UNCHANGED <<confirmed, fence, stream, conn, revoke>> /\ row' \in {row, h}
      /\ shake[h] = "known" /\ shake'[h] \in {"stored", "failed"}
      /\ shake'[h] = "stored" => row' = h
      /\ \A g \in Handshakes \ {h} : shake'[g] = shake[g]
  BY DEF SInv, TypeOK, UpsertSession, Step, Fails, Release
<1>3. StreamsHoldSessions' /\ RevocationHolds'
  BY <1>2 DEF SInv, StreamsHoldSessions, RevocationHolds
<1>4. \A g \in Handshakes \ {h} : shake[g] # "stored"
  BY <1>2 DEF SInv, TypeOK
<1>5. RotationOrdered'
  BY <1>2, <1>4 DEF SInv, RotationOrdered, TypeOK
<1> QED BY <1>1, <1>3, <1>5 DEF SInv

\* The fence is set to a session no stream holds yet, and to that of the row.
LEMMA ReplaceKeeps ==
  ASSUME SInv, NEW h \in Handshakes, ReplaceSession(h)
  PROVE  SInv'
<1>1. TypeOK'
  BY SessionAssumption DEF SInv, TypeOK, ReplaceSession, Step, Release
<1>2. /\ UNCHANGED <<confirmed, row, stream, revoke>> /\ fence' = h /\ conn' = None
      /\ shake[h] = "stored" /\ shake'[h] = "done"
      /\ \A g \in Handshakes \ {h} : shake'[g] = shake[g]
  BY DEF SInv, TypeOK, ReplaceSession, Step, Release
<1>3. StreamsHoldSessions'
  BY <1>2 DEF SInv, StreamsHoldSessions
<1>4. RevocationHolds'
  BY <1>2, SessionAssumption DEF SInv, RevocationHolds, StreamsHoldSessions
<1>5. \A g \in Handshakes \ {h} : shake[g] # "stored"
  BY <1>2 DEF SInv, TypeOK
<1>6. RotationOrdered'
  BY <1>2, <1>5 DEF SInv, RotationOrdered, TypeOK
<1> QED BY <1>1, <1>3, <1>4, <1>6 DEF SInv

\* Streams: one is authenticated only while the node is confirmed, and
\* registered only if the fence lets it pass.
LEMMA StreamKeeps ==
  ASSUME SInv, NEW s \in Streams,
         (\E h \in Handshakes : ResolveSession(s, h)) \/ RegisterAuthenticated(s) \/ StreamEnds(s)
  PROVE  SInv'
<1>1. CASE \E h \in Handshakes : ResolveSession(s, h)
  <2> PICK h \in Handshakes : ResolveSession(s, h)
    BY <1>1
  <2>1. TypeOK'
    BY DEF SInv, TypeOK, ResolveSession
  <2>2. /\ stream'[s] = [pc |-> "hello", session |-> h] /\ \A t \in Streams \ {s} : stream'[t] = stream[t]
        /\ UNCHANGED <<confirmed, row, fence, conn, revoke, shake>> /\ confirmed /\ shake[h] = "done"
    BY DEF SInv, TypeOK, ResolveSession
  <2>3. StreamsHoldSessions'
    BY <2>2 DEF SInv, StreamsHoldSessions
  <2>4. RevocationHolds'
    BY <2>2 DEF SInv, RevocationHolds
  <2>5. row = h /\ conn # s
    BY SessionAssumption DEF SInv, RotationOrdered, ResolveSession
  <2>6. RotationOrdered'
    BY <2>2, <2>5 DEF SInv, TypeOK, RotationOrdered
  <2> QED BY <2>1, <2>3, <2>4, <2>6 DEF SInv
<1>2. CASE RegisterAuthenticated(s) \/ StreamEnds(s)
  <2>1. TypeOK'
    BY <1>2 DEF SInv, TypeOK, RegisterAuthenticated, StreamEnds
  <2>2. /\ stream'[s].pc \in {"open", "gone"} /\ \A t \in Streams \ {s} : stream'[t] = stream[t]
        /\ UNCHANGED <<confirmed, row, fence, revoke, shake>>
    BY <1>2 DEF SInv, TypeOK, RegisterAuthenticated, StreamEnds
  <2>3. revoke = "done" => conn' = None
    BY <1>2 DEF SInv, RevocationHolds, RegisterAuthenticated, StreamEnds
  <2>4. StreamsHoldSessions'
    BY <2>2 DEF SInv, StreamsHoldSessions
  <2>5. RevocationHolds'
    BY <2>2, <2>3 DEF SInv, RevocationHolds
  <2>6. /\ stream'[s].session = stream[s].session
        /\ \/ conn' = s /\ stream'[s].pc = "open" /\ stream[s].pc = "hello" /\ fence \in {None, stream[s].session}
           \/ conn' = conn /\ (conn = s => stream[s].pc = "hello")
           \/ conn' = None
    BY <1>2 DEF SInv, TypeOK, RegisterAuthenticated, StreamEnds
  <2>7. RotationOrdered'
    BY <2>2, <2>6 DEF SInv, TypeOK, RotationOrdered
  <2> QED BY <2>1, <2>4, <2>5, <2>7 DEF SInv
<1> QED BY <1>1, <1>2

\* Expiry, revocation and restart.
LEMMA WorldKeeps ==
  ASSUME SInv, SessionExpires \/ RevokeCommit \/ RevokeSession \/ Restart
  PROVE  SInv'
<1>1. CASE SessionExpires
  <2>1. TypeOK'
    BY <1>1 DEF SInv, TypeOK, SessionExpires
  <2> QED BY <1>1, <2>1 DEF SInv, StreamsHoldSessions, RevocationHolds, RotationOrdered, SessionExpires
<1>2. CASE RevokeCommit
  <2>1. TypeOK'
    BY Zenon, <1>2 DEF SInv, TypeOK, RevokeCommit
  <2> QED BY <1>2, <2>1 DEF SInv, StreamsHoldSessions, RevocationHolds, RotationOrdered, RevokeCommit
<1>3. CASE RevokeSession
  <2>1. TypeOK'
    BY <1>3 DEF SInv, TypeOK, RevokeSession
  <2> QED BY <1>3, <2>1, SessionAssumption
          DEF SInv, StreamsHoldSessions, RevocationHolds, RotationOrdered, RevokeSession
<1>4. CASE Restart
  <2>1. \A s \in Streams : stream'[s].pc \in {"new", "gone"}
    BY <1>4 DEF SInv, TypeOK, Restart
  <2>2. \A h \in Handshakes : shake'[h] \in {"idle", "signed", "done", "failed"}
    BY <1>4 DEF SInv, TypeOK, Restart
  <2>3. /\ fence' = None /\ conn' = None /\ mutex' = None /\ UNCHANGED <<confirmed, challenge, row, lost>>
        /\ restarts' = restarts + 1 /\ restarts < MaxRestarts
        /\ revoke' = IF revoke = "committed" THEN "done" ELSE revoke
    BY <1>4 DEF Restart
  <2>4. TypeOK'
    <3>1. stream' \in [Streams -> [pc : {"new", "hello", "open", "gone"}, session : Handshakes \cup {None}]]
      BY <1>4 DEF SInv, TypeOK, Restart
    <3>2. shake' \in [Handshakes -> {"idle", "valid", "signed", "locked", "consumed", "known", "stored", "done", "failed"}]
      BY <1>4 DEF SInv, TypeOK, Restart
    <3>3. restarts' \in 0..MaxRestarts
      BY <2>3, SessionAssumption DEF SInv, TypeOK
    <3> QED BY <2>2, <2>3, <3>1, <3>2, <3>3, SessionAssumption DEF SInv, TypeOK
  <2>5. StreamsHoldSessions' /\ RevocationHolds'
    BY <2>1, <2>3 DEF SInv, StreamsHoldSessions, RevocationHolds
  <2>6. RotationOrdered'
    BY <2>1, <2>2, <2>3 DEF RotationOrdered
  <2> QED BY <2>4, <2>5, <2>6 DEF SInv
<1> QED BY <1>1, <1>2, <1>3, <1>4
-----------------------------------------------------------------------------
\* SInv is inductive.
THEOREM SessionInvariant == Spec => []SInv
<1>1. SInv /\ [Next]_vars => SInv'
  <2> SUFFICES ASSUME SInv, [Next]_vars PROVE SInv'
    OBVIOUS
  <2>1. CASE UNCHANGED vars
    BY <2>1 DEF vars, SInv, TypeOK, StreamsHoldSessions, RevocationHolds, RotationOrdered
  <2> QED BY <2>1, ShakeKeeps, UpsertKeeps, ReplaceKeeps, StreamKeeps, WorldKeeps DEF Next
<1> QED BY <1>1, SessionInit, PTL DEF Spec

\* Types, and who holds sessionRotationMu.
THEOREM SessionTypes == Spec => []TypeOK
<1>1. SInv => TypeOK
  BY DEF SInv
<1> QED BY <1>1, SessionInvariant, PTL

\* After RevokeSession no stream is registered, whatever was under way.
THEOREM RevocationIsFinal == Spec => []RevokedIsOut
<1>1. SInv => RevokedIsOut
  BY DEF SInv, RevocationHolds, RevokedIsOut
<1> QED BY <1>1, SessionInvariant, PTL

\* The session in the database passes the fence and no stream of another one is
\* registered, in whatever order handshakes, lost replies and restarts come.
THEOREM RotationIsComplete == Spec => []CurrentSessionRules
<1>1. SInv => CurrentSessionRules
  BY DEF SInv, RotationOrdered, CurrentSessionRules
<1> QED BY <1>1, SessionInvariant, PTL
=============================================================================
