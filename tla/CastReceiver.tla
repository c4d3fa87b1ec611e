---------------------------- MODULE CastReceiver ----------------------------
(***************************************************************************)
(* The TCP server of RecCeiver: every CastReceiver protocol object and the *)
(* CastFactory they share (server/recceiver/recast.py).                    *)
(*                                                                         *)
(* The peer is arbitrary here: it may send any message at any time, stop   *)
(* answering, or vanish.  CastLink puts the RecCaster client of this       *)
(* repository at the other end.  One step is one call-back of the reactor. *)
(* What the messages carry for the session is in CollectionSession.        *)
(***************************************************************************)
EXTENDS Integers, SequencesExt

CONSTANTS
  Conns,      \* the connections; an identifier is reused once its object died
  maxActive,  \* concurrent uploads: CastFactory.maxActive
  Nonces      \* what random.randint(0, 0xFFFFFFFF) may return

ASSUME ConnsAssumption == IsFiniteSet(Conns)
ASSUME MaxActiveAssumption == maxActive \in Nat
ASSUME NoncesAssumption == Nonces \subseteq Nat

VARIABLES
  NActive,    \* CastFactory.NActive
  Wait,       \* CastFactory.Wait
  conn,       \* the transport: "none", "open", or "closing" after loseConnection
  active,     \* CastReceiver.active
  phase,      \* CastReceiver.phase: 1 send ping, 2 receive pong, 0 not yet set
  nonce,      \* CastReceiver.nonce, NoNonce while the attribute is missing
  timer,      \* whether _ping_timer is armed
  sess,       \* whether CastReceiver.sess is a session
  out         \* what the current call-back writes on each transport

factoryVars == <<NActive, Wait>>
vars == <<NActive, Wait, conn, active, phase, nonce, timer, sess, out>>

NoNonce == -1
Nothing == [type |-> "none", nonce |-> NoNonce]
ServerGreeting == [type |-> "greeting", nonce |-> NoNonce]
Ping(n) == [type |-> "ping", nonce |-> n]
NoOutput == [c \in Conns |-> Nothing]

TypeOK ==
  /\ NActive \in Int
  /\ Wait \in Seq(Conns)
  /\ conn \in [Conns -> {"none", "open", "closing"}]
  /\ active \in [Conns -> BOOLEAN]
  /\ phase \in [Conns -> 0..2]
  /\ nonce \in [Conns -> Nonces \cup {NoNonce}]
  /\ timer \in [Conns -> BOOLEAN]
  /\ sess \in [Conns -> BOOLEAN]
  /\ out \in [Conns -> {Nothing, ServerGreeting} \cup {Ping(n) : n \in Nonces}]

Init ==
  /\ NActive = 0
  /\ Wait = <<>>
  /\ conn = [c \in Conns |-> "none"]
  /\ active = [c \in Conns |-> FALSE]
  /\ phase = [c \in Conns |-> 0]
  /\ nonce = [c \in Conns |-> NoNonce]
  /\ timer = [c \in Conns |-> FALSE]
  /\ sess = [c \in Conns |-> FALSE]
  /\ out = NoOutput

-----------------------------------------------------------------------------
(* Flow control: CastFactory.                                              *)

\* Fault: the waiting connection is never started.
Admitted_Nobody(c) == {}

\* The connection isDone(c, active[c]) takes from Wait and activates, if any.
Admitted(c) == IF active[c] /\ Wait # <<>> THEN {Head(Wait)} ELSE {}

\* Fault: a connection that closes while it waits stays in Wait.
isDone_NoRemove(c) ==
  CASE ~active[c] -> UNCHANGED <<NActive, Wait>>
    [] active[c] /\ Wait # <<>> -> Wait' = Tail(Wait) /\ UNCHANGED NActive
    [] active[c] /\ Wait = <<>> -> NActive' = NActive - 1 /\ UNCHANGED Wait

\* CastFactory.isDone(c, active[c]); its callers record the rest of what it
\* does, the activation of Admitted(c), with Activate.
isDone(c) ==
  CASE ~active[c] -> /\ Wait' = RemoveFirst(Wait, c)
                     /\ UNCHANGED NActive
    [] active[c] /\ Wait # <<>> -> /\ Wait' = Tail(Wait)
                                   /\ UNCHANGED NActive
    [] active[c] /\ Wait = <<>> -> /\ NActive' = NActive - 1
                                   /\ UNCHANGED Wait

\* f with connectionMade's value v at the connections just admitted.
Activate(f, A, v) == [c \in Conns |-> IF c \in A THEN v ELSE f[c]]

\* Fault: one slot too few.
HasSlot_OffByOne == NActive + 1 < maxActive

\* buildProtocol: whether the new connection starts at once.
HasSlot == NActive < maxActive

\* Fault: the newest connection is served first.
Queued_InFront(c) == <<c>> \o Wait

\* buildProtocol: Wait.append(proto).
Queued(c) == Append(Wait, c)

\* Fault: a connection is greeted before its turn.
FirstWords_Always(c) == [NoOutput EXCEPT ![c] = ServerGreeting]

\* connectionMade greets only a connection that starts at once.
FirstWords(c) ==
  IF HasSlot THEN [NoOutput EXCEPT ![c] = ServerGreeting] ELSE NoOutput

\* A connection is accepted: buildProtocol, then connectionMade.
BuildProtocol(c) ==
  /\ conn[c] = "none"
  /\ conn' = [conn EXCEPT ![c] = "open"]
  /\ active' = [active EXCEPT ![c] = HasSlot]
  /\ NActive' = IF HasSlot THEN NActive + 1 ELSE NActive
  /\ Wait' = IF HasSlot THEN Wait ELSE Queued(c)
  /\ phase' = [phase EXCEPT ![c] = IF HasSlot THEN 1 ELSE 0]
  /\ timer' = [timer EXCEPT ![c] = HasSlot]
  /\ out' = FirstWords(c)
  /\ UNCHANGED <<nonce, sess>>

-----------------------------------------------------------------------------
(* The end of a connection.                                                *)

\* What connectionLost leaves of the protocol object c itself.
Forget(c) ==
  /\ conn' = [conn EXCEPT ![c] = "none"]
  /\ nonce' = [nonce EXCEPT ![c] = NoNonce]
  /\ sess' = [sess EXCEPT ![c] = FALSE]

\* connectionLost, from the transport or for an exception in a handler.  When
\* the connection held a slot, the next one in Wait starts at this moment.
connectionLost(c) ==
  LET A == Admitted(c) IN
  /\ isDone(c)
  /\ Forget(c)
  /\ active' = Activate([active EXCEPT ![c] = FALSE], A, TRUE)
  /\ phase' = Activate([phase EXCEPT ![c] = 0], A, 1)
  /\ timer' = Activate([timer EXCEPT ![c] = FALSE], A, TRUE)
  /\ out' = Activate(NoOutput, A, ServerGreeting)

\* The transport reports the end of the connection: by the peer, by the
\* network, or because loseConnection has run its course.
Disconnect(c) == conn[c] # "none" /\ connectionLost(c)

\* transport.loseConnection: connectionLost comes later, in a call of its own.
loseConnection(c) == conn' = [conn EXCEPT ![c] = "closing"]

\* A commit of the connection's session failed: abort closes the connection.
CommitFailed(c) ==
  /\ conn[c] = "open"
  /\ sess[c]
  /\ loseConnection(c)
  /\ out' = NoOutput
  /\ UNCHANGED <<NActive, Wait, active, phase, nonce, timer, sess>>

-----------------------------------------------------------------------------
(* Reception.  The transport of a connection in Wait is paused.  What one   *)
(* read returned is handled to the end, also after a loseConnection.       *)

Readable(c) == conn[c] # "none" /\ phase[c] # 0

\* Every header, whatever follows it, re-arms the ping timer.
recvHeader(c) ==
  /\ Readable(c)
  /\ timer' = [timer EXCEPT ![c] = TRUE]

\* A header, greeting or pong that does not decode, or a greeting of a client
\* type other than 0: the connection is given up.
RecvRejected(c) ==
  /\ recvHeader(c)
  /\ loseConnection(c)
  /\ out' = NoOutput
  /\ UNCHANGED <<NActive, Wait, active, phase, nonce, sess>>

\* An empty or short message, or an update that does not decode: skipped.  An
\* update of a session lives in CollectionSession.
RecvSkipped(c) ==
  /\ recvHeader(c)
  /\ out' = NoOutput
  /\ UNCHANGED <<NActive, Wait, conn, active, phase, nonce, sess>>

\* A message of an unknown MSGID that has a body.  dfact names cls.ignoreBody,
\* which is bound to no instance: the call with the body raises TypeError, which
\* takes the connection down.
RecvUnknown(c) == Readable(c) /\ connectionLost(c)

\* 0x0001: factory.addClient makes the session.
recvClientGreeting(c) ==
  /\ recvHeader(c)
  /\ sess' = [sess EXCEPT ![c] = TRUE]
  /\ out' = NoOutput
  /\ UNCHANGED <<NActive, Wait, conn, active, phase, nonce>>

\* 0x0003, 0x0004, 0x0006: passed on to the session; with no session the
\* AttributeError takes the connection down.
RecvUpdate(c) ==
  IF sess[c] THEN RecvSkipped(c)
             ELSE Readable(c) /\ connectionLost(c)

\* 0x0002 with nonce n.  Before the first ping self.nonce does not exist.
recvPong(c, n) ==
  \/ /\ nonce[c] = NoNonce
     /\ Readable(c)
     /\ connectionLost(c)
  \/ /\ nonce[c] \notin {NoNonce, n}
     /\ RecvRejected(c)
  \/ /\ nonce[c] = n
     /\ recvHeader(c)
     /\ phase' = [phase EXCEPT ![c] = 1]
     /\ out' = NoOutput
     /\ UNCHANGED <<NActive, Wait, conn, active, nonce, sess>>

\* Fault: the slot is returned again when the connection closes.
AfterDone_StillActive(c) == active

\* recvDone: "slot freed; connectionLost must not free it again".
AfterDone(c) == [active EXCEPT ![c] = FALSE]

\* Fault: recvDone pings in any case.
PingAfterDone_Always(c) == TRUE

\* recvDone pings unless a ping is out.
PingAfterDone(c) == phase[c] = 1

\* 0x0005: the slot goes back, the session is flushed and the client is pinged
\* unless a ping is already out.  With no session the AttributeError comes
\* after the slot was returned and active cleared, so that connectionLost
\* finds nothing left to return.
recvDone(c) ==
  LET A == Admitted(c) IN
  \/ /\ ~sess[c]
     /\ Readable(c)
     /\ connectionLost(c)
  \/ /\ sess[c]
     /\ Readable(c)
     /\ isDone(c)
     /\ active' = Activate(AfterDone(c), A, TRUE)
     /\ timer' = Activate([timer EXCEPT ![c] = TRUE], A, TRUE)
     /\ UNCHANGED <<conn, sess>>
     /\ \/ /\ PingAfterDone(c)
           /\ phase' = Activate([phase EXCEPT ![c] = 2], A, 1)
           /\ \E n \in Nonces :
                /\ nonce' = [nonce EXCEPT ![c] = n]
                /\ out' = Activate([NoOutput EXCEPT ![c] = Ping(n)], A,
                                   ServerGreeting)
        \/ /\ ~PingAfterDone(c)
           /\ phase' = Activate(phase, A, 1)
           /\ out' = Activate(NoOutput, A, ServerGreeting)
           /\ UNCHANGED nonce

-----------------------------------------------------------------------------
(* The ping timer.                                                         *)

\* Fault: the timer is not re-armed when a ping goes out.
writePing_Once(c) ==
  /\ timer[c]
  /\ UNCHANGED <<NActive, Wait, active, sess>>
  /\ timer' = [timer EXCEPT ![c] = FALSE]
  /\ \/ /\ phase[c] = 2
        /\ loseConnection(c)
        /\ out' = NoOutput
        /\ UNCHANGED <<phase, nonce>>
     \/ /\ phase[c] = 1
        /\ phase' = [phase EXCEPT ![c] = 2]
        /\ \E n \in Nonces :
             /\ nonce' = [nonce EXCEPT ![c] = n]
             /\ out' = [NoOutput EXCEPT ![c] = Ping(n)]
        /\ UNCHANGED conn

\* Fault: an unanswered ping is repeated and counted, with no end.
writePing_Repeats(c) ==
  /\ timer[c]
  /\ phase' = [phase EXCEPT ![c] = @ + 1]
  /\ \E n \in Nonces :
       /\ nonce' = [nonce EXCEPT ![c] = n]
       /\ out' = [NoOutput EXCEPT ![c] = Ping(n)]
  /\ UNCHANGED <<NActive, Wait, conn, active, timer, sess>>

\* The timer fires: writePing sends a ping, or gives up the connection when
\* the last one was not answered.
writePing(c) ==
  /\ timer[c]
  /\ UNCHANGED <<NActive, Wait, active, sess>>
  /\ \/ /\ phase[c] = 2
        /\ timer' = [timer EXCEPT ![c] = FALSE]
        /\ loseConnection(c)
        /\ out' = NoOutput
        /\ UNCHANGED <<phase, nonce>>
     \/ /\ phase[c] = 1
        /\ phase' = [phase EXCEPT ![c] = 2]
        /\ \E n \in Nonces :
             /\ nonce' = [nonce EXCEPT ![c] = n]
             /\ out' = [NoOutput EXCEPT ![c] = Ping(n)]
        /\ UNCHANGED <<conn, timer>>

-----------------------------------------------------------------------------

Next == \E c \in Conns :
  \/ BuildProtocol(c)
  \/ recvClientGreeting(c)
  \/ RecvUpdate(c)
  \/ \E n \in Nonces : recvPong(c, n)
  \/ recvDone(c)
  \/ RecvSkipped(c)
  \/ RecvUnknown(c)
  \/ RecvRejected(c)
  \/ writePing(c)
  \/ CommitFailed(c)
  \/ Disconnect(c)

Spec == Init /\ [][Next]_vars

-----------------------------------------------------------------------------
(* Properties.                                                             *)

Uploading == {c \in Conns : active[c]}

\* The factory's counter is the number of connections that hold a slot: no
\* path through recvDone, an exception and connectionLost frees a slot twice
\* or forgets one, which _logStatus would call corrupted accounting.
SlotAccounting == NActive = Cardinality(Uploading)

\* Nobody waits while a slot is free: isDone never loses the wake-up of the
\* connection at the head of Wait.
NoIdleSlot == Wait # <<>> => NActive = maxActive

\* A connection is in Wait once, and exactly while it is accepted but not yet
\* started: a parked transport is always on somebody's list to be resumed.
ParkedOnce ==
  /\ \A i, j \in 1..Len(Wait) : Wait[i] = Wait[j] => i = j
  /\ ToSet(Wait) = {c \in Conns : conn[c] # "none" /\ phase[c] = 0}

\* Every started connection that is not being closed has a timer that will
\* notice a silent peer, and no timer outlives its connection.
SilentPeerNoticed ==
  \A c \in Conns : /\ conn[c] = "open" /\ phase[c] # 0 => timer[c]
                   /\ timer[c] => conn[c] # "none"

\* The flow control is the FIFO semaphore of UploadSlots, with the counter
\* NActive standing for the number of slots in use.
Slots == INSTANCE UploadSlots
           WITH Slots <- maxActive, uploading <- Uploading, queue <- Wait
FIFOSlots == Slots!SlotSpec
=============================================================================
