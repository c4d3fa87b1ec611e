------------------------------ MODULE CastLink ------------------------------
(***************************************************************************)
(* CastReceiver with the RecCaster client of this repository at the other  *)
(* end of every connection: doCasterTCPPhase (client/castApp/src/casttcp.c)*)
(* over two FIFO byte streams whose unit is here one message.              *)
(*                                                                         *)
(* The client says hello without waiting, waits for the server's greeting, *)
(* uploads without reading, says it is done, and only then answers pings.  *)
(* It may vanish at any moment, with or without the server hearing of it.  *)
(***************************************************************************)
EXTENDS CastReceiver

CONSTANT Uploads   \* bound: the updates (info, record, alias) one client sends

ASSUME UploadsAssumption == Uploads \in Nat

VARIABLES
  cli,       \* where the client is in doCasterTCPPhase
  left,      \* the updates casterPushPDB has yet to send
  toServer,  \* what the client wrote and the server has not read
  toClient   \* what the server wrote and the client has not read

linkVars == <<NActive, Wait, conn, active, phase, nonce, timer, sess, out,
              cli, left, toServer, toClient>>

Message(type) == [type |-> type, nonce |-> NoNonce]
Pong(n) == [type |-> "pong", nonce |-> n]

LinkInit ==
  /\ Init
  /\ cli = [c \in Conns |-> "off"]
  /\ left = [c \in Conns |-> 0]
  /\ toServer = [c \in Conns |-> <<>>]
  /\ toClient = [c \in Conns |-> <<>>]

-----------------------------------------------------------------------------
(* The streams.                                                            *)

\* What the server's call-back wrote travels to the clients still there.
Carry(stream) ==
  toClient' = [c \in Conns |->
    IF cli'[c] # "off" /\ out'[c] # Nothing THEN Append(stream[c], out'[c])
                                            ELSE stream[c]]

\* The client writes m; a server that is gone never reads it.
ClientWrites(c, m) ==
  toServer' = IF conn[c] = "none" THEN toServer
              ELSE [toServer EXCEPT ![c] = Append(@, m)]

\* What was in flight to a connection that the server closed is lost.
Unread(stream) ==
  toServer' = [c \in Conns |-> IF conn'[c] = "none" THEN <<>> ELSE stream[c]]

\* A step of the server that no message triggers.
Unprompted == UNCHANGED <<cli, left>> /\ Carry(toClient) /\ Unread(toServer)

-----------------------------------------------------------------------------
(* The client: doCasterTCPPhase.                                           *)

\* shConnect succeeds and the greeting goes out at once.
Connect(c) ==
  /\ cli[c] = "off"
  /\ BuildProtocol(c)
  /\ cli' = [cli EXCEPT ![c] = "hello"]
  /\ toServer' = [toServer EXCEPT ![c] = <<Message("hello")>>]
  /\ Carry([toClient EXCEPT ![c] = <<>>])
  /\ UNCHANGED left

\* The first message read is the server's greeting: the upload begins.
ClientGreeted(c) ==
  /\ cli[c] = "hello"
  /\ toClient[c] # <<>>
  /\ Head(toClient[c]).type = "greeting"
  /\ cli' = [cli EXCEPT ![c] = "upload"]
  /\ left' = [left EXCEPT ![c] = Uploads]
  /\ toClient' = [toClient EXCEPT ![c] = Tail(@)]
  /\ UNCHANGED <<vars, toServer>>

\* casterPushPDB sends one more update.
ClientUploads(c) ==
  /\ cli[c] = "upload"
  /\ left[c] > 0
  /\ left' = [left EXCEPT ![c] = @ - 1]
  /\ ClientWrites(c, Message("update"))
  /\ UNCHANGED <<vars, cli, toClient>>

\* "All done", and from now on the client reads.
ClientDone(c) ==
  /\ cli[c] = "upload"
  /\ left[c] = 0
  /\ cli' = [cli EXCEPT ![c] = "pings"]
  /\ ClientWrites(c, Message("done"))
  /\ UNCHANGED <<vars, left, toClient>>

\* A ping is answered with its own nonce.
ClientPong(c) ==
  /\ cli[c] = "pings"
  /\ toClient[c] # <<>>
  /\ toClient' = [toClient EXCEPT ![c] = Tail(@)]
  /\ ClientWrites(c, Pong(Head(toClient[c]).nonce))
  /\ UNCHANGED <<vars, cli, left>>

\* The client leaves the TCP phase: a time-out, an error, a message that is not
\* what it expects, a shutdown, the end of the IOC.
ClientQuits(c) ==
  /\ cli[c] # "off"
  /\ cli' = [cli EXCEPT ![c] = "off"]
  /\ toClient' = [toClient EXCEPT ![c] = <<>>]
  /\ UNCHANGED <<vars, left, toServer>>

-----------------------------------------------------------------------------
(* The server.                                                             *)

\* The handler that CastReceiver.rxfn gives for message m.
rxfn(c, m) ==
  CASE m.type = "hello"  -> recvClientGreeting(c)
    [] m.type = "update" -> RecvUpdate(c)
    [] m.type = "done"   -> recvDone(c)
    [] m.type = "pong"   -> recvPong(c, m.nonce)

dataReceived(c) ==
  /\ toServer[c] # <<>>
  /\ Readable(c)
  /\ rxfn(c, Head(toServer[c]))
  /\ UNCHANGED <<cli, left>>
  /\ Unread([toServer EXCEPT ![c] = Tail(@)])
  /\ Carry(toClient)

PingTimer(c) == writePing(c) /\ Unprompted
Abort(c) == CommitFailed(c) /\ Unprompted
\* loseConnection completes, or the transport reports the loss by itself.
Closed(c) == conn[c] = "closing" /\ Disconnect(c) /\ Unprompted
Lost(c) == conn[c] = "open" /\ Disconnect(c) /\ Unprompted

LinkNext == \E c \in Conns :
  \/ Connect(c) \/ ClientGreeted(c) \/ ClientUploads(c) \/ ClientDone(c)
  \/ ClientPong(c) \/ ClientQuits(c)
  \/ dataReceived(c) \/ PingTimer(c) \/ Abort(c) \/ Closed(c) \/ Lost(c)

LinkSpec == LinkInit /\ [][LinkNext]_linkVars

\* The reactor runs every armed timer and completes every loseConnection.
\* Nothing is assumed of the clients, nor of the network: a client may stop
\* for ever at any point of its upload without closing its socket.
LinkFairness == \A c \in Conns : WF_linkVars(PingTimer(c)) /\ WF_linkVars(Closed(c))
FairLinkSpec == LinkSpec /\ LinkFairness

-----------------------------------------------------------------------------
(* Properties.                                                             *)

InFlight(stream, type) ==
  {m \in {<<i, stream[i]>> : i \in 1..Len(stream)} : m[2].type = type}

\* The ping, or the pong that answers it, that connection c is waiting for.
Outstanding(c) ==
  InFlight(toClient[c], "ping") \cup InFlight(toServer[c], "pong")

\* phase says whether a ping is out: while both ends are there, phase 2 means
\* exactly one ping or pong under way, carrying the nonce the server remembers,
\* and phase 1 means none.  A slow upload during which the timer pings, and the
\* ping of recvDone, never put two out.
OnePingOut ==
  \A c \in Conns : cli[c] # "off" /\ conn[c] # "none" =>
    /\ Cardinality(Outstanding(c)) = IF phase[c] = 2 THEN 1 ELSE 0
    /\ \A m \in Outstanding(c) : m[2].nonce = nonce[c]

\* What the client's messages find: the session exists before the first update
\* or Done is handled and self.nonce before the first pong, so no handler raises
\* AttributeError and no pong is refused, parked connections included.
HandlersFindTheirState ==
  \A c \in Conns : conn[c] # "none" /\ toServer[c] # <<>> =>
    CASE Head(toServer[c]).type = "hello" -> ~sess[c]
      [] Head(toServer[c]).type \in {"update", "done"} -> sess[c]
      [] Head(toServer[c]).type = "pong" ->
           nonce[c] = Head(toServer[c]).nonce /\ ~active[c]

\* "First message not a greeting" cannot happen: the greeting precedes every
\* ping, also when the connection was parked in between, and there is no second.
GreetingFirst ==
  \A c \in Conns : \A i \in 1..Len(toClient[c]) :
    (toClient[c][i].type = "greeting") <=> (cli[c] = "hello" /\ i = 1)

\* A slot is never held for ever: an upload ends with Done, or the ping timer
\* ends it, whatever the client does or fails to do.
SlotsReturn == \A c \in Conns : active[c] ~> ~active[c]

\* Whoever waits gets its turn, also behind a client that died holding the slot.
WaitersAdmitted ==
  \A c \in Conns : (c \in ToSet(Wait)) ~> (active[c] \/ conn[c] = "none")
=============================================================================
