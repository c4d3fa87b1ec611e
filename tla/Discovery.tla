----------------------------- MODULE Discovery ------------------------------
(***************************************************************************)
(* How a RecCaster finds a RecCeiver, loses it and finds the next: the     *)
(* Announcer of each incarnation of the server (announcer.py, started and  *)
(* stopped by RecService in application.py) and the thread of each client  *)
(* (casterThread in caster.c, doCasterUDPPhase in castudp.c), up to the    *)
(* TCP phase, which CastLink and Wire take apart.                          *)
(*                                                                         *)
(* An announcement carries the port and key of the server; they are        *)
(* abstracted to its incarnation.  The port may be the same after a restart*)
(* (bind fixes it), and the server does not compare the key it is greeted  *)
(* with: a client may reach a later incarnation than the one it heard.     *)
(* Datagrams may be lost but are not delayed beyond a client's UDP phase.  *)
(***************************************************************************)
EXTENDS Integers, SequencesExt

CONSTANTS
  Clients,
  Udps,        \* Announcer.udps: the addresses announced to, in order
  Sends,       \* Sends[a]: what a write to address a does
  At,          \* At[c]: the address at which client c listens
  Holdoffs,    \* the hold-off times rand() may give: "zero" and others
  MaxErrors,   \* the limit of self->errors, 10 in the code
  MaxMail,     \* bound: datagrams that wait in a client's socket
  MaxLives,    \* bound: incarnations of the server
  MaxFaults    \* bound: lost and foreign datagrams, failures of the client

ASSUME AddressesAssumption ==
  /\ Udps \in Seq(ToSet(Udps)) /\ At \in [Clients -> ToSet(Udps)]
  /\ Sends \in [ToSet(Udps) -> {"ok", "MessageLengthError", "OSError"}]
ASSUME ClientsAssumption == IsFiniteSet(Clients)
ASSUME HoldoffsAssumption == Holdoffs \subseteq {"zero", "some"}
ASSUME BoundsAssumption == {MaxErrors, MaxMail, MaxLives, MaxFaults} \subseteq Nat

VARIABLES
  life,      \* incarnations of the server so far
  up,        \* the last of them exists
  pc,        \* per client: where its thread is
  errors,    \* self->errors
  haveserv,  \* the incarnation self->nameserv was heard from or reached, 0 if
             \* not haveserv
  hold,      \* the hold-off time that was drawn
  mail,      \* the datagrams in the client's UDP socket
  since,     \* the incarnation that was last when the UDP phase began
  shutdown,  \* self->shutdown
  woken,     \* the wake-up socket is readable, and stays so
  faults

server == <<life, up>>
flags == <<shutdown, woken>>
vars == <<server, pc, errors, haveserv, hold, mail, since, flags, faults>>

Nobody == 0
Datagram(kind, from) == [kind |-> kind, from |-> from]

TypeOK ==
  /\ life \in 0..MaxLives /\ up \in BOOLEAN
  /\ pc \in [Clients -> {"top", "sleep", "udp", "holdoff", "connect", "tcp", "stopped"}]
  /\ errors \in [Clients -> 0..MaxErrors + 1]
  /\ haveserv \in [Clients -> 0..MaxLives]
  /\ hold \in [Clients -> {"zero", "some"}]
  /\ \A c \in Clients : Len(mail[c]) <= MaxMail
  /\ {shutdown, woken} \subseteq [Clients -> BOOLEAN]
  /\ faults \in 0..MaxFaults

Init ==
  /\ life = 0 /\ up = FALSE
  /\ pc = [c \in Clients |-> "top"]
  /\ errors = [c \in Clients |-> 0]
  /\ haveserv = [c \in Clients |-> Nobody]
  /\ hold = [c \in Clients |-> "some"]
  /\ mail = [c \in Clients |-> <<>>]
  /\ since = [c \in Clients |-> 0]
  /\ shutdown = [c \in Clients |-> FALSE]
  /\ woken = [c \in Clients |-> FALSE]
  /\ faults = MaxFaults

-----------------------------------------------------------------------------
(* The server.                                                             *)

\* privilegedStartService: a TCP port and a key of its own, and the Announcer.
Start ==
  /\ ~up /\ life < MaxLives
  /\ life' = life + 1 /\ up' = TRUE
  /\ UNCHANGED <<pc, errors, haveserv, hold, mail, since, flags, faults>>

\* stopService and the end of the process, or a crash.
Stop ==
  /\ up
  /\ up' = FALSE
  /\ UNCHANGED <<life, pc, errors, haveserv, hold, mail, since, flags, faults>>

\* Fault: an address that cannot be written to ends the round.
Told_UntilError ==
  {Udps[k] : k \in {j \in DOMAIN Udps : \A i \in 1..j : Sends[Udps[i]] = "ok"}}

\* The loop of sendOne: a MessageLengthError is noted and the loop goes on, any
\* other error of the socket escapes it.  The timer was set before either.
Told ==
  {Udps[k] : k \in {j \in DOMAIN Udps :
    Sends[Udps[j]] = "ok" /\ \A i \in 1..j : Sends[Udps[i]] # "OSError"}}

\* A datagram to clients C.  A full socket drops it.
Delivered(C, d) ==
  [c \in Clients |-> IF c \in C /\ pc[c] = "udp" /\ Len(mail[c]) < MaxMail
                     THEN Append(mail[c], d) ELSE mail[c]]

sendOne ==
  /\ up
  /\ \E lost \in SUBSET {c \in Clients : pc[c] = "udp"} :
       /\ Cardinality(lost) <= faults
       /\ faults' = faults - Cardinality(lost)
       /\ mail' = Delivered({c \in Clients \ lost : At[c] \in Told}, Datagram("announcement", life))
  /\ UNCHANGED <<server, pc, errors, haveserv, hold, since, flags>>

\* Something else writes to the port: too short, or of another protocol.
Stray(c, kind) ==
  /\ faults > 0 /\ pc[c] = "udp"
  /\ mail' = Delivered({c}, Datagram(kind, Nobody))
  /\ faults' = faults - 1
  /\ UNCHANGED <<server, pc, errors, haveserv, hold, since, flags>>

-----------------------------------------------------------------------------
(* The client's thread.                                                    *)

Goto(c, place) == pc' = [pc EXCEPT ![c] = place]

\* Fault: the server of the round before is kept.
Forgotten_Kept(c) == haveserv

\* "self->haveserv = 0"
Forgotten(c) == [haveserv EXCEPT ![c] = Nobody]

\* The UDP phase ends well: a hold-off time is drawn.
Found(c) == Goto(c, "holdoff") /\ \E h \in Holdoffs : hold' = [hold EXCEPT ![c] = h]

\* The UDP phase begins, with a new socket; its loop is not entered once shutdown
\* is set.
Searches(c) ==
  /\ IF shutdown[c] THEN Found(c) ELSE Goto(c, "udp") /\ UNCHANGED hold
  /\ errors' = [errors EXCEPT ![c] = @ + 1]
  /\ haveserv' = Forgotten(c)
  /\ mail' = [mail EXCEPT ![c] = <<>>]
  /\ since' = [since EXCEPT ![c] = life]

\* Fault: the errors are not limited.
Limited_Not(n) == n

Limited(n) == IF n > MaxErrors THEN MaxErrors ELSE n

\* The head of the loop: a client that had errors sleeps first.
Top(c) ==
  /\ pc[c] = "top"
  /\ \/ shutdown[c] /\ Goto(c, "stopped") /\ UNCHANGED <<errors, haveserv, hold, mail, since>>
     \/ ~shutdown[c] /\ errors[c] = 0 /\ Searches(c)
     \/ ~shutdown[c] /\ errors[c] > 0 /\ Goto(c, "sleep")
        /\ errors' = [errors EXCEPT ![c] = Limited(@)]
        /\ UNCHANGED <<haveserv, hold, mail, since>>
  /\ UNCHANGED <<server, flags, faults>>

\* epicsThreadSleep, which nothing interrupts.
Sleeps(c) ==
  /\ pc[c] = "sleep"
  /\ Searches(c)
  /\ UNCHANGED <<server, flags, faults>>

\* The loop of doCasterUDPPhase.  Once haveserv or shutdown is set it is left.
Udp(c) ==
  /\ pc[c] = "udp"
  /\ \/ /\ haveserv[c] # Nobody \/ woken[c]
        /\ Found(c)
        /\ UNCHANGED <<haveserv, mail, faults>>
     \/ /\ haveserv[c] = Nobody /\ ~woken[c] /\ mail[c] # <<>>
        /\ mail' = [mail EXCEPT ![c] = Tail(@)]
        /\ LET d == Head(mail[c]) IN
           \/ d.kind = "short" /\ Goto(c, "top") /\ UNCHANGED <<haveserv, hold>>
           \/ d.kind = "foreign" /\ UNCHANGED haveserv
              /\ IF shutdown[c] THEN Found(c) ELSE UNCHANGED <<pc, hold>>
           \/ d.kind = "announcement" /\ Found(c)
              /\ haveserv' = [haveserv EXCEPT ![c] = d.from]
        /\ UNCHANGED faults
     \/ /\ faults > 0                     \* the socket cannot be had, or fails
        /\ faults' = faults - 1
        /\ Goto(c, "top")
        /\ UNCHANGED <<haveserv, hold, mail>>
  /\ UNCHANGED <<server, errors, since, flags>>

\* Fault: the hold-off does not watch the wake-up socket.
HoldoffOver_Sleeps(c) == hold[c] # "zero"

\* shWaitFor returns after the hold-off, or when the wake-up socket is readable.
\* To shWaitFor, no time means no limit.
HoldoffOver(c) == hold[c] # "zero" \/ woken[c]

Holdoff(c) ==
  /\ pc[c] = "holdoff"
  /\ HoldoffOver(c)
  /\ Goto(c, "connect")
  /\ UNCHANGED <<server, errors, haveserv, hold, mail, since, flags, faults>>

\* shConnect to the address in nameserv fails: nobody listens there, it may be
\* the one of an earlier incarnation, or the wake-up socket is readable.
Refused(c) == haveserv[c] # life \/ ~up \/ woken[c]

\* doCasterTCPPhase needs a server that is there.  It returns at once if not
\* haveserv, and when the connect or one of the first sends fails.
Connect(c) ==
  /\ pc[c] = "connect"
  /\ \/ haveserv[c] # Nobody /\ up /\ ~woken[c] /\ Goto(c, "tcp") /\ UNCHANGED faults
        /\ haveserv' = [haveserv EXCEPT ![c] = life]
     \/ Refused(c) /\ Goto(c, "top") /\ UNCHANGED <<haveserv, faults>>
     \/ faults > 0 /\ faults' = faults - 1 /\ Goto(c, "top") /\ UNCHANGED haveserv
  /\ UNCHANGED <<server, errors, hold, mail, since, flags>>

\* The connection fails or is lost.  The phase returns 0, and errors is reset,
\* only when it sees the shutdown flag between two messages: shRecvExact reports
\* the end of a connection as an error.
Tcp(c) ==
  /\ pc[c] = "tcp"
  /\ \/ (haveserv[c] # life \/ ~up \/ woken[c]) /\ UNCHANGED <<errors, faults>>
     \/ shutdown[c] /\ errors' = [errors EXCEPT ![c] = 0] /\ UNCHANGED faults
     \/ faults > 0 /\ faults' = faults - 1 /\ UNCHANGED errors
  /\ Goto(c, "top")
  /\ UNCHANGED <<server, haveserv, hold, mail, since, flags>>

\* casterShutdown: first the flag, then the byte that is never read.
SetShutdown(c) ==
  /\ ~shutdown[c]
  /\ shutdown' = [shutdown EXCEPT ![c] = TRUE]
  /\ UNCHANGED <<server, pc, errors, haveserv, hold, mail, since, woken, faults>>
WakeUp(c) ==
  /\ shutdown[c] /\ ~woken[c]
  /\ woken' = [woken EXCEPT ![c] = TRUE]
  /\ UNCHANGED <<server, pc, errors, haveserv, hold, mail, since, shutdown, faults>>

Thread(c) == Top(c) \/ Sleeps(c) \/ Udp(c) \/ Holdoff(c) \/ Connect(c) \/ Tcp(c)

Next ==
  \/ Start \/ Stop \/ sendOne
  \/ \E c \in Clients :
       \/ Thread(c) \/ SetShutdown(c) \/ WakeUp(c)
       \/ Stray(c, "short") \/ Stray(c, "foreign")

Spec == Init /\ [][Next]_vars

\* The announcer's timer and the clients' threads run, and casterShutdown does
\* not stop half way.  Nothing is assumed of the server's start.
FairSpec ==
  /\ Spec
  /\ WF_vars(sendOne)
  /\ \A c \in Clients : WF_vars(Thread(c)) /\ WF_vars(WakeUp(c))

-----------------------------------------------------------------------------
(* Properties.                                                             *)

\* A client never tries a server that had been replaced when its search began,
\* however often the server is restarted while it sleeps, searches or holds off.
NoStaleServer ==
  \A c \in Clients : pc[c] \in {"holdoff", "connect", "tcp"} =>
    haveserv[c] = Nobody \/ haveserv[c] >= since[c]

\* casterShutdown does not wait for ever, wherever the thread is.
ShutdownEnds == \A c \in Clients : shutdown[c] ~> pc[c] = "stopped"

Waiting(c) == pc[c] = "holdoff" /\ hold[c] = "zero"

\* A client whose address, and every address before it, is not unreachable.
InReach(c) ==
  LET k == SelectInSeq(Udps, LAMBDA a : a = At[c])
  IN Sends[At[c]] = "ok" /\ \A i \in 1..k : Sends[Udps[i]] # "OSError"

\* Once a server stays up, every client in reach ends up connected to it and
\* stays so, whatever servers came and went before, whatever was lost, and
\* although writing to another address fails; a hold-off of no time is the
\* exception.
Reconnects ==
  \A c \in {d \in Clients : InReach(d)} :
    <>[](up /\ ~shutdown[c] /\ ~Waiting(c)) =>
      <>[](pc[c] = "tcp" /\ haveserv[c] = life)

\* client/README.md: "reccastMaxHoldoff sets the upper limit in seconds on how
\* long to delay between a successful UDP search and starting the TCP phase".
HoldoffLimited == \A c \in Clients : pc[c] = "holdoff" ~> pc[c] # "holdoff"
=============================================================================
