-------------------------- MODULE Discovery_proofs --------------------------
(***************************************************************************)
(* For any number of clients, addresses and restarts of the server: the    *)
(* types of Discovery, and that no client tries a server which had been    *)
(* replaced when its search began.                                         *)
(*                                                                         *)
(* NoStaleServer is not inductive: what a client tries was read from its   *)
(* socket, so that Fresh also bounds the datagrams that wait in it, and    *)
(* Dated says that a search begins in the past.  The types need Wound, that*)
(* a client which sleeps has limited its errors.                           *)
(***************************************************************************)
EXTENDS Discovery, TLAPS, FiniteSetTheorems

Datagrams == [kind : {"announcement", "short", "foreign"}, from : 0..MaxLives]

\* The types TypeOK leaves out.
MailTypeOK ==
  /\ mail \in [Clients -> Seq(Datagrams)]
  /\ since \in [Clients -> 0..MaxLives]

\* A search began with an incarnation that was there.
Dated == \A c \in Clients : since[c] <= life

\* What a client of the UDP phase may still take from its socket, and what it
\* took, is not older than the search.
Fresh ==
  \A c \in Clients :
    /\ haveserv[c] = Nobody \/ haveserv[c] >= since[c]
    /\ pc[c] = "udp" => \A i \in 1..Len(mail[c]) :
         mail[c][i].kind = "announcement" => mail[c][i].from >= since[c]

\* The errors are limited before the sleep.
Wound == \A c \in Clients : pc[c] = "sleep" => errors[c] <= MaxErrors

IInv == TypeOK /\ MailTypeOK /\ Dated /\ Fresh /\ Wound

-----------------------------------------------------------------------------

\* IInv holds at first.
LEMMA InitIInv == Init => IInv
<1> SUFFICES ASSUME Init PROVE IInv
  OBVIOUS
<1> USE BoundsAssumption DEF Init, Nobody
<1>1. TypeOK
  <2>1. up \in BOOLEAN /\ {shutdown, woken} \subseteq [Clients -> BOOLEAN]
    BY Zenon
  <2>2. \A c \in Clients : Len(mail[c]) <= MaxMail
    OBVIOUS
  <2>3. /\ life \in 0..MaxLives /\ faults \in 0..MaxFaults
        /\ errors \in [Clients -> 0..MaxErrors + 1]
        /\ haveserv \in [Clients -> 0..MaxLives]
    OBVIOUS
  <2> QED BY <2>1, <2>2, <2>3 DEF TypeOK
<1>2. MailTypeOK
  BY DEF MailTypeOK
<1>3. Dated /\ Fresh /\ Wound
  BY DEF Dated, Fresh, Wound
<1> QED BY <1>1, <1>2, <1>3 DEF IInv

\* What a socket holds after a datagram d was sent to clients C.
LEMMA DeliveredMail ==
  ASSUME TypeOK, MailTypeOK, NEW C, NEW d \in Datagrams, NEW c \in Clients
  PROVE  /\ Delivered(C, d)[c] \in Seq(Datagrams)
         /\ Len(Delivered(C, d)[c]) <= MaxMail
         /\ \A i \in 1..Len(Delivered(C, d)[c]) :
              Delivered(C, d)[c][i] = d \/ (i \in 1..Len(mail[c]) /\ Delivered(C, d)[c][i] = mail[c][i])
<1>1. mail[c] \in Seq(Datagrams) /\ Len(mail[c]) <= MaxMail
  BY DEF TypeOK, MailTypeOK
<1>2. CASE c \in C /\ pc[c] = "udp" /\ Len(mail[c]) < MaxMail
  <2>1. Delivered(C, d)[c] = Append(mail[c], d)
    BY <1>2 DEF Delivered
  <2> QED BY <1>1, <1>2, <2>1, BoundsAssumption
<1>3. CASE ~(c \in C /\ pc[c] = "udp" /\ Len(mail[c]) < MaxMail)
  <2>1. Delivered(C, d)[c] = mail[c]
    BY <1>3 DEF Delivered
  <2> QED BY <1>1, <2>1
<1> QED BY <1>2, <1>3

\* A step that only delivers a datagram which is no announcement of an earlier
\* incarnation, at the cost of some faults.
LEMMA DeliveryKeeps ==
  ASSUME IInv, NEW C, NEW d \in Datagrams, mail' = Delivered(C, d),
         d.kind = "announcement" => d.from = life,
         faults' \in 0..MaxFaults,
         UNCHANGED <<server, pc, errors, haveserv, hold, since, flags>>
  PROVE  IInv'
<1> USE DEF server, flags
<1>1. mail' \in [Clients -> Seq(Datagrams)] /\ \A c \in Clients : Len(mail'[c]) <= MaxMail
  <2>1. mail' = [c \in Clients |-> mail'[c]]
    BY DEF Delivered
  <2> QED BY <2>1, DeliveredMail DEF IInv
<1>2. TypeOK' /\ MailTypeOK'
  BY <1>1 DEF IInv, TypeOK, MailTypeOK
<1>3. Dated' /\ Wound'
  BY DEF IInv, Dated, Wound
<1>4. Fresh'
  <2> SUFFICES ASSUME NEW c \in Clients, pc[c] = "udp", NEW i \in 1..Len(mail'[c]),
                      mail'[c][i].kind = "announcement"
               PROVE  mail'[c][i].from >= since[c]
    BY DEF IInv, Fresh
  <2>1. CASE mail'[c][i] = d
    BY <2>1, BoundsAssumption DEF IInv, TypeOK, MailTypeOK, Dated
  <2>2. CASE i \in 1..Len(mail[c]) /\ mail'[c][i] = mail[c][i]
    BY <2>2 DEF IInv, Fresh
  <2> QED BY <2>1, <2>2, DeliveredMail DEF IInv
<1> QED BY <1>2, <1>3, <1>4 DEF IInv

\* The announcer sends to one address.
LEMMA SendOneKeeps == ASSUME IInv, sendOne PROVE IInv'
<1>1. PICK lost \in SUBSET {c \in Clients : pc[c] = "udp"} :
        /\ Cardinality(lost) <= faults
        /\ faults' = faults - Cardinality(lost)
        /\ mail' = Delivered({c \in Clients \ lost : At[c] \in Told}, Datagram("announcement", life))
  BY DEF sendOne
<1>2. Cardinality(lost) \in Nat
  BY ClientsAssumption, FS_Subset, FS_CardinalityType
<1>3. faults' \in 0..MaxFaults
  BY <1>1, <1>2, BoundsAssumption DEF IInv, TypeOK
<1>4. Datagram("announcement", life) \in Datagrams
  BY DEF IInv, TypeOK, Datagram, Datagrams
<1>5. Datagram("announcement", life).from = life
  BY DEF Datagram
<1> QED BY <1>1, <1>3, <1>4, <1>5, DeliveryKeeps DEF sendOne

\* A datagram of somebody else arrives.
LEMMA StrayKeeps ==
  ASSUME IInv, NEW c \in Clients, NEW kind \in {"short", "foreign"}, Stray(c, kind)
  PROVE  IInv'
<1>1. faults' \in 0..MaxFaults
  BY BoundsAssumption DEF IInv, TypeOK, Stray
<1>2. Datagram(kind, Nobody) \in Datagrams /\ Datagram(kind, Nobody).kind # "announcement"
  BY BoundsAssumption DEF Datagram, Datagrams, Nobody
<1> QED BY <1>1, <1>2, DeliveryKeeps DEF Stray

\* The server is started or stopped.
LEMMA ServerKeeps == ASSUME IInv, Start \/ Stop PROVE IInv'
<1> USE DEF flags
<1>1. life' \in 0..MaxLives /\ life' >= life /\ up' \in BOOLEAN
  <2>1. CASE Start
    BY <2>1, BoundsAssumption DEF IInv, TypeOK, Start
  <2>2. CASE Stop
    <3>1. up' \in BOOLEAN
      BY <2>2, Zenon DEF Stop
    <3>2. life' = life /\ life \in 0..MaxLives
      BY <2>2 DEF Stop, IInv, TypeOK
    <3> QED BY <3>1, <3>2, BoundsAssumption
  <2> QED BY <2>1, <2>2
<1>2. UNCHANGED <<pc, errors, haveserv, hold, mail, since, shutdown, woken, faults>>
  BY DEF Start, Stop
<1>3. TypeOK' /\ MailTypeOK'
  BY <1>1, <1>2 DEF IInv, TypeOK, MailTypeOK
<1>4. Dated'
  BY <1>1, <1>2, BoundsAssumption DEF IInv, Dated, TypeOK, MailTypeOK
<1>5. Fresh' /\ Wound'
  BY <1>2 DEF IInv, Fresh, Wound
<1> QED BY <1>3, <1>4, <1>5 DEF IInv

\* casterShutdown.
LEMMA ShutdownKeeps ==
  ASSUME IInv, NEW c \in Clients, SetShutdown(c) \/ WakeUp(c)
  PROVE  IInv'
<1>1. /\ UNCHANGED <<life, up, pc, errors, haveserv, hold, mail, since, faults>>
      /\ {shutdown', woken'} \subseteq [Clients -> BOOLEAN]
  BY DEF IInv, TypeOK, SetShutdown, WakeUp, server
<1>2. TypeOK' /\ MailTypeOK'
  BY <1>1 DEF IInv, TypeOK, MailTypeOK
<1>3. Dated' /\ Fresh' /\ Wound'
  BY <1>1 DEF IInv, Dated, Fresh, Wound
<1> QED BY <1>2, <1>3 DEF IInv

-----------------------------------------------------------------------------
(* The client's thread.                                                    *)

\* A client that has found a server holds off.
LEMMA FoundTypes ==
  ASSUME TypeOK, NEW c \in Clients, Found(c)
  PROVE  Goto(c, "holdoff") /\ hold' \in [Clients -> {"zero", "some"}]
<1>1. PICK h \in Holdoffs : hold' = [hold EXCEPT ![c] = h]
  BY DEF Found
<1> QED BY <1>1, HoldoffsAssumption DEF Found, TypeOK

\* A search begins: the socket is new, and so is what comes to it.
LEMMA SearchesKeeps ==
  ASSUME IInv, NEW c \in Clients, errors[c] <= MaxErrors, Searches(c),
         UNCHANGED <<server, flags, faults>>
  PROVE  IInv'
<1> USE DEF server, flags
<1>1. /\ pc' = [pc EXCEPT ![c] = pc'[c]] /\ pc'[c] \in {"udp", "holdoff"}
      /\ hold' \in [Clients -> {"zero", "some"}]
  <2>1. CASE shutdown[c]
    <3>1. Found(c)
      BY <2>1 DEF Searches
    <3> QED BY <3>1, FoundTypes DEF IInv, Goto, TypeOK
  <2>2. CASE ~shutdown[c]
    BY <2>2 DEF Searches, Goto, IInv, TypeOK
  <2> QED BY <2>1, <2>2
<1>2. errors' = [errors EXCEPT ![c] = errors[c] + 1] /\ errors' \in [Clients -> 0..MaxErrors + 1]
  BY BoundsAssumption DEF IInv, TypeOK, Searches
<1>3. haveserv' = [haveserv EXCEPT ![c] = 0] /\ haveserv' \in [Clients -> 0..MaxLives]
  BY BoundsAssumption DEF IInv, TypeOK, Searches, Forgotten, Nobody
<1>4. mail' = [mail EXCEPT ![c] = <<>>] /\ mail' \in [Clients -> Seq(Datagrams)]
  BY DEF IInv, MailTypeOK, Searches
<1>5. since' = [since EXCEPT ![c] = life] /\ since' \in [Clients -> 0..MaxLives]
  BY DEF IInv, TypeOK, MailTypeOK, Searches
<1>6. TypeOK' /\ MailTypeOK'
  <2>1. \A e \in Clients : Len(mail'[e]) <= MaxMail
    BY <1>4, BoundsAssumption DEF IInv, TypeOK, MailTypeOK
  <2> QED BY <1>1, <1>2, <1>3, <1>4, <1>5, <2>1 DEF IInv, TypeOK, MailTypeOK
<1>7. Dated'
  BY <1>5, BoundsAssumption DEF IInv, Dated, TypeOK, MailTypeOK
<1>8. Fresh'
  <2> SUFFICES ASSUME NEW e \in Clients
               PROVE  /\ haveserv'[e] = 0 \/ haveserv'[e] >= since'[e]
                      /\ pc'[e] = "udp" => \A i \in 1..Len(mail'[e]) :
                           mail'[e][i].kind = "announcement" => mail'[e][i].from >= since'[e]
    BY DEF Fresh, Nobody
  <2>1. CASE e = c
    BY <2>1, <1>3, <1>4 DEF IInv, TypeOK, MailTypeOK
  <2>2. CASE e # c
    <3>1. /\ pc'[e] = pc[e] /\ haveserv'[e] = haveserv[e]
          /\ mail'[e] = mail[e] /\ since'[e] = since[e]
      BY <2>2, <1>1, <1>3, <1>4, <1>5 DEF IInv, TypeOK, MailTypeOK
    <3> QED BY <3>1 DEF IInv, Fresh, Nobody
  <2> QED BY <2>1, <2>2
<1>9. Wound'
  BY <1>1, <1>2 DEF IInv, Wound, TypeOK
<1> QED BY <1>6, <1>7, <1>8, <1>9 DEF IInv

\* A step of client c that leaves the UDP phase or is outside it, and does not
\* touch the socket or what was found.
LEMMA OutsideKeeps ==
  ASSUME IInv, NEW c \in Clients, NEW place, Goto(c, place),
         place \in {"top", "holdoff", "connect", "tcp", "stopped"},
         errors' \in [Clients -> 0..MaxErrors + 1], hold' \in [Clients -> {"zero", "some"}],
         \A e \in Clients : errors'[e] <= errors[e],
         faults' \in 0..MaxFaults,
         UNCHANGED <<server, haveserv, mail, since, flags>>
  PROVE  IInv'
<1> USE DEF server, flags, Goto
<1>1. TypeOK' /\ MailTypeOK'
  BY DEF IInv, TypeOK, MailTypeOK
<1>2. Dated' /\ Fresh'
  BY DEF IInv, TypeOK, Dated, Fresh
<1>3. Wound'
  <2> SUFFICES ASSUME NEW e \in Clients, pc'[e] = "sleep" PROVE errors'[e] <= MaxErrors
    BY DEF Wound
  <2>1. pc[e] = "sleep"
    BY DEF IInv, TypeOK
  <2>2. errors[e] <= MaxErrors
    BY <2>1 DEF IInv, Wound
  <2>3. errors[e] \in 0..MaxErrors + 1 /\ errors'[e] \in 0..MaxErrors + 1
    BY DEF IInv, TypeOK
  <2> QED BY <2>2, <2>3, BoundsAssumption
<1> QED BY <1>1, <1>2, <1>3 DEF IInv

\* The head of the thread's loop.
LEMMA TopKeeps == ASSUME IInv, NEW c \in Clients, Top(c) PROVE IInv'
<1>1. CASE shutdown[c] /\ Goto(c, "stopped") /\ UNCHANGED <<errors, haveserv, hold, mail, since>>
  <2>1. \A e \in Clients : errors'[e] <= errors[e]
    BY <1>1, BoundsAssumption DEF IInv, TypeOK
  <2>2. /\ errors' \in [Clients -> 0..MaxErrors + 1] /\ hold' \in [Clients -> {"zero", "some"}]
        /\ faults' \in 0..MaxFaults /\ UNCHANGED <<server, haveserv, mail, since, flags>>
    BY <1>1 DEF IInv, TypeOK, Top
  <2> QED BY <1>1, <2>1, <2>2, OutsideKeeps
<1>2. CASE ~shutdown[c] /\ errors[c] = 0 /\ Searches(c)
  BY <1>2, BoundsAssumption, SearchesKeeps DEF Top
<1>3. CASE /\ Goto(c, "sleep") /\ errors' = [errors EXCEPT ![c] = Limited(@)]
           /\ UNCHANGED <<haveserv, hold, mail, since>>
  <2> USE DEF server, flags, Goto
  <2>1. UNCHANGED <<life, up, haveserv, hold, mail, since, shutdown, woken, faults>>
    BY <1>3 DEF Top
  <2>2. errors' = [errors EXCEPT ![c] = Limited(errors[c])] /\ Limited(errors[c]) \in 0..MaxErrors
    BY <1>3, BoundsAssumption DEF IInv, TypeOK, Limited
  <2>3. TypeOK' /\ MailTypeOK'
    BY <2>1, <2>2, <1>3, BoundsAssumption DEF IInv, TypeOK, MailTypeOK
  <2>4. Dated' /\ Fresh'
    BY <2>1, <1>3 DEF IInv, TypeOK, Dated, Fresh
  <2>5. Wound'
    BY <2>2, <1>3 DEF IInv, TypeOK, Wound
  <2> QED BY <2>3, <2>4, <2>5 DEF IInv
<1> QED BY <1>1, <1>2, <1>3 DEF Top

\* The back-off ends.
LEMMA SleepsKeeps == ASSUME IInv, NEW c \in Clients, Sleeps(c) PROVE IInv'
  BY SearchesKeeps DEF Sleeps, IInv, Wound

\* An announcement is taken from the socket.
LEMMA UdpFoundKeeps ==
  ASSUME IInv, NEW c \in Clients, pc[c] = "udp", mail[c] # <<>>,
         Found(c), Head(mail[c]).kind = "announcement",
         haveserv' = [haveserv EXCEPT ![c] = Head(mail[c]).from],
         mail' = [mail EXCEPT ![c] = Tail(mail[c])],
         UNCHANGED <<server, errors, since, flags, faults>>
  PROVE  IInv'
<1> USE DEF server, flags
<1>1. /\ mail[c] \in Seq(Datagrams) /\ Len(mail[c]) \in 1..MaxMail
      /\ Head(mail[c]) = mail[c][1] /\ Head(mail[c]) \in Datagrams
      /\ Tail(mail[c]) \in Seq(Datagrams) /\ Len(Tail(mail[c])) <= MaxMail
  BY BoundsAssumption DEF IInv, TypeOK, MailTypeOK
<1>2. Head(mail[c]).from \in 0..MaxLives /\ Head(mail[c]).from >= since[c]
  BY <1>1 DEF Datagrams, IInv, Fresh
<1>3. pc' = [pc EXCEPT ![c] = "holdoff"] /\ hold' \in [Clients -> {"zero", "some"}]
  BY FoundTypes DEF IInv, Goto
<1>4. TypeOK' /\ MailTypeOK'
  <2>1. haveserv' \in [Clients -> 0..MaxLives]
    BY <1>2 DEF IInv, TypeOK
  <2>2. \A e \in Clients : Len(mail'[e]) <= MaxMail
    BY <1>1 DEF IInv, TypeOK, MailTypeOK
  <2>3. mail' \in [Clients -> Seq(Datagrams)]
    BY <1>1 DEF IInv, MailTypeOK
  <2> QED BY <1>3, <2>1, <2>2, <2>3 DEF IInv, TypeOK, MailTypeOK
<1>5. Dated' /\ Wound'
  BY <1>3 DEF IInv, TypeOK, Dated, Wound
<1>6. Fresh'
  <2> SUFFICES ASSUME NEW e \in Clients
               PROVE  /\ haveserv'[e] = 0 \/ haveserv'[e] >= since[e]
                      /\ pc'[e] = "udp" => \A i \in 1..Len(mail'[e]) :
                           mail'[e][i].kind = "announcement" => mail'[e][i].from >= since[e]
    BY DEF Fresh, Nobody
  <2>1. CASE e = c
    BY <2>1, <1>2, <1>3 DEF IInv, TypeOK
  <2>2. CASE e # c
    <3>1. pc'[e] = pc[e] /\ haveserv'[e] = haveserv[e] /\ mail'[e] = mail[e]
      BY <2>2, <1>3 DEF IInv, TypeOK, MailTypeOK
    <3> QED BY <3>1 DEF IInv, Fresh, Nobody
  <2> QED BY <2>1, <2>2
<1> QED BY <1>4, <1>5, <1>6 DEF IInv

\* A datagram of something else is taken from the socket, and the phase may end.
LEMMA UdpSkippedKeeps ==
  ASSUME IInv, NEW c \in Clients, mail[c] # <<>>,
         mail' = [mail EXCEPT ![c] = Tail(mail[c])],
         Goto(c, "top") \/ Goto(c, "holdoff") \/ UNCHANGED pc,
         hold' \in [Clients -> {"zero", "some"}],
         UNCHANGED <<server, errors, haveserv, since, flags, faults>>
  PROVE  IInv'
<1> USE DEF server, flags
<1>1. /\ mail[c] \in Seq(Datagrams) /\ Len(mail[c]) \in 1..MaxMail
      /\ Tail(mail[c]) \in Seq(Datagrams) /\ Len(Tail(mail[c])) = Len(mail[c]) - 1
      /\ \A i \in 1..Len(mail[c]) - 1 : Tail(mail[c])[i] = mail[c][i + 1]
  BY BoundsAssumption DEF IInv, TypeOK, MailTypeOK
<1>2. /\ pc' \in [Clients -> {"top", "sleep", "udp", "holdoff", "connect", "tcp", "stopped"}]
      /\ \A e \in Clients : pc'[e] = pc[e] \/ (pc'[e] # "udp" /\ pc'[e] # "sleep")
  BY DEF IInv, TypeOK, Goto
<1>3. TypeOK' /\ MailTypeOK'
  <2>1. \A e \in Clients : Len(mail'[e]) <= MaxMail
    <3> SUFFICES ASSUME NEW e \in Clients PROVE Len(mail'[e]) <= MaxMail
      OBVIOUS
    <3>1. CASE e = c
      <4>1. mail'[e] = Tail(mail[c])
        BY <3>1 DEF IInv, MailTypeOK
      <4>2. Len(mail'[e]) = Len(mail[c]) - 1
        BY <4>1, <1>1
      <4> QED BY <4>2, <1>1, BoundsAssumption
    <3>2. CASE e # c
      BY <3>2 DEF IInv, TypeOK, MailTypeOK
    <3> QED BY <3>1, <3>2
  <2>2. mail' \in [Clients -> Seq(Datagrams)]
    BY <1>1 DEF IInv, MailTypeOK
  <2> QED BY <1>2, <2>1, <2>2 DEF IInv, TypeOK, MailTypeOK
<1>4. Dated' /\ Wound'
  BY <1>2 DEF IInv, Dated, Wound
<1>5. Fresh'
  <2> SUFFICES ASSUME NEW e \in Clients, pc'[e] = "udp", NEW i \in 1..Len(mail'[e]),
                      mail'[e][i].kind = "announcement"
               PROVE  mail'[e][i].from >= since[e]
    BY DEF IInv, Fresh
  <2>1. pc[e] = "udp"
    BY <1>2
  <2>2. CASE e = c
    <3>1. mail'[e] = Tail(mail[c])
      BY <2>2 DEF IInv, MailTypeOK
    <3>2. Len(mail[c]) \in Nat /\ i \in 1..Len(mail[c]) - 1
      <4>1. Len(mail'[e]) = Len(mail[c]) - 1
        BY <3>1, <1>1
      <4>2. Len(mail[c]) \in Nat
        BY <1>1
      <4> QED BY <4>1, <4>2
    <3>3. mail'[e][i] = mail[c][i + 1]
      BY <3>1, <3>2, <1>1
    <3>4. i + 1 \in 1..Len(mail[c])
      BY <3>2
    <3> QED BY <2>1, <2>2, <3>3, <3>4 DEF IInv, Fresh
  <2>3. CASE e # c
    <3>1. mail'[e] = mail[e]
      BY <2>3 DEF IInv, MailTypeOK
    <3> QED BY <3>1, <2>1 DEF IInv, Fresh
  <2> QED BY <2>2, <2>3
<1> QED BY <1>3, <1>4, <1>5 DEF IInv

\* A step of client c to place that changes at most its hold-off and the faults.
LEMMA MoveKeeps ==
  ASSUME IInv, NEW c \in Clients, NEW place, Goto(c, place),
         place \in {"top", "holdoff", "connect", "tcp", "stopped"},
         hold' \in [Clients -> {"zero", "some"}],
         faults' \in 0..MaxFaults,
         UNCHANGED <<server, errors, haveserv, mail, since, flags>>
  PROVE  IInv'
<1>1. errors' \in [Clients -> 0..MaxErrors + 1]
  BY DEF IInv, TypeOK
<1>2. \A e \in Clients : errors'[e] <= errors[e]
  BY <1>1, BoundsAssumption DEF IInv, TypeOK
<1> QED BY <1>1, <1>2, OutsideKeeps

\* The UDP phase.
LEMMA UdpKeeps == ASSUME IInv, NEW c \in Clients, Udp(c) PROVE IInv'
<1>1. hold \in [Clients -> {"zero", "some"}] /\ faults \in 0..MaxFaults
  BY DEF IInv, TypeOK
<1>2. UNCHANGED <<server, errors, since, flags>> /\ pc[c] = "udp"
  BY DEF Udp
<1>3. CASE Found(c) /\ UNCHANGED <<haveserv, mail, faults>>
  BY <1>1, <1>2, <1>3, FoundTypes, MoveKeeps DEF IInv
<1>4. CASE /\ mail[c] # <<>> /\ mail' = [mail EXCEPT ![c] = Tail(mail[c])] /\ UNCHANGED faults
           /\ LET d == Head(mail[c]) IN
              \/ d.kind = "short" /\ Goto(c, "top") /\ UNCHANGED <<haveserv, hold>>
              \/ d.kind = "foreign" /\ UNCHANGED haveserv
                 /\ IF shutdown[c] THEN Found(c) ELSE UNCHANGED <<pc, hold>>
              \/ d.kind = "announcement" /\ Found(c)
                 /\ haveserv' = [haveserv EXCEPT ![c] = d.from]
  <2>1. CASE Goto(c, "top") /\ UNCHANGED <<haveserv, hold>>
    BY <2>1, <1>1, <1>2, <1>4, UdpSkippedKeeps
  <2>2. CASE UNCHANGED haveserv /\ IF shutdown[c] THEN Found(c) ELSE UNCHANGED <<pc, hold>>
    BY <2>2, <1>1, <1>2, <1>4, FoundTypes, UdpSkippedKeeps DEF IInv
  <2>3. CASE /\ Head(mail[c]).kind = "announcement" /\ Found(c)
             /\ haveserv' = [haveserv EXCEPT ![c] = Head(mail[c]).from]
    BY <2>3, <1>2, <1>4, UdpFoundKeeps
  <2> QED BY <1>4, <2>1, <2>2, <2>3
<1>5. CASE /\ faults > 0 /\ faults' = faults - 1 /\ Goto(c, "top")
           /\ UNCHANGED <<haveserv, hold, mail>>
  <2>1. faults' \in 0..MaxFaults
    BY <1>1, <1>5, BoundsAssumption
  <2> QED BY <1>1, <1>2, <1>5, <2>1, MoveKeeps
<1> QED BY <1>3, <1>4, <1>5 DEF Udp

\* The hold-off ends.
LEMMA HoldoffKeeps == ASSUME IInv, NEW c \in Clients, Holdoff(c) PROVE IInv'
<1>1. hold' \in [Clients -> {"zero", "some"}] /\ faults' \in 0..MaxFaults
  BY DEF IInv, TypeOK, Holdoff
<1> QED BY <1>1, MoveKeeps DEF Holdoff

\* The client connects, or fails to.
LEMMA ConnectKeeps == ASSUME IInv, NEW c \in Clients, Connect(c) PROVE IInv'
<1>1. hold' \in [Clients -> {"zero", "some"}] /\ faults' \in 0..MaxFaults
  BY BoundsAssumption DEF IInv, TypeOK, Connect
<1>2. CASE Goto(c, "top") /\ UNCHANGED haveserv
  BY <1>1, <1>2, MoveKeeps DEF Connect
<1>3. CASE Goto(c, "tcp") /\ haveserv' = [haveserv EXCEPT ![c] = life]
  <2>1. UNCHANGED <<server, errors, mail, since, flags>>
    BY DEF Connect
  <2>2. pc' = [pc EXCEPT ![c] = "tcp"] /\ life \in 0..MaxLives /\ since[c] <= life
    BY <1>3 DEF Goto, IInv, TypeOK, Dated
  <2>3. TypeOK' /\ MailTypeOK'
    BY <1>1, <1>3, <2>1, <2>2 DEF IInv, TypeOK, MailTypeOK, server, flags
  <2>4. Dated' /\ Wound'
    BY <2>1, <2>2 DEF IInv, TypeOK, Dated, Wound, server
  <2>5. \A e \in Clients : haveserv'[e] = Nobody \/ haveserv'[e] >= since'[e]
    BY <1>3, <2>1, <2>2 DEF IInv, TypeOK, Fresh
  <2>6. \A e \in Clients : pc'[e] = "udp" => pc[e] = "udp"
    BY <2>2 DEF IInv, TypeOK
  <2>7. Fresh'
    BY <2>1, <2>5, <2>6 DEF IInv, Fresh
  <2> QED BY <2>3, <2>4, <2>7 DEF IInv
<1> QED BY <1>2, <1>3 DEF Connect

\* The TCP phase ends.
LEMMA TcpKeeps == ASSUME IInv, NEW c \in Clients, Tcp(c) PROVE IInv'
<1>1. hold' \in [Clients -> {"zero", "some"}] /\ faults' \in 0..MaxFaults
  BY BoundsAssumption DEF IInv, TypeOK, Tcp
<1>2. errors \in [Clients -> 0..MaxErrors + 1]
  BY DEF IInv, TypeOK
<1>3. errors' = errors \/ errors' = [errors EXCEPT ![c] = 0]
  BY DEF Tcp
<1>4. errors' \in [Clients -> 0..MaxErrors + 1] /\ \A e \in Clients : errors'[e] <= errors[e]
  BY <1>2, <1>3, BoundsAssumption
<1> QED BY <1>1, <1>4, OutsideKeeps DEF Tcp

-----------------------------------------------------------------------------

\* Every step keeps IInv.
LEMMA StepIInv == IInv /\ [Next]_vars => IInv'
<1> SUFFICES ASSUME IInv, [Next]_vars PROVE IInv'
  OBVIOUS
<1>1. CASE UNCHANGED vars
  BY <1>1 DEF vars, server, flags, IInv, TypeOK, MailTypeOK, Dated, Fresh, Wound
<1>2. CASE Start \/ Stop
  BY <1>2, ServerKeeps
<1>3. CASE sendOne
  BY <1>3, SendOneKeeps
<1>4. ASSUME NEW c \in Clients, Thread(c) PROVE IInv'
  BY <1>4, TopKeeps, SleepsKeeps, UdpKeeps, HoldoffKeeps, ConnectKeeps, TcpKeeps DEF Thread
<1>5. ASSUME NEW c \in Clients, SetShutdown(c) \/ WakeUp(c) PROVE IInv'
  BY <1>5, ShutdownKeeps
<1>6. ASSUME NEW c \in Clients, Stray(c, "short") \/ Stray(c, "foreign") PROVE IInv'
  BY <1>6, StrayKeeps
<1> QED BY <1>1, <1>2, <1>3, <1>4, <1>5, <1>6 DEF Next

\* The inductive invariant holds of every behaviour of server and clients.
THEOREM Invariance == Spec => []IInv
  BY InitIInv, StepIInv, PTL DEF Spec

\* Every variable keeps its type: self->errors stays within its limit and one
\* more, a socket within its bound, and the server named was one that existed.
THEOREM TypeCorrect == Spec => []TypeOK
<1>1. IInv => TypeOK
  BY DEF IInv
<1> QED BY <1>1, Invariance, PTL

\* casterThread forgets the server before each search, and the UDP socket is a
\* new one: a client holds off for, connects to and uploads to no server that
\* had been replaced when the search began, however servers and clients are
\* interleaved.
THEOREM NoClientTriesAStaleServer == Spec => []NoStaleServer
<1>1. IInv => NoStaleServer
  BY DEF IInv, Fresh, NoStaleServer
<1> QED BY <1>1, Invariance, PTL
=============================================================================
