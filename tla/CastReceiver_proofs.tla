------------------------ MODULE CastReceiver_proofs -------------------------
(***************************************************************************)
(* Proofs about the flow control of CastReceiver, for every set of         *)
(* connections, every maxActive and every set of nonces.                   *)
(***************************************************************************)
EXTENDS CastReceiver, DataLemmas

-----------------------------------------------------------------------------
(* The inductive invariant.                                                *)

\* Wait holds exactly the parked connections, and only a started one is active.
Parking ==
  /\ Distinct(Wait)
  /\ \A c \in Conns : c \in ToSet(Wait) <=> conn[c] # "none" /\ phase[c] = 0
  /\ \A c \in Conns : active[c] => phase[c] # 0
  /\ \A c \in Conns : phase[c] # 0 => conn[c] # "none"

Counting == SlotAccounting /\ NActive <= maxActive /\ NoIdleSlot

IInv == TypeOK /\ Parking /\ Counting /\ SilentPeerNoticed

\* The uploading connections can be counted.
LEMMA UploadingFinite == IsFiniteSet(Uploading)
BY ConnsAssumption, FS_Subset DEF Uploading

\* IInv holds at first.
LEMMA InitIInv == Init => IInv
<1> SUFFICES ASSUME Init PROVE IInv
  OBVIOUS
<1>1. TypeOK
  BY DEF Init, TypeOK, NoOutput, Nothing
<1>2. Parking
  BY DEF Init, Parking, Distinct, ToSet
<1>3. Counting
  <2>1. Uploading = {}
    BY DEF Init, Uploading
  <2> QED BY <2>1, FS_EmptySet, MaxActiveAssumption
      DEF Init, Counting, SlotAccounting, NoIdleSlot
<1>4. SilentPeerNoticed
  BY DEF Init, SilentPeerNoticed
<1> QED BY <1>1, <1>2, <1>3, <1>4 DEF IInv

\* A connection gives up what it holds of the factory, in recvDone and in
\* connectionLost: the count stays right, no slot is left idle, and Wait loses
\* the connection itself or its head, which becomes active.
LEMMA ReleaseCounts ==
  ASSUME IInv, NEW c \in Conns, isDone(c),
         active' = Activate(AfterDone(c), Admitted(c), TRUE)
  PROVE  /\ NActive' \in Int
         /\ active' \in [Conns -> BOOLEAN]
         /\ Wait' \in Seq(Conns)
         /\ Distinct(Wait)'
         /\ Counting'
         /\ Admitted(c) \subseteq ToSet(Wait) \ {c}
         /\ ToSet(Wait)' = (ToSet(Wait) \ {c}) \ Admitted(c)
         /\ \A d \in Conns : active'[d] <=> d \in Admitted(c) \/ (d # c /\ active[d])
<1> USE DEF IInv
<1>0. /\ NActive \in Int /\ Wait \in Seq(Conns) /\ active \in [Conns -> BOOLEAN]
      /\ Distinct(Wait)
      /\ active[c] => c \notin ToSet(Wait)
      /\ \A d \in ToSet(Wait) : d \in Conns /\ ~active[d]
      /\ NActive = Cardinality(Uploading) /\ NActive <= maxActive
      /\ Wait # <<>> => NActive = maxActive
  BY DEF TypeOK, Parking, Counting, SlotAccounting, NoIdleSlot, ToSet
<1>1. \A d \in Conns : active'[d] <=> d \in Admitted(c) \/ (d # c /\ active[d])
  BY <1>0 DEF Activate, AfterDone
<1>2. active' \in [Conns -> BOOLEAN]
  BY <1>0 DEF Activate, AfterDone
<1>3. CASE ~active[c]
  <2>1. Admitted(c) = {}
    BY <1>3 DEF Admitted
  <2>2. Wait' = RemoveFirst(Wait, c) /\ NActive' = NActive
    BY <1>3 DEF isDone
  <2> DEFINE r == RemoveFirst(Wait, c)
  <2>3. /\ r \in Seq(Conns) /\ Distinct(r) /\ ToSet(r) = ToSet(Wait) \ {c}
        /\ c \notin ToSet(Wait) => r = Wait
    BY <1>0, RemoveFirstProperties
  <2> HIDE DEF r
  <2>4. Uploading' = Uploading
    BY <1>1, <1>3, <2>1 DEF Uploading
  <2>5. Wait = <<>> => Wait' = <<>>
    BY <2>2, <2>3 DEF ToSet, r
  <2>6. Wait' \in Seq(Conns) /\ Distinct(Wait)' /\ ToSet(Wait)' = ToSet(Wait) \ {c}
    BY <2>2, <2>3 DEF Distinct, ToSet, r
  <2> QED BY <1>0, <1>1, <1>2, <2>1, <2>2, <2>4, <2>5, <2>6
      DEF Counting, SlotAccounting, NoIdleSlot
<1>4. CASE active[c] /\ Wait # <<>>
  <2> DEFINE h == Head(Wait)
  <2>1. Admitted(c) = {h}
    BY <1>4 DEF Admitted
  <2>2. Wait' = Tail(Wait) /\ NActive' = NActive
    BY <1>4 DEF isDone
  <2>3. Wait' \in Seq(Conns) /\ Distinct(Wait)'
    BY <1>0, <1>4, <2>2 DEF Distinct
  <2>4. ToSet(Wait)' = ToSet(Wait) \ {h}
    <3>1. Len(Wait') = Len(Wait) - 1 /\ \A i \in 1..Len(Wait') : Wait'[i] = Wait[i + 1]
      BY <1>0, <1>4, <2>2
    <3>2. ASSUME NEW x \in ToSet(Wait)' PROVE x \in ToSet(Wait) \ {h}
      BY <1>0, <1>4, <2>3, <3>1, <3>2 DEF Distinct, ToSet
    <3>3. ASSUME NEW x \in ToSet(Wait) \ {h} PROVE x \in ToSet(Wait)'
      <4>1. PICK i \in 1..Len(Wait) : x = Wait[i]
        BY <1>0 DEF ToSet
      <4>2. i # 1
        BY <4>1, <1>0, <1>4
      <4>3. i - 1 \in 1..Len(Wait') /\ Wait'[i - 1] = Wait[i]
        BY <1>0, <1>4, <2>3, <3>1, <4>1, <4>2
      <4> QED BY <4>1, <4>3, <2>3 DEF ToSet
    <3> QED BY <3>2, <3>3
  <2>5. h \in ToSet(Wait) /\ h # c /\ h \in Conns /\ ~active[h]
    BY <1>0, <1>4 DEF ToSet
  <2>6. Uploading' = (Uploading \ {c}) \cup {h}
    BY <1>0, <1>1, <2>1, <2>5 DEF Uploading
  <2>7. c \in Uploading /\ h \notin Uploading
    BY <1>4, <2>5 DEF Uploading
  <2>8. Cardinality(Uploading') = Cardinality(Uploading)
    <3>1. IsFiniteSet(Uploading \ {c})
          /\ Cardinality(Uploading \ {c}) = Cardinality(Uploading) - 1
      BY <2>7, UploadingFinite, FS_RemoveElement
    <3>2. Cardinality(Uploading') = Cardinality(Uploading \ {c}) + 1
      BY <3>1, <2>6, <2>7, FS_AddElement
    <3> QED BY <3>1, <3>2, UploadingFinite, FS_CardinalityType
  <2> QED BY <1>0, <1>1, <1>2, <1>4, <2>1, <2>2, <2>3, <2>4, <2>5, <2>8
      DEF Counting, SlotAccounting, NoIdleSlot
<1>5. CASE active[c] /\ Wait = <<>>
  <2>1. Admitted(c) = {}
    BY <1>5 DEF Admitted
  <2>2. Wait' = Wait /\ NActive' = NActive - 1
    BY <1>5 DEF isDone
  <2>3. Uploading' = Uploading \ {c} /\ c \in Uploading
    BY <1>0, <1>1, <1>5, <2>1 DEF Uploading
  <2>4. Cardinality(Uploading') = Cardinality(Uploading) - 1
    BY <2>3, UploadingFinite, FS_RemoveElement
  <2>5. ToSet(Wait) = {} /\ ToSet(Wait)' = {}
    BY <1>5, <2>2 DEF ToSet
  <2>6. Distinct(Wait)'
    BY <1>0, <2>2 DEF Distinct
  <2>7. Counting'
    BY <1>0, <1>5, <2>2, <2>4, MaxActiveAssumption
    DEF Counting, SlotAccounting, NoIdleSlot
  <2>8. Wait' \in Seq(Conns) /\ NActive' \in Int
    BY <1>0, <2>2
  <2>9. /\ Admitted(c) \subseteq ToSet(Wait) \ {c}
        /\ ToSet(Wait)' = (ToSet(Wait) \ {c}) \ Admitted(c)
    BY <2>1, <2>5
  <2> QED BY <1>1, <1>2, <2>6, <2>7, <2>8, <2>9
<1> QED BY <1>0, <1>3, <1>4, <1>5

\* A step that moves no slot and neither starts nor ends a connection.
Calm ==
  /\ UNCHANGED <<NActive, Wait, active>>
  /\ \A d \in Conns : /\ conn'[d] = "none" <=> conn[d] = "none"
                      /\ phase'[d] = 0 <=> phase[d] = 0

\* A handler that moves no slot keeps the queue and the count.
LEMMA CalmKeeps ==
  ASSUME IInv, Calm
  PROVE  Parking' /\ Counting'
<1>1. Uploading' = Uploading
  BY DEF Calm, Uploading
<1> QED BY <1>1 DEF IInv, Calm, Parking, Counting, Distinct, ToSet, SlotAccounting,
                    NoIdleSlot

\* connectionLost keeps IInv, whoever is admitted by it.
LEMMA connectionLostKeeps ==
  ASSUME IInv, NEW c \in Conns, connectionLost(c)
  PROVE  IInv'
<1> DEFINE A == Admitted(c)
<1>1. /\ NActive' \in Int
      /\ active' \in [Conns -> BOOLEAN]
      /\ Wait' \in Seq(Conns)
      /\ Distinct(Wait)'
      /\ Counting'
      /\ A \subseteq ToSet(Wait) \ {c}
      /\ ToSet(Wait)' = (ToSet(Wait) \ {c}) \ A
      /\ \A d \in Conns : active'[d] <=> d \in A \/ (d # c /\ active[d])
  BY ReleaseCounts DEF connectionLost, AfterDone
<1> HIDE DEF A
<1>2. /\ phase' = Activate([phase EXCEPT ![c] = 0], A, 1)
      /\ timer' = Activate([timer EXCEPT ![c] = FALSE], A, TRUE)
      /\ out' = Activate(NoOutput, A, ServerGreeting)
      /\ conn' = [conn EXCEPT ![c] = "none"]
      /\ nonce' = [nonce EXCEPT ![c] = NoNonce]
      /\ sess' = [sess EXCEPT ![c] = FALSE]
  BY DEF connectionLost, Forget, A
<1>3. TypeOK'
  <2>1. out' \in [Conns -> {Nothing, ServerGreeting} \cup {Ping(n) : n \in Nonces}]
    BY <1>2 DEF Activate, NoOutput
  <2>2. phase' \in [Conns -> 0..2]
    BY <1>2 DEF IInv, TypeOK, Activate
  <2>4. timer' \in [Conns -> BOOLEAN]
    BY <1>2 DEF IInv, TypeOK, Activate
  <2>3. /\ conn' \in [Conns -> {"none", "open", "closing"}]
        /\ nonce' \in [Conns -> Nonces \cup {NoNonce}]
        /\ sess' \in [Conns -> BOOLEAN]
    BY <1>2 DEF IInv, TypeOK
  <2> QED BY <1>1, <2>1, <2>2, <2>3, <2>4 DEF TypeOK
<1>4. Parking'
  <2>1. \A d \in Conns : d \in ToSet(Wait)' <=> conn'[d] # "none" /\ phase'[d] = 0
    BY <1>1, <1>2 DEF IInv, TypeOK, Parking, Activate
  <2>2. \A d \in Conns : active'[d] => phase'[d] # 0
    BY <1>1, <1>2 DEF IInv, TypeOK, Parking, Activate
  <2>3. \A d \in Conns : phase'[d] # 0 => conn'[d] # "none"
    BY <1>1, <1>2 DEF IInv, TypeOK, Parking, Activate
  <2> QED BY <1>1, <2>1, <2>2, <2>3 DEF Parking
<1>5. SilentPeerNoticed'
  BY <1>1, <1>2 DEF IInv, TypeOK, Parking, SilentPeerNoticed, Activate
<1> QED BY <1>1, <1>3, <1>4, <1>5 DEF IInv

\* So does recvDone.
LEMMA recvDoneKeeps ==
  ASSUME IInv, NEW c \in Conns, recvDone(c)
  PROVE  IInv'
<1>1. CASE connectionLost(c)
  BY <1>1, connectionLostKeeps
<1>2. CASE ~connectionLost(c)
  <2> DEFINE A == Admitted(c)
  <2>0. /\ Readable(c) /\ isDone(c)
        /\ active' = Activate(AfterDone(c), A, TRUE)
        /\ timer' = Activate([timer EXCEPT ![c] = TRUE], A, TRUE)
        /\ UNCHANGED <<conn, sess>>
    BY <1>2 DEF recvDone
  <2>1. /\ NActive' \in Int
        /\ active' \in [Conns -> BOOLEAN]
        /\ Wait' \in Seq(Conns)
        /\ Distinct(Wait)'
        /\ Counting'
        /\ A \subseteq ToSet(Wait) \ {c}
        /\ ToSet(Wait)' = (ToSet(Wait) \ {c}) \ A
        /\ \A d \in Conns : active'[d] <=> d \in A \/ (d # c /\ active[d])
    BY <2>0, ReleaseCounts
  <2>2. \/ /\ phase' = Activate([phase EXCEPT ![c] = 2], A, 1)
           /\ \E n \in Nonces :
                /\ nonce' = [nonce EXCEPT ![c] = n]
                /\ out' = Activate([NoOutput EXCEPT ![c] = Ping(n)], A, ServerGreeting)
        \/ /\ phase' = Activate(phase, A, 1)
           /\ out' = Activate(NoOutput, A, ServerGreeting)
           /\ UNCHANGED nonce
    BY <1>2 DEF recvDone
  <2> HIDE DEF A
  <2>3. /\ phase' \in [Conns -> 0..2]
        /\ \A d \in Conns : phase'[d] = 0 <=> phase[d] = 0 /\ d \notin A
    BY <2>0, <2>2 DEF IInv, TypeOK, Activate, Readable
  <2>4. TypeOK'
    <3>1. out' \in [Conns -> {Nothing, ServerGreeting} \cup {Ping(n) : n \in Nonces}]
      BY <2>2 DEF Activate, NoOutput
    <3>2. nonce' \in [Conns -> Nonces \cup {NoNonce}]
      BY <2>2 DEF IInv, TypeOK
    <3> QED BY <2>0, <2>1, <2>3, <3>1, <3>2 DEF IInv, TypeOK, Activate
  <2>5. Parking'
    <3>1. \A d \in Conns : d \in ToSet(Wait)' <=> conn'[d] # "none" /\ phase'[d] = 0
      BY <2>0, <2>1, <2>3 DEF IInv, Parking, Readable
    <3> QED BY <2>0, <2>1, <2>3, <3>1 DEF IInv, Parking, Readable
  <2>6. SilentPeerNoticed'
    BY <2>0, <2>1, <2>3 DEF IInv, TypeOK, Parking, SilentPeerNoticed, Activate, Readable
  <2> QED BY <2>1, <2>4, <2>5, <2>6 DEF IInv
<1> QED BY <1>1, <1>2

\* So does a new connection, parked or started.
LEMMA BuildProtocolKeeps ==
  ASSUME IInv, NEW c \in Conns, BuildProtocol(c)
  PROVE  IInv'
<1>0. /\ conn[c] = "none" /\ phase[c] = 0 /\ ~active[c] /\ c \notin ToSet(Wait)
      /\ Wait \in Seq(Conns) /\ NActive \in Int
  BY DEF IInv, TypeOK, Parking, BuildProtocol
<1>1. /\ conn' \in [Conns -> {"none", "open", "closing"}]
      /\ phase' \in [Conns -> 0..2]
      /\ active' \in [Conns -> BOOLEAN] /\ timer' \in [Conns -> BOOLEAN]
      /\ nonce' \in [Conns -> Nonces \cup {NoNonce}] /\ sess' \in [Conns -> BOOLEAN]
  BY DEF IInv, TypeOK, BuildProtocol, HasSlot
<1>2. out' \in [Conns -> {Nothing, ServerGreeting} \cup {Ping(n) : n \in Nonces}]
  BY DEF BuildProtocol, FirstWords, NoOutput
<1>3. CASE HasSlot
  <2>0. Wait' = Wait /\ NActive' = NActive + 1 /\ Wait = <<>>
    BY <1>0, <1>3, MaxActiveAssumption
    DEF BuildProtocol, HasSlot, IInv, Counting, NoIdleSlot
  <2>1. /\ Wait' = Wait /\ NActive' = NActive + 1 /\ Wait = <<>>
        /\ active'[c] /\ timer'[c] /\ phase'[c] = 1 /\ conn'[c] = "open"
        /\ \A d \in Conns \ {c} : /\ active'[d] = active[d] /\ timer'[d] = timer[d]
                                 /\ phase'[d] = phase[d] /\ conn'[d] = conn[d]
    BY <1>3, <2>0 DEF BuildProtocol, IInv, TypeOK
  <2>2. TypeOK'
    BY <1>0, <1>1, <1>2, <2>1 DEF TypeOK
  <2>3. ToSet(Wait) = {} /\ ToSet(Wait)' = {} /\ Distinct(Wait)'
    BY <2>1 DEF ToSet, Distinct
  <2>4. Parking'
    BY <1>0, <2>1, <2>3 DEF IInv, TypeOK, Parking
  <2>5. Counting'
    <3>1. Uploading' = Uploading \cup {c} /\ c \notin Uploading
      BY <1>0, <2>1 DEF IInv, TypeOK, Uploading
    <3>2. Cardinality(Uploading') = Cardinality(Uploading) + 1
      BY <3>1, UploadingFinite, FS_AddElement
    <3> QED BY <1>0, <1>3, <2>1, <3>2, MaxActiveAssumption
        DEF IInv, Counting, SlotAccounting, NoIdleSlot, HasSlot
  <2>6. SilentPeerNoticed'
    BY <2>1 DEF IInv, TypeOK, SilentPeerNoticed
  <2> QED BY <2>2, <2>4, <2>5, <2>6 DEF IInv
<1>4. CASE ~HasSlot
  <2>1. /\ Wait' = Append(Wait, c) /\ NActive' = NActive
        /\ ~active'[c] /\ ~timer'[c] /\ phase'[c] = 0 /\ conn'[c] = "open"
        /\ \A d \in Conns \ {c} : /\ active'[d] = active[d] /\ timer'[d] = timer[d]
                                 /\ phase'[d] = phase[d] /\ conn'[d] = conn[d]
    BY <1>4 DEF BuildProtocol, Queued, IInv, TypeOK
  <2>2. TypeOK'
    BY <1>0, <1>1, <1>2, <2>1 DEF TypeOK
  <2>3. /\ Len(Wait') = Len(Wait) + 1 /\ Wait'[Len(Wait) + 1] = c
        /\ \A i \in 1..Len(Wait) : Wait'[i] = Wait[i]
    BY <1>0, <2>1
  <2>4. ToSet(Wait)' = ToSet(Wait) \cup {c}
    <3>1. DOMAIN Wait = 1..Len(Wait) /\ DOMAIN Wait' = 1..(Len(Wait) + 1)
      BY <1>0, <2>1
    <3>2. \A x : x \in ToSet(Wait)' <=> \E i \in 1..(Len(Wait) + 1) : x = Wait'[i]
      BY <3>1 DEF ToSet
    <3>3. \A x : x \in ToSet(Wait) <=> \E i \in 1..Len(Wait) : x = Wait[i]
      BY <3>1 DEF ToSet
    <3>4. 1..(Len(Wait) + 1) = (1..Len(Wait)) \cup {Len(Wait) + 1}
      BY <1>0
    <3> QED BY <2>3, <3>2, <3>3, <3>4
  <2>5. Distinct(Wait)'
    <3>1. \A i \in 1..Len(Wait) : Wait[i] # c
      BY <1>0 DEF ToSet
    <3>2. \A i, j \in 1..Len(Wait) : Wait[i] = Wait[j] => i = j
      BY DEF IInv, Parking, Distinct
    <3>3. Len(Wait) \in Nat
      BY <1>0
    <3> QED BY <2>3, <3>1, <3>2, <3>3 DEF Distinct
  <2>6. Parking'
    BY <1>0, <2>1, <2>4, <2>5 DEF IInv, TypeOK, Parking
  <2>7. Counting'
    <3>1. Uploading' = Uploading
      BY <1>0, <2>1 DEF IInv, TypeOK, Uploading
    <3> QED BY <1>0, <1>4, <2>1, <3>1, MaxActiveAssumption
        DEF IInv, Counting, SlotAccounting, NoIdleSlot, HasSlot
  <2>8. SilentPeerNoticed'
    BY <2>1 DEF IInv, TypeOK, SilentPeerNoticed
  <2> QED BY <2>2, <2>6, <2>7, <2>8 DEF IInv
<1> QED BY <1>3, <1>4

\* The handlers that move no slot.
LEMMA QuietHandlersKeep ==
  ASSUME IInv, NEW c \in Conns,
         \/ recvClientGreeting(c) \/ RecvSkipped(c) \/ RecvRejected(c)
         \/ CommitFailed(c) \/ writePing(c)
         \/ \E n \in Nonces : nonce[c] # NoNonce /\ recvPong(c, n)
  PROVE  IInv'
<1> USE DEF IInv, TypeOK, recvHeader, Readable, loseConnection, NoOutput
<1>1. CASE recvClientGreeting(c)
  <2>1. Calm /\ TypeOK' /\ SilentPeerNoticed'
    BY <1>1 DEF recvClientGreeting, Calm, SilentPeerNoticed
  <2> QED BY <2>1, CalmKeeps
<1>2. CASE RecvSkipped(c)
  <2>1. Calm /\ TypeOK' /\ SilentPeerNoticed'
    BY <1>2 DEF RecvSkipped, Calm, SilentPeerNoticed
  <2> QED BY <2>1, CalmKeeps
<1>3. CASE RecvRejected(c)
  <2>1. Calm /\ TypeOK' /\ SilentPeerNoticed'
    BY <1>3 DEF RecvRejected, Calm, SilentPeerNoticed
  <2> QED BY <2>1, CalmKeeps
<1>4. CASE CommitFailed(c)
  <2>1. Calm /\ TypeOK' /\ SilentPeerNoticed'
    BY <1>4 DEF CommitFailed, Calm, SilentPeerNoticed
  <2> QED BY <2>1, CalmKeeps
<1>5. CASE writePing(c)
  <2>0. conn[c] # "none"
    BY <1>5 DEF writePing, SilentPeerNoticed
  <2>1. Calm /\ SilentPeerNoticed'
    BY <1>5, <2>0 DEF writePing, Calm, SilentPeerNoticed
  <2>2. TypeOK'
    <3>1. CASE phase[c] = 2
      <4>1. /\ timer' = [timer EXCEPT ![c] = FALSE]
            /\ conn' = [conn EXCEPT ![c] = "closing"]
            /\ out' = NoOutput
            /\ UNCHANGED <<NActive, Wait, active, sess, phase, nonce>>
        <5> HIDE DEF IInv, TypeOK, NoOutput
        <5> QED BY <1>5, <3>1 DEF writePing
      <4> QED BY <4>1
    <3>2. CASE phase[c] # 2
      <4>1. PICK n \in Nonces : /\ nonce' = [nonce EXCEPT ![c] = n]
                                /\ out' = [NoOutput EXCEPT ![c] = Ping(n)]
        BY <1>5, <3>2 DEF writePing
      <4>2. /\ phase' = [phase EXCEPT ![c] = 2]
            /\ UNCHANGED <<NActive, Wait, active, sess, conn, timer>>
        BY <1>5, <3>2 DEF writePing
      <4> QED BY <4>1, <4>2
    <3> QED BY <3>1, <3>2
  <2> QED BY <2>1, <2>2, CalmKeeps
<1>6. CASE \E n \in Nonces : nonce[c] # NoNonce /\ recvPong(c, n)
  <2>1. PICK n \in Nonces : nonce[c] # NoNonce /\ recvPong(c, n)
    BY <1>6
  <2>2. CASE RecvRejected(c)
    BY <2>2, <1>3
  <2>3. CASE ~RecvRejected(c)
    <3>0. /\ Readable(c)
          /\ timer' = [timer EXCEPT ![c] = TRUE]
          /\ phase' = [phase EXCEPT ![c] = 1]
          /\ out' = NoOutput
          /\ UNCHANGED <<NActive, Wait, conn, active, nonce, sess>>
      BY <2>1, <2>3 DEF recvPong
    <3>1. Calm /\ TypeOK' /\ SilentPeerNoticed'
      BY <3>0 DEF Calm, SilentPeerNoticed
    <3> QED BY <3>1, CalmKeeps
  <2> QED BY <2>2, <2>3
<1> QED BY <1>1, <1>2, <1>3, <1>4, <1>5, <1>6

\* Every step keeps IInv.
LEMMA NextIInv == IInv /\ [Next]_vars => IInv'
<1> SUFFICES ASSUME IInv, [Next]_vars PROVE IInv'
  OBVIOUS
<1>1. CASE UNCHANGED vars
  BY <1>1 DEF vars, IInv, TypeOK, Parking, Counting, SilentPeerNoticed, Distinct, ToSet,
              SlotAccounting, NoIdleSlot, Uploading
<1>2. CASE Next
  <2>1. PICK c \in Conns :
          \/ BuildProtocol(c) \/ recvClientGreeting(c) \/ RecvUpdate(c)
          \/ \E n \in Nonces : recvPong(c, n)
          \/ recvDone(c) \/ RecvSkipped(c) \/ RecvUnknown(c) \/ RecvRejected(c)
          \/ writePing(c) \/ CommitFailed(c) \/ Disconnect(c)
    BY <1>2 DEF Next
  <2>2. CASE BuildProtocol(c)
    BY <2>2, BuildProtocolKeeps
  <2>3. CASE recvDone(c)
    BY <2>3, recvDoneKeeps
  <2>4. CASE connectionLost(c)
    BY <2>4, connectionLostKeeps
  <2>5. CASE Disconnect(c) \/ RecvUnknown(c)
    BY <2>4, <2>5 DEF Disconnect, RecvUnknown
  <2>6. CASE RecvUpdate(c)
    <3>1. RecvSkipped(c) \/ connectionLost(c)
      BY <2>6 DEF RecvUpdate
    <3> QED BY <3>1, <2>4, QuietHandlersKeep
  <2>7. CASE \E n \in Nonces : recvPong(c, n)
    <3>1. PICK n \in Nonces : recvPong(c, n)
      BY <2>7
    <3>2. CASE nonce[c] # NoNonce
      BY <3>1, <3>2, QuietHandlersKeep
    <3>3. CASE nonce[c] = NoNonce
      <4>1. n # NoNonce
        BY NoncesAssumption DEF NoNonce
      <4>2. connectionLost(c)
        BY <3>1, <3>3, <4>1 DEF recvPong
      <4> QED BY <4>2, <2>4
    <3> QED BY <3>2, <3>3
  <2> QED BY <2>1, <2>2, <2>3, <2>5, <2>6, <2>7, QuietHandlersKeep
<1> QED BY <1>1, <1>2

\* Every reachable state satisfies IInv.
LEMMA Invariance == Spec => []IInv
BY InitIInv, NextIInv, PTL DEF Spec

-----------------------------------------------------------------------------
(* The theorems.                                                           *)

\* The state of every protocol object and of the factory keeps its type.
THEOREM TypeCorrect == Spec => []TypeOK
BY Invariance, PTL DEF IInv

\* NActive is at all times the number of connections that hold a slot, whatever
\* the peers send and however recvDone, exceptions and connectionLost mix.
THEOREM SlotAccountingHolds == Spec => []SlotAccounting
BY Invariance, PTL DEF IInv, Counting

\* buildProtocol and isDone never leave a slot free while somebody is in Wait.
THEOREM NoIdleSlotHolds == Spec => []NoIdleSlot
BY Invariance, PTL DEF IInv, Counting

\* A parked connection is in Wait, once, until it is started or lost.
THEOREM ParkedOnceHolds == Spec => []ParkedOnce
<1>1. IInv => ParkedOnce
  <2> SUFFICES ASSUME IInv PROVE ParkedOnce
    OBVIOUS
  <2>1. ToSet(Wait) \subseteq Conns
    BY DEF IInv, TypeOK, ToSet
  <2> QED BY <2>1 DEF IInv, Parking, ParkedOnce, Distinct
<1> QED BY <1>1, Invariance, PTL

\* A started connection has its ping timer armed until it is given up, and a
\* closed one has none.
THEOREM SilentPeerNoticedHolds == Spec => []SilentPeerNoticed
BY Invariance, PTL DEF IInv

-----------------------------------------------------------------------------
(* CastFactory implements the FIFO semaphore of UploadSlots.               *)

\* The copies of the sequence operators that UploadSlots sees.
LEMMA SameOperators ==
  /\ \A s : Slots!ToSet(s) = ToSet(s)
  /\ \A s, e : Slots!RemoveFirst(s, e) = RemoveFirst(s, e)
BY DEF ToSet, Slots!ToSet, RemoveFirst, Slots!RemoveFirst, RemoveAt, Slots!RemoveAt,
       SelectInSeq, Slots!SelectInSeq, Min, Slots!Min

\* Both modules count alike.
LEMMA SameCardinality == \A S : Slots!Cardinality(S) = Cardinality(S)
BY DEF Cardinality, Slots!Cardinality

\* Giving up what a connection holds is Finish, Abandon, or nothing.
LEMMA ReleaseIsSlotStep ==
  ASSUME IInv, NEW c \in Conns, isDone(c),
         active' = Activate(AfterDone(c), Admitted(c), TRUE)
  PROVE  [Slots!SlotNext]_(Slots!slotVars)
<1>1. \A d \in Conns : active'[d] <=> d \in Admitted(c) \/ (d # c /\ active[d])
  BY ReleaseCounts
<1>2. Admitted(c) \subseteq Conns
  <2>1. Admitted(c) \subseteq ToSet(Wait)
    BY ReleaseCounts
  <2>2. ToSet(Wait) \subseteq Conns
    BY DEF IInv, TypeOK, ToSet
  <2> QED BY <2>1, <2>2
<1>3. CASE active[c]
  <2>1. c \in Uploading
    BY <1>3 DEF Uploading
  <2>2. CASE Wait = <<>>
    <3>1. Admitted(c) = {} /\ Wait' = Wait
      BY <1>3, <2>2 DEF Admitted, isDone
    <3>2. Uploading' = Uploading \ {c}
      BY <1>1, <3>1 DEF Uploading
    <3>3. Slots!Finish(c)
      BY <2>1, <2>2, <3>1, <3>2 DEF Slots!Finish
    <3> QED BY <3>3 DEF Slots!SlotNext
  <2>3. CASE Wait # <<>>
    <3>1. Admitted(c) = {Head(Wait)} /\ Wait' = Tail(Wait)
      BY <1>3, <2>3 DEF Admitted, isDone
    <3>2. Uploading' = (Uploading \ {c}) \cup {Head(Wait)}
      BY <1>1, <1>2, <3>1 DEF Uploading
    <3>3. Slots!Finish(c)
      BY <2>1, <2>3, <3>1, <3>2 DEF Slots!Finish
    <3> QED BY <3>3 DEF Slots!SlotNext
  <2> QED BY <2>2, <2>3
<1>4. CASE ~active[c]
  <2>1. Admitted(c) = {} /\ Wait' = RemoveFirst(Wait, c)
    BY <1>4 DEF Admitted, isDone
  <2>2. Uploading' = Uploading
    BY <1>1, <1>4, <2>1 DEF Uploading
  <2>3. CASE c \in ToSet(Wait)
    <3>1. Slots!Abandon(c)
      BY <2>1, <2>2, <2>3, SameOperators DEF Slots!Abandon
    <3> QED BY <3>1 DEF Slots!SlotNext
  <2>4. CASE c \notin ToSet(Wait)
    <3>1. Wait' = Wait
      BY <2>1, <2>4, RemoveFirstProperties DEF IInv, TypeOK, Parking
    <3> QED BY <2>2, <3>1 DEF Slots!slotVars
  <2> QED BY <2>3, <2>4
<1> QED BY <1>3, <1>4

\* A new connection is an arrival at the semaphore.
LEMMA BuildProtocolIsArrive ==
  ASSUME IInv, NEW c \in Conns, BuildProtocol(c)
  PROVE  Slots!Arrive(c)
<1>1. c \notin Uploading \cup Slots!ToSet(Wait)
  BY SameOperators DEF IInv, Parking, BuildProtocol, Uploading
<1>2. NActive = Slots!Cardinality(Uploading)
  BY SameCardinality DEF IInv, Counting, SlotAccounting
<1>3. CASE HasSlot
  <2>1. Wait' = Wait
    BY <1>3 DEF BuildProtocol
  <2>2. Uploading' = Uploading \cup {c}
    BY <1>3 DEF BuildProtocol, IInv, TypeOK, Uploading
  <2> QED BY <1>1, <1>2, <1>3, <2>1, <2>2 DEF Slots!Arrive, HasSlot
<1>4. CASE ~HasSlot
  <2>1. Wait' = Append(Wait, c)
    BY <1>4 DEF BuildProtocol, Queued
  <2>2. ~active[c]
    BY <1>1 DEF Uploading
  <2>3. Uploading' = Uploading
    BY <1>4, <2>2 DEF BuildProtocol, IInv, TypeOK, Uploading
  <2> QED BY <1>1, <1>2, <1>4, <2>1, <2>3 DEF Slots!Arrive, HasSlot
<1> QED BY <1>3, <1>4

\* Every step is one of the semaphore, or none.
LEMMA StepRefines == IInv /\ [Next]_vars => [Slots!SlotNext]_(Slots!slotVars)
<1> SUFFICES ASSUME IInv, [Next]_vars PROVE [Slots!SlotNext]_(Slots!slotVars)
  OBVIOUS
<1>1. CASE UNCHANGED <<active, Wait>>
  BY <1>1 DEF Slots!slotVars, Uploading
<1>2. CASE UNCHANGED vars
  BY <1>1, <1>2 DEF vars
<1>3. CASE Next
  <2>1. PICK c \in Conns :
          \/ BuildProtocol(c) \/ recvClientGreeting(c) \/ RecvUpdate(c)
          \/ \E n \in Nonces : recvPong(c, n)
          \/ recvDone(c) \/ RecvSkipped(c) \/ RecvUnknown(c) \/ RecvRejected(c)
          \/ writePing(c) \/ CommitFailed(c) \/ Disconnect(c)
    BY <1>3 DEF Next
  <2>2. CASE BuildProtocol(c)
    BY <2>2, BuildProtocolIsArrive DEF Slots!SlotNext
  <2>3. CASE connectionLost(c)
    BY <2>3, ReleaseIsSlotStep DEF connectionLost, AfterDone
  <2>4. CASE recvDone(c)
    <3>1. connectionLost(c) \/ (isDone(c) /\ active' = Activate(AfterDone(c), Admitted(c), TRUE))
      BY <2>4 DEF recvDone
    <3> QED BY <3>1, <2>3, ReleaseIsSlotStep
  <2>5. CASE \E n \in Nonces : recvPong(c, n)
    <3>1. connectionLost(c) \/ UNCHANGED <<active, Wait>>
      BY <2>5 DEF recvPong, RecvRejected
    <3> QED BY <3>1, <2>3, <1>1
  <2>6. CASE RecvUpdate(c) \/ RecvUnknown(c) \/ Disconnect(c)
    <3>1. connectionLost(c) \/ UNCHANGED <<active, Wait>>
      BY <2>6 DEF RecvUpdate, RecvSkipped, RecvUnknown, Disconnect
    <3> QED BY <3>1, <2>3, <1>1
  <2>7. CASE \/ recvClientGreeting(c) \/ RecvSkipped(c) \/ RecvRejected(c)
             \/ writePing(c) \/ CommitFailed(c)
    <3>1. UNCHANGED <<active, Wait>>
      BY <2>7 DEF recvClientGreeting, RecvSkipped, RecvRejected, writePing, CommitFailed
    <3> QED BY <3>1, <1>1
  <2> QED BY <2>1, <2>2, <2>4, <2>5, <2>6, <2>7
<1> QED BY <1>2, <1>3

\* CastFactory's counter, list and call-backs implement the FIFO semaphore: a
\* connection that arrives gets a free slot or the end of the queue, and a slot
\* given up by Done, by a failed handler or by a lost connection goes to the
\* one that has waited longest.
THEOREM FlowControlIsFIFO == Spec => FIFOSlots
<1>1. Init => Slots!SlotInit
  BY DEF Init, Slots!SlotInit, Uploading
<1> QED BY <1>1, Invariance, StepRefines, PTL DEF Spec, FIFOSlots, Slots!SlotSpec
=============================================================================
