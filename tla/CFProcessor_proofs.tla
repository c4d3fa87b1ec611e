------------------------- MODULE CFProcessor_proofs -------------------------
(***************************************************************************)
(* Proofs about CFProcessor, for any sessions, names, limits and retries.  *)
(***************************************************************************)
EXTENDS CFProcessor, DataLemmas

Channel == [ioc : Iocids \cup {NoIoc}, status : {"Absent", "Active", "Inactive"}]
Commit == [initial : BOOLEAN, connected : BOOLEAN, recs : SUBSET Names]
Sweep == [pc : {"off", "find", "update"}, tries : Nat, found : SUBSET Names]
Users == Sessions \cup {"stop"}

-----------------------------------------------------------------------------
(* The tables of the processor.                                            *)

\* Their types; no IOC is listed twice for a channel, and _ioc_channels is within
\* the lists.
Lists ==
  /\ iocs \in [Iocids -> Int]
  /\ channel_ioc_ids \in [Names -> Seq(Iocids)]
  /\ ioc_channels \in [Iocids -> SUBSET Names]
  /\ \A n \in Names : Distinct(channel_ioc_ids[n])
  /\ \A i \in Iocids : \A n \in ioc_channels[i] : i \in ToSet(channel_ioc_ids[n])

\* The aliases of a set of records are channel names.
LEMMA AliasNames == ASSUME NEW R \in SUBSET Names PROVE WithAliases(R) \subseteq Names
  BY AliasesAssumption DEF WithAliases

\* remove_channel takes i, and nobody else, from the lists of the channels in
\* D.
LEMMA UnlistedFacts ==
  ASSUME Lists, NEW D, NEW i \in Iocids, channel_ioc_ids' = Unlisted(D, i)
  PROVE  /\ channel_ioc_ids' \in [Names -> Seq(Iocids)]
         /\ \A n \in Names : Distinct(channel_ioc_ids'[n])
         /\ \A n \in Names : ToSet(channel_ioc_ids'[n]) =
              IF n \in D THEN ToSet(channel_ioc_ids[n]) \ {i} ELSE ToSet(channel_ioc_ids[n])
<1> DEFINE U == channel_ioc_ids'
<1>1. U = [n \in Names |-> IF n \in D THEN RemoveFirst(channel_ioc_ids[n], i) ELSE channel_ioc_ids[n]]
  BY DEF Unlisted
<1> HIDE DEF U
<1>2. ASSUME NEW n \in Names
      PROVE  /\ U[n] \in Seq(Iocids) /\ Distinct(U[n])
             /\ ToSet(U[n]) = IF n \in D THEN ToSet(channel_ioc_ids[n]) \ {i} ELSE ToSet(channel_ioc_ids[n])
  <2> DEFINE q == channel_ioc_ids[n]
  <2>1. q \in Seq(Iocids) /\ Distinct(q)
    BY DEF Lists
  <2>2. U[n] = IF n \in D THEN RemoveFirst(q, i) ELSE q
    BY <1>1
  <2> HIDE DEF q
  <2>3. ToSet(U[n]) = IF n \in D THEN ToSet(q) \ {i} ELSE ToSet(q)
    BY <2>1, <2>2, RemoveFirstProperties
  <2>4. U[n] \in Seq(Iocids) /\ Distinct(U[n])
    BY <2>1, <2>2, RemoveFirstProperties
  <2> QED BY <2>3, <2>4 DEF q
<1>3. U \in [Names -> Seq(Iocids)]
  BY <1>1, <1>2
<1> QED BY <1>2, <1>3 DEF U

\* Some names are taken from i, among them all that _ioc_channels loses.
LEMMA UnlistKeeps ==
  ASSUME Lists, NEW i \in Iocids, NEW D, channel_ioc_ids' = Unlisted(D, i),
         iocs' \in [Iocids -> Int], ioc_channels' = [ioc_channels EXCEPT ![i] = @ \ D]
  PROVE  Lists'
<1>1. /\ channel_ioc_ids' \in [Names -> Seq(Iocids)]
      /\ \A n \in Names : Distinct(channel_ioc_ids'[n])
      /\ \A n \in Names : ToSet(channel_ioc_ids'[n]) =
           IF n \in D THEN ToSet(channel_ioc_ids[n]) \ {i} ELSE ToSet(channel_ioc_ids[n])
  BY UnlistedFacts
<1>2. ioc_channels \in [Iocids -> SUBSET Names]
  BY DEF Lists
<1>3. ioc_channels' \in [Iocids -> SUBSET Names]
  BY <1>2
<1>4. ASSUME NEW j \in Iocids, NEW n \in ioc_channels'[j] PROVE j \in ToSet(channel_ioc_ids'[n])
  <2>1. n \in Names /\ n \in ioc_channels[j] /\ (j = i => n \notin D)
    BY <1>2, <1>3, <1>4
  <2>2. j \in ToSet(channel_ioc_ids[n])
    BY <2>1 DEF Lists
  <2> QED BY <1>1, <2>1, <2>2
<1> QED BY <1>1, <1>3, <1>4 DEF Lists

\* Some names that do not have i get it, and _ioc_channels gains names that have.
LEMMA ListKeeps ==
  ASSUME Lists, NEW i \in Iocids, NEW N \in SUBSET Names, NEW M \in SUBSET Names,
         \A n \in N : ~Listed(i, n), \A n \in M : n \in N \/ Listed(i, n),
         channel_ioc_ids' = [n \in Names |->
           IF n \in N THEN Append(channel_ioc_ids[n], i) ELSE channel_ioc_ids[n]],
         ioc_channels' = [ioc_channels EXCEPT ![i] = @ \cup M],
         iocs' \in [Iocids -> Int]
  PROVE  /\ Lists'
         /\ \A n \in Names : ToSet(channel_ioc_ids'[n]) =
              IF n \in N THEN ToSet(channel_ioc_ids[n]) \cup {i} ELSE ToSet(channel_ioc_ids[n])
<1>1. ASSUME NEW n \in Names
      PROVE  /\ channel_ioc_ids'[n] \in Seq(Iocids) /\ Distinct(channel_ioc_ids'[n])
             /\ ToSet(channel_ioc_ids'[n]) =
                  IF n \in N THEN ToSet(channel_ioc_ids[n]) \cup {i} ELSE ToSet(channel_ioc_ids[n])
  <2> DEFINE q == channel_ioc_ids[n]
             r == channel_ioc_ids'[n]
  <2>1. /\ q \in Seq(Iocids) /\ Distinct(q) /\ r = (IF n \in N THEN Append(q, i) ELSE q)
        /\ n \in N => i \notin ToSet(q)
    BY DEF Lists, Listed
  <2> HIDE DEF q, r
  <2>2. r \in Seq(Iocids) /\ Distinct(r) /\ ToSet(r) = IF n \in N THEN ToSet(q) \cup {i} ELSE ToSet(q)
    <3>1. CASE n \in N
      <4>1. r = Append(q, i) /\ i \notin ToSet(q)
        BY <2>1, <3>1
      <4>2. Append(q, i) \in Seq(Iocids) /\ Distinct(Append(q, i)) /\ ToSet(Append(q, i)) = ToSet(q) \cup {i}
        BY <2>1, <4>1, DistinctAppend
      <4> QED BY <3>1, <4>1, <4>2
    <3>2. CASE n \notin N
      BY <2>1, <3>2
    <3> QED BY <3>1, <3>2
  <2> QED BY <2>2 DEF q, r
<1>2. channel_ioc_ids' \in [Names -> Seq(Iocids)]
  BY <1>1
<1>3. ioc_channels \in [Iocids -> SUBSET Names] /\ ioc_channels' \in [Iocids -> SUBSET Names]
  BY DEF Lists
<1>4. ASSUME NEW j \in Iocids, NEW n \in ioc_channels'[j] PROVE j \in ToSet(channel_ioc_ids'[n])
  <2>1. n \in Names /\ (n \in ioc_channels[j] \/ (j = i /\ n \in M))
    BY <1>3, <1>4
  <2>2. CASE n \in ioc_channels[j]
    <3>1. j \in ToSet(channel_ioc_ids[n])
      BY <2>2 DEF Lists
    <3> QED BY <1>1, <2>1, <3>1
  <2>3. CASE j = i /\ n \in M
    BY <1>1, <2>1, <2>3 DEF Listed
  <2> QED BY <2>1, <2>2, <2>3
<1> QED BY <1>1, <1>2, <1>3, <1>4 DEF Lists

\* The disconnect of an IOC keeps the tables' shape.
LEMMA ForgetKeeps ==
  ASSUME Lists, NEW i \in Iocids, ForgetChannels(i)
  PROVE  Lists'
<1> DEFINE D == {n \in ioc_channels[i] : i \in ToSet(channel_ioc_ids[n])}
<1>1. /\ channel_ioc_ids' = Unlisted(D, i)
      /\ ioc_channels' = [ioc_channels EXCEPT ![i] = @ \ D]
      /\ iocs' = [iocs EXCEPT ![i] = Uncounted(i, Cardinality(D))]
  BY DEF ForgetChannels
<1>2. D \subseteq Names
  BY DEF Lists
<1> HIDE DEF D
<1>3. Cardinality(D) \in Nat
  BY <1>2, NamesAssumption, FS_Subset, FS_CardinalityType
<1>4. iocs' \in [Iocids -> Int]
  BY <1>1, <1>3 DEF Lists, Uncounted, Unknown
<1> QED BY <1>1, <1>4, UnlistKeeps

\* The bookkeeping of an upload keeps it.
LEMMA RegisterKeeps ==
  ASSUME Lists, NEW i \in Iocids, NEW R \in SUBSET Names, NEW initial,
         RegisterChannels(i, R, initial)
  PROVE  Lists'
<1> DEFINE N == {n \in WithAliases(R) : i \notin ToSet(channel_ioc_ids[n])}
           M == WithAliases(R)
<1>1. /\ channel_ioc_ids' = [n \in Names |->
           IF n \in N THEN Append(channel_ioc_ids[n], i) ELSE channel_ioc_ids[n]]
      /\ ioc_channels' = [ioc_channels EXCEPT ![i] = @ \cup M]
      /\ iocs' = [iocs EXCEPT ![i] = (IF initial THEN 0 ELSE @) + Cardinality(N)]
  BY DEF RegisterChannels
<1>2. /\ M \in SUBSET Names /\ N \in SUBSET Names
      /\ \A n \in N : ~Listed(i, n)
      /\ \A n \in M : n \in N \/ Listed(i, n)
  BY AliasNames DEF Listed
<1> HIDE DEF N, M
<1>3. Cardinality(N) \in Nat
  BY <1>2, NamesAssumption, FS_Subset, FS_CardinalityType
<1>4. iocs' \in [Iocids -> Int]
  BY <1>1, <1>3 DEF Lists
<1> QED BY <1>1, <1>2, <1>4, ListKeeps

\* So does one that raises KeyError, whatever it did before.
LEMMA RaisesKeeps ==
  ASSUME Lists, NEW i \in Iocids, NEW R \in SUBSET Names, RegisterRaises(i, R)
  PROVE  Lists'
<1>0. PICK n \in R : \E x \in WithAliases({n}) :
        /\ ~Listed(i, x)
        /\ channel_ioc_ids' = [channel_ioc_ids EXCEPT ![x] = Append(@, i)]
        /\ \E P \in SUBSET {m \in R : \A y \in WithAliases({m}) : Listed(i, y)},
              Q \in SUBSET {y \in WithAliases({n}) : Listed(i, y)} :
             ioc_channels' = [ioc_channels EXCEPT ![i] = @ \cup WithAliases(P) \cup Q]
        /\ UNCHANGED iocs
  BY DEF RegisterRaises
<1>1. PICK x \in WithAliases({n}) :
        /\ ~Listed(i, x)
        /\ channel_ioc_ids' = [channel_ioc_ids EXCEPT ![x] = Append(@, i)]
        /\ \E P \in SUBSET {m \in R : \A y \in WithAliases({m}) : Listed(i, y)},
              Q \in SUBSET {y \in WithAliases({n}) : Listed(i, y)} :
             ioc_channels' = [ioc_channels EXCEPT ![i] = @ \cup WithAliases(P) \cup Q]
        /\ UNCHANGED iocs
  BY <1>0
<1>2. PICK P \in SUBSET {m \in R : \A y \in WithAliases({m}) : Listed(i, y)},
           Q \in SUBSET {y \in WithAliases({n}) : Listed(i, y)} :
        ioc_channels' = [ioc_channels EXCEPT ![i] = @ \cup WithAliases(P) \cup Q]
  BY <1>1
<1> DEFINE N == {x}
           M == WithAliases(P) \cup Q
<1>3. x \in Names /\ P \in SUBSET Names
  <2>1. {n} \in SUBSET Names
    OBVIOUS
  <2> QED BY <1>1, <1>2, <2>1, AliasNames
<1>4. \A y \in WithAliases(P) : Listed(i, y)
  BY <1>2 DEF WithAliases
<1>5. /\ N \in SUBSET Names /\ M \in SUBSET Names
      /\ \A y \in N : ~Listed(i, y)
      /\ \A y \in M : y \in N \/ Listed(i, y)
  <2>1. WithAliases({n}) \subseteq Names
    BY AliasNames
  <2> QED BY <1>1, <1>2, <1>3, <1>4, <2>1, AliasNames
<1>6. ioc_channels' = [ioc_channels EXCEPT ![i] = @ \cup M]
  BY <1>2 DEF Lists
<1>7. channel_ioc_ids' = [y \in Names |->
        IF y \in N THEN Append(channel_ioc_ids[y], i) ELSE channel_ioc_ids[y]]
  BY <1>1, <1>3 DEF Lists
<1>8. iocs' \in [Iocids -> Int]
  BY <1>1 DEF Lists
<1> HIDE DEF N, M
<1> QED BY <1>5, <1>6, <1>7, <1>8, ListKeeps

\* So does _evict_ioc.
LEMMA EvictKeeps ==
  ASSUME Lists, NEW i \in Iocids, channel_ioc_ids' = Unlisted(ioc_channels[i], i),
         ioc_channels' = [ioc_channels EXCEPT ![i] = {}], iocs' = [iocs EXCEPT ![i] = Unknown]
  PROVE  Lists'
<1>1. ioc_channels' = [ioc_channels EXCEPT ![i] = @ \ ioc_channels[i]]
  OBVIOUS
<1>2. iocs' \in [Iocids -> Int]
  BY DEF Lists, Unknown
<1> QED BY <1>1, <1>2, UnlistKeeps

\* A process that starts has empty tables.
LEMMA AmnesiaKeeps == ASSUME Amnesia PROVE Lists'
<1>1. Distinct(<<>>) /\ <<>> \in Seq(Iocids)
  BY DEF Distinct
<1> QED BY <1>1 DEF Amnesia, Lists, Unknown

-----------------------------------------------------------------------------
(* The chains and the lock.                                                *)

\* A session waits for the lock or holds it, once, exactly while it has commits.
Queued ==
  /\ chain \in [Sessions -> Seq(Commit)]
  /\ \A s \in Sessions : \A k \in 1..Len(chain[s]) : chain[s][k].recs \subseteq Recs[s]
  /\ lock \in Seq(Users) /\ Distinct(lock)
  /\ \A s \in Sessions : s \in ToSet(lock) <=> chain[s] # <<>>

\* Chaining a commit keeps the queues in order.
LEMMA FlushKeeps ==
  ASSUME Queued, NEW s \in Sessions, NEW t \in Commit, t.recs \subseteq Recs[s], Flush(s, t)
  PROVE  /\ Queued' /\ ("stop" \in ToSet(lock') <=> "stop" \in ToSet(lock))
         /\ lock # <<>> => lock' # <<>> /\ Head(lock') = Head(lock)
<1>1. /\ chain' = [chain EXCEPT ![s] = Append(chain[s], t)]
      /\ lock' = IF chain[s] = <<>> THEN Append(lock, s) ELSE lock
  BY DEF Flush
<1>2. /\ chain \in [Sessions -> Seq(Commit)] /\ lock \in Seq(Users) /\ Distinct(lock)
      /\ s \in Users /\ s # "stop" /\ (s \in ToSet(lock) <=> chain[s] # <<>>)
  BY NoIocAssumption DEF Queued, Users
<1>3. chain' \in [Sessions -> Seq(Commit)]
  BY <1>1, <1>2
<1>4. ASSUME NEW u \in Sessions, NEW k \in 1..Len(chain'[u]) PROVE chain'[u][k].recs \subseteq Recs[u]
  <2>1. CASE u = s
    <3>1. chain'[s] = Append(chain[s], t) /\ chain[s] \in Seq(Commit) /\ Len(chain[s]) \in Nat
      BY <1>1, <1>2
    <3>2. chain'[s][k] = t \/ (k \in 1..Len(chain[s]) /\ chain'[s][k] = chain[s][k])
      BY <2>1, <3>1, <1>4
    <3> QED BY <2>1, <3>2 DEF Queued
  <2>2. CASE u # s
    BY <1>1, <1>2, <1>4, <2>2 DEF Queued
  <2> QED BY <2>1, <2>2
<1>5. /\ lock' \in Seq(Users) /\ Distinct(lock') /\ ToSet(lock') = ToSet(lock) \cup {s}
      /\ lock # <<>> => lock' # <<>> /\ Head(lock') = Head(lock)
  <2>1. CASE chain[s] = <<>>
    <3>1. lock' = Append(lock, s) /\ s \notin ToSet(lock)
      BY <1>1, <1>2, <2>1
    <3> QED BY <1>2, <3>1, DistinctAppend
  <2>2. CASE chain[s] # <<>>
    BY <1>1, <1>2, <2>2
  <2> QED BY <2>1, <2>2
<1>6. \A u \in Sessions : u \in ToSet(lock') <=> chain'[u] # <<>>
  <2>1. chain'[s] # <<>> /\ \A u \in Sessions : u # s => chain'[u] = chain[u]
    BY <1>1, <1>2
  <2> QED BY <1>5, <2>1 DEF Queued
<1>7. "stop" \in ToSet(lock') <=> "stop" \in ToSet(lock)
  BY <1>2, <1>5
<1>8. Queued'
  BY <1>3, <1>4, <1>5, <1>6 DEF Queued
<1> QED BY <1>5, <1>7, <1>8

\* Who holds the lock is a session with a commit to make.
LEMMA HolderFacts ==
  ASSUME Queued, lock # <<>>, Head(lock) # "stop"
  PROVE  /\ Holder \in Sessions /\ Holder = Head(lock) /\ iocid[Holder] \in Iocids
         /\ chain[Holder] \in Seq(Commit) /\ chain[Holder] # <<>>
         /\ Transaction \in Commit /\ Transaction.recs \subseteq Recs[Holder]
         /\ Transaction.recs \subseteq Names
<1>1. Head(lock) \in ToSet(lock) /\ lock \in Seq(Users)
  BY DistinctTail DEF Queued
<1>2. Holder \in Sessions /\ Holder = Head(lock)
  <2>1. Head(lock) \in Users
    BY <1>1
  <2> QED BY <2>1 DEF Holder, Users
<1>3. chain[Holder] \in Seq(Commit) /\ chain[Holder] # <<>>
  BY <1>1, <1>2 DEF Queued
<1>4. /\ Transaction = chain[Holder][1] /\ 1 \in 1..Len(chain[Holder])
      /\ Transaction \in Commit
  BY <1>3 DEF Transaction
<1>5. Transaction.recs \subseteq Recs[Holder]
  BY <1>2, <1>4 DEF Queued
<1>6. Transaction.recs \subseteq Names
  BY <1>4 DEF Commit
<1> QED BY <1>2, <1>3, <1>4, <1>5, <1>6 DEF Iocids

\* The end of a commit takes it from its chain and the session from the lock.
LEMMA FinishKeeps ==
  ASSUME Queued, lock # <<>>, Head(lock) # "stop", NEW end, Finish(end)
  PROVE  Queued' /\ ("stop" \in ToSet(lock') <=> "stop" \in ToSet(lock))
<1> DEFINE h == Head(lock)
           q == chain[h]
<1>1. Holder = h /\ h \in Sessions /\ q \in Seq(Commit) /\ q # <<>>
  BY HolderFacts
<1>2. /\ chain' = [chain EXCEPT ![h] = Tail(q)]
      /\ lock' = IF Tail(q) = <<>> THEN Tail(lock) ELSE Append(Tail(lock), h)
  BY <1>1 DEF Finish
<1>3. chain \in [Sessions -> Seq(Commit)] /\ lock \in Seq(Users) /\ Distinct(lock)
  BY DEF Queued
<1>4. /\ Tail(lock) \in Seq(Users) /\ Distinct(Tail(lock))
      /\ ToSet(Tail(lock)) = ToSet(lock) \ {h} /\ h \in ToSet(lock)
  BY <1>3, DistinctTail
<1>5. /\ Tail(q) \in Seq(Commit) /\ Len(q) \in Nat /\ Len(Tail(q)) = Len(q) - 1
      /\ \A k \in 1..Len(Tail(q)) : Tail(q)[k] = q[k + 1] /\ k + 1 \in 1..Len(q)
  BY <1>1
<1>6. \A k \in 1..Len(q) : q[k].recs \subseteq Recs[h]
  BY <1>1 DEF Queued
<1>7. /\ chain' \in [Sessions -> Seq(Commit)] /\ chain'[h] = Tail(q)
      /\ \A u \in Sessions : u # h => chain'[u] = chain[u]
  BY <1>1, <1>2, <1>3, <1>5
<1>8. h \in Users /\ h # "stop"
  BY <1>1, NoIocAssumption DEF Users
<1> HIDE DEF h, q
<1>9. \A u \in Sessions : \A k \in 1..Len(chain'[u]) : chain'[u][k].recs \subseteq Recs[u]
  <2> SUFFICES ASSUME NEW u \in Sessions, NEW k \in 1..Len(chain'[u])
               PROVE  chain'[u][k].recs \subseteq Recs[u]
    OBVIOUS
  <2>1. CASE u = h
    BY <1>5, <1>6, <1>7, <2>1
  <2>2. CASE u # h
    BY <1>7, <2>2 DEF Queued
  <2> QED BY <2>1, <2>2
<1>10. /\ lock' \in Seq(Users) /\ Distinct(lock')
       /\ ToSet(lock') = IF Tail(q) = <<>> THEN ToSet(lock) \ {h} ELSE ToSet(lock)
  <2>1. CASE Tail(q) = <<>>
    BY <1>2, <1>4, <2>1
  <2>2. CASE Tail(q) # <<>>
    <3> DEFINE r == Tail(lock)
    <3>1. lock' = Append(r, h) /\ r \in Seq(Users) /\ Distinct(r) /\ h \notin ToSet(r)
      BY <1>2, <1>4, <2>2
    <3> HIDE DEF r
    <3>2. lock' \in Seq(Users) /\ Distinct(lock') /\ ToSet(lock') = ToSet(r) \cup {h}
      BY <3>1, <1>8, DistinctAppend
    <3> QED BY <1>4, <2>2, <3>2 DEF r
  <2> QED BY <2>1, <2>2
<1>11. \A u \in Sessions : u \in ToSet(lock') <=> chain'[u] # <<>>
  BY <1>1, <1>4, <1>7, <1>10 DEF Queued
<1>12. Queued'
  BY <1>7, <1>9, <1>10, <1>11 DEF Queued
<1> QED BY <1>8, <1>10, <1>12

\* stopService has what it waited for.
LEMMA StopReleases ==
  ASSUME Queued, lock # <<>>, Head(lock) = "stop", lock' = Tail(lock), chain' = chain
  PROVE  Queued' /\ "stop" \notin ToSet(lock')
<1>1. /\ Tail(lock) \in Seq(Users) /\ Distinct(Tail(lock))
      /\ ToSet(Tail(lock)) = ToSet(lock) \ {"stop"}
  BY DistinctTail DEF Queued
<1>2. \A u \in Sessions : u # "stop"
  BY NoIocAssumption
<1> QED BY <1>1, <1>2 DEF Queued

-----------------------------------------------------------------------------
(* The inductive invariant.                                                *)

\* The other types.
Typed ==
  /\ cf \in [Names -> Channel]
  /\ up \in BOOLEAN /\ running \in BOOLEAN
  /\ sweep \in [Sweeps -> Sweep]
  /\ linked \subseteq Sessions /\ fresh \subseteq Sessions /\ used \subseteq Sessions
  /\ sent \in [Sessions -> SUBSET Names]
  /\ outcome \in [Sessions -> {"none", "ok", "cancelled", "error"}]
  /\ faults \in 0..MaxFaults

\* What the thread holds.
JobTyped ==
  /\ job = [pc |-> job.pc, tries |-> job.tries, towrite |-> job.towrite]
  /\ job.pc \in {"idle", "find", "write", "clean"}
  /\ DOMAIN job.towrite \subseteq Names
  /\ \A n \in DOMAIN job.towrite : job.towrite[n] \in Channel

\* stopService waits for the lock only after it cleared running; a thread exists
\* only for the head of the lock.
Held ==
  /\ "stop" \in ToSet(lock) => up /\ ~running
  /\ job.pc \in {"find", "write"} => lock # <<>> /\ Head(lock) # "stop"
  /\ job.pc = "clean" => lock # <<>> /\ Head(lock) = "stop"
  /\ sweep["stop"].pc # "off" => job.pc = "clean"

PInv == Lists /\ Queued /\ Typed /\ JobTyped /\ Held

\* The thread that does nothing.
LEMMA IdleTyped ==
  /\ Idle = [pc |-> "idle", tries |-> 0, towrite |-> <<>>] /\ DOMAIN <<>> = {}
  /\ Idle.pc = "idle" /\ Idle.towrite = <<>> /\ Idle.tries = 0
  BY DEF Idle

\* PInv holds at first.
LEMMA InitPInv == Init => PInv
<1> SUFFICES ASSUME Init PROVE PInv
  OBVIOUS
<1>1. Distinct(<<>>) /\ ToSet(<<>>) = {} /\ \A S : <<>> \in Seq(S)
  BY DEF Distinct, ToSet
<1>2. Lists
  BY <1>1 DEF Init, Lists, Unknown
<1>3. Queued
  BY <1>1 DEF Init, Queued
<1>4. Absent \in Channel
  BY DEF Absent, Channel
<1>5. NoSweep \in Sweep /\ NoSweep.pc = "off"
  BY DEF NoSweep, Sweep
<1>6. up \in BOOLEAN /\ running \in BOOLEAN
  BY Zenon DEF Init
<1>7. faults \in 0..MaxFaults
  BY BoundsAssumption DEF Init
<1>8. Typed
  BY <1>4, <1>5, <1>6, <1>7 DEF Init, Typed
<1>9. JobTyped /\ job.pc = "idle"
  BY IdleTyped DEF Init, JobTyped
<1>10. Held
  BY <1>1, <1>5, <1>9 DEF Init, Held, Sweeps
<1> QED BY <1>2, <1>3, <1>8, <1>9, <1>10 DEF PInv

\* The thread does nothing but the sessions or the service do.
LEMMA StartKeeps == ASSUME PInv, startService PROVE PInv'
<1>1. /\ up' = TRUE /\ running' = TRUE /\ ~up
      /\ sweep' = sweep \/ sweep' = [sweep EXCEPT !["start"].pc = "find"]
      /\ UNCHANGED <<cf, iocs, channel_ioc_ids, ioc_channels, lock, job, chain, linked, fresh, sent, used,
                     outcome, faults>>
  BY DEF startService, memory, sessions
<1>2. Lists' /\ Queued' /\ JobTyped'
  BY <1>1 DEF PInv, Lists, Queued, JobTyped
<1>3. up' \in BOOLEAN /\ running' \in BOOLEAN
  BY <1>1, Zenon
<1>4. sweep' \in [Sweeps -> Sweep] /\ sweep'["stop"] = sweep["stop"]
  BY <1>1 DEF PInv, Typed, Sweeps, Sweep
<1>5. Typed'
  BY <1>1, <1>3, <1>4 DEF PInv, Typed
<1>6. Held'
  BY <1>1, <1>4 DEF PInv, Held
<1> QED BY <1>2, <1>5, <1>6 DEF PInv

\* stopService queues for the lock once.
LEMMA StopKeeps == ASSUME PInv, stopService PROVE PInv'
<1>1. /\ up /\ running /\ running' = FALSE /\ lock' = Append(lock, "stop")
      /\ UNCHANGED <<cf, up, iocs, channel_ioc_ids, ioc_channels, job, sweep, chain, linked, fresh, sent,
                     used, outcome, faults>>
  BY DEF stopService, memory, sessions
<1>2. Lists' /\ JobTyped'
  BY <1>1 DEF PInv, Lists, JobTyped
<1>3. running' \in BOOLEAN /\ ~running'
  BY <1>1, Zenon
<1>4. Typed'
  BY <1>1, <1>3 DEF PInv, Typed
<1>5. lock \in Seq(Users) /\ Distinct(lock) /\ "stop" \in Users /\ "stop" \notin ToSet(lock)
  BY <1>1 DEF PInv, Queued, Held, Users
<1>6. /\ lock' \in Seq(Users) /\ Distinct(lock') /\ lock' # <<>>
      /\ ToSet(lock') = ToSet(lock) \cup {"stop"} /\ (lock # <<>> => Head(lock') = Head(lock))
  BY <1>1, <1>5, DistinctAppend
<1>7. \A u \in Sessions : u # "stop"
  BY NoIocAssumption
<1>8. Queued'
  BY <1>1, <1>6, <1>7 DEF PInv, Queued
<1>9. Held'
  BY <1>1, <1>3, <1>6 DEF PInv, Held
<1> QED BY <1>2, <1>4, <1>8, <1>9 DEF PInv

\* A kill, or the end of the process, forgets all but ChannelFinder.
LEMMA ExitKeeps == ASSUME PInv, Exit PROVE PInv'
<1>1. /\ up' = FALSE /\ running' = FALSE /\ Amnesia /\ lock' = <<>> /\ job' = Idle
      /\ sweep' = [sweep EXCEPT !["start"] = NoSweep, !["stop"] = NoSweep]
      /\ chain' = [s \in Sessions |-> <<>>] /\ linked' = {} /\ fresh' = {}
      /\ sent' = [s \in Sessions |-> {}] /\ outcome' = [s \in Sessions |-> "none"]
      /\ UNCHANGED <<cf, used, faults>>
  BY DEF Exit
<1>2. Lists'
  BY <1>1, AmnesiaKeeps
<1>3. Distinct(<<>>) /\ ToSet(<<>>) = {} /\ \A S : <<>> \in Seq(S)
  BY DEF Distinct, ToSet
<1>4. Queued'
  BY <1>1, <1>3 DEF Queued
<1>5. JobTyped' /\ job'.pc = "idle"
  BY <1>1, IdleTyped DEF JobTyped
<1>6. NoSweep \in Sweep /\ NoSweep.pc = "off"
  BY DEF NoSweep, Sweep
<1>7. sweep' \in [Sweeps -> Sweep] /\ sweep'["stop"] = NoSweep
  BY <1>1, <1>6 DEF PInv, Typed, Sweeps
<1>8. up' \in BOOLEAN /\ running' \in BOOLEAN
  BY <1>1, Zenon
<1>9. Typed'
  BY <1>1, <1>7, <1>8 DEF PInv, Typed
<1>10. Held'
  BY <1>1, <1>3, <1>5, <1>6, <1>7 DEF Held
<1> QED BY <1>2, <1>4, <1>5, <1>9, <1>10 DEF PInv

\* A session is opened.
LEMMA ConnectKeeps == ASSUME PInv, NEW s \in Sessions, Connect(s) PROVE PInv'
<1>1. /\ linked' = linked \cup {s} /\ fresh' = fresh \cup {s} /\ used' = used \cup {s}
      /\ UNCHANGED <<cf, up, running, iocs, channel_ioc_ids, ioc_channels, lock, job, sweep, chain, sent,
                     outcome, faults>>
  BY DEF Connect, memory
<1>2. Lists' /\ Queued' /\ JobTyped' /\ Held'
  BY <1>1 DEF PInv, Lists, Queued, JobTyped, Held
<1>3. Typed'
  BY <1>1 DEF PInv, Typed
<1> QED BY <1>2, <1>3 DEF PInv

\* A session chains a commit.
LEMMA ChainKeeps ==
  ASSUME PInv, NEW s \in Sessions, NEW t \in Commit, t.recs \subseteq Recs[s], Flush(s, t),
         linked' \subseteq linked, fresh' \subseteq fresh, sent' \in [Sessions -> SUBSET Names],
         UNCHANGED <<cf, up, running, memory, job, sweep, used, outcome, faults>>
  PROVE  PInv' /\ ("stop" \in ToSet(lock') <=> "stop" \in ToSet(lock))
<1>1. /\ Queued' /\ ("stop" \in ToSet(lock') <=> "stop" \in ToSet(lock))
      /\ lock # <<>> => lock' # <<>> /\ Head(lock') = Head(lock)
  BY FlushKeeps DEF PInv
<1>2. Lists' /\ JobTyped'
  BY DEF PInv, Lists, JobTyped, memory
<1>3. Typed'
  BY DEF PInv, Typed
<1>4. Held'
  BY <1>1 DEF PInv, Held
<1> QED BY <1>1, <1>2, <1>3, <1>4 DEF PInv

\* A session flushes.
LEMMA UploadKeeps ==
  ASSUME PInv, NEW s \in Sessions, NEW R \in SUBSET Recs[s], Upload(s, R)
  PROVE  PInv' /\ ("stop" \in ToSet(lock') <=> "stop" \in ToSet(lock))
<1> DEFINE t == [initial |-> s \in fresh, connected |-> TRUE, recs |-> R]
<1>1. R \subseteq Names
  BY RecsAssumption
<1>2. t \in Commit /\ t.recs = R
  BY <1>1 DEF Commit
<1>3. /\ Flush(s, t) /\ fresh' = fresh \ {s} /\ sent' = [sent EXCEPT ![s] = @ \cup R]
      /\ UNCHANGED <<cf, up, running, memory, job, sweep, linked, used, outcome, faults>>
  BY DEF Upload
<1>4. sent' \in [Sessions -> SUBSET Names]
  BY <1>1, <1>3 DEF PInv, Typed
<1> HIDE DEF t
<1> QED BY <1>2, <1>3, <1>4, ChainKeeps

\* A session is closed.
LEMMA DropKeeps ==
  ASSUME PInv, NEW s \in Sessions, Drop(s)
  PROVE  PInv' /\ ("stop" \in ToSet(lock') <=> "stop" \in ToSet(lock))
<1> DEFINE t == [initial |-> FALSE, connected |-> FALSE, recs |-> {}]
<1>1. t \in Commit /\ t.recs = {}
  BY DEF Commit
<1>2. /\ Flush(s, t) /\ linked' = linked \ {s} /\ fresh' = fresh \ {s}
      /\ sent' = [sent EXCEPT ![s] = {}]
      /\ UNCHANGED <<cf, up, running, memory, job, sweep, used, outcome, faults>>
  BY DEF Drop
<1>3. sent' \in [Sessions -> SUBSET Names]
  BY <1>2 DEF PInv, Typed
<1> HIDE DEF t
<1> QED BY <1>1, <1>2, <1>3, ChainKeeps

\* The thread ends and the lock passes on.
LEMMA EndKeeps ==
  ASSUME PInv, Committing, NEW end \in {"ok", "cancelled", "error"}, Finish(end), Lists',
         cf' \in [Names -> Channel], UNCHANGED <<up, running, sweep, faults>>
  PROVE  PInv' /\ job'.pc = "idle" /\ ("stop" \in ToSet(lock') <=> "stop" \in ToSet(lock))
<1>1. lock # <<>> /\ Head(lock) # "stop"
  BY DEF Committing, Holder
<1>2. Queued' /\ ("stop" \in ToSet(lock') <=> "stop" \in ToSet(lock))
  BY <1>1, FinishKeeps DEF PInv
<1>3. job' = Idle /\ outcome' = [outcome EXCEPT ![Holder] = end] /\ UNCHANGED <<linked, fresh, sent, used>>
  BY DEF Finish
<1>4. JobTyped' /\ job'.pc = "idle"
  BY <1>3, IdleTyped DEF JobTyped
<1>5. Typed'
  BY <1>3 DEF PInv, Typed
<1>6. sweep["stop"].pc = "off"
  BY <1>1 DEF PInv, Held
<1>7. Held'
  BY <1>2, <1>4, <1>6 DEF PInv, Held
<1> QED BY <1>2, <1>4, <1>5, <1>7 DEF PInv

\* The thread goes on.
LEMMA JobKeeps ==
  ASSUME PInv, Committing, Lists', JobTyped', job'.pc \in {"find", "write"},
         cf' \in [Names -> Channel], faults' \in 0..MaxFaults,
         UNCHANGED <<up, running, sweep, lock, sessions>>
  PROVE  PInv'
<1>1. lock # <<>> /\ Head(lock) # "stop" /\ UNCHANGED <<chain, linked, fresh, sent, used, outcome>>
  BY DEF Committing, Holder, sessions
<1>2. Queued' /\ Typed'
  BY <1>1 DEF PInv, Queued, Typed
<1>3. sweep["stop"].pc = "off"
  BY <1>1 DEF PInv, Held
<1>4. Held'
  BY <1>1, <1>3 DEF PInv, Held
<1> QED BY <1>2, <1>4 DEF PInv

\* A thread that talks to ChannelFinder works for the session that holds the
\* lock.
LEMMA CommittingFacts ==
  ASSUME PInv, Committing
  PROVE  /\ Holder \in Sessions /\ iocid[Holder] \in Iocids
         /\ Transaction \in Commit /\ Transaction.recs \subseteq Recs[Holder]
         /\ Transaction.recs \subseteq Names
  BY HolderFacts DEF PInv, Committing, Holder

\* The bookkeeping of a commit, up to its first request.
LEMMA BeginKeeps == ASSUME PInv, BeginCommit PROVE PInv'
<1> DEFINE i == iocid[Holder]
           R == Transaction.recs
<1>1. Committing /\ UNCHANGED <<cf, up, running, sweep, faults>>
  BY DEF BeginCommit
<1>2. i \in Iocids /\ R \in SUBSET Names
  BY <1>1, CommittingFacts
<1>3. cf' \in [Names -> Channel] /\ faults' \in 0..MaxFaults
  BY <1>1 DEF PInv, Typed
<1>4. CASE UNCHANGED memory /\ \E end \in {"ok", "cancelled"} : Finish(end)
  <2>1. Lists'
    BY <1>4 DEF PInv, Lists, memory
  <2> QED BY <1>1, <1>3, <1>4, <2>1, EndKeeps
<1>5. CASE /\ job' = [Idle EXCEPT !.pc = "find"] /\ UNCHANGED <<lock, sessions>>
           /\ ForgetChannels(i) \/ \E b : RegisterChannels(i, R, b)
  <2>1. Lists'
    BY <1>2, <1>5, ForgetKeeps, RegisterKeeps DEF PInv
  <2>2. job' = [pc |-> "find", tries |-> 0, towrite |-> <<>>] /\ DOMAIN <<>> = {}
    BY <1>5, IdleTyped
  <2>3. JobTyped' /\ job'.pc = "find"
    BY <2>2 DEF JobTyped
  <2> QED BY <1>1, <1>3, <1>5, <2>1, <2>3, JobKeeps
<1>6. CASE RegisterRaises(i, R) /\ Finish("error")
  <2>1. Lists'
    BY <1>2, <1>6, RaisesKeeps DEF PInv
  <2> QED BY <1>1, <1>3, <1>6, <2>1, EndKeeps
<1> HIDE DEF R, i
<1> QED BY <1>4, <1>5, <1>6 DEF BeginCommit, R, i

\* What the queries lead to is a set of channels to be written.
LEMMA ToWriteTyped ==
  ASSUME PInv, NEW i \in Iocids, NEW N \in SUBSET Names,
         NEW old \in find_by_ioc_id(i), NEW L \in OldOnly(old, N)
  PROVE  /\ DOMAIN ToWrite(i, old, N, L) \subseteq Names
         /\ \A n \in DOMAIN ToWrite(i, old, N, L) : ToWrite(i, old, N, L)[n] \in Channel
<1>1. old \subseteq Names /\ L \subseteq Names
  <2>1. old \subseteq Names
    BY DEF find_by_ioc_id, Pages
  <2> QED BY <2>1 DEF OldOnly
<1>2. WithAliases(N \ old) \subseteq Names
  BY AliasNames
<1> DEFINE D == L \cup N \cup WithAliases(N \ old)
<1>3. D \subseteq Names
  BY <1>1, <1>2
<1>4. Owned(i) \in Channel /\ OldAndNew \in Channel
  BY DEF Owned, OldAndNew, Channel
<1>5. ASSUME NEW n \in Names PROVE OldValue(n) \in Channel
  <2>1. cf[n] \in Channel /\ channel_ioc_ids[n] \in Seq(Iocids)
    BY DEF PInv, Typed, Lists
  <2>2. Orphan(n) \in Channel
    BY <2>1 DEF Orphan, Channel
  <2>3. channel_ioc_ids[n] # <<>> => Last(channel_ioc_ids[n]) \in Iocids
    BY <2>1 DEF Last
  <2>4. \A j \in Iocids : Owned(j) \in Channel
    BY DEF Owned, Channel
  <2> QED BY <2>2, <2>3, <2>4 DEF OldValue
<1>6. ToWrite(i, old, N, L) = [n \in D |-> IF n \in WithAliases(N \ old) THEN Owned(i)
                                           ELSE IF n \in N THEN OldAndNew ELSE OldValue(n)]
  BY DEF ToWrite
<1> HIDE DEF D
<1> QED BY <1>3, <1>4, <1>5, <1>6

\* The queries are answered.
LEMMA FindKeeps == ASSUME PInv, Find PROVE PInv'
<1> DEFINE i == iocid[Holder]
           N == Transaction.recs
<1>1. Committing /\ UNCHANGED <<cf, up, running, memory, sweep, faults>>
  BY DEF Find
<1>2. i \in Iocids /\ N \in SUBSET Names
  BY <1>1, CommittingFacts
<1>3. cf' \in [Names -> Channel] /\ faults' \in 0..MaxFaults /\ Lists'
  BY <1>1 DEF PInv, Typed, Lists, memory
<1>4. CASE \E end \in {"ok", "error"} : Finish(end)
  BY <1>1, <1>3, <1>4, EndKeeps
<1>5. ASSUME NEW old \in find_by_ioc_id(i), NEW L \in OldOnly(old, N), UNCHANGED <<lock, sessions>>,
             job' = [job EXCEPT !.pc = "write", !.towrite = ToWrite(i, old, N, L)]
      PROVE  PInv'
  <2> DEFINE W == ToWrite(i, old, N, L)
  <2>1. DOMAIN W \subseteq Names /\ \A n \in DOMAIN W : W[n] \in Channel
    BY <1>2, ToWriteTyped
  <2> HIDE DEF W
  <2>2. job' = [job EXCEPT !.pc = "write", !.towrite = W]
    BY <1>5 DEF W
  <2>3. job' = [pc |-> "write", tries |-> job.tries, towrite |-> W]
    BY <2>2 DEF PInv, JobTyped
  <2>4. JobTyped' /\ job'.pc = "write"
    BY <2>1, <2>3 DEF JobTyped
  <2> QED BY <1>1, <1>3, <1>5, <2>4, JobKeeps
<1> HIDE DEF i, N
<1> QED BY <1>4, <1>5 DEF Find, i, N

\* A query fails.
LEMMA FindFailsKeeps == ASSUME PInv, FindFails PROVE PInv'
<1>1. /\ Committing /\ job.pc = "find" /\ faults > 0 /\ faults' = faults - 1
      /\ job' = [job EXCEPT !.tries = @ + 1]
      /\ UNCHANGED <<cf, up, running, memory, lock, sweep, sessions>>
  BY DEF FindFails
<1>2. faults \in 0..MaxFaults /\ MaxFaults \in Nat
  BY BoundsAssumption DEF PInv, Typed
<1>3. faults' \in 0..MaxFaults
  BY <1>1, <1>2
<1>4. cf' \in [Names -> Channel] /\ Lists'
  BY <1>1 DEF PInv, Typed, Lists, memory
<1>5. job' = [pc |-> "find", tries |-> job.tries + 1, towrite |-> job.towrite]
  BY <1>1 DEF PInv, JobTyped
<1>6. JobTyped' /\ job'.pc = "find"
  BY <1>5 DEF PInv, JobTyped
<1> QED BY <1>1, <1>3, <1>4, <1>6, JobKeeps

\* A chunk is taken over by ChannelFinder.
LEMMA WrittenTyped ==
  ASSUME PInv, NEW C \in SUBSET (DOMAIN job.towrite)
  PROVE  Written(C) \in [Names -> Channel]
  BY DEF PInv, Typed, JobTyped, Written

\* A chunk is written.
LEMMA WriteKeeps == ASSUME PInv, Write PROVE PInv'
<1>1. job.pc = "write" /\ UNCHANGED <<up, running, memory, sweep, faults>>
  BY DEF Write
<1>2. Committing
  BY <1>1 DEF PInv, Held, Committing, Holder
<1>3. faults' \in 0..MaxFaults /\ Lists'
  BY <1>1 DEF PInv, Typed, Lists, memory
<1>4. PICK C \in Pages(DOMAIN job.towrite) :
        /\ cf' = Written(C)
        /\ \/ Finish("ok")
           \/ /\ job' = [job EXCEPT !.towrite = [n \in DOMAIN job.towrite \ C |-> job.towrite[n]]]
              /\ UNCHANGED <<lock, sessions>>
  BY DEF Write
<1>5. C \in SUBSET (DOMAIN job.towrite)
  BY DEF Pages
<1>6. cf' \in [Names -> Channel]
  BY <1>4, <1>5, WrittenTyped
<1>7. CASE Finish("ok")
  BY <1>1, <1>2, <1>3, <1>6, <1>7, EndKeeps
<1>8. CASE /\ job' = [job EXCEPT !.towrite = [n \in DOMAIN job.towrite \ C |-> job.towrite[n]]]
           /\ UNCHANGED <<lock, sessions>>
  <2> DEFINE W == [n \in DOMAIN job.towrite \ C |-> job.towrite[n]]
  <2>1. DOMAIN W \subseteq Names /\ \A n \in DOMAIN W : W[n] \in Channel
    BY DEF PInv, JobTyped
  <2> HIDE DEF W
  <2>2. job' = [job EXCEPT !.towrite = W]
    BY <1>8 DEF W
  <2>3. job' = [pc |-> "write", tries |-> job.tries, towrite |-> W]
    BY <1>1, <2>2 DEF PInv, JobTyped
  <2>4. JobTyped' /\ job'.pc = "write"
    BY <2>1, <2>3 DEF JobTyped
  <2> QED BY <1>1, <1>2, <1>3, <1>6, <1>8, <2>4, JobKeeps
<1> QED BY <1>4, <1>7, <1>8

\* A write fails, with effect or without.
LEMMA WriteFailsKeeps == ASSUME PInv, WriteFails PROVE PInv'
<1>1. /\ job.pc = "write" /\ faults > 0 /\ faults' = faults - 1
      /\ job' = [job EXCEPT !.pc = "find", !.tries = @ + 1, !.towrite = <<>>]
      /\ cf' = cf \/ \E C \in Pages(DOMAIN job.towrite) : cf' = Written(C)
      /\ UNCHANGED <<up, running, memory, lock, sweep, sessions>>
  BY DEF WriteFails
<1>2. Committing
  BY <1>1 DEF PInv, Held, Committing, Holder
<1>3. faults \in 0..MaxFaults /\ MaxFaults \in Nat
  BY BoundsAssumption DEF PInv, Typed
<1>4. faults' \in 0..MaxFaults
  BY <1>1, <1>3
<1>5. cf' \in [Names -> Channel]
  <2>1. \A C \in Pages(DOMAIN job.towrite) : C \in SUBSET (DOMAIN job.towrite)
    BY DEF Pages
  <2> QED BY <1>1, <2>1, WrittenTyped DEF PInv, Typed
<1>6. Lists'
  BY <1>1 DEF PInv, Lists, memory
<1>7. job' = [pc |-> "find", tries |-> job.tries + 1, towrite |-> <<>>]
  BY <1>1 DEF PInv, JobTyped
<1>8. JobTyped' /\ job'.pc = "find"
  BY <1>7 DEF JobTyped
<1> QED BY <1>1, <1>2, <1>4, <1>5, <1>6, <1>8, JobKeeps

\* The retries are used up and the IOC is evicted.
LEMMA GiveUpKeeps == ASSUME PInv, GiveUp PROVE PInv'
<1> DEFINE i == iocid[Holder]
<1>1. Committing /\ UNCHANGED <<cf, up, running, sweep, faults>> /\ Finish("cancelled")
  BY DEF GiveUp
<1>2. i \in Iocids
  BY <1>1, CommittingFacts
<1>3. \/ UNCHANGED memory
      \/ /\ channel_ioc_ids' = Unlisted(ioc_channels[i], i)
         /\ ioc_channels' = [ioc_channels EXCEPT ![i] = {}]
         /\ iocs' = [iocs EXCEPT ![i] = Unknown]
  BY DEF GiveUp
<1> HIDE DEF i
<1>4. Lists'
  <2>1. UNCHANGED memory => Lists'
    BY DEF PInv, Lists, memory
  <2> QED BY <1>2, <1>3, <2>1, EvictKeeps DEF PInv
<1>5. cf' \in [Names -> Channel]
  BY <1>1 DEF PInv, Typed
<1> QED BY <1>1, <1>4, <1>5, EndKeeps

\* No sweep is one that is off.
LEMMA NoSweepTyped == NoSweep \in Sweep /\ NoSweep.pc = "off" /\ NoSweep.tries = 0 /\ NoSweep.found = {}
  BY DEF NoSweep, Sweep

\* A sweep goes on: nothing of it matters but that stopService's runs in its thread.
LEMMA SweepKeeps ==
  ASSUME PInv, NEW k \in Sweeps, NEW w \in Sweep, sweep[k].pc # "off" \/ k # "stop",
         sweep' = [sweep EXCEPT ![k] = w],
         cf' \in [Names -> Channel], faults' \in 0..MaxFaults,
         UNCHANGED <<up, running, memory, lock, job, sessions>>
  PROVE  PInv'
<1>1. sweep \in [Sweeps -> Sweep]
  BY DEF PInv, Typed
<1>2. /\ sweep' \in [Sweeps -> Sweep]
      /\ sweep'["stop"].pc # "off" => sweep["stop"].pc # "off" \/ job.pc = "clean"
  BY <1>1 DEF PInv, Held, Sweeps
<1>3. UNCHANGED <<iocs, channel_ioc_ids, ioc_channels, chain, linked, fresh, sent, used, outcome>>
  BY DEF memory, sessions
<1>4. Lists' /\ Queued' /\ JobTyped'
  BY <1>3 DEF PInv, Lists, Queued, JobTyped
<1>5. Typed'
  BY <1>2, <1>3 DEF PInv, Typed
<1>6. Held'
  BY <1>2 DEF PInv, Held
<1> QED BY <1>4, <1>5, <1>6 DEF PInv

\* A sweep ends or is abandoned.
LEMMA EndSweepKeeps ==
  ASSUME PInv, NEW k \in Sweeps, sweep[k].pc # "off", EndSweep(k), faults' \in 0..MaxFaults,
         UNCHANGED <<cf, up, running, memory, sessions>>
  PROVE  PInv' /\ (k = "stop" => "stop" \notin ToSet(lock') /\ job'.pc = "idle")
<1>1. sweep' = [sweep EXCEPT ![k] = NoSweep] /\ cf' \in [Names -> Channel]
  BY DEF EndSweep, PInv, Typed
<1>2. CASE k # "stop"
  BY <1>1, <1>2, NoSweepTyped, SweepKeeps DEF EndSweep
<1>3. CASE k = "stop"
  <2>1. lock' = Tail(lock) /\ job' = Idle /\ lock # <<>> /\ Head(lock) = "stop"
    BY <1>3 DEF EndSweep, PInv, Held
  <2>2. UNCHANGED <<iocs, channel_ioc_ids, ioc_channels, chain, linked, fresh, sent, used, outcome>>
    BY DEF memory, sessions
  <2>3. Queued' /\ "stop" \notin ToSet(lock')
    BY <2>1, <2>2, StopReleases DEF PInv
  <2>4. JobTyped' /\ job'.pc = "idle"
    BY <2>1, IdleTyped DEF JobTyped
  <2>5. sweep' \in [Sweeps -> Sweep] /\ sweep'["stop"].pc = "off"
    BY <1>1, <1>3, NoSweepTyped DEF PInv, Typed
  <2>6. Typed'
    BY <1>1, <2>2, <2>5 DEF PInv, Typed
  <2>7. Held'
    BY <2>3, <2>4, <2>5 DEF Held
  <2>8. Lists'
    BY <2>2 DEF PInv, Lists
  <2> QED BY <2>3, <2>4, <2>6, <2>7, <2>8 DEF PInv
<1> QED BY <1>2, <1>3

\* The sweep of stopService begins when it is given the lock.
LEMMA BeginStopKeeps == ASSUME PInv, BeginStop PROVE PInv'
<1>1. /\ lock # <<>> /\ Head(lock) = "stop" /\ job.pc = "idle"
      /\ UNCHANGED <<cf, up, running, iocs, channel_ioc_ids, ioc_channels, chain, linked, fresh, sent, used,
                     outcome, faults>>
  BY DEF BeginStop, Holder, memory, sessions
<1>2. Lists'
  BY <1>1 DEF PInv, Lists
<1>3. CASE cleanOnStop
  <2> DEFINE w == [NoSweep EXCEPT !.pc = "find"]
  <2>1. sweep' = [sweep EXCEPT !["stop"] = w] /\ job' = [Idle EXCEPT !.pc = "clean"] /\ lock' = lock
    BY <1>3 DEF BeginStop
  <2>2. w \in Sweep
    BY DEF NoSweep, Sweep
  <2> HIDE DEF w
  <2>3. sweep' \in [Sweeps -> Sweep]
    BY <2>1, <2>2 DEF PInv, Typed
  <2>4. job' = [pc |-> "clean", tries |-> 0, towrite |-> <<>>] /\ DOMAIN <<>> = {}
    BY <2>1, IdleTyped
  <2>5. JobTyped' /\ job'.pc = "clean"
    BY <2>4 DEF JobTyped
  <2>6. Queued' /\ Typed' /\ Held'
    BY <1>1, <2>1, <2>3, <2>5 DEF PInv, Queued, Typed, Held
  <2> QED BY <1>2, <2>5, <2>6 DEF PInv
<1>4. CASE ~cleanOnStop
  <2>1. lock' = Tail(lock) /\ UNCHANGED <<job, sweep>>
    BY <1>4 DEF BeginStop
  <2>2. Queued' /\ "stop" \notin ToSet(lock')
    BY <1>1, <2>1, StopReleases DEF PInv
  <2>3. Typed' /\ JobTyped' /\ Held'
    BY <1>1, <2>1, <2>2 DEF PInv, Typed, JobTyped, Held
  <2> QED BY <1>2, <2>2, <2>3 DEF PInv
<1> QED BY <1>3, <1>4

\* A request of a sweep, answered or failed.
LEMMA SweepStepKeeps == ASSUME PInv, NEW k \in Sweeps, SweepStep(k) PROVE PInv'
<1>1. /\ sweep \in [Sweeps -> Sweep] /\ sweep[k] \in Sweep /\ cf \in [Names -> Channel]
      /\ faults \in 0..MaxFaults /\ MaxFaults \in Nat
  BY BoundsAssumption DEF PInv, Typed
<1>2. CASE SweepFind(k)
  <2>1. /\ sweep[k].pc = "find" /\ UNCHANGED <<cf, up, running, memory, sessions, faults>>
        /\ \E F \in find_active_for_recceiver :
             \/ EndSweep(k)
             \/ /\ sweep' = [sweep EXCEPT ![k].pc = "update", ![k].found = F]
                /\ UNCHANGED <<lock, job>>
    BY <1>2 DEF SweepFind
  <2>2. CASE EndSweep(k)
    BY <1>1, <2>1, <2>2, EndSweepKeeps
  <2>3. ASSUME NEW F \in find_active_for_recceiver, UNCHANGED <<lock, job>>,
               sweep' = [sweep EXCEPT ![k].pc = "update", ![k].found = F]
        PROVE  PInv'
    <3> DEFINE w == [sweep[k] EXCEPT !.pc = "update", !.found = F]
    <3>1. F \subseteq Names
      BY DEF find_active_for_recceiver, Pages
    <3>2. w \in Sweep
      BY <1>1, <3>1 DEF Sweep
    <3>3. sweep' = [sweep EXCEPT ![k] = w]
      BY <1>1, <2>3
    <3> HIDE DEF w
    <3> QED BY <1>1, <2>1, <2>3, <3>2, <3>3, SweepKeeps
  <2> QED BY <2>1, <2>2, <2>3
<1>3. CASE SweepUpdate(k)
  <2> DEFINE w == [sweep[k] EXCEPT !.pc = "find", !.found = {}]
  <2>1. /\ sweep[k].pc = "update"
        /\ cf' = [n \in Names |-> IF n \in sweep[k].found
                                     THEN [cf[n] EXCEPT !.status = "Inactive"] ELSE cf[n]]
        /\ sweep' = [sweep EXCEPT ![k].pc = "find", ![k].found = {}]
        /\ UNCHANGED <<up, running, memory, lock, job, sessions, faults>>
    BY <1>3 DEF SweepUpdate
  <2>2. w \in Sweep
    BY <1>1 DEF Sweep
  <2>3. sweep' = [sweep EXCEPT ![k] = w]
    BY <1>1, <2>1
  <2>4. cf' \in [Names -> Channel]
    BY <1>1, <2>1 DEF Channel
  <2> HIDE DEF w
  <2> QED BY <1>1, <2>1, <2>2, <2>3, <2>4, SweepKeeps
<1>4. CASE SweepFails(k)
  <2> DEFINE w == [pc |-> "find", found |-> {}, tries |-> sweep[k].tries + 1]
  <2>1. /\ sweep[k].pc # "off" /\ faults > 0 /\ faults' = faults - 1
        /\ UNCHANGED <<cf, up, running, memory, sessions>>
        /\ EndSweep(k) \/ (sweep' = [sweep EXCEPT ![k] = w] /\ UNCHANGED <<lock, job>>)
    BY <1>4 DEF SweepFails
  <2>2. w \in Sweep
    BY <1>1 DEF Sweep
  <2>3. faults' \in 0..MaxFaults
    BY <1>1, <2>1
  <2> HIDE DEF w
  <2> QED BY <1>1, <2>1, <2>2, <2>3, EndSweepKeeps, SweepKeeps
<1> QED BY <1>2, <1>3, <1>4 DEF SweepStep

\* recceiver-clean is started.
LEMMA BeginToolKeeps == ASSUME PInv, BeginTool PROVE PInv'
<1> DEFINE w == [sweep["tool"] EXCEPT !.pc = "find"]
<1>1. /\ sweep' = [sweep EXCEPT !["tool"].pc = "find"]
      /\ UNCHANGED <<cf, up, running, memory, lock, job, sessions, faults>>
  BY DEF BeginTool
<1>2. sweep \in [Sweeps -> Sweep] /\ "tool" \in Sweeps
  BY DEF PInv, Typed, Sweeps
<1>3. w \in Sweep
  BY <1>2 DEF Sweep
<1>4. sweep' = [sweep EXCEPT !["tool"] = w]
  BY <1>1, <1>2
<1>5. cf' \in [Names -> Channel] /\ faults' \in 0..MaxFaults
  BY <1>1 DEF PInv, Typed
<1> HIDE DEF w
<1> QED BY <1>1, <1>2, <1>3, <1>4, <1>5, SweepKeeps

\* Every step keeps PInv.
LEMMA StepPInv == PInv /\ [Next]_vars => PInv'
<1> SUFFICES ASSUME PInv, [Next]_vars PROVE PInv'
  OBVIOUS
<1>1. CASE UNCHANGED vars
  BY <1>1 DEF vars, memory, sessions, PInv, Lists, Queued, Typed, JobTyped, Held
<1>2. CASE Next
  BY <1>2, StartKeeps, StopKeeps, ExitKeeps, ConnectKeeps, UploadKeeps, DropKeeps, BeginKeeps, FindKeeps,
     FindFailsKeeps, WriteKeeps, WriteFailsKeeps, GiveUpKeeps, BeginStopKeeps, BeginToolKeeps,
     SweepStepKeeps DEF Next, CommitStep
<1> QED BY <1>1, <1>2

\* Every reachable state satisfies the inductive invariant.
THEOREM Invariance == Spec => []PInv
  BY InitPInv, StepPInv, PTL DEF Spec

\* The state of the processor and of ChannelFinder has its types.
THEOREM TypeCorrect == Spec => []TypeOK
<1>1. PInv => TypeOK
  <2> SUFFICES ASSUME PInv PROVE TypeOK
    OBVIOUS
  <2>1. \A s \in Sessions : \A t \in ToSet(chain[s]) : t.recs \subseteq Recs[s]
    BY DEF PInv, Queued, ToSet
  <2>2. {up, running} \subseteq BOOLEAN
    BY DEF PInv, Typed
  <2>3. DOMAIN sweep = Sweeps /\ \A k \in DOMAIN sweep : sweep[k].pc \in {"off", "find", "update"}
    BY DEF PInv, Typed, Sweep
  <2>4. lock \in Seq(Sessions \cup {"stop"})
    BY DEF PInv, Queued, Users
  <2> QED BY <2>1, <2>2, <2>3, <2>4 DEF PInv, Lists, Typed, JobTyped, TypeOK, Channel
<1> QED BY <1>1, Invariance, PTL

\* remove_channel finds what it removes: for any IOCs, names and aliases, in the
\* face of any failure, retry, eviction and restart, no IOC is listed twice for a
\* channel and _ioc_channels names only channels that list the IOC.
THEOREM RemoveFindsTheIoc == Spec => []ListedOnce
<1>1. PInv => ListedOnce
  BY DistinctCardinality DEF PInv, Lists, ListedOnce
<1> QED BY <1>1, Invariance, PTL

-----------------------------------------------------------------------------
(* The lock is never stuck.                                                *)

\* stopService has the lock as long as it sweeps, and no longer.
Sweeping == job.pc = "clean" => sweep["stop"].pc # "off"

\* Who waits is in the queue, and its head is at work or may begin.
Served ==
  /\ \A s \in Sessions : chain[s] # <<>> => s \in ToSet(lock)
  /\ lock # <<>> /\ Head(lock) # "stop" => chain[Head(lock)] # <<>> /\ job.pc # "clean"
  /\ lock # <<>> /\ Head(lock) = "stop" => job.pc = "idle" \/ sweep["stop"].pc # "off"
  /\ lock = <<>> => job.pc = "idle" /\ sweep["stop"].pc = "off"

\* No step takes the sweep away from stopService.
LEMMA StepSweeping ==
  ASSUME PInv, Sweeping, [Next]_vars
  PROVE  Sweeping'
<1> SUFFICES ASSUME job'.pc = "clean"
             PROVE  sweep'["stop"].pc # "off"
  BY DEF Sweeping
<1>1. /\ sweep \in [Sweeps -> Sweep] /\ "stop" \in Sweeps /\ "start" \in Sweeps /\ "tool" \in Sweeps
      /\ NoSweep.pc = "off" /\ Idle.pc = "idle"
      /\ job = [pc |-> job.pc, tries |-> job.tries, towrite |-> job.towrite]
      /\ job.pc = "clean" => sweep["stop"].pc # "off"
  BY IdleTyped DEF PInv, Typed, JobTyped, Sweeps, NoSweep, Sweeping
<1>2. CASE UNCHANGED <<job, sweep>>
  BY <1>1, <1>2
<1>3. CASE startService
  BY <1>1, <1>3 DEF startService
<1>4. CASE Exit
  BY <1>1, <1>4 DEF Exit
<1>5. CASE BeginStop
  <2>1. CASE cleanOnStop
    <3>1. sweep' = [sweep EXCEPT !["stop"] = [NoSweep EXCEPT !.pc = "find"]]
      BY <1>5, <2>1 DEF BeginStop
    <3>2. [NoSweep EXCEPT !.pc = "find"].pc = "find"
      BY DEF NoSweep
    <3> QED BY <1>1, <3>1, <3>2
  <2>2. CASE ~cleanOnStop
    BY <1>1, <1>5, <2>2 DEF BeginStop
  <2> QED BY <2>1, <2>2
<1>6. CASE BeginTool
  BY <1>1, <1>6 DEF BeginTool
<1>7. CASE CommitStep
  <2>1. job'.pc \in {"idle", "find", "write"}
    <3>1. CASE BeginCommit
      BY <1>1, <3>1 DEF BeginCommit, Finish, Idle
    <3>2. CASE Find
      BY <1>1, <3>2 DEF Find, Finish
    <3>3. CASE FindFails
      BY <1>1, <3>3 DEF FindFails
    <3>4. CASE Write
      BY <1>1, <3>4 DEF Write, Finish
    <3>5. CASE WriteFails
      BY <1>1, <3>5 DEF WriteFails
    <3>6. CASE GiveUp
      BY <1>1, <3>6 DEF GiveUp, Finish
    <3> QED BY <1>7, <3>1, <3>2, <3>3, <3>4, <3>5, <3>6 DEF CommitStep
  <2> QED BY <2>1
<1>8. CASE \E k \in Sweeps : SweepStep(k)
  <2>1. PICK k \in Sweeps : SweepStep(k)
    BY <1>8
  <2>2. /\ k # "stop" => sweep'["stop"] = sweep["stop"] /\ job' = job
        /\ k = "stop" => job' = Idle \/ (job' = job /\ sweep'["stop"].pc # "off")
    <3>1. CASE SweepFind(k)
      BY <1>1, <2>1, <3>1 DEF SweepFind, EndSweep, Sweep
    <3>2. CASE SweepUpdate(k)
      BY <1>1, <2>1, <3>2 DEF SweepUpdate, Sweep
    <3>3. CASE SweepFails(k)
      BY <1>1, <2>1, <3>3 DEF SweepFails, EndSweep
    <3> QED BY <2>1, <3>1, <3>2, <3>3 DEF SweepStep
  <2> QED BY <1>1, <2>2
<1>9. CASE \/ stopService \/ UNCHANGED vars
           \/ \E s \in Sessions : Connect(s) \/ Drop(s) \/ \E R \in SUBSET Recs[s] : Upload(s, R)
  BY <1>2, <1>9 DEF stopService, Connect, Drop, Upload, vars
<1> QED BY <1>3, <1>4, <1>5, <1>6, <1>7, <1>8, <1>9 DEF Next

\* Whatever fails, is killed or restarted, no commit is left behind and the lock
\* is never held by nobody: a session with commits is in the queue of the lock, a
\* free lock has no thread, and the head of the queue is a session with a commit
\* to run or stopService, which sweeps or is about to.
THEOREM TheLockMovesOn == Spec => []Served
<1>1. Init => Sweeping
  BY IdleTyped DEF Init, Sweeping
<1>2. PInv /\ Sweeping /\ [Next]_vars => Sweeping'
  BY StepSweeping
<1>3. PInv /\ Sweeping => Served
  <2> SUFFICES ASSUME PInv, Sweeping PROVE Served
    OBVIOUS
  <2>1. /\ lock \in Seq(Users) /\ \A s \in Sessions : s \in ToSet(lock) <=> chain[s] # <<>>
    BY DEF PInv, Queued
  <2>2. lock # <<>> => Head(lock) \in Users /\ Head(lock) \in ToSet(lock)
    BY <2>1 DEF ToSet
  <2>3. lock # <<>> /\ Head(lock) # "stop" => Head(lock) \in Sessions
    BY <2>2 DEF Users
  <2> QED BY <2>1, <2>2, <2>3 DEF PInv, JobTyped, Held, Sweeping, Served
<1> QED BY <1>1, <1>2, <1>3, Invariance, PTL DEF Spec

-----------------------------------------------------------------------------
(* After stopService.                                                      *)

NoneActive == \A n \in Names : cf[n].ioc # NoIoc => cf[n].status # "Active"

\* The sweep of stopService has failures left before it is abandoned; when it is
\* through no thread exists.
Stopped ==
  /\ sweep["stop"].tries + faults <= MaxFaults
  /\ up /\ ~running /\ "stop" \notin ToSet(lock) => job.pc = "idle" /\ NoneActive

SInv == PInv /\ Stopped

\* Nothing is stopped at first.
LEMMA InitStopped == Init => Stopped
<1> SUFFICES ASSUME Init PROVE Stopped
  OBVIOUS
<1>1. sweep["stop"].tries = 0 /\ faults = MaxFaults /\ MaxFaults \in Nat
  BY BoundsAssumption, NoSweepTyped DEF Init, Sweeps
<1> QED BY <1>1 DEF Init, Stopped

\* No page is empty unless nothing matches.
LEMMA EmptyPage ==
  ASSUME NEW T \in SUBSET Names, {} \in Pages(T)
  PROVE  T = {}
<1>1. IsFiniteSet(T) /\ Cardinality(T) \in Nat
  BY NamesAssumption, FS_Subset, FS_CardinalityType
<1>2. queryLimit \in Nat \ {0}
  BY BoundsAssumption
<1>3. Cardinality({}) = 0
  BY FS_EmptySet
<1>4. 0 = IF Cardinality(T) < queryLimit THEN Cardinality(T) ELSE queryLimit
  BY <1>3 DEF Pages
<1>5. Cardinality(T) = 0
  BY <1>1, <1>2, <1>4
<1> QED BY <1>1, <1>5, FS_EmptySet

\* The steps of a commit need a thread or find the processor stopped.
LEMMA CommitStepStopped ==
  ASSUME SInv, CommitStep
  PROVE  /\ UNCHANGED <<up, running, sweep>>
         /\ ("stop" \in ToSet(lock') <=> "stop" \in ToSet(lock))
         /\ job.pc # "idle" \/ running \/ (job'.pc = "idle" /\ cf' = cf)
<1>1. UNCHANGED <<up, running, sweep>>
  BY DEF CommitStep, BeginCommit, Find, FindFails, Write, WriteFails, GiveUp
<1>2. Committing
  BY DEF CommitStep, BeginCommit, Find, FindFails, Write, WriteFails, GiveUp,
         SInv, PInv, Held, Committing, Holder
<1>3. lock' = lock \/ \E end : Finish(end)
  BY DEF CommitStep, BeginCommit, Find, FindFails, Write, WriteFails, GiveUp
<1>4. "stop" \in ToSet(lock') <=> "stop" \in ToSet(lock)
  BY <1>2, <1>3, FinishKeeps DEF SInv, PInv, Committing, Holder
<1>5. job.pc # "idle" \/ running \/ (job' = Idle /\ cf' = cf)
  BY DEF CommitStep, BeginCommit, Find, FindFails, Write, WriteFails, GiveUp, Finish
<1> QED BY <1>1, <1>4, <1>5, IdleTyped

\* A failure of the sweep at stop uses up one of MaxFaults.
LEMMA StepFaults ==
  ASSUME SInv, [Next]_vars
  PROVE  sweep'["stop"].tries + faults' <= MaxFaults
<1>1. /\ sweep \in [Sweeps -> Sweep] /\ "stop" \in Sweeps /\ sweep["stop"].tries \in Nat
      /\ faults \in 0..MaxFaults /\ MaxFaults \in Nat
      /\ sweep["stop"].tries + faults <= MaxFaults
  BY BoundsAssumption DEF SInv, PInv, Typed, Stopped, Sweep, Sweeps
<1>2. CASE sweep'["stop"].tries \in {0, sweep["stop"].tries} /\ faults' \in {faults, faults - 1}
  BY <1>1, <1>2
<1>3. CASE sweep' = sweep /\ faults' \in {faults, faults - 1}
  BY <1>2, <1>3
<1>4. CASE startService \/ BeginTool
  <2>1. faults' = faults /\ sweep'["stop"] = sweep["stop"]
    BY <1>1, <1>4 DEF startService, BeginTool, Sweeps
  <2> QED BY <1>2, <2>1
<1>5. CASE Exit
  <2>1. faults' = faults /\ sweep'["stop"] = NoSweep
    BY <1>1, <1>5 DEF Exit, Sweeps
  <2> QED BY <1>2, <2>1, NoSweepTyped
<1>6. CASE BeginStop
  <2>1. faults' = faults /\ (sweep'["stop"].tries = 0 \/ sweep' = sweep)
    BY <1>1, <1>6, NoSweepTyped DEF BeginStop, NoSweep
  <2> QED BY <1>2, <2>1
<1>7. ASSUME NEW k \in Sweeps, SweepStep(k) PROVE sweep'["stop"].tries + faults' <= MaxFaults
  <2>1. CASE k # "stop"
    <3>1. sweep'["stop"] = sweep["stop"] /\ faults' \in {faults, faults - 1}
      BY <1>1, <1>7, <2>1 DEF SweepStep, SweepFind, SweepUpdate, SweepFails, EndSweep
    <3> QED BY <1>2, <3>1
  <2>2. CASE k = "stop" /\ EndSweep("stop")
    <3>1. sweep'["stop"] = NoSweep /\ faults' \in {faults, faults - 1}
      BY <1>1, <1>7, <2>2 DEF SweepStep, SweepFind, SweepUpdate, SweepFails, EndSweep
    <3> QED BY <1>2, <3>1, NoSweepTyped
  <2>3. CASE k = "stop" /\ ~EndSweep("stop") /\ (SweepFind(k) \/ SweepUpdate(k))
    <3>1. faults' = faults
      BY <2>3 DEF SweepFind, SweepUpdate
    <3>2. sweep'["stop"].tries = sweep["stop"].tries
      <4>1. \E p, f : sweep' = [sweep EXCEPT !["stop"].pc = p, !["stop"].found = f]
        BY <2>3 DEF SweepFind, SweepUpdate
      <4> QED BY <1>1, <4>1 DEF Sweep
    <3> QED BY <1>2, <3>1, <3>2
  <2>4. CASE k = "stop" /\ ~EndSweep("stop") /\ SweepFails(k)
    <3>1. sweep'["stop"].tries = sweep["stop"].tries + 1 /\ faults' = faults - 1
      BY <1>1, <2>4 DEF SweepFails
    <3> QED BY <1>1, <3>1
  <2> QED BY <1>7, <2>1, <2>2, <2>3, <2>4 DEF SweepStep
<1>8. ASSUME CommitStep PROVE sweep'["stop"].tries + faults' <= MaxFaults
  <2>1. sweep' = sweep /\ faults' \in {faults, faults - 1}
    BY <1>8 DEF CommitStep, BeginCommit, Find, FindFails, Write, WriteFails, GiveUp
  <2> QED BY <1>3, <2>1
<1>9. CASE \/ stopService \/ UNCHANGED vars
           \/ \E s \in Sessions : Connect(s) \/ Drop(s) \/ \E R \in SUBSET Recs[s] : Upload(s, R)
  <2>1. sweep' = sweep /\ faults' = faults
    BY <1>9 DEF stopService, Connect, Drop, Upload, vars
  <2> QED BY <1>3, <2>1
<1> QED BY <1>4, <1>5, <1>6, <1>7, <1>8, <1>9 DEF Next

\* Every step keeps Stopped: no step but those of a running processor makes a
\* channel Active.
LEMMA StepStopped ==
  ASSUME cleanOnStop, MaxFaults < sweepRetries, SInv, [Next]_vars
  PROVE  Stopped'
<1>1. sweep'["stop"].tries + faults' <= MaxFaults
  BY StepFaults
<1> SUFFICES ASSUME up', ~running', "stop" \notin ToSet(lock')
             PROVE  job'.pc = "idle" /\ NoneActive'
  BY <1>1 DEF Stopped
<1>2. up /\ ~running /\ "stop" \notin ToSet(lock) => job.pc = "idle" /\ NoneActive
  BY DEF SInv, Stopped
<1>3. CASE UNCHANGED <<up, running, lock, job, cf>>
  BY <1>2, <1>3 DEF NoneActive
<1>4. CASE startService \/ Exit
  <2>1. running' = TRUE \/ up' = FALSE
    BY <1>4 DEF startService, Exit
  <2> QED BY <2>1, Zenon
<1>5. CASE stopService
  <2>1. lock \in Seq(Users) /\ "stop" \in Users /\ lock' = Append(lock, "stop")
    BY <1>5 DEF SInv, PInv, Queued, Users, stopService
  <2> QED BY <2>1, AppendToSet
<1>6. CASE BeginStop
  <2>1. lock' = lock /\ lock # <<>> /\ Head(lock) = "stop"
    BY <1>6 DEF BeginStop, Holder
  <2>2. "stop" \in ToSet(lock)
    BY <2>1, DistinctTail DEF SInv, PInv, Queued
  <2> QED BY <2>1, <2>2
<1>7. ASSUME NEW s \in Sessions, Drop(s) \/ \E R \in SUBSET Recs[s] : Upload(s, R)
      PROVE  job'.pc = "idle" /\ NoneActive'
  <2>1. UNCHANGED <<up, running, job, cf>>
    BY <1>7 DEF Drop, Upload
  <2>2. "stop" \in ToSet(lock') <=> "stop" \in ToSet(lock)
    BY <1>7, DropKeeps, UploadKeeps DEF SInv
  <2> QED BY <1>2, <2>1, <2>2 DEF NoneActive
<1>8. CASE CommitStep
  <2>1. /\ UNCHANGED <<up, running, sweep>>
        /\ ("stop" \in ToSet(lock') <=> "stop" \in ToSet(lock))
        /\ job.pc # "idle" \/ running \/ (job'.pc = "idle" /\ cf' = cf)
    BY <1>8, CommitStepStopped
  <2>2. up /\ ~running /\ "stop" \notin ToSet(lock)
    BY <2>1
  <2>3. job.pc = "idle" /\ NoneActive
    BY <1>2, <2>2
  <2> QED BY <2>1, <2>2, <2>3 DEF NoneActive
<1>9. ASSUME NEW k \in Sweeps, SweepStep(k) PROVE job'.pc = "idle" /\ NoneActive'
  <2>0. UNCHANGED <<up, running>> /\ sweep[k].pc # "off"
    BY <1>9 DEF SweepStep, SweepFind, SweepUpdate, SweepFails
  <2>1. CASE SweepUpdate(k)
    <3>1. /\ UNCHANGED <<lock, job>>
          /\ cf' = [n \in Names |-> IF n \in sweep[k].found
                                     THEN [cf[n] EXCEPT !.status = "Inactive"] ELSE cf[n]]
          /\ cf \in [Names -> Channel]
      BY <2>1 DEF SweepUpdate, SInv, PInv, Typed
    <3>2. NoneActive => NoneActive'
      BY <3>1 DEF NoneActive, Channel
    <3> QED BY <1>2, <2>0, <3>1, <3>2
  <2>2. CASE ~SweepUpdate(k) /\ UNCHANGED <<lock, job>>
    <3>1. cf' = cf
      BY <1>9, <2>2 DEF SweepStep, SweepFind, SweepFails
    <3> QED BY <1>3, <2>0, <2>2, <3>1
  <2>3. CASE k = "stop" /\ SweepFind(k) /\ EndSweep(k)
    <3>1. CASE {} \in find_active_for_recceiver
      <4> DEFINE T == {n \in Names : cf[n].status = "Active" /\ cf[n].ioc # NoIoc}
      <4>1. T \in SUBSET Names /\ {} \in Pages(T)
        BY <3>1 DEF find_active_for_recceiver
      <4>2. T = {}
        <5> HIDE DEF T
        <5> QED BY <4>1, EmptyPage
      <4>3. NoneActive /\ cf' = cf /\ job' = Idle
        BY <2>3, <4>2 DEF NoneActive, SweepFind, EndSweep
      <4> QED BY <4>3, IdleTyped DEF NoneActive
    <3>2. CASE {} \notin find_active_for_recceiver
      <4>1. UNCHANGED <<lock, job>> /\ cf' = cf
        BY <2>3, <3>2 DEF SweepFind
      <4> QED BY <1>3, <2>0, <4>1
    <3> QED BY <3>1, <3>2
  <2>4. CASE k = "stop" /\ SweepFails(k)
    <3>1. /\ sweep["stop"].tries \in Nat /\ faults \in Nat /\ faults > 0 /\ MaxFaults \in Nat
          /\ sweep["stop"].tries + faults <= MaxFaults /\ sweepRetries \in Nat
      BY <2>4, BoundsAssumption DEF SInv, PInv, Typed, Sweep, Sweeps, Stopped, SweepFails
    <3>2. ~(sweep[k].tries + 1 >= sweepRetries)
      BY <2>4, <3>1
    <3>3. UNCHANGED <<lock, job>> /\ cf' = cf
      BY <2>4, <3>2 DEF SweepFails
    <3> QED BY <1>3, <2>0, <3>3
  <2>5. k # "stop" => SweepUpdate(k) \/ UNCHANGED <<lock, job>>
    BY <1>9 DEF SweepStep, SweepFind, SweepFails, EndSweep
  <2>6. SweepFind(k) => EndSweep(k) \/ UNCHANGED <<lock, job>>
    BY DEF SweepFind
  <2> QED BY <1>9, <2>1, <2>2, <2>3, <2>4, <2>5, <2>6 DEF SweepStep
<1>10. CASE BeginTool \/ UNCHANGED vars \/ \E s \in Sessions : Connect(s)
  BY <1>3, <1>10 DEF BeginTool, vars, Connect
<1> QED BY <1>4, <1>5, <1>6, <1>7, <1>8, <1>9, <1>10 DEF Next

\* When stopService is through nothing of this RecCeiver is Active or becomes so,
\* for any number of sessions and channels, page size and point at which the
\* process is killed, as long as ChannelFinder fails less often than the sweep
\* is willing to start over.
THEOREM NothingIsActiveAfterStop ==
  ASSUME cleanOnStop, MaxFaults < sweepRetries
  PROVE  Spec => []StopLeavesNoneActive
<1>1. Init => SInv
  BY InitPInv, InitStopped DEF SInv
<1>2. SInv /\ [Next]_vars => SInv'
  BY StepPInv, StepStopped DEF SInv
<1>3. SInv => StopLeavesNoneActive
  BY DEF SInv, Stopped, NoneActive, StopLeavesNoneActive
<1> QED BY <1>1, <1>2, <1>3, PTL DEF Spec

-----------------------------------------------------------------------------
(* The tables agree.                                                       *)

\* The first commit of a chain alone is initial, the last alone a disconnect.
Ordered ==
  /\ linked \subseteq used /\ fresh \subseteq linked
  /\ \A s \in Sessions :
       /\ chain[s] # <<>> => s \in used \ fresh
       /\ \A k \in 1..Len(chain[s]) :
            /\ chain[s][k].initial => k = 1 /\ chain[s][k].connected
            /\ ~chain[s][k].connected => k = Len(chain[s]) /\ s \notin linked

\* The thread has begun the first commit of s.
Begun(s) == job.pc # "idle" /\ lock # <<>> /\ Head(lock) = s
\* The initial commit of s is still to come.
ToCome(s) ==
  s \notin used \/ s \in fresh \/ (chain[s] # <<>> /\ chain[s][1].initial /\ ~Begun(s))
\* There are uploads of s, or may be.
Uploading(s) == s \in linked \/ \E k \in 1..Len(chain[s]) : chain[s][k].connected

\* An IOC is in iocs from its initial commit on, for as long as it uploads.
Known ==
  /\ running => up /\ \A s \in Sessions :
       /\ ToCome(s) => iocs[iocid[s]] = Unknown
       /\ Uploading(s) /\ ~ToCome(s) => iocs[iocid[s]] # Unknown
  /\ ~up => /\ linked = {}
            /\ \A s \in Sessions : chain[s] = <<>> /\ iocs[iocid[s]] = Unknown

\* The conjunct of Bookkeeping that is not in Lists.
Agree ==
  \A i \in Iocids :
    /\ ioc_channels[i] = {n \in Names : i \in ToSet(channel_ioc_ids[n])}
    /\ iocs[i] = Unknown => ioc_channels[i] = {}
    /\ iocs[i] # Unknown => iocs[i] = Cardinality(ioc_channels[i])

\* What ChannelFinder has failed the thread with.
Tried == job.tries \in Nat /\ job.tries + faults <= MaxFaults

BInv == PInv /\ Ordered /\ Known /\ Agree /\ Tried

\* One entry of each table is replaced, and the lists follow.
LEMMA AgreeKeeps ==
  ASSUME Lists, Agree, NEW i \in Iocids, NEW c, NEW S,
         iocs' = [iocs EXCEPT ![i] = c], ioc_channels' = [ioc_channels EXCEPT ![i] = S],
         \A n \in Names : ToSet(channel_ioc_ids'[n]) \ {i} = ToSet(channel_ioc_ids[n]) \ {i},
         S = {n \in Names : i \in ToSet(channel_ioc_ids'[n])},
         c = Unknown => S = {}, c # Unknown => c = Cardinality(S)
  PROVE  Agree'
<1> SUFFICES ASSUME NEW j \in Iocids
             PROVE  /\ ioc_channels'[j] = {n \in Names : j \in ToSet(channel_ioc_ids'[n])}
                    /\ iocs'[j] = Unknown => ioc_channels'[j] = {}
                    /\ iocs'[j] # Unknown => iocs'[j] = Cardinality(ioc_channels'[j])
  BY DEF Agree, Unknown
<1>1. iocs \in [Iocids -> Int] /\ ioc_channels \in [Iocids -> SUBSET Names]
  BY DEF Lists
<1>2. CASE j = i
  <2>1. iocs'[i] = c /\ ioc_channels'[i] = S
    BY <1>1
  <2> QED BY <1>2, <2>1
<1>3. CASE j # i
  <2>1. iocs'[j] = iocs[j] /\ ioc_channels'[j] = ioc_channels[j]
    BY <1>1, <1>3
  <2>2. \A n \in Names : j \in ToSet(channel_ioc_ids'[n]) <=> j \in ToSet(channel_ioc_ids[n])
    BY <1>3
  <2>3. {n \in Names : j \in ToSet(channel_ioc_ids'[n])} = {n \in Names : j \in ToSet(channel_ioc_ids[n])}
    BY <2>2
  <2> QED BY <2>1, <2>3 DEF Agree
<1> QED BY <1>2, <1>3

\* A table that agrees is a finite set with its cardinality.
LEMMA CountFacts ==
  ASSUME Lists, Agree, NEW i \in Iocids
  PROVE  /\ ioc_channels[i] \in SUBSET Names /\ IsFiniteSet(ioc_channels[i])
         /\ \A n \in Names : n \in ioc_channels[i] <=> i \in ToSet(channel_ioc_ids[n])
         /\ iocs[i] # Unknown => iocs[i] \in Nat
<1>1. ioc_channels[i] \in SUBSET Names
  BY DEF Lists
<1>2. IsFiniteSet(ioc_channels[i]) /\ Cardinality(ioc_channels[i]) \in Nat
  BY <1>1, NamesAssumption, FS_Subset, FS_CardinalityType
<1> QED BY <1>1, <1>2 DEF Agree

\* The disconnect of a known IOC leaves tables that agree.
LEMMA ForgetAgrees ==
  ASSUME Lists, Agree, NEW i \in Iocids, iocs[i] # Unknown, ForgetChannels(i)
  PROVE  Agree' /\ \A j \in Iocids : j # i => iocs'[j] = iocs[j]
<1> DEFINE D == {n \in ioc_channels[i] : i \in ToSet(channel_ioc_ids[n])}
<1>1. /\ channel_ioc_ids' = Unlisted(D, i) /\ ioc_channels' = [ioc_channels EXCEPT ![i] = @ \ D]
      /\ iocs' = [iocs EXCEPT ![i] = Uncounted(i, Cardinality(D))]
  BY DEF ForgetChannels
<1>2. D = ioc_channels[i] /\ iocs[i] = Cardinality(D) /\ iocs[i] \in Nat
  BY CountFacts DEF Agree
<1> HIDE DEF D
<1>3. \A n \in Names : ToSet(channel_ioc_ids'[n]) =
        IF n \in D THEN ToSet(channel_ioc_ids[n]) \ {i} ELSE ToSet(channel_ioc_ids[n])
  BY <1>1, UnlistedFacts
<1>4. ioc_channels' = [ioc_channels EXCEPT ![i] = {}]
  BY <1>1, <1>2
<1>5. {} = {n \in Names : i \in ToSet(channel_ioc_ids'[n])}
  BY <1>1, <1>2, <1>3, CountFacts
<1>6. \A n \in Names : ToSet(channel_ioc_ids'[n]) \ {i} = ToSet(channel_ioc_ids[n]) \ {i}
  BY <1>1, <1>3
<1>7. Uncounted(i, Cardinality(D)) # Unknown => Uncounted(i, Cardinality(D)) = Cardinality({})
  <2>1. Cardinality({}) = 0
    BY FS_EmptySet
  <2> QED BY <1>2, <2>1 DEF Uncounted
<1>8. Agree'
  BY <1>1, <1>4, <1>5, <1>6, <1>7, AgreeKeeps
<1> QED BY <1>1, <1>8 DEF Lists

\* The initial commit finds the IOC unknown, any other one finds it known.
LEMMA RegisterAgrees ==
  ASSUME Lists, Agree, NEW i \in Iocids, NEW R \in SUBSET Names, NEW initial,
         initial => iocs[i] = Unknown, ~initial => iocs[i] # Unknown,
         RegisterChannels(i, R, initial)
  PROVE  Agree' /\ iocs'[i] # Unknown /\ \A j \in Iocids : j # i => iocs'[j] = iocs[j]
<1> DEFINE N == {n \in WithAliases(R) : i \notin ToSet(channel_ioc_ids[n])}
           M == WithAliases(R)
           S == ioc_channels[i] \cup M
           c == (IF initial THEN 0 ELSE iocs[i]) + Cardinality(N)
<1>1. /\ channel_ioc_ids' = [n \in Names |->
           IF n \in N THEN Append(channel_ioc_ids[n], i) ELSE channel_ioc_ids[n]]
      /\ ioc_channels' = [ioc_channels EXCEPT ![i] = @ \cup M]
      /\ iocs' = [iocs EXCEPT ![i] = c]
  BY DEF RegisterChannels
<1>2. /\ M \in SUBSET Names /\ N \in SUBSET Names
      /\ \A n \in N : ~Listed(i, n)
      /\ \A n \in M : n \in N \/ Listed(i, n)
  BY AliasNames DEF Listed
<1>3. N = M \ ioc_channels[i] /\ N \cap ioc_channels[i] = {} /\ S = ioc_channels[i] \cup N
  BY <1>2, CountFacts
<1>4. (IF initial THEN 0 ELSE iocs[i]) = Cardinality(ioc_channels[i])
  <2>1. Cardinality({}) = 0
    BY FS_EmptySet
  <2> QED BY <2>1 DEF Agree
<1>5. ioc_channels' = [ioc_channels EXCEPT ![i] = S]
  BY <1>1
<1> HIDE DEF N, M
<1>6. c = Cardinality(S) /\ c \in Nat
  <2>1. IsFiniteSet(N) /\ IsFiniteSet(ioc_channels[i])
    BY <1>2, NamesAssumption, FS_Subset, CountFacts
  <2>2. /\ Cardinality(ioc_channels[i] \cup N) =
             Cardinality(ioc_channels[i]) + Cardinality(N) - Cardinality(ioc_channels[i] \cap N)
        /\ Cardinality(N) \in Nat /\ Cardinality(ioc_channels[i]) \in Nat
    BY <2>1, FS_Union, FS_CardinalityType
  <2>3. Cardinality(ioc_channels[i] \cap N) = 0
    <3>1. ioc_channels[i] \cap N = {}
      BY <1>3
    <3> QED BY <3>1, FS_EmptySet
  <2>4. c = Cardinality(ioc_channels[i]) + Cardinality(N)
    BY <1>4
  <2> HIDE DEF S, c
  <2>5. Cardinality(S) = Cardinality(ioc_channels[i]) + Cardinality(N)
    BY <1>3, <2>2, <2>3
  <2> QED BY <2>2, <2>4, <2>5
<1> HIDE DEF S, c
<1>7. iocs' \in [Iocids -> Int] /\ iocs'[i] = c /\ \A j \in Iocids : j # i => iocs'[j] = iocs[j]
  BY <1>1, <1>6 DEF Lists
<1>8. \A n \in Names : ToSet(channel_ioc_ids'[n]) =
        IF n \in N THEN ToSet(channel_ioc_ids[n]) \cup {i} ELSE ToSet(channel_ioc_ids[n])
  BY <1>1, <1>2, <1>7, ListKeeps
<1>9. S = {n \in Names : i \in ToSet(channel_ioc_ids'[n])}
  BY <1>2, <1>3, <1>8, CountFacts
<1>10. \A n \in Names : ToSet(channel_ioc_ids'[n]) \ {i} = ToSet(channel_ioc_ids[n]) \ {i}
  BY <1>8
<1>11. c # Unknown
  BY <1>6 DEF Unknown
<1>12. Agree'
  BY <1>1, <1>5, <1>6, <1>9, <1>10, <1>11, AgreeKeeps
<1> QED BY <1>7, <1>11, <1>12 DEF Unknown

\* So does _evict_ioc.
LEMMA EvictAgrees ==
  ASSUME Lists, Agree, NEW i \in Iocids, channel_ioc_ids' = Unlisted(ioc_channels[i], i),
         ioc_channels' = [ioc_channels EXCEPT ![i] = {}], iocs' = [iocs EXCEPT ![i] = Unknown]
  PROVE  Agree'
<1>1. \A n \in Names : ToSet(channel_ioc_ids'[n]) =
        IF n \in ioc_channels[i] THEN ToSet(channel_ioc_ids[n]) \ {i} ELSE ToSet(channel_ioc_ids[n])
  BY UnlistedFacts
<1>2. \A n \in Names : n \in ioc_channels[i] <=> i \in ToSet(channel_ioc_ids[n])
  BY CountFacts
<1>3. \A n \in Names : ToSet(channel_ioc_ids'[n]) = ToSet(channel_ioc_ids[n]) \ {i}
  BY <1>1, <1>2
<1>4. {} = {n \in Names : i \in ToSet(channel_ioc_ids'[n])}
  BY <1>3
<1>5. \A n \in Names : ToSet(channel_ioc_ids'[n]) \ {i} = ToSet(channel_ioc_ids[n]) \ {i}
  BY <1>3
<1> QED BY <1>4, <1>5, AgreeKeeps

\* Empty tables agree, and know nobody.
LEMMA AmnesiaAgrees == ASSUME Amnesia PROVE Agree' /\ \A i \in Iocids : iocs'[i] = Unknown
<1>1. ToSet(<<>>) = {}
  BY DEF ToSet
<1> QED BY <1>1 DEF Amnesia, Agree, Unknown

\* What the sessions have chained stays in order.
LEMMA FinishOrders ==
  ASSUME Queued, Ordered, lock # <<>>, Head(lock) # "stop", NEW end, Finish(end)
  PROVE  /\ Ordered' /\ job' = Idle /\ Holder = Head(lock) /\ Holder \in Sessions
         /\ chain[Holder] \in Seq(Commit) /\ chain[Holder] # <<>>
         /\ \A u \in Sessions : u # Holder => chain'[u] = chain[u]
         /\ Len(chain'[Holder]) = Len(chain[Holder]) - 1
         /\ \A k \in 1..Len(chain'[Holder]) :
              /\ chain'[Holder][k] = chain[Holder][k + 1] /\ k + 1 \in 1..Len(chain[Holder])
              /\ ~chain'[Holder][k].initial
         /\ UNCHANGED <<linked, fresh, used>>
<1> DEFINE h == Holder
           q == chain[h]
<1>1. h = Head(lock) /\ h \in Sessions /\ q \in Seq(Commit) /\ q # <<>> /\ chain \in [Sessions -> Seq(Commit)]
  BY HolderFacts DEF Queued
<1>2. job' = Idle /\ chain' = [chain EXCEPT ![h] = Tail(q)] /\ UNCHANGED <<linked, fresh, used>>
  BY DEF Finish
<1>3. /\ Len(q) \in Nat /\ Len(Tail(q)) = Len(q) - 1
      /\ \A k \in 1..Len(Tail(q)) : Tail(q)[k] = q[k + 1] /\ k + 1 \in 1..Len(q)
  BY <1>1
<1>4. chain'[h] = Tail(q) /\ \A u \in Sessions : u # h => chain'[u] = chain[u]
  BY <1>1, <1>2
<1>5. /\ h \in used \ fresh
      /\ \A k \in 1..Len(q) : /\ q[k].initial => k = 1 /\ q[k].connected
                              /\ ~q[k].connected => k = Len(q) /\ h \notin linked
  BY <1>1 DEF Ordered
<1> HIDE DEF h, q
<1>6. \A k \in 1..Len(chain'[h]) :
        /\ chain'[h][k] = q[k + 1] /\ k + 1 \in 1..Len(q) /\ ~chain'[h][k].initial
        /\ ~chain'[h][k].connected => k = Len(chain'[h]) /\ h \notin linked
  <2> SUFFICES ASSUME NEW k \in 1..Len(chain'[h])
               PROVE  /\ chain'[h][k] = q[k + 1] /\ k + 1 \in 1..Len(q) /\ ~chain'[h][k].initial
                      /\ ~chain'[h][k].connected => k = Len(chain'[h]) /\ h \notin linked
    OBVIOUS
  <2>1. /\ k \in Nat \ {0} /\ chain'[h][k] = q[k + 1] /\ k + 1 \in 1..Len(q)
        /\ Len(chain'[h]) = Len(q) - 1
    BY <1>3, <1>4
  <2>2. q[k + 1].initial => k + 1 = 1
    BY <1>5, <2>1
  <2>3. ~q[k + 1].connected => k + 1 = Len(q) /\ h \notin linked
    BY <1>5, <2>1
  <2> QED BY <1>3, <2>1, <2>2, <2>3
<1>7. Ordered'
  <2> SUFFICES ASSUME NEW u \in Sessions
               PROVE  /\ chain'[u] # <<>> => u \in used' \ fresh'
                      /\ \A k \in 1..Len(chain'[u]) :
                           /\ chain'[u][k].initial => k = 1 /\ chain'[u][k].connected
                           /\ ~chain'[u][k].connected => k = Len(chain'[u]) /\ u \notin linked'
    BY <1>2 DEF Ordered
  <2>1. CASE u = h
    BY <1>2, <1>5, <1>6, <2>1
  <2>2. CASE u # h
    BY <1>2, <1>4, <2>2 DEF Ordered
  <2> QED BY <2>1, <2>2
<1>8. Len(chain'[h]) = Len(q) - 1
  BY <1>3, <1>4
<1> QED BY <1>1, <1>2, <1>4, <1>6, <1>7, <1>8 DEF h, q

\* A session that flushes keeps its chain in order.
LEMMA FlushOrders ==
  ASSUME Queued, Ordered, NEW s \in linked, s \in Sessions, NEW t \in Commit, Flush(s, t),
         t.initial => t.connected /\ s \in fresh,
         linked' = (IF t.connected THEN linked ELSE linked \ {s}), fresh' = fresh \ {s}, used' = used
  PROVE  /\ Ordered' /\ chain[s] \in Seq(Commit)
         /\ s \in fresh => chain[s] = <<>>
         /\ \A u \in Sessions : u # s => chain'[u] = chain[u]
         /\ chain'[s] = Append(chain[s], t)
<1>1. chain' = [chain EXCEPT ![s] = Append(chain[s], t)]
  BY DEF Flush
<1>2. chain \in [Sessions -> Seq(Commit)] /\ chain[s] \in Seq(Commit) /\ Len(chain[s]) \in Nat
  BY DEF Queued
<1>3. chain'[s] = Append(chain[s], t) /\ \A u \in Sessions : u # s => chain'[u] = chain[u]
  BY <1>1, <1>2
<1>4. /\ s \in used /\ (s \in fresh => chain[s] = <<>>)
      /\ \A k \in 1..Len(chain[s]) : /\ chain[s][k].initial => k = 1 /\ chain[s][k].connected
                                     /\ chain[s][k].connected
  BY DEF Ordered
<1>5. ASSUME NEW k \in 1..Len(chain'[s])
      PROVE  /\ chain'[s][k].initial => k = 1 /\ chain'[s][k].connected
             /\ ~chain'[s][k].connected => k = Len(chain'[s]) /\ s \notin linked'
  <2>0. Len(chain'[s]) = Len(chain[s]) + 1
    BY <1>2, <1>3
  <2>1. CASE k \in 1..Len(chain[s])
    <3>1. chain'[s][k] = chain[s][k]
      BY <1>2, <1>3, <2>1
    <3> QED BY <1>4, <2>1, <3>1
  <2>2. CASE k = Len(chain[s]) + 1
    <3>1. chain'[s][k] = t
      BY <1>2, <1>3, <2>2
    <3>2. t.initial => k = 1 /\ t.connected
      BY <1>2, <1>4, <2>2
    <3>3. ~t.connected => k = Len(chain'[s]) /\ s \notin linked'
      BY <2>0, <2>2
    <3> QED BY <3>1, <3>2, <3>3
  <2> QED BY <1>2, <2>0, <2>1, <2>2
<1>6. linked' \subseteq used' /\ fresh' \subseteq linked'
  BY DEF Ordered
<1>7. ASSUME NEW u \in Sessions
      PROVE  /\ chain'[u] # <<>> => u \in used' \ fresh'
             /\ \A k \in 1..Len(chain'[u]) :
                  /\ chain'[u][k].initial => k = 1 /\ chain'[u][k].connected
                  /\ ~chain'[u][k].connected => k = Len(chain'[u]) /\ u \notin linked'
  <2>1. CASE u = s
    BY <1>4, <1>5, <2>1
  <2>2. CASE u # s
    BY <1>3, <2>2 DEF Ordered
  <2> QED BY <2>1, <2>2
<1>8. Ordered'
  BY <1>6, <1>7 DEF Ordered
<1> QED BY <1>2, <1>3, <1>4, <1>8

\* Known for one session, expanded.
LEMMA KnownOf ==
  ASSUME Known, running, NEW s \in Sessions
  PROVE  /\ up
         /\ (s \notin used \/ s \in fresh
             \/ (chain[s] # <<>> /\ chain[s][1].initial /\ ~(job.pc # "idle" /\ lock # <<>> /\ Head(lock) = s)))
              => iocs[iocid[s]] = Unknown
         /\ (s \in linked \/ \E k \in 1..Len(chain[s]) : chain[s][k].connected)
            /\ s \in used /\ s \notin fresh
            /\ (chain[s] # <<>> /\ chain[s][1].initial => job.pc # "idle" /\ lock # <<>> /\ Head(lock) = s)
              => iocs[iocid[s]] # Unknown
  BY DEF Known, ToCome, Begun, Uploading

\* Sessions and their commits exist in a live process only.
LEMMA UpWhileChained ==
  ASSUME BInv, NEW s \in Sessions, s \in linked \/ chain[s] # <<>> \/ s \in ToSet(lock)
  PROVE  up
  BY DEF BInv, PInv, Queued, Known

\* The tables and the sessions do not move, and the thread is not a commit's.
LEMMA StillKnown ==
  ASSUME Ordered, Agree, UNCHANGED <<memory, chain, linked, fresh, used>>
  PROVE  Ordered' /\ Agree' /\ UNCHANGED <<iocs, channel_ioc_ids, ioc_channels, chain, linked, fresh, used>>
<1>1. UNCHANGED <<iocs, channel_ioc_ids, ioc_channels, chain, linked, fresh, used>>
  BY DEF memory
<1>2. Ordered'
  BY <1>1 DEF Ordered
<1>3. Agree'
  BY <1>1 DEF Agree, Unknown
<1> QED BY <1>1, <1>2, <1>3

\* startService begins with empty tables.
LEMMA StartKnown == ASSUME BInv, startService PROVE Ordered' /\ Agree' /\ Known'
<1>1. ~up /\ up' = TRUE /\ running' = TRUE /\ UNCHANGED <<memory, chain, linked, fresh, used>>
  BY DEF startService, sessions
<1>2. /\ Ordered' /\ Agree'
      /\ UNCHANGED <<iocs, channel_ioc_ids, ioc_channels, chain, linked, fresh, used>>
  BY <1>1, StillKnown DEF BInv
<1>3. up'
  BY <1>1, Zenon
<1>4. linked = {} /\ \A s \in Sessions : chain[s] = <<>> /\ iocs[iocid[s]] = Unknown
  BY <1>1 DEF BInv, Known
<1>5. \A s \in Sessions : iocs'[iocid[s]] = Unknown /\ ~Uploading(s)'
  BY <1>2, <1>4 DEF Uploading
<1>6. Known'
  BY <1>3, <1>5 DEF Known, Unknown
<1> QED BY <1>2, <1>6

\* A process that ends takes its sessions along.
LEMMA ExitKnown == ASSUME BInv, Exit PROVE Ordered' /\ Agree' /\ Known'
<1>1. /\ up' = FALSE /\ running' = FALSE /\ Amnesia /\ used' = used
      /\ chain' = [s \in Sessions |-> <<>>] /\ linked' = {} /\ fresh' = {}
  BY DEF Exit
<1>2. ~up' /\ ~running'
  BY <1>1, Zenon
<1>3. Agree' /\ \A s \in Sessions : iocs'[iocid[s]] = Unknown
  BY <1>1, AmnesiaAgrees DEF Iocids
<1>4. Ordered'
  BY <1>1 DEF Ordered
<1>5. Known'
  BY <1>1, <1>2, <1>3 DEF Known, Unknown
<1> QED BY <1>3, <1>4, <1>5

\* The steps that leave the process stopped.
LEMMA StoppedKnown == ASSUME up', ~running' PROVE Known'
  BY DEF Known

\* The steps that change neither the tables nor whose commit is begun.
LEMMA SameKnown ==
  ASSUME BInv, UNCHANGED <<up, running, memory, chain, linked, fresh, used>>,
         \A s \in Sessions : Begun(s)' <=> Begun(s)
  PROVE  Ordered' /\ Agree' /\ Known'
<1>1. /\ Ordered' /\ Agree'
      /\ UNCHANGED <<iocs, channel_ioc_ids, ioc_channels, chain, linked, fresh, used>>
  BY StillKnown DEF BInv
<1>2. \A s \in Sessions : (ToCome(s)' <=> ToCome(s)) /\ (Uploading(s)' <=> Uploading(s))
  BY <1>1 DEF ToCome, Uploading
<1>3. Known'
  BY <1>1, <1>2 DEF BInv, Known, Unknown
<1> QED BY <1>1, <1>3

\* stopService changes no table and no chain.
LEMMA StopKnown == ASSUME BInv, stopService PROVE Ordered' /\ Agree' /\ Known'
<1>1. up /\ up' = up /\ running' = FALSE /\ UNCHANGED <<memory, chain, linked, fresh, used>>
  BY DEF stopService, sessions
<1>2. up' /\ ~running'
  BY <1>1, Zenon
<1> QED BY <1>1, <1>2, StillKnown, StoppedKnown DEF BInv

\* A session that is opened has its initial commit to come.
LEMMA ConnectKnown == ASSUME BInv, NEW s \in Sessions, Connect(s) PROVE Ordered' /\ Agree' /\ Known'
<1>1. /\ running /\ s \notin used /\ linked' = linked \cup {s} /\ fresh' = fresh \cup {s}
      /\ used' = used \cup {s}
      /\ UNCHANGED <<up, running, iocs, channel_ioc_ids, ioc_channels, lock, job, chain>>
  BY DEF Connect, memory
<1>2. chain[s] = <<>> /\ Len(chain[s]) = 0
  BY <1>1 DEF BInv, Ordered
<1>3. Ordered'
  <2>1. ASSUME NEW u \in Sessions
        PROVE  /\ chain'[u] # <<>> => u \in used' \ fresh'
               /\ \A k \in 1..Len(chain'[u]) :
                    /\ chain'[u][k].initial => k = 1 /\ chain'[u][k].connected
                    /\ ~chain'[u][k].connected => k = Len(chain'[u]) /\ u \notin linked'
    <3>1. CASE u = s
      BY <1>1, <1>2, <3>1
    <3>2. CASE u # s
      BY <1>1, <3>2 DEF BInv, Ordered
    <3> QED BY <3>1, <3>2
  <2>2. linked' \subseteq used' /\ fresh' \subseteq linked'
    BY <1>1 DEF BInv, Ordered
  <2> QED BY <2>1, <2>2 DEF Ordered
<1>4. Agree'
  BY <1>1 DEF BInv, Agree, Unknown
<1>5. up' /\ up /\ running
  BY <1>1, KnownOf DEF BInv
<1>6. ASSUME NEW u \in Sessions
      PROVE  /\ ToCome(u)' => iocs'[iocid[u]] = Unknown
             /\ Uploading(u)' /\ ~ToCome(u)' => iocs'[iocid[u]] # Unknown
  <2>1. CASE u = s
    BY <1>1, <1>5, <2>1, KnownOf DEF BInv, ToCome
  <2>2. CASE u # s
    <3>1. (ToCome(u)' <=> ToCome(u)) /\ (Uploading(u)' <=> Uploading(u))
      BY <1>1, <2>2 DEF ToCome, Begun, Uploading
    <3> QED BY <1>1, <1>5, <3>1 DEF BInv, Known
  <2> QED BY <2>1, <2>2
<1>7. Known'
  BY <1>5, <1>6 DEF Known, Unknown
<1> QED BY <1>3, <1>4, <1>7

\* A session chains a commit.
LEMMA FlushKnown ==
  ASSUME BInv, NEW s \in Sessions, s \in linked, NEW t \in Commit, t.recs \subseteq Recs[s], Flush(s, t),
         IF t.connected THEN t.initial <=> s \in fresh ELSE ~t.initial,
         linked' = (IF t.connected THEN linked ELSE linked \ {s}), fresh' = fresh \ {s},
         UNCHANGED <<up, running, memory, job, used>>
  PROVE  Ordered' /\ Agree' /\ Known'
<1> DEFINE q == chain[s]
<1>1. /\ Ordered' /\ q \in Seq(Commit) /\ (s \in fresh => q = <<>>)
      /\ \A u \in Sessions : u # s => chain'[u] = chain[u]
      /\ chain'[s] = Append(q, t)
  <2>1. t.initial => t.connected /\ s \in fresh
    OBVIOUS
  <2> QED BY <2>1, FlushOrders DEF BInv, PInv
<1>2. UNCHANGED <<iocs, channel_ioc_ids, ioc_channels>>
  BY DEF memory
<1>3. Agree'
  BY <1>2 DEF BInv, Agree, Unknown
<1>4. ASSUME NEW u \in Sessions PROVE Begun(u)' <=> Begun(u)
  <2>1. lock # <<>> => lock' # <<>> /\ Head(lock') = Head(lock)
    BY FlushKeeps DEF BInv, PInv
  <2>2. lock = <<>> => job.pc = "idle"
    BY DEF BInv, PInv, Held, JobTyped
  <2> QED BY <2>1, <2>2 DEF Begun
<1>5. up
  BY UpWhileChained
<1>6. s \in used /\ (q # <<>> => s \notin fresh)
  BY DEF BInv, Ordered
<1>7. ASSUME running, NEW u \in Sessions
      PROVE  /\ ToCome(u)' => iocs'[iocid[u]] = Unknown
             /\ Uploading(u)' /\ ~ToCome(u)' => iocs'[iocid[u]] # Unknown
  <2>1. CASE u # s
    <3>1. (ToCome(u)' <=> ToCome(u)) /\ (Uploading(u)' <=> Uploading(u))
      <4>1. (u \in linked' <=> u \in linked) /\ (u \in fresh' <=> u \in fresh)
        BY <2>1
      <4> QED BY <1>1, <1>4, <2>1, <4>1 DEF ToCome, Uploading
    <3> QED BY <1>2, <1>7, <3>1 DEF BInv, Known
  <2>2. CASE u = s /\ q # <<>>
    <3>1. chain'[s] # <<>> /\ chain'[s][1] = q[1]
      BY <1>1, <2>2
    <3>2. (ToCome(s)' <=> ToCome(s)) /\ Uploading(s)
      BY <1>4, <1>6, <2>2, <3>1 DEF ToCome, Uploading
    <3> QED BY <1>2, <1>7, <2>2, <3>2 DEF BInv, Known
  <2>3. CASE u = s /\ q = <<>>
    <3>1. chain'[s] # <<>> /\ chain'[s][1] = t /\ Len(chain'[s]) = 1
      BY <1>1, <2>3
    <3>2. ~Begun(s)
      <4>1. s \notin ToSet(lock)
        BY <2>3 DEF BInv, PInv, Queued
      <4>2. lock # <<>> => Head(lock) \in ToSet(lock)
        BY DistinctTail DEF BInv, PInv, Queued
      <4> QED BY <4>1, <4>2 DEF Begun
    <3>3. CASE s \in fresh
      <4>1. ToCome(s) /\ iocs[iocid[s]] = Unknown
        BY <1>7, <3>3 DEF BInv, Known, ToCome
      <4>2. Uploading(s)' => t.connected
        BY <3>1 DEF Uploading
      <4>3. t.connected => ToCome(s)'
        BY <1>4, <3>1, <3>2, <3>3 DEF ToCome
      <4> QED BY <1>2, <2>3, <4>1, <4>2, <4>3
    <3>4. CASE s \notin fresh
      <4>1. ~ToCome(s) /\ Uploading(s)
        BY <1>6, <2>3, <3>4 DEF ToCome, Uploading
      <4>2. ~ToCome(s)'
        BY <1>6, <3>1, <3>4 DEF ToCome
      <4>3. iocs[iocid[s]] # Unknown
        BY <1>7, <4>1 DEF BInv, Known
      <4> QED BY <1>2, <2>3, <4>2, <4>3
    <3> QED BY <3>3, <3>4
  <2> QED BY <2>1, <2>2, <2>3
<1>8. Known'
  BY <1>5, <1>7 DEF Known, Unknown
<1> QED BY <1>1, <1>3, <1>8

\* A flush makes the initial commit, or one behind it.
LEMMA UploadKnown ==
  ASSUME BInv, NEW s \in Sessions, NEW R \in SUBSET Recs[s], Upload(s, R)
  PROVE  Ordered' /\ Agree' /\ Known'
<1> DEFINE t == [initial |-> s \in fresh, connected |-> TRUE, recs |-> R]
<1>1. t \in Commit /\ t.recs \subseteq Recs[s]
  BY RecsAssumption DEF Commit
<1>2. t.initial = (s \in fresh) /\ t.connected = TRUE
  OBVIOUS
<1>3. t.connected /\ (t.initial <=> s \in fresh)
  BY <1>2, Zenon
<1>4. /\ s \in linked /\ Flush(s, t) /\ fresh' = fresh \ {s} /\ linked' = linked
      /\ UNCHANGED <<up, running, memory, job, used>>
  BY DEF Upload
<1> HIDE DEF t
<1> QED BY <1>1, <1>3, <1>4, FlushKnown

\* The disconnect is the last commit.
LEMMA DropKnown ==
  ASSUME BInv, NEW s \in Sessions, Drop(s)
  PROVE  Ordered' /\ Agree' /\ Known'
<1> DEFINE t == [initial |-> FALSE, connected |-> FALSE, recs |-> {}]
<1>1. t \in Commit /\ t.recs \subseteq Recs[s] /\ ~t.connected /\ ~t.initial
  BY DEF Commit
<1>2. /\ s \in linked /\ Flush(s, t) /\ fresh' = fresh \ {s} /\ linked' = linked \ {s}
      /\ UNCHANGED <<up, running, memory, job, used>>
  BY DEF Drop
<1> HIDE DEF t
<1> QED BY <1>1, <1>2, FlushKnown

\* A commit ends that was begun, or whose end the session does not depend on.
LEMMA FinishKnown ==
  ASSUME BInv, Committing, NEW end, Finish(end), UNCHANGED <<up, running, memory>>,
         job.pc # "idle" \/ ~Transaction.connected \/ ~running
  PROVE  Ordered' /\ Agree' /\ Known'
<1> DEFINE h == Holder
           q == chain[h]
<1>1. /\ Ordered' /\ job' = Idle /\ h = Head(lock) /\ h \in Sessions
      /\ q \in Seq(Commit) /\ q # <<>>
      /\ \A u \in Sessions : u # h => chain'[u] = chain[u]
      /\ Len(chain'[h]) = Len(q) - 1
      /\ \A k \in 1..Len(chain'[h]) :
           chain'[h][k] = q[k + 1] /\ k + 1 \in 1..Len(q) /\ ~chain'[h][k].initial
      /\ UNCHANGED <<linked, fresh, used>>
  BY FinishOrders DEF BInv, PInv, Committing, Holder
<1>2. UNCHANGED <<iocs, channel_ioc_ids, ioc_channels>>
  BY DEF memory
<1>3. Agree'
  BY <1>2 DEF BInv, Agree, Unknown
<1>4. up /\ h \in used /\ h \notin fresh /\ Transaction = q[1]
  <2>1. up /\ h \in used /\ h \notin fresh
    BY <1>1, UpWhileChained DEF BInv, Ordered
  <2> QED BY <2>1 DEF Transaction
<1>5. \A u \in Sessions : ~Begun(u)' /\ (u # h => ~Begun(u))
  BY <1>1, IdleTyped DEF Begun
<1>6. chain' \in [Sessions -> Seq(Commit)]
  BY FinishKeeps DEF BInv, PInv, Committing, Holder, Queued
<1>7. ASSUME running, NEW u \in Sessions
      PROVE  /\ ToCome(u)' => iocs'[iocid[u]] = Unknown
             /\ Uploading(u)' /\ ~ToCome(u)' => iocs'[iocid[u]] # Unknown
  <2>1. CASE u # h
    <3>1. (ToCome(u)' <=> ToCome(u)) /\ (Uploading(u)' <=> Uploading(u))
      BY <1>1, <1>5, <2>1 DEF ToCome, Uploading
    <3> QED BY <1>2, <1>7, <3>1 DEF BInv, Known
  <2>2. CASE u = h
    <3>0. /\ u = Head(lock) /\ u \in used /\ u \notin fresh /\ q = chain[u] /\ Len(q) \in Nat
          /\ Len(chain'[u]) = Len(chain[u]) - 1
          /\ \A k \in 1..Len(chain'[u]) :
               chain'[u][k] = chain[u][k + 1] /\ k + 1 \in 1..Len(chain[u]) /\ ~chain'[u][k].initial
      BY <1>1, <1>4, <2>2
    <3>1. ~ToCome(u)'
      <4>1. chain'[u] # <<>> => 1 \in 1..Len(chain'[u])
        BY <1>6
      <4> QED BY <1>1, <3>0, <4>1 DEF ToCome
    <3>2. Uploading(u)' => Uploading(u)
      BY <1>1, <3>0 DEF Uploading
    <3>3. CASE job.pc # "idle"
      <4>1. ~ToCome(u)
        BY <3>0, <3>3 DEF ToCome, Begun, Committing
      <4> QED BY <1>2, <1>7, <3>1, <3>2, <4>1 DEF BInv, Known
    <3>4. CASE ~Transaction.connected
      <4>1. 1 \in 1..Len(q)
        BY <1>1
      <4>2. Len(chain[u]) = 1 /\ u \notin linked
        BY <1>1, <1>4, <3>0, <3>4, <4>1 DEF BInv, Ordered
      <4>3. ~Uploading(u)'
        BY <1>1, <3>0, <4>2 DEF Uploading
      <4> QED BY <3>1, <4>3
    <3> QED BY <1>7, <3>3, <3>4
  <2> QED BY <2>1, <2>2
<1>8. Known'
  BY <1>4, <1>7 DEF Known, Unknown
<1> QED BY <1>1, <1>3, <1>8

\* The thread begins a commit and writes the tables: only the entry of the
\* holder's IOC changes, and it is there unless the client is gone.
LEMMA BegunKnown ==
  ASSUME IsInjective(iocid), BInv, running, running' = running, up' = up, Committing, job.pc = "idle",
         job'.pc = "find", UNCHANGED <<lock, chain, linked, fresh, used>>,
         \A j \in Iocids : j # iocid[Holder] => iocs'[j] = iocs[j],
         iocs'[iocid[Holder]] = Unknown => ~Transaction.connected
  PROVE  Known'
<1>1. /\ Holder \in Sessions /\ Holder = Head(lock) /\ chain[Holder] \in Seq(Commit)
      /\ chain[Holder] # <<>> /\ lock # <<>>
  BY HolderFacts DEF BInv, PInv, Committing, Holder
<1>2. up'
  BY <1>1, KnownOf DEF BInv
<1>3. ASSUME NEW u \in Sessions
      PROVE  /\ ToCome(u)' => iocs'[iocid[u]] = Unknown
             /\ Uploading(u)' /\ ~ToCome(u)' => iocs'[iocid[u]] # Unknown
  <2>1. CASE u # Holder
    <3>1. iocid[u] # iocid[Holder] /\ iocid[u] \in Iocids
      BY <1>1, <2>1, RecsAssumption DEF IsInjective, Iocids
    <3>2. (ToCome(u)' <=> ToCome(u)) /\ (Uploading(u)' <=> Uploading(u))
      BY <1>1, <2>1 DEF ToCome, Begun, Uploading
    <3> QED BY <3>1, <3>2 DEF BInv, Known
  <2>2. CASE u = Holder
    <3>1. u \in used /\ u \notin fresh /\ Begun(u)' /\ u = Head(lock) /\ Transaction = chain[u][1]
          /\ 1 \in 1..Len(chain[u]) /\ Len(chain[u]) \in Nat
      BY <1>1, <2>2 DEF BInv, Ordered, Begun, Transaction
    <3>2. ~ToCome(u)'
      BY <3>1 DEF ToCome
    <3>3. CASE ~Transaction.connected
      <4>1. Len(chain[u]) = 1 /\ u \notin linked
        BY <3>1, <3>3 DEF BInv, Ordered
      <4>2. ~Uploading(u)'
        BY <3>1, <3>3, <4>1 DEF Uploading
      <4> QED BY <3>2, <4>2
    <3>4. CASE Transaction.connected
      BY <2>2, <3>2, <3>4
    <3> QED BY <3>3, <3>4
  <2> QED BY <2>1, <2>2
<1> QED BY <1>2, <1>3 DEF Known, Unknown

\* The bookkeeping of a commit: the IOC of an initial one becomes known, that
\* of a disconnect unknown.
LEMMA BeginKnown ==
  ASSUME IsInjective(iocid), BInv, BeginCommit
  PROVE  Ordered' /\ Agree' /\ Known'
<1> DEFINE i == iocid[Holder]
           R == Transaction.recs
<1>1. Committing /\ job.pc = "idle" /\ UNCHANGED <<up, running>>
  BY DEF BeginCommit
<1>2. i \in Iocids /\ R \in SUBSET Names /\ Holder \in Sessions /\ Lists /\ Agree
  BY <1>1, CommittingFacts DEF BInv, PInv
<1>3. CASE UNCHANGED memory /\ (\E end : Finish(end)) /\ (~running \/ ~Transaction.connected)
  BY <1>1, <1>3, FinishKnown
<1>4. ASSUME running, Transaction.connected
      PROVE  Transaction.initial <=> iocs[i] = Unknown
  <2> DEFINE s == Holder
  <2>1. s \in used /\ s \notin fresh /\ chain[s] # <<>> /\ chain[s] \in Seq(Commit)
    BY <1>1, HolderFacts DEF BInv, PInv, Committing, Holder, Ordered
  <2>2. Transaction = chain[s][1] /\ 1 \in 1..Len(chain[s])
    BY <2>1 DEF Transaction
  <2> HIDE DEF s
  <2>3. s \in Sessions /\ iocid[s] = i
    BY <1>2 DEF s
  <2> HIDE DEF i
  <2>4. chain[s][1].initial => iocs[i] = Unknown
    BY <1>1, <1>4, <2>1, <2>3, KnownOf DEF BInv
  <2>5. ~chain[s][1].initial => iocs[i] # Unknown
    BY <1>4, <2>1, <2>2, <2>3, KnownOf DEF BInv
  <2> QED BY <2>2, <2>4, <2>5
<1>5. CASE /\ running /\ ~Transaction.connected /\ iocs[i] # Unknown /\ ForgetChannels(i)
           /\ job' = [Idle EXCEPT !.pc = "find"] /\ UNCHANGED <<lock, sessions>>
  <2>1. UNCHANGED <<lock, chain, linked, fresh, used>> /\ job'.pc = "find"
    BY <1>5, IdleTyped DEF sessions
  <2>2. Agree' /\ \A j \in Iocids : j # i => iocs'[j] = iocs[j]
    BY <1>2, <1>5, ForgetAgrees
  <2>3. Known'
    BY <1>1, <1>5, <2>1, <2>2, BegunKnown
  <2>4. Ordered'
    BY <2>1 DEF BInv, Ordered
  <2> QED BY <2>2, <2>3, <2>4
<1>6. CASE /\ running /\ Transaction.connected /\ RegisterChannels(i, R, Transaction.initial)
           /\ job' = [Idle EXCEPT !.pc = "find"] /\ UNCHANGED <<lock, sessions>>
  <2>1. UNCHANGED <<lock, chain, linked, fresh, used>> /\ job'.pc = "find"
    BY <1>6, IdleTyped DEF sessions
  <2>2. Agree' /\ iocs'[i] # Unknown /\ \A j \in Iocids : j # i => iocs'[j] = iocs[j]
    <3> DEFINE b == Transaction.initial
    <3>1. b => iocs[i] = Unknown
      BY <1>4, <1>6
    <3>2. ~b => iocs[i] # Unknown
      BY <1>4, <1>6
    <3>3. RegisterChannels(i, R, b)
      BY <1>6
    <3> HIDE DEF b, i, R
    <3> QED BY <1>2, <3>1, <3>2, <3>3, RegisterAgrees
  <2>3. Known'
    BY <1>1, <1>6, <2>1, <2>2, BegunKnown
  <2>4. Ordered'
    BY <2>1 DEF BInv, Ordered
  <2> QED BY <2>2, <2>3, <2>4
<1>7. \/ UNCHANGED memory /\ (\E end : Finish(end)) /\ (~running \/ ~Transaction.connected)
      \/ /\ running /\ ~Transaction.connected /\ iocs[i] # Unknown /\ ForgetChannels(i)
         /\ job' = [Idle EXCEPT !.pc = "find"] /\ UNCHANGED <<lock, sessions>>
      \/ /\ running /\ Transaction.connected /\ RegisterChannels(i, R, Transaction.initial)
         /\ job' = [Idle EXCEPT !.pc = "find"] /\ UNCHANGED <<lock, sessions>>
      \/ running /\ Transaction.connected /\ ~Transaction.initial /\ iocs[i] = Unknown
  BY DEF BeginCommit
<1> HIDE DEF i, R
<1> QED BY <1>3, <1>4, <1>5, <1>6, <1>7

\* A push is given up only once the processor is stopped.
LEMMA GiveUpKnown ==
  ASSUME alwaysRetry \/ MaxFaults < maxRetries, BInv, GiveUp
  PROVE  Ordered' /\ Agree' /\ Known'
<1> DEFINE i == iocid[Holder]
<1>0. ~running
  <2>1. /\ job.tries \in Nat /\ faults \in 0..MaxFaults /\ MaxFaults \in Nat /\ maxRetries \in Nat
        /\ job.tries + faults <= MaxFaults
    BY BoundsAssumption DEF BInv, PInv, Typed, Tried
  <2>2. MaxFaults < maxRetries => job.tries < maxRetries
    BY <2>1
  <2> QED BY <2>2 DEF GiveUp, MayTry
<1>1. Committing /\ UNCHANGED <<up, running>> /\ Finish("cancelled") /\ ~running
  BY <1>0 DEF GiveUp
<1>2. Ordered' /\ Holder \in Sessions /\ Holder \in ToSet(lock)
  <2>1. lock # <<>> /\ Head(lock) # "stop" /\ Holder = Head(lock)
    BY <1>1 DEF Committing, Holder
  <2>2. Head(lock) \in ToSet(lock)
    BY <2>1, DistinctTail DEF BInv, PInv, Queued
  <2> QED BY <1>1, <2>1, <2>2, FinishOrders DEF BInv, PInv
<1>3. up
  BY <1>2, UpWhileChained
<1>4. Known'
  BY <1>1, <1>3, StoppedKnown
<1>5. i \in Iocids
  BY <1>2 DEF Iocids
<1>6. \/ UNCHANGED memory
      \/ /\ channel_ioc_ids' = Unlisted(ioc_channels[i], i)
         /\ ioc_channels' = [ioc_channels EXCEPT ![i] = {}]
         /\ iocs' = [iocs EXCEPT ![i] = Unknown]
  BY DEF GiveUp
<1> HIDE DEF i
<1>7. Agree'
  <2>1. UNCHANGED memory => Agree'
    BY DEF BInv, memory, Agree, Unknown
  <2> QED BY <1>5, <1>6, <2>1, EvictAgrees DEF BInv, PInv
<1> QED BY <1>2, <1>4, <1>7

\* The thread goes on or ends.
LEMMA ThreadKnown ==
  ASSUME BInv, Find \/ FindFails \/ Write \/ WriteFails
  PROVE  Ordered' /\ Agree' /\ Known'
<1>1. job.pc \in {"find", "write"} /\ UNCHANGED <<up, running, memory>>
  BY DEF Find, FindFails, Write, WriteFails
<1>2. Committing
  BY <1>1 DEF BInv, PInv, Held, Committing, Holder
<1>3. CASE \E end : Finish(end)
  BY <1>1, <1>2, <1>3, FinishKnown
<1>4. CASE UNCHANGED <<lock, sessions>> /\ job'.pc # "idle"
  <2>1. UNCHANGED <<lock, chain, linked, fresh, used>>
    BY <1>4 DEF sessions
  <2>2. \A s \in Sessions : Begun(s)' <=> Begun(s)
    BY <1>1, <1>4, <2>1 DEF Begun
  <2> QED BY <1>1, <2>1, <2>2, SameKnown
<1>5. \/ \E end : Finish(end)
      \/ UNCHANGED <<lock, sessions>> /\ job'.pc # "idle"
  <2>1. job = [pc |-> job.pc, tries |-> job.tries, towrite |-> job.towrite]
    BY DEF BInv, PInv, JobTyped
  <2>2. CASE Find
    <3>1. \/ \E end : Finish(end)
          \/ UNCHANGED <<lock, sessions>> /\ \E w : job' = [job EXCEPT !.pc = "write", !.towrite = w]
      BY <2>2 DEF Find
    <3> QED BY <2>1, <3>1
  <2>3. CASE FindFails
    BY <2>1, <2>3 DEF FindFails
  <2>4. CASE Write
    <3>1. \/ \E end : Finish(end)
          \/ UNCHANGED <<lock, sessions>> /\ \E w : job' = [job EXCEPT !.towrite = w]
      BY <2>4 DEF Write
    <3> QED BY <1>1, <2>1, <3>1
  <2>5. CASE WriteFails
    BY <2>1, <2>5 DEF WriteFails
  <2> QED BY <2>2, <2>3, <2>4, <2>5
<1> QED BY <1>3, <1>4, <1>5

\* stopService and the sweeps leave the tables alone; it alone touches the lock.
LEMMA SweepsKnown ==
  ASSUME BInv, BeginStop \/ BeginTool \/ \E k \in Sweeps : SweepStep(k)
  PROVE  Ordered' /\ Agree' /\ Known'
<1>1. /\ UNCHANGED <<up, running, memory, chain, linked, fresh, used>>
      /\ \/ UNCHANGED <<lock, job>>
         \/ lock # <<>> /\ Head(lock) = "stop"
  <2>1. CASE BeginStop
    BY <2>1 DEF BeginStop, Holder, sessions
  <2>2. CASE BeginTool
    BY <2>2 DEF BeginTool, sessions
  <2>3. ASSUME NEW k \in Sweeps, SweepStep(k)
        PROVE  /\ UNCHANGED <<up, running, memory, chain, linked, fresh, used>>
               /\ UNCHANGED <<lock, job>> \/ (lock # <<>> /\ Head(lock) = "stop")
    <3>1. UNCHANGED <<up, running, memory, chain, linked, fresh, used>> /\ sweep[k].pc # "off"
      BY <2>3 DEF SweepStep, SweepFind, SweepUpdate, SweepFails, sessions
    <3>2. k = "stop" => lock # <<>> /\ Head(lock) = "stop"
      BY <3>1 DEF BInv, PInv, Held
    <3>3. k # "stop" => UNCHANGED <<lock, job>>
      BY <2>3 DEF SweepStep, SweepFind, SweepUpdate, SweepFails, EndSweep
    <3> QED BY <3>1, <3>2, <3>3
  <2> QED BY <2>1, <2>2, <2>3
<1>2. CASE UNCHANGED <<lock, job>>
  <2>1. \A s \in Sessions : Begun(s)' <=> Begun(s)
    BY <1>2 DEF Begun
  <2> QED BY <1>1, <2>1, SameKnown
<1>3. CASE lock # <<>> /\ Head(lock) = "stop"
  <2>1. "stop" \in ToSet(lock)
    BY <1>3, DistinctTail DEF BInv, PInv, Queued
  <2>2. up /\ ~running
    BY <2>1 DEF BInv, PInv, Held
  <2> QED BY <1>1, <2>2, StillKnown, StoppedKnown DEF BInv
<1> QED BY <1>1, <1>2, <1>3

\* A failure of the thread uses up one of MaxFaults.
LEMMA StepTried == ASSUME BInv, [Next]_vars PROVE Tried'
<1>1. /\ job = [pc |-> job.pc, tries |-> job.tries, towrite |-> job.towrite] /\ job.tries \in Nat
      /\ faults \in 0..MaxFaults /\ MaxFaults \in Nat /\ job.tries + faults <= MaxFaults
  BY BoundsAssumption DEF BInv, PInv, Typed, JobTyped, Tried
<1>2. CASE job'.tries \in {0, job.tries} /\ faults' \in {faults, faults - 1} /\ faults' \in 0..MaxFaults
  BY <1>1, <1>2 DEF Tried
<1>3. faults' \in 0..MaxFaults
  BY StepPInv DEF BInv, PInv, Typed
<1>4. CASE FindFails \/ WriteFails
  <2>1. job'.tries = job.tries + 1 /\ faults' = faults - 1
    BY <1>1, <1>4 DEF FindFails, WriteFails
  <2> QED BY <1>1, <2>1 DEF Tried
<1>5. CASE \E end : Finish(end) /\ faults' = faults
  BY <1>2, <1>3, <1>5, IdleTyped DEF Finish
<1>6. CASE job' = job /\ faults' \in {faults, faults - 1}
  BY <1>2, <1>3, <1>6
<1>7. CASE BeginCommit
  <2>1. faults' = faults /\ ((\E end : Finish(end)) \/ job' = [Idle EXCEPT !.pc = "find"])
    BY <1>7 DEF BeginCommit
  <2>2. job' = [Idle EXCEPT !.pc = "find"] => job'.tries = 0
    BY IdleTyped
  <2> QED BY <1>2, <1>3, <1>5, <2>1, <2>2
<1>8. CASE Find \/ Write \/ GiveUp
  <2>1. faults' = faults
    BY <1>8 DEF Find, Write, GiveUp
  <2>2. CASE Find
    <3>1. (\E end : Finish(end)) \/ \E w : job' = [job EXCEPT !.pc = "write", !.towrite = w]
      BY <2>2 DEF Find
    <3>2. (\E end : Finish(end)) \/ job'.tries = job.tries
      BY <1>1, <3>1
    <3> QED BY <1>2, <1>3, <1>5, <2>1, <3>2
  <2>3. CASE Write
    <3>1. (\E end : Finish(end)) \/ \E w : job' = [job EXCEPT !.towrite = w]
      BY <2>3 DEF Write
    <3>2. (\E end : Finish(end)) \/ job'.tries = job.tries
      BY <1>1, <3>1
    <3> QED BY <1>2, <1>3, <1>5, <2>1, <3>2
  <2>4. CASE GiveUp
    BY <1>5, <2>1, <2>4 DEF GiveUp
  <2> QED BY <1>8, <2>2, <2>3, <2>4
<1>9. CASE BeginStop
  <2>1. faults' = faults /\ (job' = job \/ job' = [Idle EXCEPT !.pc = "clean"])
    BY <1>9 DEF BeginStop
  <2>2. job' = [Idle EXCEPT !.pc = "clean"] => job'.tries = 0
    BY IdleTyped
  <2> QED BY <1>2, <1>3, <2>1, <2>2
<1>10. ASSUME NEW k \in Sweeps, SweepStep(k) PROVE Tried'
  <2>1. (job' = job \/ job' = Idle) /\ faults' \in {faults, faults - 1}
    BY <1>10 DEF SweepStep, SweepFind, SweepUpdate, SweepFails, EndSweep
  <2> QED BY <1>2, <1>3, <2>1, IdleTyped
<1>11. CASE Exit
  BY <1>2, <1>3, <1>11, IdleTyped DEF Exit
<1>12. CASE \/ startService \/ stopService \/ BeginTool \/ UNCHANGED vars
            \/ \E s \in Sessions : Connect(s) \/ Drop(s) \/ \E R \in SUBSET Recs[s] : Upload(s, R)
  <2>1. job' = job /\ faults' = faults
    BY <1>12 DEF startService, stopService, BeginTool, Connect, Drop, Upload, vars
  <2> QED BY <1>6, <2>1
<1> QED BY <1>4, <1>7, <1>8, <1>9, <1>10, <1>11, <1>12 DEF Next, CommitStep

\* Every step keeps BInv.
LEMMA StepBInv ==
  ASSUME IsInjective(iocid), alwaysRetry \/ MaxFaults < maxRetries, BInv, [Next]_vars
  PROVE  BInv'
<1>1. PInv' /\ Tried'
  BY StepPInv, StepTried DEF BInv
<1>2. CASE UNCHANGED vars
  <2>1. UNCHANGED <<up, running, memory, chain, linked, fresh, used>> /\ UNCHANGED <<lock, job>>
    BY <1>2 DEF vars, sessions
  <2>2. \A s \in Sessions : Begun(s)' <=> Begun(s)
    BY <2>1 DEF Begun
  <2> QED BY <1>1, <2>1, <2>2, SameKnown DEF BInv
<1>3. CASE Next
  <2>1. Ordered' /\ Agree' /\ Known'
    BY <1>3, StartKnown, StopKnown, ExitKnown, ConnectKnown, UploadKnown, DropKnown, BeginKnown,
       ThreadKnown, GiveUpKnown, SweepsKnown DEF Next, CommitStep
  <2> QED BY <1>1, <2>1 DEF BInv
<1> QED BY <1>2, <1>3

\* BInv holds at first.
LEMMA InitBInv == Init => BInv
<1> SUFFICES ASSUME Init PROVE BInv
  OBVIOUS
<1>1. Ordered
  BY DEF Init, Ordered
<1>2. ToSet(<<>>) = {}
  BY DEF ToSet
<1>3. Agree
  BY <1>2 DEF Init, Agree, Unknown
<1>4. up = FALSE /\ running = FALSE
  BY DEF Init
<1>5. ~running
  BY <1>4, Zenon
<1>6. linked = {} /\ \A s \in Sessions : chain[s] = <<>> /\ iocs[iocid[s]] = Unknown
  BY DEF Init, Iocids
<1>7. Known
  BY <1>5, <1>6 DEF Known
<1>8. Tried
  BY BoundsAssumption, IdleTyped DEF Init, Tried
<1> QED BY <1>1, <1>3, <1>7, <1>8, InitPInv DEF BInv

\* When no two sessions have one host:port, and pushAlwaysRetry is set or
\* ChannelFinder fails less often than pushMaxRetries, the three tables agree in
\* every state: _ioc_channels inverts channel_ioc_ids, no IOC is listed twice and
\* channelcount counts, for any number of IOCs that share any records and aliases,
\* whatever fails and is retried, and through stops, kills and restarts.
THEOREM TablesAgree ==
  ASSUME IsInjective(iocid), alwaysRetry \/ MaxFaults < maxRetries
  PROVE  Spec => []Bookkeeping
<1>1. Init => BInv
  BY InitBInv
<1>2. BInv /\ [Next]_vars => BInv'
  BY StepBInv
<1>3. BInv => Bookkeeping
  <2> SUFFICES ASSUME BInv PROVE Bookkeeping
    OBVIOUS
  <2>1. \A n \in Names : Cardinality(ToSet(channel_ioc_ids[n])) = Len(channel_ioc_ids[n])
    BY DistinctCardinality DEF BInv, PInv, Lists
  <2> QED BY <2>1 DEF BInv, Agree, Bookkeeping
<1> QED BY <1>1, <1>2, <1>3, PTL DEF Spec
-----------------------------------------------------------------------------
(* ChannelFinder follows the IOCs.                                         *)

\* What InSync rests on.  No two sessions have one host:port; ChannelFinder fails
\* less often than a push and a sweep are willing to try again, and does nothing
\* of a request it fails; one page holds all channels; only stopService sweeps,
\* and the process ends by it.
Undisturbed ==
  /\ IsInjective(iocid)
  /\ alwaysRetry \/ MaxFaults < maxRetries
  /\ Cardinality(Names) <= queryLimit
  /\ cleanOnStop /\ MaxFaults < sweepRetries
  /\ ~cleanOnStart /\ ~CanCrash /\ ~CleanTool /\ ~LostReplies

\* What the k-th commit of s brings, aliases included.
Brings(s, k) == WithAliases(chain[s][k].recs)
\* Channel n is in a commit of s, and in one that is not begun.
Chained(s, n) == \E k \in 1..Len(chain[s]) : n \in Brings(s, k)
Pending(s, n) == \E k \in 1..Len(chain[s]) : n \in Brings(s, k) /\ ~(k = 1 /\ Begun(s))
\* The disconnect of s is not begun.
Leaving(s) == \E k \in 1..Len(chain[s]) : ~chain[s][k].connected /\ ~(k = 1 /\ Begun(s))

\* A channel that says what the tables say: Active exactly when some IOC has it,
\* and then under one that does.
Right(c, n) ==
  /\ c.status = "Active" <=> \E i \in Iocids : n \in ioc_channels[i]
  /\ c.status = "Active" => c.ioc \in Iocids /\ n \in ioc_channels[c.ioc]

\* The thread may have changed the tables for n and has not written n yet.
Due(n) ==
  /\ job.pc \in {"find", "write"}
  /\ \/ n \in WithAliases(Transaction.recs)
     \/ ~Transaction.connected /\ cf[n].status = "Active" /\ cf[n].ioc = iocid[Holder]

\* The chain of s: no record is in two commits, and a client that is gone has
\* chained its disconnect, which brings nothing.
Tidy(s) ==
  /\ sent[s] \subseteq Recs[s] /\ (s \notin linked => sent[s] = {})
  /\ \A k, l \in 1..Len(chain[s]) : k # l => Brings(s, k) \cap Brings(s, l) = {}
  /\ \A k \in 1..Len(chain[s]) :
       /\ ~chain[s][k].connected => chain[s][k].recs = {}
       /\ s \in linked => Brings(s, k) \subseteq WithAliases(sent[s])
  /\ s \notin linked /\ chain[s] # <<>> => ~chain[s][Len(chain[s])].connected

\* Nobody sweeps but stopService; ChannelFinder and the tables name sessions that
\* exist or existed, and nothing is Active when no process runs.
Past ==
  /\ sweep["start"].pc = "off" /\ sweep["tool"].pc = "off"
  /\ \A n \in Names : cf[n].status = "Active" => cf[n].ioc # NoIoc
  /\ \A s \in Sessions :
       /\ \A n \in Names : cf[n].ioc = iocid[s] => s \in used
       /\ ioc_channels[iocid[s]] # {} => s \in used
  /\ ~up => \A n \in Names : cf[n].status # "Active"

\* What the thread is about to write is right, and all that is due.
Writing ==
  job.pc = "write" =>
    /\ \A n \in DOMAIN job.towrite :
         /\ Right(job.towrite[n], n)
         /\ job.towrite[n].status # "Active" => job.towrite[n].ioc = cf[n].ioc
    /\ \A n \in Names : Due(n) => n \in DOMAIN job.towrite

\* What a session has sent is in the tables or to come, and not both; ChannelFinder
\* names its IOC for channels of finished commits only.
Follows(s) ==
  /\ \A n \in Names :
       /\ n \in ioc_channels[iocid[s]] => ~Pending(s, n)
       /\ cf[n].ioc = iocid[s] => ~Chained(s, n) /\ (s \in linked => n \in WithAliases(sent[s]))
       /\ s \in linked => (n \in WithAliases(sent[s]) <=> n \in ioc_channels[iocid[s]] \/ Pending(s, n))
  /\ s \notin linked /\ ~Leaving(s) => ioc_channels[iocid[s]] = {}
  /\ Begun(s) => Brings(s, 1) \subseteq ioc_channels[iocid[s]]

\* As long as the processor runs, a channel that is not due is right.
Present ==
  running => /\ \A s \in Sessions : Follows(s)
             /\ \A n \in Names : ~Due(n) => Right(cf[n], n)

YInv ==
  /\ BInv /\ Stopped
  /\ \A s \in Sessions : Tidy(s)
  /\ Past /\ Writing /\ Present

\* Different records of a client have different names and aliases.
LEMMA AliasesApart ==
  ASSUME NEW s \in Sessions, NEW A \in SUBSET Recs[s], NEW B \in SUBSET Recs[s], A \cap B = {}
  PROVE  WithAliases(A) \cap WithAliases(B) = {}
<1> SUFFICES ASSUME NEW x, x \in WithAliases(A), x \in WithAliases(B) PROVE FALSE
  OBVIOUS
<1>1. /\ x \in A \/ \E n \in A : x \in Aliases[n]
      /\ x \in B \/ \E n \in B : x \in Aliases[n]
  BY DEF WithAliases
<1>2. \A n, m \in Recs[s] : Aliases[n] \cap Recs[s] = {} /\ (Aliases[n] \cap Aliases[m] # {} => n = m)
  BY AliasesAssumption
<1>3. CASE x \in A
  BY <1>1, <1>2, <1>3
<1>4. CASE x \in B
  BY <1>1, <1>2, <1>4
<1>5. CASE x \notin A /\ x \notin B
  <2>1. PICK n \in A : x \in Aliases[n]
    BY <1>1, <1>5
  <2>2. PICK m \in B : x \in Aliases[m]
    BY <1>1, <1>5
  <2>3. n = m
    BY <1>2, <2>1, <2>2
  <2> QED BY <2>3
<1> QED BY <1>3, <1>4, <1>5

\* The names of two sets of records.
LEMMA AliasesJoin ==
  ASSUME NEW A, NEW B
  PROVE  WithAliases(A \cup B) = WithAliases(A) \cup WithAliases(B) /\ WithAliases({}) = {}
  BY DEF WithAliases

\* One page holds what matches.
LEMMA PageIsAll ==
  ASSUME Cardinality(Names) <= queryLimit, NEW T \in SUBSET Names, NEW P \in Pages(T)
  PROVE  P = T
<1>1. IsFiniteSet(T) /\ Cardinality(T) <= Cardinality(Names) /\ IsFiniteSet(Names)
  BY NamesAssumption, FS_Subset
<1>2. Cardinality(T) \in Nat /\ Cardinality(Names) \in Nat /\ queryLimit \in Nat
  BY <1>1, FS_CardinalityType, BoundsAssumption
<1>3. P \in SUBSET T /\ Cardinality(P) = IF Cardinality(T) < queryLimit THEN Cardinality(T) ELSE queryLimit
  BY DEF Pages
<1>4. Cardinality(P) = Cardinality(T)
  BY <1>1, <1>2, <1>3
<1> QED BY <1>1, <1>3, <1>4, FS_Subset

\* A session whose chain and thread do not move.
LEMMA SameChain ==
  ASSUME NEW u \in Sessions, chain'[u] = chain[u], Begun(u)' <=> Begun(u)
  PROVE  /\ \A n : (Pending(u, n)' <=> Pending(u, n)) /\ (Chained(u, n)' <=> Chained(u, n))
         /\ Leaving(u)' <=> Leaving(u)
         /\ \A k : Brings(u, k)' = Brings(u, k)
<1>1. \A k : Brings(u, k)' = Brings(u, k)
  BY DEF Brings, WithAliases
<1> QED BY <1>1 DEF Pending, Chained, Leaving

\* A commit is chained to those of s.
LEMMA FlushPending ==
  ASSUME NEW s \in Sessions, NEW t \in Commit, chain[s] \in Seq(Commit),
         chain'[s] = Append(chain[s], t), Begun(s)' <=> Begun(s), Begun(s) => chain[s] # <<>>
  PROVE  /\ \A n : (Pending(s, n)' <=> Pending(s, n) \/ n \in WithAliases(t.recs))
         /\ \A n : (Chained(s, n)' <=> Chained(s, n) \/ n \in WithAliases(t.recs))
         /\ Leaving(s)' <=> Leaving(s) \/ ~t.connected
         /\ \A k \in 1..Len(chain[s]) : Brings(s, k)' = Brings(s, k)
<1> DEFINE m == Len(chain[s])
<1>1. /\ m \in Nat /\ Len(chain'[s]) = m + 1 /\ chain'[s][m + 1] = t
      /\ \A k \in 1..m : chain'[s][k] = chain[s][k]
      /\ \A k \in 1..Len(chain'[s]) : k \in 1..m \/ k = m + 1
      /\ \A k \in 1..m : k \in 1..Len(chain'[s])
      /\ m + 1 \in 1..Len(chain'[s])
  OBVIOUS
<1>2. Begun(s) => m + 1 # 1
  BY <1>1
<1>3. \A k : Brings(s, k)' = WithAliases(chain'[s][k].recs) /\ Brings(s, k) = WithAliases(chain[s][k].recs)
  BY DEF Brings, WithAliases
<1> HIDE DEF m
<1>4. ASSUME NEW n PROVE Chained(s, n)' <=> Chained(s, n) \/ n \in WithAliases(t.recs)
  <2>1. Chained(s, n)' <=> \E k \in 1..Len(chain'[s]) : n \in Brings(s, k)'
    BY DEF Chained
  <2>2. Chained(s, n) <=> \E k \in 1..m : n \in Brings(s, k)
    BY DEF Chained, m
  <2> QED BY <1>1, <1>3, <2>1, <2>2
<1>5. ASSUME NEW n PROVE Pending(s, n)' <=> Pending(s, n) \/ n \in WithAliases(t.recs)
  <2>1. Pending(s, n)' <=> \E k \in 1..Len(chain'[s]) : n \in Brings(s, k)' /\ ~(k = 1 /\ Begun(s)')
    BY DEF Pending
  <2>2. Pending(s, n) <=> \E k \in 1..m : n \in Brings(s, k) /\ ~(k = 1 /\ Begun(s))
    BY DEF Pending, m
  <2> QED BY <1>1, <1>2, <1>3, <2>1, <2>2
<1>6. Leaving(s)' <=> Leaving(s) \/ ~t.connected
  <2>1. Leaving(s)' <=> \E k \in 1..Len(chain'[s]) : ~chain'[s][k].connected /\ ~(k = 1 /\ Begun(s)')
    BY DEF Leaving
  <2>2. Leaving(s) <=> \E k \in 1..m : ~chain[s][k].connected /\ ~(k = 1 /\ Begun(s))
    BY DEF Leaving, m
  <2> QED BY <1>1, <1>2, <2>1, <2>2
<1> QED BY <1>1, <1>3, <1>4, <1>5, <1>6 DEF m

\* A commit ends: one that is begun takes nothing along that is to come.
LEMMA FinishPending ==
  ASSUME BInv, Committing, NEW end, Finish(end)
  PROVE  /\ job'.pc = "idle" /\ (\A u \in Sessions : ~Begun(u)')
         /\ \A u \in Sessions : \A n : Chained(u, n)' => Pending(u, n)
         /\ \A u \in Sessions : \A n : Pending(u, n)' => Pending(u, n)
         /\ \A u \in Sessions : u # Holder \/ job.pc # "idle" =>
              (Leaving(u) => Leaving(u)') /\ \A n : Pending(u, n) => Pending(u, n)'
         /\ UNCHANGED <<linked, fresh, sent, used>>
<1>1. /\ job' = Idle /\ Holder = Head(lock) /\ Holder \in Sessions
      /\ chain[Holder] \in Seq(Commit) /\ chain[Holder] # <<>>
      /\ \A u \in Sessions : u # Holder => chain'[u] = chain[u]
      /\ Len(chain'[Holder]) = Len(chain[Holder]) - 1
      /\ \A k \in 1..Len(chain'[Holder]) :
           chain'[Holder][k] = chain[Holder][k + 1] /\ k + 1 \in 1..Len(chain[Holder])
  BY FinishOrders DEF BInv, PInv, Committing, Holder
<1>2. job'.pc = "idle" /\ \A u \in Sessions : ~Begun(u)' /\ (u # Holder => ~Begun(u))
  BY <1>1, IdleTyped DEF Begun
<1>3. UNCHANGED <<linked, fresh, sent, used>>
  BY DEF Finish
<1>4. \A u \in Sessions : \A n : Chained(u, n)' <=> Pending(u, n)'
  BY <1>2 DEF Chained, Pending, Brings
<1>5. ASSUME NEW u \in Sessions, u # Holder
      PROVE  (Leaving(u)' <=> Leaving(u)) /\ \A n : Pending(u, n)' <=> Pending(u, n)
  BY <1>1, <1>2, <1>5, SameChain
<1>6. ASSUME NEW u \in Sessions, u = Holder
      PROVE  /\ \A n : Pending(u, n)' => Pending(u, n)
             /\ job.pc # "idle" => (Leaving(u) => Leaving(u)') /\ \A n : Pending(u, n) => Pending(u, n)'
  <2>1. job.pc # "idle" => Begun(u)
    BY <1>1, <1>6 DEF Begun, Committing
  <2>2. /\ Len(chain[u]) \in Nat
        /\ \A k \in 1..Len(chain'[u]) : chain'[u][k] = chain[u][k + 1] /\ k + 1 \in 1..Len(chain[u]) /\ k + 1 # 1
        /\ \A k \in 1..Len(chain[u]) : k # 1 => k - 1 \in 1..Len(chain'[u]) /\ chain'[u][k - 1] = chain[u][k]
    <3>1. /\ Len(chain[u]) \in Nat /\ Len(chain'[u]) = Len(chain[u]) - 1
          /\ \A k \in 1..Len(chain'[u]) : chain'[u][k] = chain[u][k + 1] /\ k + 1 \in 1..Len(chain[u])
      BY <1>1, <1>6
    <3>2. ASSUME NEW k \in 1..Len(chain[u]), k # 1
          PROVE  k - 1 \in 1..Len(chain'[u]) /\ chain'[u][k - 1] = chain[u][k]
      <4>1. k - 1 \in 1..Len(chain'[u]) /\ (k - 1) + 1 = k
        BY <3>1, <3>2
      <4> QED BY <3>1, <4>1
    <3>3. \A k \in 1..Len(chain'[u]) : k + 1 # 1
      BY <3>1
    <3> QED BY <3>1, <3>2, <3>3
  <2>3. \A n : Pending(u, n)' <=> \E k \in 1..Len(chain'[u]) : n \in WithAliases(chain'[u][k].recs)
    BY <1>2 DEF Pending, Brings, WithAliases
  <2>4. \A n : Pending(u, n) <=> \E k \in 1..Len(chain[u]) : n \in WithAliases(chain[u][k].recs) /\ ~(k = 1 /\ Begun(u))
    BY DEF Pending, Brings
  <2>5. Leaving(u)' <=> \E k \in 1..Len(chain'[u]) : ~chain'[u][k].connected
    BY <1>2 DEF Leaving
  <2>6. Leaving(u) <=> \E k \in 1..Len(chain[u]) : ~chain[u][k].connected /\ ~(k = 1 /\ Begun(u))
    BY DEF Leaving
  <2>7. \A n : Pending(u, n)' => Pending(u, n)
    BY <2>2, <2>3, <2>4
  <2>8. ASSUME job.pc # "idle" PROVE (Leaving(u) => Leaving(u)') /\ \A n : Pending(u, n) => Pending(u, n)'
    BY <2>1, <2>2, <2>3, <2>4, <2>5, <2>6, <2>8
  <2> QED BY <2>7, <2>8
<1> QED BY <1>1, <1>2, <1>3, <1>4, <1>5, <1>6

\* A session that does not move stays tidy.
LEMMA SameTidy ==
  ASSUME NEW u \in Sessions, Tidy(u), chain'[u] = chain[u], sent'[u] = sent[u], u \in linked' <=> u \in linked
  PROVE  Tidy(u)'
  BY DEF Tidy, Brings, WithAliases

\* The end of a commit.
LEMMA FinishTidy ==
  ASSUME BInv, Committing, NEW end, Finish(end), NEW u \in Sessions, Tidy(u)
  PROVE  Tidy(u)'
<1>1. /\ Holder \in Sessions
      /\ chain[Holder] \in Seq(Commit) /\ chain[Holder] # <<>>
      /\ \A v \in Sessions : v # Holder => chain'[v] = chain[v]
      /\ Len(chain'[Holder]) = Len(chain[Holder]) - 1
      /\ \A k \in 1..Len(chain'[Holder]) :
           chain'[Holder][k] = chain[Holder][k + 1] /\ k + 1 \in 1..Len(chain[Holder])
      /\ chain' \in [Sessions -> Seq(Commit)]
  BY FinishOrders, FinishKeeps DEF BInv, PInv, Committing, Holder, Queued
<1>2. UNCHANGED <<linked, sent>>
  BY DEF Finish
<1>3. CASE u # Holder
  BY <1>1, <1>2, <1>3, SameTidy
<1>4. CASE u = Holder
  <2>1. /\ Len(chain[u]) \in Nat /\ Len(chain'[u]) = Len(chain[u]) - 1 /\ Len(chain'[u]) \in Nat
        /\ \A k \in 1..Len(chain'[u]) : chain'[u][k] = chain[u][k + 1] /\ k + 1 \in 1..Len(chain[u])
        /\ chain'[u] # <<>> => Len(chain'[u]) \in 1..Len(chain'[u])
        /\ chain[u] # <<>>
    <3>1. /\ chain[u] \in Seq(Commit) /\ chain[u] # <<>> /\ Len(chain'[u]) = Len(chain[u]) - 1
          /\ \A k \in 1..Len(chain'[u]) : chain'[u][k] = chain[u][k + 1] /\ k + 1 \in 1..Len(chain[u])
      BY <1>1, <1>4
    <3>2. chain'[u] \in Seq(Commit)
      BY <1>1
    <3>3. Len(chain[u]) \in Nat /\ Len(chain'[u]) \in Nat
      BY <3>1, <3>2
    <3>4. chain'[u] # <<>> => Len(chain'[u]) \in 1..Len(chain'[u])
      BY <3>2, <3>3
    <3> QED BY <3>1, <3>3, <3>4
  <2>2. /\ \A k, l \in 1..Len(chain'[u]) : k # l =>
             WithAliases(chain'[u][k].recs) \cap WithAliases(chain'[u][l].recs) = {}
        /\ \A k \in 1..Len(chain'[u]) :
             /\ ~chain'[u][k].connected => chain'[u][k].recs = {}
             /\ u \in linked => WithAliases(chain'[u][k].recs) \subseteq WithAliases(sent[u])
    <3>1. \A k, l \in 1..Len(chain'[u]) : k # l => k + 1 # l + 1
      BY <2>1
    <3>2. /\ \A k, l \in 1..Len(chain[u]) : k # l =>
               WithAliases(chain[u][k].recs) \cap WithAliases(chain[u][l].recs) = {}
          /\ \A k \in 1..Len(chain[u]) :
               /\ ~chain[u][k].connected => chain[u][k].recs = {}
               /\ u \in linked => WithAliases(chain[u][k].recs) \subseteq WithAliases(sent[u])
      BY DEF Tidy, Brings
    <3> QED BY <2>1, <3>1, <3>2
  <2>3. u \notin linked /\ chain'[u] # <<>> => ~chain'[u][Len(chain'[u])].connected
    <3>1. chain'[u] # <<>> => chain'[u][Len(chain'[u])] = chain[u][Len(chain[u])]
      BY <2>1
    <3> QED BY <2>1, <3>1 DEF Tidy
  <2>4. sent'[u] \subseteq Recs[u] /\ (u \notin linked => sent'[u] = {})
    BY <1>2 DEF Tidy
  <2> QED BY <1>2, <2>2, <2>3, <2>4 DEF Tidy, Brings, WithAliases
<1> QED BY <1>3, <1>4

\* A flush of records not sent before, or the disconnect.
LEMMA FlushTidy ==
  ASSUME BInv, NEW s \in Sessions, s \in linked, Tidy(s), NEW t \in Commit, t.recs \subseteq Recs[s],
         chain[s] \in Seq(Commit), chain'[s] = Append(chain[s], t),
         \/ t.connected /\ t.recs \cap sent[s] = {} /\ sent'[s] = sent[s] \cup t.recs /\ linked' = linked
         \/ ~t.connected /\ t.recs = {} /\ sent'[s] = {} /\ linked' = linked \ {s}
  PROVE  Tidy(s)'
<1> DEFINE m == Len(chain[s])
           W(k) == WithAliases(chain'[s][k].recs)
<1>1. /\ m \in Nat /\ Len(chain'[s]) = m + 1 /\ chain'[s][m + 1] = t
      /\ \A k \in 1..m : chain'[s][k] = chain[s][k]
      /\ \A k \in 1..Len(chain'[s]) : k \in 1..m \/ k = m + 1
      /\ chain'[s] # <<>>
  OBVIOUS
<1>2. /\ \A k \in 1..m : W(k) \subseteq WithAliases(sent[s])
      /\ \A k, l \in 1..m : k # l => W(k) \cap W(l) = {}
      /\ \A k \in 1..m : ~chain'[s][k].connected => chain'[s][k].recs = {}
      /\ sent[s] \in SUBSET Recs[s]
  BY <1>1 DEF Tidy, Brings
<1>3. W(m + 1) \cap WithAliases(sent[s]) = {}
  <2>1. t.connected => WithAliases(t.recs) \cap WithAliases(sent[s]) = {}
    BY <1>2, AliasesApart
  <2>2. ~t.connected => WithAliases(t.recs) = {}
    BY AliasesJoin
  <2> QED BY <1>1, <2>1, <2>2
<1>4. sent'[s] \subseteq Recs[s] /\ (s \notin linked' => sent'[s] = {})
  BY <1>2
<1>5. \A k \in 1..Len(chain'[s]) : s \in linked' => W(k) \subseteq WithAliases(sent'[s])
  <2>1. s \in linked' => sent'[s] = sent[s] \cup t.recs
    OBVIOUS
  <2>2. WithAliases(sent[s] \cup t.recs) = WithAliases(sent[s]) \cup WithAliases(t.recs)
    BY AliasesJoin
  <2> QED BY <1>1, <1>2, <2>1, <2>2
<1>6. s \notin linked' => ~chain'[s][Len(chain'[s])].connected
  BY <1>1
<1>7. \A k \in 1..Len(chain'[s]) : ~chain'[s][k].connected => chain'[s][k].recs = {}
  BY <1>1, <1>2
<1>8. \A k, l \in 1..Len(chain'[s]) : k # l => W(k) \cap W(l) = {}
  <2> HIDE DEF W, m
  <2> QED BY <1>1, <1>2, <1>3
<1> QED BY <1>4, <1>5, <1>6, <1>7, <1>8 DEF Tidy, Brings, WithAliases

\* Chaining a commit moves neither the thread nor another session.
LEMMA FlushThread ==
  ASSUME BInv, NEW s \in Sessions, s \in linked, NEW t \in Commit, t.recs \subseteq Recs[s],
         Flush(s, t), job' = job
  PROVE  /\ chain[s] \in Seq(Commit) /\ chain'[s] = Append(chain[s], t)
         /\ \A u \in Sessions : u # s => chain'[u] = chain[u]
         /\ \A u \in Sessions : (Begun(u)' <=> Begun(u)) /\ (Begun(u) => chain[u] # <<>>)
         /\ job.pc \in {"find", "write"} => Holder' = Holder /\ Transaction' = Transaction
<1>1. chain \in [Sessions -> Seq(Commit)] /\ chain' = [chain EXCEPT ![s] = Append(chain[s], t)]
  BY DEF BInv, PInv, Queued, Flush
<1>2. /\ chain[s] \in Seq(Commit) /\ chain'[s] = Append(chain[s], t)
      /\ \A u \in Sessions : u # s => chain'[u] = chain[u]
  BY <1>1
<1>3. lock # <<>> => lock' # <<>> /\ Head(lock') = Head(lock)
  BY FlushKeeps DEF BInv, PInv
<1>4. lock = <<>> => job.pc = "idle"
  BY DEF BInv, PInv, Held, JobTyped
<1>5. ASSUME NEW u \in Sessions PROVE (Begun(u)' <=> Begun(u)) /\ (Begun(u) => chain[u] # <<>>)
  <2>1. lock # <<>> => Head(lock) \in ToSet(lock)
    BY DistinctTail DEF BInv, PInv, Queued
  <2> QED BY <1>3, <1>4, <2>1 DEF Begun, BInv, PInv, Queued
<1>6. ASSUME job.pc \in {"find", "write"} PROVE Holder' = Holder /\ Transaction' = Transaction
  <2>1. lock # <<>> /\ Head(lock) # "stop" /\ Holder' = Holder
    BY <1>3, <1>6 DEF BInv, PInv, Held, Holder
  <2>2. Holder \in Sessions /\ chain[Holder] \in Seq(Commit) /\ chain[Holder] # <<>>
    BY <2>1, HolderFacts DEF BInv, PInv
  <2>3. Head(chain'[Holder]) = Head(chain[Holder])
    BY <1>2, <2>2
  <2> QED BY <2>1, <2>3 DEF Transaction
<1> QED BY <1>2, <1>5, <1>6

\* The commit a session chains when it flushes or its connection is lost.
LEMMA SessionFlush ==
  ASSUME BInv, NEW s \in Sessions, Tidy(s), Drop(s) \/ \E R \in SUBSET Recs[s] : Upload(s, R)
  PROVE  /\ s \in linked /\ sent \in [Sessions -> SUBSET Names]
         /\ UNCHANGED <<cf, up, running, memory, job, sweep, used, faults>>
         /\ \A u \in Sessions : u # s => sent'[u] = sent[u] /\ (u \in linked' <=> u \in linked)
         /\ \E t \in Commit :
              /\ t.recs \subseteq Recs[s] /\ Flush(s, t)
              /\ \/ /\ t.connected /\ t.recs \cap sent[s] = {} /\ sent'[s] = sent[s] \cup t.recs
                    /\ linked' = linked
                 \/ ~t.connected /\ t.recs = {} /\ sent'[s] = {} /\ linked' = linked \ {s}
<1>1. s \in linked /\ sent \in [Sessions -> SUBSET Names]
  BY DEF BInv, PInv, Typed, Drop, Upload
<1>2. CASE Drop(s)
  <2> DEFINE t == [initial |-> FALSE, connected |-> FALSE, recs |-> {}]
  <2>1. t \in Commit /\ t.recs \subseteq Recs[s] /\ ~t.connected /\ t.recs = {}
    BY DEF Commit
  <2>2. Flush(s, t) /\ linked' = linked \ {s} /\ sent' = [sent EXCEPT ![s] = {}]
        /\ UNCHANGED <<cf, up, running, memory, job, sweep, used, faults>>
    BY <1>2 DEF Drop
  <2> HIDE DEF t
  <2>3. sent'[s] = {} /\ \A u \in Sessions : u # s => sent'[u] = sent[u] /\ (u \in linked' <=> u \in linked)
    BY <1>1, <2>2
  <2> QED BY <1>1, <2>1, <2>2, <2>3
<1>3. ASSUME NEW R \in SUBSET Recs[s], Upload(s, R)
      PROVE  /\ UNCHANGED <<cf, up, running, memory, job, sweep, used, faults>>
             /\ \A u \in Sessions : u # s => sent'[u] = sent[u] /\ (u \in linked' <=> u \in linked)
             /\ \E t \in Commit : 
                  /\ t.recs \subseteq Recs[s] /\ Flush(s, t)
                  /\ t.connected /\ t.recs \cap sent[s] = {} /\ sent'[s] = sent[s] \cup t.recs
                  /\ linked' = linked
  <2> DEFINE t == [initial |-> s \in fresh, connected |-> TRUE, recs |-> R]
  <2>1. t \in Commit /\ t.recs = R
    BY RecsAssumption DEF Commit
  <2>2. t.connected = TRUE
    OBVIOUS
  <2>3. t.connected
    BY <2>2, Zenon
  <2>4. Flush(s, t) /\ linked' = linked /\ sent' = [sent EXCEPT ![s] = @ \cup R] /\ R \cap sent[s] = {}
        /\ UNCHANGED <<cf, up, running, memory, job, sweep, used, faults>>
    BY <1>3 DEF Upload
  <2> HIDE DEF t
  <2>5. sent'[s] = sent[s] \cup R /\ \A u \in Sessions : u # s => sent'[u] = sent[u] /\ (u \in linked' <=> u \in linked)
    BY <1>1, <2>4
  <2> QED BY <2>1, <2>3, <2>4, <2>5
<1> QED BY <1>1, <1>2, <1>3

\* Every step keeps the chains tidy.
LEMMA StepTidy ==
  ASSUME BInv, \A s \in Sessions : Tidy(s), [Next]_vars
  PROVE  \A s \in Sessions : Tidy(s)'
<1> SUFFICES ASSUME NEW u \in Sessions PROVE Tidy(u)'
  OBVIOUS
<1>1. CASE UNCHANGED <<chain, linked, sent>>
  BY <1>1, SameTidy
<1>2. ASSUME NEW end, Finish(end), Committing PROVE Tidy(u)'
  BY <1>2, FinishTidy
<1>3. ASSUME NEW s \in Sessions, Drop(s) \/ \E R \in SUBSET Recs[s] : Upload(s, R) PROVE Tidy(u)'
  <2>1. /\ s \in linked
        /\ UNCHANGED <<cf, up, running, memory, job, sweep, used, faults>>
        /\ \A v \in Sessions : v # s => sent'[v] = sent[v] /\ (v \in linked' <=> v \in linked)
        /\ \E t \in Commit :
              /\ t.recs \subseteq Recs[s] /\ Flush(s, t)
              /\ \/ /\ t.connected /\ t.recs \cap sent[s] = {} /\ sent'[s] = sent[s] \cup t.recs
                    /\ linked' = linked
                 \/ ~t.connected /\ t.recs = {} /\ sent'[s] = {} /\ linked' = linked \ {s}
    BY <1>3, SessionFlush
  <2>2. PICK t \in Commit :
              /\ t.recs \subseteq Recs[s] /\ Flush(s, t)
              /\ \/ /\ t.connected /\ t.recs \cap sent[s] = {} /\ sent'[s] = sent[s] \cup t.recs
                    /\ linked' = linked
                 \/ ~t.connected /\ t.recs = {} /\ sent'[s] = {} /\ linked' = linked \ {s}
    BY <2>1
  <2>3. /\ chain[s] \in Seq(Commit) /\ chain'[s] = Append(chain[s], t)
        /\ \A v \in Sessions : v # s => chain'[v] = chain[v]
    BY <2>1, <2>2, FlushThread
  <2>4. CASE u = s
    <3>1. Tidy(s)
      OBVIOUS
    <3> QED BY <2>1, <2>2, <2>3, <2>4, <3>1, FlushTidy
  <2>5. CASE u # s
    BY <2>1, <2>3, <2>5, SameTidy
  <2> QED BY <2>4, <2>5
<1>4. ASSUME NEW s \in Sessions, Connect(s) PROVE Tidy(u)'
  <2>1. s \notin used /\ linked' = linked \cup {s} /\ UNCHANGED <<chain, sent>>
    BY <1>4 DEF Connect
  <2>2. CASE u = s
    <3>1. chain[s] = <<>> /\ Len(chain[s]) = 0
      BY <2>1 DEF BInv, Ordered
    <3> QED BY <2>1, <2>2, <3>1 DEF Tidy
  <2>3. CASE u # s
    BY <2>1, <2>3, SameTidy
  <2> QED BY <2>2, <2>3
<1>5. CASE Exit
  <2>1. chain'[u] = <<>> /\ sent'[u] = {} /\ Len(chain'[u]) = 0
    BY <1>5 DEF Exit
  <2> QED BY <2>1 DEF Tidy
<1>6. CASE CommitStep
  <2>1. Committing
    BY <1>6 DEF CommitStep, BeginCommit, Find, FindFails, Write, WriteFails, GiveUp,
           BInv, PInv, Held, Committing, Holder
  <2>2. (\E end : Finish(end)) \/ UNCHANGED sessions
    BY <1>6 DEF CommitStep, BeginCommit, Find, FindFails, Write, WriteFails, GiveUp
  <2> QED BY <1>1, <1>2, <2>1, <2>2 DEF sessions
<1>7. CASE \/ startService \/ stopService \/ BeginStop \/ BeginTool \/ UNCHANGED vars
           \/ \E k \in Sweeps : SweepStep(k)
  <2>1. UNCHANGED sessions
    BY <1>7 DEF startService, stopService, BeginStop, BeginTool, vars, SweepStep, SweepFind,
           SweepUpdate, SweepFails
  <2> QED BY <1>1, <2>1 DEF sessions
<1> QED BY <1>3, <1>4, <1>5, <1>6, <1>7 DEF Next

\* A push that runs is never given up.
LEMMA GiveUpStopped ==
  ASSUME Undisturbed, BInv, GiveUp
  PROVE  ~running
<1>1. /\ job.tries \in Nat /\ faults \in 0..MaxFaults /\ MaxFaults \in Nat /\ maxRetries \in Nat
      /\ job.tries + faults <= MaxFaults
  BY BoundsAssumption DEF BInv, PInv, Typed, Tried
<1>2. MaxFaults < maxRetries => job.tries < maxRetries
  BY <1>1
<1> QED BY <1>2 DEF GiveUp, MayTry, Undisturbed

\* What a commit does to the tables before its first request.
LEMMA BeginOutcome ==
  ASSUME Undisturbed, BInv, BeginCommit
  PROVE  /\ Committing /\ job.pc = "idle" /\ UNCHANGED <<cf, up, running, sweep, faults>>
         /\ \/ /\ (\E end : Finish(end)) /\ UNCHANGED memory
               /\ running => ~Transaction.connected /\ ioc_channels[iocid[Holder]] = {}
            \/ /\ running /\ job'.pc = "find" /\ UNCHANGED <<lock, sessions>>
               /\ ioc_channels' = [ioc_channels EXCEPT ![iocid[Holder]] =
                    IF Transaction.connected THEN @ \cup WithAliases(Transaction.recs) ELSE {}]
<1> DEFINE i == iocid[Holder]
           R == Transaction.recs
<1>1. Committing /\ job.pc = "idle" /\ UNCHANGED <<cf, up, running, sweep, faults>>
  BY DEF BeginCommit
<1>2. i \in Iocids /\ R \in SUBSET Names /\ Holder \in Sessions /\ Lists /\ Agree
  BY <1>1, CommittingFacts DEF BInv, PInv
<1>3. ASSUME running, Transaction.connected, ~Transaction.initial
      PROVE  iocs[i] # Unknown
  <2>1. /\ Holder \in used /\ Holder \notin fresh /\ chain[Holder] # <<>> /\ chain[Holder] \in Seq(Commit)
    BY <1>1, HolderFacts DEF BInv, PInv, Committing, Holder, Ordered
  <2>2. Transaction = chain[Holder][1] /\ 1 \in 1..Len(chain[Holder])
    BY <2>1 DEF Transaction
  <2>3. ~chain[Holder][1].initial /\ chain[Holder][1].connected
    BY <1>3, <2>2
  <2> QED BY <1>2, <1>3, <2>1, <2>2, <2>3, KnownOf DEF BInv
<1>4. CASE running /\ ~Transaction.connected /\ iocs[i] # Unknown /\ ForgetChannels(i)
           /\ job' = [Idle EXCEPT !.pc = "find"] /\ UNCHANGED <<lock, sessions>>
  <2>1. job'.pc = "find"
    BY <1>4, IdleTyped
  <2>2. ioc_channels' = [ioc_channels EXCEPT ![i] = @ \ {n \in ioc_channels[i] : i \in ToSet(channel_ioc_ids[n])}]
    BY <1>4 DEF ForgetChannels
  <2>3. ioc_channels[i] = {n \in ioc_channels[i] : i \in ToSet(channel_ioc_ids[n])}
    BY <1>2 DEF Lists
  <2>4. ioc_channels' = [ioc_channels EXCEPT ![i] = {}]
    BY <2>2, <2>3
  <2> QED BY <1>1, <1>4, <2>1, <2>4
<1>5. CASE running /\ Transaction.connected /\ RegisterChannels(i, R, Transaction.initial)
           /\ job' = [Idle EXCEPT !.pc = "find"] /\ UNCHANGED <<lock, sessions>>
  <2>1. job'.pc = "find"
    BY <1>5, IdleTyped
  <2>2. ioc_channels' = [ioc_channels EXCEPT ![i] = @ \cup WithAliases(R)]
    BY <1>5 DEF RegisterChannels
  <2> QED BY <1>1, <1>5, <2>1, <2>2
<1>6. CASE UNCHANGED memory /\ (\E end : Finish(end)) /\ (running => ~Transaction.connected /\ iocs[i] = Unknown)
  BY <1>1, <1>2, <1>6 DEF Agree
<1>7. \/ UNCHANGED memory /\ (\E end : Finish(end)) /\ (running => ~Transaction.connected /\ iocs[i] = Unknown)
      \/ /\ running /\ ~Transaction.connected /\ iocs[i] # Unknown /\ ForgetChannels(i)
         /\ job' = [Idle EXCEPT !.pc = "find"] /\ UNCHANGED <<lock, sessions>>
      \/ /\ running /\ Transaction.connected /\ RegisterChannels(i, R, Transaction.initial)
         /\ job' = [Idle EXCEPT !.pc = "find"] /\ UNCHANGED <<lock, sessions>>
      \/ running /\ Transaction.connected /\ ~Transaction.initial /\ iocs[i] = Unknown
  BY DEF BeginCommit
<1> HIDE DEF i, R
<1> QED BY <1>3, <1>4, <1>5, <1>6, <1>7

\* The last IOC of a list is one that the tables have for the channel.
LEMMA OldValueRight ==
  ASSUME BInv, NEW n \in Names
  PROVE  /\ Right(OldValue(n), n)
         /\ OldValue(n).status # "Active" => OldValue(n).ioc = cf[n].ioc
<1> DEFINE q == channel_ioc_ids[n]
<1>1. q \in Seq(Iocids) /\ cf[n] \in Channel
  BY DEF BInv, PInv, Lists, Typed
<1>2. \A i \in Iocids : n \in ioc_channels[i] <=> i \in ToSet(q)
  BY DEF BInv, Agree
<1>3. \A i \in Iocids : n \in ioc_channels[i] => iocs[i] # Unknown
  BY DEF BInv, Agree
<1> HIDE DEF q
<1>4. CASE q # <<>>
  <2>1. Last(q) \in Iocids /\ Last(q) \in ToSet(q)
    BY <1>1, <1>4 DEF Last, ToSet
  <2>2. OldValue(n) = Owned(Last(q))
    BY <1>2, <1>3, <1>4, <2>1 DEF OldValue, q
  <2>3. OldValue(n).status = "Active" /\ OldValue(n).ioc = Last(q)
    BY <2>2 DEF Owned
  <2> QED BY <1>2, <2>1, <2>3 DEF Right
<1>5. CASE q = <<>>
  <2>1. ToSet(q) = {}
    BY <1>5 DEF ToSet
  <2>2. OldValue(n) = Orphan(n)
    BY <1>5 DEF OldValue, q
  <2>3. OldValue(n).status = "Inactive" /\ OldValue(n).ioc = cf[n].ioc
    BY <1>1, <2>2 DEF Orphan, Channel
  <2> QED BY <1>2, <2>1, <2>3 DEF Right
<1> QED BY <1>4, <1>5

\* What the queries lead to: nothing was due, or all that is due gets its value.
LEMMA FindOutcome ==
  ASSUME Undisturbed, YInv, Find
  PROVE  /\ Committing /\ job.pc = "find" /\ running /\ UNCHANGED <<cf, up, running, memory, sweep, faults>>
         /\ \/ (\E end : Finish(end)) /\ \A n \in Names : ~Due(n)
            \/ UNCHANGED <<lock, sessions>> /\ job'.pc = "write" /\ Writing'
<1> DEFINE h == Holder
           i == iocid[Holder]
           N == Transaction.recs
           T == {n \in Names : cf[n].status # "Absent" /\ cf[n].ioc = i}
<1>1. Committing /\ job.pc = "find" /\ running /\ UNCHANGED <<cf, up, running, memory, sweep, faults>>
  BY DEF Find, MayTry
<1>2. /\ h \in Sessions /\ i \in Iocids /\ N \in SUBSET Names /\ h = Head(lock) /\ lock # <<>>
      /\ chain[h] \in Seq(Commit) /\ chain[h] # <<>> /\ Transaction = chain[h][1] /\ 1 \in 1..Len(chain[h])
  BY <1>1, HolderFacts DEF YInv, BInv, PInv, Committing, Holder, Transaction
<1>3. Follows(h) /\ Tidy(h) /\ Begun(h) /\ WithAliases(N) = Brings(h, 1)
  BY <1>1, <1>2 DEF YInv, Present, Begun, Brings
<1>4. WithAliases(N) \subseteq Names /\ N \subseteq WithAliases(N) /\ WithAliases(N) \subseteq ioc_channels[i]
  BY <1>2, <1>3, AliasNames DEF Follows, WithAliases
<1>5. \A n \in WithAliases(N) : cf[n].ioc # i
  BY <1>2, <1>3, <1>4 DEF Follows, Chained
<1>6. N \cap T = {} /\ T \in SUBSET Names
  BY <1>4, <1>5
<1>7. ~Transaction.connected => N = {}
  BY <1>2, <1>3 DEF Tidy
<1>8. \A n \in Names : Due(n) => n \in WithAliases(N) \/ (N = {} /\ n \in T)
  <2>1. \A n \in Names : cf[n].status = "Active" => cf[n].status # "Absent"
    OBVIOUS
  <2> QED BY <1>7, <2>1 DEF Due
<1>9. \A n \in Names : Owned(i).status = "Active" /\ Owned(i).ioc = i
  BY DEF Owned
<1>10. find_by_ioc_id(i) = Pages(T)
  BY DEF find_by_ioc_id
<1>11. Lists /\ job = [pc |-> job.pc, tries |-> job.tries, towrite |-> job.towrite]
  BY DEF YInv, BInv, PInv, JobTyped
<1>12. ASSUME NEW old \in find_by_ioc_id(i), NEW L \in OldOnly(old, N)
       PROVE  /\ old = T /\ ~\E n \in N \cap old : Aliases[n] # {}
              /\ L = IF N = {} THEN T ELSE {}
              /\ ToWrite(i, old, N, L) =
                   [n \in L \cup WithAliases(N) |-> IF n \in WithAliases(N) THEN Owned(i) ELSE OldValue(n)]
  <2> HIDE DEF T, i, N
  <2>1. old = T
    BY <1>6, <1>10, PageIsAll DEF Undisturbed
  <2>2. N \ old = N /\ ~\E n \in N \cap old : Aliases[n] # {}
    BY <1>6, <2>1
  <2>3. L = IF N = {} THEN T ELSE {}
    BY <1>6, <2>1 DEF OldOnly
  <2>4. L \cup N \cup WithAliases(N \ old) = L \cup WithAliases(N)
    BY <1>4, <2>2
  <2>5. ToWrite(i, old, N, L) =
          [n \in L \cup WithAliases(N) |-> IF n \in WithAliases(N) THEN Owned(i) ELSE OldValue(n)]
    BY <1>4, <2>2, <2>4 DEF ToWrite
  <2> QED BY <2>1, <2>2, <2>3, <2>5
<1>13. PICK old \in find_by_ioc_id(i) : \E L \in OldOnly(old, N) :
         IF \E n \in N \cap old : Aliases[n] # {}
           THEN Finish("error")
         ELSE IF DOMAIN ToWrite(i, old, N, L) = {}
           THEN Finish("ok")
         ELSE /\ job' = [job EXCEPT !.pc = "write", !.towrite = ToWrite(i, old, N, L)]
              /\ UNCHANGED <<lock, sessions>>
  BY DEF Find
<1>14. PICK L \in OldOnly(old, N) :
         IF \E n \in N \cap old : Aliases[n] # {}
           THEN Finish("error")
         ELSE IF DOMAIN ToWrite(i, old, N, L) = {}
           THEN Finish("ok")
         ELSE /\ job' = [job EXCEPT !.pc = "write", !.towrite = ToWrite(i, old, N, L)]
              /\ UNCHANGED <<lock, sessions>>
  BY <1>13
<1> DEFINE D == L \cup WithAliases(N)
           V == [n \in D |-> IF n \in WithAliases(N) THEN Owned(i) ELSE OldValue(n)]
<1>15. /\ L = (IF N = {} THEN T ELSE {}) /\ ToWrite(i, old, N, L) = V /\ DOMAIN V = D
       /\ ~\E n \in N \cap old : Aliases[n] # {}
  BY <1>12
<1>16. D \subseteq Names /\ \A n \in Names : Due(n) => n \in D
  BY <1>4, <1>6, <1>8, <1>15
<1>17. CASE D = {}
  <2>1. Finish("ok") /\ \A n \in Names : ~Due(n)
    <3> HIDE DEF D, V, T, i, N
    <3> QED BY <1>14, <1>15, <1>16, <1>17
  <2> QED BY <1>1, <2>1
<1>18. CASE D # {}
  <2>1. job' = [job EXCEPT !.pc = "write", !.towrite = V] /\ UNCHANGED <<lock, sessions>>
    <3> HIDE DEF D, V, T, i, N
    <3> QED BY <1>14, <1>15, <1>18
  <2>2. job' = [pc |-> "write", tries |-> job.tries, towrite |-> V]
    <3> HIDE DEF D, V, T, i, N
    <3> QED BY <1>11, <2>1
  <2>3. ASSUME NEW n \in D
        PROVE  Right(V[n], n) /\ (V[n].status # "Active" => V[n].ioc = cf[n].ioc)
    <3>1. n \in Names
      BY <1>16
    <3>2. CASE n \in WithAliases(N)
      <4>1. V[n] = Owned(i) /\ n \in ioc_channels[i]
        BY <1>4, <3>2
      <4> QED BY <1>2, <1>9, <3>1, <4>1 DEF Right
    <3>3. CASE n \notin WithAliases(N)
      <4>1. V[n] = OldValue(n)
        BY <3>3
      <4> HIDE DEF V, D
      <4> QED BY <3>1, <4>1, OldValueRight DEF YInv
    <3> QED BY <3>2, <3>3
  <2>4. \A n \in Names : Due(n)' <=> Due(n)
    <3>1. Holder' = Holder /\ Transaction' = Transaction /\ job'.pc = "write"
      BY <2>1, <2>2 DEF Holder, Transaction, sessions
    <3>2. cf' = cf /\ job.pc = "find"
      BY <1>1
    <3> QED BY <3>1, <3>2 DEF Due, WithAliases
  <2>5. Writing'
    <3>1. job'.towrite = V /\ DOMAIN V = D /\ job'.pc = "write" /\ cf' = cf /\ ioc_channels' = ioc_channels
      BY <1>1, <2>2 DEF memory
    <3> HIDE DEF V, D, T, i, N
    <3> QED BY <1>16, <2>3, <2>4, <3>1 DEF Writing, Right
  <2> QED BY <1>1, <2>1, <2>2, <2>5
<1> QED BY <1>17, <1>18

\* One chunk holds what is to be written.
LEMMA WriteOutcome ==
  ASSUME Undisturbed, BInv, Write
  PROVE  /\ Committing /\ job.pc = "write" /\ UNCHANGED <<up, running, memory, sweep, faults>>
         /\ Finish("ok")
         /\ \A n \in Names : cf'[n] = IF n \in DOMAIN job.towrite THEN job.towrite[n] ELSE cf[n]
<1>1. job.pc = "write" /\ UNCHANGED <<up, running, memory, sweep, faults>>
  BY DEF Write
<1>2. Committing
  BY <1>1 DEF BInv, PInv, Held, Committing, Holder
<1> DEFINE D == DOMAIN job.towrite
<1>3. D \in SUBSET Names
  BY DEF BInv, PInv, JobTyped
<1>4. PICK C \in Pages(D) : cf' = Written(C) /\ (C = D => Finish("ok"))
  BY DEF Write
<1>5. C = D
  <2> HIDE DEF D
  <2> QED BY <1>3, PageIsAll DEF Undisturbed
<1> QED BY <1>1, <1>2, <1>4, <1>5 DEF Written

\* A thread that does not move has the same channels to write.
LEMMA SameDue ==
  ASSUME cf' = cf, job'.pc = job.pc \/ {job'.pc, job.pc} \subseteq {"find", "write"},
         job.pc \in {"find", "write"} => Holder' = Holder /\ Transaction' = Transaction
  PROVE  \A n \in Names : Due(n)' <=> Due(n)
  BY DEF Due, WithAliases

\* The one sweep is that of stopService: it holds the lock and makes nothing Active.
LEMMA StopSweeps ==
  ASSUME BInv, Past, NEW k \in Sweeps, SweepStep(k)
  PROVE  /\ k = "stop" /\ job.pc = "clean" /\ "stop" \in ToSet(lock) /\ up /\ ~running
         /\ UNCHANGED <<up, running, memory, sessions>>
         /\ sweep'["start"] = sweep["start"] /\ sweep'["tool"] = sweep["tool"]
         /\ job'.pc \in {"idle", "clean"}
         /\ cf' = cf \/ \A n \in Names : cf'[n] = cf[n] \/ cf'[n] = [cf[n] EXCEPT !.status = "Inactive"]
<1>1. sweep[k].pc # "off" /\ UNCHANGED <<up, running, memory, sessions>>
  BY DEF SweepStep, SweepFind, SweepUpdate, SweepFails
<1>2. k = "stop" /\ job.pc = "clean"
  BY <1>1 DEF Past, Sweeps, BInv, PInv, Held
<1>3. lock # <<>> /\ Head(lock) = "stop"
  BY <1>2 DEF BInv, PInv, Held
<1>4. "stop" \in ToSet(lock)
  BY <1>3, DistinctTail DEF BInv, PInv, Queued
<1>5. up /\ ~running
  BY <1>4 DEF BInv, PInv, Held
<1>6. sweep \in [Sweeps -> Sweep] /\ {"start", "tool"} \subseteq Sweeps
  BY DEF BInv, PInv, Typed, Sweeps
<1>7. sweep'["start"] = sweep["start"] /\ sweep'["tool"] = sweep["tool"]
  BY <1>2, <1>6 DEF SweepStep, SweepFind, SweepUpdate, SweepFails, EndSweep
<1>8. job' = job \/ job' = Idle
  BY DEF SweepStep, SweepFind, SweepUpdate, SweepFails, EndSweep
<1>9. cf' = cf \/ \A n \in Names : cf'[n] = cf[n] \/ cf'[n] = [cf[n] EXCEPT !.status = "Inactive"]
  BY DEF SweepStep, SweepFind, SweepUpdate, SweepFails
<1> QED BY <1>1, <1>2, <1>4, <1>5, <1>7, <1>8, <1>9, IdleTyped

\* What a thread is about to write stays right until it is written.
LEMMA StepWriting ==
  ASSUME Undisturbed, YInv, [Next]_vars
  PROVE  Writing'
<1>1. CASE job'.pc # "write"
  BY <1>1 DEF Writing
<1>2. ASSUME UNCHANGED <<cf, memory, job>>,
             job.pc \in {"find", "write"} => Holder' = Holder /\ Transaction' = Transaction
      PROVE  Writing'
  <2>1. \A n \in Names : Due(n)' <=> Due(n)
    BY <1>2, SameDue
  <2>2. ioc_channels' = ioc_channels
    BY <1>2 DEF memory
  <2> QED BY <1>2, <2>1, <2>2 DEF YInv, Writing, Right
<1>3. CASE UNCHANGED <<cf, memory, job, lock, chain>>
  <2>1. Holder' = Holder /\ Transaction' = Transaction
    BY <1>3 DEF Holder, Transaction
  <2> QED BY <1>2, <1>3, <2>1
<1>4. CASE startService \/ BeginTool \/ UNCHANGED vars \/ \E s \in Sessions : Connect(s)
  BY <1>3, <1>4 DEF startService, BeginTool, vars, Connect, sessions
<1>5. CASE stopService
  <2>1. UNCHANGED <<cf, memory, job, chain>> /\ lock' = Append(lock, "stop")
    BY <1>5 DEF stopService, sessions
  <2>2. lock \in Seq(Users) /\ (job.pc \in {"find", "write"} => lock # <<>>)
    BY DEF YInv, BInv, PInv, Queued, Held
  <2>3. job.pc \in {"find", "write"} => Head(lock') = Head(lock)
    BY <2>1, <2>2
  <2> QED BY <1>2, <2>1, <2>3 DEF Holder, Transaction
<1>6. ASSUME NEW s \in Sessions, Drop(s) \/ \E R \in SUBSET Recs[s] : Upload(s, R) PROVE Writing'
  <2>1. /\ s \in linked
        /\ UNCHANGED <<cf, up, running, memory, job, sweep, used, faults>>
        /\ \E t \in Commit : t.recs \subseteq Recs[s] /\ Flush(s, t)
    BY <1>6, SessionFlush DEF YInv
  <2>2. job.pc \in {"find", "write"} => Holder' = Holder /\ Transaction' = Transaction
    BY <2>1, FlushThread DEF YInv
  <2> QED BY <1>2, <2>1, <2>2
<1>7. CASE Exit \/ BeginStop
  <2>1. job' = Idle \/ job' = [Idle EXCEPT !.pc = "clean"] \/ (job' = job /\ job.pc = "idle")
    BY <1>7 DEF Exit, BeginStop
  <2>2. job'.pc # "write"
    BY <2>1, IdleTyped
  <2> QED BY <1>1, <2>2
<1>8. ASSUME NEW k \in Sweeps, SweepStep(k) PROVE Writing'
  <2>1. job'.pc \in {"idle", "clean"}
    BY <1>8, StopSweeps DEF YInv
  <2> QED BY <1>1, <2>1
<1>9. CASE \E end : Finish(end)
  BY <1>1, <1>9, IdleTyped DEF Finish
<1>10. CASE BeginCommit
  <2>1. (\E end : Finish(end)) \/ job'.pc = "find"
    BY <1>10, BeginOutcome DEF YInv
  <2> QED BY <1>1, <1>9, <2>1
<1>11. CASE Find
  BY <1>9, <1>11, FindOutcome
<1>12. CASE Write
  BY <1>9, <1>12, WriteOutcome DEF YInv
<1>13. CASE FindFails \/ WriteFails
  <2>1. job = [pc |-> job.pc, tries |-> job.tries, towrite |-> job.towrite]
    BY DEF YInv, BInv, PInv, JobTyped
  <2>2. job'.pc = "find"
    BY <1>13, <2>1 DEF FindFails, WriteFails
  <2> QED BY <1>1, <2>2
<1>14. CASE GiveUp
  BY <1>9, <1>14 DEF GiveUp
<1> QED BY <1>4, <1>5, <1>6, <1>7, <1>8, <1>10, <1>11, <1>12, <1>13, <1>14 DEF Next, CommitStep

\* The process that has ended leaves nothing Active behind.
LEMMA StepPast ==
  ASSUME Undisturbed, YInv, [Next]_vars
  PROVE  Past'
<1>0. /\ sweep["start"].pc = "off" /\ sweep["tool"].pc = "off" /\ sweep \in [Sweeps -> Sweep]
      /\ {"start", "tool", "stop"} = Sweeps /\ cf \in [Names -> Channel]
      /\ ioc_channels \in [Iocids -> SUBSET Names]
  BY DEF YInv, Past, BInv, PInv, Typed, Lists, Sweeps
<1>1. ASSUME UNCHANGED <<cf, up, ioc_channels>>, used \subseteq used',
             sweep'["start"].pc = "off" /\ sweep'["tool"].pc = "off"
      PROVE  Past'
  BY <1>1 DEF YInv, Past
<1>2. CASE startService
  <2>1. ~up /\ up' = TRUE /\ sweep' = sweep /\ UNCHANGED <<cf, memory, sessions>>
    BY <1>2 DEF startService, Undisturbed
  <2>2. up'
    BY <2>1, Zenon
  <2>3. UNCHANGED <<cf, ioc_channels, used, sweep>>
    BY <2>1 DEF memory, sessions
  <2> QED BY <2>2, <2>3 DEF YInv, Past
<1>3. CASE Exit
  <2>1. /\ up /\ ~running /\ "stop" \notin ToSet(lock) /\ UNCHANGED <<cf, used>>
        /\ ioc_channels' = [i \in Iocids |-> {}]
        /\ sweep' = [sweep EXCEPT !["start"] = NoSweep, !["stop"] = NoSweep]
    BY <1>3 DEF Exit, Undisturbed, Amnesia
  <2>2. sweep'["start"].pc = "off" /\ sweep'["tool"].pc = "off"
    BY <1>0, <2>1, NoSweepTyped
  <2>3. \A n \in Names : cf[n].status # "Active"
    BY <2>1 DEF YInv, Past, Stopped, NoneActive
  <2>4. \A s \in Sessions : ioc_channels'[iocid[s]] = {}
    BY <2>1 DEF Iocids
  <2> QED BY <2>1, <2>2, <2>3, <2>4 DEF YInv, Past
<1>4. CASE BeginStop
  <2>1. UNCHANGED <<cf, up, ioc_channels, used>>
    BY <1>4 DEF BeginStop, memory, sessions
  <2>2. sweep'["start"] = sweep["start"] /\ sweep'["tool"] = sweep["tool"]
    BY <1>0, <1>4 DEF BeginStop
  <2> QED BY <1>0, <1>1, <2>1, <2>2
<1>5. ASSUME NEW k \in Sweeps, SweepStep(k) PROVE Past'
  <2>1. /\ up /\ UNCHANGED <<up, memory, sessions>>
        /\ sweep'["start"] = sweep["start"] /\ sweep'["tool"] = sweep["tool"]
        /\ cf' = cf \/ \A n \in Names : cf'[n] = cf[n] \/ cf'[n] = [cf[n] EXCEPT !.status = "Inactive"]
    BY <1>5, StopSweeps DEF YInv
  <2>2. UNCHANGED <<up, ioc_channels, used>>
    BY <2>1 DEF memory, sessions
  <2>3. \A n \in Names : cf'[n].ioc = cf[n].ioc /\ (cf'[n].status = "Active" => cf[n].status = "Active")
    BY <1>0, <2>1 DEF Channel
  <2> QED BY <1>0, <2>1, <2>2, <2>3 DEF YInv, Past
<1>6. CASE BeginCommit
  <2>1. /\ Committing /\ UNCHANGED <<cf, up, sweep>>
        /\ \/ (\E end : Finish(end)) /\ UNCHANGED memory
           \/ /\ UNCHANGED sessions
              /\ \E X : ioc_channels' = [ioc_channels EXCEPT ![iocid[Holder]] = X]
    BY <1>6, BeginOutcome DEF YInv
  <2>2. used' = used
    BY <2>1 DEF Finish, sessions
  <2>3. Holder \in Sessions /\ Holder \in used
    BY <2>1, HolderFacts DEF YInv, BInv, PInv, Ordered, Committing, Holder
  <2>4. \A s \in Sessions : ioc_channels'[iocid[s]] # {} => s \in used
    <3> SUFFICES ASSUME NEW s \in Sessions, s # Holder, ioc_channels'[iocid[s]] # {} PROVE s \in used
      BY <2>3
    <3>1. iocid[s] # iocid[Holder]
      BY <2>3, RecsAssumption DEF Undisturbed, IsInjective
    <3>2. ioc_channels'[iocid[s]] = ioc_channels[iocid[s]]
      BY <1>0, <2>1, <3>1 DEF memory, Iocids
    <3> QED BY <3>2 DEF YInv, Past
  <2> QED BY <1>0, <2>1, <2>2, <2>4 DEF YInv, Past
<1>7. CASE Write
  <2>1. /\ job.pc = "write" /\ UNCHANGED <<up, memory, sweep>> /\ Finish("ok") /\ Committing
        /\ \A n \in Names : cf'[n] = IF n \in DOMAIN job.towrite THEN job.towrite[n] ELSE cf[n]
    BY <1>7, WriteOutcome DEF YInv
  <2>2. UNCHANGED <<up, ioc_channels, used, sweep>>
    BY <2>1 DEF memory, Finish
  <2>3. up
    <3>1. Holder \in Sessions /\ chain[Holder] # <<>>
      BY <2>1, HolderFacts DEF YInv, BInv, PInv, Committing, Holder
    <3> QED BY <3>1, UpWhileChained DEF YInv
  <2>4. ASSUME NEW n \in Names
        PROVE  \/ cf'[n] = cf[n]
               \/ cf'[n].status = "Active" /\ cf'[n].ioc \in Iocids /\ n \in ioc_channels[cf'[n].ioc]
               \/ cf'[n].status # "Active" /\ cf'[n].ioc = cf[n].ioc
    BY <2>1 DEF YInv, Writing, Right
  <2>5. \A n \in Names : cf'[n].status = "Active" => cf'[n].ioc # NoIoc
    BY <2>4, NoIocAssumption DEF YInv, Past
  <2>6. \A s \in Sessions : \A n \in Names : cf'[n].ioc = iocid[s] => s \in used
    BY <2>4 DEF YInv, Past
  <2> QED BY <1>0, <2>2, <2>3, <2>5, <2>6 DEF YInv, Past
<1>8. CASE GiveUp
  <2>1. /\ Finish("cancelled") /\ Committing /\ UNCHANGED <<cf, up, sweep>>
        /\ UNCHANGED memory \/ ioc_channels' = [ioc_channels EXCEPT ![iocid[Holder]] = {}]
    BY <1>8 DEF GiveUp
  <2>2. used' = used
    BY <2>1 DEF Finish
  <2>3. \A s \in Sessions : ioc_channels'[iocid[s]] # {} => ioc_channels[iocid[s]] # {}
    BY <1>0, <2>1 DEF memory, Iocids
  <2> QED BY <1>0, <2>1, <2>2, <2>3 DEF YInv, Past
<1>9. CASE Find \/ FindFails \/ WriteFails
  <2>1. UNCHANGED <<cf, up, memory, sweep>> /\ (UNCHANGED sessions \/ \E end : Finish(end))
    BY <1>9 DEF Find, FindFails, WriteFails, Undisturbed
  <2>2. UNCHANGED <<cf, up, ioc_channels, used, sweep>>
    BY <2>1 DEF memory, sessions, Finish
  <2> QED BY <1>0, <1>1, <2>2
<1>10. CASE \/ stopService \/ UNCHANGED vars
            \/ \E s \in Sessions : Connect(s) \/ Drop(s) \/ \E R \in SUBSET Recs[s] : Upload(s, R)
  <2>1. UNCHANGED <<cf, up, memory, sweep>> /\ used \subseteq used'
    BY <1>10 DEF stopService, vars, Connect, Drop, Upload, sessions
  <2> QED BY <1>0, <1>1, <2>1 DEF memory
<1>11. CASE BeginTool
  BY <1>11 DEF BeginTool, Undisturbed
<1> QED BY <1>2, <1>3, <1>4, <1>5, <1>6, <1>7, <1>8, <1>9, <1>10, <1>11 DEF Next, CommitStep

\* Follows for one session, when its chain, its thread, its tables and what
\* ChannelFinder says of it do not move.
LEMMA SameFollows ==
  ASSUME NEW u \in Sessions, Follows(u), chain'[u] = chain[u], Begun(u)' <=> Begun(u),
         sent'[u] = sent[u], u \in linked' <=> u \in linked, cf' = cf,
         ioc_channels'[iocid[u]] = ioc_channels[iocid[u]]
  PROVE  Follows(u)'
<1>1. /\ \A n : (Pending(u, n)' <=> Pending(u, n)) /\ (Chained(u, n)' <=> Chained(u, n))
      /\ Leaving(u)' <=> Leaving(u)
      /\ \A k : Brings(u, k)' = Brings(u, k)
  BY SameChain
<1>2. WithAliases(sent[u])' = WithAliases(sent[u])
  BY DEF WithAliases
<1> QED BY <1>1, <1>2 DEF Follows

\* A session begins a commit of its own: what that brings moves from the chain to
\* the tables, or the tables are emptied.
LEMMA BeginPresent ==
  ASSUME Undisturbed, YInv, running, Committing, job.pc = "idle", job'.pc = "find", cf' = cf,
         UNCHANGED <<lock, chain, linked, sent>>,
         ioc_channels' = [ioc_channels EXCEPT ![iocid[Holder]] =
           IF Transaction.connected THEN @ \cup WithAliases(Transaction.recs) ELSE {}]
  PROVE  (\A s \in Sessions : Follows(s)') /\ \A n \in Names : ~Due(n)' => Right(cf[n], n)'
<1>1. PICK h \in Sessions : h = Holder
  BY CommittingFacts DEF YInv, BInv
<1>2. PICK t \in Commit : t = Transaction
  BY CommittingFacts DEF YInv, BInv
<1>3. PICK i \in Iocids : i = iocid[h]
  BY DEF Iocids
<1>4. /\ h = Head(lock) /\ lock # <<>> /\ chain[h] \in Seq(Commit) /\ chain[h] # <<>>
      /\ t = chain[h][1] /\ 1 \in 1..Len(chain[h]) /\ Len(chain[h]) \in 1..Len(chain[h])
      /\ WithAliases(t.recs) = Brings(h, 1)
  <2>1. h = Head(lock) /\ lock # <<>> /\ chain[h] \in Seq(Commit) /\ chain[h] # <<>>
    BY <1>1, HolderFacts DEF YInv, BInv, PInv, Committing, Holder
  <2>2. t = chain[h][1] /\ 1 \in 1..Len(chain[h]) /\ Len(chain[h]) \in 1..Len(chain[h])
    BY <1>1, <1>2, <2>1 DEF Transaction
  <2> QED BY <2>1, <2>2 DEF Brings
<1>5. /\ Begun(h)' /\ ~Begun(h) /\ \A u \in Sessions : u # h => ~Begun(u)' /\ ~Begun(u)
  BY <1>4 DEF Begun
<1>6. /\ ioc_channels \in [Iocids -> SUBSET Names]
      /\ ioc_channels' = [ioc_channels EXCEPT ![i] = IF t.connected THEN @ \cup Brings(h, 1) ELSE {}]
  BY <1>1, <1>2, <1>3, <1>4 DEF YInv, BInv, PInv, Lists
<1>7. /\ ioc_channels'[i] = (IF t.connected THEN ioc_channels[i] \cup Brings(h, 1) ELSE {})
      /\ \A j \in Iocids : j # i => ioc_channels'[j] = ioc_channels[j]
  BY <1>6
<1>8. ASSUME NEW u \in Sessions, u # h PROVE Follows(u)'
  <2>1. iocid[u] # i /\ iocid[u] \in Iocids
    BY <1>3, <1>8, RecsAssumption DEF Undisturbed, IsInjective, Iocids
  <2>2. Follows(u)
    BY DEF YInv, Present
  <2> QED BY <1>5, <1>7, <1>8, <2>1, <2>2, SameFollows
<1>9. Follows(h) /\ Tidy(h) /\ (~t.connected => h \notin linked)
  BY <1>4 DEF YInv, Present, BInv, Ordered
<1>10. \A k : Brings(h, k)' = Brings(h, k)
  BY DEF Brings, WithAliases
<1>11. \A n : (Chained(h, n)' <=> Chained(h, n)) /\ (Pending(h, n) <=> Chained(h, n))
  BY <1>5, <1>10 DEF Chained, Pending
<1>12. \A n : Pending(h, n)' <=> Chained(h, n) /\ n \notin Brings(h, 1)
  <2>1. \A k \in 1..Len(chain[h]) : k # 1 => Brings(h, k) \cap Brings(h, 1) = {}
    BY <1>4, <1>9 DEF Tidy
  <2>2. \A n : Pending(h, n)' <=> \E k \in 1..Len(chain[h]) : n \in Brings(h, k) /\ k # 1
    BY <1>5, <1>10 DEF Pending
  <2>3. \A n : Chained(h, n) <=> \E k \in 1..Len(chain[h]) : n \in Brings(h, k)
    BY DEF Chained
  <2> QED BY <1>4, <2>1, <2>2, <2>3
<1>13. h \notin linked /\ ~Leaving(h)' => ~t.connected
  <2> SUFFICES ASSUME h \notin linked, t.connected PROVE Leaving(h)'
    OBVIOUS
  <2>1. ~chain[h][Len(chain[h])].connected /\ Len(chain[h]) # 1
    BY <1>4, <1>9 DEF Tidy
  <2> QED BY <1>4, <2>1 DEF Leaving
<1>14. ~t.connected => Brings(h, 1) = {}
  BY <1>4, <1>9, AliasesJoin DEF Tidy
<1>15. Follows(h)'
  <2>0. WithAliases(sent[h])' = WithAliases(sent[h]) /\ iocid[h] = i
    BY <1>3 DEF WithAliases
  <2>1. ASSUME NEW n \in Names
        PROVE  /\ n \in ioc_channels'[i] => ~Pending(h, n)'
               /\ cf[n].ioc = i => ~Chained(h, n)' /\ (h \in linked => n \in WithAliases(sent[h]))
               /\ h \in linked => (n \in WithAliases(sent[h]) <=> n \in ioc_channels'[i] \/ Pending(h, n)')
    <3>1. /\ n \in ioc_channels[i] => ~Pending(h, n)
          /\ cf[n].ioc = i => ~Chained(h, n) /\ (h \in linked => n \in WithAliases(sent[h]))
          /\ h \in linked => (n \in WithAliases(sent[h]) <=> n \in ioc_channels[i] \/ Pending(h, n))
      BY <1>9, <2>0 DEF Follows
    <3>2. n \in Brings(h, 1) => Chained(h, n)
      BY <1>4 DEF Chained
    <3> QED BY <1>7, <1>9, <1>11, <1>12, <3>1, <3>2
  <2>2. h \notin linked /\ ~Leaving(h)' => ioc_channels'[i] = {}
    BY <1>7, <1>13
  <2>3. Brings(h, 1)' \subseteq ioc_channels'[i]
    BY <1>7, <1>10, <1>14
  <2> QED BY <2>0, <2>1, <2>2, <2>3 DEF Follows
<1>16. ASSUME NEW n \in Names, ~Due(n)' PROVE Right(cf[n], n)'
  <2>1. /\ cf[n].status = "Active" <=> \E j \in Iocids : n \in ioc_channels[j]
        /\ cf[n].status = "Active" => cf[n].ioc \in Iocids /\ n \in ioc_channels[cf[n].ioc]
    BY DEF YInv, Present, Due, Right
  <2>2. n \notin Brings(h, 1) /\ (~t.connected /\ cf[n].status = "Active" => cf[n].ioc # i)
    <3>1. Holder' = h /\ Transaction' = t
      BY <1>1, <1>2 DEF Holder, Transaction
    <3> QED BY <1>3, <1>4, <1>16, <3>1 DEF Due, WithAliases
  <2>3. \A j \in Iocids : n \in ioc_channels'[j] => n \in ioc_channels[j]
    BY <1>7, <2>2
  <2>4. cf[n].status = "Active" => n \in ioc_channels'[cf[n].ioc]
    BY <1>7, <2>1, <2>2
  <2> QED BY <2>1, <2>3, <2>4 DEF Right
<1> QED BY <1>8, <1>15, <1>16

\* A commit ends, with the channels written that were due.
LEMMA FinishPresent ==
  ASSUME YInv, running, Committing, NEW end, Finish(end), UNCHANGED memory,
         job.pc = "idle" => ~Transaction.connected /\ ioc_channels[iocid[Holder]] = {},
         \A n \in Names : /\ Right(cf'[n], n)
                          /\ \/ cf'[n].ioc = cf[n].ioc
                             \/ cf'[n].ioc \in Iocids /\ n \in ioc_channels[cf'[n].ioc]
  PROVE  (\A s \in Sessions : Follows(s)') /\ \A n \in Names : ~Due(n)' => Right(cf[n], n)'
<1>1. /\ job'.pc = "idle" /\ (\A u \in Sessions : ~Begun(u)')
      /\ \A u \in Sessions : \A n : Chained(u, n)' => Pending(u, n)
      /\ \A u \in Sessions : \A n : Pending(u, n)' => Pending(u, n)
      /\ \A u \in Sessions : u # Holder \/ job.pc # "idle" =>
           (Leaving(u) => Leaving(u)') /\ \A n : Pending(u, n) => Pending(u, n)'
      /\ UNCHANGED <<linked, fresh, sent, used>>
  BY FinishPending DEF YInv
<1>2. ioc_channels' = ioc_channels
  BY DEF memory
<1>3. ASSUME NEW n \in Names PROVE Right(cf[n], n)'
  <2>1. Right(cf'[n], n)
    OBVIOUS
  <2> QED BY <1>2, <2>1 DEF Right
<1>4. ASSUME NEW u \in Sessions PROVE Follows(u)'
  <2>1. Follows(u) /\ iocid[u] \in Iocids
    BY DEF YInv, Present, Iocids
  <2>2. WithAliases(sent[u])' = WithAliases(sent[u])
    BY <1>1 DEF WithAliases
  <2>3. u = Holder /\ job.pc = "idle" => u \notin linked /\ ioc_channels[iocid[u]] = {}
    <3> SUFFICES ASSUME u = Holder, job.pc = "idle" PROVE u \notin linked
      OBVIOUS
    <3>1. chain[u] \in Seq(Commit) /\ chain[u] # <<>>
      BY HolderFacts DEF YInv, BInv, PInv, Committing, Holder
    <3>2. Transaction = chain[u][1] /\ 1 \in 1..Len(chain[u])
      BY <3>1 DEF Transaction
    <3>3. ~chain[u][1].connected
      BY <3>2
    <3> QED BY <3>2, <3>3 DEF YInv, BInv, Ordered
  <2>4. ASSUME NEW n \in Names
        PROVE  /\ n \in ioc_channels[iocid[u]] => ~Pending(u, n)'
               /\ cf'[n].ioc = iocid[u] => ~Chained(u, n)' /\ (u \in linked => n \in WithAliases(sent[u]))
               /\ u \in linked => (n \in WithAliases(sent[u]) <=> n \in ioc_channels[iocid[u]] \/ Pending(u, n)')
    <3>1. /\ n \in ioc_channels[iocid[u]] => ~Pending(u, n)
          /\ cf[n].ioc = iocid[u] => ~Chained(u, n) /\ (u \in linked => n \in WithAliases(sent[u]))
          /\ u \in linked => (n \in WithAliases(sent[u]) <=> n \in ioc_channels[iocid[u]] \/ Pending(u, n))
      BY <2>1 DEF Follows
    <3>2. Pending(u, n) => Chained(u, n)
      BY DEF Pending, Chained
    <3>3. Pending(u, n)' => Pending(u, n)
      BY <1>1
    <3>4. Chained(u, n)' => Pending(u, n)
      BY <1>1
    <3>5. u \in linked => (Pending(u, n) => Pending(u, n)')
      BY <1>1, <2>3
    <3>6. cf'[n].ioc = iocid[u] => cf[n].ioc = iocid[u] \/ n \in ioc_channels[iocid[u]]
      OBVIOUS
    <3> QED BY <3>1, <3>2, <3>3, <3>4, <3>5, <3>6
  <2>5. u \notin linked /\ ~Leaving(u)' => ioc_channels[iocid[u]] = {}
    BY <1>1, <2>1, <2>3 DEF Follows
  <2>6. ~Begun(u)'
    BY <1>1
  <2> QED BY <1>1, <1>2, <2>2, <2>4, <2>5, <2>6 DEF Follows
<1> QED BY <1>3, <1>4

\* A session chains what it has not sent before, or its disconnect.
LEMMA FlushPresent ==
  ASSUME YInv, running, NEW s \in Sessions, Drop(s) \/ \E R \in SUBSET Recs[s] : Upload(s, R)
  PROVE  (\A u \in Sessions : Follows(u)') /\ \A n \in Names : ~Due(n)' => Right(cf[n], n)'
<1>1. /\ s \in linked
      /\ UNCHANGED <<cf, up, running, memory, job, sweep, used, faults>>
      /\ \A u \in Sessions : u # s => sent'[u] = sent[u] /\ (u \in linked' <=> u \in linked)
      /\ \E t \in Commit :
           /\ t.recs \subseteq Recs[s] /\ Flush(s, t)
           /\ \/ /\ t.connected /\ t.recs \cap sent[s] = {} /\ sent'[s] = sent[s] \cup t.recs
                 /\ linked' = linked
              \/ ~t.connected /\ t.recs = {} /\ sent'[s] = {} /\ linked' = linked \ {s}
  BY SessionFlush DEF YInv
<1>2. PICK t \in Commit :
        /\ t.recs \subseteq Recs[s] /\ Flush(s, t)
        /\ \/ /\ t.connected /\ t.recs \cap sent[s] = {} /\ sent'[s] = sent[s] \cup t.recs
              /\ linked' = linked
           \/ ~t.connected /\ t.recs = {} /\ sent'[s] = {} /\ linked' = linked \ {s}
  BY <1>1
<1>3. /\ chain[s] \in Seq(Commit) /\ chain'[s] = Append(chain[s], t)
      /\ \A u \in Sessions : u # s => chain'[u] = chain[u]
      /\ \A u \in Sessions : (Begun(u)' <=> Begun(u)) /\ (Begun(u) => chain[u] # <<>>)
      /\ job.pc \in {"find", "write"} => Holder' = Holder /\ Transaction' = Transaction
  BY <1>1, <1>2, FlushThread DEF YInv
<1>4. ioc_channels' = ioc_channels /\ cf' = cf
  BY <1>1 DEF memory
<1>5. ASSUME NEW u \in Sessions, u # s PROVE Follows(u)'
  <2>1. Follows(u)
    BY DEF YInv, Present
  <2> QED BY <1>1, <1>3, <1>4, <1>5, <2>1, SameFollows
<1>6. /\ \A n : (Pending(s, n)' <=> Pending(s, n) \/ n \in WithAliases(t.recs))
      /\ \A n : (Chained(s, n)' <=> Chained(s, n) \/ n \in WithAliases(t.recs))
      /\ Leaving(s)' <=> Leaving(s) \/ ~t.connected
      /\ \A k \in 1..Len(chain[s]) : Brings(s, k)' = Brings(s, k)
  BY <1>3, FlushPending
<1>7. /\ WithAliases(t.recs) \cap WithAliases(sent[s]) = {}
      /\ t.connected => WithAliases(sent[s])' = WithAliases(sent[s]) \cup WithAliases(t.recs)
  <2>1. sent[s] \in SUBSET Recs[s] /\ t.recs \in SUBSET Recs[s] /\ t.recs \cap sent[s] = {}
    BY <1>2 DEF YInv, Tidy
  <2>2. WithAliases(t.recs) \cap WithAliases(sent[s]) = {}
    BY <2>1, AliasesApart
  <2>3. t.connected => sent[s]' = sent[s] \cup t.recs
    BY <1>2
  <2>4. WithAliases(sent[s])' = WithAliases(sent[s]')
    BY DEF WithAliases
  <2> QED BY <2>2, <2>3, <2>4, AliasesJoin
<1>8. Follows(s) /\ (~t.connected => t.recs = {} /\ WithAliases(t.recs) = {})
  BY <1>2, AliasesJoin DEF YInv, Present
<1>9. Follows(s)'
  <2>1. ASSUME NEW n \in Names
        PROVE  /\ n \in ioc_channels[iocid[s]] => ~Pending(s, n)'
               /\ cf[n].ioc = iocid[s] => ~Chained(s, n)' /\ (s \in linked' => n \in WithAliases(sent[s])')
               /\ s \in linked' =>
                    (n \in WithAliases(sent[s])' <=> n \in ioc_channels[iocid[s]] \/ Pending(s, n)')
    <3>1. /\ n \in ioc_channels[iocid[s]] => ~Pending(s, n)
          /\ cf[n].ioc = iocid[s] => ~Chained(s, n) /\ n \in WithAliases(sent[s])
          /\ n \in WithAliases(sent[s]) <=> n \in ioc_channels[iocid[s]] \/ Pending(s, n)
      BY <1>1, <1>8 DEF Follows
    <3>2. (Pending(s, n)' <=> Pending(s, n) \/ n \in WithAliases(t.recs))
          /\ (Chained(s, n)' <=> Chained(s, n) \/ n \in WithAliases(t.recs))
      BY <1>6
    <3>3. s \in linked' => t.connected
      BY <1>2
    <3> QED BY <1>7, <3>1, <3>2, <3>3
  <2>2. ~(s \notin linked' /\ ~Leaving(s)')
    BY <1>1, <1>2, <1>6
  <2>3. Begun(s)' => Brings(s, 1)' \subseteq ioc_channels[iocid[s]]
    <3>1. Begun(s) => 1 \in 1..Len(chain[s])
      BY <1>3
    <3> QED BY <1>3, <1>6, <1>8, <3>1 DEF Follows
  <2> QED BY <1>4, <2>1, <2>2, <2>3 DEF Follows
<1>10. ASSUME NEW n \in Names, ~Due(n)' PROVE Right(cf[n], n)'
  <2>1. ~Due(n)
    <3>1. job'.pc = job.pc
      BY <1>1
    <3> QED BY <1>3, <1>4, <1>10, <3>1, SameDue
  <2>2. Right(cf[n], n)
    BY <2>1 DEF YInv, Present
  <2> QED BY <1>4, <2>2 DEF Right
<1> QED BY <1>5, <1>9, <1>10

\* A session that is opened has sent nothing, and nobody has heard of it.
LEMMA ConnectPresent ==
  ASSUME YInv, running, NEW s \in Sessions, Connect(s)
  PROVE  (\A u \in Sessions : Follows(u)') /\ \A n \in Names : ~Due(n)' => Right(cf[n], n)'
<1>1. /\ s \notin used /\ linked' = linked \cup {s}
      /\ UNCHANGED <<cf, ioc_channels, lock, job, chain, sent>>
  BY DEF Connect, memory
<1>2. chain[s] = <<>> /\ Len(chain[s]) = 0 /\ s \notin linked /\ sent[s] = {}
  BY <1>1 DEF YInv, BInv, Ordered, Tidy
<1>3. \A u \in Sessions : Begun(u)' <=> Begun(u)
  BY <1>1 DEF Begun
<1>4. Follows(s)'
  <2>1. /\ WithAliases(sent[s])' = {} /\ ioc_channels'[iocid[s]] = {}
        /\ \A n \in Names : cf'[n].ioc # iocid[s]
    <3>1. WithAliases(sent[s])' = WithAliases(sent[s])
      BY <1>1 DEF WithAliases
    <3> QED BY <1>1, <1>2, <3>1, AliasesJoin DEF YInv, Past
  <2>2. \A n : ~Pending(s, n)'
    BY <1>1, <1>2 DEF Pending
  <2>3. ~Begun(s)'
    <3>1. s \notin ToSet(lock)
      BY <1>2 DEF YInv, BInv, PInv, Queued
    <3>2. lock # <<>> => Head(lock) \in ToSet(lock)
      BY DistinctTail DEF YInv, BInv, PInv, Queued
    <3> QED BY <1>3, <3>1, <3>2 DEF Begun
  <2> QED BY <1>1, <2>1, <2>2, <2>3 DEF Follows
<1>5. ASSUME NEW u \in Sessions, u # s PROVE Follows(u)'
  <2>1. Follows(u)
    BY DEF YInv, Present
  <2> QED BY <1>1, <1>3, <1>5, <2>1, SameFollows
<1>6. ASSUME NEW n \in Names, ~Due(n)' PROVE Right(cf[n], n)'
  <2>1. Holder' = Holder /\ Transaction' = Transaction
    BY <1>1 DEF Holder, Transaction
  <2>2. ~Due(n)
    BY <1>1, <1>6, <2>1, SameDue
  <2>3. Right(cf[n], n)
    BY <2>2 DEF YInv, Present
  <2> QED BY <1>1, <2>3 DEF Right
<1> QED BY <1>4, <1>5, <1>6

\* A process begins with empty tables, no sessions and nothing Active.
LEMMA StartPresent ==
  ASSUME YInv, startService
  PROVE  (\A u \in Sessions : Follows(u)') /\ \A n \in Names : ~Due(n)' => Right(cf[n], n)'
<1>1. ~up /\ UNCHANGED <<cf, iocs, ioc_channels, lock, job, chain, linked, sent>>
  BY DEF startService, memory, sessions
<1>2. linked = {} /\ \A u \in Sessions : chain[u] = <<>> /\ iocs[iocid[u]] = Unknown /\ iocid[u] \in Iocids
  BY <1>1 DEF YInv, BInv, Known, Iocids
<1>3. \A i \in Iocids : ioc_channels[i] = {}
  BY <1>2 DEF YInv, BInv, Agree, Iocids
<1>4. ASSUME NEW u \in Sessions PROVE Follows(u)'
  <2>1. chain'[u] = <<>> /\ Len(chain'[u]) = 0 /\ ioc_channels'[iocid[u]] = {} /\ u \notin linked'
    BY <1>1, <1>2, <1>3
  <2>2. \A n : ~Pending(u, n)' /\ ~Chained(u, n)'
    BY <2>1 DEF Pending, Chained
  <2>3. ~Begun(u)'
    <3>1. u \notin ToSet(lock)
      BY <1>2 DEF YInv, BInv, PInv, Queued
    <3>2. lock # <<>> => Head(lock) \in ToSet(lock)
      BY DistinctTail DEF YInv, BInv, PInv, Queued
    <3> QED BY <1>1, <3>1, <3>2 DEF Begun
  <2> QED BY <2>1, <2>2, <2>3 DEF Follows
<1>5. ASSUME NEW n \in Names PROVE Right(cf[n], n)'
  <2>1. cf[n].status # "Active"
    BY <1>1 DEF YInv, Past
  <2> QED BY <1>1, <1>3, <2>1 DEF Right
<1> QED BY <1>4, <1>5

\* A request fails and changes nothing.
LEMMA FailPresent ==
  ASSUME Undisturbed, YInv, running, FindFails \/ WriteFails
  PROVE  (\A u \in Sessions : Follows(u)') /\ \A n \in Names : ~Due(n)' => Right(cf[n], n)'
<1>1. UNCHANGED <<cf, ioc_channels, lock, chain, linked, sent>> /\ job.pc \in {"find", "write"}
  BY DEF FindFails, WriteFails, memory, sessions, Undisturbed
<1>2. job'.pc = "find"
  <2>1. job = [pc |-> job.pc, tries |-> job.tries, towrite |-> job.towrite]
    BY DEF YInv, BInv, PInv, JobTyped
  <2> QED BY <2>1 DEF FindFails, WriteFails
<1>3. \A u \in Sessions : Begun(u)' <=> Begun(u)
  BY <1>1, <1>2 DEF Begun
<1>4. ASSUME NEW u \in Sessions PROVE Follows(u)'
  <2>1. Follows(u)
    BY DEF YInv, Present
  <2> QED BY <1>1, <1>3, <2>1, SameFollows
<1>5. ASSUME NEW n \in Names, ~Due(n)' PROVE Right(cf[n], n)'
  <2>1. Holder' = Holder /\ Transaction' = Transaction
    BY <1>1 DEF Holder, Transaction
  <2>2. ~Due(n)
    BY <1>1, <1>2, <1>5, <2>1, SameDue
  <2>3. Right(cf[n], n)
    BY <2>2 DEF YInv, Present
  <2> QED BY <1>1, <2>3 DEF Right
<1> QED BY <1>4, <1>5

\* Every step that leaves the processor running keeps what ChannelFinder owes.
LEMMA StepPresent ==
  ASSUME Undisturbed, YInv, [Next]_vars
  PROVE  Present'
<1> SUFFICES ASSUME running'
             PROVE  (\A u \in Sessions : Follows(u)') /\ \A n \in Names : ~Due(n)' => Right(cf[n], n)'
  BY DEF Present
<1>1. CASE startService
  BY <1>1, StartPresent
<1>2. CASE stopService \/ Exit
  <2>1. running' = FALSE
    BY <1>2 DEF stopService, Exit
  <2> QED BY <2>1, Zenon
<1>3. CASE BeginTool
  BY <1>3 DEF BeginTool, Undisturbed
<1>4. CASE BeginStop
  <2>1. running' = running /\ lock # <<>> /\ Head(lock) = "stop"
    BY <1>4 DEF BeginStop, Holder
  <2>2. "stop" \in ToSet(lock)
    BY <2>1, DistinctTail DEF YInv, BInv, PInv, Queued
  <2> QED BY <2>1, <2>2 DEF YInv, BInv, PInv, Held
<1>5. ASSUME NEW k \in Sweeps, SweepStep(k) PROVE FALSE
  BY <1>5, StopSweeps DEF YInv
<1>6. ASSUME NEW s \in Sessions, Connect(s)
      PROVE  (\A u \in Sessions : Follows(u)') /\ \A n \in Names : ~Due(n)' => Right(cf[n], n)'
  <2>1. running
    BY <1>6 DEF Connect
  <2> QED BY <1>6, <2>1, ConnectPresent
<1>7. ASSUME NEW s \in Sessions, Drop(s) \/ \E R \in SUBSET Recs[s] : Upload(s, R)
      PROVE  (\A u \in Sessions : Follows(u)') /\ \A n \in Names : ~Due(n)' => Right(cf[n], n)'
  <2>1. running
    BY <1>7 DEF Drop, Upload
  <2> QED BY <1>7, <2>1, FlushPresent
<1>8. CASE BeginCommit
  <2>1. /\ Committing /\ job.pc = "idle" /\ UNCHANGED <<cf, up, running, sweep, faults>>
        /\ \/ /\ (\E end : Finish(end)) /\ UNCHANGED memory
              /\ running => ~Transaction.connected /\ ioc_channels[iocid[Holder]] = {}
           \/ /\ running /\ job'.pc = "find" /\ UNCHANGED <<lock, sessions>>
              /\ ioc_channels' = [ioc_channels EXCEPT ![iocid[Holder]] =
                   IF Transaction.connected THEN @ \cup WithAliases(Transaction.recs) ELSE {}]
    BY <1>8, BeginOutcome DEF YInv
  <2>2. running
    BY <2>1
  <2>3. CASE (\E end : Finish(end)) /\ UNCHANGED memory
    <3>1. \A n \in Names : Right(cf'[n], n) /\ cf'[n].ioc = cf[n].ioc
      BY <2>1, <2>2 DEF YInv, Present, Due
    <3>2. ~Transaction.connected /\ ioc_channels[iocid[Holder]] = {}
      <4>1. CASE job'.pc = "find"
        BY <2>3, <4>1, IdleTyped DEF Finish
      <4> QED BY <2>1, <2>2, <4>1
    <3> QED BY <2>1, <2>2, <2>3, <3>1, <3>2, FinishPresent
  <2>4. CASE /\ job'.pc = "find" /\ UNCHANGED <<lock, sessions>>
             /\ ioc_channels' = [ioc_channels EXCEPT ![iocid[Holder]] =
                  IF Transaction.connected THEN @ \cup WithAliases(Transaction.recs) ELSE {}]
    <3>1. UNCHANGED <<lock, chain, linked, sent>>
      BY <2>4 DEF sessions
    <3> QED BY <2>1, <2>2, <2>4, <3>1, BeginPresent
  <2> QED BY <2>1, <2>3, <2>4
<1>9. CASE Find
  <2>1. /\ Committing /\ job.pc = "find" /\ running /\ UNCHANGED <<cf, up, running, memory, sweep, faults>>
        /\ \/ (\E end : Finish(end)) /\ \A n \in Names : ~Due(n)
           \/ UNCHANGED <<lock, sessions>> /\ job'.pc = "write" /\ Writing'
    BY <1>9, FindOutcome
  <2>2. CASE (\E end : Finish(end)) /\ \A n \in Names : ~Due(n)
    <3>1. \A n \in Names : Right(cf'[n], n) /\ cf'[n].ioc = cf[n].ioc
      BY <2>1, <2>2 DEF YInv, Present
    <3> QED BY <2>1, <2>2, <3>1, FinishPresent
  <2>3. CASE UNCHANGED <<lock, sessions>> /\ job'.pc = "write"
    <3>1. UNCHANGED <<cf, ioc_channels, lock, chain, linked, sent>>
      BY <2>1, <2>3 DEF memory, sessions
    <3>2. Holder' = Holder /\ Transaction' = Transaction /\ \A u \in Sessions : Begun(u)' <=> Begun(u)
      BY <2>1, <2>3, <3>1 DEF Holder, Transaction, Begun
    <3>3. \A n \in Names : Due(n)' <=> Due(n)
      BY <2>1, <2>3, <3>1, <3>2, SameDue
    <3>4. ASSUME NEW u \in Sessions PROVE Follows(u)'
      <4>1. Follows(u)
        BY <2>1 DEF YInv, Present
      <4> QED BY <3>1, <3>2, <4>1, SameFollows
    <3>5. \A n \in Names : ~Due(n)' => Right(cf[n], n)'
      BY <2>1, <3>1, <3>3 DEF YInv, Present, Right
    <3> QED BY <3>4, <3>5
  <2> QED BY <2>1, <2>2, <2>3
<1>10. CASE Write
  <2>1. /\ Committing /\ job.pc = "write" /\ UNCHANGED <<up, running, memory, sweep, faults>>
        /\ Finish("ok")
        /\ \A n \in Names : cf'[n] = IF n \in DOMAIN job.towrite THEN job.towrite[n] ELSE cf[n]
    BY <1>10, WriteOutcome DEF YInv
  <2>2. ASSUME NEW n \in Names
        PROVE  /\ Right(cf'[n], n)
               /\ \/ cf'[n].ioc = cf[n].ioc
                  \/ cf'[n].ioc \in Iocids /\ n \in ioc_channels[cf'[n].ioc]
    <3>1. CASE n \in DOMAIN job.towrite
      <4>1. /\ cf'[n] = job.towrite[n] /\ Right(job.towrite[n], n)
            /\ job.towrite[n].status # "Active" => job.towrite[n].ioc = cf[n].ioc
        BY <2>1, <3>1 DEF YInv, Writing
      <4> QED BY <4>1 DEF Right
    <3>2. CASE n \notin DOMAIN job.towrite
      <4>1. cf'[n] = cf[n] /\ ~Due(n)
        BY <2>1, <3>2 DEF YInv, Writing
      <4> QED BY <2>1, <4>1 DEF YInv, Present
    <3> QED BY <3>1, <3>2
  <2> QED BY <2>1, <2>2, FinishPresent
<1>11. CASE FindFails \/ WriteFails
  <2>1. running
    BY <1>11 DEF FindFails, WriteFails
  <2> QED BY <1>11, <2>1, FailPresent
<1>12. CASE GiveUp
  <2>1. ~running /\ running' = running
    BY <1>12, GiveUpStopped DEF YInv, GiveUp
  <2> QED BY <2>1
<1>13. CASE UNCHANGED vars
  <2>1. UNCHANGED <<cf, running, ioc_channels, lock, job, chain, linked, sent>>
    BY <1>13 DEF vars, memory, sessions
  <2>2. Holder' = Holder /\ Transaction' = Transaction /\ \A u \in Sessions : Begun(u)' <=> Begun(u)
    BY <2>1 DEF Holder, Transaction, Begun
  <2>3. \A n \in Names : Due(n)' <=> Due(n)
    BY <2>1, <2>2, SameDue
  <2>4. ASSUME NEW u \in Sessions PROVE Follows(u)'
    <3>1. Follows(u)
      BY <2>1 DEF YInv, Present
    <3> QED BY <2>1, <2>2, <3>1, SameFollows
  <2> QED BY <2>1, <2>3, <2>4 DEF YInv, Present, Right
<1> QED BY <1>1, <1>2, <1>3, <1>4, <1>5, <1>6, <1>7, <1>8, <1>9, <1>10, <1>11, <1>12, <1>13
        DEF Next, CommitStep

\* YInv holds at first.
LEMMA InitYInv == ASSUME Init, BInv PROVE YInv
<1>1. Stopped
  BY InitStopped
<1>2. \A s \in Sessions : Tidy(s)
  <2>1. \A s \in Sessions : chain[s] = <<>> /\ Len(chain[s]) = 0 /\ sent[s] = {}
    BY DEF Init
  <2> QED BY <2>1 DEF Tidy
<1>3. Past
  <2>1. \A n \in Names : cf[n].status = "Absent" /\ cf[n].ioc = NoIoc
    BY DEF Init, Absent
  <2>2. \A s \in Sessions : iocid[s] \in Iocids /\ iocid[s] # NoIoc /\ ioc_channels[iocid[s]] = {}
    BY NoIocAssumption DEF Init, Iocids
  <2>3. sweep["start"].pc = "off" /\ sweep["tool"].pc = "off"
    BY NoSweepTyped DEF Init, Sweeps
  <2> QED BY <2>1, <2>2, <2>3 DEF Past
<1>4. Writing
  BY IdleTyped DEF Init, Writing
<1>5. Present
  <2>1. running = FALSE
    BY DEF Init
  <2>2. ~running
    BY <2>1, Zenon
  <2> QED BY <2>2 DEF Present
<1> QED BY <1>1, <1>2, <1>3, <1>4, <1>5 DEF YInv

\* When nothing is under way what is due is written and what is sent is in the
\* tables.
LEMMA QuietInSync == ASSUME YInv PROVE InSync
<1> SUFFICES ASSUME Quiet, NEW n \in Names
             PROVE  /\ cf[n].status = "Active" <=> Announcers(n) # {}
                    /\ cf[n].status = "Active" => cf[n].ioc \in Announcers(n)
  BY DEF InSync
<1>1. running /\ lock = <<>>
  BY DEF Quiet
<1>2. \A s \in Sessions : chain[s] = <<>> /\ Len(chain[s]) = 0
  <2>1. ToSet(lock) = {}
    BY <1>1 DEF ToSet
  <2> QED BY <2>1 DEF YInv, BInv, PInv, Queued
<1>3. Right(cf[n], n)
  <2>1. ~Due(n)
    BY <1>1 DEF Due, YInv, BInv, PInv, Held
  <2> QED BY <1>1, <2>1 DEF YInv, Present
<1>4. ASSUME NEW s \in Sessions
      PROVE  n \in ioc_channels[iocid[s]] <=> s \in linked /\ n \in WithAliases(sent[s])
  <2>1. ~Pending(s, n) /\ ~Leaving(s)
    BY <1>2 DEF Pending, Leaving
  <2>2. Follows(s)
    BY <1>1 DEF YInv, Present
  <2> QED BY <2>1, <2>2 DEF Follows
<1>5. \A i \in Iocids : i \in Announcers(n) <=> n \in ioc_channels[i]
  <2> SUFFICES ASSUME NEW i \in Iocids PROVE i \in Announcers(n) <=> n \in ioc_channels[i]
    OBVIOUS
  <2>1. PICK s \in Sessions : i = iocid[s]
    BY DEF Iocids
  <2>2. i \in Announcers(n) <=> \E u \in linked : i = iocid[u] /\ n \in WithAliases(sent[u])
    BY DEF Announcers
  <2>3. linked \subseteq Sessions
    BY DEF YInv, BInv, PInv, Typed
  <2> QED BY <1>4, <2>1, <2>2, <2>3
<1>6. Announcers(n) \subseteq Iocids
  BY DEF Announcers, Iocids, YInv, BInv, PInv, Typed
<1> QED BY <1>3, <1>5, <1>6 DEF Right

\* While nothing disturbs the exchange, a quiet RecCeiver and ChannelFinder agree
\* with the IOCs: a channel is Active exactly when a connected IOC has it, under
\* the iocid of one that does.  Any number of IOCs share any records and aliases,
\* connect, upload in any portions, disconnect and are pushed in any order, with
\* failed requests retried and the service stopped and started between.
THEOREM ChannelFinderFollows ==
  ASSUME Undisturbed
  PROVE  Spec => []InSync
<1>1. Init => YInv
  BY InitBInv, InitYInv
<1>2. YInv /\ [Next]_vars => YInv'
  <2> SUFFICES ASSUME YInv, [Next]_vars PROVE YInv'
    OBVIOUS
  <2>1. BInv' /\ Stopped'
    BY StepBInv, StepStopped DEF YInv, BInv, SInv, Undisturbed
  <2>2. \A s \in Sessions : Tidy(s)'
    BY StepTidy DEF YInv
  <2> QED BY <2>1, <2>2, StepPast, StepWriting, StepPresent DEF YInv
<1>3. YInv => InSync
  BY QuietInSync
<1> QED BY <1>1, <1>2, <1>3, PTL DEF Spec
=============================================================================
